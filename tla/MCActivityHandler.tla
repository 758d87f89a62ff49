-------------------------- MODULE MCActivityHandler --------------------------
(* Model values and the orders of boundary events for TLC. *)
EXTENDS ActivityHandler

CONSTANTS timer, message, signal, failure

TimerMessage == <<timer, message>>
MessageTimer == <<message, timer>>
TimerMessageFailure == <<timer, message, failure>>
FourEvents == <<timer, message, signal, failure>>
=============================================================================
