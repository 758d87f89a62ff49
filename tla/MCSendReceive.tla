---------------------------- MODULE MCSendReceive ----------------------------
(* SendReceive for TLC: two senders that share a name and a receiver; one of *)
(* them never gives up, the other one does after two attempts.               *)
EXTENDS SendReceive

CONSTANTS s1, s2, r1, name

SameName == [t \in Tasks |-> name]
Retries == [s \in Senders |-> IF s = s1 THEN 0 ELSE 2]
=============================================================================
