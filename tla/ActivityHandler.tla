--------------------------- MODULE ActivityHandler ---------------------------
(***************************************************************************)
(* One instance of an activity that waits for an answer (a user task; the  *)
(* manual task and the empty activity wait the same way) with its boundary *)
(* events.  The handler has several promise chains that share its fields:  *)
(*                                                                         *)
(*   main   execute or resume: attach the boundary events, run the         *)
(*          activity, detach the events, run the flow nodes that follow;   *)
(*   exec   the body of the promise that executeHandler returns, which     *)
(*          runs on when that promise is cancelled;                        *)
(*   e      the callback of a triggered boundary event: interrupt, detach, *)
(*          persistOnExit, run the flow nodes behind the event;            *)
(*   stop   the callback for the end of the process instance by            *)
(*          termination or error.                                          *)
(*                                                                         *)
(* A write to the database takes effect when it is called; the chain goes  *)
(* on in a later step.  What happens without an await in between is one    *)
(* step, or steps with nothing of another chain in between (Urgent).       *)
(***************************************************************************)
EXTENDS Integers, Sequences, SequencesExt

CONSTANTS
  Boundary,      \* the boundary events, in the order of the process model
  Timers,        \* those of them with a timer
  ErrorEvents,   \* those that catch errors; all others wait for messages
  Interrupting,  \* the timer and message events with cancelActivity set
  Stops,         \* how the process instance may be ended from outside
  Early,         \* TRUE: answers, events, stops may come before it waits
  Elapsed,       \* TRUE: a timer may fall due while the runtime is down
  Invalid,       \* TRUE: the activity's configuration may be invalid
  MaxCrashes,    \* bound: how often the runtime stops and is started again
  MaxTriggers    \* bound: instances behind one non-interrupting event

Events == ToSet(Boundary)

ASSUME ConstantsAssumption ==
  /\ Boundary \in Seq(Events) /\ IsInjective(Boundary)
  /\ Timers \cap ErrorEvents = {} /\ Timers \cup ErrorEvents \subseteq Events
  /\ Interrupting \subseteq Events \ ErrorEvents
  /\ Stops \subseteq {"terminated", "error"}
  /\ {Early, Elapsed, Invalid} \subseteq BOOLEAN
  /\ MaxCrashes \in Nat /\ MaxTriggers \in Nat

ASSUME NamesAssumption == Events \cap {"main", "stop"} = {}

\* The promise chains, and where the flow can go on behind the activity: on
\* the normal path, named "main", or behind a boundary event.
Chains == Events \cup {"main", "stop"}
Paths == Events \cup {"main"}

VARIABLES
  \* what the database holds
  row,         \* state of the activity's flow node instance
  eventRow,    \* state of the instance of each boundary event
  nextRows,    \* per path, the instances of the first flow node on it
  \* what the running process holds
  boot,        \* how often the runtime was started again
  loaded,      \* the state of the instance as this runtime found it
  at,          \* where each chain stands
  todo,        \* per chain, the handlers its detachBoundaryEvents has left
  attachLeft,  \* the boundary events attachBoundaryEvents has left
  attached,    \* attachedBoundaryEventHandlers
  live,        \* events whose timer or subscription is armed
  exec,        \* where the body of the handler promise stands
  answer,      \* the subscription to the answer the activity waits for
  installed,   \* onInterruptedCallback is the activity's, not the default
  cancelled,   \* the handler promise was cancelled: it never settles
  subscribed,  \* subscribed to the end of the process instance
  result,      \* what main goes on with when the events are detached
  stop,        \* how the process instance was ended from outside
  outcome      \* the promise that execute or resume returned

dbVars == <<row, eventRow, nextRows>>
bootVars == <<boot, loaded>>
attachVars == <<attachLeft, attached, live, todo>>
execVars == <<exec, answer, installed, cancelled>>
vars == <<dbVars, bootVars, at, attachVars, execVars, subscribed, result, stop, outcome>>

Init ==
  /\ row = "absent"
  /\ eventRow = [e \in Events |-> "absent"]
  /\ nextRows = [p \in Paths |-> 0]
  /\ boot = 0
  /\ loaded = "absent"
  /\ at = [c \in Chains |-> IF c # "main" THEN "idle"
                            ELSE IF Boundary = <<>> THEN "attached" ELSE "attach"]
  /\ todo = [c \in Chains |-> <<>>]
  /\ attachLeft = Boundary
  /\ attached = <<>>
  /\ live = {}
  /\ exec = "none"
  /\ answer = "none"
  /\ installed = FALSE
  /\ cancelled = FALSE
  /\ subscribed = TRUE
  /\ result = "next"
  /\ stop = "none"
  /\ outcome = "none"

Settle(how) == outcome' = IF outcome = "none" THEN how ELSE outcome

-----------------------------------------------------------------------------
(* afterExecute: detach the boundary events, unsubscribe, go on            *)

\* The error boundary events that canHandleError finds for the error of main.
\* Errors that speak of a termination are not handled.
Catchable == IF loaded = "terminated" THEN {} ELSE ErrorEvents

\* What chain c does once it has detached everything.
AfterDetach(c) ==
  \/ /\ c = "main" /\ result = "next"
     /\ at' = [at EXCEPT !["main"] = "next"]
     /\ UNCHANGED <<row, outcome>>
  \/ /\ c = "main" /\ result = "nothing"
     /\ at' = [at EXCEPT !["main"] = "over"]
     /\ Settle("resolved")
     /\ UNCHANGED row
  \/ /\ c = "main" /\ result = "error"
     /\ \E caught \in SUBSET Catchable :
          /\ at' = [x \in Chains |-> IF x \in caught THEN "next"
                                     ELSE IF x = "main" THEN "over" ELSE at[x]]
          /\ IF caught = {} THEN Settle("rejected") ELSE UNCHANGED outcome
     /\ UNCHANGED row
  \/ /\ c = "stop"
     /\ row' = stop
     /\ at' = [at EXCEPT !["stop"] = "exiting"]
     /\ UNCHANGED outcome
  \/ /\ c \in Events
     /\ row' = "finished"
     /\ at' = [at EXCEPT ![c] = "exiting"]
     /\ UNCHANGED outcome

\* Chain c has cancelled the handlers in `freed` and goes on with `rest`: the
\* next handler's cancel runs up to its database call, which for a timer is
\* after the timer was stopped and for a message before the unsubscription.
TimerRunsOn(list) == {}
StoppedAtOnce(list) == {e \in Timers : list # <<>> /\ e = Head(list)}
MessagesStay(freed, rest) == StoppedAtOnce(rest)
Disarmed(freed, rest) == freed \cup StoppedAtOnce(rest)

Detach(c, freed, rest) ==
  /\ todo' = [todo EXCEPT ![c] = rest]
  /\ live' = live \ Disarmed(freed, rest)
  /\ eventRow' = [e \in Events |-> IF rest # <<>> /\ e = Head(rest) THEN "finished"
                                   ELSE eventRow[e]]
  /\ \/ /\ rest # <<>>
        /\ at' = [at EXCEPT ![c] = "detach"]
        /\ UNCHANGED <<attached, subscribed, row, outcome>>
     \/ /\ rest = <<>>
        /\ attached' = <<>>
        /\ subscribed' = FALSE
        /\ AfterDetach(c)

DetachNext(c) ==
  /\ at[c] = "detach"
  /\ Detach(c, {Head(todo[c])}, Tail(todo[c]))
  /\ UNCHANGED <<nextRows, bootVars, attachLeft, execVars, result, stop>>

\* persistOnExit of an interrupted activity, or the persist of its end, is done.
Exited(c) ==
  /\ at[c] = "exiting"
  /\ \/ /\ c = "stop"
        /\ at' = [at EXCEPT !["stop"] = "over"]
        /\ Settle("rejected")
     \/ /\ c \in Events
        /\ at' = [at EXCEPT ![c] = "next"]
        /\ UNCHANGED outcome
  /\ UNCHANGED <<dbVars, bootVars, attachVars, execVars, subscribed, result, stop>>

-----------------------------------------------------------------------------
(* Triggered boundary events, and the end of the process instance          *)

\* onInterruptedCallback: stop listening and cancel the handler promise, which
\* has no effect on a promise that is settled.
ListenOn == UNCHANGED <<answer, cancelled>>
Interrupt ==
  /\ answer' = IF installed /\ answer = "open" THEN "closed" ELSE answer
  /\ cancelled' = (cancelled \/ (installed /\ exec # "done"))

\* onBoundaryEventTriggeredCallback of an interrupting event, up to its first
\* database call.
InterruptedBy(e) ==
  /\ Interrupt
  /\ Detach(e, {e}, attached)
  /\ UNCHANGED <<nextRows, bootVars, attachLeft, exec, installed, result, stop>>

\* The same for an event that does not interrupt: only the flow nodes behind it
\* are run.  The subscription to a message stays.
BranchedBy(e) ==
  /\ live' = IF e \in Timers THEN live \ {e} ELSE live
  /\ at' = [at EXCEPT ![e] = "next"]
  /\ UNCHANGED <<dbVars, bootVars, attachLeft, attached, todo, execVars, subscribed, result,
                 stop, outcome>>

\* The activity's row exists, and unless Early it has begun to wait.
MayCome == row # "absent" /\ (Early \/ exec \notin {"none", "suspending"})

\* The timer of an interrupting event expires, or its message arrives.
InterruptingEvent(e) ==
  /\ e \in live \cap Interrupting /\ MayCome
  /\ InterruptedBy(e)

\* (One trigger of an event is followed at a time.)
NonInterruptingEvent(e) ==
  /\ e \in live \ Interrupting /\ MayCome
  /\ at[e] \in {"idle", "over"} /\ nextRows[e] < MaxTriggers
  /\ BranchedBy(e)

\* The process instance is terminated or fails elsewhere: the event goes to a
\* handler that is subscribed when it is published ...
ProcessStopped(how) ==
  /\ stop = "none" /\ MayCome
  /\ stop' = how
  /\ at' = IF subscribed THEN [at EXCEPT !["stop"] = "notified"] ELSE at
  /\ UNCHANGED <<dbVars, bootVars, attachVars, execVars, subscribed, result, outcome>>

\* ... and still subscribed when the event reaches it.
StopReceived ==
  /\ at["stop"] = "notified"
  /\ \/ /\ subscribed
        /\ Interrupt
        /\ Detach("stop", {}, attached)
     \/ /\ ~subscribed
        /\ at' = [at EXCEPT !["stop"] = "over"]
        /\ UNCHANGED <<row, eventRow, todo, live, attached, subscribed, outcome, answer,
                       cancelled>>
  /\ UNCHANGED <<nextRows, bootVars, attachLeft, exec, installed, result, stop>>

-----------------------------------------------------------------------------
(* attachBoundaryEvents                                                    *)

NextUp == Head(attachLeft)

\* A boundary event without a row persists one first ...
AttachNew ==
  /\ at["main"] = "attach" /\ eventRow[NextUp] = "absent"
  /\ eventRow' = [eventRow EXCEPT ![NextUp] = "running"]
  /\ at' = [at EXCEPT !["main"] = "arming"]
  /\ UNCHANGED <<row, nextRows, bootVars, attachVars, execVars, subscribed, result, stop,
                 outcome>>

\* A chain that is detaching walks the same array, unless another one has
\* replaced it meanwhile, and so comes to an entry that is pushed now.
SharesArray(c) ==
  /\ todo[c] # <<>> /\ attached # <<>>
  /\ Last(todo[c]) = Last(attached)

\* The next event is pushed to the attached ones; the events in `armed` got
\* their timer or subscription before.
Armable(armed) == armed \ ErrorEvents

Push(armed) ==
  /\ live' = live \cup Armable(armed)
  /\ attached' = Append(attached, NextUp)
  /\ todo' = [c \in Chains |-> IF SharesArray(c) THEN Append(todo[c], NextUp) ELSE todo[c]]
  /\ attachLeft' = Tail(attachLeft)
  /\ at' = [at EXCEPT !["main"] = IF Tail(attachLeft) = <<>> THEN "attached" ELSE "attach"]
  /\ UNCHANGED <<dbVars, bootVars, execVars, subscribed, result, stop, outcome>>

\* ... and is armed then.
ArmNew ==
  /\ at["main"] = "arming"
  /\ Push({NextUp})

\* An event with a row is armed again at once, finished or not.
ArmResumed ==
  /\ at["main"] = "attach" /\ eventRow[NextUp] # "absent"
  /\ Push({NextUp})

\* The timer of such an event fell due while the runtime was down ...
ElapsedTimer ==
  /\ at["main"] = "attach" /\ eventRow[NextUp] # "absent"
  /\ Elapsed /\ NextUp \in Timers
  /\ at' = [at EXCEPT !["main"] = "due"]
  /\ UNCHANGED <<dbVars, bootVars, attachVars, execVars, subscribed, result, stop, outcome>>

\* ... resumeWait calls its callback itself ...
ElapsedTimerFires ==
  /\ at["main"] = "due" /\ at[NextUp] = "idle"
  /\ IF NextUp \in Interrupting THEN InterruptedBy(NextUp) ELSE BranchedBy(NextUp)

\* ... and the handler is pushed without a timer.
PushElapsed ==
  /\ at["main"] = "due" /\ at[NextUp] # "idle"
  /\ Push({})

-----------------------------------------------------------------------------
(* The activity                                                            *)

\* executeHandler: install the callback, subscribe to the answer, persist the
\* suspension; or find the configuration invalid.
ExecuteHandler ==
  \/ /\ installed' = TRUE
     /\ answer' = "open"
     /\ exec' = "suspending"
     /\ row' = "suspended"
     /\ at' = [at EXCEPT !["main"] = "executing"]
     /\ UNCHANGED result
  \/ /\ Invalid
     /\ row' = "error"
     /\ result' = "error"
     /\ at' = [at EXCEPT !["main"] = "failed"]
     /\ UNCHANGED <<installed, answer, exec>>

\* execute: startExecution persists the instance.
Enter ==
  /\ at["main"] = "attached" /\ loaded = "absent"
  /\ row' = "running"
  /\ at' = [at EXCEPT !["main"] = "entering"]
  /\ UNCHANGED <<eventRow, nextRows, bootVars, attachVars, execVars, subscribed, result, stop,
                 outcome>>

\* resumeFromState of an instance that was not suspended yet starts over there.
Entered ==
  /\ \/ at["main"] = "entering"
     \/ at["main"] = "attached" /\ loaded = "running"
  /\ ExecuteHandler
  /\ UNCHANGED <<eventRow, nextRows, bootVars, attachVars, cancelled, subscribed, stop, outcome>>

\* continueAfterSuspend waits for the answer again.
ResumeSuspended ==
  /\ at["main"] = "attached" /\ loaded = "suspended"
  /\ installed' = TRUE
  /\ answer' = "open"
  /\ exec' = "waiting"
  /\ at' = [at EXCEPT !["main"] = "executing"]
  /\ UNCHANGED <<dbVars, bootVars, attachVars, cancelled, subscribed, result, stop, outcome>>

\* continueAfterResume has only persistOnExit left.
ResumeResumed ==
  /\ at["main"] = "attached" /\ loaded = "resumed"
  /\ row' = "finished"
  /\ at' = [at EXCEPT !["main"] = "leaving"]
  /\ UNCHANGED <<eventRow, nextRows, bootVars, attachVars, execVars, subscribed, result, stop,
                 outcome>>

\* The answer is there: persistOnResume.
Proceed ==
  /\ row' = "resumed"
  /\ exec' = "resuming"

\* The suspension is persisted; an answer that came meanwhile is taken up.
Suspended ==
  /\ exec = "suspending"
  /\ IF answer = "given" THEN Proceed
     ELSE exec' = "waiting" /\ UNCHANGED row
  /\ UNCHANGED <<eventRow, nextRows, bootVars, at, attachVars, answer, installed, cancelled,
                 subscribed, result, stop, outcome>>

\* FinishUserTaskMessage
Answer ==
  /\ answer = "open" /\ (Early \/ exec = "waiting")
  /\ answer' = "given"
  /\ IF exec = "waiting" THEN Proceed ELSE UNCHANGED <<row, exec>>
  /\ UNCHANGED <<eventRow, nextRows, bootVars, at, attachVars, installed, cancelled, subscribed,
                 result, stop, outcome>>

\* persistOnExit, whether the handler promise was cancelled or not.
Finish ==
  /\ exec = "resuming"
  /\ row' = "finished"
  /\ exec' = "exiting"
  /\ UNCHANGED <<eventRow, nextRows, bootVars, at, attachVars, answer, installed, cancelled,
                 subscribed, result, stop, outcome>>

\* The body resolves the handler promise; main goes on unless it was cancelled.
NeverResolved == FALSE
MainGoesOn == ~cancelled

ExecDone ==
  /\ exec = "exiting"
  /\ exec' = "done"
  /\ \/ /\ MainGoesOn
        /\ Detach("main", {}, attached)
     \/ /\ ~MainGoesOn
        /\ UNCHANGED <<row, eventRow, at, todo, live, attached, subscribed, outcome>>
  /\ UNCHANGED <<nextRows, bootVars, attachLeft, answer, installed, cancelled, result, stop>>

\* afterExecute without an activity promise: after continueAfterResume, for an
\* instance that had ended before, after an error.
Leave ==
  /\ \/ at["main"] \in {"leaving", "failed"}
     \/ at["main"] = "attached" /\ loaded \in {"finished", "error", "terminated", "skip"}
  /\ Detach("main", {}, attached)
  /\ UNCHANGED <<nextRows, bootVars, attachLeft, execVars, result, stop>>

\* The first flow node on path p persists its entry; main finds an instance that
\* followed this one before a restart and resumes it.
OnlyNormalPathSettles(p) == p = "main"
PathSettles(p) ==
  \/ p = "main" \/ p \in Interrupting
  \/ p \in ErrorEvents /\ \A e \in ErrorEvents \ {p} : at[e] # "next"

PathRuns(p) ==
  /\ at[p] = "next"
  /\ at' = [at EXCEPT ![p] = "over"]
  /\ nextRows' = [nextRows EXCEPT ![p] = IF p = "main" THEN 1 ELSE @ + 1]
  /\ IF PathSettles(p) THEN Settle("resolved") ELSE UNCHANGED outcome
  /\ UNCHANGED <<row, eventRow, bootVars, attachVars, execVars, subscribed, result, stop>>

-----------------------------------------------------------------------------
(* The runtime stops and is started again                                  *)

\* getFlowNodeInstancesAfterBoundaryEvents
FollowedEvents == {e \in Events : nextRows[e] > 0}

\* resumeWithBoundaryEvents: with an event that interrupts, the activity itself
\* is not resumed.
LoadedAs == IF FollowedEvents \cap (Interrupting \cup ErrorEvents) # {} THEN "skip" ELSE row

\* The instance is resumed from its rows, also when the flow had gone on behind
\* it; a failed process instance is not.  An instance that left no row is
\* replaced by a new one.  Where a path behind a boundary event was begun, the
\* handler neither subscribes nor attaches anything, and drops what comes out of
\* the activity if it is resumed.
CrashAndResume ==
  /\ boot < MaxCrashes /\ outcome # "rejected"
  /\ boot' = boot + 1
  /\ loaded' = LoadedAs
  /\ eventRow' = IF row = "absent" THEN [e \in Events |-> "absent"] ELSE eventRow
  /\ subscribed' = (FollowedEvents = {})
  /\ attachLeft' = IF FollowedEvents = {} THEN Boundary ELSE <<>>
  /\ at' = [c \in Chains |-> IF c # "main" THEN "idle"
                             ELSE IF attachLeft' = <<>> THEN "attached" ELSE "attach"]
  /\ result' = IF loaded' \in {"error", "terminated"} THEN "error"
               ELSE IF FollowedEvents = {} THEN "next" ELSE "nothing"
  /\ todo' = [c \in Chains |-> <<>>]
  /\ attached' = <<>> /\ live' = {}
  /\ exec' = "none" /\ answer' = "none" /\ installed' = FALSE /\ cancelled' = FALSE
  /\ outcome' = "none"
  /\ UNCHANGED <<row, nextRows, stop>>
-----------------------------------------------------------------------------
\* Steps that follow one another without an await.
Urgent == at["main"] \in {"due", "attached"}

AttachStep == AttachNew \/ ArmNew \/ ArmResumed \/ ElapsedTimer
UrgentStep == ElapsedTimerFires \/ PushElapsed \/ Enter \/ ResumeSuspended \/ ResumeResumed
ChainStep(c) == DetachNext(c) \/ Exited(c)
ActivityStep == Entered \/ Suspended \/ Finish \/ ExecDone \/ Leave

Running ==
  \/ AttachStep
  \/ ActivityStep
  \/ StopReceived
  \/ \E c \in Chains : ChainStep(c)
  \/ \E p \in Paths : PathRuns(p)

Environment ==
  \/ Answer
  \/ \E e \in Events : InterruptingEvent(e) \/ NonInterruptingEvent(e)
  \/ \E how \in Stops : ProcessStopped(how)
  \/ CrashAndResume

Next == IF Urgent THEN UrgentStep \/ Entered \/ Leave ELSE Running \/ Environment

Spec == Init /\ [][Next]_vars

\* Every chain that is not waiting for the outside runs on, and the activity is
\* answered in the end.
Fairness ==
  /\ WF_vars(Urgent /\ Next)
  /\ WF_vars(~Urgent /\ AttachStep)
  /\ WF_vars(~Urgent /\ ActivityStep)
  /\ WF_vars(~Urgent /\ StopReceived)
  /\ WF_vars(~Urgent /\ Answer)
  /\ \A c \in Chains : WF_vars(~Urgent /\ ChainStep(c))
  /\ \A p \in Paths : WF_vars(~Urgent /\ PathRuns(p))

FairSpec == Spec /\ Fairness

-----------------------------------------------------------------------------
(* Properties                                                              *)

RowStates == {"absent", "running", "suspended", "resumed", "finished", "terminated", "error"}
MainPlaces == {"attach", "arming", "due", "attached", "entering", "executing", "leaving",
               "failed", "detach", "next", "over"}
OtherPlaces == {"idle", "notified", "detach", "exiting", "next", "over"}

\* Every variable has its type.
TypeOK ==
  /\ row \in RowStates
  /\ eventRow \in [Events -> {"absent", "running", "finished"}]
  /\ nextRows \in [Paths -> Nat]
  /\ boot \in 0 .. MaxCrashes
  /\ loaded \in RowStates \cup {"skip"}
  /\ DOMAIN at = Chains
  /\ at["main"] \in MainPlaces
  /\ \A c \in Chains \ {"main"} : at[c] \in OtherPlaces
  /\ todo \in [Chains -> Seq(Events)]
  /\ attachLeft \in Seq(Events)
  /\ attached \in Seq(Events)
  /\ live \subseteq Events \ ErrorEvents
  /\ exec \in {"none", "suspending", "waiting", "resuming", "exiting", "done"}
  /\ answer \in {"none", "open", "given", "closed"}
  /\ {installed, cancelled, subscribed} \subseteq BOOLEAN
  /\ result \in {"next", "nothing", "error"}
  /\ stop \in {"none", "terminated", "error"}
  /\ outcome \in {"none", "resolved", "rejected"}

\* The flow has gone or is about to go on path p.
Taken(p) == nextRows[p] > 0 \/ at[p] = "next"

\* "Interruption will already have happended, when this path is finished, so
\* there is no danger of running this handler twice": an activity is left on its
\* normal path or behind one interrupting event, never on two of them.
ExclusivePaths ==
  \A p, q \in Interrupting \cup ErrorEvents \cup {"main"} :
    Taken(p) /\ Taken(q) => p = q \/ {p, q} \subseteq ErrorEvents

\* The row goes through the life cycle of FlowNodeInstance, across restarts too.
Lifecycle == INSTANCE FlowNodeInstance WITH state <- row
ImplementsFlowNodeInstance == Lifecycle!Spec

\* Two chains have detached since the restart, at a time when the resumed handler may
\* still have been attaching: the one that ends later drops a list it never walked.
IsTriggered(c) == at[c] \notin {"idle", "notified"}
DetachedTwice ==
  /\ boot > 0 /\ (Early \/ Elapsed)
  /\ \E c, d \in Interrupting \cup {"stop"} : c # d /\ IsTriggered(c) /\ IsTriggered(d)

\* An armed boundary event is always in the list from which detachBoundaryEvents will
\* take it, and whoever is detaching has it still before him; none is armed once main
\* has gone on: no timer or subscription outlives the activity.
NothingStaysArmed ==
  \/ DetachedTwice
  \/ /\ live \subseteq ToSet(attached)
     /\ \A c \in Chains : at[c] = "detach" => live \subseteq ToSet(todo[c])
     /\ at["main"] \in {"next", "over"} => live = {}

\* When the handler's promise is settled nobody can answer the activity any more.
ClosedWhenSettled == outcome # "none" => answer # "open"

\* As long as the handler's promise is not settled, somebody is on the way to it: main, an
\* activity that was not cancelled and has not lost its answer, or a chain that interrupts
\* it or goes on behind an error, however many of them come in between.
Drives(c) == at[c] \in {"detach", "exiting", "next"}
SomebodyDrives ==
  outcome = "none" =>
    \/ at["main"] \notin {"executing", "over"}
    \/ /\ at["main"] = "executing" /\ ~cancelled /\ exec \notin {"none", "done"}
       /\ exec = "waiting" => answer = "open"
    \/ \E c \in Interrupting \cup ErrorEvents \cup {"stop"} : Drives(c)

\* No boundary event starts a path once the flow node behind the activity has
\* been reached, not even when the finished activity is resumed.
EventsEndWithActivity ==
  [][\A e \in Events : nextRows["main"] > 0 /\ at[e] # "next" => at'[e] # "next"]_vars

\* The promise that the previous flow node waits for settles, whatever is
\* interrupted or cancelled on the way.
HandlerSettles == <>(outcome # "none")

\* Somebody else has the last word: an interrupting event, an error, or the end
\* of the process instance.
LeftOtherwise ==
  \/ \E e \in Interrupting \cup ErrorEvents : nextRows[e] > 0
  \/ row \in {"error", "terminated"} \/ stop # "none"

\* An activity that no event interrupts and no error or stop ends is followed by
\* the next flow node: "This must be done for all resumptions, to account for
\* non-interrupting BoundaryEvents."
FlowGoesOn == <>(nextRows["main"] > 0 \/ LeftOtherwise)

\* The same, but for a restart after an event that did not interrupt.
FlowGoesOnBarEvents ==
  <>(nextRows["main"] > 0 \/ LeftOtherwise \/ (boot > 0 /\ FollowedEvents # {}))

=============================================================================
