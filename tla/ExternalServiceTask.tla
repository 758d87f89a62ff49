------------------------- MODULE ExternalServiceTask -------------------------
(***************************************************************************)
(* A service task whose work is done by an external worker.  The handler   *)
(* stores an external task and waits for the notification that a worker    *)
(* has finished it; after a restart it looks the external task up first;   *)
(* when it is interrupted it aborts the external task.  The repository of  *)
(* external tasks is shared by three actors that do not wait for one       *)
(* another: the body of the handler's promise, the chain of the            *)
(* interrupting boundary event, and the worker.                            *)
(*                                                                         *)
(* A database call reads or writes when it is made; the chain goes on in a *)
(* later step, with what was read then.                                    *)
(***************************************************************************)
EXTENDS Integers

CONSTANT MaxCrashes   \* bound: how often the runtime stops and is started again

ASSUME ConstantsAssumption == MaxCrashes \in Nat

VARIABLES
  \* what the database holds
  row,         \* state of the flow node instance
  task,        \* the external task: absent, pending, or how it was finished
  created,     \* how often an external task was created for the instance
  boot,        \* how often the runtime was started again
  \* the handler
  at,          \* where the body of the handler's promise stands
  found,       \* the external task as the resumed body has read it
  recreating,  \* a resumed body has created the external task
  subscribed,  \* externalTaskSubscription
  stop,        \* where the chain of the boundary event stands
  seen,        \* the external task as that chain has read it
  settled,     \* how the promise of the handler was settled
  \* the runtime's API for workers
  worker,      \* the result that is stored and still to be published
  event        \* the notification on its way to the handler

dbVars == <<row, task, created, boot>>
bodyVars == <<at, found, recreating, subscribed>>
stopVars == <<stop, seen>>
workerVars == <<worker, event>>
vars == <<dbVars, bodyVars, stopVars, settled, workerVars>>

Init ==
  /\ row = "absent" /\ task = "absent" /\ created = 0 /\ boot = 0
  /\ at = "idle" /\ found = "absent" /\ recreating = FALSE /\ subscribed = FALSE
  /\ stop = "none" /\ seen = "absent"
  /\ settled = "none"
  /\ worker = "none" /\ event = "none"

\* The first outcome counts; that of the body does not once its promise was
\* cancelled.
Settle(how) == settled' = IF settled = "none" THEN how ELSE settled
SettleBody(how) == IF stop = "exiting" THEN UNCHANGED settled ELSE Settle(how)

\* The external task has a result; "failed" and "aborted" are errors.
Ended == {"finished", "failed", "aborted"}

-----------------------------------------------------------------------------
(* The handler                                                             *)

\* startExecution
Enter ==
  /\ at = "idle"
  /\ at' = "entering"
  /\ row' = "running"
  /\ UNCHANGED <<task, created, boot, found, recreating, subscribed, stopVars, settled, workerVars>>

\* executeHandler, up to persistOnSuspend, or until the expression for the topic
\* or the payload fails.
ExecuteHandler ==
  /\ at = "entering"
  /\ \/ /\ at' = "suspending"
        /\ row' = "suspended"
        /\ UNCHANGED settled
     \/ /\ at' = "over"
        /\ Settle("rejected")
        /\ UNCHANGED row
  /\ UNCHANGED <<task, created, boot, found, recreating, subscribed, stopVars, workerVars>>

\* executeExternalServiceTask subscribes first, and then creates the external
\* task, which may fail.
CreatesExternalTask ==
  /\ subscribed' = TRUE
  /\ \/ /\ task' = "pending"
        /\ created' = created + 1
        /\ at' = "waiting"
        /\ UNCHANGED row
     \/ /\ row' = "error"
        /\ at' = "failing"
        /\ UNCHANGED <<task, created>>

ExecuteExternalServiceTask ==
  /\ at = "suspending"
  /\ CreatesExternalTask
  /\ UNCHANGED <<boot, found, recreating, stopVars, settled, workerVars>>

\* What is done with a result: persistOnResume, or persistOnError.
Process(result) ==
  /\ row' = IF result = "finished" THEN "resumed" ELSE "error"
  /\ at' = IF result = "finished" THEN "resuming" ELSE "failing"

\* The notification reaches the handler if it is still subscribed.
ResultReceived ==
  /\ event # "none"
  /\ event' = "none"
  /\ \/ /\ subscribed
        /\ subscribed' = FALSE
        /\ Process(event)
     \/ /\ ~subscribed
        /\ UNCHANGED <<subscribed, row, at>>
  /\ UNCHANGED <<task, created, boot, found, recreating, stopVars, settled, worker>>

\* persistOnExit, whether the promise was cancelled meanwhile or not.
Finish ==
  /\ at \in {"resuming", "leaving"}
  /\ at' = "exiting"
  /\ row' = "finished"
  /\ UNCHANGED <<task, created, boot, found, recreating, subscribed, stopVars, settled, workerVars>>

Resolve ==
  /\ at = "exiting"
  /\ at' = "over"
  /\ SettleBody("resolved")
  /\ UNCHANGED <<dbVars, found, recreating, subscribed, stopVars, workerVars>>

\* persistOnError is done.  A resumed body that has created the external task
\* itself does not catch the error: its promise stays unsettled.
RejectUncaught ==
  /\ at = "failing"
  /\ at' = "over"
  /\ UNCHANGED <<dbVars, found, recreating, subscribed, stopVars, settled, workerVars>>

Reject ==
  /\ at = "failing"
  /\ at' = "over"
  /\ IF recreating THEN UNCHANGED settled ELSE SettleBody("rejected")
  /\ UNCHANGED <<dbVars, found, recreating, subscribed, stopVars, workerVars>>

-----------------------------------------------------------------------------
(* Resuming a suspended service task                                       *)

\* continueAfterSuspend asks for the external task ...
LookUp ==
  /\ at = "resumed"
  /\ at' = "looking"
  /\ found' = task
  /\ UNCHANGED <<dbVars, recreating, subscribed, stopVars, settled, workerVars>>

\* ... and creates it, or goes on with its result, or waits for that.
AlwaysCreates == TRUE
AlwaysWaits == FALSE
TaskIsMissing == found = "absent"
OnlyMissedTheNotification == found \in Ended

LookedUp ==
  /\ at = "looking"
  /\ \/ /\ TaskIsMissing
        /\ recreating' = TRUE
        /\ CreatesExternalTask
     \/ /\ ~TaskIsMissing /\ OnlyMissedTheNotification
        /\ Process(found)
        /\ UNCHANGED <<task, created, recreating, subscribed>>
     \/ /\ ~TaskIsMissing /\ ~OnlyMissedTheNotification
        /\ subscribed' = TRUE
        /\ at' = "waiting"
        /\ UNCHANGED <<row, task, created, recreating>>
  /\ UNCHANGED <<boot, found, stopVars, settled, workerVars>>

-----------------------------------------------------------------------------
(* An interrupting boundary event                                          *)

StaySubscribed == UNCHANGED subscribed
Unsubscribe == subscribed' = FALSE

\* onInterruptedCallback: unsubscribe, and abortExternalTask looks the external
\* task up.  (ActivityHandler has the interruptions before that callback is
\* installed.)
Installed == at \notin {"idle", "entering", "leaving", "resumed"}

Interrupted ==
  /\ stop = "none" /\ settled = "none" /\ Installed
  /\ stop' = "looking"
  /\ seen' = task
  /\ Unsubscribe
  /\ UNCHANGED <<dbVars, at, found, recreating, settled, workerVars>>

\* The promise is cancelled, and the event finishes the instance (when it has
\* detached the others, see ActivityHandler).
Cancelled ==
  /\ stop' = "exiting"
  /\ row' = "finished"

\* Without an external task the look-up fails, and with it the handler; its body
\* runs on.  A finished one is left alone, any other is finished with an error.
AbortNothing == UNCHANGED task
AbortTask == task' = "aborted"

AbortExternalTask ==
  /\ stop = "looking"
  /\ \/ /\ seen = "absent"
        /\ stop' = "over"
        /\ Settle("rejected")
        /\ UNCHANGED <<row, task>>
     \/ /\ seen \in Ended
        /\ Cancelled
        /\ UNCHANGED <<task, settled>>
     \/ /\ seen = "pending"
        /\ AbortTask
        /\ stop' = "aborting"
        /\ UNCHANGED <<row, settled>>
  /\ UNCHANGED <<created, boot, bodyVars, seen, workerVars>>

Aborted ==
  /\ stop = "aborting"
  /\ Cancelled
  /\ UNCHANGED <<task, created, boot, bodyVars, seen, settled, workerVars>>

\* persistOnExit is done, and the path behind the event begins.
Left ==
  /\ stop = "exiting"
  /\ stop' = "over"
  /\ Settle("interrupted")
  /\ UNCHANGED <<dbVars, bodyVars, seen, workerVars>>

-----------------------------------------------------------------------------
(* The worker, through the API of the runtime                              *)

\* A worker finishes a pending external task, with a result or an error ...
WorkerFinishes(result) ==
  /\ task = "pending"
  /\ task' = result
  /\ worker' = result
  /\ UNCHANGED <<row, created, boot, bodyVars, stopVars, settled, event>>

\* ... and the handler is notified, if it is subscribed by then.
Notify ==
  /\ worker # "none"
  /\ worker' = "none"
  /\ event' = IF subscribed THEN worker ELSE event
  /\ UNCHANGED <<dbVars, bodyVars, stopVars, settled>>

-----------------------------------------------------------------------------
(* The runtime stops and is started again                                  *)

\* Where resumeFromState lets the body of a row in this state go on.
ResumedAt(state) ==
  CASE state = "absent" -> "idle"
    [] state = "running" -> "entering"
    [] state = "suspended" -> "resumed"
    [] state = "resumed" -> "leaving"
    [] OTHER -> "over"

CrashAndResume ==
  /\ boot < MaxCrashes /\ settled \in {"none", "resolved"}
  /\ boot' = boot + 1
  /\ at' = ResumedAt(row)
  /\ settled' = CASE row = "error" -> "rejected"
                  [] row = "finished" -> "resolved"
                  [] OTHER -> "none"
  /\ found' = "absent" /\ recreating' = FALSE /\ subscribed' = FALSE
  /\ stop' = "none" /\ seen' = "absent"
  /\ worker' = "none" /\ event' = "none"
  /\ UNCHANGED <<row, task, created>>

-----------------------------------------------------------------------------
BodyStep ==
  \/ Enter \/ ExecuteHandler \/ ExecuteExternalServiceTask \/ Finish \/ Resolve \/ Reject
  \/ LookUp \/ LookedUp

StopStep == AbortExternalTask \/ Aborted \/ Left

WorkerStep == (\E result \in {"finished", "failed"} : WorkerFinishes(result)) \/ Notify

Next == BodyStep \/ ResultReceived \/ StopStep \/ WorkerStep \/ Interrupted \/ CrashAndResume

Spec == Init /\ [][Next]_vars

\* Promise chains run on, notifications are delivered, and workers finish what
\* is pending.
FairSpec ==
  Spec /\ WF_vars(BodyStep) /\ WF_vars(ResultReceived) /\ WF_vars(StopStep) /\ WF_vars(WorkerStep)

-----------------------------------------------------------------------------
(* Properties                                                              *)

Rows == {"absent", "running", "suspended", "resumed", "finished", "error"}
Places == {"idle", "entering", "suspending", "waiting", "resumed", "looking", "resuming",
           "leaving", "exiting", "failing", "over"}
TaskStates == {"absent", "pending"} \cup Ended

\* Every variable has its type.
TypeOK ==
  /\ row \in Rows /\ task \in TaskStates /\ created \in Nat /\ boot \in 0 .. MaxCrashes
  /\ at \in Places /\ found \in TaskStates /\ recreating \in BOOLEAN /\ subscribed \in BOOLEAN
  /\ stop \in {"none", "looking", "aborting", "exiting", "over"} /\ seen \in TaskStates
  /\ settled \in {"none", "resolved", "rejected", "interrupted"}
  /\ worker \in {"none", "finished", "failed"} /\ event \in {"none", "finished", "failed"}

\* One service task is one external task, however often it is restarted between
\* its suspension, the creation of the external task and its result: no worker
\* does the work twice.
OneTaskPerInstance == created <= 1

\* A service task goes on only with the result that a worker has stored, and
\* abortExternalTask never takes that result away.  (It does when a resumed
\* handler is interrupted while it looks the external task up: it subscribes
\* afterwards.)
GoesOnWithResult ==
  at = "resuming" => task = "finished" \/ (found = "pending" /\ stop # "none")

\* When an interrupted service task has been left, no worker can take its
\* external task any more.
InterruptedTaskIsClosed == settled = "interrupted" => task # "pending"

\* A result reaches the handler: one that waits for it listens, and a worker still
\* has the external task, or its result is stored and on its way.  (A restarted handler
\* may have looked the external task up before the worker finished, and listen after.)
ResultReachesHandler ==
  at = "waiting" /\ stop = "none" =>
    subscribed /\ (task = "pending" \/ worker # "none" \/ event # "none" \/ found = "pending")

\* When the body has come to its end, and so has the boundary event if there was one,
\* the handler has an outcome.  (It has none when the resumed body has created the
\* external task itself and that fails: there, nobody catches the error.)
HandlerIsSettled ==
  at = "over" /\ stop \in {"none", "over"} => settled # "none" \/ (recreating /\ row = "error")

\* Nobody is left waiting: not a handler whose body waits for a worker, and not the flow
\* node before it, when the body has come to its end.
NobodyIsLeftWaiting == ResultReachesHandler /\ HandlerIsSettled

\* The row of a finished or failed service task is not rewritten, not by a late result
\* and not after a restart, unless a boundary event has interrupted the task: cancelling
\* the promise does not stop its body.
ClosedRowStays ==
  [][row' # row => row \notin {"finished", "error"} \/ stop # "none"]_vars

\* A result is not missed by a handler that listens while the external task is
\* pending, nor by one that is restarted when it is there already ("we only
\* missed the notification").  (It is when the worker finishes between the
\* look-up of a restarted handler and its subscription.)
ResultIsNotMissed ==
  \A k \in 0 .. MaxCrashes :
    (boot = k /\ ((subscribed /\ task = "pending") \/ (at = "resumed" /\ task \in Ended)))
      ~> (settled # "none" \/ (recreating /\ row = "error") \/ boot > k)

=============================================================================
