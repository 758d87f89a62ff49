---------------------- MODULE ExternalServiceTaskProofs ----------------------
(***************************************************************************)
(* Proofs about ExternalServiceTask, for any number of restarts.  What the *)
(* body, the boundary event and the worker know of the external task is    *)
(* out of date when they use it; the invariant says how far it can be.     *)
(***************************************************************************)
EXTENDS ExternalServiceTask, TLAPS

\* The parts of TypeOK: finite values, Booleans and numbers.
Values ==
  /\ row \in Rows /\ task \in TaskStates /\ at \in Places /\ found \in TaskStates
  /\ stop \in {"none", "looking", "aborting", "exiting", "over"} /\ seen \in TaskStates
  /\ settled \in {"none", "resolved", "rejected", "interrupted"}
  /\ worker \in {"none", "finished", "failed"} /\ event \in {"none", "finished", "failed"}
Flags == recreating \in BOOLEAN /\ subscribed \in BOOLEAN
Counters == created \in Nat /\ boot \in 0 .. MaxCrashes

\* The external task is created once, by a body that knows there is none.
CreatedOnce ==
  /\ created \in {0, 1} /\ (created = 0 <=> task = "absent")
  /\ row \in {"absent", "running"} => task = "absent"
  /\ at = "idle" => row = "absent"
  /\ at = "entering" => row = "running"
  /\ at = "suspending" => row = "suspended" /\ task = "absent"
  /\ at \in {"resumed", "looking"} => row \notin {"absent", "running"}
  /\ at = "looking" /\ found = "absent" => task = "absent"

\* What was read of an external task that has ended is still right; a body that
\* read a result did so before the boundary event asked.
KnownResults ==
  /\ found # "absent" => task # "absent"
  /\ seen # "absent" => task # "absent"
  /\ found \in Ended => task \in Ended
  /\ seen \in Ended => task \in Ended
  /\ found = "finished" => task = "finished"
  /\ found \in Ended /\ stop # "none" => seen \in Ended
  /\ stop = "none" => seen = "absent"
  /\ ~Installed => stop = "none"

\* The resumed body subscribes although it was interrupted during its look-up.
LateSubscription == found = "pending" /\ stop # "none"

\* A result that is on its way to the body, or has reached it, is stored, and no
\* boundary event is about to abort the external task.
DeliveredResults ==
  /\ worker # "none" \/ event # "none" => task \in Ended
  /\ event = "finished" => task = "finished" \/ stop # "none"
  /\ worker = "finished" => task = "finished" \/ stop # "none"
  /\ subscribed /\ event = "finished" => task = "finished" \/ LateSubscription
  /\ subscribed /\ worker = "finished" => task = "finished" \/ LateSubscription
  /\ subscribed /\ seen = "pending" => LateSubscription
  /\ at = "resuming" /\ seen = "pending" => LateSubscription
  /\ at = "resuming" => task = "finished" \/ LateSubscription

\* The boundary event leaves the activity with the external task ended.
ClosedTasks ==
  /\ stop \in {"aborting", "exiting"} => task \in Ended
  /\ settled = "interrupted" => task \in Ended

IInv == TypeOK /\ CreatedOnce /\ KnownResults /\ DeliveredResults /\ ClosedTasks

LEMMA TypeParts == (TypeOK <=> Values /\ Flags /\ Counters) /\ (TypeOK' <=> Values' /\ Flags' /\ Counters')
  BY DEF TypeOK, Values, Flags, Counters

LEMMA InitHolds == ASSUME Init PROVE IInv
<1>1. Counters
  BY ConstantsAssumption DEF Init, Counters
<1>2. Flags
  BY DEF Init, Flags
<1>3. Values
  BY DEF Init, Values, Rows, Places, TaskStates, Ended
<1>4. CreatedOnce
  BY DEF Init, CreatedOnce
<1>5. KnownResults
  BY DEF Init, KnownResults, Installed, Ended
<1>6. DeliveredResults
  BY DEF Init, DeliveredResults, LateSubscription, Ended
<1>7. ClosedTasks
  BY DEF Init, ClosedTasks, Ended
<1> QED
  BY <1>1, <1>2, <1>3, <1>4, <1>5, <1>6, <1>7, TypeParts DEF IInv

LEMMA Counting == ASSUME IInv, [Next]_vars PROVE Counters'
<1> USE TypeParts DEF IInv, Counters
<1>1. CASE Enter
  BY <1>1 DEF Enter, stopVars, workerVars
<1>2. CASE ExecuteHandler
  BY <1>2 DEF ExecuteHandler, stopVars, workerVars
<1>3. CASE ExecuteExternalServiceTask
  BY <1>3 DEF ExecuteExternalServiceTask, CreatesExternalTask, stopVars, workerVars
<1>4. CASE Finish
  BY <1>4 DEF Finish, stopVars, workerVars
<1>5. CASE Resolve
  BY <1>5 DEF Resolve, SettleBody, dbVars, stopVars, workerVars
<1>6. CASE Reject
  BY <1>6 DEF Reject, SettleBody, dbVars, stopVars, workerVars
<1>7. CASE LookUp
  BY <1>7 DEF LookUp, dbVars, stopVars, workerVars
<1>8. CASE LookedUp
  BY <1>8 DEF LookedUp, CreatesExternalTask, stopVars, workerVars
<1>9. CASE ResultReceived
  BY <1>9 DEF ResultReceived, stopVars
<1>10. CASE AbortExternalTask
  BY <1>10 DEF AbortExternalTask, bodyVars, workerVars
<1>11. CASE Aborted
  BY <1>11 DEF Aborted, bodyVars, workerVars
<1>12. CASE Left
  BY <1>12 DEF Left, dbVars, bodyVars, workerVars
<1>13. CASE \E result \in {"finished", "failed"} : WorkerFinishes(result)
  BY <1>13 DEF WorkerFinishes, bodyVars, stopVars
<1>14. CASE Notify
  BY <1>14 DEF Notify, dbVars, bodyVars, stopVars
<1>15. CASE Interrupted
  BY <1>15 DEF Interrupted, dbVars, workerVars
<1>16. CASE CrashAndResume
  BY <1>16, ConstantsAssumption DEF CrashAndResume, ResumedAt
<1>17. CASE UNCHANGED vars
  BY <1>17 DEF vars, dbVars, bodyVars, stopVars, workerVars
<1> QED
  BY <1>1, <1>2, <1>3, <1>4, <1>5, <1>6, <1>7, <1>8, <1>9, <1>10, <1>11, <1>12, <1>13, <1>14, <1>15, <1>16, <1>17 DEF Next, BodyStep, StopStep, WorkerStep

LEMMA Flagging == ASSUME IInv, [Next]_vars PROVE Flags'
<1> USE TypeParts DEF IInv, Flags
<1>1. CASE Enter
  BY <1>1 DEF Enter, stopVars, workerVars
<1>2. CASE ExecuteHandler
  BY <1>2 DEF ExecuteHandler, stopVars, workerVars
<1>3. CASE ExecuteExternalServiceTask
  BY <1>3 DEF ExecuteExternalServiceTask, CreatesExternalTask, stopVars, workerVars
<1>4. CASE Finish
  BY <1>4 DEF Finish, stopVars, workerVars
<1>5. CASE Resolve
  BY <1>5 DEF Resolve, SettleBody, dbVars, stopVars, workerVars
<1>6. CASE Reject
  BY <1>6 DEF Reject, SettleBody, dbVars, stopVars, workerVars
<1>7. CASE LookUp
  BY <1>7 DEF LookUp, dbVars, stopVars, workerVars
<1>8. CASE LookedUp
  BY <1>8 DEF LookedUp, CreatesExternalTask, stopVars, workerVars
<1>9. CASE ResultReceived
  BY <1>9 DEF ResultReceived, stopVars
<1>10. CASE AbortExternalTask
  BY <1>10 DEF AbortExternalTask, bodyVars, workerVars
<1>11. CASE Aborted
  BY <1>11 DEF Aborted, bodyVars, workerVars
<1>12. CASE Left
  BY <1>12 DEF Left, dbVars, bodyVars, workerVars
<1>13. CASE \E result \in {"finished", "failed"} : WorkerFinishes(result)
  BY <1>13 DEF WorkerFinishes, bodyVars, stopVars
<1>14. CASE Notify
  BY <1>14 DEF Notify, dbVars, bodyVars, stopVars
<1>15. CASE Interrupted
  BY <1>15 DEF Interrupted, Unsubscribe, dbVars, workerVars
<1>16. CASE CrashAndResume
  BY <1>16 DEF CrashAndResume, ResumedAt
<1>17. CASE UNCHANGED vars
  BY <1>17 DEF vars, dbVars, bodyVars, stopVars, workerVars
<1> QED
  BY <1>1, <1>2, <1>3, <1>4, <1>5, <1>6, <1>7, <1>8, <1>9, <1>10, <1>11, <1>12, <1>13, <1>14, <1>15, <1>16, <1>17 DEF Next, BodyStep, StopStep, WorkerStep

LEMMA Valuing == ASSUME IInv, [Next]_vars PROVE Values'
<1> USE TypeParts DEF IInv, Values, Rows, Places, TaskStates, Ended
<1>1. CASE Enter
  BY <1>1 DEF Enter, stopVars, workerVars
<1>2. CASE ExecuteHandler
  BY <1>2 DEF ExecuteHandler, Settle, stopVars, workerVars
<1>3. CASE ExecuteExternalServiceTask
  BY <1>3 DEF ExecuteExternalServiceTask, CreatesExternalTask, stopVars, workerVars
<1>4. CASE Finish
  BY <1>4 DEF Finish, stopVars, workerVars
<1>5. CASE Resolve
  BY <1>5 DEF Resolve, SettleBody, dbVars, stopVars, workerVars, Settle
<1>6. CASE Reject
  BY <1>6 DEF Reject, SettleBody, dbVars, stopVars, workerVars, Settle
<1>7. CASE LookUp
  BY <1>7 DEF LookUp, dbVars, stopVars, workerVars
<1>8. CASE LookedUp
  BY <1>8 DEF LookedUp, CreatesExternalTask, OnlyMissedTheNotification, Process, stopVars, workerVars
<1>9. CASE ResultReceived
  BY <1>9 DEF ResultReceived, Process, stopVars
<1>10. CASE AbortExternalTask
  BY <1>10 DEF AbortExternalTask, Settle, Cancelled, AbortTask, bodyVars, workerVars
<1>11. CASE Aborted
  BY <1>11 DEF Aborted, Cancelled, bodyVars, workerVars
<1>12. CASE Left
  BY <1>12 DEF Left, Settle, dbVars, bodyVars, workerVars
<1>13. CASE \E result \in {"finished", "failed"} : WorkerFinishes(result)
  BY <1>13 DEF WorkerFinishes, bodyVars, stopVars
<1>14. CASE Notify
  BY <1>14 DEF Notify, dbVars, bodyVars, stopVars
<1>15. CASE Interrupted
  BY <1>15 DEF Interrupted, dbVars, workerVars
<1>16. CASE CrashAndResume
  BY <1>16 DEF CrashAndResume, ResumedAt
<1>17. CASE UNCHANGED vars
  BY <1>17 DEF vars, dbVars, bodyVars, stopVars, workerVars
<1> QED
  BY <1>1, <1>2, <1>3, <1>4, <1>5, <1>6, <1>7, <1>8, <1>9, <1>10, <1>11, <1>12, <1>13, <1>14, <1>15, <1>16, <1>17 DEF Next, BodyStep, StopStep, WorkerStep

LEMMA Creation == ASSUME IInv, [Next]_vars PROVE CreatedOnce'
<1> USE TypeParts DEF IInv, Counters, Values, Rows, Places, TaskStates, CreatedOnce, KnownResults, Ended
<1>1. CASE Enter
  BY <1>1 DEF Enter, stopVars, workerVars
<1>2. CASE ExecuteHandler
  BY <1>2 DEF ExecuteHandler, Settle, stopVars, workerVars
<1>3. CASE ExecuteExternalServiceTask
  BY <1>3 DEF ExecuteExternalServiceTask, CreatesExternalTask, stopVars, workerVars
<1>4. CASE Finish
  BY <1>4 DEF Finish, stopVars, workerVars
<1>5. CASE Resolve
  BY <1>5 DEF Resolve, SettleBody, dbVars, stopVars, workerVars, Settle
<1>6. CASE Reject
  BY <1>6 DEF Reject, SettleBody, dbVars, stopVars, workerVars, Settle
<1>7. CASE LookUp
  BY <1>7 DEF LookUp, dbVars, stopVars, workerVars
<1>8. CASE LookedUp
  <2>1. CASE found = "absent"
    <3>1. task = "absent"
      BY <1>8, <2>1 DEF LookedUp
    <3>2. row' \in {row, "error"} /\ at' \in {"waiting", "failing"} /\ found' = found
      BY <1>8, <2>1 DEF LookedUp, TaskIsMissing, CreatesExternalTask
    <3>3. \/ row' = "error" /\ UNCHANGED <<task, created>>
          \/ row' = row /\ task' = "pending" /\ created' = created + 1
      BY <1>8, <2>1 DEF LookedUp, TaskIsMissing, CreatesExternalTask
    <3> QED
      BY <1>8, <3>1, <3>2, <3>3 DEF LookedUp
  <2>2. CASE found # "absent"
    <3>1. row' \in {row, "resumed", "error"} /\ at' \in {"resuming", "failing", "waiting"}
      BY <1>8, <2>2 DEF LookedUp, TaskIsMissing, Process
    <3>2. UNCHANGED <<task, created>>
      BY <1>8, <2>2 DEF LookedUp, TaskIsMissing
    <3> QED
      BY <1>8, <2>2, <3>1, <3>2 DEF LookedUp
  <2> QED
    BY <2>1, <2>2
<1>9. CASE ResultReceived
  BY <1>9 DEF ResultReceived, Process, stopVars
<1>10. CASE AbortExternalTask
  BY <1>10 DEF AbortExternalTask, Settle, Cancelled, AbortTask, bodyVars, workerVars
<1>11. CASE Aborted
  BY <1>11 DEF Aborted, Cancelled, bodyVars, workerVars, Installed, ClosedTasks
<1>12. CASE Left
  BY <1>12 DEF Left, Settle, dbVars, bodyVars, workerVars
<1>13. CASE \E result \in {"finished", "failed"} : WorkerFinishes(result)
  BY <1>13 DEF WorkerFinishes, bodyVars, stopVars
<1>14. CASE Notify
  BY <1>14 DEF Notify, dbVars, bodyVars, stopVars
<1>15. CASE Interrupted
  BY <1>15 DEF Interrupted, Unsubscribe, dbVars, workerVars
<1>16. CASE CrashAndResume
  BY <1>16 DEF CrashAndResume, ResumedAt
<1>17. CASE UNCHANGED vars
  BY <1>17 DEF vars, dbVars, bodyVars, stopVars, workerVars
<1> QED
  BY <1>1, <1>2, <1>3, <1>4, <1>5, <1>6, <1>7, <1>8, <1>9, <1>10, <1>11, <1>12, <1>13, <1>14, <1>15, <1>16, <1>17 DEF Next, BodyStep, StopStep, WorkerStep

LEMMA Results == ASSUME IInv, [Next]_vars PROVE KnownResults'
<1> USE TypeParts DEF IInv, Values, TaskStates, CreatedOnce, KnownResults, Ended, Installed
<1>1. CASE Enter
  BY <1>1 DEF Enter, stopVars, workerVars
<1>2. CASE ExecuteHandler
  BY <1>2 DEF ExecuteHandler, Settle, stopVars, workerVars
<1>3. CASE ExecuteExternalServiceTask
  BY <1>3 DEF ExecuteExternalServiceTask, CreatesExternalTask, stopVars, workerVars
<1>4. CASE Finish
  BY <1>4 DEF Finish, stopVars, workerVars
<1>5. CASE Resolve
  BY <1>5 DEF Resolve, SettleBody, dbVars, stopVars, workerVars, Settle
<1>6. CASE Reject
  BY <1>6 DEF Reject, SettleBody, dbVars, stopVars, workerVars, Settle
<1>7. CASE LookUp
  BY <1>7 DEF LookUp, dbVars, stopVars, workerVars
<1>8. CASE LookedUp
  BY <1>8 DEF LookedUp, TaskIsMissing, CreatesExternalTask, OnlyMissedTheNotification, Process, stopVars, workerVars
<1>9. CASE ResultReceived
  BY <1>9 DEF ResultReceived, Process, stopVars
<1>10. CASE AbortExternalTask
  BY <1>10 DEF AbortExternalTask, Settle, Cancelled, AbortTask, bodyVars, workerVars
<1>11. CASE Aborted
  BY <1>11 DEF Aborted, Cancelled, bodyVars, workerVars
<1>12. CASE Left
  BY <1>12 DEF Left, Settle, dbVars, bodyVars, workerVars
<1>13. CASE \E result \in {"finished", "failed"} : WorkerFinishes(result)
  BY <1>13 DEF WorkerFinishes, bodyVars, stopVars
<1>14. CASE Notify
  BY <1>14 DEF Notify, dbVars, bodyVars, stopVars
<1>15. CASE Interrupted
  BY <1>15 DEF Interrupted, Unsubscribe, dbVars, workerVars
<1>16. CASE CrashAndResume
  BY <1>16 DEF CrashAndResume, ResumedAt
<1>17. CASE UNCHANGED vars
  BY <1>17 DEF vars, dbVars, bodyVars, stopVars, workerVars
<1> QED
  BY <1>1, <1>2, <1>3, <1>4, <1>5, <1>6, <1>7, <1>8, <1>9, <1>10, <1>11, <1>12, <1>13, <1>14, <1>15, <1>16, <1>17 DEF Next, BodyStep, StopStep, WorkerStep

LEMMA Delivery == ASSUME IInv, [Next]_vars PROVE DeliveredResults'
<1> USE TypeParts DEF IInv, Values, TaskStates, CreatedOnce, KnownResults, DeliveredResults, LateSubscription, Ended
<1>1. CASE Enter
  BY <1>1 DEF Enter, stopVars, workerVars
<1>2. CASE ExecuteHandler
  BY <1>2 DEF ExecuteHandler, Settle, stopVars, workerVars
<1>3. CASE ExecuteExternalServiceTask
  BY <1>3 DEF ExecuteExternalServiceTask, CreatesExternalTask, stopVars, workerVars
<1>4. CASE Finish
  BY <1>4 DEF Finish, stopVars, workerVars
<1>5. CASE Resolve
  BY <1>5 DEF Resolve, SettleBody, dbVars, stopVars, workerVars, Settle
<1>6. CASE Reject
  BY <1>6 DEF Reject, SettleBody, dbVars, stopVars, workerVars, Settle
<1>7. CASE LookUp
  BY <1>7 DEF LookUp, dbVars, stopVars, workerVars, Installed
<1>8. CASE LookedUp
  BY <1>8 DEF LookedUp, TaskIsMissing, CreatesExternalTask, OnlyMissedTheNotification, Process, stopVars, workerVars
<1>9. CASE ResultReceived
  BY <1>9 DEF ResultReceived, Process, stopVars
<1>10. CASE AbortExternalTask
  BY <1>10 DEF AbortExternalTask, Settle, Cancelled, AbortTask, bodyVars, workerVars
<1>11. CASE Aborted
  BY <1>11 DEF Aborted, Cancelled, bodyVars, workerVars
<1>12. CASE Left
  BY <1>12 DEF Left, Settle, dbVars, bodyVars, workerVars
<1>13. CASE \E result \in {"finished", "failed"} : WorkerFinishes(result)
  BY <1>13 DEF WorkerFinishes, bodyVars, stopVars
<1>14. CASE Notify
  BY <1>14 DEF Notify, dbVars, bodyVars, stopVars
<1>15. CASE Interrupted
  BY <1>15 DEF Interrupted, Unsubscribe, dbVars, workerVars, Installed
<1>16. CASE CrashAndResume
  BY <1>16 DEF CrashAndResume, ResumedAt
<1>17. CASE UNCHANGED vars
  BY <1>17 DEF vars, dbVars, bodyVars, stopVars, workerVars
<1> QED
  BY <1>1, <1>2, <1>3, <1>4, <1>5, <1>6, <1>7, <1>8, <1>9, <1>10, <1>11, <1>12, <1>13, <1>14, <1>15, <1>16, <1>17 DEF Next, BodyStep, StopStep, WorkerStep

LEMMA Closing == ASSUME IInv, [Next]_vars PROVE ClosedTasks'
<1> USE TypeParts DEF IInv, Values, TaskStates, CreatedOnce, KnownResults, DeliveredResults, ClosedTasks, Ended
<1>1. CASE Enter
  BY <1>1 DEF Enter, stopVars, workerVars
<1>2. CASE ExecuteHandler
  BY <1>2 DEF ExecuteHandler, Settle, stopVars, workerVars
<1>3. CASE ExecuteExternalServiceTask
  BY <1>3 DEF ExecuteExternalServiceTask, CreatesExternalTask, stopVars, workerVars
<1>4. CASE Finish
  BY <1>4 DEF Finish, stopVars, workerVars
<1>5. CASE Resolve
  BY <1>5 DEF Resolve, SettleBody, dbVars, stopVars, workerVars, Settle
<1>6. CASE Reject
  BY <1>6 DEF Reject, SettleBody, dbVars, stopVars, workerVars, Settle
<1>7. CASE LookUp
  BY <1>7 DEF LookUp, dbVars, stopVars, workerVars
<1>8. CASE LookedUp
  BY <1>8 DEF LookedUp, TaskIsMissing, CreatesExternalTask, OnlyMissedTheNotification, Process, stopVars, workerVars
<1>9. CASE ResultReceived
  BY <1>9 DEF ResultReceived, Process, stopVars
<1>10. CASE AbortExternalTask
  BY <1>10 DEF AbortExternalTask, Settle, Cancelled, AbortTask, bodyVars, workerVars
<1>11. CASE Aborted
  BY <1>11 DEF Aborted, Cancelled, bodyVars, workerVars
<1>12. CASE Left
  BY <1>12 DEF Left, Settle, dbVars, bodyVars, workerVars
<1>13. CASE \E result \in {"finished", "failed"} : WorkerFinishes(result)
  BY <1>13 DEF WorkerFinishes, bodyVars, stopVars
<1>14. CASE Notify
  BY <1>14 DEF Notify, dbVars, bodyVars, stopVars
<1>15. CASE Interrupted
  BY <1>15 DEF Interrupted, Unsubscribe, dbVars, workerVars, Installed
<1>16. CASE CrashAndResume
  BY <1>16 DEF CrashAndResume, ResumedAt
<1>17. CASE UNCHANGED vars
  BY <1>17 DEF vars, dbVars, bodyVars, stopVars, workerVars
<1> QED
  BY <1>1, <1>2, <1>3, <1>4, <1>5, <1>6, <1>7, <1>8, <1>9, <1>10, <1>11, <1>12, <1>13, <1>14, <1>15, <1>16, <1>17 DEF Next, BodyStep, StopStep, WorkerStep

LEMMA StepHolds == ASSUME IInv, [Next]_vars PROVE IInv'
  BY TypeParts, Counting, Flagging, Valuing, Creation, Results, Delivery, Closing DEF IInv

LEMMA Inductive == Spec => []IInv
  BY InitHolds, StepHolds, PTL DEF Spec

\* Every variable keeps its type.
THEOREM ExternalTaskTypes == Spec => []TypeOK
<1>1. IInv => TypeOK
  BY DEF IInv
<1> QED
  BY <1>1, Inductive, PTL

\* No instance of a service task has two external tasks, so that no worker does
\* its work twice, however often the runtime is restarted and wherever.
THEOREM OneTask == Spec => []OneTaskPerInstance
<1>1. IInv => OneTaskPerInstance
  BY DEF IInv, CreatedOnce, OneTaskPerInstance
<1> QED
  BY <1>1, Inductive, PTL

\* A service task goes on only with a stored result, which an interruption does
\* not take away, unless it comes during the look-up of a resumed handler.
THEOREM GoesOnWithStoredResult == Spec => []GoesOnWithResult
<1>1. IInv => GoesOnWithResult
  BY DEF IInv, DeliveredResults, LateSubscription, GoesOnWithResult
<1> QED
  BY <1>1, Inductive, PTL

\* The external task of a service task that was left behind a boundary event is
\* not open to workers any more.
THEOREM InterruptedIsClosed == Spec => []InterruptedTaskIsClosed
<1>1. IInv => InterruptedTaskIsClosed
  BY DEF IInv, ClosedTasks, Ended, InterruptedTaskIsClosed
<1> QED
  BY <1>1, Inductive, PTL

-----------------------------------------------------------------------------
(* Nobody waits in vain, and what is closed stays closed                   *)

\* As long as no boundary event disturbs it, the body stands where its row is, and a
\* result can only reach it while it waits.
RowOfBody ==
  stop = "none" =>
    /\ at \in {"waiting", "resumed", "looking"} => row = "suspended"
    /\ at \in {"resuming", "leaving"} => row = "resumed"
    /\ at = "exiting" => row = "finished"
    /\ at = "failing" => row = "error"
    /\ at = "over" => settled # "none" \/ (recreating /\ row = "error")
    /\ subscribed => at = "waiting" \/ (at \in {"failing", "over"} /\ task = "absent")

\* The boundary event leaves the handler with an outcome.
StopSettles == stop = "over" => settled # "none"

BodyInv == RowOfBody /\ StopSettles /\ ResultReachesHandler

LEMMA RowsOfBody == ASSUME IInv, BodyInv, [Next]_vars PROVE RowOfBody'
<1> USE TypeParts DEF IInv, Values, CreatedOnce, KnownResults, DeliveredResults, Ended, BodyInv, RowOfBody, StopSettles, Installed
<1>1. CASE Enter
  BY <1>1 DEF Enter, stopVars, workerVars
<1>2. CASE ExecuteHandler
  BY <1>2 DEF ExecuteHandler, Settle, stopVars, workerVars
<1>3. CASE ExecuteExternalServiceTask
  BY <1>3 DEF ExecuteExternalServiceTask, CreatesExternalTask, stopVars, workerVars
<1>4. CASE Finish
  BY <1>4 DEF Finish, stopVars, workerVars
<1>5. CASE Resolve
  BY <1>5 DEF Resolve, SettleBody, Settle, dbVars, stopVars, workerVars
<1>6. CASE Reject
  BY <1>6 DEF Reject, SettleBody, Settle, dbVars, stopVars, workerVars
<1>7. CASE LookUp
  BY <1>7 DEF LookUp, dbVars, stopVars, workerVars
<1>8. CASE LookedUp
  BY <1>8 DEF LookedUp, TaskIsMissing, CreatesExternalTask, OnlyMissedTheNotification, Process, stopVars, workerVars
<1>9. CASE ResultReceived
  BY <1>9 DEF ResultReceived, Process, stopVars, workerVars
<1>10. CASE AbortExternalTask
  BY <1>10 DEF AbortExternalTask, Settle, Cancelled, AbortTask, bodyVars, stopVars, workerVars
<1>11. CASE Aborted
  BY <1>11 DEF Aborted, Cancelled, bodyVars, stopVars, workerVars
<1>12. CASE Left
  BY <1>12 DEF Left, Settle, dbVars, bodyVars, stopVars, workerVars
<1>13. CASE \E result \in {"finished", "failed"} : WorkerFinishes(result)
  BY <1>13 DEF WorkerFinishes, bodyVars, stopVars, workerVars
<1>14. CASE Notify
  BY <1>14 DEF Notify, dbVars, bodyVars, stopVars, workerVars
<1>15. CASE Interrupted
  BY <1>15 DEF Interrupted, Unsubscribe, Installed, dbVars, stopVars, workerVars
<1>16. CASE CrashAndResume
  BY <1>16 DEF CrashAndResume, ResumedAt, Rows, stopVars, workerVars
<1>17. CASE UNCHANGED vars
  BY <1>17 DEF vars, dbVars, bodyVars, stopVars, workerVars
<1> QED
  BY <1>1, <1>2, <1>3, <1>4, <1>5, <1>6, <1>7, <1>8, <1>9, <1>10, <1>11, <1>12, <1>13, <1>14, <1>15, <1>16, <1>17 DEF Next, BodyStep, StopStep, WorkerStep

LEMMA Stopping == ASSUME IInv, BodyInv, [Next]_vars PROVE StopSettles'
<1> USE TypeParts DEF IInv, Values, CreatedOnce, KnownResults, DeliveredResults, Ended, BodyInv, RowOfBody, StopSettles, Installed
<1>1. CASE Enter
  BY <1>1 DEF Enter, stopVars, workerVars
<1>2. CASE ExecuteHandler
  BY <1>2 DEF ExecuteHandler, Settle, stopVars, workerVars
<1>3. CASE ExecuteExternalServiceTask
  BY <1>3 DEF ExecuteExternalServiceTask, CreatesExternalTask, stopVars, workerVars
<1>4. CASE Finish
  BY <1>4 DEF Finish, stopVars, workerVars
<1>5. CASE Resolve
  BY <1>5 DEF Resolve, SettleBody, Settle, dbVars, stopVars, workerVars
<1>6. CASE Reject
  BY <1>6 DEF Reject, SettleBody, Settle, dbVars, stopVars, workerVars
<1>7. CASE LookUp
  BY <1>7 DEF LookUp, dbVars, stopVars, workerVars
<1>8. CASE LookedUp
  BY <1>8 DEF LookedUp, TaskIsMissing, CreatesExternalTask, OnlyMissedTheNotification, Process, stopVars, workerVars
<1>9. CASE ResultReceived
  BY <1>9 DEF ResultReceived, Process, stopVars, workerVars
<1>10. CASE AbortExternalTask
  BY <1>10 DEF AbortExternalTask, Settle, Cancelled, AbortTask, bodyVars, stopVars, workerVars
<1>11. CASE Aborted
  BY <1>11 DEF Aborted, Cancelled, bodyVars, stopVars, workerVars
<1>12. CASE Left
  BY <1>12 DEF Left, Settle, dbVars, bodyVars, stopVars, workerVars
<1>13. CASE \E result \in {"finished", "failed"} : WorkerFinishes(result)
  BY <1>13 DEF WorkerFinishes, bodyVars, stopVars, workerVars
<1>14. CASE Notify
  BY <1>14 DEF Notify, dbVars, bodyVars, stopVars, workerVars
<1>15. CASE Interrupted
  BY <1>15 DEF Interrupted, Unsubscribe, Installed, dbVars, stopVars, workerVars
<1>16. CASE CrashAndResume
  BY <1>16 DEF CrashAndResume, ResumedAt, stopVars, workerVars
<1>17. CASE UNCHANGED vars
  BY <1>17 DEF vars, dbVars, bodyVars, stopVars, workerVars
<1> QED
  BY <1>1, <1>2, <1>3, <1>4, <1>5, <1>6, <1>7, <1>8, <1>9, <1>10, <1>11, <1>12, <1>13, <1>14, <1>15, <1>16, <1>17 DEF Next, BodyStep, StopStep, WorkerStep

LEMMA Reaching == ASSUME IInv, BodyInv, [Next]_vars PROVE ResultReachesHandler'
<1> USE TypeParts DEF IInv, Values, CreatedOnce, KnownResults, DeliveredResults, Ended, BodyInv, ResultReachesHandler, TaskStates
<1>1. CASE Enter
  BY <1>1 DEF Enter, stopVars, workerVars
<1>2. CASE ExecuteHandler
  BY <1>2 DEF ExecuteHandler, Settle, stopVars, workerVars
<1>3. CASE ExecuteExternalServiceTask
  BY <1>3 DEF ExecuteExternalServiceTask, CreatesExternalTask, stopVars, workerVars
<1>4. CASE Finish
  BY <1>4 DEF Finish, stopVars, workerVars
<1>5. CASE Resolve
  BY <1>5 DEF Resolve, SettleBody, Settle, dbVars, stopVars, workerVars
<1>6. CASE Reject
  BY <1>6 DEF Reject, SettleBody, Settle, dbVars, stopVars, workerVars
<1>7. CASE LookUp
  BY <1>7 DEF LookUp, dbVars, stopVars, workerVars
<1>8. CASE LookedUp
  BY <1>8 DEF LookedUp, TaskIsMissing, CreatesExternalTask, OnlyMissedTheNotification, Process, stopVars, workerVars
<1>9. CASE ResultReceived
  BY <1>9 DEF ResultReceived, Process, stopVars, workerVars
<1>10. CASE AbortExternalTask
  BY <1>10 DEF AbortExternalTask, Settle, Cancelled, AbortTask, bodyVars, stopVars, workerVars
<1>11. CASE Aborted
  BY <1>11 DEF Aborted, Cancelled, bodyVars, stopVars, workerVars
<1>12. CASE Left
  BY <1>12 DEF Left, Settle, dbVars, bodyVars, stopVars, workerVars
<1>13. CASE \E result \in {"finished", "failed"} : WorkerFinishes(result)
  BY <1>13 DEF WorkerFinishes, bodyVars, stopVars, workerVars
<1>14. CASE Notify
  BY <1>14 DEF Notify, dbVars, bodyVars, stopVars, workerVars
<1>15. CASE Interrupted
  BY <1>15 DEF Interrupted, Unsubscribe, Installed, dbVars, stopVars, workerVars
<1>16. CASE CrashAndResume
  BY <1>16 DEF CrashAndResume, ResumedAt, stopVars, workerVars
<1>17. CASE UNCHANGED vars
  BY <1>17 DEF vars, dbVars, bodyVars, stopVars, workerVars
<1> QED
  BY <1>1, <1>2, <1>3, <1>4, <1>5, <1>6, <1>7, <1>8, <1>9, <1>10, <1>11, <1>12, <1>13, <1>14, <1>15, <1>16, <1>17 DEF Next, BodyStep, StopStep, WorkerStep

\* What a step without a boundary event does to a closed row: nothing.
LEMMA Rewriting == ASSUME IInv, BodyInv, [Next]_vars, stop = "none", row \in {"finished", "error"} PROVE row' = row
<1> USE TypeParts DEF IInv, Values, CreatedOnce, KnownResults, DeliveredResults, Ended, BodyInv, RowOfBody, Installed
<1>1. CASE Enter
  BY <1>1 DEF Enter, stopVars, workerVars
<1>2. CASE ExecuteHandler
  BY <1>2 DEF ExecuteHandler, Settle, stopVars, workerVars
<1>3. CASE ExecuteExternalServiceTask
  BY <1>3 DEF ExecuteExternalServiceTask, CreatesExternalTask, stopVars, workerVars
<1>4. CASE Finish
  BY <1>4 DEF Finish, stopVars, workerVars
<1>5. CASE Resolve
  BY <1>5 DEF Resolve, SettleBody, Settle, dbVars, stopVars, workerVars
<1>6. CASE Reject
  BY <1>6 DEF Reject, SettleBody, Settle, dbVars, stopVars, workerVars
<1>7. CASE LookUp
  BY <1>7 DEF LookUp, dbVars, stopVars, workerVars
<1>8. CASE LookedUp
  BY <1>8 DEF LookedUp, TaskIsMissing, CreatesExternalTask, OnlyMissedTheNotification, Process, stopVars, workerVars
<1>9. CASE ResultReceived
  BY <1>9 DEF ResultReceived, Process, stopVars, workerVars
<1>10. CASE AbortExternalTask
  BY <1>10 DEF AbortExternalTask, Settle, Cancelled, AbortTask, bodyVars, stopVars, workerVars
<1>11. CASE Aborted
  BY <1>11 DEF Aborted, Cancelled, bodyVars, stopVars, workerVars
<1>12. CASE Left
  BY <1>12 DEF Left, Settle, dbVars, bodyVars, stopVars, workerVars
<1>13. CASE \E result \in {"finished", "failed"} : WorkerFinishes(result)
  BY <1>13 DEF WorkerFinishes, bodyVars, stopVars, workerVars
<1>14. CASE Notify
  BY <1>14 DEF Notify, dbVars, bodyVars, stopVars, workerVars
<1>15. CASE Interrupted
  BY <1>15 DEF Interrupted, Unsubscribe, Installed, dbVars, stopVars, workerVars
<1>16. CASE CrashAndResume
  BY <1>16 DEF CrashAndResume, ResumedAt, stopVars, workerVars
<1>17. CASE UNCHANGED vars
  BY <1>17 DEF vars, dbVars, bodyVars, stopVars, workerVars
<1> QED
  BY <1>1, <1>2, <1>3, <1>4, <1>5, <1>6, <1>7, <1>8, <1>9, <1>10, <1>11, <1>12, <1>13, <1>14, <1>15, <1>16, <1>17 DEF Next, BodyStep, StopStep, WorkerStep

LEMMA BodyInductive == Spec => [](IInv /\ BodyInv)
<1>1. Init => IInv /\ BodyInv
  BY InitHolds DEF Init, BodyInv, RowOfBody, StopSettles, ResultReachesHandler
<1>2. (IInv /\ BodyInv) /\ [Next]_vars => (IInv /\ BodyInv)'
  BY StepHolds, RowsOfBody, Stopping, Reaching DEF BodyInv
<1> QED
  BY <1>1, <1>2, PTL DEF Spec

\* Who waits for a result listens, and the worker still has the external task or its
\* result is on its way; a body and a boundary event that have come to their end leave an
\* outcome, but for the one error that nobody catches.  For any number of restarts.
THEOREM NobodyWaitsInVain == Spec => []NobodyIsLeftWaiting
<1>1. BodyInv => ResultReachesHandler
  BY DEF BodyInv
<1>2. BodyInv => HandlerIsSettled
  BY DEF BodyInv, RowOfBody, StopSettles, HandlerIsSettled
<1> QED
  BY <1>1, <1>2, BodyInductive, PTL DEF NobodyIsLeftWaiting

\* A closed row is rewritten only behind the back of a boundary event.
THEOREM ClosedRowIsKept == Spec => ClosedRowStays
<1>1. IInv /\ BodyInv /\ [Next]_vars =>
        [row' # row => row \notin {"finished", "error"} \/ stop # "none"]_vars
  BY Rewriting
<1> QED
  BY <1>1, BodyInductive, PTL DEF Spec, ClosedRowStays

=============================================================================
