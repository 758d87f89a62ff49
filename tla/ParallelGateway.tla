--------------------------- MODULE ParallelGateway ---------------------------
(***************************************************************************)
(* A parallel split gateway, the branches it starts and the parallel join  *)
(* gateway that collects them, in one process instance.                    *)
(*                                                                         *)
(* The branches are concurrent promise chains.  All of them must reach the *)
(* same ParallelJoinGatewayHandler object: the split asks the factory for  *)
(* it before any branch starts, and the factory keeps it in the IoC        *)
(* container.  A handler numbers its arrivals under an async-lock that is  *)
(* keyed by its flow node instance id.  Every step below ends at an await  *)
(* of a database call, of the factory, of the lock or of the outside.      *)
(*                                                                         *)
(* Each branch holds one activity between split and join; its life cycle   *)
(* in detail is the subject of ActivityHandler.                            *)
(***************************************************************************)
EXTENDS Integers, Sequences, FiniteSets

CONSTANTS
  Branches,      \* the sequence flows between the split and the join
  Split,         \* the split gateway, as the creator of a join handler
  None,          \* no handler, no row
  MaxCrashes,    \* bound: how often the runtime stops and is started again
  Terminations   \* TRUE: the process instance may be terminated from outside

ASSUME ConstantsAssumption ==
  /\ Branches # {} /\ IsFiniteSet(Branches)
  /\ Split \notin Branches
  /\ None \notin Branches \cup {Split}
  /\ MaxCrashes \in Nat
  /\ Terminations \in BOOLEAN

\* A handler object is named after who had the factory create it.
Handlers == Branches \cup {Split}

\* Flow node instance ids: each new handler object draws a fresh one.
Ids == (0 .. MaxCrashes) \X Handlers
ASSUME IdsAssumption == None \notin Ids

VARIABLES
  \* what the database holds
  splitRow,      \* state of the split's flow node instance
  taskRow,       \* state of the instance of the activity on each branch
  joinRow,       \* the join's flow node instances: state and previous ids
  \* what the running process holds
  boot,          \* how often the runtime was started again
  snapshot,      \* the join's rows as loaded when the instance was resumed
  splitPc,       \* where the split's promise chain stands
  pc,            \* where each branch's promise chain stands
  target,        \* the join handler the factory returned to a branch
  lockKey,       \* the key under which a branch took or awaits the lock
  lockQueue,     \* per key, the branches in the lock, the holder first
  registration,  \* the join handler registered in the IoC container
  fni,           \* flowNodeInstanceId of each handler
  prevIds,       \* previousFlowNodeInstanceId of each handler
  incoming,      \* incomingFlowNodeInstanceIds of each handler
  received,      \* receivedResults of each handler
  subscribed,    \* handlers subscribed to the termination event
  interrupted,   \* handlers with isInterrupted set
  removing,      \* handlers whose onTerminatedCallback awaits its persist
  terminated,    \* the termination event has been published
  notify         \* subscribers the event still has to reach

dbVars == <<splitRow, taskRow, joinRow>>
handlerVars == <<registration, fni, prevIds, incoming, received>>
termVars == <<subscribed, interrupted, removing, terminated, notify>>
branchVars == <<pc, target, lockKey, lockQueue>>
vars == <<dbVars, boot, snapshot, splitPc, branchVars, handlerVars, termVars>>

Absent == [state |-> "absent", prev |-> {}]

Init ==
  /\ splitRow = "absent"
  /\ taskRow = [b \in Branches |-> "absent"]
  /\ joinRow = [i \in Ids |-> Absent]
  /\ boot = 0
  /\ snapshot = joinRow
  /\ splitPc = "start"
  /\ pc = [b \in Branches |-> "idle"]
  /\ target = [b \in Branches |-> None]
  /\ lockKey = [b \in Branches |-> None]
  /\ lockQueue = [i \in Ids |-> <<>>]
  /\ registration = None
  /\ fni = [h \in Handlers |-> <<0, h>>]
  /\ prevIds = [h \in Handlers |-> {}]
  /\ incoming = [h \in Handlers |-> {}]
  /\ received = [h \in Handlers |-> {}]
  /\ subscribed = {}
  /\ interrupted = {}
  /\ removing = {}
  /\ terminated = FALSE
  /\ notify = {}

-----------------------------------------------------------------------------
(* The split gateway                                                       *)

SplitEnter ==
  /\ splitPc = "start"
  /\ splitRow' = "running"
  /\ splitPc' = "entered"
  /\ UNCHANGED <<taskRow, joinRow, boot, snapshot, branchVars, handlerVars, termVars>>

\* flowNodeHandlerFactory.create(joinGateway) as the split awaits it.
JoinLeftToBranches == registration
JoinCreatedBySplit == IF registration = None THEN Split ELSE registration

\* executeHandler: have the join created and registered before any branch can
\* ask for it, then persistOnExit.
SplitExecute ==
  /\ splitPc = "entered"
  /\ registration' = JoinCreatedBySplit
  /\ splitRow' = "finished"
  /\ splitPc' = "exited"
  /\ UNCHANGED <<taskRow, joinRow, boot, snapshot, branchVars, fni, prevIds, incoming,
                 received, termVars>>

\* handleNextFlowNode for every outgoing sequence flow.
SplitContinue ==
  /\ splitPc = "exited"
  /\ splitPc' = "done"
  /\ pc' = [b \in Branches |-> "start"]
  /\ UNCHANGED <<dbVars, boot, snapshot, target, lockKey, lockQueue, handlerVars, termVars>>

-----------------------------------------------------------------------------
(* The activity of a branch                                                *)

\* execute for a new instance, resumeFromState for one found in the database.
TaskStart(b) ==
  /\ pc[b] = "start"
  /\ taskRow' = [taskRow EXCEPT ![b] = IF @ = "absent" THEN "running" ELSE @]
  /\ pc' = [pc EXCEPT ![b] = IF taskRow[b] = "finished" THEN "toJoin" ELSE "task"]
  /\ UNCHANGED <<splitRow, joinRow, boot, snapshot, splitPc, target, lockKey, lockQueue,
                 handlerVars, termVars>>

\* persistOnExit, afterExecute (which unsubscribes from the termination).
TaskFinish(b) ==
  /\ pc[b] = "task"
  /\ taskRow' = [taskRow EXCEPT ![b] = "finished"]
  /\ pc' = [pc EXCEPT ![b] = "toJoin"]
  /\ UNCHANGED <<splitRow, joinRow, boot, snapshot, splitPc, target, lockKey, lockQueue,
                 handlerVars, termVars>>

-----------------------------------------------------------------------------
(* ParallelGatewayFactory.create for the join, called by a branch          *)

\* The container is asked once; when it knows no join, a new one is resolved.
FactoryCheck(b) ==
  /\ pc[b] = "toJoin"
  /\ target' = [target EXCEPT ![b] = registration]
  /\ pc' = [pc EXCEPT ![b] = IF registration = None THEN "creating" ELSE "call"]
  /\ UNCHANGED <<dbVars, boot, snapshot, splitPc, lockKey, lockQueue, handlerVars, termVars>>

\* The new handler is registered without another look at the container.
FactoryRegister(b) ==
  /\ pc[b] = "creating"
  /\ target' = [target EXCEPT ![b] = b]
  /\ registration' = b
  /\ pc' = [pc EXCEPT ![b] = "call"]
  /\ UNCHANGED <<dbVars, boot, snapshot, splitPc, lockKey, lockQueue, fni, prevIds,
                 incoming, received, termVars>>

-----------------------------------------------------------------------------
(* GatewayHandler.execute and resume on the join                           *)

\* The handler's incomingFlowNodeInstanceIds after another arrival.
Arrivals(h, prev) == IF h \in interrupted THEN incoming[h] ELSE incoming[h] \cup prev

\* async-lock hands the lock on when the critical section settles.
NotReleased(queue, key) == queue
Released(queue, key) == [queue EXCEPT ![key] = Tail(@)]

\* Every previous flow node of the join has delivered a result.
SomeResultReceived(results) == results # {}
AllResultsReceived(results) == \A b \in Branches : b \in results

\* cleanupSubscriptions
KeepSubscription(h) == subscribed
Unsubscribed(h) == subscribed \ {h}

\* findNextInstanceOfFlowNode: rows of the join that name this branch.
FoundRows(b) == {i \in Ids : snapshot[i].state # "absent" /\ b \in snapshot[i].prev}

\* What the lock holder does up to its first database call: beforeExecute and
\* then startExecution (execute) or resumeFromState (resume of row r).
\* `queue` is the lock as this step found it, `prev` the handler's
\* previousFlowNodeInstanceId at this moment, `id` its flowNodeInstanceId.
\* (A row found terminated would be an error; terminated instances are not
\* resumed.)
Critical(b, h, r, key, queue, prev, id) ==
  LET counted == Arrivals(h, prev)
      Leaves(where) ==
        /\ pc' = [pc EXCEPT ![b] = where]
        /\ lockQueue' = Released(queue, key)
        /\ UNCHANGED joinRow
      Holds ==
        /\ pc' = [pc EXCEPT ![b] = "entering"]
        /\ lockQueue' = queue
  IN
  /\ incoming' = [incoming EXCEPT ![h] = counted]
  /\ subscribed' = IF h \in interrupted THEN subscribed ELSE subscribed \cup {h}
  /\ \/ /\ r = None /\ h \in interrupted
        /\ Leaves("left")
     \/ /\ r = None /\ h \notin interrupted
        /\ joinRow' = [joinRow EXCEPT ![id] = [state |-> "running", prev |-> counted]]
        /\ Holds
     \/ /\ r # None /\ snapshot[r].state = "running"
        /\ UNCHANGED joinRow
        /\ Holds
     \/ /\ r # None /\ snapshot[r].state = "finished"
        /\ Leaves("past")

\* The fields are assigned before the lock is asked for; a free lock runs the
\* critical section at once, otherwise the branch queues.
Call(b) ==
  /\ pc[b] = "call"
  /\ \E r \in IF FoundRows(b) = {} THEN {None} ELSE FoundRows(b) :
       LET h == target[b]
           prev == IF r = None THEN {b} ELSE snapshot[r].prev
           id == IF r = None THEN fni[h] ELSE r
           queue == [lockQueue EXCEPT ![id] = Append(@, b)]
       IN
       /\ prevIds' = [prevIds EXCEPT ![h] = prev]
       /\ fni' = [fni EXCEPT ![h] = id]
       /\ lockKey' = [lockKey EXCEPT ![b] = id]
       /\ \/ /\ lockQueue[id] = <<>>
             /\ Critical(b, h, r, id, queue, prev, id)
          \/ /\ lockQueue[id] # <<>>
             /\ lockQueue' = queue
             /\ pc' = [pc EXCEPT ![b] = IF r = None THEN "queued" ELSE "queuedResume"]
             /\ UNCHANGED <<joinRow, incoming, subscribed>>
  /\ UNCHANGED <<splitRow, taskRow, boot, snapshot, splitPc, target, registration, received,
                 interrupted, removing, terminated, notify>>

\* The lock is handed to the branch that waited longest.
Acquire(b) ==
  /\ pc[b] \in {"queued", "queuedResume"}
  /\ lockQueue[lockKey[b]] # <<>> /\ Head(lockQueue[lockKey[b]]) = b
  /\ LET h == target[b]
         r == IF pc[b] = "queued" THEN None ELSE lockKey[b]
     IN Critical(b, h, r, lockKey[b], lockQueue, prevIds[h], fni[h])
  /\ UNCHANGED <<splitRow, taskRow, boot, snapshot, splitPc, target, lockKey, registration,
                 fni, prevIds, received, interrupted, removing, terminated, notify>>

\* executeHandler: store the branch's result and, with all results there,
\* finish: unsubscribe, unregister, persistOnExit.
Receive(b) ==
  LET h == target[b]
      results == received[h] \cup {b}
  IN
  /\ pc[b] = "entering"
  /\ received' = [received EXCEPT ![h] = results]
  /\ \/ /\ ~AllResultsReceived(results)
        /\ pc' = [pc EXCEPT ![b] = "left"]
        /\ lockQueue' = Released(lockQueue, lockKey[b])
        /\ UNCHANGED <<joinRow, registration, subscribed>>
     \/ /\ AllResultsReceived(results)
        /\ pc' = [pc EXCEPT ![b] = "exiting"]
        /\ joinRow' = [joinRow EXCEPT ![fni[h]].state = "finished"]
        /\ registration' = None
        /\ subscribed' = Unsubscribed(h)
        /\ UNCHANGED lockQueue
  /\ UNCHANGED <<splitRow, taskRow, boot, snapshot, splitPc, target, lockKey, fni, prevIds,
                 incoming, interrupted, removing, terminated, notify>>

\* Leave the lock and run the flow nodes after the join.
Continue(b) ==
  /\ pc[b] = "exiting"
  /\ pc' = [pc EXCEPT ![b] = "past"]
  /\ lockQueue' = Released(lockQueue, lockKey[b])
  /\ UNCHANGED <<dbVars, boot, snapshot, splitPc, target, lockKey, handlerVars, termVars>>

-----------------------------------------------------------------------------
(* Termination of the process instance                                     *)

\* The event goes to whoever is subscribed when it is published: activities
\* that are at work and join handlers that a branch has reached.
Terminate ==
  /\ Terminations /\ ~terminated
  /\ splitPc = "done"
  /\ terminated' = TRUE
  /\ notify' = {b \in Branches : pc[b] = "task"} \X {"task"} \cup subscribed \X {"join"}
  /\ UNCHANGED <<dbVars, boot, snapshot, splitPc, branchVars, handlerVars, subscribed,
                 interrupted, removing>>

\* An activity that is still subscribed persists its end and rejects.
TaskTerminated(b) ==
  /\ <<b, "task">> \in notify
  /\ notify' = notify \ {<<b, "task">>}
  /\ \/ /\ pc[b] = "task"
        /\ taskRow' = [taskRow EXCEPT ![b] = "terminated"]
        /\ pc' = [pc EXCEPT ![b] = "failed"]
     \/ /\ pc[b] # "task"
        /\ UNCHANGED <<taskRow, pc>>
  /\ UNCHANGED <<splitRow, joinRow, boot, snapshot, splitPc, target, lockKey, lockQueue,
                 handlerVars, subscribed, interrupted, removing, terminated>>

\* onTerminatedCallback of the join, up to its database call.
JoinTerminated(h) ==
  /\ <<h, "join">> \in notify
  /\ notify' = notify \ {<<h, "join">>}
  /\ \/ /\ h \in subscribed
        /\ interrupted' = interrupted \cup {h}
        /\ subscribed' = subscribed \ {h}
        /\ joinRow' = [joinRow EXCEPT ![fni[h]].state = "terminated"]
        /\ removing' = removing \cup {h}
     \/ /\ h \notin subscribed
        /\ UNCHANGED <<interrupted, subscribed, joinRow, removing>>
  /\ UNCHANGED <<splitRow, taskRow, boot, snapshot, splitPc, branchVars, handlerVars, terminated>>

\* ... and after it: the registration of the join is dropped, whoever holds it.
JoinRemoved(h) ==
  /\ h \in removing
  /\ removing' = removing \ {h}
  /\ registration' = None
  /\ UNCHANGED <<dbVars, boot, snapshot, splitPc, branchVars, fni, prevIds, incoming, received,
                 subscribed, interrupted, terminated, notify>>

-----------------------------------------------------------------------------
(* The runtime stops and is started again                                  *)

\* Everything in memory is lost; ResumeProcessService loads the rows and walks
\* the instance from its start.  A terminated instance is not resumed.
CrashAndResume ==
  /\ boot < MaxCrashes /\ ~terminated
  /\ boot' = boot + 1
  /\ snapshot' = joinRow
  /\ splitPc' = CASE splitRow = "absent" -> "start"
                  [] splitRow = "running" -> "entered"
                  [] splitRow = "finished" -> "exited"
  /\ pc' = [b \in Branches |-> "idle"]
  /\ target' = [b \in Branches |-> None]
  /\ lockKey' = [b \in Branches |-> None]
  /\ lockQueue' = [i \in Ids |-> <<>>]
  /\ registration' = None
  /\ fni' = [h \in Handlers |-> <<boot + 1, h>>]
  /\ prevIds' = [h \in Handlers |-> {}]
  /\ incoming' = [h \in Handlers |-> {}]
  /\ received' = [h \in Handlers |-> {}]
  /\ subscribed' = {} /\ interrupted' = {} /\ removing' = {} /\ notify' = {}
  /\ UNCHANGED <<dbVars, terminated>>

-----------------------------------------------------------------------------
SplitStep == SplitEnter \/ SplitExecute \/ SplitContinue

BranchStep(b) ==
  \/ TaskStart(b) \/ TaskFinish(b)
  \/ FactoryCheck(b) \/ FactoryRegister(b)
  \/ Call(b) \/ Acquire(b) \/ Receive(b) \/ Continue(b)

TerminationStep ==
  \/ \E b \in Branches : TaskTerminated(b)
  \/ \E h \in Handlers : JoinTerminated(h) \/ JoinRemoved(h)

Next ==
  \/ SplitStep
  \/ \E b \in Branches : BranchStep(b)
  \/ Terminate
  \/ TerminationStep
  \/ CrashAndResume

Spec == Init /\ [][Next]_vars

\* A started promise chain runs on; the activities are finished eventually.
\* Nothing makes a crash or a termination happen.
Fairness ==
  /\ WF_vars(SplitStep)
  /\ \A b \in Branches : WF_vars(BranchStep(b))

FairSpec == Spec /\ Fairness

-----------------------------------------------------------------------------
(* Properties                                                              *)

RowStates == {"absent", "running", "finished", "terminated"}
PcStates == {"idle", "start", "task", "toJoin", "creating", "call", "queued",
             "queuedResume", "entering", "exiting", "past", "left", "failed"}

RowType == [state : RowStates, prev : SUBSET Branches]

DbTypeOK ==
  /\ splitRow \in {"absent", "running", "finished"}
  /\ taskRow \in [Branches -> RowStates]
  /\ joinRow \in [Ids -> RowType]
  /\ boot \in 0 .. MaxCrashes
  /\ snapshot \in [Ids -> RowType]

BranchTypeOK ==
  /\ splitPc \in {"start", "entered", "exited", "done"}
  /\ pc \in [Branches -> PcStates]
  /\ target \in [Branches -> Handlers \cup {None}]
  /\ lockKey \in [Branches -> Ids \cup {None}]
  /\ lockQueue \in [Ids -> Seq(Branches)]

HandlerTypeOK ==
  /\ registration \in Handlers \cup {None}
  /\ fni \in [Handlers -> Ids]
  /\ prevIds \in [Handlers -> SUBSET Branches]
  /\ incoming \in [Handlers -> SUBSET Branches]
  /\ received \in [Handlers -> SUBSET Branches]

TermTypeOK ==
  /\ subscribed \subseteq Handlers
  /\ interrupted \subseteq Handlers
  /\ removing \subseteq Handlers
  /\ terminated \in BOOLEAN
  /\ notify \subseteq (Branches \X {"task"}) \cup (Handlers \X {"join"})

\* Every variable has its type: the rows, the chains' positions, the handlers'
\* fields and the lock's queues hold what the classes declare.
TypeOK == DbTypeOK /\ BranchTypeOK /\ HandlerTypeOK /\ TermTypeOK

\* A join is recorded as finished only when the activity of every branch is
\* finished: not after a subset of the results, not after a result that a
\* restart or a termination made up.
JoinWaitsForAllBranches ==
  \A i \in Ids : joinRow[i].state = "finished" =>
    \A b \in Branches : taskRow[b] = "finished"

\* The flow nodes after the join are run by one branch only, the one whose
\* arrival completed the join.  (A restart may break this: then every branch
\* finds the finished join, and resumeFromState lets each of them go on.)
SingleContinuation ==
  boot = 0 => \A b1, b2 \in Branches : pc[b1] = "past" /\ pc[b2] = "past" => b1 = b2

\* "Each time a new ID is stored, persistOnEnter is called with the current
\* amount of received IDs.  This ensures that the FlowNodeInstance for this
\* gateway will always have the most up to date info about which branches have
\* arrived at the gateway": a branch whose result the handler holds is named in
\* the handler's row.
ArrivedBranchesAreRecorded ==
  \A h \in Handlers : received[h] \subseteq joinRow[fni[h]].prev

\* A finished join instance is never reopened, terminated or otherwise
\* rewritten: finishing unsubscribes the handler, and no branch is left to
\* arrive.  (After a restart the finished join is subscribed again.)
FinishedJoinIsFinal ==
  [][\A i \in Ids : boot' = 0 /\ joinRow[i].state = "finished" =>
       joinRow'[i] = joinRow[i]]_vars

\* Nobody waits in vain for the lock, also after restarts and when the instance is
\* terminated: who waits is in the queue of its key, and the first of that queue is
\* inside, where no other branch can hold it up, or finds the row it has to resume.
Queued == {"queued", "queuedResume"}
Inside == {"entering", "exiting"}
CanEnter(b) == pc[b] = "queuedResume" => snapshot[lockKey[b]].state \in {"running", "finished"}

LockIsHandedOn ==
  \A b \in Branches : pc[b] \in Queued =>
    LET queue == lockQueue[lockKey[b]]
        first == Head(queue)
    IN /\ \E i \in DOMAIN queue : queue[i] = b
       /\ lockKey[first] = lockKey[b]
       /\ pc[first] \in Inside \/ (pc[first] \in Queued /\ CanEnter(first))

\* The flow is not lost at the join: when no branch is on its way any more, one of them
\* has gone on behind it.  (After a restart two branches may have a join each and
\* wait for one another.)
FlowIsNotLost ==
  (boot = 0 /\ ~terminated /\ splitPc = "done" /\ \A b \in Branches : pc[b] \in {"past", "left", "failed"})
    => \E b \in Branches : pc[b] = "past"

\* When the activities of all branches finish, the process instance goes on
\* behind the join, unless it is terminated first.  (After a restart two
\* branches may create a join each and wait for one another.)
FlowContinuesAfterJoin ==
  <>((\E b \in Branches : pc[b] = "past") \/ terminated \/ boot > 0)

\* No branch waits for ever for the lock or for the factory: each one arrives,
\* goes on or fails, also when the process instance is terminated meanwhile.
EveryBranchSettles == <>[](\A b \in Branches : pc[b] \in {"past", "left", "failed"})

=============================================================================
