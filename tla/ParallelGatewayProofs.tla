------------------------ MODULE ParallelGatewayProofs ------------------------
(***************************************************************************)
(* What holds of ParallelGateway for any number of branches and restarts.  *)
(***************************************************************************)
EXTENDS ParallelGateway, SequenceTheorems, TLAPS

\* The activity of the branch is over and its chain is on the way to, at or
\* behind the join.
Arrived == {"toJoin", "creating", "call", "queued", "queuedResume", "entering",
            "exiting", "past", "left"}

\* The branch has a join handler to talk to.
Called == {"call", "queued", "queuedResume", "entering", "exiting"}

\* A branch comes to the join with its activity finished, and a branch whose
\* activity may still be terminated has not finished it.
ArrivedAfterTask ==
  \A b \in Branches :
    /\ pc[b] \in Arrived => taskRow[b] = "finished"
    /\ pc[b] = "task" => taskRow[b] # "finished"

\* From the call of the join on, handler and lock key are known; whoever is in
\* the critical section is the head of the lock's queue.
LockHeld ==
  \A b \in Branches :
    /\ pc[b] \in Called => target[b] \in Handlers
    /\ pc[b] \in Called \ {"call"} => lockKey[b] \in Ids
    /\ pc[b] \in {"entering", "exiting"} =>
         /\ lockQueue[lockKey[b]] # <<>>
         /\ Head(lockQueue[lockKey[b]]) = b

\* Results come from finished activities.
ReceivedAfterTask ==
  \A h \in Handlers : \A b \in received[h] : taskRow[b] = "finished"

IInv ==
  /\ TypeOK
  /\ ArrivedAfterTask
  /\ LockHeld
  /\ ReceivedAfterTask
  /\ JoinWaitsForAllBranches

-----------------------------------------------------------------------------
\* The two ways in which the lock's queue changes keep it a sequence of
\* branches, and a longer queue has the same head.
LEMMA QueueAppend ==
  ASSUME NEW q \in Seq(Branches), NEW b \in Branches
  PROVE  /\ Append(q, b) \in Seq(Branches)
         /\ Append(q, b) # <<>>
         /\ q = <<>> => Head(Append(q, b)) = b
         /\ q # <<>> => Head(Append(q, b)) = Head(q)
<1>1. Len(q) \in Nat /\ (q = <<>> <=> Len(q) = 0)
  BY EmptySeq, LenProperties
<1> QED BY <1>1, AppendProperties

LEMMA QueueTail ==
  ASSUME NEW q \in Seq(Branches), q # <<>>
  PROVE  Tail(q) \in Seq(Branches)
  BY HeadTailProperties

\* Fresh ids are ids.
LEMMA FreshIds ==
  ASSUME NEW k \in 0 .. MaxCrashes, NEW h \in Handlers
  PROVE  <<k, h>> \in Ids
  BY DEF Ids

LEMMA InitIInv == Init => IInv
<1> SUFFICES ASSUME Init PROVE IInv
  OBVIOUS
<1> USE ConstantsAssumption DEF Init, Absent
<1>1. DbTypeOK
  BY DEF DbTypeOK, RowStates, RowType
<1>2. BranchTypeOK
  <2>1. <<>> \in Seq(Branches)
    OBVIOUS
  <2> QED BY <2>1 DEF BranchTypeOK, PcStates
<1>3. HandlerTypeOK /\ TermTypeOK
  <2>1. \A h \in Handlers : <<0, h>> \in Ids
    BY FreshIds
  <2>2. HandlerTypeOK
    BY <2>1 DEF HandlerTypeOK
  <2>3. TermTypeOK
    BY DEF TermTypeOK
  <2> QED BY <2>2, <2>3
<1>4. ArrivedAfterTask /\ LockHeld
  BY DEF ArrivedAfterTask, LockHeld, Arrived, Called
<1>5. ReceivedAfterTask /\ JoinWaitsForAllBranches
  BY DEF ReceivedAfterTask, JoinWaitsForAllBranches
<1> QED BY <1>1, <1>2, <1>3, <1>4, <1>5 DEF IInv, TypeOK

-----------------------------------------------------------------------------
(* One lemma per group of actions                                          *)

LEMMA SplitStepIInv == IInv /\ SplitStep => IInv'
<1> SUFFICES ASSUME IInv, SplitStep PROVE IInv'
  OBVIOUS
<1> USE DEF IInv, TypeOK, branchVars, handlerVars, termVars, dbVars
<1>1. CASE SplitEnter
  BY <1>1 DEF SplitEnter, DbTypeOK, BranchTypeOK, HandlerTypeOK, TermTypeOK,
     ArrivedAfterTask, LockHeld, ReceivedAfterTask, JoinWaitsForAllBranches
<1>2. CASE SplitExecute
  BY <1>2 DEF SplitExecute, JoinCreatedBySplit, Handlers, DbTypeOK, BranchTypeOK,
     HandlerTypeOK, TermTypeOK, ArrivedAfterTask, LockHeld, ReceivedAfterTask,
     JoinWaitsForAllBranches
<1>3. CASE SplitContinue
  BY <1>3 DEF SplitContinue, PcStates, Arrived, Called, DbTypeOK, BranchTypeOK,
     HandlerTypeOK, TermTypeOK, ArrivedAfterTask, LockHeld, ReceivedAfterTask,
     JoinWaitsForAllBranches
<1> QED BY <1>1, <1>2, <1>3 DEF SplitStep

LEMMA TaskStepIInv ==
  ASSUME NEW b \in Branches
  PROVE  IInv /\ (TaskStart(b) \/ TaskFinish(b) \/ TaskTerminated(b)) => IInv'
<1> SUFFICES ASSUME IInv, TaskStart(b) \/ TaskFinish(b) \/ TaskTerminated(b)
             PROVE  IInv'
  OBVIOUS
<1> USE DEF IInv, TypeOK, handlerVars, termVars
<1>1. CASE TaskStart(b)
  BY <1>1 DEF TaskStart, PcStates, RowStates, Arrived, Called, DbTypeOK, BranchTypeOK,
     HandlerTypeOK, TermTypeOK, ArrivedAfterTask, LockHeld, ReceivedAfterTask,
     JoinWaitsForAllBranches
<1>2. CASE TaskFinish(b)
  BY <1>2 DEF TaskFinish, PcStates, RowStates, Arrived, Called, DbTypeOK, BranchTypeOK,
     HandlerTypeOK, TermTypeOK, ArrivedAfterTask, LockHeld, ReceivedAfterTask,
     JoinWaitsForAllBranches
<1>3. CASE TaskTerminated(b)
  <2> USE <1>3 DEF TaskTerminated
  <2>1. DbTypeOK' /\ HandlerTypeOK'
    BY DEF DbTypeOK, HandlerTypeOK, RowStates
  <2>2. BranchTypeOK' /\ TermTypeOK'
    BY DEF BranchTypeOK, TermTypeOK, PcStates
  <2>3. ArrivedAfterTask'
    BY DEF ArrivedAfterTask, Arrived, DbTypeOK, BranchTypeOK
  <2>4. LockHeld'
    BY DEF LockHeld, Called, BranchTypeOK
  <2>5. ReceivedAfterTask' /\ JoinWaitsForAllBranches'
    BY DEF ReceivedAfterTask, JoinWaitsForAllBranches, ArrivedAfterTask, DbTypeOK,
       HandlerTypeOK
  <2> QED BY <2>1, <2>2, <2>3, <2>4, <2>5
<1> QED BY <1>1, <1>2, <1>3

LEMMA FactoryStepIInv ==
  ASSUME NEW b \in Branches
  PROVE  IInv /\ (FactoryCheck(b) \/ FactoryRegister(b)) => IInv'
<1> SUFFICES ASSUME IInv, FactoryCheck(b) \/ FactoryRegister(b)
             PROVE  IInv'
  OBVIOUS
<1> USE DEF IInv, TypeOK, dbVars, handlerVars, termVars, Handlers
<1>1. CASE FactoryCheck(b)
  BY <1>1 DEF FactoryCheck, PcStates, Arrived, Called, DbTypeOK, BranchTypeOK,
     HandlerTypeOK, TermTypeOK, ArrivedAfterTask, LockHeld, ReceivedAfterTask,
     JoinWaitsForAllBranches
<1>2. CASE FactoryRegister(b)
  BY <1>2 DEF FactoryRegister, PcStates, Arrived, Called, DbTypeOK, BranchTypeOK,
     HandlerTypeOK, TermTypeOK, ArrivedAfterTask, LockHeld, ReceivedAfterTask,
     JoinWaitsForAllBranches
<1> QED BY <1>1, <1>2

LEMMA TerminationIInv ==
  ASSUME NEW h \in Handlers
  PROVE  IInv /\ (Terminate \/ JoinTerminated(h) \/ JoinRemoved(h)) => IInv'
<1> SUFFICES ASSUME IInv, Terminate \/ JoinTerminated(h) \/ JoinRemoved(h)
             PROVE  IInv'
  OBVIOUS
<1> USE DEF IInv, TypeOK, dbVars, branchVars, handlerVars
<1>1. CASE Terminate
  BY <1>1 DEF Terminate, DbTypeOK, BranchTypeOK, HandlerTypeOK, TermTypeOK,
     ArrivedAfterTask, LockHeld, ReceivedAfterTask, JoinWaitsForAllBranches
<1>2. CASE JoinTerminated(h)
  <2> USE <1>2 DEF JoinTerminated
  <2>1. fni[h] \in Ids
    BY DEF HandlerTypeOK
  <2>2. DbTypeOK'
    BY <2>1 DEF DbTypeOK, RowStates, RowType
  <2>3. BranchTypeOK' /\ HandlerTypeOK'
    BY DEF BranchTypeOK, HandlerTypeOK
  <2>4. TermTypeOK'
    BY DEF TermTypeOK
  <2>5. ArrivedAfterTask' /\ LockHeld' /\ ReceivedAfterTask'
    BY DEF ArrivedAfterTask, LockHeld, ReceivedAfterTask
  <2>6. JoinWaitsForAllBranches'
    BY DEF JoinWaitsForAllBranches, DbTypeOK, RowType
  <2> QED BY <2>2, <2>3, <2>4, <2>5, <2>6
<1>3. CASE JoinRemoved(h)
  BY <1>3 DEF JoinRemoved, DbTypeOK, BranchTypeOK, HandlerTypeOK, TermTypeOK,
     ArrivedAfterTask, LockHeld, ReceivedAfterTask, JoinWaitsForAllBranches
<1> QED BY <1>1, <1>2, <1>3

-----------------------------------------------------------------------------
(* The join's critical section                                             *)

LEMMA ReceiveIInv ==
  ASSUME NEW b \in Branches
  PROVE  IInv /\ Receive(b) => IInv'
<1> SUFFICES ASSUME IInv, Receive(b) PROVE IInv'
  OBVIOUS
<1> USE DEF IInv, TypeOK, Receive
<1>1. /\ target[b] \in Handlers /\ fni[target[b]] \in Ids
      /\ lockKey[b] \in Ids /\ taskRow[b] = "finished"
      /\ lockQueue[lockKey[b]] \in Seq(Branches) \ {<<>>}
  BY DEF LockHeld, Called, ArrivedAfterTask, Arrived, HandlerTypeOK, BranchTypeOK
<1>2. Tail(lockQueue[lockKey[b]]) \in Seq(Branches)
  BY <1>1, QueueTail
<1>3. DbTypeOK'
  BY <1>1 DEF DbTypeOK, RowStates, RowType
<1>4. BranchTypeOK'
  BY <1>1, <1>2 DEF BranchTypeOK, PcStates, Released
<1>5. HandlerTypeOK'
  BY <1>1 DEF HandlerTypeOK
<1>6. TermTypeOK'
  BY <1>1 DEF TermTypeOK, Unsubscribed
<1>7. ArrivedAfterTask'
  BY <1>1 DEF ArrivedAfterTask, Arrived, BranchTypeOK
<1>8. LockHeld'
  <2> SUFFICES ASSUME NEW c \in Branches PROVE LockHeld!(c)'
    BY DEF LockHeld
  <2>1. CASE c = b
    BY <1>1, <2>1 DEF LockHeld, Called, BranchTypeOK
  <2>2. CASE c # b
    <3>1. pc'[c] = pc[c]
      BY <2>2 DEF BranchTypeOK
    <3>2. pc[c] \in {"entering", "exiting"} => lockKey[c] # lockKey[b]
      BY <1>1, <2>2 DEF LockHeld
    <3> QED BY <1>1, <3>1, <3>2 DEF LockHeld, Called, BranchTypeOK, Released
  <2> QED BY <2>1, <2>2
<1>9. ReceivedAfterTask'
  BY <1>1 DEF ReceivedAfterTask, HandlerTypeOK
<1>10. JoinWaitsForAllBranches'
  <2>1. CASE AllResultsReceived(received[target[b]] \cup {b})
    BY <1>1, <2>1 DEF AllResultsReceived, ReceivedAfterTask, JoinWaitsForAllBranches
  <2>2. CASE ~AllResultsReceived(received[target[b]] \cup {b})
    BY <2>2 DEF JoinWaitsForAllBranches
  <2> QED BY <2>1, <2>2
<1> QED BY <1>3, <1>4, <1>5, <1>6, <1>7, <1>8, <1>9, <1>10

LEMMA ContinueIInv ==
  ASSUME NEW b \in Branches
  PROVE  IInv /\ Continue(b) => IInv'
<1> SUFFICES ASSUME IInv, Continue(b) PROVE IInv'
  OBVIOUS
<1> USE DEF IInv, TypeOK, Continue, dbVars, handlerVars, termVars
<1>1. /\ lockKey[b] \in Ids
      /\ lockQueue[lockKey[b]] \in Seq(Branches) \ {<<>>}
  BY DEF LockHeld, Called, BranchTypeOK
<1>2. Tail(lockQueue[lockKey[b]]) \in Seq(Branches)
  BY <1>1, QueueTail
<1>3. BranchTypeOK'
  BY <1>1, <1>2 DEF BranchTypeOK, PcStates, Released
<1>4. DbTypeOK' /\ HandlerTypeOK' /\ TermTypeOK'
  BY DEF DbTypeOK, HandlerTypeOK, TermTypeOK
<1>5. ArrivedAfterTask'
  BY DEF ArrivedAfterTask, Arrived, BranchTypeOK
<1>6. LockHeld'
  <2> SUFFICES ASSUME NEW c \in Branches PROVE LockHeld!(c)'
    BY DEF LockHeld
  <2>1. CASE c = b
    BY <1>1, <2>1 DEF LockHeld, Called, BranchTypeOK
  <2>2. CASE c # b
    <3>1. pc'[c] = pc[c]
      BY <2>2 DEF BranchTypeOK
    <3>2. pc[c] \in {"entering", "exiting"} => lockKey[c] # lockKey[b]
      BY <1>1, <2>2 DEF LockHeld
    <3> QED BY <1>1, <3>1, <3>2 DEF LockHeld, Called, BranchTypeOK, Released
  <2> QED BY <2>1, <2>2
<1>7. ReceivedAfterTask' /\ JoinWaitsForAllBranches'
  BY DEF ReceivedAfterTask, JoinWaitsForAllBranches
<1> QED BY <1>3, <1>4, <1>5, <1>6, <1>7

\* What the start of the critical section changes, whichever way it takes: the
\* branch holds on to the lock or leaves it, and no row becomes finished.
Effect(b, key, queue) ==
  /\ \/ pc' = [pc EXCEPT ![b] = "entering"] /\ lockQueue' = queue
     \/ \E w \in {"left", "past"} :
          pc' = [pc EXCEPT ![b] = w] /\ lockQueue' = Released(queue, key)
  /\ joinRow' \in [Ids -> RowType]
  /\ \A i \in Ids : joinRow'[i].state = "finished" => joinRow[i].state = "finished"
  /\ incoming' \in [Handlers -> SUBSET Branches]
  /\ subscribed' \subseteq Handlers

LEMMA CriticalEffect ==
  ASSUME IInv, NEW b \in Branches, NEW h \in Handlers, NEW r \in Ids \cup {None},
         NEW key \in Ids, NEW queue \in [Ids -> Seq(Branches)],
         NEW prev \in SUBSET Branches, NEW id \in Ids,
         Critical(b, h, r, key, queue, prev, id)
  PROVE  Effect(b, key, queue)
<1> USE DEF Critical, IInv, TypeOK, DbTypeOK, HandlerTypeOK, TermTypeOK, RowType, RowStates
<1>1. Arrivals(h, prev) \in SUBSET Branches
  BY DEF Arrivals
<1>2. incoming' \in [Handlers -> SUBSET Branches] /\ subscribed' \subseteq Handlers
  BY <1>1
<1>3. \/ pc' = [pc EXCEPT ![b] = "entering"] /\ lockQueue' = queue
      \/ \E w \in {"left", "past"} :
           pc' = [pc EXCEPT ![b] = w] /\ lockQueue' = Released(queue, key)
  OBVIOUS
<1>4. /\ joinRow' \in [Ids -> RowType]
      /\ \A i \in Ids : joinRow'[i].state = "finished" => joinRow[i].state = "finished"
  <2>1. CASE joinRow' = [joinRow EXCEPT ![id] = [state |-> "running", prev |-> Arrivals(h, prev)]]
    BY <1>1, <2>1
  <2>2. CASE joinRow' = joinRow
    BY <2>2
  <2> QED BY <2>1, <2>2
<1> QED BY <1>2, <1>3, <1>4 DEF Effect

\* The invariant after the start of the critical section: `fni`, `prevIds` and
\* `lockKey` may have been assigned in the same step.
LEMMA CriticalIInv ==
  ASSUME IInv, NEW b \in Branches,
         NEW key \in Ids, NEW queue \in [Ids -> Seq(Branches)],
         pc[b] \in {"call", "queued", "queuedResume"},
         queue[key] # <<>>, Head(queue[key]) = b,
         \A i \in Ids \ {key} : queue[i] = lockQueue[i],
         lockQueue[key] # <<>> => Head(lockQueue[key]) = b,
         Effect(b, key, queue),
         fni' \in [Handlers -> Ids], prevIds' \in [Handlers -> SUBSET Branches],
         lockKey' = [lockKey EXCEPT ![b] = key],
         UNCHANGED <<splitRow, taskRow, boot, snapshot, splitPc, target, registration,
                     received, interrupted, removing, terminated, notify>>
  PROVE  IInv'
<1>1. target[b] \in Handlers /\ taskRow[b] = "finished"
  BY DEF IInv, LockHeld, Called, ArrivedAfterTask, Arrived
<1> USE DEF IInv, TypeOK, Effect
<1>3. Tail(queue[key]) \in Seq(Branches)
  BY QueueTail
<1>4. DbTypeOK' /\ HandlerTypeOK' /\ TermTypeOK'
  BY DEF DbTypeOK, HandlerTypeOK, TermTypeOK
<1>5. BranchTypeOK'
  <2>1. lockQueue' \in [Ids -> Seq(Branches)]
    BY <1>3 DEF Released
  <2>2. pc' \in [Branches -> PcStates]
    BY DEF BranchTypeOK, PcStates
  <2> QED BY <2>1, <2>2 DEF BranchTypeOK
<1>6. ArrivedAfterTask'
  BY <1>1 DEF ArrivedAfterTask, Arrived, BranchTypeOK
<1>7. LockHeld'
  <2> SUFFICES ASSUME NEW c \in Branches PROVE LockHeld!(c)'
    BY DEF LockHeld
  <2>1. CASE c = b
    BY <1>1, <2>1 DEF LockHeld, Called, BranchTypeOK
  <2>2. CASE c # b
    <3>1. pc'[c] = pc[c] /\ lockKey'[c] = lockKey[c]
      BY <2>2 DEF BranchTypeOK
    <3>2. pc[c] \in {"entering", "exiting"} => lockKey[c] \in Ids \ {key}
      BY <2>2 DEF LockHeld, Called
    <3> QED BY <3>1, <3>2 DEF LockHeld, Called, BranchTypeOK, Released
  <2> QED BY <2>1, <2>2
<1>8. ReceivedAfterTask' /\ JoinWaitsForAllBranches'
  BY DEF ReceivedAfterTask, JoinWaitsForAllBranches
<1> QED BY <1>4, <1>5, <1>6, <1>7, <1>8

LEMMA AcquireIInv ==
  ASSUME NEW b \in Branches
  PROVE  IInv /\ Acquire(b) => IInv'
<1> SUFFICES ASSUME IInv, Acquire(b) PROVE IInv'
  OBVIOUS
<1> USE DEF Acquire
<1>1. target[b] \in Handlers /\ lockKey[b] \in Ids
  BY DEF IInv, LockHeld, Called
<1>2. fni[target[b]] \in Ids /\ prevIds[target[b]] \in SUBSET Branches
  BY <1>1 DEF IInv, TypeOK, HandlerTypeOK
<1>3. lockQueue \in [Ids -> Seq(Branches)] /\ lockKey' = [lockKey EXCEPT ![b] = lockKey[b]]
  BY DEF IInv, TypeOK, BranchTypeOK
<1>4. fni' \in [Handlers -> Ids] /\ prevIds' \in [Handlers -> SUBSET Branches]
  BY DEF IInv, TypeOK, HandlerTypeOK
<1>5. PICK r \in Ids \cup {None} :
        Critical(b, target[b], r, lockKey[b], lockQueue, prevIds[target[b]], fni[target[b]])
  BY <1>1
<1>6. Effect(b, lockKey[b], lockQueue)
  BY <1>1, <1>2, <1>3, <1>5, CriticalEffect
<1> QED BY <1>1, <1>3, <1>4, <1>6, CriticalIInv

LEMMA CallIInv ==
  ASSUME NEW b \in Branches
  PROVE  IInv /\ Call(b) => IInv'
<1> SUFFICES ASSUME IInv, Call(b) PROVE IInv'
  OBVIOUS
<1>1. target[b] \in Handlers /\ pc[b] = "call" /\ taskRow[b] = "finished"
  BY DEF IInv, LockHeld, Called, Call, ArrivedAfterTask, Arrived
<1> DEFINE Prev(r) == IF r = None THEN {b} ELSE snapshot[r].prev
           Id(r) == IF r = None THEN fni[target[b]] ELSE r
           Queue(r) == [lockQueue EXCEPT ![Id(r)] = Append(@, b)]
<1>2. PICK r \in Ids \cup {None} :
        /\ prevIds' = [prevIds EXCEPT ![target[b]] = Prev(r)]
        /\ fni' = [fni EXCEPT ![target[b]] = Id(r)]
        /\ lockKey' = [lockKey EXCEPT ![b] = Id(r)]
        /\ \/ /\ lockQueue[Id(r)] = <<>>
              /\ Critical(b, target[b], r, Id(r), Queue(r), Prev(r), Id(r))
           \/ /\ lockQueue[Id(r)] # <<>>
              /\ lockQueue' = Queue(r)
              /\ pc' = [pc EXCEPT ![b] = IF r = None THEN "queued" ELSE "queuedResume"]
              /\ UNCHANGED <<joinRow, incoming, subscribed>>
  BY DEF Call, FoundRows
<1>3. UNCHANGED <<splitRow, taskRow, boot, snapshot, splitPc, target, registration,
                  received, interrupted, removing, terminated, notify>>
  BY DEF Call
<1>4. Id(r) \in Ids /\ Prev(r) \in SUBSET Branches
  BY <1>1 DEF IInv, TypeOK, HandlerTypeOK, DbTypeOK, RowType
<1>5. /\ fni' \in [Handlers -> Ids]
      /\ prevIds' \in [Handlers -> SUBSET Branches]
  BY <1>2, <1>4 DEF IInv, TypeOK, HandlerTypeOK
<1>6. lockQueue \in [Ids -> Seq(Branches)]
  BY DEF IInv, TypeOK, BranchTypeOK
<1>7. /\ Append(lockQueue[Id(r)], b) \in Seq(Branches)
      /\ Append(lockQueue[Id(r)], b) # <<>>
      /\ lockQueue[Id(r)] = <<>> => Head(Append(lockQueue[Id(r)], b)) = b
      /\ lockQueue[Id(r)] # <<>> =>
           Head(Append(lockQueue[Id(r)], b)) = Head(lockQueue[Id(r)])
  BY <1>4, <1>6, QueueAppend
<1>8. /\ Queue(r) \in [Ids -> Seq(Branches)]
      /\ Queue(r)[Id(r)] = Append(lockQueue[Id(r)], b)
      /\ \A i \in Ids \ {Id(r)} : Queue(r)[i] = lockQueue[i]
  BY <1>4, <1>6, <1>7
<1> HIDE DEF Prev, Id, Queue
<1>9. CASE lockQueue[Id(r)] = <<>>
  <2>1. Critical(b, target[b], r, Id(r), Queue(r), Prev(r), Id(r))
    BY <1>2, <1>9
  <2>2. Effect(b, Id(r), Queue(r))
    BY <2>1, <1>1, <1>4, <1>8, CriticalEffect
  <2> QED BY <2>2, <1>1, <1>2, <1>3, <1>4, <1>5, <1>7, <1>8, <1>9, CriticalIInv
<1>10. CASE lockQueue[Id(r)] # <<>>
  <2> USE <1>1, <1>2, <1>3, <1>4, <1>8, <1>10 DEF IInv, TypeOK
  <2>1. DbTypeOK' /\ HandlerTypeOK' /\ TermTypeOK'
    BY <1>5 DEF DbTypeOK, HandlerTypeOK, TermTypeOK
  <2>2. BranchTypeOK'
    BY DEF BranchTypeOK, PcStates
  <2>3. ArrivedAfterTask'
    BY DEF ArrivedAfterTask, Arrived, BranchTypeOK
  <2>4. LockHeld'
    <3> SUFFICES ASSUME NEW c \in Branches PROVE LockHeld!(c)'
      BY DEF LockHeld
    <3>1. CASE c = b
      BY <3>1 DEF LockHeld, Called, BranchTypeOK
    <3>2. CASE c # b
      <4>1. pc'[c] = pc[c] /\ lockKey'[c] = lockKey[c] /\ target'[c] = target[c]
        BY <3>2 DEF BranchTypeOK
      <4>2. ASSUME pc[c] \in {"entering", "exiting"}
            PROVE  lockQueue'[lockKey[c]] # <<>> /\ Head(lockQueue'[lockKey[c]]) = c
        <5>1. lockKey[c] \in Ids /\ lockQueue[lockKey[c]] # <<>>
              /\ Head(lockQueue[lockKey[c]]) = c
          BY <4>2 DEF LockHeld, Called
        <5>2. CASE lockKey[c] = Id(r)
          BY <5>1, <5>2, <1>7
        <5>3. CASE lockKey[c] # Id(r)
          BY <5>1, <5>3
        <5> QED BY <5>2, <5>3
      <4> QED BY <4>1, <4>2 DEF LockHeld, Called
    <3> QED BY <3>1, <3>2
  <2>5. ReceivedAfterTask' /\ JoinWaitsForAllBranches'
    BY DEF ReceivedAfterTask, JoinWaitsForAllBranches
  <2> QED BY <2>1, <2>2, <2>3, <2>4, <2>5
<1> QED BY <1>9, <1>10

LEMMA CrashIInv == IInv /\ CrashAndResume => IInv'
<1> SUFFICES ASSUME IInv, CrashAndResume PROVE IInv'
  OBVIOUS
<1> USE DEF IInv, TypeOK, CrashAndResume, dbVars
<1>1. boot' \in 0 .. MaxCrashes /\ boot' = boot + 1
  BY ConstantsAssumption DEF DbTypeOK
<1>2. \A h \in Handlers : <<boot + 1, h>> \in Ids
  BY <1>1, FreshIds
<1>3. DbTypeOK'
  BY <1>1 DEF DbTypeOK
<1>4. HandlerTypeOK'
  BY <1>2 DEF HandlerTypeOK
<1>5. BranchTypeOK'
  <2>1. <<>> \in Seq(Branches)
    OBVIOUS
  <2>2. splitPc' \in {"start", "entered", "exited", "done"}
    BY DEF DbTypeOK
  <2> QED BY <2>1, <2>2 DEF BranchTypeOK, PcStates
<1>6. TermTypeOK'
  BY DEF TermTypeOK
<1>7. ArrivedAfterTask' /\ LockHeld'
  BY DEF ArrivedAfterTask, LockHeld, Arrived, Called
<1>8. ReceivedAfterTask' /\ JoinWaitsForAllBranches'
  BY DEF ReceivedAfterTask, JoinWaitsForAllBranches
<1> QED BY <1>3, <1>4, <1>5, <1>6, <1>7, <1>8

-----------------------------------------------------------------------------
LEMMA StepIInv == IInv /\ [Next]_vars => IInv'
<1> SUFFICES ASSUME IInv, [Next]_vars PROVE IInv'
  OBVIOUS
<1>1. CASE SplitStep
  BY <1>1, SplitStepIInv
<1>2. ASSUME NEW b \in Branches, BranchStep(b) PROVE IInv'
  BY <1>2, TaskStepIInv, FactoryStepIInv, CallIInv, AcquireIInv, ReceiveIInv, ContinueIInv
     DEF BranchStep
<1>3. CASE Terminate
  BY <1>3, TerminationIInv DEF Handlers
<1>4. CASE TerminationStep
  BY <1>4, TaskStepIInv, TerminationIInv DEF TerminationStep
<1>5. CASE CrashAndResume
  BY <1>5, CrashIInv
<1>6. CASE UNCHANGED vars
  BY <1>6 DEF vars, dbVars, branchVars, handlerVars, termVars, IInv, TypeOK, DbTypeOK,
     BranchTypeOK, HandlerTypeOK, TermTypeOK, ArrivedAfterTask, LockHeld,
     ReceivedAfterTask, JoinWaitsForAllBranches
<1> QED BY <1>1, <1>2, <1>3, <1>4, <1>5, <1>6 DEF Next

\* Every variable keeps its type, for any number of branches, restarts and with
\* terminations.
THEOREM TypeCorrect == Spec => []TypeOK
<1>1. IInv => TypeOK
  BY DEF IInv
<1> QED BY <1>1, InitIInv, StepIInv, PTL DEF Spec

\* A join instance is only ever recorded as finished when the activity of every
\* branch between split and join is finished: for any number of branches, any
\* number of restarts and under termination.
THEOREM JoinWaits == Spec => []JoinWaitsForAllBranches
<1>1. IInv => JoinWaitsForAllBranches
  BY DEF IInv
<1> QED BY <1>1, InitIInv, StepIInv, PTL DEF Spec

-----------------------------------------------------------------------------
(* Without a restart the join lets one branch through                      *)

\* No branch resumes anything: there is no snapshot of an earlier life.
NothingToResume ==
  /\ \A i \in Ids : snapshot[i].state = "absent"
  /\ \A b \in Branches : pc[b] # "queuedResume"

\* A branch delivers to one handler, once; a handler that has let a branch
\* through has the results of all, so that no other branch can complete it and
\* no branch is left to complete another handler.
CollectedOnce ==
  /\ \A h \in Handlers : \A b \in received[h] :
       target[b] = h /\ pc[b] \in {"left", "exiting", "past"}
  /\ \A b \in Branches : pc[b] \in {"exiting", "past"} =>
       target[b] \in Handlers /\ received[target[b]] = Branches
  /\ \A b1, b2 \in Branches :
       pc[b1] \in {"exiting", "past"} /\ pc[b2] \in {"exiting", "past"} => b1 = b2

\* No branch runs before the split has started them all.
StartedBySplit == splitPc # "done" => \A b \in Branches : pc[b] = "idle"

Undisturbed == NothingToResume /\ CollectedOnce /\ StartedBySplit

OnceInv == IInv /\ (boot = 0 => Undisturbed)

\* A step that leaves the handlers' results and the snapshot alone and moves
\* one branch, which is not yet through, to a place before the results.
LEMMA QuietMove ==
  ASSUME IInv, NothingToResume, CollectedOnce, NEW b \in Branches,
         pc[b] \notin {"left", "exiting", "past"},
         NEW w \in PcStates \ {"exiting", "past", "queuedResume"},
         pc' = [pc EXCEPT ![b] = w],
         NEW t, target' = [target EXCEPT ![b] = t],
         received' = received, snapshot' = snapshot
  PROVE  NothingToResume' /\ CollectedOnce'
<1> USE DEF IInv, TypeOK, BranchTypeOK, HandlerTypeOK
<1>1. NothingToResume'
  BY DEF NothingToResume
<1>2. \A c \in Branches \ {b} : pc'[c] = pc[c] /\ target'[c] = target[c]
  OBVIOUS
<1>3. pc'[b] = w /\ w \notin {"exiting", "past"} /\ \A h \in Handlers : b \notin received[h]
  BY DEF CollectedOnce
<1> QED BY <1>1, <1>2, <1>3 DEF CollectedOnce

\* A step that moves no branch.
LEMMA QuietStep ==
  ASSUME NothingToResume, CollectedOnce, UNCHANGED <<pc, target, received, snapshot>>
  PROVE  NothingToResume' /\ CollectedOnce'
  BY DEF NothingToResume, CollectedOnce

LEMMA BranchOnce ==
  ASSUME NEW b \in Branches
  PROVE  IInv /\ Undisturbed /\ (BranchStep(b) \/ TaskTerminated(b))
           => NothingToResume' /\ CollectedOnce'
<1> SUFFICES ASSUME IInv, Undisturbed, BranchStep(b) \/ TaskTerminated(b)
             PROVE  NothingToResume' /\ CollectedOnce'
  OBVIOUS
<1>1. IInv /\ NothingToResume /\ CollectedOnce
  BY DEF Undisturbed
<1>2. /\ pc \in [Branches -> PcStates] /\ target \in [Branches -> Handlers \cup {None}]
      /\ target = [target EXCEPT ![b] = target[b]]
      /\ received \in [Handlers -> SUBSET Branches]
  BY <1>1 DEF IInv, TypeOK, BranchTypeOK, HandlerTypeOK
<1>3. FoundRows(b) = {}
  BY <1>1 DEF NothingToResume, FoundRows
<1>4. CASE TaskStart(b) \/ TaskFinish(b)
  <2>1. PICK w \in {"task", "toJoin"} : pc' = [pc EXCEPT ![b] = w]
    BY <1>4 DEF TaskStart, TaskFinish
  <2>2. pc[b] \notin {"left", "exiting", "past"} /\ target' = [target EXCEPT ![b] = target[b]]
        /\ received' = received /\ snapshot' = snapshot
    BY <1>2, <1>4 DEF TaskStart, TaskFinish, handlerVars
  <2> QED BY <1>1, <2>1, <2>2, QuietMove DEF PcStates
<1>5. CASE TaskTerminated(b)
  <2>1. CASE pc[b] = "task"
    <3>1. pc' = [pc EXCEPT ![b] = "failed"] /\ target' = [target EXCEPT ![b] = target[b]]
          /\ received' = received /\ snapshot' = snapshot
      BY <1>2, <1>5, <2>1 DEF TaskTerminated, handlerVars
    <3> QED BY <1>1, <2>1, <3>1, QuietMove DEF PcStates
  <2>2. CASE pc[b] # "task"
    BY <1>1, <1>5, <2>2, QuietStep DEF TaskTerminated, handlerVars
  <2> QED BY <2>1, <2>2
<1>6. CASE FactoryCheck(b) \/ FactoryRegister(b)
  <2>1. PICK w \in {"creating", "call"} : pc' = [pc EXCEPT ![b] = w]
    BY <1>6 DEF FactoryCheck, FactoryRegister
  <2>2. PICK t : target' = [target EXCEPT ![b] = t]
    BY <1>6 DEF FactoryCheck, FactoryRegister
  <2>3. pc[b] \notin {"left", "exiting", "past"} /\ received' = received /\ snapshot' = snapshot
    BY <1>6 DEF FactoryCheck, FactoryRegister, handlerVars
  <2> QED BY <1>1, <2>1, <2>2, <2>3, QuietMove DEF PcStates
<1>7. CASE Call(b) \/ Acquire(b)
  <2>1. PICK w \in {"queued", "entering", "left"} : pc' = [pc EXCEPT ![b] = w]
    <3>1. CASE Call(b)
      BY <1>3, <3>1 DEF Call, Critical
    <3>2. CASE Acquire(b)
      BY <1>1, <3>2 DEF Acquire, Critical, NothingToResume
    <3> QED BY <1>7, <3>1, <3>2
  <2>2. pc[b] \notin {"left", "exiting", "past"} /\ target' = [target EXCEPT ![b] = target[b]]
        /\ received' = received /\ snapshot' = snapshot
    BY <1>2, <1>7 DEF Call, Acquire
  <2> QED BY <1>1, <2>1, <2>2, QuietMove DEF PcStates
<1>8. CASE Receive(b)
  <2> USE <1>8 DEF Receive
  <2>1. /\ target[b] \in Handlers
        /\ \A h \in Handlers : b \notin received[h]
    BY <1>1 DEF IInv, LockHeld, Called, CollectedOnce
  <2>2. \A c \in Branches : pc[c] \notin {"exiting", "past"}
    BY <1>1, <2>1 DEF CollectedOnce
  <2>3. /\ target' = target /\ snapshot' = snapshot
        /\ received' = [received EXCEPT ![target[b]] = @ \cup {b}]
    OBVIOUS
  <2>4. CASE AllResultsReceived(received[target[b]] \cup {b})
    <3>1. pc' = [pc EXCEPT ![b] = "exiting"]
      BY <2>4
    <3>2. received'[target[b]] = Branches
      BY <1>2, <2>1, <2>3, <2>4 DEF AllResultsReceived
    <3> QED BY <1>1, <1>2, <2>1, <2>2, <2>3, <3>1, <3>2 DEF NothingToResume, CollectedOnce
  <2>5. CASE ~AllResultsReceived(received[target[b]] \cup {b})
    <3>1. pc' = [pc EXCEPT ![b] = "left"]
      BY <2>5
    <3> QED BY <1>1, <1>2, <2>1, <2>2, <2>3, <3>1 DEF NothingToResume, CollectedOnce
  <2> QED BY <2>4, <2>5
<1>9. CASE Continue(b)
  <2>1. pc[b] = "exiting" /\ pc' = [pc EXCEPT ![b] = "past"]
        /\ UNCHANGED <<target, received, snapshot>>
    BY <1>9 DEF Continue, handlerVars
  <2> QED BY <1>1, <1>2, <2>1 DEF NothingToResume, CollectedOnce
<1> QED BY <1>4, <1>5, <1>6, <1>7, <1>8, <1>9 DEF BranchStep

LEMMA StartedStep == IInv /\ StartedBySplit /\ [Next]_vars => StartedBySplit'
<1> SUFFICES ASSUME IInv, StartedBySplit, [Next]_vars PROVE StartedBySplit'
  OBVIOUS
<1>1. pc \in [Branches -> PcStates]
  BY DEF IInv, TypeOK, BranchTypeOK
<1>2. CASE SplitStep
  BY <1>2 DEF SplitStep, SplitEnter, SplitExecute, SplitContinue, branchVars, StartedBySplit
<1>3. ASSUME NEW b \in Branches, BranchStep(b)
      PROVE  StartedBySplit'
  <2>1. pc[b] # "idle" /\ splitPc' = splitPc
    BY <1>3 DEF BranchStep, TaskStart, TaskFinish, FactoryCheck, FactoryRegister, Call,
                Acquire, Receive, Continue
  <2> QED BY <2>1 DEF StartedBySplit
<1>4. ASSUME NEW b \in Branches, TaskTerminated(b)
      PROVE  StartedBySplit'
  <2>1. splitPc' = splitPc /\ (pc' = pc \/ pc[b] = "task")
    BY <1>4 DEF TaskTerminated
  <2> QED BY <2>1 DEF StartedBySplit
<1>5. ASSUME NEW h \in Handlers, JoinTerminated(h) \/ JoinRemoved(h)
      PROVE  StartedBySplit'
  BY <1>5 DEF JoinTerminated, JoinRemoved, branchVars, StartedBySplit
<1>6. CASE Terminate
  BY <1>6 DEF Terminate, branchVars, StartedBySplit
<1>7. CASE CrashAndResume
  BY <1>7 DEF CrashAndResume, StartedBySplit
<1>8. CASE UNCHANGED vars
  BY <1>8 DEF vars, branchVars, StartedBySplit
<1> QED BY <1>2, <1>3, <1>4, <1>5, <1>6, <1>7, <1>8 DEF Next, TerminationStep

\* Only a restart changes `boot`.
LEMMA BootStep == [Next]_vars => boot' = boot \/ CrashAndResume
<1> SUFFICES ASSUME [Next]_vars, ~CrashAndResume PROVE boot' = boot
  OBVIOUS
<1>1. ASSUME NEW b \in Branches, BranchStep(b) \/ TaskTerminated(b) PROVE boot' = boot
  BY <1>1 DEF BranchStep, TaskStart, TaskFinish, FactoryCheck, FactoryRegister, Call,
              Acquire, Receive, Continue, TaskTerminated
<1>2. ASSUME NEW h \in Handlers, JoinTerminated(h) \/ JoinRemoved(h) PROVE boot' = boot
  BY <1>2 DEF JoinTerminated, JoinRemoved
<1>3. CASE SplitStep \/ Terminate
  BY <1>3 DEF SplitStep, SplitEnter, SplitExecute, SplitContinue, Terminate
<1>4. CASE UNCHANGED vars
  BY <1>4 DEF vars
<1> QED BY <1>1, <1>2, <1>3, <1>4 DEF Next, TerminationStep

LEMMA StepOnce == OnceInv /\ [Next]_vars => OnceInv'
<1> SUFFICES ASSUME OnceInv, [Next]_vars PROVE OnceInv'
  OBVIOUS
<1>1. IInv /\ IInv'
  BY StepIInv DEF OnceInv
<1> SUFFICES ASSUME boot' = 0 PROVE Undisturbed'
  BY <1>1 DEF OnceInv
<1>2. boot = 0 /\ ~CrashAndResume
  <2>1. boot \in Nat
    BY <1>1, ConstantsAssumption DEF IInv, TypeOK, DbTypeOK
  <2>2. ~CrashAndResume
    BY <2>1 DEF CrashAndResume
  <2> QED BY <2>2, BootStep
<1>3. NothingToResume /\ CollectedOnce /\ StartedBySplit
  BY <1>2 DEF OnceInv, Undisturbed
<1>4. StartedBySplit'
  BY <1>1, <1>3, StartedStep
<1>5. NothingToResume' /\ CollectedOnce'
  <2>1. CASE SplitStep
    <3>1. CASE SplitContinue
      <4>1. /\ splitPc = "exited" /\ pc' = [b \in Branches |-> "start"]
            /\ UNCHANGED <<target, received, snapshot>>
        BY <3>1 DEF SplitContinue, handlerVars
      <4>2. \A h \in Handlers : received[h] = {}
        BY <1>1, <1>3, <4>1 DEF CollectedOnce, StartedBySplit, IInv, TypeOK, HandlerTypeOK
      <4> QED BY <1>3, <4>1, <4>2 DEF NothingToResume, CollectedOnce
    <3>2. CASE SplitEnter \/ SplitExecute
      BY <1>3, <3>2, QuietStep DEF SplitEnter, SplitExecute, branchVars, handlerVars
    <3> QED BY <2>1, <3>1, <3>2 DEF SplitStep
  <2>2. ASSUME NEW b \in Branches, BranchStep(b) \/ TaskTerminated(b)
        PROVE  NothingToResume' /\ CollectedOnce'
    BY <1>1, <1>3, <2>2, BranchOnce DEF Undisturbed
  <2>3. CASE Terminate
    BY <1>3, <2>3, QuietStep DEF Terminate, branchVars, handlerVars
  <2>4. ASSUME NEW h \in Handlers, JoinTerminated(h) \/ JoinRemoved(h)
        PROVE  NothingToResume' /\ CollectedOnce'
    BY <1>3, <2>4, QuietStep DEF JoinTerminated, JoinRemoved, branchVars, handlerVars
  <2>5. CASE UNCHANGED vars
    BY <1>3, <2>5, QuietStep DEF vars, branchVars, handlerVars
  <2> QED BY <1>2, <2>1, <2>2, <2>3, <2>4, <2>5 DEF Next, TerminationStep
<1> QED BY <1>4, <1>5 DEF Undisturbed

\* As long as the runtime is not restarted, at most one branch runs the flow
\* nodes behind the join, for any number of branches and under termination.
THEOREM JoinContinuesOnce == Spec => []SingleContinuation
<1>1. Init => OnceInv
  BY InitIInv DEF Init, OnceInv, Undisturbed, NothingToResume, CollectedOnce,
                  StartedBySplit, Absent
<1>2. OnceInv /\ [Next]_vars => OnceInv'
  BY StepOnce
<1>3. OnceInv => SingleContinuation
  BY DEF OnceInv, Undisturbed, CollectedOnce, SingleContinuation
<1> QED BY <1>1, <1>2, <1>3, PTL DEF Spec

-----------------------------------------------------------------------------
(* Without a restart a finished join is left alone                         *)

\* Every handler works on the row it drew itself, and one whose row is finished
\* has the results of all branches and has unsubscribed.
FinishedForGood ==
  \A h \in Handlers :
    /\ fni[h] = <<0, h>>
    /\ joinRow[fni[h]].state = "finished" =>
         received[h] = Branches /\ h \notin subscribed

\* What has to be shown of a step: no finished row is rewritten.
KeepsFinished ==
  \A i \in Ids : joinRow[i].state = "finished" => joinRow'[i] = joinRow[i]

\* A handler whose row is finished has nobody left to come: whoever is at the
\* join with a handler in hand has not delivered his result to it.
LEMMA NobodyLeft ==
  ASSUME IInv, CollectedOnce, FinishedForGood, NEW b \in Branches,
         target[b] \in Handlers, pc[b] \notin {"left", "exiting", "past"}
  PROVE  joinRow[fni[target[b]]].state # "finished"
  BY DEF CollectedOnce, FinishedForGood

\* A step that changes no row, no id, no result, and subscribes nobody.
LEMMA FinalQuiet ==
  ASSUME FinishedForGood, UNCHANGED <<joinRow, fni, received>>, subscribed' \subseteq subscribed
  PROVE  FinishedForGood' /\ KeepsFinished
  BY DEF FinishedForGood, KeepsFinished

\* A step that changes the row of one handler, which is not finished, to one that is
\* not finished either, or changes none, and subscribes this handler at most.
LEMMA FinalOpen ==
  ASSUME IInv, FinishedForGood, NEW h \in Handlers, joinRow[fni[h]].state # "finished",
         UNCHANGED <<fni, received>>, subscribed' \subseteq subscribed \cup {h},
         NEW row \in RowType, row.state # "finished",
         joinRow' = joinRow \/ joinRow' = [joinRow EXCEPT ![fni[h]] = row]
  PROVE  FinishedForGood' /\ KeepsFinished
<1>1. joinRow \in [Ids -> RowType] /\ fni[h] \in Ids /\ \A k \in Handlers : fni[k] \in Ids
  BY DEF IInv, TypeOK, DbTypeOK, HandlerTypeOK
<1>2. KeepsFinished
  BY <1>1 DEF KeepsFinished
<1>3. ASSUME NEW k \in Handlers, joinRow'[fni[k]].state = "finished"
      PROVE  k # h /\ joinRow[fni[k]].state = "finished"
  <2>1. k # h
    BY <1>1, <1>3
  <2>2. fni[k] # fni[h]
    BY <2>1 DEF FinishedForGood
  <2> QED BY <1>1, <1>3, <2>1, <2>2
<1>4. FinishedForGood'
  BY <1>3 DEF FinishedForGood
<1> QED BY <1>2, <1>4

\* The critical section is entered with a handler that has not finished.
LEMMA FinalCritical ==
  ASSUME IInv, Undisturbed, FinishedForGood, NEW b \in Branches, Call(b) \/ Acquire(b)
  PROVE  FinishedForGood' /\ KeepsFinished
<1>1. IInv /\ NothingToResume /\ CollectedOnce
  BY DEF Undisturbed
<1>2. /\ target[b] \in Handlers /\ fni[target[b]] \in Ids
      /\ prevIds[target[b]] \in SUBSET Branches /\ incoming[target[b]] \in SUBSET Branches
      /\ fni \in [Handlers -> Ids]
  BY <1>1 DEF IInv, TypeOK, HandlerTypeOK, LockHeld, Called, Call, Acquire
<1>3. joinRow[fni[target[b]]].state # "finished"
  BY <1>1, <1>2, NobodyLeft DEF Call, Acquire
<1>4. PICK prev \in SUBSET Branches :
        /\ UNCHANGED <<fni, received>>
        /\ subscribed' \subseteq subscribed \cup {target[b]}
        /\ \/ joinRow' = joinRow
           \/ joinRow' = [joinRow EXCEPT ![fni[target[b]]] =
                           [state |-> "running", prev |-> Arrivals(target[b], prev)]]
  <2>1. CASE Call(b)
    <3>1. FoundRows(b) = {}
      BY <1>1 DEF NothingToResume, FoundRows
    <3>2. fni' = fni
      BY <1>2, <2>1, <3>1 DEF Call
    <3> QED BY <2>1, <3>1, <3>2 DEF Call, Critical
  <2>2. CASE Acquire(b)
    <3>1. pc[b] = "queued"
      BY <1>1, <2>2 DEF Acquire, NothingToResume
    <3> QED BY <1>2, <2>2, <3>1 DEF Acquire, Critical
  <2> QED BY <2>1, <2>2
<1>5. [state |-> "running", prev |-> Arrivals(target[b], prev)] \in RowType
  BY <1>2 DEF RowType, RowStates, Arrivals
<1> QED BY <1>2, <1>3, <1>4, <1>5, FinalOpen

LEMMA FinalReceive ==
  ASSUME IInv, Undisturbed, FinishedForGood, NEW b \in Branches, Receive(b)
  PROVE  FinishedForGood' /\ KeepsFinished
<1> DEFINE h == target[b]
           results == received[h] \cup {b}
<1>1. IInv /\ CollectedOnce
  BY DEF Undisturbed
<1>2. /\ h \in Handlers /\ fni \in [Handlers -> Ids] /\ joinRow \in [Ids -> RowType]
      /\ received \in [Handlers -> SUBSET Branches] /\ subscribed \subseteq Handlers
  BY <1>1 DEF IInv, TypeOK, DbTypeOK, HandlerTypeOK, TermTypeOK, LockHeld, Called, Receive
<1>3. joinRow[fni[h]].state # "finished"
  BY <1>1, <1>2, NobodyLeft DEF Receive
<1>4. \A k \in Handlers \ {h} : fni[k] # fni[h] /\ received'[k] = received[k]
  BY <1>2 DEF FinishedForGood, Receive
<1>5. CASE AllResultsReceived(results)
  <2>1. /\ joinRow' = [joinRow EXCEPT ![fni[h]].state = "finished"]
        /\ subscribed' = subscribed \ {h} /\ fni' = fni
        /\ received'[h] = results
    BY <1>2, <1>5 DEF Receive, Unsubscribed
  <2>2. results = Branches
    BY <1>2, <1>5 DEF AllResultsReceived
  <2>3. KeepsFinished
    BY <1>2, <1>3, <2>1 DEF KeepsFinished
  <2>4. ASSUME NEW k \in Handlers
        PROVE  /\ fni'[k] = <<0, k>>
               /\ joinRow'[fni'[k]].state = "finished" =>
                    received'[k] = Branches /\ k \notin subscribed'
    <3>1. CASE k = h
      BY <2>1, <2>2, <3>1 DEF FinishedForGood
    <3>2. CASE k # h
      <4>1. joinRow'[fni[k]] = joinRow[fni[k]]
        BY <1>2, <1>4, <2>1, <3>2
      <4> QED BY <1>4, <2>1, <3>2, <4>1 DEF FinishedForGood
    <3> QED BY <3>1, <3>2
  <2> QED BY <2>3, <2>4 DEF FinishedForGood
<1>6. CASE ~AllResultsReceived(results)
  <2>1. joinRow' = joinRow /\ subscribed' = subscribed /\ fni' = fni
    BY <1>6 DEF Receive
  <2> QED BY <1>3, <1>4, <2>1 DEF FinishedForGood, KeepsFinished
<1> QED BY <1>5, <1>6

LEMMA FinalTerminated ==
  ASSUME IInv, FinishedForGood, NEW h \in Handlers, JoinTerminated(h)
  PROVE  FinishedForGood' /\ KeepsFinished
<1>1. joinRow \in [Ids -> RowType] /\ fni[h] \in Ids
  BY DEF IInv, TypeOK, DbTypeOK, HandlerTypeOK
<1>2. CASE h \in subscribed
  <2>1. joinRow[fni[h]].state # "finished"
    BY <1>2 DEF FinishedForGood
  <2>2. joinRow' = [joinRow EXCEPT ![fni[h]] =
                      [state |-> "terminated", prev |-> joinRow[fni[h]].prev]]
    BY <1>1, <1>2 DEF JoinTerminated, RowType
  <2>3. [state |-> "terminated", prev |-> joinRow[fni[h]].prev] \in RowType
    BY <1>1 DEF RowType, RowStates
  <2>4. subscribed' \subseteq subscribed \cup {h} /\ UNCHANGED <<fni, received>>
    BY <1>2 DEF JoinTerminated, handlerVars
  <2> QED BY <2>1, <2>2, <2>3, <2>4, FinalOpen
<1>3. CASE h \notin subscribed
  BY <1>3, FinalQuiet DEF JoinTerminated, handlerVars
<1> QED BY <1>2, <1>3

LEMMA FinalStep ==
  ASSUME IInv, Undisturbed, FinishedForGood, [Next]_vars, ~CrashAndResume
  PROVE  FinishedForGood' /\ KeepsFinished
<1>1. CASE SplitStep
  BY <1>1, FinalQuiet DEF SplitStep, SplitEnter, SplitExecute, SplitContinue, handlerVars,
     termVars, dbVars
<1>2. ASSUME NEW b \in Branches,
             TaskStart(b) \/ TaskFinish(b) \/ FactoryCheck(b) \/ FactoryRegister(b)
               \/ Continue(b) \/ TaskTerminated(b)
      PROVE  FinishedForGood' /\ KeepsFinished
  BY <1>2, FinalQuiet DEF TaskStart, TaskFinish, FactoryCheck, FactoryRegister, Continue,
     TaskTerminated, handlerVars, termVars, dbVars
<1>3. ASSUME NEW b \in Branches, Call(b) \/ Acquire(b) \/ Receive(b)
      PROVE  FinishedForGood' /\ KeepsFinished
  BY <1>3, FinalCritical, FinalReceive
<1>4. CASE Terminate
  BY <1>4, FinalQuiet DEF Terminate, handlerVars, dbVars
<1>5. ASSUME NEW h \in Handlers, JoinTerminated(h) \/ JoinRemoved(h)
      PROVE  FinishedForGood' /\ KeepsFinished
  BY <1>5, FinalTerminated, FinalQuiet DEF JoinRemoved, dbVars
<1>6. CASE UNCHANGED vars
  BY <1>6, FinalQuiet DEF vars, dbVars, handlerVars, termVars
<1> QED BY <1>1, <1>2, <1>3, <1>4, <1>5, <1>6 DEF Next, TerminationStep, BranchStep

FinalInv == OnceInv /\ (boot = 0 => FinishedForGood)

\* Without a restart behind it, a step starts and ends in the first life.
LEMMA FirstLife ==
  ASSUME OnceInv, [Next]_vars, boot' = 0
  PROVE  boot = 0 /\ ~CrashAndResume
<1>1. boot \in Nat
  BY ConstantsAssumption DEF OnceInv, IInv, TypeOK, DbTypeOK
<1>2. ~CrashAndResume
  BY <1>1 DEF CrashAndResume
<1> QED BY <1>2, BootStep

\* As long as the runtime is not restarted, a finished join instance is never
\* rewritten: not by a late branch, not by a second join handler, not by a
\* termination that arrives while it finishes; for any number of branches.
THEOREM JoinStaysFinished == Spec => FinishedJoinIsFinal
<1>1. Init => FinalInv
  <2> SUFFICES ASSUME Init PROVE FinalInv
    OBVIOUS
  <2>1. OnceInv
    BY InitIInv DEF Init, OnceInv, Undisturbed, NothingToResume, CollectedOnce,
                    StartedBySplit, Absent
  <2>2. \A h \in Handlers : <<0, h>> \in Ids
    BY FreshIds, ConstantsAssumption
  <2>3. FinishedForGood
    BY <2>2 DEF Init, FinishedForGood, Absent
  <2> QED BY <2>1, <2>3 DEF FinalInv
<1>2. FinalInv /\ [Next]_vars => FinalInv'
  <2> SUFFICES ASSUME FinalInv, [Next]_vars, boot' = 0 PROVE FinishedForGood'
    BY StepOnce DEF FinalInv
  <2>1. boot = 0 /\ ~CrashAndResume
    BY FirstLife DEF FinalInv
  <2> QED BY <2>1, FinalStep DEF FinalInv, OnceInv
<1>3. FinalInv /\ [Next]_vars =>
        [\A i \in Ids : boot' = 0 /\ joinRow[i].state = "finished" =>
           joinRow'[i] = joinRow[i]]_vars
  <2> SUFFICES ASSUME FinalInv, [Next]_vars, boot' = 0 PROVE KeepsFinished
    BY DEF KeepsFinished
  <2>1. boot = 0 /\ ~CrashAndResume
    BY FirstLife DEF FinalInv
  <2> QED BY <2>1, FinalStep DEF FinalInv, OnceInv
<1> QED BY <1>1, <1>2, <1>3, PTL DEF Spec, FinishedJoinIsFinal

-----------------------------------------------------------------------------
(* The lock is handed on, over any number of restarts                      *)

AtLock == Queued \cup Inside

\* A queue holds those who wait for its key or are inside, each of them once.
LockQueues ==
  /\ \A i \in Ids : \A k \in 1 .. Len(lockQueue[i]) :
       pc[lockQueue[i][k]] \in AtLock /\ lockKey[lockQueue[i][k]] = i
  /\ \A i \in Ids : \A k, l \in 1 .. Len(lockQueue[i]) : lockQueue[i][k] = lockQueue[i][l] => k = l
  /\ \A b \in Branches : pc[b] \in AtLock =>
       \E k \in 1 .. Len(lockQueue[lockKey[b]]) : lockQueue[lockKey[b]][k] = b

\* Only a termination terminates rows, and no terminated instance is loaded; who waits
\* with a row to resume has found it.
RowsToResume ==
  /\ ~terminated => notify = {} /\ \A i \in Ids : joinRow[i].state # "terminated"
  /\ \A i \in Ids : snapshot[i].state # "terminated"
  /\ \A b \in Branches : pc[b] = "queuedResume" => snapshot[lockKey[b]].state # "absent"

LockInv == IInv /\ StartedBySplit /\ LockQueues /\ RowsToResume

\* The three things that happen to the queues: a branch joins one, ...
LEMMA Enqueued ==
  ASSUME IInv, LockQueues, NEW b \in Branches, NEW key \in Ids, NEW where \in AtLock,
         pc[b] = "call", pc' = [pc EXCEPT ![b] = where], lockKey' = [lockKey EXCEPT ![b] = key],
         lockQueue' = [lockQueue EXCEPT ![key] = Append(@, b)]
  PROVE  LockQueues'
<1>1. /\ pc \in [Branches -> PcStates] /\ lockKey \in [Branches -> Ids \cup {None}]
      /\ lockQueue \in [Ids -> Seq(Branches)] /\ pc[b] \notin AtLock
  BY DEF IInv, TypeOK, BranchTypeOK, AtLock, Queued, Inside
<1> DEFINE q == lockQueue[key]
<1>2. /\ lockQueue'[key] = Append(q, b) /\ q \in Seq(Branches)
      /\ Len(Append(q, b)) = Len(q) + 1 /\ Append(q, b)[Len(q) + 1] = b
      /\ \A k \in 1 .. Len(q) : Append(q, b)[k] = q[k]
  BY <1>1
<1>3. \A i \in Ids \ {key} : lockQueue'[i] = lockQueue[i]
  BY <1>1
<1>4. \A i \in Ids : \A k \in 1 .. Len(lockQueue[i]) : lockQueue[i][k] # b /\ lockQueue[i][k] \in Branches
  BY <1>1 DEF LockQueues
<1>5. \A c \in Branches \ {b} : pc'[c] = pc[c] /\ lockKey'[c] = lockKey[c]
  BY <1>1
<1>6. pc'[b] = where /\ lockKey'[b] = key
  BY <1>1
<1>7. ASSUME NEW i \in Ids, NEW k \in 1 .. Len(lockQueue'[i])
      PROVE  pc'[lockQueue'[i][k]] \in AtLock /\ lockKey'[lockQueue'[i][k]] = i
  <2>1. CASE i = key
    BY <1>2, <1>4, <1>5, <1>6, <2>1 DEF LockQueues
  <2>2. CASE i # key
    BY <1>3, <1>4, <1>5, <2>2 DEF LockQueues
  <2> QED BY <2>1, <2>2
<1>8. ASSUME NEW i \in Ids, NEW k \in 1 .. Len(lockQueue'[i]), NEW l \in 1 .. Len(lockQueue'[i]),
             lockQueue'[i][k] = lockQueue'[i][l]
      PROVE  k = l
  <2>1. CASE i = key
    <3>1. k \in 1 .. Len(q) + 1 /\ l \in 1 .. Len(q) + 1 /\ Append(q, b)[k] = Append(q, b)[l]
      BY <1>2, <1>8, <2>1
    <3>2. CASE k \in 1 .. Len(q) /\ l \in 1 .. Len(q)
      BY <1>2, <3>1, <3>2 DEF LockQueues
    <3>3. CASE k = Len(q) + 1 \/ l = Len(q) + 1
      BY <1>2, <1>4, <3>1, <3>3
    <3> QED BY <1>2, <3>1, <3>2, <3>3
  <2>2. CASE i # key
    BY <1>3, <1>8, <2>2 DEF LockQueues
  <2> QED BY <2>1, <2>2
<1>9. ASSUME NEW c \in Branches, pc'[c] \in AtLock
      PROVE  \E k \in 1 .. Len(lockQueue'[lockKey'[c]]) : lockQueue'[lockKey'[c]][k] = c
  <2>1. CASE c = b
    BY <1>2, <1>6, <2>1
  <2>2. CASE c # b
    <3>1. pc[c] \in AtLock /\ lockKey'[c] = lockKey[c] /\ lockKey[c] \in Ids
      BY <1>5, <1>9, <2>2 DEF IInv, LockHeld, Called, AtLock, Queued, Inside
    <3>2. PICK k \in 1 .. Len(lockQueue[lockKey[c]]) : lockQueue[lockKey[c]][k] = c
      BY <3>1 DEF LockQueues
    <3>3. CASE lockKey[c] = key
      BY <1>2, <3>1, <3>2, <3>3
    <3>4. CASE lockKey[c] # key
      BY <1>3, <3>1, <3>2, <3>4
    <3> QED BY <3>3, <3>4
  <2> QED BY <2>1, <2>2
<1> QED BY <1>7, <1>8, <1>9 DEF LockQueues

\* ... the first of a queue leaves it, ...
LEMMA Dequeued ==
  ASSUME IInv, LockQueues, NEW b \in Branches, NEW where, where \notin AtLock, pc[b] \in AtLock,
         lockQueue[lockKey[b]] # <<>>, Head(lockQueue[lockKey[b]]) = b,
         pc' = [pc EXCEPT ![b] = where], lockKey' = lockKey,
         lockQueue' = Released(lockQueue, lockKey[b])
  PROVE  LockQueues'
<1> DEFINE key == lockKey[b]
           q == lockQueue[key]
<1>1. /\ pc \in [Branches -> PcStates] /\ key \in Ids
      /\ lockQueue \in [Ids -> Seq(Branches)] /\ q \in Seq(Branches)
  BY DEF IInv, TypeOK, BranchTypeOK, LockHeld, Called, AtLock, Queued, Inside
<1>2. /\ lockQueue'[key] = Tail(q) /\ Len(Tail(q)) = Len(q) - 1 /\ Len(q) \in Nat \ {0} /\ q[1] = b
      /\ \A k \in 1 .. Len(q) - 1 : Tail(q)[k] = q[k + 1]
  BY <1>1 DEF Released
<1>3. \A i \in Ids \ {key} : lockQueue'[i] = lockQueue[i]
  BY <1>1 DEF Released
<1>10. \A k \in 1 .. Len(Tail(q)) : k \in 1 .. Len(q) - 1 /\ k + 1 \in 1 .. Len(q) /\ k + 1 # 1
  <2> DEFINE n == Len(q)
  <2>1. n \in Nat /\ \A k \in 1 .. n - 1 : k + 1 \in 1 .. n /\ k + 1 # 1
    BY <1>2
  <2> QED BY <1>2, <2>1
<1>4. \A i \in Ids : \A k \in 1 .. Len(lockQueue[i]) :
        lockQueue[i][k] \in Branches /\ (lockQueue[i][k] = b => i = key /\ k = 1)
  BY <1>1, <1>2 DEF LockQueues
<1>5. \A c \in Branches \ {b} : pc'[c] = pc[c]
  BY <1>1
<1>6. pc'[b] = where
  BY <1>1
<1>7. ASSUME NEW i \in Ids, NEW k \in 1 .. Len(lockQueue'[i])
      PROVE  pc'[lockQueue'[i][k]] \in AtLock /\ lockKey'[lockQueue'[i][k]] = i
  <2>1. CASE i = key
    <3>1. k + 1 \in 1 .. Len(q) /\ lockQueue'[i][k] = q[k + 1] /\ k + 1 # 1
      BY <1>2, <1>10, <2>1
    <3>2. q[k + 1] \in Branches \ {b}
      BY <1>1, <1>4, <3>1
    <3> QED BY <1>1, <1>5, <2>1, <3>1, <3>2 DEF LockQueues
  <2>2. CASE i # key
    BY <1>3, <1>4, <1>5, <2>2 DEF LockQueues
  <2> QED BY <2>1, <2>2
<1>8. ASSUME NEW i \in Ids, NEW k \in 1 .. Len(lockQueue'[i]), NEW l \in 1 .. Len(lockQueue'[i]),
             lockQueue'[i][k] = lockQueue'[i][l]
      PROVE  k = l
  <2>1. CASE i = key
    <3>1. /\ k \in 1 .. Len(q) - 1 /\ l \in 1 .. Len(q) - 1
          /\ k + 1 \in 1 .. Len(q) /\ l + 1 \in 1 .. Len(q) /\ q[k + 1] = q[l + 1]
      BY <1>2, <1>10, <1>8, <2>1
    <3>2. k + 1 = l + 1
      BY <1>1, <3>1 DEF LockQueues
    <3> QED BY <3>1, <3>2
  <2>2. CASE i # key
    BY <1>3, <1>8, <2>2 DEF LockQueues
  <2> QED BY <2>1, <2>2
<1>9. ASSUME NEW c \in Branches, pc'[c] \in AtLock
      PROVE  \E k \in 1 .. Len(lockQueue'[lockKey'[c]]) : lockQueue'[lockKey'[c]][k] = c
  <2>1. c # b /\ pc[c] \in AtLock /\ lockKey'[c] = lockKey[c] /\ lockKey[c] \in Ids
    BY <1>5, <1>6, <1>9 DEF IInv, LockHeld, Called, AtLock, Queued, Inside
  <2>2. PICK k \in 1 .. Len(lockQueue[lockKey[c]]) : lockQueue[lockKey[c]][k] = c
    BY <2>1 DEF LockQueues
  <2>3. CASE lockKey[c] = key
    <3>1. k # 1 /\ k \in 1 .. Len(q)
      BY <1>2, <2>1, <2>2, <2>3
    <3>2. k - 1 \in 1 .. Len(q) - 1 /\ Tail(q)[k - 1] = c
      BY <1>2, <2>2, <2>3, <3>1
    <3> QED BY <1>2, <2>1, <2>3, <3>2
  <2>4. CASE lockKey[c] # key
    BY <1>3, <2>1, <2>2, <2>4
  <2> QED BY <2>3, <2>4
<1> QED BY <1>7, <1>8, <1>9 DEF LockQueues

\* ... or nobody comes and nobody leaves.
LEMMA QueuesKept ==
  ASSUME IInv, LockQueues, lockQueue' = lockQueue,
         \A c \in Branches : pc'[c] \in AtLock <=> pc[c] \in AtLock,
         \A c \in Branches : pc[c] \in AtLock => lockKey'[c] = lockKey[c]
  PROVE  LockQueues'
<1>1. \A i \in Ids : \A k \in 1 .. Len(lockQueue[i]) : lockQueue[i][k] \in Branches
  BY DEF IInv, TypeOK, BranchTypeOK
<1> QED BY <1>1 DEF LockQueues

\* A branch that was inside or first in its queue goes on: it stays at the lock or
\* leaves it.
LEMMA HeadGoesOn ==
  ASSUME IInv, LockQueues, NEW b \in Branches, pc[b] \in AtLock,
         lockQueue[lockKey[b]] # <<>>, Head(lockQueue[lockKey[b]]) = b, lockKey' = lockKey,
         \/ \E where \in AtLock : pc' = [pc EXCEPT ![b] = where] /\ lockQueue' = lockQueue
         \/ \E where \in {"left", "past"} :
              pc' = [pc EXCEPT ![b] = where] /\ lockQueue' = Released(lockQueue, lockKey[b])
  PROVE  LockQueues'
<1>1. pc \in [Branches -> PcStates]
  BY DEF IInv, TypeOK, BranchTypeOK
<1>2. CASE \E where \in AtLock : pc' = [pc EXCEPT ![b] = where] /\ lockQueue' = lockQueue
  BY <1>1, <1>2, QueuesKept
<1>3. CASE \E where \in {"left", "past"} :
             pc' = [pc EXCEPT ![b] = where] /\ lockQueue' = Released(lockQueue, lockKey[b])
  <2>1. PICK where \in {"left", "past"} :
          pc' = [pc EXCEPT ![b] = where] /\ lockQueue' = Released(lockQueue, lockKey[b])
    BY <1>3
  <2>2. where \notin AtLock
    BY DEF AtLock, Queued, Inside
  <2> QED BY <2>1, <2>2, Dequeued
<1> QED BY <1>2, <1>3

LEMMA CallQueues ==
  ASSUME IInv, LockQueues, NEW b \in Branches, Call(b)
  PROVE  LockQueues'
<1>1. /\ target[b] \in Handlers /\ pc[b] = "call" /\ pc \in [Branches -> PcStates]
      /\ lockKey \in [Branches -> Ids \cup {None}] /\ lockQueue \in [Ids -> Seq(Branches)]
  BY DEF IInv, TypeOK, BranchTypeOK, LockHeld, Called, Call
<1> DEFINE Prev(r) == IF r = None THEN {b} ELSE snapshot[r].prev
           Id(r) == IF r = None THEN fni[target[b]] ELSE r
           Queue(r) == [lockQueue EXCEPT ![Id(r)] = Append(@, b)]
<1>2. PICK r \in Ids \cup {None} :
        /\ lockKey' = [lockKey EXCEPT ![b] = Id(r)]
        /\ \/ /\ lockQueue[Id(r)] = <<>>
              /\ Critical(b, target[b], r, Id(r), Queue(r), Prev(r), Id(r))
           \/ /\ lockQueue' = Queue(r)
              /\ pc' = [pc EXCEPT ![b] = IF r = None THEN "queued" ELSE "queuedResume"]
  BY DEF Call, FoundRows
<1>3. Id(r) \in Ids /\ Prev(r) \in SUBSET Branches
  BY <1>1 DEF IInv, TypeOK, HandlerTypeOK, DbTypeOK, RowType
<1>4. Queue(r) \in [Ids -> Seq(Branches)]
  BY <1>1, <1>3, QueueAppend
<1> HIDE DEF Prev, Id
<1>5. CASE /\ lockQueue[Id(r)] = <<>>
           /\ Critical(b, target[b], r, Id(r), Queue(r), Prev(r), Id(r))
  <2>1. Effect(b, Id(r), Queue(r))
    <3> HIDE DEF Queue
    <3> QED BY <1>1, <1>3, <1>4, <1>5, CriticalEffect
  <2>2. CASE pc' = [pc EXCEPT ![b] = "entering"] /\ lockQueue' = Queue(r)
    <3>1. "entering" \in AtLock
      BY DEF AtLock, Inside
    <3> QED BY <1>1, <1>2, <1>3, <2>2, <3>1, Enqueued
  <2>3. CASE \E w \in {"left", "past"} :
               pc' = [pc EXCEPT ![b] = w] /\ lockQueue' = Released(Queue(r), Id(r))
    <3>1. lockQueue' = lockQueue
      <4>1. Tail(Append(lockQueue[Id(r)], b)) = <<>>
        BY <1>5
      <4> QED BY <1>1, <1>3, <1>5, <2>3, <4>1 DEF Released
    <3>2. \A c \in Branches : pc'[c] \in AtLock <=> pc[c] \in AtLock
      BY <1>1, <2>3 DEF AtLock, Queued, Inside
    <3>3. \A c \in Branches : pc[c] \in AtLock => lockKey'[c] = lockKey[c]
      BY <1>1, <1>2 DEF AtLock, Queued, Inside
    <3> QED BY <3>1, <3>2, <3>3, QueuesKept
  <2> QED BY <2>1, <2>2, <2>3 DEF Effect
<1>6. CASE /\ lockQueue' = Queue(r)
           /\ pc' = [pc EXCEPT ![b] = IF r = None THEN "queued" ELSE "queuedResume"]
  <2>1. {"queued", "queuedResume"} \subseteq AtLock
    BY DEF AtLock, Queued
  <2> QED BY <1>1, <1>2, <1>3, <1>6, <2>1, Enqueued
<1> QED BY <1>2, <1>5, <1>6

LEMMA AcquireQueues ==
  ASSUME IInv, LockQueues, NEW b \in Branches, Acquire(b)
  PROVE  LockQueues'
<1>1. target[b] \in Handlers /\ lockKey[b] \in Ids /\ lockQueue \in [Ids -> Seq(Branches)]
  BY DEF IInv, TypeOK, BranchTypeOK, LockHeld, Called, Acquire
<1>2. fni[target[b]] \in Ids /\ prevIds[target[b]] \in SUBSET Branches
  BY <1>1 DEF IInv, TypeOK, HandlerTypeOK
<1>3. PICK r \in Ids \cup {None} :
        Critical(b, target[b], r, lockKey[b], lockQueue, prevIds[target[b]], fni[target[b]])
  BY <1>1 DEF Acquire
<1>4. Effect(b, lockKey[b], lockQueue)
  BY <1>1, <1>2, <1>3, CriticalEffect
<1>5. /\ pc[b] \in AtLock /\ lockQueue[lockKey[b]] # <<>> /\ Head(lockQueue[lockKey[b]]) = b
      /\ lockKey' = lockKey /\ "entering" \in AtLock
  BY DEF Acquire, AtLock, Queued, Inside
<1> QED BY <1>4, <1>5, HeadGoesOn DEF Effect

LEMMA InsideQueues ==
  ASSUME IInv, LockQueues, NEW b \in Branches, Receive(b) \/ Continue(b)
  PROVE  LockQueues'
<1>1. /\ pc[b] \in AtLock /\ lockQueue[lockKey[b]] # <<>> /\ Head(lockQueue[lockKey[b]]) = b
      /\ lockKey' = lockKey /\ "exiting" \in AtLock
  BY DEF IInv, LockHeld, Receive, Continue, AtLock, Inside
<1>2. \/ \E where \in AtLock : pc' = [pc EXCEPT ![b] = where] /\ lockQueue' = lockQueue
      \/ \E where \in {"left", "past"} :
           pc' = [pc EXCEPT ![b] = where] /\ lockQueue' = Released(lockQueue, lockKey[b])
  BY <1>1 DEF Receive, Continue
<1> QED BY <1>1, <1>2, HeadGoesOn

LEMMA QueuesStep == IInv /\ LockQueues /\ StartedBySplit /\ [Next]_vars => LockQueues'
<1> SUFFICES ASSUME IInv, LockQueues, StartedBySplit, [Next]_vars PROVE LockQueues'
  OBVIOUS
<1>1. pc \in [Branches -> PcStates]
  BY DEF IInv, TypeOK, BranchTypeOK
<1>2. CASE SplitStep
  <2>1. CASE SplitContinue
    BY <1>1, <2>1, QueuesKept DEF SplitContinue, StartedBySplit, AtLock, Queued, Inside
  <2>2. CASE SplitEnter \/ SplitExecute
    BY <2>2, QueuesKept DEF SplitEnter, SplitExecute, branchVars
  <2> QED BY <1>2, <2>1, <2>2 DEF SplitStep
<1>3. ASSUME NEW b \in Branches,
             TaskStart(b) \/ TaskFinish(b) \/ FactoryCheck(b) \/ FactoryRegister(b) \/ TaskTerminated(b)
      PROVE  LockQueues'
  <2>1. UNCHANGED <<lockKey, lockQueue>>
    BY <1>3 DEF TaskStart, TaskFinish, FactoryCheck, FactoryRegister, TaskTerminated
  <2>2. \A c \in Branches : pc'[c] \in AtLock <=> pc[c] \in AtLock
    BY <1>1, <1>3 DEF TaskStart, TaskFinish, FactoryCheck, FactoryRegister, TaskTerminated,
       AtLock, Queued, Inside
  <2> QED BY <2>1, <2>2, QueuesKept
<1>4. ASSUME NEW b \in Branches, Call(b) \/ Acquire(b) \/ Receive(b) \/ Continue(b)
      PROVE  LockQueues'
  BY <1>4, CallQueues, AcquireQueues, InsideQueues
<1>5. CASE Terminate \/ UNCHANGED vars
  BY <1>5, QueuesKept DEF Terminate, vars, branchVars
<1>6. ASSUME NEW h \in Handlers, JoinTerminated(h) \/ JoinRemoved(h)
      PROVE  LockQueues'
  BY <1>6, QueuesKept DEF JoinTerminated, JoinRemoved, branchVars
<1>7. CASE CrashAndResume
  BY <1>7 DEF CrashAndResume, LockQueues, AtLock, Queued, Inside
<1> QED BY <1>2, <1>3, <1>4, <1>5, <1>6, <1>7 DEF Next, TerminationStep, BranchStep

\* A step that leaves the rows alone, in memory and in the database, and after which
\* nobody waits to resume who did not before.
LEMMA RowsQuiet ==
  ASSUME IInv, RowsToResume, UNCHANGED <<joinRow, snapshot, terminated, lockKey>>,
         notify' \subseteq notify,
         \A c \in Branches : pc'[c] = "queuedResume" => pc[c] = "queuedResume"
  PROVE  RowsToResume'
  BY DEF RowsToResume

\* What the start of the critical section writes is no terminated row.
LEMMA CriticalRows ==
  ASSUME IInv, NEW b \in Branches, NEW h, NEW r, NEW key, NEW queue, NEW prev, NEW id \in Ids,
         Critical(b, h, r, key, queue, prev, id)
  PROVE  /\ \A i \in Ids : joinRow'[i].state = "terminated" => joinRow[i].state = "terminated"
         /\ \A c \in Branches : pc'[c] = "queuedResume" => pc[c] = "queuedResume"
<1>1. joinRow \in [Ids -> RowType] /\ pc \in [Branches -> PcStates]
  BY DEF IInv, TypeOK, DbTypeOK, BranchTypeOK
<1>2. \/ joinRow' = joinRow
      \/ joinRow' = [joinRow EXCEPT ![id] = [state |-> "running", prev |-> Arrivals(h, prev)]]
  BY DEF Critical
<1>3. \E w \in {"entering", "left", "past"} : pc' = [pc EXCEPT ![b] = w]
  BY DEF Critical
<1> QED BY <1>1, <1>2, <1>3

LEMMA CallRows ==
  ASSUME IInv, RowsToResume, NEW b \in Branches, Call(b)
  PROVE  RowsToResume'
<1>1. /\ pc[b] = "call" /\ pc \in [Branches -> PcStates] /\ joinRow \in [Ids -> RowType]
      /\ lockKey \in [Branches -> Ids \cup {None}] /\ fni[target[b]] \in Ids
  BY DEF IInv, TypeOK, DbTypeOK, BranchTypeOK, HandlerTypeOK, LockHeld, Called, Call
<1> DEFINE Prev(r) == IF r = None THEN {b} ELSE snapshot[r].prev
           Id(r) == IF r = None THEN fni[target[b]] ELSE r
           Queue(r) == [lockQueue EXCEPT ![Id(r)] = Append(@, b)]
<1>2. PICK r \in Ids \cup {None} :
        /\ r # None => snapshot[r].state # "absent"
        /\ lockKey' = [lockKey EXCEPT ![b] = Id(r)]
        /\ \/ Critical(b, target[b], r, Id(r), Queue(r), Prev(r), Id(r))
           \/ /\ pc' = [pc EXCEPT ![b] = IF r = None THEN "queued" ELSE "queuedResume"]
              /\ UNCHANGED joinRow
  BY DEF Call, FoundRows
<1>3. Id(r) \in Ids
  BY <1>1
<1>4. UNCHANGED <<snapshot, terminated, notify>>
  BY DEF Call
<1>5. CASE Critical(b, target[b], r, Id(r), Queue(r), Prev(r), Id(r))
  <2>1. /\ \A i \in Ids : joinRow'[i].state = "terminated" => joinRow[i].state = "terminated"
        /\ \E w \in {"entering", "left", "past"} : pc' = [pc EXCEPT ![b] = w]
    <3> HIDE DEF Queue, Prev, Id
    <3>1. \A i \in Ids : joinRow'[i].state = "terminated" => joinRow[i].state = "terminated"
      BY <1>3, <1>5, CriticalRows
    <3>2. \E w \in {"entering", "left", "past"} : pc' = [pc EXCEPT ![b] = w]
      BY <1>5 DEF Critical
    <3> QED BY <3>1, <3>2
  <2> HIDE DEF Queue, Prev, Id
  <2>2. \A c \in Branches : pc'[c] = "queuedResume" =>
           c # b /\ pc[c] = "queuedResume" /\ lockKey'[c] = lockKey[c]
    BY <1>1, <1>2, <2>1
  <2> QED BY <1>4, <2>1, <2>2 DEF RowsToResume
<1>6. CASE /\ pc' = [pc EXCEPT ![b] = IF r = None THEN "queued" ELSE "queuedResume"]
           /\ UNCHANGED joinRow
  <2>1. ASSUME NEW c \in Branches, pc'[c] = "queuedResume"
        PROVE  snapshot[lockKey'[c]].state # "absent"
    <3>1. CASE c = b
      <4>1. r # None /\ lockKey'[b] = r
        BY <1>1, <1>2, <1>6, <2>1, <3>1
      <4> QED BY <1>2, <3>1, <4>1
    <3>2. CASE c # b
      BY <1>1, <1>2, <1>6, <2>1, <3>2 DEF RowsToResume
    <3> QED BY <3>1, <3>2
  <2> HIDE DEF Queue, Prev, Id
  <2> QED BY <1>4, <1>6, <2>1 DEF RowsToResume
<1> QED BY <1>2, <1>5, <1>6

LEMMA RowsStep == IInv /\ RowsToResume /\ [Next]_vars => RowsToResume'
<1> SUFFICES ASSUME IInv, RowsToResume, [Next]_vars PROVE RowsToResume'
  OBVIOUS
<1>1. /\ pc \in [Branches -> PcStates] /\ joinRow \in [Ids -> RowType]
      /\ fni \in [Handlers -> Ids]
  BY DEF IInv, TypeOK, DbTypeOK, BranchTypeOK, HandlerTypeOK
<1>2. CASE SplitStep
  <2>1. \A c \in Branches : pc'[c] = "queuedResume" => pc[c] = "queuedResume"
    BY <1>2 DEF SplitStep, SplitEnter, SplitExecute, SplitContinue, branchVars
  <2> QED BY <1>2, <2>1, RowsQuiet DEF SplitStep, SplitEnter, SplitExecute, SplitContinue,
             branchVars, dbVars, termVars
<1>3. ASSUME NEW b \in Branches,
             TaskStart(b) \/ TaskFinish(b) \/ FactoryCheck(b) \/ FactoryRegister(b)
             \/ TaskTerminated(b) \/ Continue(b)
      PROVE  RowsToResume'
  <2>1. \A c \in Branches : pc'[c] = "queuedResume" => pc[c] = "queuedResume"
    BY <1>1, <1>3 DEF TaskStart, TaskFinish, FactoryCheck, FactoryRegister, TaskTerminated, Continue
  <2> QED BY <1>3, <2>1, RowsQuiet DEF TaskStart, TaskFinish, FactoryCheck, FactoryRegister,
             TaskTerminated, Continue, dbVars, termVars
<1>4. ASSUME NEW b \in Branches, Acquire(b) PROVE RowsToResume'
  <2>1. PICK r \in Ids \cup {None} :
          Critical(b, target[b], r, lockKey[b], lockQueue, prevIds[target[b]], fni[target[b]])
    BY <1>4 DEF Acquire, IInv, LockHeld, Called
  <2>2. fni[target[b]] \in Ids
    BY <1>1, <1>4 DEF Acquire, IInv, LockHeld, Called
  <2>3. UNCHANGED <<snapshot, terminated, lockKey, notify>>
    BY <1>4 DEF Acquire
  <2> QED BY <2>1, <2>2, <2>3, CriticalRows DEF RowsToResume
<1>5. ASSUME NEW b \in Branches, Receive(b) PROVE RowsToResume'
  <2>1. \A i \in Ids : joinRow'[i].state = "terminated" => joinRow[i].state = "terminated"
    BY <1>1, <1>5 DEF Receive, RowType
  <2>2. \A c \in Branches : pc'[c] = "queuedResume" => pc[c] = "queuedResume"
    BY <1>1, <1>5 DEF Receive
  <2> QED BY <1>5, <2>1, <2>2 DEF Receive, RowsToResume
<1>6. CASE Terminate
  BY <1>6 DEF Terminate, RowsToResume, dbVars, branchVars
<1>7. ASSUME NEW h \in Handlers, JoinTerminated(h) PROVE RowsToResume'
  <2>1. notify # {} /\ terminated
    BY <1>7 DEF JoinTerminated, RowsToResume
  <2> QED BY <1>7, <2>1 DEF JoinTerminated, RowsToResume, branchVars
<1>8. ASSUME NEW h \in Handlers, JoinRemoved(h) PROVE RowsToResume'
  BY <1>8, RowsQuiet DEF JoinRemoved, dbVars, branchVars
<1>9. ASSUME NEW b \in Branches, Call(b) PROVE RowsToResume'
  BY <1>9, CallRows
<1>10. CASE CrashAndResume
  BY <1>10 DEF CrashAndResume, RowsToResume, dbVars
<1>11. CASE UNCHANGED vars
  BY <1>11 DEF vars, RowsToResume, dbVars, branchVars, termVars
<1> QED BY <1>2, <1>3, <1>4, <1>5, <1>6, <1>7, <1>8, <1>9, <1>10, <1>11
     DEF Next, TerminationStep, BranchStep

\* The first of the queue somebody waits in is a branch of that queue that is inside
\* or may enter.
LEMMA LockGoesOn == LockInv => LockIsHandedOn
<1> SUFFICES ASSUME LockInv, NEW b \in Branches, pc[b] \in Queued
             PROVE  LET queue == lockQueue[lockKey[b]]
                        first == Head(queue)
                    IN /\ \E i \in DOMAIN queue : queue[i] = b
                       /\ lockKey[first] = lockKey[b]
                       /\ pc[first] \in Inside \/ (pc[first] \in Queued /\ CanEnter(first))
  BY DEF LockIsHandedOn
<1> DEFINE queue == lockQueue[lockKey[b]]
           first == Head(queue)
<1>1. lockKey[b] \in Ids /\ pc[b] \in AtLock
  BY DEF LockInv, IInv, LockHeld, Called, AtLock, Queued
<1>2. queue \in Seq(Branches) /\ DOMAIN queue = 1 .. Len(queue) /\ Len(queue) \in Nat
  BY <1>1 DEF LockInv, IInv, TypeOK, BranchTypeOK
<1>3. PICK k \in 1 .. Len(queue) : queue[k] = b
  BY <1>1 DEF LockInv, LockQueues
<1>4. 1 \in 1 .. Len(queue) /\ first = queue[1] /\ first \in Branches
  BY <1>2, <1>3
<1>5. pc[first] \in AtLock /\ lockKey[first] = lockKey[b]
  BY <1>1, <1>4 DEF LockInv, LockQueues
<1>6. CanEnter(first)
  <2> SUFFICES ASSUME pc[first] = "queuedResume"
               PROVE  snapshot[lockKey[first]].state \in {"running", "finished"}
    BY DEF CanEnter
  <2>1. snapshot[lockKey[first]].state \in RowStates
    BY <1>1, <1>5 DEF LockInv, IInv, TypeOK, DbTypeOK, RowType
  <2>2. snapshot[lockKey[first]].state \notin {"absent", "terminated"}
    BY <1>1, <1>4, <1>5 DEF LockInv, RowsToResume
  <2> QED BY <2>1, <2>2 DEF RowStates
<1> QED BY <1>2, <1>3, <1>5, <1>6 DEF AtLock

\* Nobody waits in vain for the lock, for any number of branches and restarts, and
\* while the instance is terminated: who waits has his place in the queue, and its
\* first can always go on.
THEOREM LockIsNeverLost == Spec => []LockIsHandedOn
<1>1. Init => LockInv
  <2> SUFFICES ASSUME Init PROVE LockQueues /\ RowsToResume /\ StartedBySplit
    BY InitIInv DEF LockInv
  <2> QED BY DEF Init, LockQueues, RowsToResume, StartedBySplit, AtLock, Queued, Inside, Absent
<1>2. LockInv /\ [Next]_vars => LockInv'
  BY StepIInv, QueuesStep, RowsStep, StartedStep DEF LockInv
<1> QED BY <1>1, <1>2, LockGoesOn, PTL DEF Spec

-----------------------------------------------------------------------------
(* The flow is not lost at the join                                        *)

\* As long as nothing disturbs the instance, all branches come to the handler the split
\* has registered; who left it has left his result there, and once it has all results
\* one branch is on its way behind the join.
FlowKept ==
  /\ interrupted = {} /\ removing = {} /\ notify = {}
  /\ \/ splitPc \in {"start", "entered"} /\ registration = None
     \/ splitPc \in {"exited", "done"} /\ registration = Split
     \/ received[Split] = Branches
  /\ \A b \in Branches :
       /\ pc[b] \notin {"creating", "failed"}
       /\ pc[b] \in Called => target[b] = Split
       /\ pc[b] \in {"left", "exiting", "past"} => b \in received[Split]
  /\ received[Split] = Branches => \E b \in Branches : pc[b] \in {"exiting", "past"}

FlowInv == OnceInv /\ (boot = 0 /\ ~terminated => FlowKept)

\* A terminated instance stays terminated.
LEMMA TerminatedForGood == terminated /\ [Next]_vars => terminated'
<1> SUFFICES ASSUME terminated, [Next]_vars PROVE terminated'
  OBVIOUS
<1>1. ASSUME NEW b \in Branches, BranchStep(b) \/ TaskTerminated(b) PROVE terminated'
  BY <1>1 DEF BranchStep, TaskStart, TaskFinish, FactoryCheck, FactoryRegister, Call,
              Acquire, Receive, Continue, TaskTerminated, termVars
<1>2. ASSUME NEW h \in Handlers, JoinTerminated(h) \/ JoinRemoved(h) PROVE terminated'
  BY <1>2 DEF JoinTerminated, JoinRemoved
<1>3. CASE SplitStep \/ Terminate \/ CrashAndResume
  BY <1>3 DEF SplitStep, SplitEnter, SplitExecute, SplitContinue, Terminate, CrashAndResume, termVars
<1>4. CASE UNCHANGED vars
  BY <1>4 DEF vars, termVars
<1> QED BY <1>1, <1>2, <1>3, <1>4 DEF Next, TerminationStep

\* A step of a branch that delivers no result.
LEMMA FlowQuiet ==
  ASSUME IInv, FlowKept, NEW b \in Branches,
         pc[b] \notin {"left", "exiting", "past"},
         NEW w, pc' = [pc EXCEPT ![b] = w],
         w \notin {"creating", "failed", "left", "exiting", "past"},
         w \in Called => target'[b] = Split,
         \A c \in Branches \ {b} : target'[c] = target[c],
         UNCHANGED <<splitPc, registration, received, interrupted, removing, notify>>
  PROVE  FlowKept'
<1>1. pc \in [Branches -> PcStates]
  BY DEF IInv, TypeOK, BranchTypeOK
<1>2. pc'[b] = w /\ \A c \in Branches \ {b} : pc'[c] = pc[c]
  BY <1>1
<1>3. ASSUME NEW c \in Branches
      PROVE  /\ pc'[c] \notin {"creating", "failed"}
             /\ pc'[c] \in Called => target'[c] = Split
             /\ pc'[c] \in {"left", "exiting", "past"} => c \in received'[Split]
  BY <1>2 DEF FlowKept
<1>4. received'[Split] = Branches => \E c \in Branches : pc'[c] \in {"exiting", "past"}
  BY <1>2 DEF FlowKept
<1> QED BY <1>3, <1>4 DEF FlowKept

LEMMA FlowBranch ==
  ASSUME IInv, Undisturbed, FlowKept, ~terminated, NEW b \in Branches,
         BranchStep(b) \/ TaskTerminated(b)
  PROVE  FlowKept'
<1>1. /\ pc \in [Branches -> PcStates] /\ target \in [Branches -> Handlers \cup {None}]
      /\ received \in [Handlers -> SUBSET Branches] /\ Split \in Handlers
      /\ None \notin Handlers
  BY ConstantsAssumption DEF IInv, TypeOK, BranchTypeOK, HandlerTypeOK, Handlers
<1>2. FoundRows(b) = {} /\ pc[b] # "queuedResume"
  BY DEF Undisturbed, NothingToResume, FoundRows
<1>3. CASE TaskStart(b) \/ TaskFinish(b)
  <2>1. PICK w \in {"task", "toJoin"} : pc' = [pc EXCEPT ![b] = w]
    BY <1>3 DEF TaskStart, TaskFinish
  <2> QED BY <1>3, <2>1, FlowQuiet DEF TaskStart, TaskFinish, Called, handlerVars, termVars
<1>4. CASE TaskTerminated(b)
  BY <1>4 DEF TaskTerminated, FlowKept
<1>5. CASE FactoryCheck(b)
  <2>1. pc[b] = "toJoin" /\ splitPc = "done"
    BY <1>5 DEF FactoryCheck, Undisturbed, StartedBySplit
  <2>2. received[Split] # Branches
    BY <1>1, <2>1 DEF Undisturbed, CollectedOnce
  <2>3. registration = Split
    BY <2>1, <2>2 DEF FlowKept
  <2>4. pc' = [pc EXCEPT ![b] = "call"] /\ target' = [target EXCEPT ![b] = Split]
    BY <1>1, <1>5, <2>3 DEF FactoryCheck
  <2> QED BY <1>1, <1>5, <2>1, <2>4, FlowQuiet DEF FactoryCheck, handlerVars, termVars
<1>6. CASE FactoryRegister(b)
  BY <1>6 DEF FactoryRegister, FlowKept
<1>7. CASE Call(b) \/ Acquire(b)
  <2>1. target[b] = Split /\ pc[b] \notin {"left", "exiting", "past"}
    BY <1>7 DEF FlowKept, Called, Call, Acquire
  <2>2. PICK w \in {"queued", "entering"} : pc' = [pc EXCEPT ![b] = w]
    <3>1. interrupted = {}
      BY DEF FlowKept
    <3>2. CASE Call(b)
      BY <1>2, <3>1, <3>2 DEF Call, Critical
    <3>3. CASE Acquire(b)
      BY <1>2, <3>1, <3>3 DEF Acquire, Critical
    <3> QED BY <1>7, <3>2, <3>3
  <2>3. UNCHANGED <<splitPc, target, registration, received, interrupted, removing, notify>>
    BY <1>7 DEF Call, Acquire
  <2> QED BY <2>1, <2>2, <2>3, FlowQuiet
<1>8. CASE Receive(b)
  <2>1. target[b] = Split /\ pc[b] = "entering" /\ splitPc = "done"
    BY <1>8 DEF FlowKept, Called, Receive, Undisturbed, StartedBySplit
  <2>2. received' = [received EXCEPT ![Split] = @ \cup {b}]
    BY <1>8, <2>1 DEF Receive
  <2>3. received'[Split] = received[Split] \cup {b}
    BY <1>1, <2>2
  <2>4. received[Split] # Branches
    BY <1>1, <2>1 DEF Undisturbed, CollectedOnce
  <2>5. registration = Split
    BY <2>1, <2>4 DEF FlowKept
  <2>6. UNCHANGED <<splitPc, target, interrupted, removing, notify>>
    BY <1>8 DEF Receive
  <2>7. CASE AllResultsReceived(received'[Split])
    <3>1. pc' = [pc EXCEPT ![b] = "exiting"] /\ received'[Split] = Branches
      BY <1>1, <1>8, <2>1, <2>3, <2>7 DEF Receive, AllResultsReceived
    <3> QED BY <1>1, <2>1, <2>6, <3>1 DEF FlowKept
  <2>8. CASE ~AllResultsReceived(received'[Split])
    <3>1. pc' = [pc EXCEPT ![b] = "left"] /\ registration' = registration
      BY <1>8, <2>1, <2>3, <2>8 DEF Receive
    <3>2. received'[Split] # Branches
      BY <2>8 DEF AllResultsReceived
    <3> QED BY <1>1, <2>1, <2>3, <2>5, <2>6, <3>1, <3>2 DEF FlowKept
  <2> QED BY <2>7, <2>8
<1>9. CASE Continue(b)
  <2>1. /\ pc[b] = "exiting" /\ pc' = [pc EXCEPT ![b] = "past"]
        /\ UNCHANGED <<splitPc, target, registration, received, interrupted, removing, notify>>
    BY <1>9 DEF Continue, handlerVars, termVars
  <2> QED BY <1>1, <2>1 DEF FlowKept, Called
<1> QED BY <1>3, <1>4, <1>5, <1>6, <1>7, <1>8, <1>9 DEF BranchStep

LEMMA FlowStep ==
  ASSUME IInv, Undisturbed, FlowKept, ~terminated, ~terminated', ~CrashAndResume, [Next]_vars
  PROVE  FlowKept'
<1>1. CASE SplitStep
  <2>1. CASE SplitEnter \/ SplitExecute
    BY <2>1 DEF SplitEnter, SplitExecute, JoinCreatedBySplit, FlowKept,
       branchVars, handlerVars, termVars
  <2>2. CASE SplitContinue
    <3>1. /\ splitPc = "exited" /\ pc' = [b \in Branches |-> "start"]
          /\ splitPc' = "done"
          /\ UNCHANGED <<target, registration, received, interrupted, removing, notify>>
      BY <2>2 DEF SplitContinue, handlerVars, termVars
    <3>2. \A b \in Branches : pc[b] = "idle"
      BY <3>1 DEF Undisturbed, StartedBySplit
    <3>3. received[Split] # Branches /\ registration = Split
      BY <3>1, <3>2 DEF FlowKept
    <3> QED BY <3>1, <3>3 DEF FlowKept, Called
  <2> QED BY <1>1, <2>1, <2>2 DEF SplitStep
<1>2. ASSUME NEW b \in Branches, BranchStep(b) \/ TaskTerminated(b) PROVE FlowKept'
  BY <1>2, FlowBranch
<1>3. CASE Terminate
  BY <1>3 DEF Terminate
<1>4. ASSUME NEW h \in Handlers, JoinTerminated(h) \/ JoinRemoved(h) PROVE FlowKept'
  BY <1>4 DEF JoinTerminated, JoinRemoved, FlowKept
<1>5. CASE UNCHANGED vars
  BY <1>5 DEF vars, branchVars, handlerVars, termVars, FlowKept
<1> QED BY <1>1, <1>2, <1>3, <1>4, <1>5 DEF Next, TerminationStep

\* The flow is not lost at the join, however many branches there are: without a restart
\* and a termination, when no branch is on its way one has gone on behind the join.
THEOREM FlowGoesOn == Spec => []FlowIsNotLost
<1>1. Init => FlowInv
  <2> SUFFICES ASSUME Init PROVE FlowInv
    OBVIOUS
  <2>1. OnceInv
    BY InitIInv DEF Init, OnceInv, Undisturbed, NothingToResume, CollectedOnce,
                    StartedBySplit, Absent
  <2>2. received[Split] = {} /\ Branches # {}
    BY ConstantsAssumption DEF Init, Handlers
  <2>3. FlowKept
    BY <2>2 DEF Init, FlowKept, Called
  <2> QED BY <2>1, <2>3 DEF FlowInv
<1>2. FlowInv /\ [Next]_vars => FlowInv'
  <2> SUFFICES ASSUME FlowInv, [Next]_vars, boot' = 0, ~terminated' PROVE FlowKept'
    BY StepOnce DEF FlowInv
  <2>1. boot = 0 /\ ~CrashAndResume /\ ~terminated
    BY FirstLife, TerminatedForGood DEF FlowInv
  <2> QED BY <2>1, FlowStep DEF FlowInv, OnceInv
<1>3. FlowInv => FlowIsNotLost
  <2> SUFFICES ASSUME FlowInv, boot = 0, ~terminated,
                      \A b \in Branches : pc[b] \in {"past", "left", "failed"}
               PROVE  \E b \in Branches : pc[b] = "past"
    BY DEF FlowIsNotLost
  <2>1. FlowKept
    BY DEF FlowInv
  <2>2. Split \in Handlers /\ received[Split] \subseteq Branches
    BY DEF Handlers, FlowInv, OnceInv, IInv, TypeOK, HandlerTypeOK
  <2>3. received[Split] = Branches
    BY <2>1, <2>2 DEF FlowKept
  <2> QED BY <2>1, <2>3 DEF FlowKept
<1> QED BY <1>1, <1>2, <1>3, PTL DEF Spec

=============================================================================
