--------------------------- MODULE ProcessInstance ---------------------------
(***************************************************************************)
(* A process instance from its creation to its final state.  Its diagram   *)
(* is a start event and, behind it, one branch for each member of          *)
(* Branches: a task that waits for an answer, and an end event.            *)
(*                                                                         *)
(* An instance is executed once.  After a restart it is resumed, and by    *)
(* two runs at a time if its caller is a call activity: by the loop over   *)
(* all instances that are running (run 1), and by the call activity that   *)
(* finds it again (run 2).  A run retraces the rows it loaded and goes on  *)
(* where they end.                                                         *)
(*                                                                         *)
(* An event goes to those who are subscribed when it is published and      *)
(* still are when it is delivered; deliveries keep the order.              *)
(***************************************************************************)
EXTENDS Integers, Sequences, FiniteSets

CONSTANTS
  Branches,     \* the branches behind the start event
  Cases,        \* the cases looked at: the caller, and the type of each end event
  MaxRestarts   \* bound: how often the runtime is started again

Runs == {1, 2}
Kinds == {"client", "callActivity", "subProcess"}
EndTypes == {"regular", "error", "terminate", "invalid"}
NoBranch == "none"   \* the diagram does without this branch

ASSUME InstanceAssumption ==
  /\ Branches # {} /\ IsFiniteSet(Branches)
  /\ Cases \subseteq (Kinds \X [Branches -> EndTypes \cup {NoBranch}])
  /\ \A case \in Cases : \E b \in Branches : case[2][b] # NoBranch
  /\ MaxRestarts \in Nat

VARIABLES
  kind,      \* who calls the instance; it never changes
  endType,   \* the type of the end events; it never changes
  proc,      \* state of the instance in its correlation (none for a sub process)
  started,   \* the rows of the start event and of the tasks exist
  task,      \* row of the task of each branch
  ends,      \* rows of each branch's end event, in the order of their creation
  boot,      \* how often the runtime was started again
  at,        \* where each run stands
  pos,       \* where each run stands in each branch
  mine,      \* the row of the end event each run works on, by its index
  how,       \* how each run came out
  queue,     \* events on their way
  listens    \* the events the caller is subscribed to

dbVars == <<proc, started, task, ends>>
runVars == <<at, pos, mine, how>>
diagram == <<kind, endType>>
instanceVars == <<diagram, dbVars, boot, runVars, queue, listens>>

InstanceInit ==
  /\ \E case \in Cases : kind = case[1] /\ endType = case[2]
  /\ proc = "absent" /\ started = FALSE
  /\ task = [b \in Branches |-> "absent"]
  /\ ends = [b \in Branches |-> <<>>]
  /\ boot = 0
  /\ at = [r \in Runs |-> "off"]
  /\ pos = [r \in Runs |-> [b \in Branches |-> "idle"]]
  /\ mine = [r \in Runs |-> [b \in Branches |-> 0]]
  /\ how = [r \in Runs |-> "none"]
  /\ queue = <<>> /\ listens = {}

\* The topics: an end event, the end of the instance by termination or error.
Topic(event) == CASE event = "started" -> "started"
                  [] event = "ended" -> "ended"
                  [] event = "errored" -> "errored"
                  [] OTHER -> "terminated"

\* The tasks wait as soon as the start event has been executed.
Present == {b \in Branches : endType[b] # NoBranch}
Entered == [b \in Branches |-> IF b \in Present THEN "suspended" ELSE "absent"]
EnteredBy(r) == [pos EXCEPT ![r] = [b \in Branches |-> IF b \in Present THEN "waiting" ELSE "done"]]

Waiting == {x \in Runs \X Branches : pos[x[1]][x[2]] = "waiting"}

\* EventAggregator.publish; an event that nobody is subscribed to is gone.
Publish(event) ==
  LET entry == [event |-> event,
                tasks |-> IF Topic(event) \in {"errored", "terminated"} THEN Waiting ELSE {},
                caller |-> Topic(event) \in listens]
  IN queue' = IF entry.caller \/ entry.tasks # {} THEN Append(queue, entry) ELSE queue

\* What a run's outcome is, once it is known: a rejection is the first one.
ComesOut(r, outcome) == how' = [how EXCEPT ![r] = IF @ = "none" THEN outcome ELSE @]

-----------------------------------------------------------------------------
(* ExecuteProcessService                                                   *)

\* start and startAndAwaitEndEvent refuse a model that is not executable or
\* has no such start event.
Refuse ==
  /\ at[1] = "starting"
  /\ at' = [at EXCEPT ![1] = "over"]
  /\ ComesOut(1, "refused")
  /\ UNCHANGED <<diagram, dbVars, boot, pos, mine, queue, listens>>

\* saveProcessInstance.
Save ==
  /\ at[1] = "starting"
  /\ at' = [at EXCEPT ![1] = "saving"]
  /\ proc' = "running"
  /\ UNCHANGED <<diagram, started, task, ends, boot, pos, mine, how, queue, listens>>

\* The start event is executed, it tells that the instance has started, and
\* the tasks behind it wait.  (The steps of the single handlers have modules
\* of their own.)
StartEvent ==
  /\ at[1] = "saving"
  /\ at' = [at EXCEPT ![1] = "running"]
  /\ started' = TRUE
  /\ task' = Entered
  /\ pos' = EnteredBy(1)
  /\ Publish("started")
  /\ UNCHANGED <<diagram, proc, ends, boot, mine, how, listens>>

-----------------------------------------------------------------------------
(* The branches                                                            *)

\* The task of a branch is answered: every run that waits for it goes on.
\* (An answer needs a request, which comes after processStarted was heard.)
Answer(b) ==
  /\ \E r \in Runs : pos[r][b] = "waiting"
  /\ \A i \in DOMAIN queue : queue[i].event # "started"
  /\ task' = [task EXCEPT ![b] = "finished"]
  /\ pos' = [r \in Runs |->
       [pos[r] EXCEPT ![b] = IF @ = "waiting" THEN "leaving" ELSE @]]
  /\ UNCHANGED <<diagram, proc, started, ends, boot, at, mine, how, queue, listens>>

\* EndEventHandler.startExecution.
EnterEnd(r, b) ==
  /\ pos[r][b] = "leaving"
  /\ pos' = [pos EXCEPT ![r][b] = "ending"]
  /\ ends' = [ends EXCEPT ![b] = Append(@, "running")]
  /\ mine' = [mine EXCEPT ![r][b] = Len(ends[b]) + 1]
  /\ UNCHANGED <<diagram, proc, started, task, boot, at, how, queue, listens>>

\* executeHandler persists; its catch does not wait for persistOnError.
ExitEnd(r, b) ==
  /\ pos[r][b] = "ending"
  /\ ends' = [ends EXCEPT ![b][mine[r][b]] =
       CASE endType[b] = "invalid" -> "error"
         [] endType[b] = "terminate" -> "terminated"
         [] OTHER -> "finished"]
  /\ pos' = [pos EXCEPT ![r][b] = IF endType[b] = "invalid" THEN "failed" ELSE "exiting"]
  /\ IF endType[b] = "invalid" THEN ComesOut(r, "error") ELSE UNCHANGED how
  /\ UNCHANGED <<diagram, proc, started, task, boot, at, mine, queue, listens>>

\* executeHandler rejects, or tells about the end or the termination.
NotifyAboutRegularEnd == Publish("ended")
NotifyAboutTermination == Publish("terminatedByEnd")

RegularEnd(r, b) ==
  /\ pos[r][b] = "exiting" /\ endType[b] = "regular"
  /\ pos' = [pos EXCEPT ![r][b] = "done"]
  /\ NotifyAboutRegularEnd
  /\ UNCHANGED <<diagram, dbVars, boot, at, mine, how, listens>>

ErrorEnd(r, b) ==
  /\ pos[r][b] = "exiting" /\ endType[b] = "error"
  /\ pos' = [pos EXCEPT ![r][b] = "failed"]
  /\ ComesOut(r, "error")
  /\ UNCHANGED <<diagram, dbVars, boot, at, mine, queue, listens>>

TerminateEnd(r, b) ==
  /\ pos[r][b] = "exiting" /\ endType[b] = "terminate"
  /\ pos' = [pos EXCEPT ![r][b] = "failed"]
  /\ ComesOut(r, "terminated")
  /\ NotifyAboutTermination
  /\ UNCHANGED <<diagram, dbVars, boot, at, mine, listens>>

\* The handlers of the tasks that are subscribed hear of a termination or an
\* error: each interrupts itself, persists that, and rejects.  A termination
\* without a message makes the callback fail after it has persisted, so that
\* the handler never settles.
Hears(entry, r, b) == <<r, b>> \in entry.tasks /\ pos[r][b] = "waiting"

TasksHear(entry) ==
  LET byError == entry.event = "errored"
      silent == entry.event = "terminatedSilently"
  IN /\ task' = [b \in Branches |-> IF \E r \in Runs : Hears(entry, r, b)
                                    THEN IF byError THEN "error" ELSE "terminated"
                                    ELSE task[b]]
     /\ pos' = [r \in Runs |-> [b \in Branches |->
          IF ~Hears(entry, r, b) THEN pos[r][b] ELSE IF silent THEN "stuck" ELSE "failed"]]
     /\ how' = [r \in Runs |->
          IF how[r] = "none" /\ ~silent /\ \E b \in Branches : Hears(entry, r, b)
          THEN IF byError THEN "error" ELSE "terminated" ELSE how[r]]

-----------------------------------------------------------------------------
(* The final state: ProcessInstanceStateHandlingFacade.  A sub process has *)
(* none; its run is awaited by the handler of the sub process.             *)

AllDone(r) == \A b \in Branches : pos[r][b] = "done"

\* (The notification of a regular end has no listener here.)
Finish(r) ==
  /\ at[r] = "running" /\ kind # "subProcess" /\ AllDone(r)
  /\ at' = [at EXCEPT ![r] = "over"]
  /\ proc' = "finished"
  /\ UNCHANGED <<diagram, started, task, ends, boot, pos, mine, how, queue, listens>>

Fail(r) ==
  /\ at[r] = "running" /\ kind # "subProcess" /\ how[r] # "none"
  /\ at' = [at EXCEPT ![r] = "failing"]
  /\ proc' = "error"
  /\ UNCHANGED <<diagram, started, task, ends, boot, pos, mine, how, queue, listens>>

\* The state is written, and the notification tells an error that calls itself
\* a termination from the others.
SendNotification(outcome) == Publish(IF outcome = "terminated" THEN "terminated" ELSE "errored")

Failed(r) ==
  /\ at[r] = "failing"
  /\ at' = [at EXCEPT ![r] = "over"]
  /\ SendNotification(how[r])
  /\ UNCHANGED <<diagram, dbVars, boot, pos, mine, how, listens>>

\* The run of a sub process returns to its handler.
Return ==
  /\ kind = "subProcess" /\ at[1] = "running" /\ (AllDone(1) \/ how[1] # "none")
  /\ at' = [at EXCEPT ![1] = "over"]
  /\ UNCHANGED <<diagram, dbVars, boot, pos, mine, how, queue, listens>>

-----------------------------------------------------------------------------
(* ResumeProcessService                                                    *)

\* resumeProcessInstanceById leaves an instance alone that is not running.
Lookup(r) ==
  /\ at[r] = "looking"
  /\ IF proc = "running"
     THEN at' = [at EXCEPT ![r] = "loading"] /\ UNCHANGED how
     ELSE at' = [at EXCEPT ![r] = "over"] /\ ComesOut(r, "closed")
  /\ UNCHANGED <<diagram, dbVars, boot, pos, mine, queue, listens>>

HasActiveFlowNodeInstances ==
  \E b \in Branches : task[b] = "suspended" \/ \E i \in DOMAIN ends[b] : ends[b][i] = "running"
HasReachedAnEndEvent == \E b \in Branches : ends[b] # <<>>

OrphanWhenAnyEnd == HasReachedAnEndEvent
IsOrphaned == ~HasActiveFlowNodeInstances /\ HasReachedAnEndEvent

\* Where the retraced handlers go on: behind the last row of the branch, of
\* which findNextInstanceOfFlowNode finds the first.
Resumed(b) ==
  IF b \notin Present THEN "done" ELSE IF ends[b] # <<>>
  THEN CASE ends[b][1] = "finished" -> "done"
         [] ends[b][1] = "running" -> "ending"
         [] OTHER -> "failed"
  ELSE CASE task[b] = "suspended" -> "waiting"
         [] task[b] = "finished" -> "leaving"
         [] OTHER -> "failed"

FailedRow(b) == IF ends[b] # <<>> THEN ends[b][1] ELSE task[b]
ResumedOutcomes ==
  IF \A b \in Branches : Resumed(b) # "failed" THEN {"none"}
  ELSE {FailedRow(b) : b \in {x \in Branches : Resumed(x) = "failed"}}

FirstRow(b) == IF ends[b] # <<>> THEN 1 ELSE 0

Retrace(r) ==
  /\ at' = [at EXCEPT ![r] = "running"]
  /\ pos' = [pos EXCEPT ![r] = [b \in Branches |-> Resumed(b)]]
  /\ mine' = [mine EXCEPT ![r] = [b \in Branches |-> FirstRow(b)]]
  /\ \E outcome \in ResumedOutcomes : how' = [how EXCEPT ![r] = outcome]

\* queryByProcessInstance has returned.  An orphan is finished; without the
\* row of a start event createProcessInstanceConfig throws; the rest is
\* resumed from its start event.  (The caller of run 2 hears of end events.)
Load(r) ==
  /\ at[r] = "loading"
  /\ \/ /\ IsOrphaned
        /\ at' = [at EXCEPT ![r] = "orphaned"]
        /\ \E b \in Branches : ends[b] # <<>> /\ mine' = [mine EXCEPT ![r][b] = 1]
        /\ UNCHANGED <<pos, how, listens>>
     \/ /\ ~IsOrphaned /\ ~started
        /\ at' = [at EXCEPT ![r] = "over"]
        /\ ComesOut(r, "error")
        /\ UNCHANGED <<pos, mine, listens>>
     \/ /\ ~IsOrphaned /\ started
        /\ Retrace(r)
        /\ listens' = IF r = 2 THEN listens \cup {"ended"} ELSE listens
  /\ UNCHANGED <<diagram, dbVars, boot, queue>>

\* finishOrphanedProcessInstance takes the state of the end event that came first
\* among the rows loaded.  (The database may give them in any order.)
OrphanHasFinished(state) == "finished"
OrphanState(state) == IF state \in {"error", "terminated"} THEN "error" ELSE "finished"

FinishOrphan(r) ==
  /\ at[r] = "orphaned"
  /\ at' = [at EXCEPT ![r] = "over"]
  /\ \E b \in Branches : mine[r][b] > 0 /\ proc' = OrphanState(ends[b][mine[r][b]])
  /\ ComesOut(r, "orphan")
  /\ UNCHANGED <<diagram, started, task, ends, boot, pos, mine, queue, listens>>

RunStep(r) ==
  \/ Finish(r) \/ Fail(r) \/ Failed(r)
  \/ Lookup(r) \/ Load(r) \/ FinishOrphan(r)
  \/ \E b \in Branches :
       EnterEnd(r, b) \/ ExitEnd(r, b) \/ RegularEnd(r, b) \/ ErrorEnd(r, b) \/ TerminateEnd(r, b)

InstanceStep == Save \/ StartEvent \/ Return \/ \E r \in Runs : RunStep(r)
=============================================================================
