------------------------- MODULE ProcessCallerProofs --------------------------
(***************************************************************************)
(* Proofs about ProcessCaller, for any branches, end events, interruptions *)
(* and restarts.  What a final state or an answer says about the end       *)
(* events is traced back to the places from which a run, or a caller,      *)
(* could have written it; what an interruption has left to do is kept in   *)
(* the events that are on their way.                                       *)
(***************************************************************************)
EXTENDS ProcessCaller, SequenceTheorems, TLAPS

RowsOfTasks == Rows \ {"resumed", "running"}
RowsOfEnds == {"running", "finished", "terminated", "error"}
Entries == [event : Events, tasks : SUBSET (Runs \X Branches), caller : BOOLEAN]

\* The parts of TypeOK, and the domains it takes for granted.
Values ==
  /\ diagram \in Cases /\ started \in BOOLEAN
  /\ proc \in {"absent", "running", "finished", "error"}
  /\ boot \in 0 .. MaxRestarts
  /\ at \in [Runs -> RunPlaces]
  /\ listens \subseteq EveryEnd \cup {"started"}
Callers ==
  /\ row \in Rows /\ place \in Places
  /\ closing \in {"no", "reading", "closed", "over"}
  /\ settled \in {"none", "resolved", "rejected", "interrupted", "lost"}
  /\ known \in BOOLEAN /\ heard \in BOOLEAN /\ blind \in BOOLEAN
Work ==
  /\ task \in [Branches -> RowsOfTasks]
  /\ ends \in [Branches -> Seq(RowsOfEnds)]
Chains ==
  /\ pos \in [Runs -> [Branches -> Positions]]
  /\ how \in [Runs -> Outcomes]
Queued == queue \in Seq(Entries)

\* A run that works on the row of an end event has one.
Owns ==
  /\ mine \in [Runs -> [Branches -> Nat]]
  /\ \A r \in Runs, b \in Branches : mine[r][b] <= Len(ends[b])
  /\ \A r \in Runs, b \in Branches : pos[r][b] \in {"ending", "exiting"} => mine[r][b] >= 1

\* Nothing is done in a branch before the start event has been executed.
Begun ==
  /\ \A b \in Branches : ends[b] # <<>> => started
  /\ \A r \in Runs, b \in Branches : pos[r][b] # "idle" => started
  /\ started => \A b \in Present : task[b] # "absent"

\* Where the runs can be, given the state of the instance.
Phases ==
  /\ kind = "subProcess" => proc = "absent" /\ at[1] \in {"off", "running", "over"}
                            /\ how[1] \in {"none", "error", "terminated"}
  /\ proc = "absent" /\ kind # "subProcess" => ~started /\ at[1] \in {"off", "starting", "over"}
  /\ proc = "absent" => at[2] = "off"
  /\ at[1] = "starting" => proc = "absent"
  /\ at[1] = "saving" => proc = "running" /\ ~started /\ at[2] = "off"
  /\ \A r \in Runs : at[r] \in {"looking", "loading", "orphaned"} => boot > 0 /\ proc # "absent"
  /\ kind # "callActivity" => at[2] = "off"

\* Where the caller can be, given its row.
Stations ==
  /\ kind # "subProcess" /\ place \in {"idle", "entering", "suspending"} => proc = "absent" /\ at[1] = "off"
  /\ kind = "client" => /\ row = "absent" /\ place \in {"idle", "waiting", "over"}
                        /\ listens \subseteq {"ended"} /\ closing = "no"
  /\ kind # "client" /\ place = "idle" => row = "absent"
  /\ kind # "client" /\ row = "absent" => place = "idle" /\ settled = "none" /\ closing = "no"
  /\ kind # "client" /\ row \in {"absent", "running"} => listens = {}
  /\ row = "running" => place = "entering" /\ settled = "none"
  /\ place = "finding" => boot > 0 /\ at[1] \notin {"starting", "saving"}

\* A branch that nobody has left behind, and what a run that is through knows of its
\* own: the end event has a row.
Closed(b) == ends[b] # <<>> \/ (boot > 0 /\ task[b] \in {"finished", "terminated", "error"})
EndsEntered ==
  /\ \A r \in Runs : \A b \in Present : pos[r][b] \in {"ending", "exiting", "done"} => ends[b] # <<>>
  /\ \A r \in Runs : \A b \in Branches \ Present : pos[r][b] \in {"idle", "done"}
OrphansEnded ==
  /\ \A r \in Runs : at[r] = "orphaned" => \A b \in Present : Closed(b)
  /\ proc = "finished" => \A b \in Present : Closed(b)

\* An end event that was reached: of a type that finishes, regular without a restart.
HasFinished(b) == \E i \in DOMAIN ends[b] : ends[b][i] = "finished"
Reached == \E b \in Branches : HasFinished(b) /\ (boot = 0 => endType[b] = "regular")

\* Whoever knows of an end, or hears of one, knows of an end event that was reached.
FinishedTypes == \A b \in Branches : HasFinished(b) => endType[b] \in {"regular", "error"}
DoneReached ==
  /\ \A r \in Runs, b \in Branches : pos[r][b] = "exiting" /\ endType[b] = "regular" => HasFinished(b)
  /\ \A r \in Runs : \A b \in Present :
       pos[r][b] = "done" => HasFinished(b) /\ (boot = 0 => endType[b] = "regular")
ToldReached ==
  /\ (\E i \in DOMAIN queue : queue[i].event = "ended") => Reached
  /\ heard => Reached

\* What a caller may go on with: an end event, or a child that is not running any more.
Stopped == boot > 0 /\ kind = "callActivity" /\ proc \notin {"absent", "running"}
GoodEnd == Reached \/ Stopped
FoundStopped == how[2] \in {"closed", "orphan"} => Stopped
ReturnedDone == kind = "subProcess" /\ at[1] = "over" /\ how[1] = "none" => AllDone(1)
GoingOn ==
  /\ kind # "client" /\ place \in {"resuming", "exiting"} => GoodEnd
  /\ kind # "client" /\ settled = "none" /\ row \in {"resumed", "finished"} => GoodEnd
  /\ settled = "resolved" => GoodEnd

\* Before a handler has a child, or has found it.
Childless == place \in {"idle", "entering", "suspending", "finding"}
Fresh ==
  /\ kind = "subProcess" /\ place \in {"idle", "entering", "suspending"} => ~started
  /\ place = "finding" => at[2] = "off"
  /\ kind = "client" => settled # "interrupted"
IdleRuns ==
  \A r \in Runs : at[r] \in {"off", "starting", "saving", "looking", "loading", "orphaned"} =>
    \A b \in Branches : pos[r][b] = "idle"

\* A suspended task is in front of everything else in its branch.
SuspendedFirst ==
  /\ \A b \in Branches : task[b] = "suspended" => b \in Present /\ ends[b] = <<>> /\ started
  /\ \A r \in Runs : \A b \in Present : task[b] = "suspended" => pos[r][b] \in {"idle", "waiting"}

\* A child is known only after its start.
KnownChild ==
  /\ known \/ (\E i \in DOMAIN queue : queue[i].event = "started") => at[1] \notin {"starting",
    "saving"} /\ ~Childless
  /\ (\E i \in DOMAIN queue : queue[i].event = "started") => kind # "subProcess"

\* Who waits for a suspended task, or will.
IsAwaited(b) == (\E r \in Runs : pos[r][b] = "waiting") \/ (boot > 0 /\ proc = "error")
SuspendedAwaited ==
  \A b \in Branches : task[b] = "suspended" =>
    IsAwaited(b) \/ at[1] \in {"looking", "loading"} \/ (kind = "subProcess" /\ boot > 0 /\ ~known)

\* Once an interruption has reached the child: nobody starts it or loads its tasks any
\* more, and whoever waits has a signal on its way.
Told == (settled = "interrupted" \/ closing \in {"closed", "over"}) /\ ~blind
Covered(r, b) == \E i \in DOMAIN queue : <<r, b>> \in queue[i].tasks
ToldOnce == Told => at[1] \notin {"starting", "saving"} /\ ~Childless
ToldAwaited ==
  Told => \A b \in Branches : task[b] = "suspended" =>
            IsAwaited(b) /\ \A r \in Runs : at[r] \notin {"looking", "loading"}
ToldAll == Told => \A r \in Runs, b \in Branches : pos[r][b] = "waiting" => Covered(r, b)

\* The state of the instance, the places of the runs, the subscriptions.
LEMMA Valuing == ASSUME Values, [Next]_vars PROVE Values'
<1> USE InstanceAssumption DEF instanceVars, diagram, dbVars, runVars, callerVars, Values, RunPlaces, Runs,
    EveryEnd
<1>1. CASE Alone
  <2>1. CASE Save
    BY <2>1 DEF Save
  <2>2. CASE StartEvent
    BY <2>2 DEF StartEvent
  <2>3. CASE Return
    BY <2>3 DEF Return
  <2>4. CASE \E r \in Runs : Finish(r)
    BY <2>4 DEF Finish
  <2>5. CASE \E r \in Runs : Fail(r)
    BY <2>5 DEF Fail
  <2>6. CASE \E r \in Runs : Failed(r)
    BY <2>6 DEF Failed
  <2>7. CASE \E r \in Runs : Lookup(r)
    BY <2>7 DEF Lookup
  <2>8. CASE \E r \in Runs : Load(r)
    <3>1. PICK r \in Runs : Load(r)
      BY <2>8
    <3>2. at' \in [Runs -> RunPlaces]
      BY <3>1 DEF Load, Retrace
    <3>3. listens' \subseteq EveryEnd \cup {"started"}
      BY <3>1 DEF Load
    <3> QED
      BY <3>1, <3>2, <3>3 DEF Load
  <2>9. CASE \E r \in Runs : FinishOrphan(r)
    BY <2>9 DEF FinishOrphan, OrphanState
  <2>10. CASE (\E r \in Runs, b \in Branches : EnterEnd(r, b)) \/ (\E r \in Runs, b \in Branches : ExitEnd(r,
       b)) \/ (\E r \in Runs, b \in Branches : RegularEnd(r, b)) \/ (\E r \in Runs,
       b \in Branches : ErrorEnd(r, b)) \/ (\E r \in Runs, b \in Branches : TerminateEnd(r, b))
    BY <2>10 DEF EnterEnd, ExitEnd, RegularEnd, ErrorEnd, TerminateEnd
  <2> QED
    BY <1>1, <2>1, <2>2, <2>3, <2>4, <2>5, <2>6, <2>7, <2>8, <2>9, <2>10 DEF Alone, InstanceStep, RunStep
<1>2. CASE CallerStep
  <2>1. CASE Suspended
    BY <2>1 DEF Suspended, ExecuteSubprocess
  <2>2. CASE WaitForSubProcessExecution
    BY <2>2 DEF WaitForSubProcessExecution
  <2>3. CASE RunReturns
    BY <2>3 DEF RunReturns
  <2>4. CASE FindCalled
    BY <2>4 DEF FindCalled, ExecuteSubprocess
  <2>5. CASE FindSubProcess
    <3>1. at' \in [Runs -> RunPlaces]
      BY <2>5 DEF FindSubProcess, WaitForSubProcessResumption, Retrace
    <3>2. listens' \subseteq EveryEnd \cup {"started"}
      BY <2>5 DEF FindSubProcess, WaitForSubProcessResumption
    <3> QED
      BY <2>5, <3>1, <3>2 DEF FindSubProcess
  <2>6. CASE ClientReturns \/ ExecuteHandler \/ Refused \/ ContinueAfterResume \/ Resolve \/ Reject \/
       TerminateSubprocess \/ Close
    BY <2>6 DEF ClientReturns, ExecuteHandler, Refused, ContinueAfterResume, Resolve, Reject,
       TerminateSubprocess, Close
  <2> QED
    BY <1>2, <2>1, <2>2, <2>3, <2>4, <2>5, <2>6 DEF CallerStep
<1>3. CASE Deliver
  BY <1>3 DEF Deliver, CallerHears, StartIsHeard, ClientHears, HandlerHears, ListensForChild
<1>4. CASE Answered
  BY <1>4 DEF Answered, Answer
<1>5. CASE Refuse /\ UNCHANGED callerVars
  BY <1>5 DEF Refuse
<1>6. CASE StartAndAwaitEndEvent
  BY <1>6 DEF StartAndAwaitEndEvent
<1>7. CASE Begin
  BY <1>7 DEF Begin
<1>8. CASE Restart
  BY <1>8 DEF Restart
<1>9. CASE Interrupted
  BY <1>9 DEF Interrupted
<1>10. CASE UNCHANGED vars
  BY <1>10 DEF vars
<1> QED
  BY <1>1, <1>2, <1>3, <1>4, <1>5, <1>6, <1>7, <1>8, <1>9, <1>10 DEF Next, System

\* The row and the places of the caller.
LEMMA Calling == ASSUME Callers, [Next]_vars PROVE Callers'
<1> USE CallerAssumption DEF instanceVars, diagram, dbVars, runVars, callerVars, Callers, Rows, Places
<1>1. CASE Alone
  BY <1>1 DEF Alone
<1>2. CASE CallerStep
  <2>1. CASE ClientReturns
    BY <2>1 DEF ClientReturns, Settle
  <2>2. CASE ExecuteHandler
    BY <2>2 DEF ExecuteHandler
  <2>3. CASE Suspended
    BY <2>3 DEF Suspended, ExecuteSubprocess
  <2>4. CASE WaitForSubProcessExecution
    BY <2>4 DEF WaitForSubProcessExecution
  <2>5. CASE Refused
    BY <2>5 DEF Refused, GoDown
  <2>6. CASE RunReturns
    BY <2>6 DEF RunReturns, GoOn, GoDown, GoDownTerminated
  <2>7. CASE ContinueAfterResume
    BY <2>7 DEF ContinueAfterResume
  <2>8. CASE Resolve
    BY <2>8 DEF Resolve, Settle
  <2>9. CASE Reject
    BY <2>9 DEF Reject, Settle
  <2>10. CASE TerminateSubprocess
    BY <2>10 DEF TerminateSubprocess, InReach
  <2>11. CASE Close
    BY <2>11 DEF Close, Settle
  <2>12. CASE FindCalled
    BY <2>12 DEF FindCalled, ExecuteSubprocess
  <2>13. CASE FindSubProcess
    BY <2>13 DEF FindSubProcess, WaitForSubProcessResumption, GoDown
  <2> QED
    BY <1>2, <2>1, <2>2, <2>3, <2>4, <2>5, <2>6, <2>7, <2>8, <2>9, <2>10, <2>11, <2>12, <2>13 DEF CallerStep
<1>3. CASE Deliver
  BY ZenonT(60), <1>3 DEF Deliver, CallerHears, StartIsHeard, ClientHears, HandlerHears, GoOn, GoDown
<1>4. CASE Answered
  BY <1>4 DEF Answered, Answer
<1>5. CASE Refuse /\ UNCHANGED callerVars
  BY <1>5 DEF Refuse
<1>6. CASE StartAndAwaitEndEvent
  BY <1>6 DEF StartAndAwaitEndEvent
<1>7. CASE Begin
  BY <1>7 DEF Begin
<1>8. CASE Restart
  BY <1>8 DEF Restart
<1>9. CASE Interrupted
  BY <1>9 DEF Interrupted, InReach
<1>10. CASE UNCHANGED vars
  BY <1>10 DEF vars
<1> QED
  BY <1>1, <1>2, <1>3, <1>4, <1>5, <1>6, <1>7, <1>8, <1>9, <1>10 DEF Next, System

\* The rows of the tasks and end events.
LEMMA Working == ASSUME Work, Owns, [Next]_vars PROVE Work'
<1> USE DEF instanceVars, diagram, dbVars, runVars, callerVars, Work, Owns, RowsOfTasks, RowsOfEnds, Rows
<1>1. CASE Alone
  <2>1. CASE StartEvent
    BY <2>1 DEF StartEvent, Entered
  <2>2. CASE \E r \in Runs, b \in Branches : EnterEnd(r, b)
    BY <2>2 DEF EnterEnd
  <2>3. CASE \E r \in Runs, b \in Branches : ExitEnd(r, b)
    BY <2>3 DEF ExitEnd
  <2>4. CASE Save \/ Return \/ (\E r \in Runs : Finish(r)) \/ (\E r \in Runs : Fail(r)) \/
       (\E r \in Runs : Failed(r)) \/ (\E r \in Runs : Lookup(r)) \/ (\E r \in Runs : Load(r)) \/
       (\E r \in Runs : FinishOrphan(r)) \/ (\E r \in Runs, b \in Branches : RegularEnd(r, b)) \/
       (\E r \in Runs, b \in Branches : ErrorEnd(r, b)) \/ (\E r \in Runs, b \in Branches : TerminateEnd(r,
       b))
    BY <2>4 DEF Save, Return, Finish, Fail, Failed, Lookup, Load, FinishOrphan, RegularEnd, ErrorEnd,
       TerminateEnd
  <2> QED
    BY <1>1, <2>1, <2>2, <2>3, <2>4 DEF Alone, InstanceStep, RunStep
<1>2. CASE CallerStep
  <2>1. CASE WaitForSubProcessExecution
    BY <2>1 DEF WaitForSubProcessExecution, Entered
  <2>2. CASE ClientReturns \/ ExecuteHandler \/ Suspended \/ Refused \/ RunReturns \/ ContinueAfterResume \/
       Resolve \/ Reject \/ TerminateSubprocess \/ Close \/ FindCalled \/ FindSubProcess
    BY <2>2 DEF ClientReturns, ExecuteHandler, Suspended, Refused, RunReturns, ContinueAfterResume, Resolve,
       Reject, TerminateSubprocess, Close, FindCalled, FindSubProcess
  <2> QED
    BY <1>2, <2>1, <2>2 DEF CallerStep
<1>3. CASE Deliver
  BY <1>3 DEF Deliver, TasksHear
<1>4. CASE Answered
  BY <1>4 DEF Answered, Answer
<1>5. CASE Refuse /\ UNCHANGED callerVars
  BY <1>5 DEF Refuse
<1>6. CASE StartAndAwaitEndEvent
  BY <1>6 DEF StartAndAwaitEndEvent
<1>7. CASE Begin
  BY <1>7 DEF Begin
<1>8. CASE Restart
  BY <1>8 DEF Restart
<1>9. CASE Interrupted
  BY <1>9 DEF Interrupted
<1>10. CASE UNCHANGED vars
  BY <1>10 DEF vars
<1> QED
  BY <1>1, <1>2, <1>3, <1>4, <1>5, <1>6, <1>7, <1>8, <1>9, <1>10 DEF Next, System

\* An event that is published is at the end of the queue, or is heard by nobody.
EntryFor(event) ==
  [event |-> event,
   tasks |-> IF Topic(event) \in {"errored", "terminated"} THEN Waiting ELSE {},
   caller |-> Topic(event) \in listens]

\* An event goes onto the queue if anybody is subscribed to it.
LEMMA Published ==
  ASSUME NEW event, Publish(event)
  PROVE \/ queue' = Append(queue, EntryFor(event))
        \/ queue' = queue /\ ~EntryFor(event).caller /\ EntryFor(event).tasks = {}
  BY DEF Publish, EntryFor

\* What is put there.
LEMMA EntryTyped == ASSUME NEW event \in Events PROVE EntryFor(event) \in Entries
<1>1. Waiting \subseteq Runs \X Branches
  BY DEF Waiting
<1>2. (IF Topic(event) \in {"errored", "terminated"} THEN Waiting ELSE {}) \in SUBSET (Runs \X Branches)
  BY <1>1
<1>3. (Topic(event) \in listens) \in BOOLEAN
  OBVIOUS
<1> QED
  BY <1>2, <1>3 DEF EntryFor, Entries

\* The queue keeps its type.
LEMMA PublishedTyped == ASSUME Queued, NEW event \in Events, Publish(event) PROVE Queued'
<1>1. CASE queue' = Append(queue, EntryFor(event))
  BY <1>1, EntryTyped DEF Queued
<1>2. CASE queue' = queue
  BY <1>2 DEF Queued
<1> QED
  BY <1>1, <1>2, Published

\* What a resumed run finds: it comes out as one of the failed rows.
LEMMA Retraced ==
  ASSUME Work, Begun, started
  PROVE /\ ResumedOutcomes \subseteq {"none", "error", "terminated"}
        /\ \A b \in Branches : Resumed(b) \in {"waiting", "leaving", "ending", "done", "failed"}
<1>1. \A b \in Branches : Resumed(b) \in {"waiting", "leaving", "ending", "done", "failed"}
  BY DEF Resumed
<1>2. ASSUME NEW b \in Branches, Resumed(b) = "failed" PROVE FailedRow(b) \in {"error", "terminated"}
  <2>1. b \in Present
    BY <1>2 DEF Resumed
  <2>2. CASE ends[b] # <<>>
    <3>1. ends[b][1] \in RowsOfEnds
      BY <2>2 DEF Work
    <3>2. ends[b][1] \notin {"finished", "running"}
      BY <1>2, <2>1, <2>2 DEF Resumed
    <3> QED
      BY <2>2, <3>1, <3>2 DEF FailedRow, RowsOfEnds
  <2>3. CASE ends[b] = <<>>
    <3>1. task[b] \notin {"suspended", "finished", "absent"}
      BY <1>2, <2>1, <2>3 DEF Resumed, Begun
    <3>2. task[b] \in {"absent", "suspended", "finished", "terminated", "error"}
      BY DEF Work, RowsOfTasks, Rows
    <3> QED
      BY <2>3, <3>1, <3>2 DEF FailedRow
  <2> QED
    BY <2>2, <2>3
<1> QED
  BY <1>1, <1>2 DEF ResumedOutcomes

\* A run that retraces its rows stands somewhere in every branch.
LEMMA RetracedChains ==
  ASSUME Chains, Work, Begun, started, NEW r \in Runs, Retrace(r)
  PROVE Chains' /\ how'[r] \in {"none", "error", "terminated"}
<1>1. how' \in [Runs -> Outcomes] /\ how'[r] \in {"none", "error", "terminated"}
  BY Retraced DEF Retrace, Chains, Outcomes
<1>2. [b \in Branches |-> Resumed(b)] \in [Branches -> Positions]
  BY Retraced DEF Positions
<1>3. pos' \in [Runs -> [Branches -> Positions]]
  BY <1>2 DEF Retrace, Chains
<1> QED
  BY <1>1, <1>3 DEF Chains

\* Where the runs stand in the branches, and how they come out.
LEMMA Chaining == ASSUME Chains, Values, Work, Begun, [Next]_vars PROVE Chains'
<1> USE DEF instanceVars, diagram, dbVars, runVars, callerVars, Chains, Positions, Outcomes, Runs
<1>1. CASE Alone
  <2>1. CASE StartEvent
    BY <2>1 DEF StartEvent, EnteredBy
  <2>2. CASE \E r \in Runs : Lookup(r)
    BY <2>2 DEF Lookup, ComesOut
  <2>3. CASE \E r \in Runs : Load(r)
    <3>1. PICK r \in Runs : Load(r)
      BY <2>3
    <3>2. CASE ~IsOrphaned /\ started
      BY <3>1, <3>2, RetracedChains DEF Load
    <3>3. CASE IsOrphaned \/ ~started
      BY <3>1, <3>3 DEF Load, ComesOut
    <3> QED
      BY <3>2, <3>3
  <2>4. CASE \E r \in Runs : FinishOrphan(r)
    BY <2>4 DEF FinishOrphan, ComesOut
  <2>5. CASE \E r \in Runs, b \in Branches : EnterEnd(r, b)
    BY <2>5 DEF EnterEnd
  <2>6. CASE \E r \in Runs, b \in Branches : ExitEnd(r, b)
    BY <2>6 DEF ExitEnd, ComesOut
  <2>7. CASE \E r \in Runs, b \in Branches : RegularEnd(r, b)
    BY <2>7 DEF RegularEnd
  <2>8. CASE \E r \in Runs, b \in Branches : ErrorEnd(r, b)
    BY <2>8 DEF ErrorEnd, ComesOut
  <2>9. CASE \E r \in Runs, b \in Branches : TerminateEnd(r, b)
    BY <2>9 DEF TerminateEnd, ComesOut
  <2>10. CASE Save \/ Return \/ (\E r \in Runs : Finish(r)) \/ (\E r \in Runs : Fail(r)) \/
       (\E r \in Runs : Failed(r))
    BY <2>10 DEF Save, Return, Finish, Fail, Failed
  <2> QED
    BY <1>1, <2>1, <2>2, <2>3, <2>4, <2>5, <2>6, <2>7, <2>8, <2>9, <2>10 DEF Alone, InstanceStep, RunStep
<1>2. CASE CallerStep
  <2>1. CASE WaitForSubProcessExecution
    BY <2>1 DEF WaitForSubProcessExecution, EnteredBy
  <2>2. CASE FindSubProcess
    <3>1. CASE started
      BY <2>2, <3>1, RetracedChains DEF FindSubProcess, WaitForSubProcessResumption
    <3>2. CASE ~started
      BY <2>2, <3>2 DEF FindSubProcess
    <3> QED
      BY <3>1, <3>2
  <2>3. CASE ClientReturns \/ ExecuteHandler \/ Suspended \/ Refused \/ RunReturns \/ ContinueAfterResume \/
       Resolve \/ Reject \/ TerminateSubprocess \/ Close \/ FindCalled
    BY <2>3 DEF ClientReturns, ExecuteHandler, Suspended, Refused, RunReturns, ContinueAfterResume, Resolve,
       Reject, TerminateSubprocess, Close, FindCalled
  <2> QED
    BY <1>2, <2>1, <2>2, <2>3 DEF CallerStep
<1>3. CASE Deliver
  BY <1>3 DEF Deliver, TasksHear
<1>4. CASE Answered
  BY <1>4 DEF Answered, Answer
<1>5. CASE Refuse /\ UNCHANGED callerVars
  BY <1>5 DEF Refuse, ComesOut
<1>6. CASE StartAndAwaitEndEvent
  BY <1>6 DEF StartAndAwaitEndEvent
<1>7. CASE Begin
  BY <1>7 DEF Begin
<1>8. CASE Restart
  BY <1>8 DEF Restart
<1>9. CASE Interrupted
  BY <1>9 DEF Interrupted
<1>10. CASE UNCHANGED vars
  BY <1>10 DEF vars
<1> QED
  BY <1>1, <1>2, <1>3, <1>4, <1>5, <1>6, <1>7, <1>8, <1>9, <1>10 DEF Next, System

\* The events on their way.
LEMMA Queueing == ASSUME Queued, [Next]_vars PROVE Queued'
<1> USE DEF instanceVars, diagram, dbVars, runVars, callerVars, Queued
<1>1. CASE Alone
  <2>1. CASE StartEvent
    BY <2>1, PublishedTyped DEF StartEvent, Events
  <2>2. CASE \E r \in Runs : Failed(r)
    BY <2>2, PublishedTyped DEF Failed, SendNotification, Events
  <2>3. CASE \E r \in Runs, b \in Branches : RegularEnd(r, b)
    BY <2>3, PublishedTyped DEF RegularEnd, NotifyAboutRegularEnd, Events
  <2>4. CASE \E r \in Runs, b \in Branches : TerminateEnd(r, b)
    BY <2>4, PublishedTyped DEF TerminateEnd, NotifyAboutTermination, Events
  <2>5. CASE Save \/ Return \/ (\E r \in Runs : Finish(r)) \/ (\E r \in Runs : Fail(r)) \/
       (\E r \in Runs : Lookup(r)) \/ (\E r \in Runs : Load(r)) \/ (\E r \in Runs : FinishOrphan(r)) \/
       (\E r \in Runs, b \in Branches : EnterEnd(r, b)) \/ (\E r \in Runs, b \in Branches : ExitEnd(r, b)) \/
       (\E r \in Runs, b \in Branches : ErrorEnd(r, b))
    BY <2>5 DEF Save, Return, Finish, Fail, Lookup, Load, FinishOrphan, EnterEnd, ExitEnd, ErrorEnd
  <2> QED
    BY <1>1, <2>1, <2>2, <2>3, <2>4, <2>5 DEF Alone, InstanceStep, RunStep
<1>2. CASE CallerStep
  <2>1. CASE TerminateSubprocess
    BY <2>1, PublishedTyped DEF TerminateSubprocess, TerminateChild, Events
  <2>2. CASE ClientReturns \/ ExecuteHandler \/ Suspended \/ WaitForSubProcessExecution \/ Refused \/
       RunReturns \/ ContinueAfterResume \/ Resolve \/ Reject \/ Close \/ FindCalled \/ FindSubProcess
    BY <2>2 DEF ClientReturns, ExecuteHandler, Suspended, WaitForSubProcessExecution, Refused, RunReturns,
       ContinueAfterResume, Resolve, Reject, Close, FindCalled, FindSubProcess
  <2> QED
    BY <1>2, <2>1, <2>2 DEF CallerStep
<1>3. CASE Deliver
  BY <1>3 DEF Deliver, Queued
<1>4. CASE Answered
  BY <1>4 DEF Answered, Answer
<1>5. CASE Refuse /\ UNCHANGED callerVars
  BY <1>5 DEF Refuse
<1>6. CASE StartAndAwaitEndEvent
  BY <1>6 DEF StartAndAwaitEndEvent
<1>7. CASE Begin
  BY <1>7 DEF Begin
<1>8. CASE Restart
  BY <1>8 DEF Restart, Queued
<1>9. CASE Interrupted
  BY <1>9, PublishedTyped DEF Interrupted, SendTerminationSignalToSubProcess, Events, Queued
<1>10. CASE UNCHANGED vars
  BY <1>10 DEF vars, Queued
<1> QED
  BY <1>1, <1>2, <1>3, <1>4, <1>5, <1>6, <1>7, <1>8, <1>9, <1>10 DEF Next, System

\* Only those that wait hear of a termination or an error.
LEMMA Heard ==
  ASSUME Work, Chains, NEW entry, TasksHear(entry)
  PROVE /\ \A b \in Branches : \/ task'[b] = task[b]
                               \/ task'[b] \in {"error",
                                 "terminated"} /\ \E r \in Runs : pos[r][b] = "waiting"
        /\ \A r \in Runs, b \in Branches : \/ pos'[r][b] = pos[r][b]
                                           \/ pos[r][b] = "waiting" /\ pos'[r][b] \in {"stuck", "failed"}
        /\ \A r \in Runs : how'[r] = how[r] \/ (how[r] = "none" /\ how'[r] \in {"error", "terminated"})
<1>1. ASSUME NEW b \in Branches
      PROVE \/ task'[b] = task[b]
            \/ task'[b] \in {"error", "terminated"} /\ \E r \in Runs : pos[r][b] = "waiting"
  <2>1. task'[b] = IF \E r \in Runs : Hears(entry, r, b)
                   THEN IF entry.event = "errored" THEN "error" ELSE "terminated" ELSE task[b]
    BY DEF TasksHear
  <2> QED
    BY <2>1 DEF Hears
<1>2. ASSUME NEW r \in Runs, NEW b \in Branches
      PROVE \/ pos'[r][b] = pos[r][b]
            \/ pos[r][b] = "waiting" /\ pos'[r][b] \in {"stuck", "failed"}
  <2>1. pos'[r][b] = IF ~Hears(entry, r, b) THEN pos[r][b]
                     ELSE IF entry.event = "terminatedSilently" THEN "stuck" ELSE "failed"
    BY DEF TasksHear
  <2> QED
    BY <2>1 DEF Hears
<1>3. ASSUME NEW r \in Runs PROVE how'[r] = how[r] \/ (how[r] = "none" /\ how'[r] \in {"error", "terminated"})
  BY DEF TasksHear
<1> QED
  BY <1>1, <1>2, <1>3

\* A run that retraces a branch works on a row that exists.
LEMMA FirstRows ==
  ASSUME Work, NEW b \in Branches
  PROVE FirstRow(b) \in Nat /\ FirstRow(b) <= Len(ends[b]) /\ (Resumed(b) = "ending" => FirstRow(b) = 1)
<1>1. CASE ends[b] = <<>>
  BY <1>1 DEF FirstRow, Resumed, Work
<1>2. CASE ends[b] # <<>>
  <2>1. Len(ends[b]) \in Nat /\ Len(ends[b]) > 0
    BY <1>2, EmptySeq DEF Work
  <2> QED
    BY <1>2, <2>1 DEF FirstRow
<1> QED
  BY <1>1, <1>2

\* Nor does a run that retraces the rows work on one that is not there.
LEMMA RetracedOwns ==
  ASSUME Owns, Work, Chains, NEW r \in Runs, Retrace(r), UNCHANGED ends
  PROVE Owns'
<1>1. mine' \in [Runs -> [Branches -> Nat]]
  BY FirstRows DEF Retrace, Owns
<1>2. ASSUME NEW q \in Runs, NEW b \in Branches
      PROVE mine'[q][b] <= Len(ends[b]) /\ (pos'[q][b] \in {"ending", "exiting"} => mine'[q][b] >= 1)
  <2>1. CASE q = r
    <3>1. mine'[q][b] = FirstRow(b) /\ pos'[q][b] = Resumed(b)
      BY <2>1 DEF Retrace, Owns, Chains
    <3>2. Resumed(b) # "exiting"
      BY DEF Resumed
    <3> QED
      BY <3>1, <3>2, FirstRows
  <2>2. CASE q # r
    BY <2>2 DEF Retrace, Owns, Chains
  <2> QED
    BY <2>1, <2>2
<1> QED
  BY <1>1, <1>2 DEF Owns

\* Each run keeps to its own row of an end event, and rows are only appended.
LEMMA Owning == ASSUME Owns, Work, Chains, [Next]_vars PROVE Owns'
<1> USE DEF instanceVars, diagram, dbVars, runVars, callerVars, Owns, Work, Chains
<1>1. CASE Alone
  <2>1. CASE StartEvent
    BY <2>1 DEF StartEvent, EnteredBy
  <2>2. CASE \E r \in Runs : Load(r)
    <3>1. PICK r \in Runs : Load(r)
      BY <2>2
    <3>2. CASE ~IsOrphaned /\ started
      BY <3>1, <3>2, FirstRows, RetracedOwns DEF Load
    <3>3. CASE IsOrphaned
      <4>1. PICK c \in Branches : ends[c] # <<>> /\ mine' = [mine EXCEPT ![r][c] = 1]
        BY <3>1, <3>3 DEF Load
      <4>2. 1 <= Len(ends[c])
        BY <4>1
      <4> QED
        BY <3>1, <3>3, <4>1, <4>2 DEF Load
    <3>4. CASE ~IsOrphaned /\ ~started
      BY <3>1, <3>4 DEF Load, ComesOut
    <3> QED
      BY <3>2, <3>3, <3>4
  <2>3. CASE \E r \in Runs, b \in Branches : EnterEnd(r, b)
    BY <2>3 DEF EnterEnd
  <2>4. CASE \E r \in Runs, b \in Branches : ExitEnd(r, b)
    BY <2>4 DEF ExitEnd
  <2>5. CASE \E r \in Runs, b \in Branches : RegularEnd(r, b)
    BY <2>5 DEF RegularEnd
  <2>6. CASE \E r \in Runs, b \in Branches : ErrorEnd(r, b)
    BY <2>6 DEF ErrorEnd
  <2>7. CASE \E r \in Runs, b \in Branches : TerminateEnd(r, b)
    BY <2>7 DEF TerminateEnd
  <2>8. CASE Save \/ Return \/ (\E r \in Runs : Finish(r)) \/ (\E r \in Runs : Fail(r)) \/
       (\E r \in Runs : Failed(r)) \/ (\E r \in Runs : Lookup(r)) \/ (\E r \in Runs : FinishOrphan(r))
    BY <2>8 DEF Save, Return, Finish, Fail, Failed, Lookup, FinishOrphan
  <2> QED
    BY <1>1, <2>1, <2>2, <2>3, <2>4, <2>5, <2>6, <2>7, <2>8 DEF Alone, InstanceStep, RunStep
<1>2. CASE CallerStep
  <2>1. CASE WaitForSubProcessExecution
    BY <2>1 DEF WaitForSubProcessExecution, EnteredBy
  <2>2. CASE FindSubProcess
    <3>1. CASE started
      BY <2>2, <3>1, RetracedOwns DEF FindSubProcess, WaitForSubProcessResumption, Runs
    <3>2. CASE ~started
      BY <2>2, <3>2 DEF FindSubProcess, GoDown
    <3> QED
      BY <3>1, <3>2
  <2>3. CASE ClientReturns \/ ExecuteHandler \/ Suspended \/ Refused \/ RunReturns \/ ContinueAfterResume \/
       Resolve \/ Reject \/ TerminateSubprocess \/ Close \/ FindCalled
    BY <2>3 DEF ClientReturns, ExecuteHandler, Suspended, Refused, RunReturns, ContinueAfterResume, Resolve,
       Reject, TerminateSubprocess, Close, FindCalled
  <2> QED
    BY <1>2, <2>1, <2>2, <2>3 DEF CallerStep
<1>3. CASE Deliver
  BY <1>3, Heard DEF Deliver
<1>4. CASE Answered
  BY <1>4 DEF Answered, Answer
<1>5. CASE Refuse /\ UNCHANGED callerVars
  BY <1>5 DEF Refuse
<1>6. CASE StartAndAwaitEndEvent
  BY <1>6 DEF StartAndAwaitEndEvent
<1>7. CASE Begin
  BY <1>7 DEF Begin
<1>8. CASE Restart
  BY <1>8 DEF Restart
<1>9. CASE Interrupted
  BY <1>9 DEF Interrupted
<1>10. CASE UNCHANGED vars
  BY <1>10 DEF vars
<1> QED
  BY <1>1, <1>2, <1>3, <1>4, <1>5, <1>6, <1>7, <1>8, <1>9, <1>10 DEF Next, System

\* A branch begins with the start event.
LEMMA Beginning == ASSUME Begun, Values, Work, Chains, Phases, Stations, [Next]_vars PROVE Begun'
<1> USE DEF instanceVars, diagram, dbVars, runVars, callerVars, Begun, Work, Chains, Present
<1>1. CASE Alone
  <2>1. CASE StartEvent
    BY <2>1 DEF StartEvent, EnteredBy, Entered
  <2>2. CASE \E r \in Runs : Load(r)
    <3>1. PICK r \in Runs : Load(r)
      BY <2>2
    <3>2. CASE ~IsOrphaned /\ started
      BY <3>1, <3>2 DEF Load, Retrace
    <3>3. CASE IsOrphaned \/ ~started
      BY <3>1, <3>3 DEF Load, ComesOut
    <3> QED
      BY <3>2, <3>3
  <2>3. CASE \E r \in Runs, b \in Branches : EnterEnd(r, b)
    BY <2>3 DEF EnterEnd
  <2>4. CASE \E r \in Runs, b \in Branches : ExitEnd(r, b)
    BY <2>4 DEF ExitEnd
  <2>5. CASE \E r \in Runs, b \in Branches : RegularEnd(r, b)
    BY <2>5 DEF RegularEnd
  <2>6. CASE \E r \in Runs, b \in Branches : ErrorEnd(r, b)
    BY <2>6 DEF ErrorEnd
  <2>7. CASE \E r \in Runs, b \in Branches : TerminateEnd(r, b)
    BY <2>7 DEF TerminateEnd
  <2>8. CASE Save \/ Return \/ (\E r \in Runs : Finish(r)) \/ (\E r \in Runs : Fail(r)) \/
       (\E r \in Runs : Failed(r)) \/ (\E r \in Runs : Lookup(r)) \/ (\E r \in Runs : FinishOrphan(r))
    BY <2>8 DEF Save, Return, Finish, Fail, Failed, Lookup, FinishOrphan
  <2> QED
    BY <1>1, <2>1, <2>2, <2>3, <2>4, <2>5, <2>6, <2>7, <2>8 DEF Alone, InstanceStep, RunStep
<1>2. CASE CallerStep
  <2>1. CASE WaitForSubProcessExecution
    BY <2>1 DEF WaitForSubProcessExecution, EnteredBy, Entered
  <2>2. CASE FindSubProcess
    <3>1. CASE started
      BY <2>2, <3>1 DEF FindSubProcess, WaitForSubProcessResumption, Retrace
    <3>2. CASE ~started
      BY <2>2, <3>2 DEF FindSubProcess, GoDown
    <3> QED
      BY <3>1, <3>2
  <2>3. CASE ClientReturns \/ ExecuteHandler \/ Suspended \/ Refused \/ RunReturns \/ ContinueAfterResume \/
       Resolve \/ Reject \/ TerminateSubprocess \/ Close \/ FindCalled
    BY <2>3 DEF ClientReturns, ExecuteHandler, Suspended, Refused, RunReturns, ContinueAfterResume, Resolve,
       Reject, TerminateSubprocess, Close, FindCalled
  <2> QED
    BY <1>2, <2>1, <2>2, <2>3 DEF CallerStep
<1>3. CASE Deliver
  <2>1. \A r \in Runs, b \in Branches : pos'[r][b] # "idle" => pos[r][b] # "idle"
    BY <1>3, Heard DEF Deliver
  <2>2. \A b \in Branches : task[b] # "absent" => task'[b] # "absent"
    BY <1>3, Heard DEF Deliver
  <2> QED
    BY <1>3, <2>1, <2>2 DEF Deliver
<1>4. CASE Answered
  BY <1>4 DEF Answered, Answer
<1>5. CASE Refuse /\ UNCHANGED callerVars
  BY <1>5 DEF Refuse
<1>6. CASE StartAndAwaitEndEvent
  BY <1>6 DEF StartAndAwaitEndEvent
<1>7. CASE Begin
  BY <1>7 DEF Begin
<1>8. CASE Restart
  BY <1>8 DEF Restart
<1>9. CASE Interrupted
  BY <1>9 DEF Interrupted
<1>10. CASE UNCHANGED vars
  BY <1>10 DEF vars
<1> QED
  BY <1>1, <1>2, <1>3, <1>4, <1>5, <1>6, <1>7, <1>8, <1>9, <1>10 DEF Next, System

\* The places of the runs.
LEMMA Phasing == ASSUME Phases, Values, Callers, Work, Begun, Chains, Stations, [Next]_vars PROVE Phases'
<1> USE DEF instanceVars, diagram, dbVars, runVars, callerVars, Phases, Stations, Values, Runs
<1>1. CASE Alone
  <2>1. CASE Save
    BY <2>1 DEF Save
  <2>2. CASE StartEvent
    BY <2>2 DEF StartEvent
  <2>3. CASE Return
    BY <2>3 DEF Return
  <2>4. CASE \E r \in Runs : Finish(r)
    BY <2>4 DEF Finish
  <2>5. CASE \E r \in Runs : Fail(r)
    BY <2>5 DEF Fail
  <2>6. CASE \E r \in Runs : Failed(r)
    BY <2>6 DEF Failed
  <2>7. CASE \E r \in Runs : Lookup(r)
    BY <2>7 DEF Lookup, ComesOut
  <2>8. CASE \E r \in Runs : Load(r)
    <3>1. PICK r \in Runs : Load(r)
      BY <2>8
    <3>2. CASE ~IsOrphaned /\ started
      BY <3>1, <3>2 DEF Load, Retrace
    <3>3. CASE IsOrphaned \/ ~started
      BY <3>1, <3>3 DEF Load, ComesOut
    <3> QED
      BY <3>2, <3>3
  <2>9. CASE \E r \in Runs : FinishOrphan(r)
    BY <2>9 DEF FinishOrphan, ComesOut, OrphanState
  <2>10. CASE \E r \in Runs, b \in Branches : ExitEnd(r, b)
    BY <2>10 DEF ExitEnd, ComesOut, Chains
  <2>11. CASE \E r \in Runs, b \in Branches : ErrorEnd(r, b)
    BY <2>11 DEF ErrorEnd, ComesOut, Chains
  <2>12. CASE \E r \in Runs, b \in Branches : TerminateEnd(r, b)
    BY <2>12 DEF TerminateEnd, ComesOut, Chains
  <2>13. CASE (\E r \in Runs, b \in Branches : EnterEnd(r, b)) \/ (\E r \in Runs,
       b \in Branches : RegularEnd(r, b))
    BY <2>13 DEF EnterEnd, RegularEnd
  <2> QED
    BY <1>1, <2>1, <2>2, <2>3, <2>4, <2>5, <2>6, <2>7, <2>8, <2>9, <2>10, <2>11, <2>12, <2>13 DEF Alone,
       InstanceStep, RunStep
<1>2. CASE CallerStep
  <2>1. CASE Suspended
    BY <2>1 DEF Suspended, ExecuteSubprocess
  <2>2. CASE WaitForSubProcessExecution
    BY <2>2 DEF WaitForSubProcessExecution
  <2>3. CASE FindCalled
    BY <2>3 DEF FindCalled, ExecuteSubprocess
  <2>4. CASE FindSubProcess
    <3>1. CASE started
      BY <2>4, <3>1, RetracedChains DEF FindSubProcess, WaitForSubProcessResumption, Retrace
    <3>2. CASE ~started
      BY <2>4, <3>2 DEF FindSubProcess, GoDown
    <3> QED
      BY <3>1, <3>2
  <2>5. CASE ClientReturns \/ ExecuteHandler \/ Refused \/ RunReturns \/ ContinueAfterResume \/ Resolve \/
       Reject \/ TerminateSubprocess \/ Close
    BY <2>5 DEF ClientReturns, ExecuteHandler, Refused, RunReturns, ContinueAfterResume, Resolve, Reject,
       TerminateSubprocess, Close
  <2> QED
    BY <1>2, <2>1, <2>2, <2>3, <2>4, <2>5 DEF CallerStep
<1>3. CASE Deliver
  <2>1. how'[1] = how[1] \/ how'[1] \in {"error", "terminated"}
    BY <1>3, Heard DEF Deliver
  <2> QED
    BY <1>3, <2>1 DEF Deliver
<1>4. CASE Answered
  BY <1>4 DEF Answered, Answer
<1>5. CASE Refuse /\ UNCHANGED callerVars
  BY <1>5 DEF Refuse, ComesOut
<1>6. CASE StartAndAwaitEndEvent
  BY <1>6 DEF StartAndAwaitEndEvent
<1>7. CASE Begin
  BY <1>7 DEF Begin
<1>8. CASE Restart
  BY <1>8 DEF Restart
<1>9. CASE Interrupted
  BY <1>9 DEF Interrupted
<1>10. CASE UNCHANGED vars
  BY <1>10 DEF vars
<1> QED
  BY <1>1, <1>2, <1>3, <1>4, <1>5, <1>6, <1>7, <1>8, <1>9, <1>10 DEF Next, System

\* The places of the caller.
LEMMA Stationing == ASSUME Stations, Values, Callers, Phases, [Next]_vars PROVE Stations'
<1> USE CallerAssumption DEF instanceVars, diagram, dbVars, runVars, callerVars, Stations, Values, Callers,
    Phases, Runs
<1>1. CASE Alone
  <2>1. CASE Save
    BY <1>1, <2>1 DEF Alone, Save
  <2>2. CASE StartEvent
    BY <1>1, <2>2 DEF Alone, StartEvent
  <2>3. CASE Return
    BY <1>1, <2>3 DEF Alone, Return
  <2>4. CASE \E r \in Runs : Finish(r)
    BY <1>1, <2>4 DEF Alone, Finish
  <2>5. CASE \E r \in Runs : Fail(r)
    BY <1>1, <2>5 DEF Alone, Fail
  <2>6. CASE \E r \in Runs : Failed(r)
    BY <1>1, <2>6 DEF Alone, Failed
  <2>7. CASE \E r \in Runs : Lookup(r)
    BY <1>1, <2>7 DEF Alone, Lookup
  <2>8. CASE \E r \in Runs : Load(r)
    <3>1. PICK r \in Runs : Load(r)
      BY <2>8
    <3>2. at' \in [Runs -> RunPlaces] /\ (at'[1] = "off" <=> at[1] = "off") /\ at'[1] \notin {"starting",
      "saving"}
      BY <3>1 DEF Load, Retrace, RunPlaces
    <3>3. listens' = listens \/ (kind = "callActivity" /\ proc # "absent")
      BY <3>1 DEF Load
    <3> QED
      BY <1>1, <3>1, <3>2, <3>3 DEF Load, Alone
  <2>9. CASE \E r \in Runs : FinishOrphan(r)
    BY <1>1, <2>9 DEF Alone, FinishOrphan, OrphanState
  <2>10. CASE (\E r \in Runs, b \in Branches : EnterEnd(r, b)) \/ (\E r \in Runs, b \in Branches : ExitEnd(r,
       b)) \/ (\E r \in Runs, b \in Branches : RegularEnd(r, b)) \/ (\E r \in Runs,
       b \in Branches : ErrorEnd(r, b)) \/ (\E r \in Runs, b \in Branches : TerminateEnd(r, b))
    BY <1>1, <2>10 DEF Alone, EnterEnd, ExitEnd, RegularEnd, ErrorEnd, TerminateEnd
  <2> QED
    BY <1>1, <2>1, <2>2, <2>3, <2>4, <2>5, <2>6, <2>7, <2>8, <2>9, <2>10 DEF Alone, InstanceStep, RunStep
<1>2. CASE CallerStep
  <2>1. CASE ClientReturns
    BY <2>1 DEF ClientReturns, Settle
  <2>2. CASE ExecuteHandler
    BY <2>2 DEF ExecuteHandler
  <2>3. CASE Suspended
    BY <2>3 DEF Suspended, ExecuteSubprocess
  <2>4. CASE WaitForSubProcessExecution
    BY <2>4 DEF WaitForSubProcessExecution
  <2>5. CASE Refused
    BY <2>5 DEF Refused, GoDown
  <2>6. CASE RunReturns
    BY <2>6 DEF RunReturns, GoOn, GoDown, GoDownTerminated
  <2>7. CASE ContinueAfterResume
    BY <2>7 DEF ContinueAfterResume
  <2>8. CASE Resolve
    BY <2>8 DEF Resolve, Settle
  <2>9. CASE Reject
    BY <2>9 DEF Reject, Settle
  <2>10. CASE TerminateSubprocess
    BY <2>10 DEF TerminateSubprocess
  <2>11. CASE Close
    BY <2>11 DEF Close, Settle
  <2>12. CASE FindCalled
    BY <2>12 DEF FindCalled, ExecuteSubprocess
  <2>13. CASE FindSubProcess
    <3>1. CASE started
      BY <2>13, <3>1 DEF FindSubProcess, WaitForSubProcessResumption, Retrace
    <3>2. CASE ~started
      BY <2>13, <3>2 DEF FindSubProcess, GoDown
    <3> QED
      BY <3>1, <3>2
  <2> QED
    BY <1>2, <2>1, <2>2, <2>3, <2>4, <2>5, <2>6, <2>7, <2>8, <2>9, <2>10, <2>11, <2>12, <2>13 DEF CallerStep
<1>3. CASE Deliver
  BY <1>3 DEF Deliver, CallerHears, StartIsHeard, ClientHears, HandlerHears, GoOn, GoDown, Topic
<1>4. CASE Answered
  BY <1>4 DEF Answered, Answer
<1>5. CASE Refuse /\ UNCHANGED callerVars
  BY <1>5 DEF Refuse
<1>6. CASE StartAndAwaitEndEvent
  BY <1>6 DEF StartAndAwaitEndEvent
<1>7. CASE Begin
  BY <1>7 DEF Begin
<1>8. CASE Restart
  <2>1. CASE kind = "client"
    BY <1>8, <2>1 DEF Restart
  <2>2. CASE kind # "client"
    <3>1. place' = "idle" => row = "absent" /\ place = "idle"
      BY <1>8, <2>2 DEF Restart, Rows
    <3>2. place' = "entering" => row = "running" /\ place = "entering"
      BY <1>8, <2>2 DEF Restart, Rows
    <3>3. place' # "suspending"
      BY <1>8, <2>2 DEF Restart
    <3> QED
      BY <1>8, <2>2, <3>1, <3>2, <3>3 DEF Restart
  <2> QED
    BY <2>1, <2>2
<1>9. CASE Interrupted
  BY <1>9 DEF Interrupted
<1>10. CASE UNCHANGED vars
  BY <1>10 DEF vars
<1> QED
  BY <1>1, <1>2, <1>3, <1>4, <1>5, <1>6, <1>7, <1>8, <1>9, <1>10 DEF Next, System

\* A branch that is resumed behind its end event has a row for it.
LEMMA ResumedBehind ==
  ASSUME Work, NEW b \in Present
  PROVE /\ Resumed(b) \in {"ending", "done"} => ends[b] # <<>>
        /\ Resumed(b) = "done" => HasFinished(b)
        /\ Resumed(b) # "exiting"
<1>1. b \in Branches
  BY DEF Present
<1>2. CASE ends[b] = <<>>
  BY <1>2 DEF Resumed
<1>3. CASE ends[b] # <<>>
  <2>1. 1 \in DOMAIN ends[b]
    BY <1>1, <1>3, EmptySeq DEF Work
  <2> QED
    BY <1>3, <2>1 DEF Resumed, HasFinished
<1> QED
  BY <1>2, <1>3

\* No present branch is left open by an orphan.
LEMMA OrphansAreClosed ==
  ASSUME IsOrphaned, Work, Begun, boot > 0
  PROVE \A b \in Present : Closed(b)
<1>1. started
  BY DEF IsOrphaned, HasReachedAnEndEvent, Begun
<1>2. ASSUME NEW b \in Present PROVE Closed(b)
  <2>1. b \in Branches /\ task[b] \notin {"suspended", "absent"}
    BY <1>1, <1>2 DEF Present, Begun, IsOrphaned, HasActiveFlowNodeInstances
  <2>2. task[b] \in {"finished", "terminated", "error"}
    BY <2>1 DEF Work, RowsOfTasks, Rows
  <2> QED
    BY <2>2 DEF Closed
<1> QED
  BY <1>2

\* Where a run stands after it has retraced the rows.
LEMMA RetracedPos ==
  ASSUME Chains, NEW r \in Runs, Retrace(r), NEW q \in Runs, NEW b \in Branches
  PROVE pos'[q][b] = IF q = r THEN Resumed(b) ELSE pos[q][b]
  BY DEF Retrace, Chains

\* A run that retraces the rows is through only where an end event has one.
LEMMA RetracedEnds ==
  ASSUME Chains, Work, EndsEntered, NEW r \in Runs, Retrace(r), UNCHANGED <<ends, endType>>
  PROVE EndsEntered'
<1>1. ASSUME NEW q \in Runs, NEW b \in Present, pos'[q][b] \in {"ending", "exiting", "done"}
      PROVE ends[b] # <<>>
  <2>1. b \in Branches
    BY DEF Present
  <2>2. CASE q = r
    BY <1>1, <2>1, <2>2, RetracedPos, ResumedBehind
  <2>3. CASE q # r
    BY <1>1, <2>1, <2>3, RetracedPos DEF EndsEntered
  <2> QED
    BY <2>2, <2>3
<1>2. ASSUME NEW q \in Runs, NEW b \in Branches \ Present PROVE pos'[q][b] \in {"idle", "done"}
  BY RetracedPos DEF EndsEntered, Resumed
<1> QED
  BY <1>1, <1>2 DEF EndsEntered, Present

\* Who is through has a row of an end event.
LEMMA Entering == ASSUME EndsEntered, Work, Owns, Chains, [Next]_vars PROVE EndsEntered'
<1> USE DEF instanceVars, diagram, dbVars, runVars, callerVars, EndsEntered, Present, Work, Owns, Chains
<1>1. CASE Alone
  <2>1. CASE StartEvent
    BY <2>1 DEF StartEvent, EnteredBy
  <2>2. CASE \E r \in Runs : Load(r)
    <3>1. PICK r \in Runs : Load(r)
      BY <2>2
    <3>2. CASE ~IsOrphaned /\ started
      BY <3>1, <3>2, RetracedEnds DEF Load
    <3>3. CASE IsOrphaned \/ ~started
      BY <3>1, <3>3 DEF Load, ComesOut
    <3> QED
      BY <3>2, <3>3
  <2>3. CASE \E r \in Runs, b \in Branches : EnterEnd(r, b)
    <3>1. PICK r \in Runs, c \in Branches : EnterEnd(r, c)
      BY <2>3
    <3>2. ends'[c] # <<>> /\ (c \in Present)
      BY <3>1 DEF EnterEnd
    <3>3. \A b \in Branches \ {c} : ends'[b] = ends[b]
      BY <3>1 DEF EnterEnd
    <3>4. \A q \in Runs : \A b \in Branches \ {c} : pos'[q][b] = pos[q][b]
      BY <3>1 DEF EnterEnd
    <3> QED
      BY <3>1, <3>2, <3>3, <3>4 DEF EnterEnd
  <2>4. CASE \E r \in Runs, b \in Branches : ExitEnd(r, b)
    BY <2>4 DEF ExitEnd
  <2>5. CASE \E r \in Runs, b \in Branches : RegularEnd(r, b)
    BY <2>5 DEF RegularEnd
  <2>6. CASE \E r \in Runs, b \in Branches : ErrorEnd(r, b)
    BY <2>6 DEF ErrorEnd
  <2>7. CASE \E r \in Runs, b \in Branches : TerminateEnd(r, b)
    BY <2>7 DEF TerminateEnd
  <2>8. CASE Save \/ Return \/ (\E r \in Runs : Finish(r)) \/ (\E r \in Runs : Fail(r)) \/
       (\E r \in Runs : Failed(r)) \/ (\E r \in Runs : Lookup(r)) \/ (\E r \in Runs : FinishOrphan(r))
    BY <2>8 DEF Save, Return, Finish, Fail, Failed, Lookup, FinishOrphan
  <2> QED
    BY <1>1, <2>1, <2>2, <2>3, <2>4, <2>5, <2>6, <2>7, <2>8 DEF Alone, InstanceStep, RunStep
<1>2. CASE CallerStep
  <2>1. CASE WaitForSubProcessExecution
    BY <2>1 DEF WaitForSubProcessExecution, EnteredBy
  <2>2. CASE FindSubProcess
    <3>1. CASE started
      BY <2>2, <3>1, RetracedEnds DEF FindSubProcess, WaitForSubProcessResumption, Runs
    <3>2. CASE ~started
      BY <2>2, <3>2 DEF FindSubProcess, GoDown
    <3> QED
      BY <3>1, <3>2
  <2>3. CASE ClientReturns \/ ExecuteHandler \/ Suspended \/ Refused \/ RunReturns \/ ContinueAfterResume \/
       Resolve \/ Reject \/ TerminateSubprocess \/ Close \/ FindCalled
    BY <2>3 DEF ClientReturns, ExecuteHandler, Suspended, Refused, RunReturns, ContinueAfterResume, Resolve,
       Reject, TerminateSubprocess, Close, FindCalled
  <2> QED
    BY <1>2, <2>1, <2>2, <2>3 DEF CallerStep
<1>3. CASE Deliver
  <2>1. \A r \in Runs, b \in Branches : pos'[r][b] = pos[r][b] \/
       (pos[r][b] = "waiting" /\ pos'[r][b] \in {"stuck", "failed"})
    BY <1>3, Heard DEF Deliver
  <2>2. UNCHANGED <<ends, endType>>
    BY <1>3 DEF Deliver
  <2>3. Present \subseteq Branches
    OBVIOUS
  <2> HIDE DEF Present, Work, Owns, Chains
  <2>4. Present' = Present
    BY <2>2 DEF Present
  <2>5. \A r \in Runs : \A b \in Present : pos'[r][b] \in {"ending", "exiting", "done"} => ends'[b] # <<>>
    BY <2>1, <2>2, <2>3
  <2>6. \A r \in Runs : \A b \in Branches \ Present : pos'[r][b] \in {"idle", "done"}
    BY <2>1
  <2> QED
    BY <2>4, <2>5, <2>6
<1>4. CASE Answered
  BY <1>4 DEF Answered, Answer
<1>5. CASE Refuse /\ UNCHANGED callerVars
  BY <1>5 DEF Refuse
<1>6. CASE StartAndAwaitEndEvent
  BY <1>6 DEF StartAndAwaitEndEvent
<1>7. CASE Begin
  BY <1>7 DEF Begin
<1>8. CASE Restart
  BY <1>8 DEF Restart
<1>9. CASE Interrupted
  BY <1>9 DEF Interrupted
<1>10. CASE UNCHANGED vars
  BY <1>10 DEF vars
<1> QED
  BY <1>1, <1>2, <1>3, <1>4, <1>5, <1>6, <1>7, <1>8, <1>9, <1>10 DEF Next, System

\* An orphan has an end event in every branch, or nobody who would go on.
LEMMA Orphaning ==
  ASSUME OrphansEnded, Values, Work, Owns, Begun, Chains, Phases, Stations, EndsEntered, [Next]_vars
  PROVE OrphansEnded'
<1> USE DEF instanceVars, diagram, dbVars, runVars, callerVars, OrphansEnded, Closed, Present, Values
<1>1. CASE Alone
  <2>1. CASE Save
    BY <2>1 DEF Save
  <2>2. CASE StartEvent
    BY <2>2 DEF StartEvent, Phases, Runs
  <2>3. CASE Return
    BY <2>3 DEF Return
  <2>4. CASE \E r \in Runs : Finish(r)
    <3>1. \A b \in Present : ends[b] # <<>>
      BY <2>4 DEF Finish, AllDone, EndsEntered
    <3> QED
      BY <2>4, <3>1 DEF Finish
  <2>5. CASE \E r \in Runs : Fail(r)
    BY <2>5 DEF Fail
  <2>6. CASE \E r \in Runs : Failed(r)
    BY <2>6 DEF Failed
  <2>7. CASE \E r \in Runs : Lookup(r)
    BY <2>7 DEF Lookup
  <2>8. CASE \E r \in Runs : Load(r)
    <3>1. PICK r \in Runs : Load(r)
      BY <2>8
    <3>2. CASE ~IsOrphaned /\ started
      BY <3>1, <3>2 DEF Load, Retrace
    <3>3. CASE IsOrphaned
      <4>1. \A b \in Present : Closed(b)
        BY <3>1, <3>3, OrphansAreClosed DEF Load, Phases
      <4> QED
        BY <3>1, <3>3, <4>1 DEF Load
    <3>4. CASE ~IsOrphaned /\ ~started
      BY <3>1, <3>4 DEF Load
    <3> QED
      BY <3>2, <3>3, <3>4
  <2>9. CASE \E r \in Runs : FinishOrphan(r)
    BY <2>9 DEF FinishOrphan
  <2>10. CASE \E r \in Runs, b \in Branches : EnterEnd(r, b)
    <3>1. PICK r \in Runs, c \in Branches : EnterEnd(r, c)
      BY <2>10
    <3>2. \A b \in Branches : ends[b] # <<>> => ends'[b] # <<>>
      BY <3>1 DEF EnterEnd, Work
    <3> QED
      BY <3>1, <3>2 DEF EnterEnd
  <2>11. CASE \E r \in Runs, b \in Branches : ExitEnd(r, b)
    BY <2>11 DEF ExitEnd, Work, Owns
  <2>12. CASE \E r \in Runs, b \in Branches : RegularEnd(r, b)
    BY <2>12 DEF RegularEnd
  <2>13. CASE \E r \in Runs, b \in Branches : ErrorEnd(r, b)
    BY <2>13 DEF ErrorEnd
  <2>14. CASE \E r \in Runs, b \in Branches : TerminateEnd(r, b)
    BY <2>14 DEF TerminateEnd
  <2> QED
    BY <1>1, <2>1, <2>2, <2>3, <2>4, <2>5, <2>6, <2>7, <2>8, <2>9, <2>10, <2>11, <2>12, <2>13, <2>14
       DEF Alone, InstanceStep, RunStep
<1>2. CASE CallerStep
  <2>1. CASE Suspended
    BY <2>1 DEF Suspended, ExecuteSubprocess
  <2>2. CASE WaitForSubProcessExecution
    BY <2>2 DEF WaitForSubProcessExecution, Phases, Runs
  <2>3. CASE FindCalled
    BY <2>3 DEF FindCalled, ExecuteSubprocess
  <2>4. CASE FindSubProcess
    <3>1. CASE started
      BY <2>4, <3>1 DEF FindSubProcess, WaitForSubProcessResumption, Retrace
    <3>2. CASE ~started
      BY <2>4, <3>2 DEF FindSubProcess, GoDown
    <3> QED
      BY <3>1, <3>2
  <2>5. CASE ClientReturns \/ ExecuteHandler \/ Refused \/ RunReturns \/ ContinueAfterResume \/ Resolve \/
       Reject \/ TerminateSubprocess \/ Close
    BY <2>5 DEF ClientReturns, ExecuteHandler, Refused, RunReturns, ContinueAfterResume, Resolve, Reject,
       TerminateSubprocess, Close
  <2> QED
    BY <1>2, <2>1, <2>2, <2>3, <2>4, <2>5 DEF CallerStep
<1>3. CASE Deliver
  <2>1. \A b \in Branches : task'[b] = task[b] \/ task'[b] \in {"error", "terminated"}
    BY <1>3, Heard DEF Deliver
  <2> QED
    BY <1>3, <2>1 DEF Deliver
<1>4. CASE Answered
  BY <1>4 DEF Answered, Answer
<1>5. CASE Refuse /\ UNCHANGED callerVars
  BY <1>5 DEF Refuse
<1>6. CASE StartAndAwaitEndEvent
  BY <1>6 DEF StartAndAwaitEndEvent
<1>7. CASE Begin
  BY <1>7 DEF Begin
<1>8. CASE Restart
  BY <1>8 DEF Restart
<1>9. CASE Interrupted
  BY <1>9 DEF Interrupted
<1>10. CASE UNCHANGED vars
  BY <1>10 DEF vars
<1> QED
  BY <1>1, <1>2, <1>3, <1>4, <1>5, <1>6, <1>7, <1>8, <1>9, <1>10 DEF Next, System

\* The case fixes the caller and the types of the end events.
LEMMA DiagramTyped == ASSUME Values PROVE kind \in Kinds /\ endType \in [Branches -> EndTypes \cup {NoBranch}]
  BY InstanceAssumption DEF Values, diagram

\* Only a run that enters or leaves an end event writes its row.
LEMMA EndsChange ==
  ASSUME [Next]_vars
  PROVE UNCHANGED ends \/ (\E r \in Runs, c \in Branches : EnterEnd(r, c) \/ ExitEnd(r, c))
<1> USE DEF instanceVars, dbVars, vars
<1>1. CASE Alone
  BY <1>1 DEF Alone, InstanceStep, RunStep, Save, StartEvent, Return, Finish, Fail, Failed, Lookup, Load,
     FinishOrphan,
              RegularEnd, ErrorEnd, TerminateEnd
<1>2. CASE CallerStep
  BY <1>2 DEF CallerStep, ClientReturns, ExecuteHandler, Suspended, WaitForSubProcessExecution, Refused,
     RunReturns,
              ContinueAfterResume, Resolve, Reject, TerminateSubprocess, Close, FindCalled, FindSubProcess
<1>3. CASE ~Alone /\ ~CallerStep
  BY <1>3 DEF Next, System, Deliver, Answered, Answer, Refuse, StartAndAwaitEndEvent, Begin, Restart,
     Interrupted
<1> QED
  BY <1>1, <1>2, <1>3

\* A row that is finished is never made anything else: only the runs of its branch
\* write it, and they agree.
LEMMA FinishedStays ==
  ASSUME FinishedTypes, EndsEntered, Values, Work, Owns, Chains, [Next]_vars
  PROVE \A b \in Branches : /\ HasFinished(b) => HasFinished(b)'
                            /\ HasFinished(b)' => endType[b] \in {"regular", "error"}
<1>1. ASSUME UNCHANGED ends, NEW b \in Branches
      PROVE (HasFinished(b) => HasFinished(b)') /\ (HasFinished(b)' => endType[b] \in {"regular", "error"})
  BY <1>1 DEF FinishedTypes, HasFinished
<1>2. ASSUME NEW r \in Runs, NEW c \in Branches, EnterEnd(r, c), NEW b \in Branches
      PROVE (HasFinished(b) => HasFinished(b)') /\ (HasFinished(b)' => endType[b] \in {"regular", "error"})
  <2>1. CASE b # c
    BY <1>2, <2>1 DEF EnterEnd, FinishedTypes, HasFinished
  <2>2. CASE b = c
    <3>1. ends'[c] = Append(ends[c], "running") /\ ends[c] \in Seq(RowsOfEnds)
      BY <1>2 DEF EnterEnd, Work
    <3>2. DOMAIN ends'[c] = DOMAIN ends[c] \cup {Len(ends[c]) + 1}
      BY <3>1
    <3>3. \A i \in DOMAIN ends[c] : ends'[c][i] = ends[c][i]
      BY <3>1
    <3>4. ends'[c][Len(ends[c]) + 1] = "running"
      BY <3>1
    <3> QED
      BY <2>2, <3>2, <3>3, <3>4 DEF FinishedTypes, HasFinished
  <2> QED
    BY <2>1, <2>2
<1>3. ASSUME NEW r \in Runs, NEW c \in Branches, ExitEnd(r, c), NEW b \in Branches
      PROVE (HasFinished(b) => HasFinished(b)') /\ (HasFinished(b)' => endType[b] \in {"regular", "error"})
  <2>1. CASE b # c
    BY <1>3, <2>1 DEF ExitEnd, FinishedTypes, HasFinished
  <2>2. CASE b = c
    <3> DEFINE left == CASE endType[c] = "invalid" -> "error"
                         [] endType[c] = "terminate" -> "terminated"
                         [] OTHER -> "finished"
    <3>1. ends'[c] = [ends[c] EXCEPT ![mine[r][c]] = left]
      BY <1>3 DEF ExitEnd, Work
    <3>2. left = "finished" <=> endType[c] \in {"regular", "error"}
      <4>1. endType[c] \in EndTypes
        BY <1>3, DiagramTyped DEF ExitEnd, EndsEntered, Present
      <4> QED
        BY <4>1 DEF EndTypes
    <3> HIDE DEF left
    <3> QED
      BY <2>2, <3>1, <3>2 DEF FinishedTypes, HasFinished
  <2> QED
    BY <2>1, <2>2
<1> QED
  BY <1>1, <1>2, <1>3, EndsChange

\* What every step leaves: the diagram, and that an end event was reached.
Kept ==
  /\ UNCHANGED diagram /\ (boot' = 0 => boot = 0)
  /\ \A b \in Branches : HasFinished(b) => HasFinished(b)'

\* The diagram, the rows that are finished, and the boots that have been.
LEMMA Keeps ==
  ASSUME FinishedTypes, EndsEntered, Values, Work, Owns, Chains, [Next]_vars
  PROVE Kept /\ FinishedTypes'
<1>1. UNCHANGED diagram /\ (boot' = 0 => boot = 0)
  <2> USE DEF instanceVars, vars
  <2>1. CASE Alone
    BY <2>1 DEF Alone, InstanceStep, RunStep, Save, StartEvent, Return, Finish, Fail, Failed, Lookup, Load,
       FinishOrphan,
                EnterEnd, ExitEnd, RegularEnd, ErrorEnd, TerminateEnd
  <2>2. CASE CallerStep
    BY <2>2 DEF CallerStep, ClientReturns, ExecuteHandler, Suspended, WaitForSubProcessExecution, Refused,
       RunReturns,
                ContinueAfterResume, Resolve, Reject, TerminateSubprocess, Close, FindCalled, FindSubProcess
  <2>3. CASE Restart
    BY <2>3 DEF Restart, Values
  <2>4. CASE ~Alone /\ ~CallerStep /\ ~Restart
    BY <2>4 DEF Next, System, Deliver, Answered, Answer, Refuse, StartAndAwaitEndEvent, Begin, Interrupted
  <2> QED
    BY <2>1, <2>2, <2>3, <2>4
<1> QED
  BY <1>1, FinishedStays DEF Kept, FinishedTypes, diagram

\* An end event that was reached stays reached.
LEMMA ReachedStays == ASSUME Kept, Reached PROVE Reached'
  BY DEF Kept, Reached, diagram

\* A run that retraces the rows is through only where an end was reached.
LEMMA RetracedDone ==
  ASSUME Chains, Work, DoneReached, NEW r \in Runs, Retrace(r), UNCHANGED <<ends, endType, boot>>, boot > 0,
         boot \in Nat
  PROVE DoneReached'
<1>1. ASSUME NEW q \in Runs, NEW b \in Branches, pos'[q][b] = "exiting",
    endType[b] = "regular" PROVE HasFinished(b)
  <2>1. pos'[q][b] = pos[q][b] \/ (pos'[q][b] = Resumed(b) /\ Resumed(b) # "exiting")
    BY RetracedPos DEF Resumed
  <2> QED
    BY <1>1, <2>1 DEF DoneReached
<1>2. ASSUME NEW q \in Runs, NEW b \in Present, pos'[q][b] = "done" PROVE HasFinished(b)
  <2>1. b \in Branches
    BY DEF Present
  <2>2. pos'[q][b] = pos[q][b] \/ pos'[q][b] = Resumed(b)
    BY <2>1, RetracedPos
  <2> QED
    BY <1>2, <2>1, <2>2, ResumedBehind DEF DoneReached
<1> QED
  BY <1>1, <1>2 DEF DoneReached, HasFinished, Present

\* A regular end event persists its end.
LEMMA ExitFinishes ==
  ASSUME Values, Work, Owns, Chains, NEW r \in Runs, NEW b \in Branches, ExitEnd(r, b), endType[b] = "regular"
  PROVE HasFinished(b)'
<1>1. mine[r][b] \in DOMAIN ends[b]
  BY DEF ExitEnd, Owns, Work
<1>2. ends'[b] = [ends[b] EXCEPT ![mine[r][b]] = "finished"]
  BY DEF ExitEnd, Work
<1>3. mine[r][b] \in DOMAIN ends'[b] /\ ends'[b][mine[r][b]] = "finished"
  BY <1>1, <1>2
<1> QED
  BY <1>3 DEF HasFinished

\* A run that has left an end event behind has reached it.
LEMMA Doing ==
  ASSUME DoneReached, Kept, Values, Work, Owns, Chains, Phases, Stations, [Next]_vars
  PROVE DoneReached'
<1> USE DEF instanceVars, diagram, dbVars, runVars, callerVars, DoneReached, Kept, Chains, Present
<1>1. CASE Alone
  <2>1. CASE StartEvent
    BY <2>1 DEF StartEvent, EnteredBy
  <2>2. CASE \E r \in Runs : Load(r)
    <3>1. PICK r \in Runs : Load(r)
      BY <2>2
    <3>2. boot > 0 /\ boot \in Nat
      BY <3>1 DEF Load, Phases, Values
    <3>3. CASE ~IsOrphaned /\ started
      BY <3>1, <3>2, <3>3, RetracedDone DEF Load
    <3>4. CASE IsOrphaned \/ ~started
      BY <3>1, <3>4 DEF Load
    <3> QED
      BY <3>3, <3>4
  <2>3. CASE \E r \in Runs, b \in Branches : EnterEnd(r, b)
    BY <2>3 DEF EnterEnd
  <2>4. CASE \E r \in Runs, b \in Branches : ExitEnd(r, b)
    <3>1. PICK r \in Runs, c \in Branches : ExitEnd(r, c)
      BY <2>4
    <3>2. endType[c] = "regular" => HasFinished(c)'
      BY <3>1, ExitFinishes
    <3>3. \A q \in Runs, b \in Branches :
            pos'[q][b] = pos[q][b] \/ (b = c /\ pos'[q][b] \in {"exiting", "failed"})
      BY <3>1 DEF ExitEnd
    <3> HIDE DEF Chains
    <3> QED
      BY <3>1, <3>2, <3>3
  <2>5. CASE \E r \in Runs, b \in Branches : RegularEnd(r, b)
    BY <2>5 DEF RegularEnd
  <2>6. CASE \E r \in Runs, b \in Branches : ErrorEnd(r, b)
    BY <2>6 DEF ErrorEnd
  <2>7. CASE \E r \in Runs, b \in Branches : TerminateEnd(r, b)
    BY <2>7 DEF TerminateEnd
  <2>8. CASE Save \/ Return \/ (\E r \in Runs : Finish(r)) \/ (\E r \in Runs : Fail(r)) \/
       (\E r \in Runs : Failed(r)) \/ (\E r \in Runs : Lookup(r)) \/ (\E r \in Runs : FinishOrphan(r))
    BY <2>8 DEF Save, Return, Finish, Fail, Failed, Lookup, FinishOrphan
  <2> QED
    BY <1>1, <2>1, <2>2, <2>3, <2>4, <2>5, <2>6, <2>7, <2>8 DEF Alone, InstanceStep, RunStep
<1>2. CASE CallerStep
  <2>1. CASE WaitForSubProcessExecution
    BY <2>1 DEF WaitForSubProcessExecution, EnteredBy
  <2>2. CASE FindSubProcess
    <3>1. boot > 0 /\ boot \in Nat
      BY <2>2 DEF FindSubProcess, Stations, Values
    <3>2. CASE started
      BY <2>2, <3>1, <3>2, RetracedDone DEF FindSubProcess, WaitForSubProcessResumption, Runs
    <3>3. CASE ~started
      BY <2>2, <3>3 DEF FindSubProcess
    <3> QED
      BY <3>2, <3>3
  <2>3. CASE ClientReturns \/ ExecuteHandler \/ Suspended \/ Refused \/ RunReturns \/ ContinueAfterResume \/
       Resolve \/ Reject \/ TerminateSubprocess \/ Close \/ FindCalled
    BY <2>3 DEF ClientReturns, ExecuteHandler, Suspended, Refused, RunReturns, ContinueAfterResume, Resolve,
       Reject, TerminateSubprocess, Close, FindCalled
  <2> QED
    BY <1>2, <2>1, <2>2, <2>3 DEF CallerStep
<1>3. CASE Deliver
  <2>1. \A r \in Runs, b \in Branches : pos'[r][b] = pos[r][b] \/ pos'[r][b] \in {"stuck", "failed"}
    BY <1>3, Heard DEF Deliver
  <2> HIDE DEF Chains
  <2> QED
    BY <1>3, <2>1 DEF Deliver
<1>4. CASE Answered
  BY <1>4 DEF Answered, Answer
<1>5. CASE Refuse /\ UNCHANGED callerVars
  BY <1>5 DEF Refuse
<1>6. CASE StartAndAwaitEndEvent
  BY <1>6 DEF StartAndAwaitEndEvent
<1>7. CASE Begin
  BY <1>7 DEF Begin
<1>8. CASE Restart
  BY <1>8 DEF Restart
<1>9. CASE Interrupted
  BY <1>9 DEF Interrupted
<1>10. CASE UNCHANGED vars
  BY <1>10 DEF vars
<1> QED
  BY <1>1, <1>2, <1>3, <1>4, <1>5, <1>6, <1>7, <1>8, <1>9, <1>10 DEF Next, System

\* An event that is new on the queue is the one that was published.
LEMMA PublishedTells ==
  ASSUME Queued, NEW event, NEW other, event # other, Publish(event),
         \E i \in DOMAIN queue' : queue'[i].event = other
  PROVE \E i \in DOMAIN queue : queue[i].event = other
<1>1. CASE queue' = Append(queue, EntryFor(event))
  <2>1. EntryFor(event).event = event
    BY DEF EntryFor
  <2>2. PICK i \in DOMAIN queue' : queue'[i].event = other
    OBVIOUS
  <2>3. i # Len(queue) + 1
    BY <1>1, <2>1, <2>2 DEF Queued
  <2>4. i \in DOMAIN queue /\ queue'[i] = queue[i]
    BY <1>1, <2>2, <2>3 DEF Queued
  <2> QED
    BY <2>2, <2>4
<1>2. CASE queue' = queue
  BY <1>2
<1> QED
  BY <1>1, <1>2, Published

\* Nobody tells of an end event that was not reached.
LEMMA Telling ==
  ASSUME ToldReached, DoneReached, Kept, Queued, Stations, Phases, Chains, [Next]_vars
  PROVE ToldReached'
<1> USE ReachedStays DEF instanceVars, diagram, dbVars, runVars, callerVars, ToldReached
<1>1. CASE Alone
  <2>1. CASE StartEvent
    BY <1>1, <2>1, PublishedTells DEF Alone, StartEvent
  <2>2. CASE \E r \in Runs : Failed(r)
    BY <1>1, <2>2, PublishedTells DEF Alone, Failed, SendNotification
  <2>3. CASE \E r \in Runs, b \in Branches : RegularEnd(r, b)
    <3>1. PICK r \in Runs, b \in Branches : RegularEnd(r, b)
      BY <2>3
    <3>2. HasFinished(b)' /\ endType'[b] = "regular"
      BY <3>1 DEF RegularEnd, DoneReached, Kept, diagram
    <3>3. Reached'
      BY <3>2 DEF Reached
    <3> QED
      BY <3>3
  <2>4. CASE \E r \in Runs, b \in Branches : TerminateEnd(r, b)
    BY <1>1, <2>4, PublishedTells DEF Alone, TerminateEnd, NotifyAboutTermination
  <2>5. CASE Save \/ Return \/ (\E r \in Runs : Finish(r)) \/ (\E r \in Runs : Fail(r)) \/
       (\E r \in Runs : Lookup(r)) \/ (\E r \in Runs : Load(r)) \/ (\E r \in Runs : FinishOrphan(r)) \/
       (\E r \in Runs, b \in Branches : EnterEnd(r, b)) \/ (\E r \in Runs, b \in Branches : ExitEnd(r, b)) \/
       (\E r \in Runs, b \in Branches : ErrorEnd(r, b))
    BY <1>1, <2>5 DEF Alone, Save, Return, Finish, Fail, Lookup, Load, FinishOrphan, EnterEnd, ExitEnd,
       ErrorEnd
  <2> QED
    BY <1>1, <2>1, <2>2, <2>3, <2>4, <2>5 DEF Alone, InstanceStep, RunStep
<1>2. CASE CallerStep
  <2>1. CASE TerminateSubprocess
    BY <2>1, PublishedTells DEF TerminateSubprocess, TerminateChild
  <2>2. CASE ClientReturns \/ ExecuteHandler \/ Suspended \/ WaitForSubProcessExecution \/ Refused \/
       RunReturns \/ ContinueAfterResume \/ Resolve \/ Reject \/ Close \/ FindCalled \/ FindSubProcess
    BY <2>2 DEF ClientReturns, ExecuteHandler, Suspended, WaitForSubProcessExecution, Refused, RunReturns,
       ContinueAfterResume, Resolve, Reject, Close, FindCalled, FindSubProcess
  <2> QED
    BY <1>2, <2>1, <2>2 DEF CallerStep
<1>3. CASE Deliver
  <2>1. (\E i \in DOMAIN queue' : queue'[i].event = "ended") => \E i \in DOMAIN queue : queue[i].event = "ended"
    BY <1>3 DEF Deliver, Queued
  <2>2. ASSUME heard', ~heard PROVE Head(queue).event = "ended"
    BY <1>3, <2>2 DEF Deliver, CallerHears, StartIsHeard, ClientHears, HandlerHears, Stations, Topic
  <2>3. 1 \in DOMAIN queue /\ Head(queue) = queue[1]
    BY <1>3 DEF Deliver, Queued
  <2> QED
    BY <2>1, <2>2, <2>3
<1>4. CASE Answered
  BY <1>4 DEF Answered, Answer
<1>5. CASE Refuse /\ UNCHANGED callerVars
  BY <1>5 DEF Refuse
<1>6. CASE StartAndAwaitEndEvent
  BY <1>6 DEF StartAndAwaitEndEvent
<1>7. CASE Begin
  BY <1>7 DEF Begin
<1>8. CASE Restart
  BY <1>8 DEF Restart
<1>9. CASE Interrupted
  BY <1>9, PublishedTells DEF Interrupted, SendTerminationSignalToSubProcess
<1>10. CASE UNCHANGED vars
  BY <1>10 DEF vars
<1> QED
  BY <1>1, <1>2, <1>3, <1>4, <1>5, <1>6, <1>7, <1>8, <1>9, <1>10 DEF Next, System

\* A child that is not running any more is not started again.
LEMMA Stopping == ASSUME Stopped, Values, Phases, [Next]_vars PROVE Stopped'
<1> USE DEF instanceVars, diagram, dbVars, runVars, callerVars, Stopped
<1>1. CASE Alone
  <2>1. CASE Save
    BY <2>1 DEF Save, Phases
  <2>2. CASE \E r \in Runs : Finish(r)
    BY <2>2 DEF Finish
  <2>3. CASE \E r \in Runs : Fail(r)
    BY <2>3 DEF Fail
  <2>4. CASE \E r \in Runs : FinishOrphan(r)
    BY <2>4 DEF FinishOrphan, OrphanState
  <2>5. CASE StartEvent \/ Return \/ (\E r \in Runs : Failed(r)) \/ (\E r \in Runs : Lookup(r)) \/
       (\E r \in Runs : Load(r)) \/ (\E r \in Runs, b \in Branches : EnterEnd(r, b)) \/ (\E r \in Runs,
       b \in Branches : ExitEnd(r, b)) \/ (\E r \in Runs, b \in Branches : RegularEnd(r, b)) \/
       (\E r \in Runs, b \in Branches : ErrorEnd(r, b)) \/ (\E r \in Runs, b \in Branches : TerminateEnd(r,
       b))
    BY <2>5 DEF StartEvent, Return, Failed, Lookup, Load, EnterEnd, ExitEnd, RegularEnd, ErrorEnd,
       TerminateEnd
  <2> QED
    BY <1>1, <2>1, <2>2, <2>3, <2>4, <2>5 DEF Alone, InstanceStep, RunStep
<1>2. CASE CallerStep
  BY <1>2 DEF CallerStep, ClientReturns, ExecuteHandler, Suspended, WaitForSubProcessExecution, Refused,
     RunReturns, ContinueAfterResume, Resolve, Reject, TerminateSubprocess, Close, FindCalled, FindSubProcess
<1>3. CASE Deliver
  BY <1>3 DEF Deliver
<1>4. CASE Answered
  BY <1>4 DEF Answered, Answer
<1>5. CASE Refuse /\ UNCHANGED callerVars
  BY <1>5 DEF Refuse
<1>6. CASE StartAndAwaitEndEvent
  BY <1>6 DEF StartAndAwaitEndEvent
<1>7. CASE Begin
  BY <1>7 DEF Begin
<1>8. CASE Restart
  BY <1>8 DEF Restart, Values
<1>9. CASE Interrupted
  BY <1>9 DEF Interrupted
<1>10. CASE UNCHANGED vars
  BY <1>10 DEF vars
<1> QED
  BY <1>1, <1>2, <1>3, <1>4, <1>5, <1>6, <1>7, <1>8, <1>9, <1>10 DEF Next, System

\* What a caller may go on with stays.
LEMMA GoodEndStays == ASSUME GoodEnd, Kept, Values, Phases, [Next]_vars PROVE GoodEnd'
  BY ReachedStays, Stopping DEF GoodEnd

\* A run that retraces the rows leaves the other one alone.
LEMMA RetracedHow == ASSUME Chains, NEW r \in Runs, Retrace(r), NEW q \in Runs, q # r PROVE how'[q] = how[q]
<1>1. PICK outcome \in ResumedOutcomes : how' = [how EXCEPT ![r] = outcome]
  BY DEF Retrace
<1> QED
  BY <1>1 DEF Chains

\* A resumption that finds nothing to do has found an instance that is over.
LEMMA Finding == ASSUME FoundStopped, Values, Phases, Chains, Work, Begun, [Next]_vars PROVE FoundStopped'
<1> USE Stopping DEF instanceVars, diagram, dbVars, runVars, callerVars, FoundStopped
<1>1. CASE Alone
  <2>1. CASE \E r \in Runs : Lookup(r)
    <3>1. PICK r \in Runs : Lookup(r)
      BY <2>1
    <3>2. CASE r = 2 /\ proc # "running"
      BY <3>1, <3>2 DEF Lookup, Phases, Stopped, Runs
    <3>3. CASE r # 2 \/ proc = "running"
      BY <3>1, <3>3 DEF Lookup, ComesOut, Chains, Runs
    <3> QED
      BY <3>2, <3>3
  <2>2. CASE \E r \in Runs : Load(r)
    <3>1. how'[2] = how[2] \/ how'[2] \notin {"closed", "orphan"}
      <4>1. PICK r \in Runs : Load(r)
        BY <2>2
      <4>2. CASE ~IsOrphaned /\ started
        BY <4>1, <4>2, RetracedChains, RetracedHow DEF Load, Runs
      <4>3. CASE IsOrphaned \/ ~started
        BY <4>1, <4>3 DEF Load, ComesOut, Chains, Runs
      <4> QED
        BY <4>2, <4>3
    <3> QED
      BY <3>1
  <2>3. CASE \E r \in Runs : FinishOrphan(r)
    <3>1. PICK r \in Runs : FinishOrphan(r)
      BY <2>3
    <3>2. CASE r = 2
      BY <3>1, <3>2 DEF FinishOrphan, Phases, Stopped, OrphanState, Runs
    <3>3. CASE r # 2
      BY <3>1, <3>3 DEF FinishOrphan, ComesOut, Chains
    <3> QED
      BY <3>2, <3>3
  <2>4. CASE \E r \in Runs, b \in Branches : ExitEnd(r, b)
    <3>1. PICK r \in Runs, b \in Branches : ExitEnd(r, b)
      BY <2>4
    <3>2. how'[2] = how[2] \/ how'[2] = "error"
      BY <3>1 DEF ExitEnd, ComesOut, Chains, Runs
    <3> QED
      BY <3>2
  <2>5. CASE \E r \in Runs, b \in Branches : ErrorEnd(r, b)
    BY <2>5 DEF ErrorEnd, ComesOut, Chains, Runs
  <2>6. CASE \E r \in Runs, b \in Branches : TerminateEnd(r, b)
    BY <2>6 DEF TerminateEnd, ComesOut, Chains, Runs
  <2>7. CASE Save \/ StartEvent \/ Return \/ (\E r \in Runs : Finish(r)) \/ (\E r \in Runs : Fail(r)) \/
       (\E r \in Runs : Failed(r)) \/ (\E r \in Runs, b \in Branches : EnterEnd(r, b)) \/ (\E r \in Runs,
       b \in Branches : RegularEnd(r, b))
    BY <2>7 DEF Save, StartEvent, Return, Finish, Fail, Failed, EnterEnd, RegularEnd
  <2> QED
    BY <1>1, <2>1, <2>2, <2>3, <2>4, <2>5, <2>6, <2>7 DEF Alone, InstanceStep, RunStep
<1>2. CASE CallerStep
  <2>1. CASE FindSubProcess
    <3>1. how'[2] = how[2]
      BY <2>1, RetracedHow DEF FindSubProcess, WaitForSubProcessResumption, Runs
    <3> QED
      BY <3>1
  <2>2. CASE ClientReturns \/ ExecuteHandler \/ Suspended \/ WaitForSubProcessExecution \/ Refused \/
       RunReturns \/ ContinueAfterResume \/ Resolve \/ Reject \/ TerminateSubprocess \/ Close \/ FindCalled
    BY <2>2 DEF ClientReturns, ExecuteHandler, Suspended, WaitForSubProcessExecution, Refused, RunReturns,
       ContinueAfterResume, Resolve, Reject, TerminateSubprocess, Close, FindCalled
  <2> QED
    BY <1>2, <2>1, <2>2 DEF CallerStep
<1>3. CASE Deliver
  <2>1. how'[2] = how[2] \/ how'[2] \in {"error", "terminated"}
    BY <1>3, Heard DEF Deliver, Runs
  <2> QED
    BY <2>1
<1>4. CASE Answered
  BY <1>4 DEF Answered, Answer
<1>5. CASE Refuse /\ UNCHANGED callerVars
  BY <1>5 DEF Refuse, ComesOut, Chains
<1>6. CASE StartAndAwaitEndEvent
  BY <1>6 DEF StartAndAwaitEndEvent
<1>7. CASE Begin
  BY <1>7 DEF Begin
<1>8. CASE Restart
  BY <1>8 DEF Restart, Runs
<1>9. CASE Interrupted
  BY <1>9 DEF Interrupted
<1>10. CASE UNCHANGED vars
  BY <1>10 DEF vars
<1> QED
  BY <1>1, <1>2, <1>3, <1>4, <1>5, <1>6, <1>7, <1>8, <1>9, <1>10 DEF Next, System

\* The run of a sub process returns when all its branches are done, unless it fails.
LEMMA Returning == ASSUME ReturnedDone, Values, Phases, Chains, Work, [Next]_vars PROVE ReturnedDone'
<1> USE DEF instanceVars, diagram, dbVars, runVars, callerVars, ReturnedDone, AllDone, Values, Runs
<1>1. CASE Alone
  <2>1. CASE Save
    BY <2>1 DEF Save
  <2>2. CASE StartEvent
    BY <2>2 DEF StartEvent, Phases
  <2>3. CASE Return
    BY <2>3 DEF Return
  <2>4. CASE \E r \in Runs : Finish(r)
    BY <2>4 DEF Finish
  <2>5. CASE \E r \in Runs : Fail(r)
    BY <2>5 DEF Fail
  <2>6. CASE \E r \in Runs : Failed(r)
    BY <2>6 DEF Failed, Phases
  <2>7. CASE \E r \in Runs : Lookup(r)
    BY <2>7 DEF Lookup, Phases
  <2>8. CASE \E r \in Runs : Load(r)
    BY <2>8 DEF Load, Phases
  <2>9. CASE \E r \in Runs : FinishOrphan(r)
    BY <2>9 DEF FinishOrphan, Phases
  <2>10. CASE \E r \in Runs, b \in Branches : EnterEnd(r, b)
    BY <2>10 DEF EnterEnd, Chains
  <2>11. CASE \E r \in Runs, b \in Branches : ExitEnd(r, b)
    BY <2>11 DEF ExitEnd, Chains, ComesOut
  <2>12. CASE \E r \in Runs, b \in Branches : RegularEnd(r, b)
    BY <2>12 DEF RegularEnd, Chains
  <2>13. CASE \E r \in Runs, b \in Branches : ErrorEnd(r, b)
    BY <2>13 DEF ErrorEnd, Chains, ComesOut
  <2>14. CASE \E r \in Runs, b \in Branches : TerminateEnd(r, b)
    BY <2>14 DEF TerminateEnd, Chains, ComesOut
  <2> QED
    BY <1>1, <2>1, <2>2, <2>3, <2>4, <2>5, <2>6, <2>7, <2>8, <2>9, <2>10, <2>11, <2>12, <2>13, <2>14
       DEF Alone, InstanceStep, RunStep
<1>2. CASE CallerStep
  <2>1. CASE Suspended
    BY <2>1 DEF Suspended
  <2>2. CASE WaitForSubProcessExecution
    BY <2>2 DEF WaitForSubProcessExecution
  <2>3. CASE FindCalled
    BY <2>3 DEF FindCalled
  <2>4. CASE FindSubProcess
    <3>1. CASE started
      BY <2>4, <3>1 DEF FindSubProcess, WaitForSubProcessResumption, Retrace
    <3>2. CASE ~started
      BY <2>4, <3>2 DEF FindSubProcess
    <3> QED
      BY <3>1, <3>2
  <2>5. CASE ClientReturns \/ ExecuteHandler \/ Refused \/ RunReturns \/ ContinueAfterResume \/ Resolve \/
       Reject \/ TerminateSubprocess \/ Close
    BY <2>5 DEF ClientReturns, ExecuteHandler, Refused, RunReturns, ContinueAfterResume, Resolve, Reject,
       TerminateSubprocess, Close
  <2> QED
    BY <1>2, <2>1, <2>2, <2>3, <2>4, <2>5 DEF CallerStep
<1>3. CASE Deliver
  <2>1. kind' = kind /\ at' = at
    BY <1>3 DEF Deliver
  <2>2. how'[1] = "none" => how[1] = "none"
    BY <1>3, Heard DEF Deliver, Runs
  <2>3. AllDone(1) => AllDone(1)'
    BY <1>3, Heard DEF Deliver, Runs, AllDone
  <2> HIDE DEF AllDone
  <2> QED
    BY <2>1, <2>2, <2>3
<1>4. CASE Answered
  BY <1>4 DEF Answered, Answer, Chains
<1>5. CASE Refuse /\ UNCHANGED callerVars
  BY <1>5 DEF Refuse, Phases
<1>6. CASE StartAndAwaitEndEvent
  BY <1>6 DEF StartAndAwaitEndEvent
<1>7. CASE Begin
  BY <1>7 DEF Begin
<1>8. CASE Restart
  BY <1>8 DEF Restart
<1>9. CASE Interrupted
  BY <1>9 DEF Interrupted
<1>10. CASE UNCHANGED vars
  BY <1>10 DEF vars
<1> QED
  BY <1>1, <1>2, <1>3, <1>4, <1>5, <1>6, <1>7, <1>8, <1>9, <1>10 DEF Next, System

\* All branches of an instance are done, and it has one.
LEMMA AllDoneReached == ASSUME DoneReached, Values, AllDone(1) PROVE Reached
<1>1. PICK b \in Branches : endType[b] # NoBranch
  BY InstanceAssumption DEF Values, diagram
<1>2. HasFinished(b) /\ (boot = 0 => endType[b] = "regular")
  BY <1>1 DEF DoneReached, AllDone, Present, Runs
<1> QED
  BY <1>2 DEF Reached

\* A caller goes on behind an end.
LEMMA Going ==
  ASSUME GoingOn, ToldReached, DoneReached, FoundStopped, ReturnedDone, Kept, Values, Callers, Phases,
         Stations, Queued, [Next]_vars
  PROVE GoingOn'
<1> USE GoodEndStays DEF instanceVars, diagram, dbVars, runVars, callerVars, GoingOn
<1>1. CASE Alone
  BY <1>1 DEF Alone, InstanceStep, RunStep, Save, StartEvent, Return, Finish, Fail, Failed, Lookup, Load,
     FinishOrphan, EnterEnd, ExitEnd, RegularEnd, ErrorEnd, TerminateEnd
<1>2. CASE CallerStep
  <2>1. CASE ClientReturns
    <3>1. heard => GoodEnd
      BY DEF ToldReached, GoodEnd
    <3> QED
      BY <2>1, <3>1 DEF ClientReturns, Settle, Stations
  <2>2. CASE ExecuteHandler
    BY <2>2 DEF ExecuteHandler
  <2>3. CASE Suspended
    BY <2>3 DEF Suspended, ExecuteSubprocess
  <2>4. CASE WaitForSubProcessExecution
    BY <2>4 DEF WaitForSubProcessExecution
  <2>5. CASE Refused
    BY <2>5 DEF Refused, GoDown
  <2>6. CASE RunReturns
    <3>1. CASE GoodEnd
      BY <2>6, <3>1 DEF RunReturns, GoOn, GoDown, GoDownTerminated
    <3>2. CASE ~GoodEnd
      <4>1. how[2] \notin {"closed", "orphan"} /\ (kind = "subProcess" => how[1] \notin {"closed", "orphan"})
        BY <3>2 DEF FoundStopped, GoodEnd, Phases
      <4>2. ~(kind = "subProcess" /\ at[1] = "over" /\ how[1] = "none")
        BY <3>2, AllDoneReached DEF ReturnedDone, GoodEnd
      <4>3. row' \notin {"resumed", "finished"} /\ place' \notin {"resuming", "exiting"}
        BY <2>6, <4>1, <4>2 DEF RunReturns, GoDown, GoDownTerminated, Awaited
      <4> QED
        BY <2>6, <4>3 DEF RunReturns
    <3> QED
      BY <3>1, <3>2
  <2>7. CASE ContinueAfterResume
    BY <2>7 DEF ContinueAfterResume
  <2>8. CASE Resolve
    BY <2>8 DEF Resolve, Settle, Stations
  <2>9. CASE Reject
    BY <2>9 DEF Reject, Settle
  <2>10. CASE Close
    BY <2>10 DEF Close, Settle
  <2>11. CASE FindCalled
    BY <2>11 DEF FindCalled, ExecuteSubprocess
  <2>12. CASE FindSubProcess
    BY <2>12 DEF FindSubProcess, GoDown, WaitForSubProcessResumption
  <2>13. CASE TerminateSubprocess
    BY <2>13 DEF TerminateSubprocess
  <2> QED
    BY <1>2, <2>1, <2>2, <2>3, <2>4, <2>5, <2>6, <2>7, <2>8, <2>9, <2>10, <2>11, <2>12, <2>13 DEF CallerStep
<1>3. CASE Deliver
  <2>1. CASE GoodEnd
    BY <1>3, <2>1 DEF Deliver, CallerHears, StartIsHeard, ClientHears, HandlerHears, GoOn, GoDown
  <2>2. CASE ~GoodEnd
    <3>1. queue # <<>> => Head(queue) = queue[1] /\ 1 \in DOMAIN queue
      BY DEF Queued
    <3>2. queue # <<>> => Head(queue).event # "ended"
      BY <2>2, <3>1 DEF ToldReached, GoodEnd
    <3>3. (row' = row \/ row' = "error") /\ (place' = place \/ place' \in {"waiting",
      "failing"}) /\ settled' = settled
      BY <1>3, <3>2 DEF Deliver, CallerHears, StartIsHeard, ClientHears, HandlerHears, GoDown
    <3> QED
      BY <1>3, <2>2, <3>3 DEF Deliver
  <2> QED
    BY <2>1, <2>2
<1>4. CASE Answered
  BY <1>4 DEF Answered, Answer
<1>5. CASE Refuse /\ UNCHANGED callerVars
  BY <1>5 DEF Refuse
<1>6. CASE StartAndAwaitEndEvent
  BY <1>6 DEF StartAndAwaitEndEvent
<1>7. CASE Begin
  BY <1>7 DEF Begin
<1>8. CASE Restart
  <2>1. CASE kind = "client"
    BY <1>8, <2>1 DEF Restart
  <2>2. CASE kind # "client"
    <3>1. place' \in {"resuming", "exiting"} => settled = "none" /\ row \in {"resumed", "finished"}
      BY <1>8, <2>2 DEF Restart, Callers, Rows
    <3> QED
      BY <1>8, <2>2, <3>1 DEF Restart
  <2> QED
    BY <2>1, <2>2
<1>9. CASE Interrupted
  BY <1>9 DEF Interrupted
<1>10. CASE UNCHANGED vars
  BY <1>10 DEF vars
<1> QED
  BY <1>1, <1>2, <1>3, <1>4, <1>5, <1>6, <1>7, <1>8, <1>9, <1>10 DEF Next, System

\* A handler that has no child yet.
LEMMA Freshening == ASSUME Fresh, Values, Callers, Phases, Stations, [Next]_vars PROVE Fresh'
<1> USE DEF instanceVars, diagram, dbVars, runVars, callerVars, Fresh, Phases, Stations, Values, Callers, Runs
<1>1. CASE Alone
  <2>1. CASE Save
    BY <1>1, <2>1 DEF Alone, Save
  <2>2. CASE StartEvent
    BY <1>1, <2>2 DEF Alone, StartEvent
  <2>3. CASE Return
    BY <1>1, <2>3 DEF Alone, Return
  <2>4. CASE \E r \in Runs : Finish(r)
    BY <1>1, <2>4 DEF Alone, Finish
  <2>5. CASE \E r \in Runs : Fail(r)
    BY <1>1, <2>5 DEF Alone, Fail
  <2>6. CASE \E r \in Runs : Failed(r)
    BY <1>1, <2>6 DEF Alone, Failed
  <2>7. CASE \E r \in Runs : Lookup(r)
    BY <1>1, <2>7 DEF Alone, Lookup
  <2>8. CASE \E r \in Runs : Load(r)
    <3>1. PICK r \in Runs : Load(r)
      BY <2>8
    <3>2. at'[2] = "off" <=> at[2] = "off"
      BY <3>1 DEF Load, Retrace, RunPlaces
    <3> QED
      BY <1>1, <3>1, <3>2 DEF Load, Alone
  <2>9. CASE \E r \in Runs : FinishOrphan(r)
    BY <1>1, <2>9 DEF Alone, FinishOrphan
  <2>10. CASE (\E r \in Runs, b \in Branches : EnterEnd(r, b)) \/ (\E r \in Runs, b \in Branches : ExitEnd(r,
       b)) \/ (\E r \in Runs, b \in Branches : RegularEnd(r, b)) \/ (\E r \in Runs,
       b \in Branches : ErrorEnd(r, b)) \/ (\E r \in Runs, b \in Branches : TerminateEnd(r, b))
    BY <1>1, <2>10 DEF Alone, EnterEnd, ExitEnd, RegularEnd, ErrorEnd, TerminateEnd
  <2> QED
    BY <1>1, <2>1, <2>2, <2>3, <2>4, <2>5, <2>6, <2>7, <2>8, <2>9, <2>10 DEF Alone, InstanceStep, RunStep
<1>2. CASE CallerStep
  <2>1. CASE ClientReturns
    BY <2>1 DEF ClientReturns, Settle
  <2>2. CASE ExecuteHandler
    BY <2>2 DEF ExecuteHandler
  <2>3. CASE Suspended
    BY <2>3 DEF Suspended, ExecuteSubprocess
  <2>4. CASE WaitForSubProcessExecution
    BY <2>4 DEF WaitForSubProcessExecution
  <2>5. CASE Refused
    BY <2>5 DEF Refused, GoDown
  <2>6. CASE RunReturns
    BY <2>6 DEF RunReturns, GoOn, GoDown, GoDownTerminated
  <2>7. CASE ContinueAfterResume
    BY <2>7 DEF ContinueAfterResume
  <2>8. CASE Resolve
    BY <2>8 DEF Resolve, Settle
  <2>9. CASE Reject
    BY <2>9 DEF Reject, Settle
  <2>10. CASE Close
    BY <2>10 DEF Close, Settle
  <2>11. CASE FindCalled
    BY <2>11 DEF FindCalled, ExecuteSubprocess
  <2>12. CASE FindSubProcess
    <3>1. CASE started
      BY <2>12, <3>1 DEF FindSubProcess, WaitForSubProcessResumption, Retrace
    <3>2. CASE ~started
      BY <2>12, <3>2 DEF FindSubProcess, GoDown
    <3> QED
      BY <3>1, <3>2
  <2>13. CASE TerminateSubprocess
    BY <2>13 DEF TerminateSubprocess
  <2> QED
    BY <1>2, <2>1, <2>2, <2>3, <2>4, <2>5, <2>6, <2>7, <2>8, <2>9, <2>10, <2>11, <2>12, <2>13 DEF CallerStep
<1>3. CASE Deliver
  BY <1>3 DEF Deliver, CallerHears, StartIsHeard, ClientHears, HandlerHears, GoOn, GoDown, Topic
<1>4. CASE Answered
  BY <1>4 DEF Answered, Answer
<1>5. CASE Refuse /\ UNCHANGED callerVars
  BY <1>5 DEF Refuse
<1>6. CASE StartAndAwaitEndEvent
  BY <1>6 DEF StartAndAwaitEndEvent
<1>7. CASE Begin
  BY <1>7 DEF Begin
<1>8. CASE Restart
  <2>1. kind = "client" => settled' # "interrupted"
    BY <1>8 DEF Restart
  <2>2. place' = "finding" => at'[2] = "off"
    BY <1>8 DEF Restart
  <2>3. CASE kind = "subProcess"
    <3>1. place' = "idle" => row = "absent"
      BY <1>8, <2>3 DEF Restart, Rows
    <3>2. place' = "entering" => row = "running"
      BY <1>8, <2>3 DEF Restart, Rows
    <3>3. place' # "suspending"
      BY <1>8, <2>3 DEF Restart
    <3> QED
      BY <1>8, <2>1, <2>2, <2>3, <3>1, <3>2, <3>3 DEF Restart
  <2> QED
    BY <1>8, <2>1, <2>2, <2>3 DEF Restart
<1>9. CASE Interrupted
  BY <1>9 DEF Interrupted
<1>10. CASE UNCHANGED vars
  BY <1>10 DEF vars
<1> QED
  BY <1>1, <1>2, <1>3, <1>4, <1>5, <1>6, <1>7, <1>8, <1>9, <1>10 DEF Next, System

\* A run that has not begun is nowhere.
LEMMA Idling ==
  ASSUME IdleRuns, Values, Chains, Work, Begun, Phases, Stations, Fresh, [Next]_vars
  PROVE IdleRuns'
<1> USE DEF instanceVars, diagram, dbVars, runVars, callerVars, IdleRuns, Values, Runs
<1>1. CASE Alone
  <2>1. CASE Save
    BY <2>1 DEF Save
  <2>2. CASE StartEvent
    BY <2>2 DEF StartEvent, EnteredBy, Chains
  <2>3. CASE Return
    BY <2>3 DEF Return
  <2>4. CASE \E r \in Runs : Finish(r)
    BY <2>4 DEF Finish
  <2>5. CASE \E r \in Runs : Fail(r)
    BY <2>5 DEF Fail
  <2>6. CASE \E r \in Runs : Failed(r)
    BY <2>6 DEF Failed
  <2>7. CASE \E r \in Runs : Lookup(r)
    BY <2>7 DEF Lookup
  <2>8. CASE \E r \in Runs : Load(r)
    <3>1. PICK r \in Runs : Load(r)
      BY <2>8
    <3>2. CASE ~IsOrphaned /\ started
      BY <3>1, <3>2 DEF Load, Retrace, Chains
    <3>3. CASE IsOrphaned \/ ~started
      BY <3>1, <3>3 DEF Load, ComesOut
    <3> QED
      BY <3>2, <3>3
  <2>9. CASE \E r \in Runs : FinishOrphan(r)
    BY <2>9 DEF FinishOrphan
  <2>10. CASE \E r \in Runs, b \in Branches : EnterEnd(r, b)
    BY <2>10 DEF EnterEnd, Chains
  <2>11. CASE \E r \in Runs, b \in Branches : ExitEnd(r, b)
    BY <2>11 DEF ExitEnd, Chains
  <2>12. CASE \E r \in Runs, b \in Branches : RegularEnd(r, b)
    BY <2>12 DEF RegularEnd, Chains
  <2>13. CASE \E r \in Runs, b \in Branches : ErrorEnd(r, b)
    BY <2>13 DEF ErrorEnd, Chains
  <2>14. CASE \E r \in Runs, b \in Branches : TerminateEnd(r, b)
    BY <2>14 DEF TerminateEnd, Chains
  <2> QED
    BY <1>1, <2>1, <2>2, <2>3, <2>4, <2>5, <2>6, <2>7, <2>8, <2>9, <2>10, <2>11, <2>12, <2>13, <2>14
       DEF Alone, InstanceStep, RunStep
<1>2. CASE CallerStep
  <2>1. CASE Suspended
    BY <2>1 DEF Suspended, ExecuteSubprocess, Stations
  <2>2. CASE WaitForSubProcessExecution
    BY <2>2 DEF WaitForSubProcessExecution, EnteredBy, Chains
  <2>3. CASE FindCalled
    BY <2>3 DEF FindCalled, ExecuteSubprocess, Begun, Phases, Fresh, Chains
  <2>4. CASE FindSubProcess
    <3>1. CASE started
      BY <2>4, <3>1 DEF FindSubProcess, WaitForSubProcessResumption, Retrace, Chains
    <3>2. CASE ~started
      BY <2>4, <3>2 DEF FindSubProcess, GoDown
    <3> QED
      BY <3>1, <3>2
  <2>5. CASE ClientReturns \/ ExecuteHandler \/ Refused \/ RunReturns \/ ContinueAfterResume \/ Resolve \/
       Reject \/ TerminateSubprocess \/ Close
    BY <2>5 DEF ClientReturns, ExecuteHandler, Refused, RunReturns, ContinueAfterResume, Resolve, Reject,
       TerminateSubprocess, Close
  <2> QED
    BY <1>2, <2>1, <2>2, <2>3, <2>4, <2>5 DEF CallerStep
<1>3. CASE Deliver
  <2>1. \A r \in Runs, b \in Branches : pos[r][b] = "idle" => pos'[r][b] = "idle"
    BY <1>3, Heard DEF Deliver
  <2> QED
    BY <1>3, <2>1 DEF Deliver
<1>4. CASE Answered
  BY <1>4 DEF Answered, Answer, Chains
<1>5. CASE Refuse /\ UNCHANGED callerVars
  BY <1>5 DEF Refuse
<1>6. CASE StartAndAwaitEndEvent
  BY <1>6 DEF StartAndAwaitEndEvent, Stations
<1>7. CASE Begin
  BY <1>7 DEF Begin
<1>8. CASE Restart
  BY <1>8 DEF Restart
<1>9. CASE Interrupted
  BY <1>9 DEF Interrupted
<1>10. CASE UNCHANGED vars
  BY <1>10 DEF vars
<1> QED
  BY <1>1, <1>2, <1>3, <1>4, <1>5, <1>6, <1>7, <1>8, <1>9, <1>10 DEF Next, System

\* A run that retraces a branch with a suspended task waits for it.
LEMMA RetracedFirst ==
  ASSUME Chains, SuspendedFirst, NEW r \in Runs, Retrace(r), NEW b \in Branches, task[b] = "suspended"
  PROVE pos'[r][b] = "waiting"
<1>1. pos'[r][b] = Resumed(b)
  BY RetracedPos
<1> QED
  BY <1>1 DEF Resumed, SuspendedFirst

\* A suspended task is in front of everything else in its branch.
LEMMA Suspending ==
  ASSUME SuspendedFirst, Values, Work, Chains, Begun, Phases, Stations, Fresh, IdleRuns, [Next]_vars
  PROVE SuspendedFirst'
<1> USE DEF instanceVars, diagram, dbVars, runVars, callerVars, SuspendedFirst, Present
<1>1. CASE Alone
  <2>1. CASE StartEvent
    <3>1. ~started /\ at[2] = "off"
      BY <2>1 DEF StartEvent, Phases
    <3>2. \A b \in Branches : ends[b] = <<>> /\ pos[2][b] = "idle"
      BY <3>1 DEF Begun, IdleRuns, Runs
    <3> QED
      BY <2>1, <3>2 DEF StartEvent, Entered, EnteredBy, Chains, Runs
  <2>2. CASE \E r \in Runs : Load(r)
    <3>1. PICK r \in Runs : Load(r)
      BY <2>2
    <3>2. UNCHANGED <<task, started, endType, ends>>
      BY <3>1 DEF Load
    <3>3. CASE ~IsOrphaned /\ started
      <4>1. Retrace(r)
        BY <3>1, <3>3 DEF Load
      <4>2. \A q \in Runs : \A b \in Present : task[b] = "suspended" => pos'[q][b] \in {"idle", "waiting"}
        BY <4>1, RetracedPos, RetracedFirst
      <4> QED
        BY <3>2, <4>2
    <3>4. CASE IsOrphaned \/ ~started
      BY <3>1, <3>2, <3>4 DEF Load
    <3> QED
      BY <3>3, <3>4
  <2>3. CASE \E r \in Runs, b \in Branches : EnterEnd(r, b)
    <3>1. PICK r \in Runs, c \in Branches : EnterEnd(r, c)
      BY <2>3
    <3>2. task[c] # "suspended"
      BY <3>1 DEF EnterEnd
    <3>3. \A q \in Runs : \A b \in Branches \ {c} : pos'[q][b] = pos[q][b]
      BY <3>1 DEF EnterEnd, Chains
    <3>4. UNCHANGED <<task, started, endType>> /\ \A b \in Branches \ {c} : ends'[b] = ends[b]
      BY <3>1 DEF EnterEnd, Work
    <3> QED
      BY <3>2, <3>3, <3>4
  <2>4. CASE \E r \in Runs, b \in Branches : ExitEnd(r, b)
    <3>1. PICK r \in Runs, c \in Branches : ExitEnd(r, c)
      BY <2>4
    <3>2. task[c] # "suspended"
      BY <3>1 DEF ExitEnd
    <3>3. \A q \in Runs : \A b \in Branches \ {c} : pos'[q][b] = pos[q][b]
      BY <3>1 DEF ExitEnd, Chains
    <3>4. UNCHANGED <<task, started, endType>> /\ \A b \in Branches \ {c} : ends'[b] = ends[b]
      BY <3>1 DEF ExitEnd, Work
    <3> QED
      BY <3>2, <3>3, <3>4
  <2>5. CASE \E r \in Runs, b \in Branches : RegularEnd(r, b)
    <3>1. PICK r \in Runs, c \in Branches : RegularEnd(r, c)
      BY <2>5
    <3>2. task[c] # "suspended"
      BY <3>1 DEF RegularEnd
    <3>3. \A q \in Runs : \A b \in Branches \ {c} : pos'[q][b] = pos[q][b]
      BY <3>1 DEF RegularEnd, Chains
    <3>4. UNCHANGED <<task, started, endType>> /\ \A b \in Branches \ {c} : ends'[b] = ends[b]
      BY <3>1 DEF RegularEnd, Work
    <3> QED
      BY <3>2, <3>3, <3>4
  <2>6. CASE \E r \in Runs, b \in Branches : ErrorEnd(r, b)
    <3>1. PICK r \in Runs, c \in Branches : ErrorEnd(r, c)
      BY <2>6
    <3>2. task[c] # "suspended"
      BY <3>1 DEF ErrorEnd
    <3>3. \A q \in Runs : \A b \in Branches \ {c} : pos'[q][b] = pos[q][b]
      BY <3>1 DEF ErrorEnd, Chains
    <3>4. UNCHANGED <<task, started, endType>> /\ \A b \in Branches \ {c} : ends'[b] = ends[b]
      BY <3>1 DEF ErrorEnd, Work
    <3> QED
      BY <3>2, <3>3, <3>4
  <2>7. CASE \E r \in Runs, b \in Branches : TerminateEnd(r, b)
    <3>1. PICK r \in Runs, c \in Branches : TerminateEnd(r, c)
      BY <2>7
    <3>2. task[c] # "suspended"
      BY <3>1 DEF TerminateEnd
    <3>3. \A q \in Runs : \A b \in Branches \ {c} : pos'[q][b] = pos[q][b]
      BY <3>1 DEF TerminateEnd, Chains
    <3>4. UNCHANGED <<task, started, endType>> /\ \A b \in Branches \ {c} : ends'[b] = ends[b]
      BY <3>1 DEF TerminateEnd, Work
    <3> QED
      BY <3>2, <3>3, <3>4
  <2>8. CASE Save \/ Return \/ (\E r \in Runs : Finish(r)) \/ (\E r \in Runs : Fail(r)) \/
       (\E r \in Runs : Failed(r)) \/ (\E r \in Runs : Lookup(r)) \/ (\E r \in Runs : FinishOrphan(r))
    BY <2>8 DEF Save, Return, Finish, Fail, Failed, Lookup, FinishOrphan
  <2> QED
    BY <1>1, <2>1, <2>2, <2>3, <2>4, <2>5, <2>6, <2>7, <2>8 DEF Alone, InstanceStep, RunStep
<1>2. CASE CallerStep
  <2>1. CASE WaitForSubProcessExecution
    <3>1. ~started /\ at[2] = "off"
      BY <2>1 DEF WaitForSubProcessExecution, Phases, Fresh
    <3>2. \A b \in Branches : ends[b] = <<>> /\ pos[2][b] = "idle"
      BY <3>1 DEF Begun, IdleRuns, Runs
    <3> QED
      BY <2>1, <3>2 DEF WaitForSubProcessExecution, Entered, EnteredBy, Chains, Runs
  <2>2. CASE FindSubProcess
    <3>1. CASE started
      <4>1. Retrace(1)
        BY <2>2, <3>1 DEF FindSubProcess, WaitForSubProcessResumption
      <4>2. \A q \in Runs : \A b \in Present : task[b] = "suspended" => pos'[q][b] \in {"idle", "waiting"}
        BY <4>1, RetracedPos, RetracedFirst DEF Runs
      <4> QED
        BY <2>2, <4>2 DEF FindSubProcess
    <3>2. CASE ~started
      BY <2>2, <3>2 DEF FindSubProcess
    <3> QED
      BY <3>1, <3>2
  <2>3. CASE ClientReturns \/ ExecuteHandler \/ Suspended \/ Refused \/ RunReturns \/ ContinueAfterResume \/
       Resolve \/ Reject \/ TerminateSubprocess \/ Close \/ FindCalled
    BY <2>3 DEF ClientReturns, ExecuteHandler, Suspended, Refused, RunReturns, ContinueAfterResume, Resolve,
       Reject, TerminateSubprocess, Close, FindCalled
  <2> QED
    BY <1>2, <2>1, <2>2, <2>3 DEF CallerStep
<1>3. CASE Deliver
  <2>1. \A b \in Branches : task'[b] = "suspended" => task[b] = "suspended" /\ \A r \in Runs : pos'[r][b] = pos[r][b]
    <3>1. ASSUME NEW b \in Branches, task'[b] = "suspended" PROVE ~\E r \in Runs : Hears(Head(queue), r, b)
      BY <1>3, <3>1 DEF Deliver, TasksHear
    <3>2. \A b \in Branches : task'[b] = "suspended" => task[b] = "suspended"
      BY <1>3, <3>1 DEF Deliver, TasksHear
    <3> QED
      BY <1>3, <3>1, <3>2 DEF Deliver, TasksHear, Chains
  <2> QED
    BY <1>3, <2>1 DEF Deliver
<1>4. CASE Answered
  BY <1>4 DEF Answered, Answer, Work, Chains
<1>5. CASE Refuse /\ UNCHANGED callerVars
  BY <1>5 DEF Refuse
<1>6. CASE StartAndAwaitEndEvent
  BY <1>6 DEF StartAndAwaitEndEvent
<1>7. CASE Begin
  BY <1>7 DEF Begin
<1>8. CASE Restart
  BY <1>8 DEF Restart
<1>9. CASE Interrupted
  BY <1>9 DEF Interrupted
<1>10. CASE UNCHANGED vars
  BY <1>10 DEF vars
<1> QED
  BY <1>1, <1>2, <1>3, <1>4, <1>5, <1>6, <1>7, <1>8, <1>9, <1>10 DEF Next, System

\* A child is known only after its start.
LEMMA Knowing == ASSUME KnownChild, Values, Callers, Queued, Phases, Stations, [Next]_vars PROVE KnownChild'
<1> USE DEF instanceVars, diagram, dbVars, runVars, callerVars, KnownChild, Childless, Values, Runs
<1>1. CASE Alone
  <2>1. CASE Save
    BY <1>1, <2>1 DEF Alone, Save
  <2>2. CASE StartEvent
    <3>1. kind # "subProcess"
      BY <2>2 DEF StartEvent, Phases
    <3>2. place \notin {"idle", "entering", "suspending", "finding"}
      BY <2>2, <3>1 DEF StartEvent, Stations
    <3>3. place' = place /\ kind' = kind /\ at'[1] = "running"
      BY <1>1, <2>2 DEF Alone, StartEvent
    <3> QED
      BY <3>1, <3>2, <3>3
  <2>3. CASE Return
    BY <1>1, <2>3 DEF Alone, Return
  <2>4. CASE \E r \in Runs : Finish(r)
    BY <1>1, <2>4 DEF Alone, Finish
  <2>5. CASE \E r \in Runs : Fail(r)
    BY <1>1, <2>5 DEF Alone, Fail
  <2>6. CASE \E r \in Runs : Failed(r)
    <3>1. PICK r \in Runs : Failed(r)
      BY <2>6
    <3>2. (\E i \in DOMAIN queue' : queue'[i].event = "started") => \E i \in DOMAIN queue : queue[i].event = "started"
      BY <3>1, PublishedTells DEF Failed, SendNotification
    <3>3. at'[1] \in {"starting", "saving"} => at[1] \in {"starting", "saving"}
      BY <3>1 DEF Failed
    <3> QED
      BY <1>1, <3>1, <3>2, <3>3 DEF Failed, Alone
  <2>7. CASE \E r \in Runs : Lookup(r)
    BY <1>1, <2>7 DEF Alone, Lookup
  <2>8. CASE \E r \in Runs : Load(r)
    <3>1. PICK r \in Runs : Load(r)
      BY <2>8
    <3>2. at'[1] \in {"starting", "saving"} => at[1] \in {"starting", "saving"}
      BY <3>1 DEF Load, Retrace, RunPlaces
    <3> QED
      BY <1>1, <3>1, <3>2 DEF Load, Alone
  <2>9. CASE \E r \in Runs : FinishOrphan(r)
    BY <1>1, <2>9 DEF Alone, FinishOrphan
  <2>10. CASE \E r \in Runs, b \in Branches : RegularEnd(r, b)
    <3>1. (\E i \in DOMAIN queue' : queue'[i].event = "started") => \E i \in DOMAIN queue : queue[i].event = "started"
      BY <2>10, PublishedTells DEF RegularEnd, NotifyAboutRegularEnd
    <3> QED
      BY <1>1, <2>10, <3>1 DEF RegularEnd, Alone
  <2>11. CASE \E r \in Runs, b \in Branches : TerminateEnd(r, b)
    <3>1. (\E i \in DOMAIN queue' : queue'[i].event = "started") => \E i \in DOMAIN queue : queue[i].event = "started"
      BY <2>11, PublishedTells DEF TerminateEnd, NotifyAboutTermination
    <3> QED
      BY <1>1, <2>11, <3>1 DEF TerminateEnd, Alone
  <2>12. CASE (\E r \in Runs, b \in Branches : EnterEnd(r, b)) \/ (\E r \in Runs, b \in Branches : ExitEnd(r,
       b)) \/ (\E r \in Runs, b \in Branches : ErrorEnd(r, b))
    BY <1>1, <2>12 DEF Alone, EnterEnd, ExitEnd, ErrorEnd
  <2> QED
    BY <1>1, <2>1, <2>2, <2>3, <2>4, <2>5, <2>6, <2>7, <2>8, <2>9, <2>10, <2>11, <2>12 DEF Alone,
       InstanceStep, RunStep
<1>2. CASE CallerStep
  <2>1. CASE ClientReturns
    BY <2>1 DEF ClientReturns
  <2>2. CASE ExecuteHandler
    BY <2>2 DEF ExecuteHandler
  <2>3. CASE Suspended
    BY <2>3 DEF Suspended, ExecuteSubprocess
  <2>4. CASE WaitForSubProcessExecution
    BY <2>4 DEF WaitForSubProcessExecution, Stations
  <2>5. CASE Refused
    BY <2>5 DEF Refused, GoDown
  <2>6. CASE RunReturns
    BY <2>6 DEF RunReturns, GoOn, GoDown, GoDownTerminated
  <2>7. CASE ContinueAfterResume
    BY <2>7 DEF ContinueAfterResume
  <2>8. CASE Resolve
    BY <2>8 DEF Resolve
  <2>9. CASE Reject
    BY <2>9 DEF Reject
  <2>10. CASE TerminateSubprocess
    <3>1. (\E i \in DOMAIN queue' : queue'[i].event = "started") => \E i \in DOMAIN queue : queue[i].event = "started"
      BY <2>10, PublishedTells DEF TerminateSubprocess, TerminateChild
    <3> QED
      BY <2>10, <3>1 DEF TerminateSubprocess
  <2>11. CASE FindCalled
    BY <2>11 DEF FindCalled, ExecuteSubprocess, Stations
  <2>12. CASE FindSubProcess
    <3>1. at'[1] \notin {"starting", "saving"} /\ place' \in {"waiting", "failing"}
      <4>1. CASE started
        BY <2>12, <4>1 DEF FindSubProcess, WaitForSubProcessResumption, Retrace
      <4>2. CASE ~started
        BY <2>12, <4>2 DEF FindSubProcess, GoDown, Phases
      <4> QED
        BY <4>1, <4>2
    <3> QED
      BY <2>12, <3>1 DEF FindSubProcess
  <2>13. CASE Close
    BY <2>13 DEF Close
  <2> QED
    BY <1>2, <2>1, <2>2, <2>3, <2>4, <2>5, <2>6, <2>7, <2>8, <2>9, <2>10, <2>11, <2>12, <2>13 DEF CallerStep
<1>3. CASE Deliver
  <2>1. (\E i \in DOMAIN queue' : queue'[i].event = "started") => \E i \in DOMAIN queue : queue[i].event = "started"
    BY <1>3 DEF Deliver, Queued
  <2>2. 1 \in DOMAIN queue /\ Head(queue) = queue[1]
    BY <1>3 DEF Deliver, Queued
  <2>3. known' => known \/ Head(queue).event = "started"
    BY <1>3 DEF Deliver, CallerHears, StartIsHeard, ClientHears, HandlerHears
  <2>4. place' = place \/ place' \in {"waiting", "resuming", "failing"}
    BY <1>3 DEF Deliver, CallerHears, StartIsHeard, ClientHears, HandlerHears, GoOn, GoDown
  <2>5. UNCHANGED <<at, kind>>
    BY <1>3 DEF Deliver
  <2> QED
    BY <2>1, <2>2, <2>3, <2>4, <2>5
<1>4. CASE Answered
  BY <1>4 DEF Answered, Answer
<1>5. CASE Refuse /\ UNCHANGED callerVars
  BY <1>5 DEF Refuse
<1>6. CASE StartAndAwaitEndEvent
  BY <1>6 DEF StartAndAwaitEndEvent
<1>7. CASE Begin
  BY <1>7 DEF Begin
<1>8. CASE Restart
  BY <1>8 DEF Restart
<1>9. CASE Interrupted
  <2>1. (\E i \in DOMAIN queue' : queue'[i].event = "started") => \E i \in DOMAIN queue : queue[i].event = "started"
    BY <1>9, PublishedTells DEF Interrupted, SendTerminationSignalToSubProcess
  <2> QED
    BY <1>9, <2>1 DEF Interrupted
<1>10. CASE UNCHANGED vars
  BY <1>10 DEF vars
<1> QED
  BY <1>1, <1>2, <1>3, <1>4, <1>5, <1>6, <1>7, <1>8, <1>9, <1>10 DEF Next, System

\* Whoever waits for a suspended task goes on waiting for it until a restart.
LEMMA AwaitStays ==
  ASSUME NEW b \in Branches, IsAwaited(b), task[b] = "suspended", task'[b] = "suspended", ~Restart,
  SuspendedFirst, Values, Work, Chains, Phases, Fresh, OrphansEnded, [Next]_vars PROVE IsAwaited(b)'
<1> USE DEF instanceVars, diagram, dbVars, runVars, callerVars, IsAwaited
<1>1. CASE Alone
  <2>1. CASE Save
    BY <2>1 DEF Save, Phases
  <2>2. CASE StartEvent
    <3>1. ~started
      BY <2>2 DEF StartEvent, Phases
    <3> QED
      BY <3>1 DEF SuspendedFirst
  <2>3. CASE \E q \in Runs : Finish(q)
    <3>1. PICK r \in Runs : Finish(r)
      BY <2>3
    <3>2. b \in Present /\ pos[r][b] \in {"idle", "waiting"}
      BY DEF SuspendedFirst
    <3> QED
      BY <3>1, <3>2 DEF Finish, AllDone
  <2>4. CASE \E q \in Runs : Fail(q)
    BY <2>4 DEF Fail
  <2>5. CASE \E q \in Runs : Load(q)
    <3>1. PICK r \in Runs : Load(r)
      BY <2>5
    <3>2. CASE ~IsOrphaned /\ started
      <4>1. Retrace(r)
        BY <3>1, <3>2 DEF Load
      <4>2. \A q \in Runs : pos[q][b] = "waiting" => pos'[q][b] = "waiting"
        BY <4>1, RetracedPos, RetracedFirst
      <4> QED
        BY <3>1, <4>2 DEF Load
    <3>3. CASE IsOrphaned \/ ~started
      BY <3>1, <3>3 DEF Load
    <3> QED
      BY <3>2, <3>3
  <2>6. CASE \E q \in Runs : FinishOrphan(q)
    <3>1. PICK r \in Runs : FinishOrphan(r)
      BY <2>6
    <3>2. b \in Present /\ Closed(b)
      BY <3>1 DEF FinishOrphan, SuspendedFirst, OrphansEnded
    <3> QED
      BY <3>2 DEF Closed, SuspendedFirst
  <2>7. CASE \E q \in Runs, c \in Branches : EnterEnd(q, c)
    <3>1. PICK r \in Runs, c \in Branches : EnterEnd(r, c)
      BY <2>7
    <3>2. \A q \in Runs : pos[q][b] = "waiting" => pos'[q][b] = "waiting"
      BY <3>1 DEF EnterEnd, Chains
    <3> QED
      BY <3>1, <3>2 DEF EnterEnd
  <2>8. CASE \E q \in Runs, c \in Branches : ExitEnd(q, c)
    <3>1. PICK r \in Runs, c \in Branches : ExitEnd(r, c)
      BY <2>8
    <3>2. \A q \in Runs : pos[q][b] = "waiting" => pos'[q][b] = "waiting"
      BY <3>1 DEF ExitEnd, Chains
    <3> QED
      BY <3>1, <3>2 DEF ExitEnd
  <2>9. CASE \E q \in Runs, c \in Branches : RegularEnd(q, c)
    <3>1. PICK r \in Runs, c \in Branches : RegularEnd(r, c)
      BY <2>9
    <3>2. \A q \in Runs : pos[q][b] = "waiting" => pos'[q][b] = "waiting"
      BY <3>1 DEF RegularEnd, Chains
    <3> QED
      BY <3>1, <3>2 DEF RegularEnd
  <2>10. CASE \E q \in Runs, c \in Branches : ErrorEnd(q, c)
    <3>1. PICK r \in Runs, c \in Branches : ErrorEnd(r, c)
      BY <2>10
    <3>2. \A q \in Runs : pos[q][b] = "waiting" => pos'[q][b] = "waiting"
      BY <3>1 DEF ErrorEnd, Chains
    <3> QED
      BY <3>1, <3>2 DEF ErrorEnd
  <2>11. CASE \E q \in Runs, c \in Branches : TerminateEnd(q, c)
    <3>1. PICK r \in Runs, c \in Branches : TerminateEnd(r, c)
      BY <2>11
    <3>2. \A q \in Runs : pos[q][b] = "waiting" => pos'[q][b] = "waiting"
      BY <3>1 DEF TerminateEnd, Chains
    <3> QED
      BY <3>1, <3>2 DEF TerminateEnd
  <2>12. CASE Return \/ (\E q \in Runs : Failed(q)) \/ (\E q \in Runs : Lookup(q))
    BY <2>12 DEF Return, Failed, Lookup
  <2> QED
    BY <1>1, <2>1, <2>2, <2>3, <2>4, <2>5, <2>6, <2>7, <2>8, <2>9, <2>10, <2>11, <2>12 DEF Alone,
       InstanceStep, RunStep
<1>2. CASE CallerStep
  <2>1. CASE WaitForSubProcessExecution
    <3>1. ~started
      BY <2>1 DEF WaitForSubProcessExecution, Fresh
    <3> QED
      BY <3>1 DEF SuspendedFirst
  <2>2. CASE FindSubProcess
    <3>1. CASE started
      <4>1. Retrace(1)
        BY <2>2, <3>1 DEF FindSubProcess, WaitForSubProcessResumption
      <4>2. \A q \in Runs : pos[q][b] = "waiting" => pos'[q][b] = "waiting"
        BY <4>1, RetracedPos, RetracedFirst DEF Runs
      <4> QED
        BY <2>2, <4>2 DEF FindSubProcess
    <3>2. CASE ~started
      BY <2>2, <3>2 DEF FindSubProcess
    <3> QED
      BY <3>1, <3>2
  <2>3. CASE ClientReturns \/ ExecuteHandler \/ Suspended \/ Refused \/ RunReturns \/ ContinueAfterResume \/
       Resolve \/ Reject \/ TerminateSubprocess \/ Close \/ FindCalled
    BY <2>3 DEF ClientReturns, ExecuteHandler, Suspended, Refused, RunReturns, ContinueAfterResume, Resolve,
       Reject, TerminateSubprocess, Close, FindCalled
  <2> QED
    BY <1>2, <2>1, <2>2, <2>3 DEF CallerStep
<1>3. CASE Deliver
  <2>1. \A r \in Runs : pos'[r][b] = pos[r][b]
    <3>1. ~\E r \in Runs : Hears(Head(queue), r, b)
      BY <1>3 DEF Deliver, TasksHear
    <3> QED
      BY <1>3, <3>1 DEF Deliver, TasksHear, Chains
  <2> QED
    BY <1>3, <2>1 DEF Deliver
<1>4. CASE Answered
  <2>1. PICK c \in Branches : Answer(c)
    BY <1>4 DEF Answered
  <2>2. c # b
    BY <2>1 DEF Answer, Work
  <2> QED
    BY <2>1, <2>2 DEF Answer, Chains
<1>5. CASE Refuse /\ UNCHANGED callerVars
  BY <1>5 DEF Refuse
<1>6. CASE StartAndAwaitEndEvent
  BY <1>6 DEF StartAndAwaitEndEvent
<1>7. CASE Begin
  BY <1>7 DEF Begin
<1>8. CASE Restart
  BY <1>8 DEF Restart
<1>9. CASE Interrupted
  BY <1>9 DEF Interrupted
<1>10. CASE UNCHANGED vars
  BY <1>10 DEF vars
<1> QED
  BY <1>1, <1>2, <1>3, <1>4, <1>5, <1>6, <1>7, <1>8, <1>9, <1>10 DEF Next, System

\* A task is suspended by the start of its instance only.
LEMMA TaskSuspends ==
  ASSUME Work, Chains, NEW b \in Branches, task'[b] = "suspended", ~StartEvent, ~WaitForSubProcessExecution,
         [Next]_vars
  PROVE task[b] = "suspended"
<1> USE DEF instanceVars, diagram, dbVars, runVars, callerVars
<1>1. CASE Alone
  <2>1. CASE StartEvent
    BY <2>1 DEF StartEvent
  <2>2. CASE Save \/ Return \/ (\E q \in Runs : Finish(q)) \/ (\E q \in Runs : Fail(q)) \/
       (\E q \in Runs : Failed(q)) \/ (\E q \in Runs : Lookup(q)) \/ (\E q \in Runs : Load(q)) \/
       (\E q \in Runs : FinishOrphan(q)) \/ (\E q \in Runs, c \in Branches : EnterEnd(q, c)) \/
       (\E q \in Runs, c \in Branches : ExitEnd(q, c)) \/ (\E q \in Runs, c \in Branches : RegularEnd(q,
       c)) \/ (\E q \in Runs, c \in Branches : ErrorEnd(q, c)) \/ (\E q \in Runs,
       c \in Branches : TerminateEnd(q, c))
    BY <2>2 DEF Save, Return, Finish, Fail, Failed, Lookup, Load, FinishOrphan, EnterEnd, ExitEnd, RegularEnd,
       ErrorEnd, TerminateEnd
  <2> QED
    BY <1>1, <2>1, <2>2 DEF Alone, InstanceStep, RunStep
<1>2. CASE CallerStep
  <2>1. CASE WaitForSubProcessExecution
    BY <2>1 DEF WaitForSubProcessExecution
  <2>2. CASE ClientReturns \/ ExecuteHandler \/ Suspended \/ Refused \/ RunReturns \/ ContinueAfterResume \/
       Resolve \/ Reject \/ TerminateSubprocess \/ Close \/ FindCalled \/ FindSubProcess
    BY <2>2 DEF ClientReturns, ExecuteHandler, Suspended, Refused, RunReturns, ContinueAfterResume, Resolve,
       Reject, TerminateSubprocess, Close, FindCalled, FindSubProcess
  <2> QED
    BY <1>2, <2>1, <2>2 DEF CallerStep
<1>3. CASE Deliver
  <2>1. task'[b] = task[b] \/ task'[b] \in {"error", "terminated"}
    BY <1>3, Heard DEF Deliver
  <2> QED
    BY <2>1
<1>4. CASE Answered
  BY <1>4 DEF Answered, Answer, Work
<1>5. CASE Refuse /\ UNCHANGED callerVars
  BY <1>5 DEF Refuse
<1>6. CASE StartAndAwaitEndEvent
  BY <1>6 DEF StartAndAwaitEndEvent
<1>7. CASE Begin
  BY <1>7 DEF Begin
<1>8. CASE Restart
  BY <1>8 DEF Restart
<1>9. CASE Interrupted
  BY <1>9 DEF Interrupted
<1>10. CASE UNCHANGED vars
  BY <1>10 DEF vars
<1> QED
  BY <1>1, <1>2, <1>3, <1>4, <1>5, <1>6, <1>7, <1>8, <1>9, <1>10 DEF Next, System

\* A run that will load the tasks waits for those that are suspended.
LEMMA LoadingGoesOn ==
  ASSUME NEW b \in Branches, at[1] \in {"looking", "loading"}, task[b] = "suspended", ~Restart,
  SuspendedFirst, Values, Work, Chains, Phases, Stations, Fresh, OrphansEnded,
    [Next]_vars PROVE IsAwaited(b)' \/ at'[1] \in {"looking", "loading"}
<1> USE DEF instanceVars, diagram, dbVars, runVars, callerVars, Values, Runs
<1>1. CASE Alone
  <2>1. CASE Save
    BY <2>1 DEF Save
  <2>2. CASE StartEvent
    BY <2>2 DEF StartEvent
  <2>3. CASE Return
    BY <2>3 DEF Return
  <2>4. CASE \E q \in Runs : Finish(q)
    BY <2>4 DEF Finish
  <2>5. CASE \E q \in Runs : Fail(q)
    BY <2>5 DEF Fail
  <2>6. CASE \E q \in Runs : Failed(q)
    BY <2>6 DEF Failed
  <2>7. CASE \E q \in Runs : Lookup(q)
    <3>1. PICK r \in Runs : Lookup(r)
      BY <2>7 DEF Runs
    <3>2. CASE r = 1 /\ proc # "running"
      <4>1. proc # "absent" /\ boot > 0
        BY <3>2 DEF Phases
      <4>2. proc # "finished"
        BY DEF OrphansEnded, Closed, SuspendedFirst
      <4> QED
        BY <3>1, <3>2, <4>1, <4>2 DEF Lookup, IsAwaited
    <3>3. CASE ~(r = 1 /\ proc # "running")
      BY <3>1, <3>3 DEF Lookup
    <3> QED
      BY <3>2, <3>3
  <2>8. CASE \E q \in Runs : Load(q)
    <3>1. PICK r \in Runs : Load(r)
      BY <2>8 DEF Runs
    <3>2. ~IsOrphaned /\ started
      BY DEF IsOrphaned, HasActiveFlowNodeInstances, SuspendedFirst
    <3>3. Retrace(r)
      BY <3>1, <3>2 DEF Load
    <3>4. pos'[r][b] = "waiting"
      BY <3>3, RetracedFirst DEF Runs
    <3> QED
      BY <3>4 DEF IsAwaited, Runs
  <2>9. CASE \E q \in Runs : FinishOrphan(q)
    BY <2>9 DEF FinishOrphan
  <2>10. CASE (\E q \in Runs, c \in Branches : EnterEnd(q, c)) \/ (\E q \in Runs, c \in Branches : ExitEnd(q,
       c)) \/ (\E q \in Runs, c \in Branches : RegularEnd(q, c)) \/ (\E q \in Runs,
       c \in Branches : ErrorEnd(q, c)) \/ (\E q \in Runs, c \in Branches : TerminateEnd(q, c))
    BY <2>10 DEF EnterEnd, ExitEnd, RegularEnd, ErrorEnd, TerminateEnd
  <2> QED
    BY <1>1, <2>1, <2>2, <2>3, <2>4, <2>5, <2>6, <2>7, <2>8, <2>9, <2>10 DEF Alone, InstanceStep, RunStep
<1>2. CASE CallerStep
  <2>1. CASE Suspended
    BY <2>1 DEF Suspended, ExecuteSubprocess, Stations
  <2>2. CASE WaitForSubProcessExecution
    BY <2>2 DEF WaitForSubProcessExecution, Phases
  <2>3. CASE FindCalled
    BY <2>3 DEF FindCalled, ExecuteSubprocess, Phases
  <2>4. CASE FindSubProcess
    <3>1. kind # "subProcess"
      BY DEF Phases
    <3> QED
      BY <2>4, <3>1 DEF FindSubProcess
  <2>5. CASE ClientReturns \/ ExecuteHandler \/ Refused \/ RunReturns \/ ContinueAfterResume \/ Resolve \/
       Reject \/ TerminateSubprocess \/ Close
    BY <2>5 DEF ClientReturns, ExecuteHandler, Refused, RunReturns, ContinueAfterResume, Resolve, Reject,
       TerminateSubprocess, Close
  <2> QED
    BY <1>2, <2>1, <2>2, <2>3, <2>4, <2>5 DEF CallerStep
<1>3. CASE Deliver
  BY <1>3 DEF Deliver
<1>4. CASE Answered
  BY <1>4 DEF Answered, Answer
<1>5. CASE Refuse /\ UNCHANGED callerVars
  BY <1>5 DEF Refuse
<1>6. CASE StartAndAwaitEndEvent
  BY <1>6 DEF StartAndAwaitEndEvent, Stations
<1>7. CASE Begin
  BY <1>7 DEF Begin
<1>8. CASE Restart
  BY <1>8 DEF Restart
<1>9. CASE Interrupted
  BY <1>9 DEF Interrupted
<1>10. CASE UNCHANGED vars
  BY <1>10 DEF vars
<1> QED
  BY <1>1, <1>2, <1>3, <1>4, <1>5, <1>6, <1>7, <1>8, <1>9, <1>10 DEF Next, System

\* A handler that will find the sub process again waits for its suspended tasks.
LEMMA FindingGoesOn ==
  ASSUME NEW b \in Branches, kind = "subProcess", boot > 0, ~known, task[b] = "suspended", ~Restart,
  SuspendedFirst, Values, Work, Chains, Fresh, KnownChild, Queued, [Next]_vars PROVE IsAwaited(b)' \/
    (kind' = "subProcess" /\ boot' > 0 /\ ~known')
<1> USE DEF instanceVars, diagram, dbVars, runVars, callerVars, Values
<1>1. CASE Alone
  BY <1>1 DEF Alone, InstanceStep, RunStep, Save, StartEvent, Return, Finish, Fail, Failed, Lookup, Load,
     FinishOrphan, EnterEnd, ExitEnd, RegularEnd, ErrorEnd, TerminateEnd
<1>2. CASE CallerStep
  <2>1. CASE WaitForSubProcessExecution
    BY <2>1 DEF WaitForSubProcessExecution, Fresh, SuspendedFirst
  <2>2. CASE FindCalled
    BY <2>2 DEF FindCalled
  <2>3. CASE FindSubProcess
    <3>1. CASE started
      <4>1. Retrace(1)
        BY <2>3, <3>1 DEF FindSubProcess, WaitForSubProcessResumption
      <4>2. pos'[1][b] = "waiting"
        BY <4>1, RetracedFirst DEF Runs
      <4> QED
        BY <4>2 DEF IsAwaited, Runs
    <3>2. CASE ~started
      BY <2>3, <3>2 DEF FindSubProcess
    <3> QED
      BY <3>1, <3>2
  <2>4. CASE ClientReturns \/ ExecuteHandler \/ Suspended \/ Refused \/ RunReturns \/ ContinueAfterResume \/
       Resolve \/ Reject \/ TerminateSubprocess \/ Close
    BY <2>4 DEF ClientReturns, ExecuteHandler, Suspended, Refused, RunReturns, ContinueAfterResume, Resolve,
       Reject, TerminateSubprocess, Close
  <2> QED
    BY <1>2, <2>1, <2>2, <2>3, <2>4 DEF CallerStep
<1>3. CASE Deliver
  <2>1. 1 \in DOMAIN queue /\ Head(queue) = queue[1]
    BY <1>3 DEF Deliver, Queued
  <2>2. Head(queue).event # "started"
    BY <2>1 DEF KnownChild
  <2> QED
    BY <1>3, <2>2 DEF Deliver, CallerHears, HandlerHears, ClientHears
<1>4. CASE Answered
  BY <1>4 DEF Answered, Answer
<1>5. CASE Refuse /\ UNCHANGED callerVars
  BY <1>5 DEF Refuse
<1>6. CASE StartAndAwaitEndEvent
  BY <1>6 DEF StartAndAwaitEndEvent
<1>7. CASE Begin
  BY <1>7 DEF Begin
<1>8. CASE Restart
  BY <1>8 DEF Restart
<1>9. CASE Interrupted
  BY <1>9 DEF Interrupted
<1>10. CASE UNCHANGED vars
  BY <1>10 DEF vars
<1> QED
  BY <1>1, <1>2, <1>3, <1>4, <1>5, <1>6, <1>7, <1>8, <1>9, <1>10 DEF Next, System

\* A suspended task is awaited, unless a restart has left it to be found again.
LEMMA Awaiting ==
  ASSUME SuspendedAwaited, SuspendedFirst, Values, Work, Chains, Begun, Phases, Stations, Fresh, KnownChild,
         Queued, OrphansEnded, [Next]_vars
  PROVE SuspendedAwaited'
<1> SUFFICES ASSUME NEW b \in Branches, task'[b] = "suspended"
             PROVE \/ IsAwaited(b)' \/ at'[1] \in {"looking", "loading"}
                   \/ (kind' = "subProcess" /\ boot' > 0 /\ ~known')
  BY DEF SuspendedAwaited
<1>1. CASE StartEvent \/ WaitForSubProcessExecution
  <2>1. b \in Present
    BY <1>1 DEF StartEvent, WaitForSubProcessExecution, Entered
  <2>2. pos'[1][b] = "waiting"
    BY <1>1, <2>1 DEF StartEvent, WaitForSubProcessExecution, EnteredBy, Chains, Runs
  <2> QED
    BY <2>2 DEF IsAwaited, Runs
<1>2. CASE Restart
  <2>1. task[b] = "suspended" /\ boot' > 0 /\ ~known' /\ UNCHANGED <<kind, proc>>
    BY <1>2 DEF Restart, Values, dbVars, diagram
  <2>2. proc # "finished"
    BY <2>1 DEF OrphansEnded, Closed, SuspendedFirst
  <2>3. kind # "subProcess" => proc # "absent"
    BY <2>1 DEF Phases, SuspendedFirst
  <2>4. kind # "subProcess" /\ proc = "running" => at'[1] = "looking"
    BY <1>2 DEF Restart, Runs
  <2> QED
    BY <2>1, <2>2, <2>3, <2>4 DEF IsAwaited, Values
<1>3. CASE ~(StartEvent \/ WaitForSubProcessExecution \/ Restart)
  <2>1. task[b] = "suspended"
    BY <1>3, TaskSuspends
  <2>2. CASE IsAwaited(b)
    BY <1>3, <2>1, <2>2, AwaitStays
  <2>3. CASE at[1] \in {"looking", "loading"}
    BY <1>3, <2>1, <2>3, LoadingGoesOn
  <2>4. CASE kind = "subProcess" /\ boot > 0 /\ ~known
    BY <1>3, <2>1, <2>4, FindingGoesOn
  <2> QED
    BY <2>1, <2>2, <2>3, <2>4 DEF SuspendedAwaited
<1> QED
  BY <1>1, <1>2, <1>3

\* An interruption has reached its child when it publishes the signal.
LEMMA BecomesTold ==
  ASSUME Told', ~Told, Values, Callers, [Next]_vars
  PROVE ((Interrupted /\ kind = "subProcess") \/ TerminateSubprocess) /\ InReach
<1> USE DEF instanceVars, diagram, dbVars, runVars, callerVars, Told, Callers
<1>1. CASE Alone
  BY <1>1 DEF Alone
<1>2. CASE CallerStep
  <2>1. CASE ClientReturns
    BY <2>1 DEF ClientReturns, Settle
  <2>2. CASE Resolve
    BY <2>2 DEF Resolve, Settle
  <2>3. CASE Reject
    BY <2>3 DEF Reject, Settle
  <2>4. CASE TerminateSubprocess
    BY <2>4 DEF TerminateSubprocess
  <2>5. CASE Close
    BY <2>5 DEF Close, Settle
  <2>6. CASE ExecuteHandler \/ Suspended \/ WaitForSubProcessExecution \/ Refused \/ RunReturns \/
       ContinueAfterResume \/ FindCalled \/ FindSubProcess
    BY <2>6 DEF ExecuteHandler, Suspended, WaitForSubProcessExecution, Refused, RunReturns,
       ContinueAfterResume, FindCalled, FindSubProcess
  <2> QED
    BY <1>2, <2>1, <2>2, <2>3, <2>4, <2>5, <2>6 DEF CallerStep
<1>3. CASE Deliver
  BY <1>3 DEF Deliver
<1>4. CASE Answered
  BY <1>4 DEF Answered, Answer
<1>5. CASE Refuse /\ UNCHANGED callerVars
  BY <1>5 DEF Refuse
<1>6. CASE StartAndAwaitEndEvent
  BY <1>6 DEF StartAndAwaitEndEvent
<1>7. CASE Begin
  BY <1>7 DEF Begin
<1>8. CASE Restart
  BY <1>8 DEF Restart
<1>9. CASE Interrupted
  BY <1>9 DEF Interrupted, InReach
<1>10. CASE UNCHANGED vars
  BY <1>10 DEF vars
<1> QED
  BY <1>1, <1>2, <1>3, <1>4, <1>5, <1>6, <1>7, <1>8, <1>9, <1>10 DEF Next, System

\* A child that was started and told of its end is not started again.
LEMMA NotBegunAgain ==
  ASSUME at[1] \notin {"starting", "saving"}, ~Childless, Told', Values, [Next]_vars
  PROVE (at'[1] \notin {"starting", "saving"} /\ ~Childless')
<1> USE DEF instanceVars, diagram, dbVars, runVars, callerVars, Values, Runs, Childless
<1>1. CASE Alone
  <2>1. CASE Save
    BY <1>1, <2>1 DEF Alone, Save
  <2>2. CASE StartEvent
    BY <1>1, <2>2 DEF Alone, StartEvent
  <2>3. CASE Return
    BY <1>1, <2>3 DEF Alone, Return
  <2>4. CASE \E r \in Runs : Finish(r)
    BY <1>1, <2>4 DEF Alone, Finish
  <2>5. CASE \E r \in Runs : Fail(r)
    BY <1>1, <2>5 DEF Alone, Fail
  <2>6. CASE \E r \in Runs : Failed(r)
    BY <1>1, <2>6 DEF Alone, Failed
  <2>7. CASE \E r \in Runs : Lookup(r)
    BY <1>1, <2>7 DEF Alone, Lookup
  <2>8. CASE \E r \in Runs : Load(r)
    <3>1. PICK r \in Runs : Load(r)
      BY <2>8 DEF Runs
    <3>2. at'[1] \in {"starting", "saving"} => at[1] \in {"starting", "saving"}
      BY <3>1 DEF Load, Retrace, RunPlaces
    <3> QED
      BY <1>1, <3>1, <3>2 DEF Load, Alone
  <2>9. CASE \E r \in Runs : FinishOrphan(r)
    BY <1>1, <2>9 DEF Alone, FinishOrphan
  <2>10. CASE (\E r \in Runs, b \in Branches : EnterEnd(r, b)) \/ (\E r \in Runs, b \in Branches : ExitEnd(r,
       b)) \/ (\E r \in Runs, b \in Branches : RegularEnd(r, b)) \/ (\E r \in Runs,
       b \in Branches : ErrorEnd(r, b)) \/ (\E r \in Runs, b \in Branches : TerminateEnd(r, b))
    BY <1>1, <2>10 DEF Alone, EnterEnd, ExitEnd, RegularEnd, ErrorEnd, TerminateEnd
  <2> QED
    BY <1>1, <2>1, <2>2, <2>3, <2>4, <2>5, <2>6, <2>7, <2>8, <2>9, <2>10 DEF Alone, InstanceStep, RunStep
<1>2. CASE CallerStep
  <2>1. CASE ClientReturns
    BY <2>1 DEF ClientReturns
  <2>2. CASE ExecuteHandler
    BY <2>2 DEF ExecuteHandler
  <2>3. CASE Suspended
    BY <2>3 DEF Suspended
  <2>4. CASE WaitForSubProcessExecution
    BY <2>4 DEF WaitForSubProcessExecution
  <2>5. CASE Refused
    BY <2>5 DEF Refused, GoDown
  <2>6. CASE RunReturns
    BY <2>6 DEF RunReturns, GoOn, GoDown, GoDownTerminated
  <2>7. CASE ContinueAfterResume
    BY <2>7 DEF ContinueAfterResume
  <2>8. CASE Resolve
    BY <2>8 DEF Resolve
  <2>9. CASE Reject
    BY <2>9 DEF Reject
  <2>10. CASE FindCalled
    BY <2>10 DEF FindCalled
  <2>11. CASE FindSubProcess
    BY <2>11 DEF FindSubProcess
  <2>12. CASE TerminateSubprocess \/ Close
    BY <2>12 DEF TerminateSubprocess, Close
  <2> QED
    BY <1>2, <2>1, <2>2, <2>3, <2>4, <2>5, <2>6, <2>7, <2>8, <2>9, <2>10, <2>11, <2>12 DEF CallerStep
<1>3. CASE Deliver
  <2>1. place' = place \/ place' \in {"waiting", "resuming", "failing"}
    BY <1>3 DEF Deliver, CallerHears, StartIsHeard, ClientHears, HandlerHears, GoOn, GoDown
  <2> QED
    BY <1>3, <2>1 DEF Deliver
<1>4. CASE Answered
  BY <1>4 DEF Answered, Answer
<1>5. CASE Refuse /\ UNCHANGED callerVars
  BY <1>5 DEF Refuse
<1>6. CASE StartAndAwaitEndEvent
  BY <1>6 DEF StartAndAwaitEndEvent
<1>7. CASE Begin
  BY <1>7 DEF Begin
<1>8. CASE Restart
  <2>1. settled' = "interrupted"
    BY <1>8 DEF Restart, Told
  <2>2. place' = "over" /\ at'[1] \in {"looking", "off"}
    BY <1>8, <2>1 DEF Restart
  <2> QED
    BY <2>2
<1>9. CASE Interrupted
  BY <1>9 DEF Interrupted
<1>10. CASE UNCHANGED vars
  BY <1>10 DEF vars
<1> QED
  BY <1>1, <1>2, <1>3, <1>4, <1>5, <1>6, <1>7, <1>8, <1>9, <1>10 DEF Next, System

\* Nobody starts or enters a child that has been told.
LEMMA TellingOnce == ASSUME ToldOnce, KnownChild, Values, Callers, [Next]_vars PROVE ToldOnce'
<1> SUFFICES ASSUME Told' PROVE at'[1] \notin {"starting", "saving"} /\ ~Childless'
  BY DEF ToldOnce
<1>1. CASE Told
  BY <1>1, NotBegunAgain DEF ToldOnce
<1>2. CASE ~Told
  <2>1. (Interrupted \/ TerminateSubprocess) /\ known
    BY <1>2, BecomesTold DEF InReach
  <2>2. UNCHANGED <<at, place>>
    BY <2>1 DEF Interrupted, TerminateSubprocess, runVars
  <2> QED
    BY <2>1, <2>2 DEF KnownChild, Childless
<1> QED
  BY <1>1, <1>2

\* Only a restart, or a handler that finds its child again, makes a run load it.
LEMMA NoNewLoading ==
  ASSUME NEW r \in Runs, at[r] \notin {"looking", "loading"}, ~Restart, place # "finding", Values, [Next]_vars
  PROVE at'[r] \notin {"looking", "loading"}
<1> USE DEF instanceVars, diagram, dbVars, runVars, callerVars, Values, Runs
<1>1. CASE Alone
  <2>1. CASE Save
    BY <2>1 DEF Save
  <2>2. CASE StartEvent
    BY <2>2 DEF StartEvent
  <2>3. CASE Return
    BY <2>3 DEF Return
  <2>4. CASE \E q \in Runs : Finish(q)
    BY <2>4 DEF Finish
  <2>5. CASE \E q \in Runs : Fail(q)
    BY <2>5 DEF Fail
  <2>6. CASE \E q \in Runs : Failed(q)
    BY <2>6 DEF Failed
  <2>7. CASE \E q \in Runs : Lookup(q)
    BY <2>7 DEF Lookup
  <2>8. CASE \E q \in Runs : Load(q)
    <3>1. PICK q \in Runs : Load(q)
      BY <2>8
    <3>2. at'[r] \in {at[r], "orphaned", "over", "running"}
      BY <3>1 DEF Load, Retrace
    <3> QED
      BY <3>2
  <2>9. CASE \E q \in Runs : FinishOrphan(q)
    BY <2>9 DEF FinishOrphan
  <2>10. CASE (\E q \in Runs, c \in Branches : EnterEnd(q, c)) \/ (\E q \in Runs, c \in Branches : ExitEnd(q,
       c)) \/ (\E q \in Runs, c \in Branches : RegularEnd(q, c)) \/ (\E q \in Runs,
       c \in Branches : ErrorEnd(q, c)) \/ (\E q \in Runs, c \in Branches : TerminateEnd(q, c))
    BY <2>10 DEF EnterEnd, ExitEnd, RegularEnd, ErrorEnd, TerminateEnd
  <2> QED
    BY <1>1, <2>1, <2>2, <2>3, <2>4, <2>5, <2>6, <2>7, <2>8, <2>9, <2>10 DEF Alone, InstanceStep, RunStep
<1>2. CASE CallerStep
  <2>1. CASE Suspended
    BY <2>1 DEF Suspended, ExecuteSubprocess
  <2>2. CASE WaitForSubProcessExecution
    BY <2>2 DEF WaitForSubProcessExecution
  <2>3. CASE FindCalled
    BY <2>3 DEF FindCalled
  <2>4. CASE FindSubProcess
    BY <2>4 DEF FindSubProcess
  <2>5. CASE ClientReturns \/ ExecuteHandler \/ Refused \/ RunReturns \/ ContinueAfterResume \/ Resolve \/
       Reject \/ TerminateSubprocess \/ Close
    BY <2>5 DEF ClientReturns, ExecuteHandler, Refused, RunReturns, ContinueAfterResume, Resolve, Reject,
       TerminateSubprocess, Close
  <2> QED
    BY <1>2, <2>1, <2>2, <2>3, <2>4, <2>5 DEF CallerStep
<1>3. CASE Deliver
  BY <1>3 DEF Deliver
<1>4. CASE Answered
  BY <1>4 DEF Answered, Answer
<1>5. CASE Refuse /\ UNCHANGED callerVars
  BY <1>5 DEF Refuse
<1>6. CASE StartAndAwaitEndEvent
  BY <1>6 DEF StartAndAwaitEndEvent
<1>7. CASE Begin
  BY <1>7 DEF Begin
<1>8. CASE Restart
  BY <1>8 DEF Restart
<1>9. CASE Interrupted
  BY <1>9 DEF Interrupted
<1>10. CASE UNCHANGED vars
  BY <1>10 DEF vars
<1> QED
  BY <1>1, <1>2, <1>3, <1>4, <1>5, <1>6, <1>7, <1>8, <1>9, <1>10 DEF Next, System

\* No task of a child that has been told is left without somebody who waits for it.
LEMMA TellingAwaited ==
  ASSUME ToldAwaited, ToldOnce, ToldAll, SuspendedAwaited, SuspendedFirst, Values, Callers, Work, Chains,
         Queued, Phases, Fresh,
         OrphansEnded, [Next]_vars
  PROVE ToldAwaited'
<1> SUFFICES ASSUME Told', NEW b \in Branches, task'[b] = "suspended"
             PROVE IsAwaited(b)' /\ \A r \in Runs : at'[r] \notin {"looking", "loading"}
  BY DEF ToldAwaited
<1>1. CASE ~Told
  <2>1. (Interrupted \/ TerminateSubprocess) /\ InReach
    BY <1>1, BecomesTold
  <2>2. UNCHANGED <<at, pos, proc, boot, task>>
    BY <2>1 DEF Interrupted, TerminateSubprocess, runVars, dbVars
  <2>3. known /\ \A r \in Runs : at[r] \notin {"looking", "loading"}
    BY <2>1 DEF InReach
  <2>4. IsAwaited(b)
    BY <2>2, <2>3 DEF SuspendedAwaited, Runs
  <2> QED
    BY <2>2, <2>3, <2>4 DEF IsAwaited
<1>2. CASE Told /\ Restart
  <2>1. task[b] = "suspended" /\ UNCHANGED proc
    BY <1>2 DEF Restart, dbVars
  <2>2. \A i \in DOMAIN queue : queue[i].tasks = {}
    BY <1>2 DEF Restart, Told
  <2>3. \A r \in Runs : pos[r][b] # "waiting"
    BY <1>2, <2>2 DEF ToldAll, Covered
  <2>4. boot > 0 /\ proc = "error"
    BY <1>2, <2>1, <2>3 DEF ToldAwaited, IsAwaited
  <2>5. boot' > 0 /\ proc' = "error" /\ \A r \in Runs : at'[r] = "off"
    BY <1>2, <2>1, <2>4 DEF Restart, Values
  <2> QED
    BY <2>5 DEF IsAwaited
<1>3. CASE Told /\ ~Restart
  <2>1. at[1] # "saving" /\ place # "suspending" /\ place # "finding"
    BY <1>3 DEF ToldOnce, Childless
  <2>2. task[b] = "suspended"
    BY <2>1, TaskSuspends DEF StartEvent, WaitForSubProcessExecution
  <2>3. IsAwaited(b) /\ \A r \in Runs : at[r] \notin {"looking", "loading"}
    BY <1>3, <2>2 DEF ToldAwaited
  <2>4. IsAwaited(b)'
    BY <1>3, <2>2, <2>3, AwaitStays
  <2>5. \A r \in Runs : at'[r] \notin {"looking", "loading"}
    BY <1>3, <2>1, <2>3, NoNewLoading
  <2> QED
    BY <2>4, <2>5
<1> QED
  BY <1>1, <1>2, <1>3

\* Who retraces its branch waits only for a suspended task.
LEMMA RetracedWaits ==
  ASSUME Chains, NEW r \in Runs, Retrace(r), NEW b \in Branches, pos'[r][b] = "waiting"
  PROVE task[b] = "suspended"
<1>1. pos'[r][b] = Resumed(b)
  BY RetracedPos
<1> QED
  BY <1>1 DEF Resumed

\* Nobody begins to wait for a task of a child that has been told.
LEMMA NoNewWaiting ==
  ASSUME NEW r \in Runs, NEW b \in Branches, pos'[r][b] = "waiting", Told, ToldOnce, ToldAwaited, Work,
         Chains, [Next]_vars
  PROVE pos[r][b] = "waiting"
<1> USE DEF instanceVars, diagram, dbVars, runVars, callerVars
<1>1. CASE Alone
  <2>1. CASE StartEvent
    BY <2>1 DEF StartEvent, ToldOnce
  <2>2. CASE \E q \in Runs : Load(q)
    <3>1. PICK q \in Runs : Load(q)
      BY <2>2
    <3>2. \A c \in Branches : task[c] # "suspended"
      BY <3>1 DEF Load, ToldAwaited
    <3>3. CASE ~IsOrphaned /\ started
      <4>1. Retrace(q)
        BY <3>1, <3>3 DEF Load
      <4>2. q # r
        BY <3>2, <4>1, RetracedWaits
      <4> QED
        BY <4>1, <4>2, RetracedPos
    <3>4. CASE IsOrphaned \/ ~started
      BY <3>1, <3>4 DEF Load
    <3> QED
      BY <3>3, <3>4
  <2>3. CASE \E q \in Runs, c \in Branches : EnterEnd(q, c)
    <3>1. PICK q \in Runs, c \in Branches : EnterEnd(q, c)
      BY <2>3
    <3> QED
      BY <3>1 DEF EnterEnd, Chains
  <2>4. CASE \E q \in Runs, c \in Branches : ExitEnd(q, c)
    <3>1. PICK q \in Runs, c \in Branches : ExitEnd(q, c)
      BY <2>4
    <3> QED
      BY <3>1 DEF ExitEnd, Chains
  <2>5. CASE \E q \in Runs, c \in Branches : RegularEnd(q, c)
    <3>1. PICK q \in Runs, c \in Branches : RegularEnd(q, c)
      BY <2>5
    <3> QED
      BY <3>1 DEF RegularEnd, Chains
  <2>6. CASE \E q \in Runs, c \in Branches : ErrorEnd(q, c)
    <3>1. PICK q \in Runs, c \in Branches : ErrorEnd(q, c)
      BY <2>6
    <3> QED
      BY <3>1 DEF ErrorEnd, Chains
  <2>7. CASE \E q \in Runs, c \in Branches : TerminateEnd(q, c)
    <3>1. PICK q \in Runs, c \in Branches : TerminateEnd(q, c)
      BY <2>7
    <3> QED
      BY <3>1 DEF TerminateEnd, Chains
  <2>8. CASE Save \/ Return \/ (\E q \in Runs : Finish(q)) \/ (\E q \in Runs : Fail(q)) \/
       (\E q \in Runs : Failed(q)) \/ (\E q \in Runs : Lookup(q)) \/ (\E q \in Runs : FinishOrphan(q))
    BY <2>8 DEF Save, Return, Finish, Fail, Failed, Lookup, FinishOrphan
  <2> QED
    BY <1>1, <2>1, <2>2, <2>3, <2>4, <2>5, <2>6, <2>7, <2>8 DEF Alone, InstanceStep, RunStep
<1>2. CASE CallerStep
  <2>1. CASE WaitForSubProcessExecution
    BY <2>1 DEF WaitForSubProcessExecution, ToldOnce, Childless
  <2>2. CASE FindSubProcess
    BY <2>2 DEF FindSubProcess, ToldOnce, Childless
  <2>3. CASE ClientReturns \/ ExecuteHandler \/ Suspended \/ Refused \/ RunReturns \/ ContinueAfterResume \/
       Resolve \/ Reject \/ TerminateSubprocess \/ Close \/ FindCalled
    BY <2>3 DEF ClientReturns, ExecuteHandler, Suspended, Refused, RunReturns, ContinueAfterResume, Resolve,
       Reject, TerminateSubprocess, Close, FindCalled
  <2> QED
    BY <1>2, <2>1, <2>2, <2>3 DEF CallerStep
<1>3. CASE Deliver
  <2>1. pos'[r][b] = pos[r][b] \/ pos'[r][b] \in {"stuck", "failed"}
    BY <1>3, Heard DEF Deliver
  <2> QED
    BY <2>1
<1>4. CASE Answered
  BY <1>4 DEF Answered, Answer, Chains
<1>5. CASE Refuse /\ UNCHANGED callerVars
  BY <1>5 DEF Refuse
<1>6. CASE StartAndAwaitEndEvent
  BY <1>6 DEF StartAndAwaitEndEvent
<1>7. CASE Begin
  BY <1>7 DEF Begin
<1>8. CASE Restart
  BY <1>8 DEF Restart
<1>9. CASE Interrupted
  BY <1>9 DEF Interrupted
<1>10. CASE UNCHANGED vars
  BY <1>10 DEF vars
<1> QED
  BY <1>1, <1>2, <1>3, <1>4, <1>5, <1>6, <1>7, <1>8, <1>9, <1>10 DEF Next, System

\* A signal on its way stays there when others are published.
LEMMA PublishedCovers ==
  ASSUME Queued, NEW event, Publish(event), NEW r \in Runs, NEW b \in Branches, Covered(r, b)
  PROVE Covered(r, b)'
<1>1. PICK i \in DOMAIN queue : <<r, b>> \in queue[i].tasks
  BY DEF Covered
<1>2. CASE queue' = Append(queue, EntryFor(event))
  <2>1. i \in DOMAIN queue' /\ queue'[i] = queue[i]
    BY <1>1, <1>2 DEF Queued
  <2> QED
    BY <1>1, <2>1 DEF Covered
<1>3. CASE queue' = queue
  BY <1>3 DEF Covered
<1> QED
  BY <1>2, <1>3, Published

\* A termination is addressed to all who wait.
LEMMA PublishedToAll ==
  ASSUME Queued, NEW event, Topic(event) = "terminated", Publish(event), NEW r \in Runs, NEW b \in Branches,
         pos[r][b] = "waiting"
  PROVE Covered(r, b)'
<1>1. <<r, b>> \in EntryFor(event).tasks
  BY DEF EntryFor, Waiting
<1>2. queue' = Append(queue, EntryFor(event))
  BY <1>1, Published
<1>3. Len(queue) + 1 \in DOMAIN queue' /\ queue'[Len(queue) + 1] = EntryFor(event)
  BY <1>2 DEF Queued
<1> QED
  BY <1>1, <1>3 DEF Covered

\* A signal is on its way until it is heard.
LEMMA CoveredStays ==
  ASSUME NEW r \in Runs, NEW b \in Branches, Covered(r, b), pos[r][b] = "waiting", pos'[r][b] = "waiting",
         ~Restart, Queued, [Next]_vars
  PROVE Covered(r, b)'
<1> USE DEF instanceVars, diagram, dbVars, runVars, callerVars, Covered
<1>1. CASE Alone
  <2>1. CASE StartEvent
    BY <2>1, PublishedCovers DEF StartEvent
  <2>2. CASE \E q \in Runs : Failed(q)
    BY <2>2, PublishedCovers DEF Failed, SendNotification
  <2>3. CASE \E q \in Runs, c \in Branches : RegularEnd(q, c)
    BY <2>3, PublishedCovers DEF RegularEnd, NotifyAboutRegularEnd
  <2>4. CASE \E q \in Runs, c \in Branches : TerminateEnd(q, c)
    BY <2>4, PublishedCovers DEF TerminateEnd, NotifyAboutTermination
  <2>5. CASE Save \/ Return \/ (\E q \in Runs : Finish(q)) \/ (\E q \in Runs : Fail(q)) \/
       (\E q \in Runs : Lookup(q)) \/ (\E q \in Runs : Load(q)) \/ (\E q \in Runs : FinishOrphan(q)) \/
       (\E q \in Runs, c \in Branches : EnterEnd(q, c)) \/ (\E q \in Runs, c \in Branches : ExitEnd(q, c)) \/
       (\E q \in Runs, c \in Branches : ErrorEnd(q, c))
    BY <2>5 DEF Save, Return, Finish, Fail, Lookup, Load, FinishOrphan, EnterEnd, ExitEnd, ErrorEnd
  <2> QED
    BY <1>1, <2>1, <2>2, <2>3, <2>4, <2>5 DEF Alone, InstanceStep, RunStep
<1>2. CASE CallerStep
  <2>1. CASE TerminateSubprocess
    BY <2>1, PublishedCovers DEF TerminateSubprocess, TerminateChild
  <2>2. CASE ClientReturns \/ ExecuteHandler \/ Suspended \/ WaitForSubProcessExecution \/ Refused \/
       RunReturns \/ ContinueAfterResume \/ Resolve \/ Reject \/ Close \/ FindCalled \/ FindSubProcess
    BY <2>2 DEF ClientReturns, ExecuteHandler, Suspended, WaitForSubProcessExecution, Refused, RunReturns,
       ContinueAfterResume, Resolve, Reject, Close, FindCalled, FindSubProcess
  <2> QED
    BY <1>2, <2>1, <2>2 DEF CallerStep
<1>3. CASE Deliver
  <2>1. PICK i \in DOMAIN queue : <<r, b>> \in queue[i].tasks
    BY DEF Covered
  <2>2. ~Hears(Head(queue), r, b)
    BY <1>3 DEF Deliver, TasksHear
  <2>3. i # 1
    BY <1>3, <2>1, <2>2 DEF Hears, Deliver, Queued
  <2>4. i - 1 \in DOMAIN queue' /\ queue'[i - 1] = queue[i]
    BY <1>3, <2>1, <2>3 DEF Deliver, Queued
  <2> QED
    BY <2>1, <2>4 DEF Covered
<1>4. CASE Answered
  BY <1>4 DEF Answered, Answer
<1>5. CASE Refuse /\ UNCHANGED callerVars
  BY <1>5 DEF Refuse
<1>6. CASE StartAndAwaitEndEvent
  BY <1>6 DEF StartAndAwaitEndEvent
<1>7. CASE Begin
  BY <1>7 DEF Begin
<1>8. CASE Restart
  BY <1>8 DEF Restart
<1>9. CASE Interrupted
  <2>1. CASE known /\ kind = "subProcess"
    BY <1>9, <2>1, PublishedCovers DEF Interrupted, SendTerminationSignalToSubProcess
  <2>2. CASE ~(known /\ kind = "subProcess")
    BY <1>9, <2>2 DEF Interrupted, Covered
  <2> QED
    BY <2>1, <2>2
<1>10. CASE UNCHANGED vars
  BY <1>10 DEF vars
<1> QED
  BY <1>1, <1>2, <1>3, <1>4, <1>5, <1>6, <1>7, <1>8, <1>9, <1>10 DEF Next, System

\* Whoever waits in a child that has been told has a signal on its way.
LEMMA TellingAll ==
  ASSUME ToldAll, ToldOnce, ToldAwaited, Values, Callers, Work, Chains, Queued, [Next]_vars
  PROVE ToldAll'
<1> SUFFICES ASSUME Told', NEW r \in Runs, NEW b \in Branches, pos'[r][b] = "waiting" PROVE Covered(r, b)'
  BY DEF ToldAll
<1>1. CASE ~Told
  <2>1. (Interrupted /\ kind = "subProcess" /\ known) \/ TerminateSubprocess
    BY <1>1, BecomesTold DEF InReach
  <2>2. pos[r][b] = "waiting"
    BY <2>1 DEF Interrupted, TerminateSubprocess, runVars
  <2>3. CASE Interrupted /\ kind = "subProcess" /\ known
    <3>1. Publish("terminatedSilently")
      BY <2>3 DEF Interrupted, SendTerminationSignalToSubProcess
    <3> QED
      BY <2>2, <3>1, PublishedToAll DEF Topic
  <2>4. CASE TerminateSubprocess
    <3>1. Publish("terminatedByParent")
      BY <2>4 DEF TerminateSubprocess, TerminateChild
    <3> QED
      BY <2>2, <3>1, PublishedToAll DEF Topic
  <2> QED
    BY <2>1, <2>3, <2>4
<1>2. CASE Told
  <2>1. pos[r][b] = "waiting"
    BY <1>2, NoNewWaiting
  <2>2. ~Restart
    BY DEF Restart
  <2> QED
    BY <1>2, <2>1, <2>2, CoveredStays DEF ToldAll
<1> QED
  BY <1>1, <1>2

\* The inductive invariant.
IInv ==
  /\ Values /\ Callers /\ Work /\ Chains /\ Queued /\ Owns /\ Begun /\ Phases /\ Stations
  /\ EndsEntered /\ OrphansEnded
  /\ FinishedTypes /\ DoneReached /\ ToldReached /\ FoundStopped /\ ReturnedDone /\ GoingOn
  /\ Fresh /\ IdleRuns /\ SuspendedFirst /\ KnownChild /\ SuspendedAwaited
  /\ ToldOnce /\ ToldAwaited /\ ToldAll

\* The parts make up the type invariant.
LEMMA TypeParts == ASSUME IInv PROVE TypeOK
<1> USE DEF IInv
<1>1. diagram \in Cases /\ started \in BOOLEAN /\ proc \in {"absent", "running", "finished", "error"}
  BY DEF Values
<1>2. boot \in 0 .. MaxRestarts /\ at \in [Runs -> RunPlaces] /\ listens \subseteq EveryEnd \cup {"started"}
  BY DEF Values
<1>3. task \in [Branches -> Rows \ {"resumed", "running"}]
  BY DEF Work, RowsOfTasks
<1>4. \A b \in Branches : \A i \in DOMAIN ends[b] : ends[b][i] \in {"running", "finished", "terminated",
    "error"}
  BY DEF Work, RowsOfEnds
<1>5. how \in [Runs -> Outcomes] /\ pos \in [Runs -> [Branches -> Positions]]
  BY DEF Chains
<1>6. \A r \in Runs, b \in Branches : mine[r][b] \in 0 .. Len(ends[b])
  BY DEF Owns, Work
<1>7. \A i \in DOMAIN queue :
        queue[i] \in [event : Events, tasks : SUBSET (Runs \X Branches), caller : BOOLEAN]
  <2>1. \A i \in DOMAIN queue : queue[i] \in Entries
    BY DEF Queued
  <2> QED
    BY <2>1 DEF Entries
<1>8. row \in Rows /\ place \in Places
  BY DEF Callers
<1>9. closing \in {"no", "reading", "closed", "over"}
  BY DEF Callers
<1>10. settled \in {"none", "resolved", "rejected", "interrupted", "lost"}
  BY DEF Callers
<1>11. {known, heard, blind} \subseteq BOOLEAN
  BY DEF Callers
<1> QED
  BY <1>1, <1>2, <1>3, <1>4, <1>5, <1>6, <1>7, <1>8, <1>9, <1>10, <1>11 DEF TypeOK

\* The invariant holds at first.
LEMMA InitHolds == ASSUME Init PROVE IInv
<1> USE DEF Init, InstanceInit
<1>1. Values
  <2>1. PICK case \in Cases : kind = case[1] /\ endType = case[2]
    OBVIOUS
  <2>2. case = <<case[1], case[2]>>
    BY InstanceAssumption
  <2>3. diagram = case
    BY <2>1, <2>2 DEF diagram
  <2>4. diagram \in Cases
    BY <2>1, <2>3
  <2>5. at \in [Runs -> RunPlaces]
    BY DEF RunPlaces
  <2>6. boot \in 0 .. MaxRestarts
    BY InstanceAssumption
  <2> QED
    BY <2>4, <2>5, <2>6 DEF Values
<1>2. Callers
  BY DEF Callers, Rows, Places
<1>3. Work
  BY DEF Work, RowsOfTasks, Rows
<1>4. Chains
  BY DEF Chains, Positions, Outcomes
<1>5. Queued
  BY DEF Queued
<1>6. Owns
  BY DEF Owns
<1>7. Begun
  BY DEF Begun
<1>8. Phases
  BY DEF Phases, Runs
<1>9. Stations
  BY DEF Stations, Runs
<1>10. EndsEntered
  BY DEF EndsEntered, Present
<1>11. OrphansEnded
  BY DEF OrphansEnded
<1>12. FinishedTypes
  BY DEF FinishedTypes, HasFinished
<1>13. DoneReached
  BY DEF DoneReached, Present
<1>14. ToldReached
  BY DEF ToldReached
<1>15. FoundStopped
  BY DEF FoundStopped, Runs
<1>16. ReturnedDone
  BY DEF ReturnedDone, Runs
<1>17. GoingOn
  BY DEF GoingOn
<1>18. Fresh /\ IdleRuns /\ KnownChild
  BY DEF Fresh, IdleRuns, KnownChild, Runs
<1>19. SuspendedFirst /\ SuspendedAwaited
  BY DEF SuspendedFirst, SuspendedAwaited, Present
<1>20. ToldOnce /\ ToldAwaited /\ ToldAll
  BY DEF ToldOnce, ToldAwaited, ToldAll, Told
<1> QED
  BY <1>1, <1>2, <1>3, <1>4, <1>5, <1>6, <1>7, <1>8, <1>9, <1>10, <1>11, <1>12, <1>13, <1>14, <1>15, <1>16,
     <1>17,
     <1>18, <1>19, <1>20 DEF IInv

\* Every step keeps it.
LEMMA StepHolds == ASSUME IInv, [Next]_vars PROVE IInv'
<1> USE DEF IInv
<1>1. Kept /\ FinishedTypes'
  BY Keeps
<1>2. Values' /\ Callers' /\ Work' /\ Chains' /\ Queued' /\ Owns'
  BY Valuing, Calling, Working, Chaining, Queueing, Owning
<1>3. Begun' /\ Phases' /\ Stations'
  BY Beginning, Phasing, Stationing
<1>4. EndsEntered' /\ OrphansEnded'
  BY Entering, Orphaning
<1>5. DoneReached' /\ ToldReached' /\ FoundStopped' /\ ReturnedDone' /\ GoingOn'
  BY <1>1, Doing, Telling, Finding, Returning, Going
<1>6. Fresh' /\ IdleRuns' /\ SuspendedFirst' /\ KnownChild' /\ SuspendedAwaited'
  BY Freshening, Idling, Suspending, Knowing, Awaiting
<1>7. ToldOnce' /\ ToldAwaited' /\ ToldAll'
  BY TellingOnce, TellingAwaited, TellingAll
<1> QED
  BY <1>1, <1>2, <1>3, <1>4, <1>5, <1>6, <1>7

\* It holds for ever.
LEMMA Inductive == Spec => []IInv
  BY InitHolds, StepHolds, PTL DEF Spec

\* Every variable keeps its type: a run works on a row that exists, and an event is
\* addressed to tasks and topics that there are.
THEOREM ProcessCallerTypes == Spec => []TypeOK
<1>1. IInv => TypeOK
  BY TypeParts
<1> QED
  BY <1>1, Inductive, PTL

\* Whatever ends, fails, is interrupted or restarted, an instance counts as finished
\* only with an end event in every branch, or a branch that a restart has dropped
\* behind its task.
THEOREM FinishedIsOver == Spec => []FinishedMeansEnded
<1>1. IInv => FinishedMeansEnded
  BY DEF IInv, OrphansEnded, Closed, FinishedMeansEnded
<1> QED
  BY <1>1, Inductive, PTL

\* No caller goes on without an end event that was reached, unless a restart made a
\* call activity find a child that is not running any more.
THEOREM GoesOnWhenEnded == Spec => []GoesOnBehindEnd
<1>1. ASSUME IInv PROVE GoesOnBehindEnd
  <2> SUFFICES ASSUME settled = "resolved" PROVE GoesOnBehindEnd
    BY DEF GoesOnBehindEnd
  <2>1. CASE Reached
    BY <2>1 DEF Reached, HasFinished, GoesOnBehindEnd
  <2>2. CASE Stopped
    BY <2>2 DEF Stopped, GoesOnBehindEnd
  <2> QED
    BY <1>1, <2>1, <2>2 DEF IInv, GoingOn, GoodEnd
<1> QED
  BY <1>1, Inductive, PTL

\* An interrupted handler leaves no task of its child behind, whatever runs at the
\* same time and is restarted afterwards, unless it could not reach the child.
THEOREM InterruptionReachesTasks == Spec => []NoChildIsLeft
<1>1. ASSUME IInv PROVE NoChildIsLeft
  <2> SUFFICES ASSUME settled = "interrupted", ~blind, Quiet
               PROVE /\ Waiting = {}
                     /\ \A b \in Branches : task[b] = "suspended" => boot > 0 /\ proc = "error"
    BY DEF NoChildIsLeft
  <2>1. Told
    BY DEF Told
  <2>2. \A r \in Runs, b \in Branches : ~Covered(r, b)
    BY DEF Quiet, Covered
  <2>3. \A r \in Runs, b \in Branches : pos[r][b] # "waiting"
    BY <1>1, <2>1, <2>2 DEF IInv, ToldAll
  <2>4. \A b \in Branches : task[b] = "suspended" => boot > 0 /\ proc = "error"
    BY <1>1, <2>1, <2>3 DEF IInv, ToldAwaited, IsAwaited
  <2>5. Waiting = {}
    BY <2>3 DEF Waiting
  <2> QED
    BY <2>4, <2>5
<1> QED
  BY <1>1, Inductive, PTL

=============================================================================
