--------------------------- MODULE FinalStateProofs ---------------------------
(***************************************************************************)
(* How an instance and its caller come to an end (ProcessCaller): proofs   *)
(* for any branches, end events and restarts.                              *)
(*                                                                         *)
(* The final state of an instance stays.  Two runs of one instance         *)
(* disagree about its end only if something divides them.  As long as      *)
(* nothing does, a task that fails does so with all the others that are    *)
(* suspended, so that nobody is left who could have the instance end.      *)
(*                                                                         *)
(* Nobody waits in vain.  A caller that waits is subscribed to an end that *)
(* no run has told yet, or the telling is on its way; a run that goes on   *)
(* has something to do, and one that is over knows how it came out.        *)
(***************************************************************************)
EXTENDS ProcessCallerProofs

Bad == {"terminated", "error"}
EndFailed == \E b \in Branches : \E i \in DOMAIN ends[b] : ends[b][i] \in Bad
TaskFailed == \E b \in Branches : task[b] \in Bad
NoneSuspended == \A b \in Branches : task[b] # "suspended"

\* What divides the runs: an end event that failed, or whose row does not tell that it is
\* one of an error; or an interruption that did not reach all of them.
Divided == EndFailed \/ (\E b \in Branches : endType[b] = "error") \/ (blind /\ closing # "no")

\* A row that has failed is one of an end event that fails.
FailedTypes ==
  \A b \in Branches : \A i \in DOMAIN ends[b] : ends[b][i] \in Bad => endType[b] \in {"invalid", "terminate"}
TerminateExits ==
  \A r \in Runs, b \in Branches : pos[r][b] = "exiting" /\ endType[b] = "terminate" => EndFailed

\* A run stands in all of its branches or in none; before the start nothing is there.
Wholly ==
  \A r \in Runs : (\E b \in Branches : pos[r][b] # "idle") => \A b \in Branches : pos[r][b] # "idle"
Unstarted ==
  /\ ~started => \A b \in Branches : task[b] = "absent"
  /\ \A i \in DOMAIN queue : queue[i].tasks # {} => started
Unborn == Childless /\ (kind = "subProcess" \/ proc = "absent") => at[1] = "off"
Undecided ==
  \A r \in Runs : at[r] \in {"off", "starting", "saving", "looking", "loading", "orphaned"} => how[r] = "none"

\* Tasks fail together, and whoever still waits for a task that has failed is divided from
\* the one that heard of it.
FailTogether == TaskFailed => NoneSuspended
WaitsForOpen == \A x \in Waiting : task[x[2]] \in Bad \cup {"suspended"}
WaitsBehind == \A x \in Waiting : task[x[2]] \in Bad => Divided

\* An event that makes tasks fail is addressed to all that are suspended, and to all who
\* wait; nobody begins to wait before it is heard.
ToldToAll ==
  \A i \in DOMAIN queue : queue[i].tasks # {} =>
    \A b \in Branches : task[b] = "suspended" =>
      \E r \in Runs : <<r, b>> \in queue[i].tasks /\ pos[r][b] = "waiting"
ToldTogether ==
  \A i \in DOMAIN queue : queue[i].tasks # {} =>
    Divided \/ (Waiting \subseteq queue[i].tasks /\ (NoneSuspended \/ InReach))

\* A run fails for a task or an end event; the state of the instance has a reason.
Failing == Divided \/ TaskFailed
FailsForReason ==
  \A r \in Runs : at[r] = "failing" \/ (at[r] = "running" /\ how[r] # "none") => Failing
FinishedForReason == proc = "finished" => \E b \in Branches : HasFinished(b)
ErrorForReason ==
  proc = "error" => Failing \/ \A r \in Runs : at[r] \notin {"running", "orphaned", "loading"}
OrphansClosed ==
  \A r \in Runs, b \in Branches : at[r] = "orphaned" /\ mine[r][b] > 0 => ends[b][mine[r][b]] # "running"

\* Who is left to write the state once it is final.
EndsOnce ==
  /\ boot = 0 => at[2] = "off"
  /\ proc \in {"finished", "error"} /\ (boot = 0 \/ kind # "callActivity") =>
       at[1] \in {"off", "failing", "over"}

EInv ==
  /\ FailedTypes /\ TerminateExits /\ Wholly /\ Unstarted /\ Unborn /\ Undecided
  /\ FailTogether /\ WaitsForOpen /\ WaitsBehind /\ ToldToAll /\ ToldTogether
  /\ FailsForReason /\ FinishedForReason /\ ErrorForReason /\ OrphansClosed /\ EndsOnce

-----------------------------------------------------------------------------
(* The steps by what they do                                               *)

Branching(r, b) ==
  EnterEnd(r, b) \/ ExitEnd(r, b) \/ RegularEnd(r, b) \/ ErrorEnd(r, b) \/ TerminateEnd(r, b)
Begins ==
  /\ (StartEvent /\ UNCHANGED callerVars) \/ WaitForSubProcessExecution
  /\ ~started /\ at[2] = "off"
Retraces(r) ==
  /\ Retrace(r) /\ started
  /\ UNCHANGED <<diagram, dbVars, boot, queue, closing, blind>>
  /\ at[r] = "loading" \/ (r = 1 /\ place = "finding" /\ kind = "subProcess")

\* Nothing happens to the rows, nor to the places of the runs in their branches.
Steady ==
  /\ UNCHANGED <<diagram, boot, started, task, ends, pos, queue, blind>>
  /\ closing' = "no" <=> closing = "no"

\* Every step is one of these, for the rows and for where the runs stand in the branches.
LEMMA StepKinds ==
  ASSUME IInv, [Next]_vars
  PROVE \/ Restart \/ Begins \/ Deliver \/ Interrupted \/ TerminateSubprocess \/ Steady
        \/ \E r \in Runs : Retraces(r)
        \/ \E b \in Branches : Answer(b) /\ UNCHANGED callerVars
        \/ \E r \in Runs : Failed(r) /\ UNCHANGED callerVars
        \/ \E r \in Runs, b \in Branches : Branching(r, b) /\ UNCHANGED callerVars
<1> USE DEF instanceVars, diagram, dbVars, runVars, callerVars
<1>1. CASE Alone
  <2>1. CASE StartEvent
    BY <1>1, <2>1 DEF Alone, Begins, StartEvent, IInv, Phases
  <2>2. CASE \E r \in Runs : Load(r)
    <3>1. PICK r \in Runs : Load(r)
      BY <2>2
    <3>2. CASE ~IsOrphaned /\ started
      BY <1>1, <3>1, <3>2 DEF Alone, Load, Retraces, Retrace
    <3>3. CASE IsOrphaned \/ ~started
      BY <1>1, <3>1, <3>3 DEF Alone, Load, Steady
    <3> QED
      BY <3>2, <3>3
  <2>3. CASE \E r \in Runs : Failed(r)
    BY <1>1, <2>3 DEF Alone
  <2>4. CASE \E r \in Runs, b \in Branches : Branching(r, b)
    BY <1>1, <2>4 DEF Alone
  <2>5. CASE Save \/ Return \/ (\E r \in Runs : Finish(r)) \/ (\E r \in Runs : Fail(r)) \/
       (\E r \in Runs : Lookup(r)) \/ (\E r \in Runs : FinishOrphan(r))
    BY <1>1, <2>5 DEF Alone, Save, Return, Finish, Fail, Lookup, FinishOrphan, Steady
  <2> QED
    BY <1>1, <2>1, <2>2, <2>3, <2>4, <2>5 DEF Alone, InstanceStep, RunStep, Branching
<1>2. CASE CallerStep
  <2>1. CASE WaitForSubProcessExecution
    BY <2>1 DEF WaitForSubProcessExecution, Begins, IInv, Fresh, Phases
  <2>2. CASE FindSubProcess
    <3>1. CASE started
      <4>1. Retraces(1)
        BY <2>2, <3>1 DEF FindSubProcess, WaitForSubProcessResumption, Retraces, Retrace
      <4> QED
        BY <4>1 DEF Runs
    <3>2. CASE ~started
      BY <2>2, <3>2 DEF FindSubProcess, Steady
    <3> QED
      BY <3>1, <3>2
  <2>3. CASE Close
    BY <2>3 DEF Close, Steady
  <2>4. CASE ClientReturns \/ ExecuteHandler \/ Suspended \/ Refused \/ RunReturns \/ ContinueAfterResume \/
       Resolve \/ Reject \/ FindCalled
    BY <2>4 DEF ClientReturns, ExecuteHandler, Suspended, Refused, RunReturns, ContinueAfterResume, Resolve,
       Reject, FindCalled, Steady
  <2> QED
    BY <1>2, <2>1, <2>2, <2>3, <2>4 DEF CallerStep
<1>3. CASE Answered
  BY <1>3 DEF Answered
<1>4. CASE (Refuse /\ UNCHANGED callerVars) \/ StartAndAwaitEndEvent \/ Begin
  BY <1>4 DEF Refuse, StartAndAwaitEndEvent, Begin, Steady
<1>5. CASE UNCHANGED vars
  BY <1>5 DEF vars, Steady
<1> QED
  BY <1>1, <1>2, <1>3, <1>4, <1>5 DEF Next, System

\* What a step of a run in one branch leaves alone.
LEMMA BranchStep ==
  ASSUME IInv, NEW r \in Runs, NEW c \in Branches, Branching(r, c), UNCHANGED callerVars
  PROVE /\ UNCHANGED <<diagram, boot, started, task, at, proc, known, blind, closing, place>>
        /\ task[c] # "suspended"
        /\ pos[r][c] \in {"leaving", "ending", "exiting"}
        /\ pos'[r][c] \in {"ending", "exiting", "done", "failed"}
        /\ \A q \in Runs, b \in Branches : q # r \/ b # c => pos'[q][b] = pos[q][b]
<1> USE DEF diagram, dbVars, callerVars, Branching
<1>1. UNCHANGED <<diagram, boot, started, task, at, proc, known, blind, closing, place>>
  BY DEF EnterEnd, ExitEnd, RegularEnd, ErrorEnd, TerminateEnd
<1>2. pos[r][c] \in {"leaving", "ending", "exiting"}
  BY DEF EnterEnd, ExitEnd, RegularEnd, ErrorEnd, TerminateEnd
<1>3. pos \in [Runs -> [Branches -> Positions]]
  BY DEF IInv, Chains
<1>4. \E p \in {"ending", "exiting", "done", "failed"} : pos' = [pos EXCEPT ![r][c] = p]
  BY DEF EnterEnd, ExitEnd, RegularEnd, ErrorEnd, TerminateEnd
<1>5. /\ pos'[r][c] \in {"ending", "exiting", "done", "failed"}
      /\ \A q \in Runs, b \in Branches : q # r \/ b # c => pos'[q][b] = pos[q][b]
  BY <1>3, <1>4
<1>6. task[c] # "suspended"
  BY <1>2 DEF IInv, SuspendedFirst
<1> QED
  BY <1>1, <1>2, <1>5, <1>6

\* What the beginning of an instance does.
LEMMA Beginnings ==
  ASSUME IInv, Begins
  PROVE /\ started' /\ task' = Entered /\ pos' = EnteredBy(1)
        /\ UNCHANGED <<diagram, boot, proc, ends, mine, how, blind, closing>>
        /\ at' = [at EXCEPT ![1] = "running"] /\ at[1] \in {"off", "saving", "over", "running"}
        /\ \A b \in Branches : ends[b] = <<>> /\ \A r \in Runs : pos[r][b] = "idle"
        /\ \A b \in Branches : \A r \in Runs : pos'[r][b] \in {"idle", "waiting", "done"}
<1> USE DEF Begins, diagram, callerVars
<1>1. /\ started' /\ task' = Entered /\ pos' = EnteredBy(1)
      /\ UNCHANGED <<diagram, boot, proc, ends, mine, how, blind, closing>>
      /\ at' = [at EXCEPT ![1] = "running"]
  BY DEF StartEvent, WaitForSubProcessExecution
<1>2. at[1] \in {"off", "saving", "over", "running"}
  BY DEF StartEvent, WaitForSubProcessExecution, IInv, Phases
<1>3. \A b \in Branches : ends[b] = <<>> /\ \A r \in Runs : pos[r][b] = "idle"
  BY DEF IInv, Begun
<1>4. pos \in [Runs -> [Branches -> Positions]]
  BY DEF IInv, Chains
<1>5. \A b \in Branches : \A r \in Runs : pos'[r][b] \in {"idle", "waiting", "done"}
  BY <1>1, <1>3, <1>4 DEF EnteredBy, Runs
<1> QED
  BY <1>1, <1>2, <1>3, <1>5

-----------------------------------------------------------------------------
(* Rows                                                                    *)

\* The row of an end event is never opened again, and one that has failed never finishes.
LEMMA EndRows ==
  ASSUME IInv, FailedTypes, [Next]_vars
  PROVE \A b \in Branches :
          /\ \A i \in DOMAIN ends[b] :
               /\ i \in DOMAIN ends'[b]
               /\ ends[b][i] # "running" => ends'[b][i] # "running"
               /\ ends[b][i] \in Bad => ends'[b][i] \in Bad
          /\ \A i \in DOMAIN ends'[b] : ends'[b][i] \in Bad => endType[b] \in {"invalid", "terminate"}
<1> DEFINE Rightly(b) ==
      /\ \A i \in DOMAIN ends[b] :
           /\ i \in DOMAIN ends'[b]
           /\ ends[b][i] # "running" => ends'[b][i] # "running"
           /\ ends[b][i] \in Bad => ends'[b][i] \in Bad
      /\ \A i \in DOMAIN ends'[b] : ends'[b][i] \in Bad => endType[b] \in {"invalid", "terminate"}
<1>1. ASSUME UNCHANGED ends, NEW b \in Branches PROVE Rightly(b)
  BY <1>1 DEF FailedTypes
<1>2. ASSUME NEW r \in Runs, NEW c \in Branches, EnterEnd(r, c), NEW b \in Branches PROVE Rightly(b)
  <2>1. CASE b # c
    BY <1>2, <2>1 DEF EnterEnd, FailedTypes
  <2>2. CASE b = c
    <3>1. ends'[c] = Append(ends[c], "running") /\ ends[c] \in Seq(RowsOfEnds)
      BY <1>2 DEF EnterEnd, IInv, Work
    <3>2. DOMAIN ends'[c] = DOMAIN ends[c] \cup {Len(ends[c]) + 1}
      BY <3>1
    <3>3. \A i \in DOMAIN ends[c] : ends'[c][i] = ends[c][i]
      BY <3>1
    <3>4. ends'[c][Len(ends[c]) + 1] = "running"
      BY <3>1
    <3> QED
      BY <2>2, <3>2, <3>3, <3>4 DEF FailedTypes, Bad
  <2> QED
    BY <2>1, <2>2
<1>3. ASSUME NEW r \in Runs, NEW c \in Branches, ExitEnd(r, c), NEW b \in Branches PROVE Rightly(b)
  <2>1. CASE b # c
    BY <1>3, <2>1 DEF ExitEnd, FailedTypes
  <2>2. CASE b = c
    <3> DEFINE left == CASE endType[c] = "invalid" -> "error"
                         [] endType[c] = "terminate" -> "terminated"
                         [] OTHER -> "finished"
    <3>1. ends'[c] = [ends[c] EXCEPT ![mine[r][c]] = left]
      BY <1>3 DEF ExitEnd, IInv, Work
    <3>2. left \in Bad <=> endType[c] \in {"invalid", "terminate"}
      BY DEF Bad
    <3>3. left # "running"
      OBVIOUS
    <3> HIDE DEF left
    <3>4. DOMAIN ends'[c] = DOMAIN ends[c]
      BY <3>1
    <3>5. \A i \in DOMAIN ends[c] : ends'[c][i] = IF i = mine[r][c] THEN left ELSE ends[c][i]
      BY <3>1
    <3> QED
      BY <2>2, <3>2, <3>3, <3>4, <3>5 DEF FailedTypes
  <2> QED
    BY <2>1, <2>2
<1>4. \A b \in Branches : Rightly(b)
  BY <1>1, <1>2, <1>3, EndsChange
<1> QED
  BY <1>4

\* So an end event that has failed has failed for ever.
LEMMA EndStaysFailed == ASSUME IInv, FailedTypes, [Next]_vars PROVE FailedTypes' /\ (EndFailed => EndFailed')
<1>1. \A b \in Branches : endType'[b] = endType[b]
  BY Keeps DEF IInv, Kept, diagram
<1> QED
  BY <1>1, EndRows DEF FailedTypes, EndFailed

\* The row that ExitEnd leaves.
LEMMA ExitLeaves ==
  ASSUME IInv, NEW r \in Runs, NEW b \in Branches, ExitEnd(r, b), endType[b] \in {"invalid", "terminate"}
  PROVE EndFailed'
<1>1. mine[r][b] \in DOMAIN ends[b]
  BY DEF ExitEnd, IInv, Owns, Work
<1>2. ends'[b] = [ends[b] EXCEPT ![mine[r][b]] = IF endType[b] = "invalid" THEN "error" ELSE "terminated"]
  BY DEF ExitEnd, IInv, Work
<1>3. mine[r][b] \in DOMAIN ends'[b] /\ ends'[b][mine[r][b]] \in Bad
  BY <1>1, <1>2 DEF Bad
<1> QED
  BY <1>3 DEF EndFailed

\* Whoever leaves a terminate end event has persisted that it did.
LEMMA TerminatingExits ==
  ASSUME IInv, FailedTypes, TerminateExits, [Next]_vars
  PROVE TerminateExits'
<1> SUFFICES ASSUME NEW r \in Runs, NEW b \in Branches, pos'[r][b] = "exiting", endType'[b] = "terminate"
             PROVE EndFailed'
  BY DEF TerminateExits
<1> USE DEF diagram
<1>1. endType' = endType
  BY Keeps DEF IInv, Kept
<1>2. CASE pos[r][b] = "exiting"
  BY <1>1, <1>2, EndStaysFailed DEF TerminateExits
<1>3. CASE pos[r][b] # "exiting"
  <2>1. ASSUME NEW q \in Runs, NEW c \in Branches, Branching(q, c), UNCHANGED callerVars PROVE EndFailed'
    <3>1. q = r /\ c = b
      BY <1>3, <2>1, BranchStep
    <3>2. ExitEnd(r, b)
      BY <2>1, <3>1 DEF Branching, EnterEnd, RegularEnd, ErrorEnd, TerminateEnd, IInv, Chains
    <3> QED
      BY <1>1, <3>2, ExitLeaves
  <2>2. ~\E q \in Runs : Retraces(q)
    <3>1. ASSUME NEW q \in Runs, Retraces(q) PROVE FALSE
      BY <1>3, <3>1, RetracedPos DEF Retraces, IInv, Resumed
    <3> QED
      BY <3>1
  <2>3. ~Begins
    BY Beginnings
  <2>4. ~Deliver
    BY <1>3, Heard DEF Deliver, IInv
  <2>5. ~\E c \in Branches : Answer(c)
    BY <1>3 DEF Answer, IInv, Chains
  <2>6. ~Restart /\ ~Interrupted /\ ~TerminateSubprocess /\ ~Steady /\ ~\E q \in Runs : Failed(q)
    BY <1>3 DEF Restart, Interrupted, TerminateSubprocess, Steady, Failed, runVars
  <2> QED
    BY <2>1, <2>2, <2>3, <2>4, <2>5, <2>6, StepKinds
<1> QED
  BY <1>2, <1>3

\* A run that stands in a branch stands in every one.
LEMMA StandingWholly == ASSUME IInv, Wholly, [Next]_vars PROVE Wholly'
<1> SUFFICES ASSUME NEW r \in Runs, NEW b \in Branches, pos'[r][b] # "idle", NEW c \in Branches
             PROVE pos'[r][c] # "idle"
  BY DEF Wholly
<1>1. CASE pos[r] = pos'[r]
  BY <1>1 DEF Wholly
<1>2. CASE Begins
  BY <1>2, Beginnings DEF EnteredBy, Runs, IInv, Chains
<1>3. CASE \E q \in Runs : Retraces(q)
  <2>1. PICK q \in Runs : Retraces(q)
    BY <1>3
  <2>2. \A d \in Branches : pos'[r][d] = IF q = r THEN Resumed(d) ELSE pos[r][d]
    BY <2>1, RetracedPos DEF Retraces, IInv
  <2> QED
    BY <2>2 DEF Wholly, Resumed
<1>4. CASE Deliver
  <2>1. \A d \in Branches : pos'[r][d] = pos[r][d] \/ (pos[r][d] = "waiting" /\ pos'[r][d] \in {"stuck", "failed"})
    BY <1>4, Heard DEF Deliver, IInv
  <2> QED
    BY <2>1 DEF Wholly
<1>5. CASE \E d \in Branches : Answer(d)
  BY <1>5 DEF Answer, IInv, Chains, Wholly
<1>6. CASE \E q \in Runs, d \in Branches : Branching(q, d) /\ UNCHANGED callerVars
  <2>1. PICK q \in Runs, d \in Branches : Branching(q, d) /\ UNCHANGED callerVars
    BY <1>6
  <2>2. \A e \in Branches : pos'[r][e] = pos[r][e] \/ (pos[r][e] # "idle" /\ pos'[r][e] # "idle")
    BY <2>1, BranchStep
  <2> QED
    BY <2>2 DEF Wholly
<1>7. CASE Restart
  BY <1>7 DEF Restart
<1>8. CASE Interrupted \/ TerminateSubprocess \/ Steady \/ (\E q \in Runs : Failed(q))
  BY <1>1, <1>8 DEF Interrupted, TerminateSubprocess, Steady, Failed, runVars
<1> QED
  BY <1>2, <1>3, <1>4, <1>5, <1>6, <1>7, <1>8, StepKinds

-----------------------------------------------------------------------------
(* What stays                                                              *)

\* What divides the runs divides them until the next restart.
LEMMA DividedStays ==
  ASSUME IInv, FailedTypes, Divided, ~Restart, [Next]_vars
  PROVE Divided'
<1> USE DEF callerVars
<1>1. \A b \in Branches : endType'[b] = endType[b]
  BY Keeps DEF IInv, Kept, diagram
<1>2. ASSUME blind, closing # "no" PROVE blind' /\ closing' # "no"
  <2>1. ~Interrupted
    BY <1>2 DEF Interrupted
  <2>2. CASE Begins
    BY <1>2, <2>2, Beginnings
  <2>3. CASE Deliver
    BY <1>2, <2>3 DEF Deliver
  <2>4. CASE TerminateSubprocess
    BY <1>2, <2>4 DEF TerminateSubprocess
  <2>5. CASE Steady
    BY <1>2, <2>5 DEF Steady
  <2>6. CASE \E r \in Runs : Retraces(r)
    BY <1>2, <2>6 DEF Retraces
  <2>7. CASE UNCHANGED callerVars
    BY <1>2, <2>7
  <2> QED
    BY <2>1, <2>2, <2>3, <2>4, <2>5, <2>6, <2>7, StepKinds
<1> QED
  BY <1>1, <1>2, EndStaysFailed DEF Divided

\* A task that fails was waited for and was heard to fail; one that has failed stays so,
\* unless it is answered.
LEMMA TasksChange ==
  ASSUME IInv, [Next]_vars, ~Begins, NEW b \in Branches
  PROVE \/ task'[b] = task[b]
        \/ Answer(b) /\ task'[b] = "finished"
        \/ Deliver /\ task'[b] \in Bad /\ \E r \in Runs : Hears(Head(queue), r, b)
<1>1. CASE Deliver
  BY <1>1 DEF Deliver, TasksHear, Bad
<1>2. CASE \E c \in Branches : Answer(c)
  <2>1. PICK c \in Branches : Answer(c)
    BY <1>2
  <2>2. task \in [Branches -> RowsOfTasks] /\ task' = [task EXCEPT ![c] = "finished"]
    BY <2>1 DEF Answer, IInv, Work
  <2>3. CASE b = c
    BY <2>1, <2>2, <2>3
  <2>4. CASE b # c
    BY <2>2, <2>4
  <2> QED
    BY <2>3, <2>4
<1>3. CASE \E r \in Runs, c \in Branches : Branching(r, c) /\ UNCHANGED callerVars
  BY <1>3, BranchStep
<1>4. CASE Restart \/ Interrupted \/ TerminateSubprocess \/ Steady \/ (\E r \in Runs : Retraces(r)) \/
     \E r \in Runs : Failed(r)
  BY <1>4 DEF Restart, Interrupted, TerminateSubprocess, Steady, Retraces, Failed, dbVars
<1> QED
  BY <1>1, <1>2, <1>3, <1>4, StepKinds

\* The reason for which a run fails.
LEMMA FailingStays ==
  ASSUME IInv, FailedTypes, Unstarted, WaitsBehind, Failing, ~Restart, [Next]_vars
  PROVE Failing'
<1>1. CASE Divided
  BY <1>1, DividedStays DEF Failing
<1>2. CASE TaskFailed /\ ~Divided
  <2>1. PICK b \in Branches : task[b] \in Bad
    BY <1>2 DEF TaskFailed
  <2>2. ~Begins
    BY <2>1 DEF Begins, Unstarted, Bad
  <2>3. ~Answer(b)
    <3>1. ASSUME NEW r \in Runs, pos[r][b] = "waiting" PROVE FALSE
      <4>1. <<r, b>> \in Waiting
        BY <3>1 DEF Waiting
      <4> QED
        BY <1>2, <2>1, <4>1 DEF WaitsBehind
    <3> QED
      BY <3>1 DEF Answer
  <2>4. task'[b] \in Bad
    BY <2>1, <2>2, <2>3, TasksChange
  <2> QED
    BY <2>4 DEF Failing, TaskFailed
<1> QED
  BY <1>1, <1>2 DEF Failing

\* An instance that has started does not suspend another task.
LEMMA NoneIsSuspended ==
  ASSUME IInv, started, NEW b \in Branches, task'[b] = "suspended", [Next]_vars
  PROVE task[b] = "suspended"
<1>1. ~StartEvent
  BY DEF StartEvent, IInv, Phases
<1>2. ~WaitForSubProcessExecution
  BY DEF WaitForSubProcessExecution, IInv, Fresh
<1> QED
  BY <1>1, <1>2, TaskSuspends DEF IInv

\* A child that is in reach stays so.
LEMMA ReachStays ==
  ASSUME IInv, InReach, ~Restart, [Next]_vars
  PROVE InReach'
<1> USE DEF instanceVars, callerVars
<1>1. place # "finding"
  BY DEF InReach, IInv, KnownChild, Childless
<1>2. \A r \in Runs : at'[r] \notin {"looking", "loading"}
  BY <1>1, NoNewLoading DEF IInv, InReach
<1>3. known'
  <2>1. known
    BY DEF InReach
  <2>2. CASE Alone
    BY <2>1, <2>2 DEF Alone
  <2>3. CASE CallerStep
    BY <2>1, <2>3 DEF CallerStep, ClientReturns, ExecuteHandler, Suspended, WaitForSubProcessExecution, Refused,
       RunReturns, ContinueAfterResume, Resolve, Reject, TerminateSubprocess, Close, FindCalled, FindSubProcess
  <2>4. CASE Deliver
    BY <2>1, <2>4 DEF Deliver, CallerHears, StartIsHeard, ClientHears, HandlerHears
  <2>5. CASE Answered \/ (Refuse /\ UNCHANGED callerVars) \/ StartAndAwaitEndEvent \/ Begin \/ Interrupted \/
       UNCHANGED vars
    BY <2>1, <2>5 DEF Answered, StartAndAwaitEndEvent, Begin, Interrupted, vars
  <2> QED
    BY <2>2, <2>3, <2>4, <2>5 DEF Next, System
<1> QED
  BY <1>2, <1>3 DEF InReach

\* Whoever waits for a suspended task goes on waiting.
LEMMA WaitsOn ==
  ASSUME IInv, NEW r \in Runs, NEW b \in Branches, pos[r][b] = "waiting", task'[b] = "suspended", ~Restart,
         [Next]_vars
  PROVE pos'[r][b] = "waiting"
<1> USE DEF callerVars
<1>1. CASE Begins
  BY <1>1, Beginnings
<1>2. CASE Deliver
  <2>1. ~Hears(Head(queue), r, b)
    BY <1>2 DEF Deliver, TasksHear
  <2> QED
    BY <1>2, <2>1 DEF Deliver, TasksHear
<1>3. CASE \E q \in Runs : Retraces(q)
  <2>1. PICK q \in Runs : Retraces(q)
    BY <1>3
  <2>2. task[b] = "suspended"
    BY <2>1 DEF Retraces, dbVars
  <2> QED
    BY <2>1, <2>2, RetracedPos, RetracedFirst DEF Retraces, IInv
<1>4. CASE \E c \in Branches : Answer(c)
  BY <1>4 DEF Answer, IInv, Work, Chains
<1>5. CASE \E q \in Runs, c \in Branches : Branching(q, c) /\ UNCHANGED callerVars
  BY <1>5, BranchStep
<1>6. CASE Interrupted \/ TerminateSubprocess \/ Steady \/ (\E q \in Runs : Failed(q))
  BY <1>6 DEF Interrupted, TerminateSubprocess, Steady, Failed, runVars
<1> QED
  BY <1>1, <1>2, <1>3, <1>4, <1>5, <1>6, StepKinds

\* Whoever waits was waiting before, or begins to do so, for a suspended task.
LEMMA WaitsBefore ==
  ASSUME IInv, NEW r \in Runs, NEW b \in Branches, pos'[r][b] = "waiting", [Next]_vars
  PROVE \/ pos[r][b] = "waiting"
        \/ Begins /\ task'[b] = "suspended"
        \/ Retraces(r) /\ task[b] = "suspended"
<1> USE DEF callerVars
<1>1. CASE Begins
  BY <1>1, Beginnings DEF EnteredBy, Entered, Runs, IInv, Chains
<1>2. CASE Deliver
  BY <1>2, Heard DEF Deliver, IInv
<1>3. CASE \E q \in Runs : Retraces(q)
  BY <1>3, RetracedPos, RetracedWaits DEF Retraces, IInv
<1>4. CASE \E c \in Branches : Answer(c)
  BY <1>4 DEF Answer, IInv, Chains
<1>5. CASE \E q \in Runs, c \in Branches : Branching(q, c) /\ UNCHANGED callerVars
  BY <1>5, BranchStep
<1>6. CASE Restart
  BY <1>6 DEF Restart
<1>7. CASE Interrupted \/ TerminateSubprocess \/ Steady \/ (\E q \in Runs : Failed(q))
  BY <1>7 DEF Interrupted, TerminateSubprocess, Steady, Failed, runVars
<1> QED
  BY <1>1, <1>2, <1>3, <1>4, <1>5, <1>6, <1>7, StepKinds

\* An event for the tasks was on its way, or is published to all who wait.
LEMMA NewEntry ==
  ASSUME IInv, [Next]_vars, NEW i \in DOMAIN queue', queue'[i].tasks # {}
  PROVE \/ \E j \in DOMAIN queue : queue'[i] = queue[j] /\ (Deliver => j > 1)
        \/ /\ queue'[i].tasks = Waiting
           /\ UNCHANGED <<pos, task>> \/ \E r \in Runs, b \in Branches : TerminateEnd(r, b) /\ UNCHANGED callerVars
           /\ \/ \E r \in Runs : Failed(r) /\ UNCHANGED callerVars
              \/ \E r \in Runs, b \in Branches : TerminateEnd(r, b) /\ UNCHANGED callerVars
              \/ Interrupted \/ TerminateSubprocess
<1> DEFINE Old == \E j \in DOMAIN queue : queue'[i] = queue[j]
<1> USE DEF callerVars, runVars, dbVars
<1>1. ASSUME NEW event, Publish(event) PROVE Old \/ queue'[i].tasks = Waiting
  <2>1. CASE queue' = queue
    BY <2>1
  <2>2. CASE queue' = Append(queue, EntryFor(event))
    <3>1. DOMAIN queue' = DOMAIN queue \cup {Len(queue) + 1}
      BY <2>2 DEF IInv, Queued
    <3>2. \A j \in DOMAIN queue : queue'[j] = queue[j]
      BY <2>2 DEF IInv, Queued
    <3>3. queue'[Len(queue) + 1] = EntryFor(event)
      BY <2>2 DEF IInv, Queued
    <3> QED
      BY <3>1, <3>2, <3>3 DEF EntryFor
  <2> QED
    BY <1>1, <2>1, <2>2, Published
<1>2. ASSUME NEW event, Publish(event), Topic(event) \notin {"errored", "terminated"} PROVE Old
  <2>1. CASE queue' = queue
    BY <2>1
  <2>2. CASE queue' = Append(queue, EntryFor(event))
    <3>1. DOMAIN queue' = DOMAIN queue \cup {Len(queue) + 1}
      BY <2>2 DEF IInv, Queued
    <3>2. \A j \in DOMAIN queue : queue'[j] = queue[j]
      BY <2>2 DEF IInv, Queued
    <3>3. queue'[Len(queue) + 1].tasks = {}
      BY <1>2, <2>2 DEF IInv, Queued, EntryFor
    <3> QED
      BY <3>1, <3>2, <3>3
  <2> QED
    BY <1>2, <2>1, <2>2, Published
<1>3. CASE Deliver
  <2>1. i + 1 \in DOMAIN queue /\ queue'[i] = queue[i + 1] /\ i + 1 > 1
    BY <1>3 DEF Deliver, IInv, Queued
  <2> QED
    BY <2>1
<1>4. CASE Begins
  <2>1. Old
    BY <1>2, <1>4 DEF Begins, StartEvent, WaitForSubProcessExecution, Topic
  <2> QED
    BY <1>4, <2>1 DEF Begins, Deliver, StartEvent, WaitForSubProcessExecution, instanceVars
<1>5. CASE Restart
  BY <1>5 DEF Restart
<1>6. CASE \E r \in Runs : Failed(r) /\ UNCHANGED callerVars
  BY <1>1, <1>6, <1>3 DEF Failed, SendNotification
<1>7. CASE Interrupted
  BY <1>1, <1>7, <1>3 DEF Interrupted, SendTerminationSignalToSubProcess
<1>8. CASE TerminateSubprocess
  BY <1>1, <1>8, <1>3 DEF TerminateSubprocess, TerminateChild
<1>9. CASE \E r \in Runs, b \in Branches : Branching(r, b) /\ UNCHANGED callerVars
  <2>1. PICK r \in Runs, b \in Branches : Branching(r, b) /\ UNCHANGED callerVars
    BY <1>9
  <2>2. CASE TerminateEnd(r, b)
    BY <1>1, <2>1, <2>2, <1>3 DEF TerminateEnd, NotifyAboutTermination
  <2>3. CASE RegularEnd(r, b)
    BY <1>2, <2>3, <1>3 DEF RegularEnd, NotifyAboutRegularEnd, Topic
  <2>4. CASE EnterEnd(r, b) \/ ExitEnd(r, b) \/ ErrorEnd(r, b)
    BY <2>4, <1>3 DEF EnterEnd, ExitEnd, ErrorEnd
  <2> QED
    BY <2>1, <2>2, <2>3, <2>4 DEF Branching
<1>10. CASE Steady \/ (\E r \in Runs : Retraces(r)) \/ \E b \in Branches : Answer(b)
  BY <1>10, <1>3 DEF Steady, Retraces, Answer
<1> QED
  BY <1>3, <1>4, <1>5, <1>6, <1>7, <1>8, <1>9, <1>10, StepKinds

-----------------------------------------------------------------------------
(* Tasks                                                                   *)

\* Who waits has been started.
LEMMA WaitingStarted == ASSUME IInv, Waiting # {} PROVE started
<1>1. PICK r \in Runs, b \in Branches : pos[r][b] = "waiting"
  BY DEF Waiting
<1> QED
  BY <1>1 DEF IInv, Begun

\* An instance that has started has started for ever.
LEMMA StartedStays == ASSUME IInv, started, [Next]_vars PROVE started'
<1> USE DEF callerVars, dbVars
<1>1. CASE Begins
  BY <1>1, Beginnings
<1>2. CASE Restart \/ Deliver \/ Interrupted \/ TerminateSubprocess \/ Steady
  BY <1>2 DEF Restart, Deliver, Interrupted, TerminateSubprocess, Steady
<1>3. CASE (\E r \in Runs : Retraces(r) \/ Failed(r)) \/ \E b \in Branches : Answer(b)
  BY <1>3 DEF Retraces, Failed, Answer
<1>4. CASE \E r \in Runs, b \in Branches : Branching(r, b) /\ UNCHANGED callerVars
  BY <1>4, BranchStep
<1> QED
  BY <1>1, <1>2, <1>3, <1>4, StepKinds

\* Nothing is there before the start event.
LEMMA StayingUnstarted == ASSUME IInv, Unstarted, [Next]_vars PROVE Unstarted'
<1>1. ASSUME ~started', NEW b \in Branches PROVE task'[b] = "absent"
  <2>1. ~started
    BY <1>1, StartedStays
  <2>2. \A r \in Runs : pos[r][b] # "waiting"
    BY <2>1 DEF IInv, Begun
  <2>3. ~Begins
    BY <1>1, Beginnings
  <2>4. task'[b] = task[b]
    BY <2>2, <2>3, TasksChange DEF Answer, Hears
  <2> QED
    BY <2>1, <2>4 DEF Unstarted
<1>2. ASSUME NEW i \in DOMAIN queue', queue'[i].tasks # {} PROVE started'
  <2>1. (\E j \in DOMAIN queue : queue'[i] = queue[j]) \/ queue'[i].tasks = Waiting
    BY <1>2, NewEntry
  <2>2. started
    BY <1>2, <2>1, WaitingStarted DEF Unstarted
  <2> QED
    BY <2>2, StartedStays
<1> QED
  BY <1>1, <1>2 DEF Unstarted

\* A task that fails takes along all that are suspended.
LEMMA FailingTogether ==
  ASSUME IInv, Unstarted, FailTogether, ToldToAll, [Next]_vars
  PROVE FailTogether'
<1> SUFFICES ASSUME NEW b \in Branches, task'[b] \in Bad, NEW c \in Branches, task'[c] = "suspended" PROVE FALSE
  BY DEF FailTogether, TaskFailed, NoneSuspended
<1>1. ~Begins
  BY Beginnings DEF Entered, Bad
<1>2. started
  <2>1. CASE task'[b] = task[b]
    BY <2>1 DEF Unstarted, Bad
  <2>2. CASE \E r \in Runs : Hears(Head(queue), r, b)
    BY <2>2 DEF Hears, IInv, Begun
  <2> QED
    BY <1>1, <2>1, <2>2, TasksChange DEF Bad
<1>3. task[c] = "suspended"
  BY <1>2, NoneIsSuspended
<1>4. task[b] \notin Bad
  BY <1>3 DEF FailTogether, TaskFailed, NoneSuspended
<1>5. PICK r \in Runs : Deliver /\ Hears(Head(queue), r, b)
  BY <1>1, <1>4, TasksChange DEF Bad
<1>6. 1 \in DOMAIN queue /\ Head(queue) = queue[1]
  BY <1>5 DEF Deliver, IInv, Queued
<1>7. queue[1].tasks # {}
  BY <1>5, <1>6 DEF Hears
<1>8. PICK q \in Runs : <<q, c>> \in queue[1].tasks /\ pos[q][c] = "waiting"
  BY <1>3, <1>6, <1>7 DEF ToldToAll
<1>9. Hears(Head(queue), q, c)
  BY <1>6, <1>8 DEF Hears
<1>10. task'[c] \in Bad
  BY <1>5, <1>9 DEF Deliver, TasksHear, Bad
<1> QED
  BY <1>10 DEF Bad

\* Who waits does so for a task that is suspended, or that failed for somebody else.
LEMMA WaitingForOpen == ASSUME IInv, WaitsForOpen, [Next]_vars PROVE WaitsForOpen'
<1> SUFFICES ASSUME NEW r \in Runs, NEW b \in Branches, pos'[r][b] = "waiting"
             PROVE task'[b] \in Bad \cup {"suspended"}
  BY DEF WaitsForOpen, Waiting
<1>1. CASE Begins
  BY <1>1, Beginnings, WaitsBefore DEF Retraces, Begins
<1>2. CASE Retraces(r) /\ task[b] = "suspended"
  BY <1>2 DEF Retraces, dbVars
<1>3. CASE pos[r][b] = "waiting" /\ ~Begins
  <2>1. <<r, b>> \in Waiting
    BY <1>3 DEF Waiting
  <2>2. ~Answer(b)
    BY <1>3 DEF Answer, IInv, Chains
  <2> QED
    BY <1>3, <2>1, <2>2, TasksChange DEF WaitsForOpen
<1> QED
  BY <1>1, <1>2, <1>3, WaitsBefore

\* Who is left waiting for a task that has failed is divided from who heard of it.
LEMMA WaitingBehind ==
  ASSUME IInv, FailedTypes, WaitsBehind, WaitsForOpen, ToldTogether, [Next]_vars
  PROVE WaitsBehind'
<1> SUFFICES ASSUME NEW r \in Runs, NEW b \in Branches, pos'[r][b] = "waiting", task'[b] \in Bad
             PROVE Divided'
  BY DEF WaitsBehind, Waiting
<1>1. ~Begins
  BY Beginnings DEF Entered, Bad
<1>2. ~Restart
  BY DEF Restart
<1>3. ~(Retraces(r) /\ task[b] = "suspended")
  BY DEF Retraces, dbVars, Bad
<1>4. pos[r][b] = "waiting"
  BY <1>1, <1>3, WaitsBefore
<1>5. <<r, b>> \in Waiting
  BY <1>4 DEF Waiting
<1>6. CASE task[b] \in Bad
  BY <1>2, <1>5, <1>6, DividedStays DEF WaitsBehind
<1>7. CASE task[b] \notin Bad
  <2>1. Deliver /\ \E q \in Runs : Hears(Head(queue), q, b)
    BY <1>1, <1>7, TasksChange DEF Bad
  <2>2. 1 \in DOMAIN queue /\ Head(queue) = queue[1]
    BY <2>1 DEF Deliver, IInv, Queued
  <2>3. queue[1].tasks # {}
    BY <2>1, <2>2 DEF Hears
  <2>4. ~Hears(Head(queue), r, b)
    BY <2>1 DEF Deliver, TasksHear
  <2>5. <<r, b>> \notin queue[1].tasks
    BY <1>4, <2>2, <2>4 DEF Hears
  <2>6. Divided
    BY <1>5, <2>2, <2>3, <2>5 DEF ToldTogether
  <2> QED
    BY <1>2, <2>6, DividedStays
<1> QED
  BY <1>6, <1>7

\* An event for the tasks is addressed to all that are suspended.
LEMMA TellingToAll ==
  ASSUME IInv, Unstarted, Wholly, ToldToAll, [Next]_vars
  PROVE ToldToAll'
<1> SUFFICES ASSUME NEW i \in DOMAIN queue', queue'[i].tasks # {}, NEW b \in Branches, task'[b] = "suspended"
             PROVE \E r \in Runs : <<r, b>> \in queue'[i].tasks /\ pos'[r][b] = "waiting"
  BY DEF ToldToAll
<1>1. ~Restart
  BY DEF Restart
<1>2. (\E j \in DOMAIN queue : queue'[i] = queue[j]) \/ queue'[i].tasks = Waiting
  BY NewEntry
<1>3. started
  BY <1>2, WaitingStarted DEF Unstarted
<1>4. task[b] = "suspended"
  BY <1>3, NoneIsSuspended
<1>5. \E r \in Runs : <<r, b>> \in queue'[i].tasks /\ pos[r][b] = "waiting"
  <2>1. CASE \E j \in DOMAIN queue : queue'[i] = queue[j]
    BY <1>4, <2>1 DEF ToldToAll
  <2>2. CASE queue'[i].tasks = Waiting
    <3>1. PICK r \in Runs, c \in Branches : pos[r][c] = "waiting"
      BY <2>2 DEF Waiting
    <3>2. pos[r][b] # "idle"
      BY <3>1 DEF Wholly
    <3>3. pos[r][b] = "waiting"
      BY <1>4, <3>2 DEF IInv, SuspendedFirst
    <3>4. <<r, b>> \in Waiting
      BY <3>3 DEF Waiting
    <3> QED
      BY <2>2, <3>3, <3>4
  <2> QED
    BY <1>2, <2>1, <2>2
<1> QED
  BY <1>1, <1>5, WaitsOn

\* It is addressed to all who wait, and before it is heard nobody begins to wait, unless the
\* runs are divided.
LEMMA TellingTogether ==
  ASSUME IInv, FailedTypes, TerminateExits, Unstarted, FailTogether, ToldTogether, FailsForReason,
         [Next]_vars
  PROVE ToldTogether'
<1> SUFFICES ASSUME NEW i \in DOMAIN queue', queue'[i].tasks # {}, ~Divided'
             PROVE Waiting' \subseteq queue'[i].tasks /\ (NoneSuspended' \/ InReach')
  BY DEF ToldTogether
<1>1. ~Restart
  BY DEF Restart
<1>2. ~Divided
  BY <1>1, DividedStays
<1>3. started
  <2>1. (\E j \in DOMAIN queue : queue'[i] = queue[j]) \/ queue'[i].tasks = Waiting
    BY NewEntry
  <2> QED
    BY <2>1, WaitingStarted DEF Unstarted
<1>4. ASSUME NoneSuspended \/ InReach
      PROVE Waiting' \subseteq Waiting /\ (NoneSuspended' \/ InReach')
  <2>1. NoneSuspended' \/ InReach'
    BY <1>1, <1>3, <1>4, NoneIsSuspended, ReachStays DEF NoneSuspended
  <2>2. ASSUME NEW r \in Runs, NEW b \in Branches, pos'[r][b] = "waiting" PROVE pos[r][b] = "waiting"
    <3>1. ~Begins
      BY <1>3 DEF Begins
    <3>2. ~(Retraces(r) /\ task[b] = "suspended")
      BY <1>4 DEF Retraces, NoneSuspended, InReach, IInv, KnownChild, Childless
    <3> QED
      BY <2>2, <3>1, <3>2, WaitsBefore
  <2> QED
    BY <2>1, <2>2 DEF Waiting
<1>5. CASE \E j \in DOMAIN queue : queue'[i] = queue[j]
  <2>1. PICK j \in DOMAIN queue : queue'[i] = queue[j]
    BY <1>5
  <2>2. Waiting \subseteq queue'[i].tasks /\ (NoneSuspended \/ InReach)
    BY <1>2, <2>1 DEF ToldTogether
  <2> QED
    BY <1>4, <2>2
<1>6. CASE queue'[i].tasks = Waiting /\ \E r \in Runs : Failed(r) /\ UNCHANGED callerVars
  <2>1. Failing
    BY <1>6 DEF Failed, FailsForReason
  <2>2. NoneSuspended
    BY <1>2, <2>1 DEF Failing, FailTogether
  <2> QED
    BY <1>4, <1>6, <2>2
<1>7. ASSUME NEW r \in Runs, NEW b \in Branches, TerminateEnd(r, b) PROVE FALSE
  BY <1>2, <1>7 DEF TerminateEnd, TerminateExits, Divided
<1>8. CASE queue'[i].tasks = Waiting /\ (Interrupted \/ TerminateSubprocess)
  <2>1. closing' # "no"
    BY <1>8 DEF Interrupted, TerminateSubprocess
  <2>2. ~blind'
    BY <2>1 DEF Divided
  <2>3. InReach
    BY <1>8, <2>2 DEF Interrupted, TerminateSubprocess
  <2> QED
    BY <1>4, <1>8, <2>3
<1> QED
  BY <1>5, <1>6, <1>7, <1>8, NewEntry

-----------------------------------------------------------------------------
(* Runs                                                                    *)

\* How a run comes from one place to the next.
Keeping(r) == at'[r] = at[r] /\ how'[r] = how[r]
Arriving(r) ==
  /\ at[r] = "off" /\ how'[r] = how[r]
  /\ \/ r = 1 /\ at'[r] = "starting" /\ proc = "absent"
     \/ r = 2 /\ at'[r] = "looking" /\ boot > 0 /\ kind = "callActivity"
Leaving(r) == at[r] # "off" /\ at'[r] = "over"
Saving(r) == at[r] = "starting" /\ at'[r] = "saving" /\ how'[r] = how[r]
Loading(r) ==
  /\ how'[r] = how[r]
  /\ \/ at[r] = "looking" /\ at'[r] = "loading" /\ proc = "running"
     \/ at[r] = "loading" /\ at'[r] = "orphaned" /\ IsOrphaned /\ UNCHANGED ends
Deciding(r) ==
  /\ at'[r] = at[r] /\ \E b \in Branches : pos[r][b] # "idle"
  /\ \/ Deliver /\ how[r] = "none" /\ how'[r] # "none" /\ \E b \in Branches : Hears(Head(queue), r, b)
     \/ \E b \in Branches : ExitEnd(r, b) /\ endType[b] = "invalid"
     \/ \E b \in Branches : pos[r][b] = "exiting" /\ endType[b] \in {"error", "terminate"}

\* Where the instance has not been started, nobody has begun to run it.
LEMMA StayingUnborn == ASSUME IInv, Unborn, [Next]_vars PROVE Unborn'
<1> SUFFICES ASSUME Childless', kind' = "subProcess" \/ proc' = "absent" PROVE at'[1] = "off"
  BY DEF Unborn
<1> USE DEF instanceVars, diagram, dbVars, runVars, callerVars, Childless, Runs
<1> at \in [Runs -> RunPlaces]
  BY DEF IInv, Values
<1>1. CASE Alone
  <2>1. kind = "subProcess" \/ proc = "absent"
    BY ZenonT(60), <1>1 DEF Alone, InstanceStep, RunStep, Save, StartEvent, Return, Finish, Fail, Failed, Lookup, Load,
       FinishOrphan, OrphanState, EnterEnd, ExitEnd, RegularEnd, ErrorEnd, TerminateEnd
  <2>2. at[1] = "off"
    BY <1>1, <2>1 DEF Alone, Unborn
  <2>3. CASE \E r \in Runs : Load(r)
    <3>1. PICK r \in Runs : Load(r)
      BY <2>3
    <3>2. r # 1
      BY <2>2, <3>1 DEF Load
    <3>3. at'[1] = at[1]
      BY <3>1, <3>2 DEF Load, Retrace
    <3> QED
      BY <2>2, <3>3
  <2>4. CASE Save \/ StartEvent \/ Return \/ (\E r \in Runs : Finish(r)) \/ (\E r \in Runs : Fail(r)) \/
       (\E r \in Runs : Failed(r)) \/ (\E r \in Runs : Lookup(r)) \/ (\E r \in Runs : FinishOrphan(r))
    BY <2>2, <2>4 DEF Save, StartEvent, Return, Finish, Fail, Failed, Lookup, FinishOrphan
  <2>5. CASE \E r \in Runs, b \in Branches : EnterEnd(r, b) \/ ExitEnd(r, b) \/ RegularEnd(r, b) \/
       ErrorEnd(r, b) \/ TerminateEnd(r, b)
    BY <2>2, <2>5 DEF EnterEnd, ExitEnd, RegularEnd, ErrorEnd, TerminateEnd
  <2> QED
    BY <1>1, <2>3, <2>4, <2>5 DEF Alone, InstanceStep, RunStep
<1>2. CASE CallerStep
  <2>1. CASE ExecuteHandler
    BY <2>1 DEF ExecuteHandler, Unborn
  <2>2. CASE RunReturns
    BY <2>2 DEF RunReturns, GoOn, GoDown, GoDownTerminated
  <2>3. CASE TerminateSubprocess \/ Close
    BY <2>3 DEF TerminateSubprocess, Close, Unborn
  <2>4. CASE ClientReturns \/ Suspended \/ WaitForSubProcessExecution \/ Refused \/ ContinueAfterResume \/
       Resolve \/ Reject \/ FindCalled \/ FindSubProcess
    BY <2>4 DEF ClientReturns, Suspended, WaitForSubProcessExecution, Refused, ContinueAfterResume, Resolve,
       Reject, FindCalled, FindSubProcess, ExecuteSubprocess, GoDown, WaitForSubProcessResumption
  <2> QED
    BY <1>2, <2>1, <2>2, <2>3, <2>4 DEF CallerStep
<1>3. CASE Deliver
  <2>1. place' = place \/ place' \in {"waiting", "resuming", "failing"}
    BY <1>3 DEF Deliver, CallerHears, StartIsHeard, ClientHears, HandlerHears, GoOn, GoDown
  <2> QED
    BY <1>3, <2>1 DEF Deliver, Unborn
<1>4. CASE Restart
  BY <1>4 DEF Restart
<1>5. CASE Answered \/ (Refuse /\ UNCHANGED callerVars) \/ StartAndAwaitEndEvent \/ Begin \/ Interrupted \/
     UNCHANGED vars
  BY <1>5 DEF Answered, Answer, Refuse, StartAndAwaitEndEvent, Begin, Interrupted, vars, Unborn
<1> QED
  BY <1>1, <1>2, <1>3, <1>4, <1>5 DEF Next, System

\* Every step of a run is one of these.
LEMMA RunMoves ==
  ASSUME IInv, Unborn, [Next]_vars, NEW r \in Runs
  PROVE \/ Restart \/ Keeping(r) \/ Arriving(r) \/ Leaving(r) \/ Saving(r) \/ Loading(r) \/ Deciding(r)
        \/ (Begins /\ r = 1) \/ Fail(r) \/ Retraces(r)
<1> USE DEF instanceVars, diagram, dbVars, runVars, callerVars, Runs
<1> at \in [Runs -> RunPlaces] /\ how \in [Runs -> Outcomes]
  BY DEF IInv, Values, Chains
<1>1. CASE Alone
  <2>1. CASE Save
    BY <2>1 DEF Save, Keeping, Saving
  <2>2. CASE StartEvent
    BY <1>1, <2>2 DEF Alone, StartEvent, Begins, Keeping, IInv, Phases
  <2>3. CASE Return
    BY <2>3 DEF Return, Keeping, Leaving
  <2>4. CASE \E q \in Runs : Finish(q)
    BY <2>4 DEF Finish, Keeping, Leaving
  <2>5. CASE \E q \in Runs : Fail(q)
    BY <2>5 DEF Fail, Keeping
  <2>6. CASE \E q \in Runs : Failed(q)
    BY <2>6 DEF Failed, Keeping, Leaving
  <2>7. CASE \E q \in Runs : Lookup(q)
    BY <2>7 DEF Lookup, Keeping, Leaving, Loading, ComesOut
  <2>8. CASE \E q \in Runs : Load(q)
    <3>1. PICK q \in Runs : Load(q)
      BY <2>8
    <3>2. CASE ~IsOrphaned /\ started
      <4>1. Retraces(q)
        BY <1>1, <3>1, <3>2 DEF Alone, Load, Retraces, Retrace
      <4>2. q # r => Keeping(r)
        BY <4>1 DEF Retraces, Retrace, Keeping
      <4> QED
        BY <4>1, <4>2
    <3>3. CASE IsOrphaned
      BY <3>1, <3>3 DEF Load, Keeping, Loading
    <3>4. CASE ~IsOrphaned /\ ~started
      BY <3>1, <3>4 DEF Load, Keeping, Leaving, ComesOut
    <3> QED
      BY <3>2, <3>3, <3>4
  <2>9. CASE \E q \in Runs : FinishOrphan(q)
    BY <2>9 DEF FinishOrphan, Keeping, Leaving, ComesOut
  <2>10. CASE \E q \in Runs, b \in Branches : EnterEnd(q, b) \/ RegularEnd(q, b)
    BY <2>10 DEF EnterEnd, RegularEnd, Keeping
  <2>11. CASE \E q \in Runs, b \in Branches : ExitEnd(q, b)
    <3>1. PICK q \in Runs, b \in Branches : ExitEnd(q, b)
      BY <2>11
    <3>2. at' = at
      BY <3>1 DEF ExitEnd
    <3>3. CASE q # r \/ endType[b] # "invalid"
      BY <3>1, <3>2, <3>3 DEF ExitEnd, Keeping, ComesOut
    <3>4. CASE q = r /\ endType[b] = "invalid"
      <4>1. pos[r][b] # "idle"
        BY <3>1, <3>4 DEF ExitEnd
      <4> QED
        BY <3>1, <3>2, <3>4, <4>1 DEF Deciding
    <3> QED
      BY <3>3, <3>4
  <2>12. CASE \E q \in Runs, b \in Branches : ErrorEnd(q, b) \/ TerminateEnd(q, b)
    <3>1. PICK q \in Runs, b \in Branches : ErrorEnd(q, b) \/ TerminateEnd(q, b)
      BY <2>12
    <3>2. at' = at /\ pos[q][b] = "exiting" /\ endType[b] \in {"error", "terminate"}
      BY <3>1 DEF ErrorEnd, TerminateEnd
    <3>3. CASE q # r
      BY <3>1, <3>2, <3>3 DEF ErrorEnd, TerminateEnd, Keeping, ComesOut
    <3>4. CASE q = r
      <4>1. pos[r][b] # "idle"
        BY <3>2, <3>4
      <4> QED
        BY <3>2, <3>4, <4>1 DEF Deciding
    <3> QED
      BY <3>3, <3>4
  <2> QED
    BY <1>1, <2>1, <2>2, <2>3, <2>4, <2>5, <2>6, <2>7, <2>8, <2>9, <2>10, <2>11, <2>12 DEF Alone,
       InstanceStep, RunStep
<1>2. CASE CallerStep
  <2>1. CASE Suspended
    BY <2>1 DEF Suspended, ExecuteSubprocess, Keeping, Arriving, IInv, Stations
  <2>2. CASE WaitForSubProcessExecution
    BY <2>2 DEF WaitForSubProcessExecution, Begins, Keeping, IInv, Fresh, Phases
  <2>3. CASE FindCalled
    <3>1. at[2] = "off" /\ boot > 0
      BY <2>3 DEF FindCalled, IInv, Fresh, Stations, Values
    <3>2. CASE proc = "absent"
      <4>1. at[1] = "off"
        BY <2>3, <3>2 DEF FindCalled, Unborn, Childless
      <4> QED
        BY <2>3, <3>2, <4>1 DEF FindCalled, ExecuteSubprocess, Keeping, Arriving
    <3>3. CASE proc # "absent"
      BY <2>3, <3>1, <3>3 DEF FindCalled, Keeping, Arriving
    <3> QED
      BY <3>2, <3>3
  <2>4. CASE FindSubProcess
    <3>1. CASE started
      <4>1. Retraces(1)
        BY <2>4, <3>1 DEF FindSubProcess, WaitForSubProcessResumption, Retraces, Retrace
      <4>2. r # 1 => Keeping(r)
        BY <4>1 DEF Retraces, Retrace, Keeping
      <4> QED
        BY <4>1, <4>2
    <3>2. CASE ~started
      BY <2>4, <3>2 DEF FindSubProcess, Keeping
    <3> QED
      BY <3>1, <3>2
  <2>5. CASE ClientReturns \/ ExecuteHandler \/ Refused \/ RunReturns \/ ContinueAfterResume \/ Resolve \/
       Reject \/ TerminateSubprocess \/ Close
    BY <2>5 DEF ClientReturns, ExecuteHandler, Refused, RunReturns, ContinueAfterResume, Resolve, Reject,
       TerminateSubprocess, Close, Keeping
  <2> QED
    BY <1>2, <2>1, <2>2, <2>3, <2>4, <2>5 DEF CallerStep
<1>3. CASE Deliver
  <2>1. at' = at
    BY <1>3 DEF Deliver
  <2>2. how'[r] = how[r] \/ (how[r] = "none" /\ how'[r] # "none" /\ \E b \in Branches : Hears(Head(queue), r, b))
    BY <1>3 DEF Deliver, TasksHear
  <2> QED
    BY <1>3, <2>1, <2>2 DEF Keeping, Deciding, Hears
<1>4. CASE Answered \/ Begin \/ Interrupted \/ UNCHANGED vars
  BY <1>4 DEF Answered, Answer, Begin, Interrupted, vars, Keeping
<1>5. CASE Refuse /\ UNCHANGED callerVars
  BY <1>5 DEF Refuse, Keeping, Leaving, ComesOut
<1>6. CASE StartAndAwaitEndEvent
  BY <1>6 DEF StartAndAwaitEndEvent, Keeping, Arriving, IInv, Stations
<1> QED
  BY <1>1, <1>2, <1>3, <1>4, <1>5, <1>6 DEF Next, System

\* Who writes the state of the instance.
LEMMA StateMoves ==
  ASSUME [Next]_vars
  PROVE \/ UNCHANGED proc
        \/ at[1] = "starting" /\ proc' = "running"
        \/ \E r \in Runs : Finish(r) \/ Fail(r) \/ FinishOrphan(r)
<1> USE DEF instanceVars, dbVars, callerVars
<1>1. CASE Alone
  BY <1>1 DEF Alone, InstanceStep, RunStep, Save, StartEvent, Return, Failed, Lookup, Load,
     EnterEnd, ExitEnd, RegularEnd, ErrorEnd, TerminateEnd
<1>2. CASE CallerStep
  BY <1>2 DEF CallerStep, ClientReturns, ExecuteHandler, Suspended, WaitForSubProcessExecution, Refused,
     RunReturns, ContinueAfterResume, Resolve, Reject, TerminateSubprocess, Close, FindCalled, FindSubProcess
<1>3. CASE ~Alone /\ ~CallerStep
  BY <1>3 DEF Next, System, Deliver, Answered, Answer, Refuse, StartAndAwaitEndEvent, Begin, Restart,
     Interrupted, vars
<1> QED
  BY <1>1, <1>2, <1>3

\* A run that has not begun has not come out yet.
LEMMA StayingUndecided == ASSUME IInv, Unborn, Undecided, [Next]_vars PROVE Undecided'
<1> DEFINE Early == {"off", "starting", "saving", "looking", "loading", "orphaned"}
<1> SUFFICES ASSUME NEW r \in Runs, at'[r] \in Early PROVE how'[r] = "none"
  BY DEF Undecided
<1>1. CASE Restart
  BY <1>1 DEF Restart
<1>2. CASE Keeping(r) \/ Arriving(r) \/ Leaving(r) \/ Saving(r) \/ Loading(r)
  BY <1>2 DEF Keeping, Arriving, Leaving, Saving, Loading, Undecided
<1>3. ~Deciding(r)
  <2>1. ASSUME Deciding(r) PROVE FALSE
    BY <2>1 DEF Deciding, IInv, IdleRuns
  <2> QED
    BY <2>1
<1>4. ~(Begins /\ r = 1)
  BY Beginnings DEF IInv, Values
<1>5. ~Fail(r) /\ ~Retraces(r)
  BY DEF Fail, Retraces, Retrace, IInv, Values
<1> QED
  BY <1>1, <1>2, <1>3, <1>4, <1>5, RunMoves

\* What a run retraces as failed has failed.
LEMMA RetracedFailing ==
  ASSUME IInv, NEW r \in Runs, Retraces(r), how'[r] # "none"
  PROVE EndFailed \/ TaskFailed
<1>1. how'[r] \in ResumedOutcomes
  BY DEF Retraces, Retrace, IInv, Chains
<1>2. PICK b \in Branches : Resumed(b) = "failed"
  BY <1>1 DEF ResumedOutcomes
<1>3. b \in Present
  BY <1>2 DEF Resumed
<1>4. CASE ends[b] # <<>>
  <2>1. 1 \in DOMAIN ends[b] /\ ends[b][1] \in RowsOfEnds
    BY <1>4, EmptySeq DEF IInv, Work
  <2>2. ends[b][1] \in Bad
    BY <1>2, <1>3, <1>4, <2>1 DEF Resumed, RowsOfEnds, Bad
  <2> QED
    BY <2>1, <2>2 DEF EndFailed
<1>5. CASE ends[b] = <<>>
  <2>1. task[b] \notin {"suspended", "finished", "absent"}
    BY <1>2, <1>3, <1>5 DEF Resumed, Retraces, IInv, Begun
  <2>2. task[b] \in Bad
    BY <2>1 DEF IInv, Work, RowsOfTasks, Rows, Bad
  <2> QED
    BY <2>2 DEF TaskFailed
<1> QED
  BY <1>4, <1>5

\* A run fails for a task that has failed, or for what divides it from the others.
LEMMA FailingForReason ==
  ASSUME IInv, FailedTypes, TerminateExits, Unstarted, Unborn, Undecided, WaitsBehind, FailsForReason,
         [Next]_vars
  PROVE FailsForReason'
<1> DEFINE Fails(r) == at[r] = "failing" \/ (at[r] = "running" /\ how[r] # "none")
<1> SUFFICES ASSUME NEW r \in Runs, Fails(r)' PROVE Failing'
  BY DEF FailsForReason
<1> USE DEF diagram
<1>1. ~Restart
  BY DEF Restart
<1>2. CASE Fails(r)
  BY <1>1, <1>2, FailingStays DEF FailsForReason
<1>3. CASE ~Fails(r)
  <2>1. ~(Keeping(r) \/ Arriving(r) \/ Leaving(r) \/ Saving(r) \/ Loading(r) \/ Fail(r))
    BY <1>3 DEF Keeping, Arriving, Leaving, Saving, Loading, Fail
  <2>2. CASE Begins /\ r = 1
    <3>1. at[1] \in {"off", "saving"}
      BY <2>2 DEF Begins, StartEvent, WaitForSubProcessExecution, Unborn, Childless
    <3>2. how'[r] = "none"
      BY <2>2, <3>1, Beginnings DEF Undecided
    <3>3. at'[r] = "running"
      BY <2>2, Beginnings DEF IInv, Values
    <3> QED
      BY <3>2, <3>3
  <2>3. CASE Retraces(r)
    <3>1. UNCHANGED <<ends, task>> /\ at'[r] = "running"
      BY <2>3 DEF Retraces, Retrace, dbVars, IInv, Values
    <3>2. EndFailed \/ TaskFailed
      BY <2>3, <3>1, RetracedFailing
    <3> QED
      BY <3>1, <3>2 DEF Failing, Divided, EndFailed, TaskFailed
  <2>4. CASE Deciding(r)
    <3>1. CASE Deliver /\ \E b \in Branches : Hears(Head(queue), r, b)
      BY <3>1 DEF Deliver, TasksHear, Failing, TaskFailed, Bad
    <3>2. CASE \E b \in Branches : ExitEnd(r, b) /\ endType[b] = "invalid"
      BY <3>2, ExitLeaves DEF Failing, Divided
    <3>3. CASE \E b \in Branches : pos[r][b] = "exiting" /\ endType[b] \in {"error", "terminate"}
      <4>1. Divided
        BY <3>3 DEF Divided, TerminateExits
      <4> QED
        BY <1>1, <4>1, DividedStays DEF Failing
    <3> QED
      BY <2>4, <3>1, <3>2, <3>3 DEF Deciding
  <2> QED
    BY <1>1, <2>1, <2>2, <2>3, <2>4, RunMoves
<1> QED
  BY <1>2, <1>3

\* A run that finishes an orphan keeps the row it has chosen.
LEMMA OrphanKeeps ==
  ASSUME IInv, NEW r \in Runs, at[r] = "orphaned", ~Restart, [Next]_vars
  PROVE mine'[r] = mine[r]
<1> USE DEF instanceVars, runVars, callerVars, Runs
<1> mine \in [Runs -> [Branches -> Nat]]
  BY DEF IInv, Owns
<1>1. \A b \in Branches : pos[r][b] = "idle"
  BY DEF IInv, IdleRuns
<1>2. CASE Alone
  <2>1. CASE \E q \in Runs : Load(q)
    BY <2>1 DEF Load, Retrace
  <2>2. CASE \E q \in Runs, b \in Branches : EnterEnd(q, b)
    BY <1>1, <2>2 DEF EnterEnd
  <2> QED
    BY <1>2, <2>1, <2>2 DEF Alone, InstanceStep, RunStep, Save, StartEvent, Return, Finish, Fail, Failed, Lookup,
       FinishOrphan, ExitEnd, RegularEnd, ErrorEnd, TerminateEnd
<1>3. CASE CallerStep
  <2>1. CASE FindSubProcess
    <3>1. r # 1
      BY <2>1 DEF FindSubProcess, IInv, Phases
    <3> QED
      BY <2>1, <3>1 DEF FindSubProcess, WaitForSubProcessResumption, Retrace
  <2> QED
    BY <1>3, <2>1 DEF CallerStep, ClientReturns, ExecuteHandler, Suspended, WaitForSubProcessExecution, Refused,
       RunReturns, ContinueAfterResume, Resolve, Reject, TerminateSubprocess, Close, FindCalled
<1>4. CASE ~Alone /\ ~CallerStep
  BY <1>4 DEF Next, System, Deliver, Answered, Answer, Refuse, StartAndAwaitEndEvent, Begin, Interrupted, vars
<1> QED
  BY <1>2, <1>3, <1>4

\* An orphan's end event is not open.
LEMMA ClosingOrphans ==
  ASSUME IInv, Unborn, FailedTypes, OrphansClosed, [Next]_vars
  PROVE OrphansClosed'
<1> SUFFICES ASSUME NEW r \in Runs, NEW b \in Branches, at'[r] = "orphaned", mine'[r][b] > 0
             PROVE ends'[b][mine'[r][b]] # "running"
  BY DEF OrphansClosed
<1>1. CASE Loading(r)
  <2>1. mine'[r][b] \in DOMAIN ends'[b]
    BY Owning DEF IInv, Owns, Work, Working
  <2>2. UNCHANGED ends /\ \A i \in DOMAIN ends[b] : ends[b][i] # "running"
    BY <1>1 DEF Loading, IsOrphaned, HasActiveFlowNodeInstances
  <2> QED
    BY <2>1, <2>2
<1>2. CASE at[r] = "orphaned" /\ mine'[r][b] = mine[r][b]
  <2>1. mine[r][b] \in DOMAIN ends[b]
    BY <1>2 DEF IInv, Owns, Work
  <2> QED
    BY <1>2, <2>1, EndRows DEF OrphansClosed
<1>3. ~(Restart \/ Arriving(r) \/ Leaving(r) \/ Saving(r) \/ Fail(r))
  BY DEF Restart, Arriving, Leaving, Saving, Fail, IInv, Values
<1>4. ~Retraces(r) /\ ~(Begins /\ r = 1)
  BY Beginnings DEF Retraces, Retrace, IInv, Values
<1>5. ~Deciding(r)
  <2>1. ASSUME Deciding(r) PROVE FALSE
    BY <2>1 DEF Deciding, IInv, IdleRuns
  <2> QED
    BY <2>1
<1>6. CASE Keeping(r)
  <2>1. at[r] = "orphaned"
    BY <1>6 DEF Keeping
  <2>2. mine'[r] = mine[r]
    BY <1>3, <2>1, OrphanKeeps
  <2> QED
    BY <1>2, <2>1, <2>2
<1> QED
  BY <1>1, <1>3, <1>4, <1>5, <1>6, RunMoves

\* A run that has an instance finish knows of an end event that was reached.
LEMMA FinishedNow ==
  ASSUME IInv, OrphansClosed, NEW r \in Runs, Finish(r) \/ FinishOrphan(r), proc' = "finished"
  PROVE \E b \in Branches : HasFinished(b)
<1>1. CASE Finish(r)
  <2>1. PICK b \in Branches : b \in Present
    BY InstanceAssumption DEF IInv, Values, diagram, Present
  <2> QED
    BY <1>1, <2>1 DEF Finish, AllDone, IInv, DoneReached
<1>2. CASE FinishOrphan(r)
  <2>1. PICK b \in Branches : at[r] = "orphaned" /\ mine[r][b] > 0 /\ proc' = OrphanState(ends[b][mine[r][b]])
    BY <1>2 DEF FinishOrphan
  <2>2. mine[r][b] \in DOMAIN ends[b] /\ ends[b][mine[r][b]] \in RowsOfEnds
    BY <2>1 DEF IInv, Owns, Work
  <2>3. ends[b][mine[r][b]] = "finished"
    BY <2>1, <2>2 DEF OrphansClosed, OrphanState, RowsOfEnds
  <2> QED
    BY <2>2, <2>3 DEF HasFinished
<1> QED
  BY <1>1, <1>2

\* A finished instance has an end event that was reached.
LEMMA FinishingForReason ==
  ASSUME IInv, OrphansClosed, FinishedForReason, [Next]_vars
  PROVE FinishedForReason'
<1>1. ASSUME proc' = "finished" PROVE \E b \in Branches : HasFinished(b)
  BY <1>1, StateMoves, FinishedNow DEF Fail, FinishedForReason
<1> QED
  BY <1>1, Keeps DEF IInv, Kept, FinishedForReason

\* An instance has failed for a reason, or nobody runs it any more.
LEMMA ErringForReason ==
  ASSUME IInv, FailedTypes, Unstarted, Unborn, WaitsBehind, FailsForReason, OrphansClosed, ErrorForReason,
         [Next]_vars
  PROVE ErrorForReason'
<1> DEFINE Runs1 == \A r \in Runs : at[r] \notin {"running", "orphaned", "loading"}
<1> SUFFICES ASSUME proc' = "error" PROVE Failing' \/ Runs1'
  BY DEF ErrorForReason
<1>1. CASE Restart
  <2>1. proc = "error"
    BY <1>1 DEF Restart, dbVars
  <2> QED
    BY <1>1, <2>1 DEF Restart
<1>2. CASE Failing /\ ~Restart
  BY <1>2, FailingStays
<1>3. CASE \E r \in Runs : Fail(r)
  BY <1>2, <1>1, <1>3 DEF Fail, FailsForReason
<1>4. CASE \E r \in Runs : FinishOrphan(r)
  <2>1. PICK r \in Runs, b \in Branches :
          at[r] = "orphaned" /\ mine[r][b] > 0 /\ proc' = OrphanState(ends[b][mine[r][b]])
    BY <1>4 DEF FinishOrphan
  <2>2. mine[r][b] \in DOMAIN ends[b]
    BY <2>1 DEF IInv, Owns, Work
  <2>3. ends[b][mine[r][b]] \in Bad
    BY <2>1 DEF OrphanState, Bad
  <2>4. Failing
    BY <2>2, <2>3 DEF Failing, Divided, EndFailed
  <2> QED
    BY <1>1, <1>2, <2>4
<1>5. CASE proc = "error" /\ ~Failing /\ ~Restart
  <2>1. Runs1
    BY <1>5 DEF ErrorForReason
  <2>2. ASSUME NEW r \in Runs PROVE at'[r] \notin {"running", "orphaned", "loading"}
    <3>1. at[r] \notin {"running", "orphaned", "loading"}
      BY <2>1
    <3>2. CASE Keeping(r) \/ Arriving(r) \/ Leaving(r) \/ Saving(r) \/ Loading(r) \/ Deciding(r)
      BY <1>5, <3>1, <3>2 DEF Keeping, Arriving, Leaving, Saving, Loading, Deciding
    <3>3. ~Fail(r)
      BY <3>1 DEF Fail
    <3>4. ~(Begins /\ r = 1)
      <4>1. ASSUME Begins PROVE FALSE
        BY <1>5, <4>1 DEF Begins, StartEvent, WaitForSubProcessExecution, IInv, Phases
      <4> QED
        BY <4>1
    <3>5. ~Retraces(r)
      BY <1>5, <3>1 DEF Retraces, IInv, Phases
    <3> QED
      BY <1>5, <3>2, <3>3, <3>4, <3>5, RunMoves
  <2> QED
    BY <2>2
<1> QED
  BY <1>1, <1>2, <1>3, <1>4, <1>5, StateMoves DEF Finish

\* Without a restart, or a second run, nobody is left to write the state once it is final.
LEMMA EndingOnce ==
  ASSUME IInv, Unborn, EndsOnce, [Next]_vars
  PROVE EndsOnce'
<1> USE DEF diagram, Runs
<1>1. kind' = kind /\ (boot' = 0 => boot = 0)
  BY Keeps DEF IInv, Kept
<1>2. at \in [Runs -> RunPlaces]
  BY DEF IInv, Values
<1>3. ASSUME boot' = 0 PROVE at'[2] = "off"
  <2>1. at[2] = "off" /\ boot = 0
    BY <1>1, <1>3 DEF EndsOnce
  <2>2. ~Restart
    BY <1>3 DEF Restart, IInv, Values
  <2> QED
    BY <2>1, <2>2, RunMoves DEF Keeping, Arriving, Leaving, Saving, Loading, Deciding, Fail, Retraces
<1>4. ASSUME proc' \in {"finished", "error"}, boot' = 0 \/ kind # "callActivity"
      PROVE at'[1] \in {"off", "failing", "over"}
  <2>1. at[2] = "off" /\ (boot = 0 \/ kind # "callActivity")
    BY <1>1, <1>4 DEF EndsOnce, IInv, Phases
  <2>2. CASE Restart
    BY <1>4, <2>2 DEF Restart, dbVars
  <2>3. CASE proc \in {"finished", "error"} /\ ~Restart
    <3>1. at[1] \in {"off", "failing", "over"}
      BY <2>1, <2>3 DEF EndsOnce
    <3>2. ~Begins
      <4>1. ASSUME Begins PROVE FALSE
        BY <2>3, <4>1 DEF Begins, StartEvent, WaitForSubProcessExecution, IInv, Phases
      <4> QED
        BY <4>1
    <3>3. ~Retraces(1)
      BY <2>3, <3>1 DEF Retraces, IInv, Phases
    <3> QED
      BY <2>1, <2>3, <3>1, <3>2, <3>3, RunMoves DEF Keeping, Arriving, Leaving, Saving, Loading, Deciding, Fail
  <2>4. CASE proc \notin {"finished", "error"} /\ ~Restart
    <3>1. PICK q \in Runs : Finish(q) \/ Fail(q) \/ FinishOrphan(q)
      BY <1>4, <2>4, StateMoves
    <3>2. q = 1
      BY <2>1, <3>1 DEF Finish, Fail, FinishOrphan
    <3> QED
      BY <1>2, <3>1, <3>2 DEF Finish, Fail, FinishOrphan
  <2> QED
    BY <2>2, <2>3, <2>4
<1> QED
  BY <1>1, <1>3, <1>4 DEF EndsOnce
-----------------------------------------------------------------------------
(* The final state stays                                                   *)

\* Nothing is divided at first.
LEMMA EInit == ASSUME Init PROVE EInv
<1> USE DEF Init, InstanceInit
<1>1. FailedTypes /\ TerminateExits /\ Wholly /\ Unstarted /\ Unborn /\ Undecided
  BY DEF FailedTypes, TerminateExits, Wholly, Unstarted, Unborn, Undecided, Runs
<1>2. FailTogether /\ WaitsForOpen /\ WaitsBehind /\ ToldToAll /\ ToldTogether
  BY DEF FailTogether, TaskFailed, Bad, WaitsForOpen, WaitsBehind, Waiting, ToldToAll, ToldTogether
<1>3. FailsForReason /\ FinishedForReason /\ ErrorForReason /\ OrphansClosed /\ EndsOnce
  BY DEF FailsForReason, FinishedForReason, ErrorForReason, OrphansClosed, EndsOnce, Runs
<1> QED
  BY <1>1, <1>2, <1>3 DEF EInv

\* Every step keeps it.
LEMMA EStep == ASSUME IInv, EInv, [Next]_vars PROVE EInv'
<1> USE DEF EInv
<1>1. FailedTypes' /\ TerminateExits' /\ Wholly' /\ Unstarted' /\ Unborn' /\ Undecided'
  BY EndStaysFailed, TerminatingExits, StandingWholly, StayingUnstarted, StayingUnborn, StayingUndecided
<1>2. FailTogether' /\ WaitsForOpen' /\ WaitsBehind' /\ ToldToAll' /\ ToldTogether'
  BY FailingTogether, WaitingForOpen, WaitingBehind, TellingToAll, TellingTogether
<1>3. FailsForReason' /\ FinishedForReason' /\ ErrorForReason' /\ OrphansClosed' /\ EndsOnce'
  BY FailingForReason, FinishingForReason, ErringForReason, ClosingOrphans, EndingOnce
<1> QED
  BY <1>1, <1>2, <1>3

\* Whoever writes the state anew is a second run of a called child, and something has
\* divided it from the first.
LEMMA StateChanges ==
  ASSUME IInv, EInv, [Next]_vars, proc \in {"finished", "error"}, proc' # proc
  PROVE /\ boot > 0 /\ kind = "callActivity"
        /\ blind \/ BothEnds \/ \E b \in Branches : endType[b] = "error"
<1>1. PICK r \in Runs : Finish(r) \/ Fail(r) \/ FinishOrphan(r)
  BY StateMoves DEF IInv, Phases
<1>2. boot > 0 /\ kind = "callActivity"
  <2>1. at[r] \in {"running", "orphaned"}
    BY <1>1 DEF Finish, Fail, FinishOrphan
  <2>2. boot \in Nat
    BY InstanceAssumption DEF IInv, Values
  <2>3. kind # "callActivity" \/ boot = 0 => at[2] = "off" /\ at[1] \in {"off", "failing", "over"}
    BY DEF EInv, EndsOnce, IInv, Phases
  <2> QED
    BY <2>1, <2>2, <2>3 DEF Runs
<1>3. CASE proc = "finished"
  <2>1. \E b \in Branches : \E i \in DOMAIN ends[b] : ends[b][i] = "finished"
    BY <1>3 DEF EInv, FinishedForReason, HasFinished
  <2>2. Failing
    <3>1. CASE Fail(r)
      BY <3>1 DEF Fail, EInv, FailsForReason
    <3>2. CASE FinishOrphan(r)
      <4>1. PICK b \in Branches : mine[r][b] > 0 /\ proc' = OrphanState(ends[b][mine[r][b]])
        BY <3>2 DEF FinishOrphan
      <4>2. mine[r][b] \in DOMAIN ends[b]
        BY <4>1 DEF IInv, Owns, Work
      <4>3. ends[b][mine[r][b]] \in Bad
        BY <1>3, <4>1 DEF OrphanState, Bad
      <4> QED
        BY <4>2, <4>3 DEF Failing, Divided, EndFailed
    <3> QED
      BY <1>1, <1>3, <3>1, <3>2 DEF Finish
  <2> QED
    BY <1>2, <2>1, <2>2 DEF Failing, Divided, EndFailed, TaskFailed, BothEnds, Bad
<1>4. CASE proc = "error"
  <2>1. Failing
    BY <1>1, <1>4 DEF Finish, Fail, FinishOrphan, EInv, ErrorForReason
  <2>2. \E b \in Branches : HasFinished(b)
    <3>1. proc' = "finished"
      BY <1>1, <1>4 DEF Finish, Fail, FinishOrphan, OrphanState
    <3> QED
      BY <1>1, <3>1, FinishedNow DEF EInv, Fail
  <2> QED
    BY <1>2, <2>1, <2>2 DEF Failing, Divided, EndFailed, TaskFailed, BothEnds, Bad, HasFinished
<1> QED
  BY <1>3, <1>4

\* The state of an instance that has finished or failed stays, whoever else resumes it,
\* but for a called child that was resumed twice, whose runs something has divided.
THEOREM FinalStateIsFinal == Spec => FinalStateStays
<1>1. Init => IInv /\ EInv
  BY InitHolds, EInit
<1>2. (IInv /\ EInv) /\ [Next]_vars => (IInv /\ EInv)'
  BY StepHolds, EStep
<1>3. (IInv /\ EInv) /\ [Next]_vars =>
        [ (proc \in {"finished", "error"} /\ proc' # proc) =>
            /\ boot > 0 /\ kind = "callActivity"
            /\ blind \/ BothEnds \/ \E b \in Branches : endType[b] = "error" ]_vars
  BY StateChanges
<1> QED
  BY <1>1, <1>2, <1>3, PTL DEF Spec, FinalStateStays

-----------------------------------------------------------------------------
(* Nobody waits in vain                                                    *)

\* A run stands in every branch as long as it runs, and is over when all of them are done
\* or when it is known how it came out; whoever is stuck was interrupted.
Running ==
  \A r \in Runs : at[r] = "running" => \A b \in Branches : pos[r][b] # "idle"
FailedOut ==
  /\ \A r \in Runs, b \in Branches : pos[r][b] = "failed" => how[r] # "none"
  /\ \A r \in Runs : at[r] = "failing" => how[r] # "none"
OverOut == \A r \in Runs : at[r] = "over" => how[r] # "none" \/ AllDone(r)
StuckClosed ==
  \/ (\E r \in Runs, b \in Branches : pos[r][b] = "stuck")
  \/ (\E i \in DOMAIN queue : queue[i].event = "terminatedSilently")
  => closing \in {"closed", "over"}

\* Where a run stands in a branch changes only by these.
LEMMA PosMoves ==
  ASSUME IInv, [Next]_vars, NEW r \in Runs, NEW b \in Branches
  PROVE \/ Restart
        \/ Begins /\ r = 1 /\ pos'[r][b] = IF b \in Present THEN "waiting" ELSE "done"
        \/ pos'[r][b] = pos[r][b]
        \/ /\ Deliver /\ Hears(Head(queue), r, b)
           /\ pos'[r][b] = IF Head(queue).event = "terminatedSilently" THEN "stuck" ELSE "failed"
        \/ Retraces(r) /\ pos'[r][b] = Resumed(b)
        \/ pos[r][b] = "waiting" /\ pos'[r][b] = "leaving"
        \/ Branching(r, b) /\ UNCHANGED callerVars
<1> pos \in [Runs -> [Branches -> Positions]]
  BY DEF IInv, Chains
<1>1. CASE Begins
  <2>1. pos' = EnteredBy(1)
    BY <1>1 DEF Begins, StartEvent, WaitForSubProcessExecution
  <2> QED
    BY <1>1, <2>1 DEF EnteredBy
<1>2. CASE Deliver
  <2>1. pos'[r][b] = IF ~Hears(Head(queue), r, b) THEN pos[r][b]
                     ELSE IF Head(queue).event = "terminatedSilently" THEN "stuck" ELSE "failed"
    BY <1>2 DEF Deliver, TasksHear
  <2> QED
    BY <1>2, <2>1
<1>3. CASE Interrupted \/ TerminateSubprocess \/ Steady \/ \E q \in Runs : Failed(q)
  BY <1>3 DEF Interrupted, TerminateSubprocess, Steady, Failed, runVars
<1>4. CASE \E q \in Runs : Retraces(q)
  <2>1. PICK q \in Runs : Retraces(q)
    BY <1>4
  <2>2. pos'[r][b] = IF r = q THEN Resumed(b) ELSE pos[r][b]
    BY <2>1, RetracedPos DEF Retraces, IInv
  <2> QED
    BY <2>1, <2>2
<1>5. CASE \E c \in Branches : Answer(c)
  BY <1>5 DEF Answer
<1>6. CASE \E q \in Runs, c \in Branches : Branching(q, c) /\ UNCHANGED callerVars
  <2>1. PICK q \in Runs, c \in Branches : Branching(q, c) /\ UNCHANGED callerVars
    BY <1>6
  <2> QED
    BY <2>1, BranchStep
<1> QED
  BY <1>1, <1>2, <1>3, <1>4, <1>5, <1>6, StepKinds

\* How a run came out stays, until it is run again.
LEMMA HowStays ==
  ASSUME IInv, Unborn, [Next]_vars, NEW r \in Runs, how[r] # "none", ~Restart, ~Retraces(r)
  PROVE how'[r] = how[r]
<1> how \in [Runs -> Outcomes]
  BY DEF IInv, Chains
<1>1. CASE Begins
  BY <1>1 DEF Begins, StartEvent, WaitForSubProcessExecution
<1>2. CASE Deliver
  BY <1>2, Heard DEF Deliver, IInv
<1>3. CASE \E q \in Runs : Retraces(q)
  BY <1>3 DEF Retraces, Retrace
<1>4. CASE \E q \in Runs, b \in Branches : Branching(q, b)
  BY <1>4 DEF Branching, EnterEnd, ExitEnd, RegularEnd, ErrorEnd, TerminateEnd, ComesOut
<1>5. CASE Alone
  <2>1. CASE Save \/ StartEvent \/ Return \/ (\E q \in Runs : Finish(q)) \/ (\E q \in Runs : Fail(q)) \/
       (\E q \in Runs : Failed(q)) \/ (\E q \in Runs : Lookup(q)) \/ (\E q \in Runs : FinishOrphan(q))
    BY <2>1 DEF Save, StartEvent, Return, Finish, Fail, Failed, Lookup, FinishOrphan, ComesOut
  <2>2. CASE \E q \in Runs : Load(q)
    <3>1. PICK q \in Runs : Load(q)
      BY <2>2
    <3>2. CASE ~IsOrphaned /\ started
      <4>1. Retraces(q)
        BY <1>5, <3>1, <3>2 DEF Alone, Load, Retraces, Retrace, callerVars, dbVars, diagram
      <4> QED
        BY <1>3, <4>1
    <3>3. CASE IsOrphaned \/ ~started
      BY <3>1, <3>3 DEF Load, ComesOut
    <3> QED
      BY <3>2, <3>3
  <2> QED
    BY <1>4, <1>5, <2>1, <2>2 DEF Alone, InstanceStep, RunStep, Branching
<1>6. CASE CallerStep
  <2>1. CASE FindSubProcess
    <3>1. CASE started
      <4>1. Retraces(1)
        BY <2>1, <3>1 DEF FindSubProcess, WaitForSubProcessResumption, Retraces, Retrace, dbVars
      <4> QED
        BY <1>3, <4>1 DEF Runs
    <3>2. CASE ~started
      BY <2>1, <3>2 DEF FindSubProcess, runVars
    <3> QED
      BY <3>1, <3>2
  <2>2. CASE ClientReturns \/ ExecuteHandler \/ Suspended \/ WaitForSubProcessExecution \/ Refused \/
       RunReturns \/ ContinueAfterResume \/ Resolve \/ Reject \/ TerminateSubprocess \/ Close \/ FindCalled
    BY <2>2 DEF ClientReturns, ExecuteHandler, Suspended, WaitForSubProcessExecution, Refused, RunReturns,
       ContinueAfterResume, Resolve, Reject, TerminateSubprocess, Close, FindCalled, instanceVars, runVars
  <2> QED
    BY <1>6, <2>1, <2>2 DEF CallerStep
<1>7. CASE Answered \/ (Refuse /\ UNCHANGED callerVars) \/ StartAndAwaitEndEvent \/ Begin \/ Interrupted \/
     UNCHANGED vars
  BY <1>7 DEF Answered, Answer, Refuse, StartAndAwaitEndEvent, Begin, Interrupted, vars, instanceVars, runVars,
     ComesOut
<1> QED
  BY <1>2, <1>5, <1>6, <1>7 DEF Next, System

\* A run that goes on stands in all of its branches.
LEMMA RunningStands == ASSUME IInv, Unborn, Running, [Next]_vars PROVE Running'
<1> SUFFICES ASSUME NEW r \in Runs, at'[r] = "running", NEW b \in Branches PROVE pos'[r][b] # "idle"
  BY DEF Running
<1>1. ~Restart
  BY DEF Restart
<1>2. CASE pos[r][b] # "idle"
  <2>1. ~Retraces(r) \/ pos'[r][b] # Resumed(b) \/ Resumed(b) # "idle"
    BY DEF Resumed
  <2> QED
    BY <1>1, <1>2, <2>1, PosMoves, BranchStep
<1>3. CASE pos[r][b] = "idle"
  <2>1. at[r] # "running"
    BY <1>3 DEF Running
  <2>2. (Begins /\ r = 1) \/ Retraces(r)
    BY <1>1, <2>1, RunMoves DEF Keeping, Arriving, Leaving, Saving, Loading, Deciding, Fail
  <2>3. CASE Begins /\ r = 1
    <3>1. pos' = EnteredBy(1)
      BY <2>3 DEF Begins, StartEvent, WaitForSubProcessExecution
    <3> QED
      BY <2>3, <3>1 DEF EnteredBy, IInv, Chains
  <2>4. CASE Retraces(r)
    <3>1. pos'[r][b] = Resumed(b)
      BY <2>4, RetracedPos DEF Retraces, IInv
    <3> QED
      BY <3>1 DEF Resumed
  <2> QED
    BY <2>2, <2>3, <2>4
<1> QED
  BY <1>2, <1>3

\* Who has failed in a branch, or writes that it has failed, knows how it came out.
LEMMA FailingOut == ASSUME IInv, Unborn, FailedOut, [Next]_vars PROVE FailedOut'
<1> how \in [Runs -> Outcomes] /\ pos \in [Runs -> [Branches -> Positions]] /\ at \in [Runs -> RunPlaces]
  BY DEF IInv, Chains, Values
<1>1. ASSUME NEW r \in Runs, NEW b \in Branches, pos'[r][b] = "failed" PROVE how'[r] # "none"
  <2>1. ~Restart
    BY <1>1 DEF Restart
  <2>2. CASE Retraces(r)
    <3>1. Resumed(b) = "failed"
      BY <1>1, <2>2, RetracedPos DEF Retraces, IInv
    <3>2. \A c \in Branches : Resumed(c) = "failed" => FailedRow(c) # "none"
      <4> SUFFICES ASSUME NEW c \in Branches, Resumed(c) = "failed" PROVE FailedRow(c) # "none"
        OBVIOUS
      <4>1. CASE ends[c] = <<>>
        BY <4>1 DEF FailedRow, IInv, Work, RowsOfTasks, Rows
      <4>2. CASE ends[c] # <<>>
        <5>1. ends[c][1] \in RowsOfEnds
          BY <4>2 DEF IInv, Work
        <5> QED
          BY <4>2, <5>1 DEF FailedRow, RowsOfEnds
      <4> QED
        BY <4>1, <4>2
    <3>3. "none" \notin ResumedOutcomes
      BY <3>1, <3>2 DEF ResumedOutcomes
    <3>4. how'[r] \in ResumedOutcomes
      BY <2>2 DEF Retraces, Retrace
    <3> QED
      BY <3>3, <3>4
  <2>3. CASE Deliver /\ Hears(Head(queue), r, b) /\ ~Retraces(r)
    <3>1. Head(queue).event # "terminatedSilently"
      BY <1>1, <2>3 DEF Deliver, TasksHear
    <3>2. how[r] = "none" => how'[r] \in {"error", "terminated"}
      BY <2>3, <3>1 DEF Deliver, TasksHear
    <3> QED
      BY <2>1, <2>3, <3>2, HowStays
  <2>4. CASE Branching(r, b) /\ UNCHANGED callerVars
    BY <1>1, <2>4 DEF Branching, EnterEnd, ExitEnd, RegularEnd, ErrorEnd, TerminateEnd, ComesOut
  <2>5. CASE pos'[r][b] = pos[r][b] /\ ~Retraces(r)
    BY <1>1, <2>1, <2>5, HowStays DEF FailedOut
  <2> QED
    BY <1>1, <2>1, <2>2, <2>3, <2>4, <2>5, PosMoves
<1>2. ASSUME NEW r \in Runs, at'[r] = "failing" PROVE how'[r] # "none"
  <2>1. ~Restart /\ ~Retraces(r)
    BY <1>2 DEF Restart, Retraces, Retrace
  <2>2. ~(Begins /\ r = 1)
    BY <1>2, Beginnings
  <2>3. at[r] = "failing" \/ Fail(r)
    BY <1>2, <2>1, <2>2, RunMoves DEF Keeping, Arriving, Leaving, Saving, Loading, Deciding
  <2>4. how[r] # "none"
    BY <2>3 DEF FailedOut, Fail
  <2> QED
    BY <2>1, <2>4, HowStays
<1> QED
  BY <1>1, <1>2 DEF FailedOut

\* A run that comes to its end knows how, or has gone through all of its branches.
LEMMA ComesToEnd ==
  ASSUME IInv, Unborn, FailedOut, [Next]_vars, NEW r \in Runs, at[r] # "over", at'[r] = "over"
  PROVE how'[r] # "none" \/ (AllDone(r) /\ pos' = pos)
<1> USE DEF Runs
<1> how \in [Runs -> Outcomes] /\ at \in [Runs -> RunPlaces]
  BY DEF IInv, Chains, Values
<1>1. CASE Alone
  <2>1. CASE Save \/ StartEvent
    BY <2>1 DEF Save, StartEvent
  <2>2. CASE Return
    BY <2>2 DEF Return
  <2>3. CASE \E q \in Runs : Finish(q) \/ Fail(q)
    BY <2>3 DEF Finish, Fail
  <2>4. CASE \E q \in Runs : Failed(q)
    BY <2>4 DEF Failed, FailedOut
  <2>5. CASE \E q \in Runs : Lookup(q) \/ FinishOrphan(q)
    BY <2>5 DEF Lookup, FinishOrphan, ComesOut
  <2>6. CASE \E q \in Runs : Load(q)
    <3>1. PICK q \in Runs : Load(q)
      BY <2>6
    <3>2. CASE ~IsOrphaned /\ started
      BY <3>1, <3>2 DEF Load, Retrace
    <3>3. CASE IsOrphaned \/ ~started
      BY <3>1, <3>3 DEF Load, ComesOut
    <3> QED
      BY <3>2, <3>3
  <2>7. CASE \E q \in Runs, b \in Branches : EnterEnd(q, b) \/ ExitEnd(q, b) \/ RegularEnd(q, b) \/
       ErrorEnd(q, b) \/ TerminateEnd(q, b)
    BY <2>7 DEF EnterEnd, ExitEnd, RegularEnd, ErrorEnd, TerminateEnd
  <2> QED
    BY <1>1, <2>1, <2>2, <2>3, <2>4, <2>5, <2>6, <2>7 DEF Alone, InstanceStep, RunStep
<1>2. CASE CallerStep
  <2>1. CASE FindSubProcess
    BY <2>1 DEF FindSubProcess, WaitForSubProcessResumption, Retrace, runVars
  <2>2. CASE Suspended \/ WaitForSubProcessExecution \/ FindCalled
    BY <2>2 DEF Suspended, WaitForSubProcessExecution, FindCalled, ExecuteSubprocess
  <2>3. CASE ClientReturns \/ ExecuteHandler \/ Refused \/ RunReturns \/ ContinueAfterResume \/ Resolve \/
       Reject \/ TerminateSubprocess \/ Close
    BY <2>3 DEF ClientReturns, ExecuteHandler, Refused, RunReturns, ContinueAfterResume, Resolve, Reject,
       TerminateSubprocess, Close, instanceVars, runVars
  <2> QED
    BY <1>2, <2>1, <2>2, <2>3 DEF CallerStep
<1>3. CASE Refuse /\ UNCHANGED callerVars
  BY <1>3 DEF Refuse, ComesOut
<1>4. CASE Restart
  BY <1>4 DEF Restart
<1>5. CASE Deliver \/ Answered \/ StartAndAwaitEndEvent \/ Begin \/ Interrupted \/ UNCHANGED vars
  BY <1>5 DEF Deliver, Answered, Answer, StartAndAwaitEndEvent, Begin, Interrupted, vars, instanceVars, runVars
<1> QED
  BY <1>1, <1>2, <1>3, <1>4, <1>5 DEF Next, System

\* What is done is done, until it is run again.
LEMMA DoneStays ==
  ASSUME IInv, [Next]_vars, NEW r \in Runs, AllDone(r), ~Restart, ~Retraces(r), ~Begins
  PROVE AllDone(r)'
<1> SUFFICES ASSUME NEW b \in Branches PROVE pos'[r][b] = "done"
  BY DEF AllDone
<1>1. pos[r][b] = "done"
  BY DEF AllDone
<1> QED
  BY <1>1, PosMoves, BranchStep DEF Hears

\* Who is over knows how, or is through.
LEMMA StayingOver == ASSUME IInv, Unborn, FailedOut, OverOut, [Next]_vars PROVE OverOut'
<1> SUFFICES ASSUME NEW r \in Runs, at'[r] = "over" PROVE how'[r] # "none" \/ AllDone(r)'
  BY DEF OverOut
<1>1. ~Restart /\ ~Retraces(r)
  BY DEF Restart, Retraces, Retrace, IInv, Values
<1>2. CASE at[r] # "over"
  <2>1. how'[r] # "none" \/ (AllDone(r) /\ pos' = pos)
    BY <1>2, ComesToEnd
  <2> QED
    BY <2>1 DEF AllDone
<1>3. CASE at[r] = "over"
  <2>1. at \in [Runs -> RunPlaces]
    BY DEF IInv, Values
  <2>2. ~Begins
    <3>1. ASSUME Begins PROVE FALSE
      <4>1. at' = [at EXCEPT ![1] = "running"] /\ at[2] = "off"
        BY <3>1, Beginnings DEF Begins
      <4> QED
        BY <1>3, <2>1, <4>1 DEF Runs
    <3> QED
      BY <3>1
  <2>3. CASE how[r] # "none"
    BY <1>1, <2>3, HowStays
  <2>4. CASE AllDone(r)
    BY <1>1, <2>2, <2>4, DoneStays
  <2> QED
    BY <1>3, <2>3, <2>4 DEF OverOut
<1> QED
  BY <1>2, <1>3

\* What is put onto the queue, and by whom.
LEMMA QueueMoves ==
  ASSUME IInv, [Next]_vars
  PROVE \/ Deliver \/ Restart \/ queue' = queue
        \/ StartEvent /\ Publish("started") /\ UNCHANGED callerVars
        \/ Interrupted /\ closing' = "closed" /\ Publish("terminatedSilently")
        \/ TerminateSubprocess /\ Publish("terminatedByParent")
        \/ \E r \in Runs : Failed(r) /\ UNCHANGED callerVars
        \/ \E r \in Runs, b \in Branches : RegularEnd(r, b) /\ UNCHANGED callerVars
        \/ \E r \in Runs, b \in Branches : TerminateEnd(r, b) /\ UNCHANGED callerVars
<1>1. CASE Begins
  BY <1>1 DEF Begins, StartEvent, WaitForSubProcessExecution
<1>2. CASE Interrupted
  BY <1>2 DEF Interrupted, SendTerminationSignalToSubProcess
<1>3. CASE TerminateSubprocess
  BY <1>3 DEF TerminateSubprocess, TerminateChild
<1>4. CASE \E r \in Runs, b \in Branches : Branching(r, b) /\ UNCHANGED callerVars
  BY <1>4 DEF Branching, EnterEnd, ExitEnd, ErrorEnd
<1>5. CASE Steady \/ (\E r \in Runs : Retraces(r)) \/ \E b \in Branches : Answer(b)
  BY <1>5 DEF Steady, Retraces, Answer
<1> QED
  BY <1>1, <1>2, <1>3, <1>4, <1>5, StepKinds

\* An event that is published is behind the others, which stay.
LEMMA PublishedLast ==
  ASSUME IInv, NEW event, Publish(event)
  PROVE /\ \A i \in DOMAIN queue : i \in DOMAIN queue' /\ queue'[i] = queue[i]
        /\ \A i \in DOMAIN queue' : (i \in DOMAIN queue /\ queue'[i] = queue[i]) \/ queue'[i] = EntryFor(event)
        /\ Topic(event) \in listens => \E i \in DOMAIN queue' : queue'[i] = EntryFor(event)
<1>1. CASE queue' = queue /\ ~EntryFor(event).caller
  BY <1>1 DEF EntryFor
<1>2. CASE queue' = Append(queue, EntryFor(event))
  <2>1. DOMAIN queue' = DOMAIN queue \cup {Len(queue) + 1}
    BY <1>2 DEF IInv, Queued
  <2>2. \A j \in DOMAIN queue : queue'[j] = queue[j]
    BY <1>2 DEF IInv, Queued
  <2>3. queue'[Len(queue) + 1] = EntryFor(event)
    BY <1>2 DEF IInv, Queued
  <2> QED
    BY <2>1, <2>2, <2>3
<1> QED
  BY <1>1, <1>2, Published

\* Nobody is stuck who was not interrupted.
LEMMA StayingClosed == ASSUME IInv, StuckClosed, [Next]_vars PROVE StuckClosed'
<1>1. CASE Restart
  BY <1>1 DEF Restart, StuckClosed
<1>2. CASE closing \in {"closed", "over"} /\ ~Restart
  <2>1. closing' \in {"closed", "over"}
    BY <1>2 DEF Next, System, Alone, CallerStep, ClientReturns, ExecuteHandler, Suspended,
       WaitForSubProcessExecution, Refused, RunReturns, ContinueAfterResume, Resolve, Reject,
       TerminateSubprocess, Close, FindCalled, FindSubProcess, Deliver, Answered, StartAndAwaitEndEvent,
       Begin, Interrupted, callerVars, vars
  <2> QED
    BY <2>1 DEF StuckClosed
<1>3. CASE closing \notin {"closed", "over"} /\ ~Restart
  <2>1. /\ \A r \in Runs, b \in Branches : pos[r][b] # "stuck"
        /\ \A i \in DOMAIN queue : queue[i].event # "terminatedSilently"
    BY <1>3 DEF StuckClosed
  <2>2. CASE Deliver
    <3>1. queue # <<>> /\ queue' = Tail(queue)
      BY <2>2 DEF Deliver
    <3>2. 1 \in DOMAIN queue /\ Head(queue) = queue[1]
      BY <3>1, EmptySeq DEF IInv, Queued
    <3>3. \A i \in DOMAIN queue' : i + 1 \in DOMAIN queue /\ queue'[i] = queue[i + 1]
      BY <3>1 DEF IInv, Queued
    <3>4. \A r \in Runs, b \in Branches : pos'[r][b] = pos[r][b] \/ pos'[r][b] = "failed"
      <4> SUFFICES ASSUME NEW r \in Runs, NEW b \in Branches PROVE pos'[r][b] = pos[r][b] \/ pos'[r][b] = "failed"
        OBVIOUS
      <4>1. pos'[r][b] = IF ~Hears(Head(queue), r, b) THEN pos[r][b]
                         ELSE IF Head(queue).event = "terminatedSilently" THEN "stuck" ELSE "failed"
        BY <2>2 DEF Deliver, TasksHear
      <4> QED
        BY <2>1, <3>2, <4>1
    <3>5. \A i \in DOMAIN queue' : queue'[i].event # "terminatedSilently"
      BY <2>1, <3>3
    <3> QED
      BY <2>1, <3>4, <3>5 DEF StuckClosed
  <2>3. CASE ~Deliver
    <3>1. \A r \in Runs, b \in Branches : pos'[r][b] # "stuck"
      <4> SUFFICES ASSUME NEW r \in Runs, NEW b \in Branches PROVE pos'[r][b] # "stuck"
        OBVIOUS
      <4>1. Resumed(b) # "stuck"
        BY DEF Resumed
      <4> QED
        BY <1>3, <2>1, <2>3, <4>1, PosMoves, BranchStep
    <3>2. CASE Interrupted /\ closing' = "closed"
      BY <3>2 DEF StuckClosed
    <3>3. CASE TerminateSubprocess
      BY <3>3 DEF TerminateSubprocess, StuckClosed
    <3>4. ASSUME NEW event, Publish(event), event # "terminatedSilently" PROVE StuckClosed'
      <4>1. \A i \in DOMAIN queue' : queue'[i].event # "terminatedSilently"
        BY <2>1, <3>4, PublishedLast DEF EntryFor
      <4> QED
        BY <3>1, <4>1 DEF StuckClosed
    <3>5. CASE StartEvent \/ (\E r \in Runs : Failed(r)) \/
         (\E r \in Runs, b \in Branches : RegularEnd(r, b) \/ TerminateEnd(r, b))
      BY <3>4, <3>5 DEF StartEvent, Failed, SendNotification, RegularEnd, NotifyAboutRegularEnd, TerminateEnd,
         NotifyAboutTermination
    <3>6. CASE queue' = queue
      BY <2>1, <3>1, <3>6 DEF StuckClosed
    <3> QED
      BY <1>3, <2>3, <3>2, <3>3, <3>5, <3>6, QueueMoves
  <2> QED
    BY <2>2, <2>3
<1> QED
  BY <1>1, <1>2, <1>3

\* A called child that is not there yet has told nobody of anything; who looks for a child
\* has not subscribed to anything yet.
NothingYet ==
  /\ kind = "callActivity" /\ (proc = "absent" \/ at[1] = "saving") =>
       queue = <<>> /\ ~known /\ closing # "reading"
  /\ place = "finding" => listens = {}

\* Nothing is told before the child is there.
LEMMA StayingQuiet ==
  ASSUME IInv, Unborn, NothingYet, [Next]_vars
  PROVE NothingYet'
<1> USE DEF Runs
<1> at \in [Runs -> RunPlaces]
  BY DEF IInv, Values
<1>1. ASSUME kind' = "callActivity", proc' = "absent" \/ at'[1] = "saving"
      PROVE queue' = <<>> /\ ~known' /\ closing' # "reading"
  <2>1. CASE Restart
    BY <2>1 DEF Restart
  <2>2. kind = "callActivity"
    BY <1>1, Keeps DEF IInv, Kept, diagram
  <2>3. proc = "absent" \/ at[1] = "saving"
    <3>1. CASE at'[1] = "saving" /\ at[1] # "saving" /\ ~Restart
      <4>1. Saving(1) \/ Begins
        BY <3>1, RunMoves DEF Keeping, Arriving, Leaving, Loading, Deciding, Fail, Retraces, Retrace
      <4>2. ~Begins
        <5>1. ASSUME Begins PROVE FALSE
          BY <1>1, <3>1, <5>1, Beginnings
        <5> QED
          BY <5>1
      <4> QED
        BY <4>1, <4>2 DEF Saving, IInv, Phases
    <3>2. CASE proc' = "absent"
      BY ZenonT(60), <3>2 DEF Next, System, Alone, InstanceStep, RunStep, Save, StartEvent, Return, Finish, Fail, Failed,
         Lookup, Load, FinishOrphan, OrphanState, EnterEnd, ExitEnd, RegularEnd, ErrorEnd, TerminateEnd,
         CallerStep, ClientReturns, ExecuteHandler, Suspended, WaitForSubProcessExecution, Refused, RunReturns,
         ContinueAfterResume, Resolve, Reject, TerminateSubprocess, Close, FindCalled, FindSubProcess, Deliver,
         Answered, Answer, Refuse, StartAndAwaitEndEvent, Begin, Restart, Interrupted, vars, instanceVars,
         dbVars
    <3>3. CASE Restart
      BY <1>1, <3>3 DEF Restart, dbVars
    <3> QED
      BY <1>1, <3>1, <3>2, <3>3
  <2>4. queue = <<>> /\ ~known /\ closing # "reading"
    BY <2>2, <2>3 DEF NothingYet
  <2>5. ~started /\ at[2] = "off" /\ at[1] \in {"off", "starting", "saving", "over"}
    BY <2>2, <2>3 DEF IInv, Phases
  <2>6. \A r \in Runs, b \in Branches : pos[r][b] = "idle"
    BY <2>5 DEF IInv, Begun
  <2>7. CASE ~Restart
    <3>1. ~Deliver /\ ~TerminateSubprocess
      BY <2>4 DEF Deliver, TerminateSubprocess
    <3>2. \A r \in Runs : ~Failed(r) /\ \A b \in Branches : ~RegularEnd(r, b) /\ ~TerminateEnd(r, b)
      BY <2>5, <2>6 DEF Failed, RegularEnd, TerminateEnd
    <3>3. ~StartEvent
      BY <1>1, <2>5 DEF StartEvent, IInv, Phases
    <3>4. ~(Interrupted /\ closing' = "closed" /\ Publish("terminatedSilently")) \/ queue' = queue
      BY <2>2, <2>4 DEF Interrupted
    <3>5. queue' = <<>>
      BY <2>4, <2>7, <3>1, <3>2, <3>3, <3>4, QueueMoves
    <3>6. ~known'
      <4>1. CASE FindCalled
        <5>1. proc # "absent" => at[1] # "saving"
          BY <4>1 DEF FindCalled, IInv, Stations
        <5>2. proc = "absent"
          BY <2>3, <5>1
        <5> QED
          BY <2>4, <4>1, <5>2 DEF FindCalled
      <4>2. CASE ~FindCalled
        BY <2>2, <2>4, <2>7, <3>1, <4>2 DEF Next, System, Alone, CallerStep, ClientReturns, ExecuteHandler,
           Suspended, WaitForSubProcessExecution, Refused, RunReturns, ContinueAfterResume, Resolve, Reject,
           Close, FindSubProcess, Answered, StartAndAwaitEndEvent, Begin, Interrupted, callerVars, vars
      <4> QED
        BY <4>1, <4>2
    <3>7. closing' # "reading"
      BY <2>2, <2>4, <2>7, <3>1 DEF Next, System, Alone, CallerStep, ClientReturns, ExecuteHandler,
         Suspended, WaitForSubProcessExecution, Refused, RunReturns, ContinueAfterResume, Resolve, Reject,
         Close, FindCalled, FindSubProcess, Answered, StartAndAwaitEndEvent, Begin, Interrupted, callerVars, vars
    <3> QED
      BY <3>5, <3>6, <3>7
  <2> QED
    BY <2>1, <2>7
<1>2. ASSUME place' = "finding" PROVE listens' = {}
  <2>1. CASE Restart
    BY <2>1 DEF Restart
  <2>2. CASE ~Restart
    <3>1. place = "finding"
      BY <1>2, <2>2 DEF Next, System, Alone, CallerStep, ClientReturns, ExecuteHandler, Suspended,
         ExecuteSubprocess, WaitForSubProcessExecution, Refused, RunReturns, GoOn, GoDown, GoDownTerminated,
         ContinueAfterResume, Resolve, Reject, TerminateSubprocess, Close, FindCalled, FindSubProcess,
         WaitForSubProcessResumption, Deliver, CallerHears, StartIsHeard, ClientHears, HandlerHears, Answered,
         StartAndAwaitEndEvent, Begin, Interrupted, callerVars, vars
    <3>2. listens = {} /\ at[2] = "off"
      BY <3>1 DEF NothingYet, IInv, Fresh
    <3>3. CASE Alone
      <4>1. \A r \in Runs : Load(r) => listens' = listens
        BY <3>2 DEF Load
      <4> QED
        BY <3>2, <3>3, <4>1 DEF Alone, InstanceStep, RunStep, Save, StartEvent, Return, Finish, Fail, Failed,
           Lookup, FinishOrphan, EnterEnd, ExitEnd, RegularEnd, ErrorEnd, TerminateEnd
    <3>4. CASE Deliver
      BY <3>2, <3>4 DEF Deliver
    <3>5. CASE Interrupted
      BY <3>2, <3>5 DEF Interrupted
    <3>6. CASE CallerStep
      BY <1>2, <3>1, <3>2, <3>6 DEF CallerStep, ClientReturns, ExecuteHandler, Suspended,
         WaitForSubProcessExecution, Refused, RunReturns, GoOn, GoDown, GoDownTerminated,
         ContinueAfterResume, Resolve, Reject, TerminateSubprocess, Close, FindCalled, ExecuteSubprocess,
         FindSubProcess, WaitForSubProcessResumption, instanceVars
    <3>7. CASE Answered \/ (Refuse /\ UNCHANGED callerVars) \/ StartAndAwaitEndEvent \/ Begin \/ UNCHANGED vars
      BY <1>2, <3>2, <3>7 DEF Answered, Answer, Refuse, StartAndAwaitEndEvent, Begin, vars, instanceVars
    <3> QED
      BY <2>2, <3>3, <3>4, <3>5, <3>6, <3>7 DEF Next, System
  <2> QED
    BY <2>1, <2>2
<1> QED
  BY <1>1, <1>2 DEF NothingYet

\* A branch that the diagram does without has no end event; until a second run has loaded
\* the rows, after one restart, every end event has one row at most.
OneRow ==
  /\ \A b \in Branches \ Present : ends[b] = <<>>
  /\ boot <= 1 /\ at[2] \in {"off", "looking", "loading"} =>
       \A b \in Branches : Len(ends[b]) <= 1 /\ (ends[b] # <<>> => pos[1][b] \notin {"waiting", "leaving"})

\* The rows of an end event: who enters it adds one, and the first one stays finished.
LEMMA RowsMove ==
  ASSUME IInv, [Next]_vars, NEW b \in Branches
  PROVE /\ \/ Len(ends'[b]) = Len(ends[b])
           \/ Len(ends'[b]) = Len(ends[b]) + 1 /\ b \in Present /\ \E r \in Runs : EnterEnd(r, b)
        /\ ends[b] # <<>> /\ ends[b][1] = "finished" => ends'[b] # <<>> /\ ends'[b][1] = "finished"
<1> ends[b] \in Seq(RowsOfEnds)
  BY DEF IInv, Work
<1>1. CASE ends'[b] = ends[b]
  BY <1>1
<1>2. CASE \E r \in Runs : EnterEnd(r, b)
  <2>1. PICK r \in Runs : EnterEnd(r, b)
    BY <1>2
  <2>2. ends'[b] = Append(ends[b], "running")
    BY <2>1 DEF EnterEnd, IInv, Work
  <2>3. b \in Present
    BY <2>1 DEF EnterEnd, IInv, EndsEntered
  <2>4. Len(ends'[b]) = Len(ends[b]) + 1 /\ ends'[b] # <<>>
    BY <2>2
  <2>5. ends[b] # <<>> => ends'[b][1] = ends[b][1]
    BY <2>2
  <2> QED
    BY <2>1, <2>3, <2>4, <2>5
<1>3. CASE \E r \in Runs : ExitEnd(r, b)
  <2>1. PICK r \in Runs : ExitEnd(r, b)
    BY <1>3
  <2> DEFINE left == CASE endType[b] = "invalid" -> "error"
                       [] endType[b] = "terminate" -> "terminated"
                       [] OTHER -> "finished"
  <2>2. ends'[b] = [ends[b] EXCEPT ![mine[r][b]] = left]
    BY <2>1 DEF ExitEnd, IInv, Work
  <2>3. HasFinished(b) => endType[b] \notin {"invalid", "terminate"}
    BY DEF IInv, FinishedTypes
  <2>4. ends[b] # <<>> /\ ends[b][1] = "finished" => left = "finished"
    <3>1. ends[b] # <<>> => 1 \in DOMAIN ends[b]
      BY EmptySeq
    <3> QED
      BY <2>3, <3>1 DEF HasFinished
  <2> HIDE DEF left
  <2>5. Len(ends'[b]) = Len(ends[b]) /\ (ends[b] # <<>> => ends'[b] # <<>>)
    BY <2>2
  <2>6. ends[b] # <<>> => ends'[b][1] \in {ends[b][1], left}
    BY <2>2
  <2> QED
    BY <2>4, <2>5, <2>6
<1>4. ends'[b] = ends[b] \/ (\E r \in Runs : EnterEnd(r, b)) \/ (\E r \in Runs : ExitEnd(r, b))
  BY EndsChange DEF EnterEnd, ExitEnd, IInv, Work
<1> QED
  BY <1>1, <1>2, <1>3, <1>4

\* No second row before a second restart.
LEMMA StayingOneRow ==
  ASSUME IInv, Unborn, EndsOnce, OneRow, [Next]_vars
  PROVE OneRow'
<1> USE DEF Runs
<1> /\ boot \in Nat /\ at \in [Runs -> RunPlaces] /\ ends \in [Branches -> Seq(RowsOfEnds)]
    /\ ends' \in [Branches -> Seq(RowsOfEnds)]
  BY InstanceAssumption, Working DEF IInv, Values, Work
<1>1. Present' = Present
  BY Keeps DEF IInv, Kept, diagram, Present
<1>2. ASSUME NEW b \in Branches \ Present PROVE ends'[b] = <<>>
  <2>1. Len(ends[b]) = 0
    BY DEF OneRow
  <2>2. Len(ends'[b]) = 0
    BY <2>1, RowsMove
  <2> QED
    BY <2>2, EmptySeq
<1>3. ASSUME boot' <= 1, at'[2] \in {"off", "looking", "loading"}, NEW b \in Branches
      PROVE Len(ends'[b]) <= 1 /\ (ends'[b] # <<>> => pos'[1][b] \notin {"waiting", "leaving"})
  <2>1. CASE Restart
    <3>1. boot = 0 /\ at[2] = "off"
      BY <1>3, <2>1 DEF Restart, EndsOnce
    <3>2. Len(ends[b]) <= 1
      BY <3>1 DEF OneRow
    <3> QED
      BY <2>1, <3>2 DEF Restart, dbVars
  <2>2. CASE ~Restart
    <3>1. boot' = boot
      BY ZenonT(60), <2>2 DEF Next, System, Alone, InstanceStep, RunStep, Save, StartEvent, Return, Finish, Fail, Failed,
         Lookup, Load, FinishOrphan, EnterEnd, ExitEnd, RegularEnd, ErrorEnd, TerminateEnd, CallerStep,
         ClientReturns, ExecuteHandler, Suspended, WaitForSubProcessExecution, Refused, RunReturns,
         ContinueAfterResume, Resolve, Reject, TerminateSubprocess, Close, FindCalled, FindSubProcess, Deliver,
         Answered, Answer, Refuse, StartAndAwaitEndEvent, Begin, Interrupted, vars, instanceVars
    <3>2. at[2] \in {"off", "looking", "loading"}
      BY <1>3, <2>2, RunMoves DEF Keeping, Arriving, Leaving, Saving, Loading, Deciding, Fail, Retraces, Retrace
    <3>3. pos[2][b] = "idle"
      BY <3>2 DEF IInv, IdleRuns
    <3>4. Len(ends[b]) <= 1 /\ (ends[b] # <<>> => pos[1][b] \notin {"waiting", "leaving"})
      BY <1>3, <3>1, <3>2 DEF OneRow
    <3>5. CASE \E r \in Runs : EnterEnd(r, b)
      <4>1. EnterEnd(1, b)
        BY <3>3, <3>5 DEF EnterEnd
      <4>2. ends[b] = <<>> /\ pos'[1][b] = "ending"
        BY <3>4, <4>1 DEF EnterEnd, IInv, Chains
      <4> QED
        BY <4>2, RowsMove
    <3>6. CASE ~\E r \in Runs : EnterEnd(r, b)
      <4>1. Len(ends'[b]) = Len(ends[b])
        BY <3>6, RowsMove
      <4>2. ASSUME ends'[b] # <<>> PROVE pos'[1][b] \notin {"waiting", "leaving"}
        <5>1. ends[b] # <<>>
          BY <4>1, <4>2, EmptySeq
        <5>2. Resumed(b) \notin {"waiting", "leaving"}
          BY <5>1 DEF Resumed
        <5>3. ~Begins
          BY <5>1, Beginnings
        <5> QED
          BY <2>2, <3>4, <5>1, <5>2, <5>3, PosMoves, BranchStep
      <4> QED
        BY <3>4, <4>1, <4>2
    <3> QED
      BY <3>5, <3>6
  <2> QED
    BY <2>1, <2>2
<1> QED
  BY <1>1, <1>2, <1>3 DEF OneRow


\* Who loads rows that all tell of the end, but for one that is open, has found two rows.
LEMMA LoadsTwice ==
  ASSUME IInv, OneRow, Load(2), at'[2] = "running", AllDone(2)'
  PROVE EndedTwice
<1> USE DEF Runs
<1> boot \in Nat /\ at \in [Runs -> RunPlaces] /\ ends \in [Branches -> Seq(RowsOfEnds)]
  BY InstanceAssumption DEF IInv, Values, Work
<1>1. ~IsOrphaned /\ Retrace(2) /\ at[2] = "loading"
  BY DEF Load
<1>2. \A b \in Branches : Resumed(b) = "done"
  BY <1>1, RetracedPos DEF AllDone, IInv
<1>3. \A b \in Present : b \in Branches /\ ends[b] # <<>> /\ ends[b][1] = "finished"
  BY <1>2 DEF Resumed, Present
<1>4. PICK c \in Branches : endType[c] # NoBranch
  BY InstanceAssumption DEF IInv, Values, diagram
<1>5. HasReachedAnEndEvent
  BY <1>3, <1>4 DEF Present, HasReachedAnEndEvent
<1>6. HasActiveFlowNodeInstances
  BY <1>1, <1>5 DEF IsOrphaned
<1>7. \A b \in Branches : task[b] # "suspended"
  BY <1>3 DEF IInv, SuspendedFirst
<1>8. PICK b \in Branches : \E i \in DOMAIN ends[b] : ends[b][i] = "running"
  BY <1>6, <1>7 DEF HasActiveFlowNodeInstances
<1>9. PICK i \in DOMAIN ends[b] : ends[b][i] = "running"
  BY <1>8
<1>10. b \in Present
  BY <1>8 DEF OneRow
<1>11. Len(ends[b]) > 1
  <2>1. i \in 1 .. Len(ends[b]) /\ Len(ends[b]) \in Nat
    BY <1>9
  <2>2. i # 1
    BY <1>3, <1>9, <1>10
  <2> QED
    BY <2>1, <2>2
<1>12. boot > 1
  BY <1>1, <1>11 DEF OneRow
<1>13. kind = "callActivity"
  BY <1>1 DEF IInv, Phases
<1> QED
  BY <1>3, <1>10, <1>11, <1>12, <1>13 DEF EndedTwice

\* Two rows are two rows for ever.
LEMMA TwiceStays == ASSUME IInv, EndedTwice, [Next]_vars PROVE EndedTwice'
<1>1. kind' = "callActivity" /\ Work'
  BY Keeps, Working DEF IInv, Kept, diagram, EndedTwice
<1>2. boot' > 1
  <2>1. boot' = boot \/ boot' = boot + 1
    BY DEF Next, System, Alone, InstanceStep, RunStep, Save, StartEvent, Return, Finish, Fail, Failed,
       Lookup, Load, FinishOrphan, EnterEnd, ExitEnd, RegularEnd, ErrorEnd, TerminateEnd, CallerStep,
       ClientReturns, ExecuteHandler, Suspended, WaitForSubProcessExecution, Refused, RunReturns,
       ContinueAfterResume, Resolve, Reject, TerminateSubprocess, Close, FindCalled, FindSubProcess, Deliver,
       Answered, Answer, Refuse, StartAndAwaitEndEvent, Begin, Restart, Interrupted, vars, instanceVars
  <2> QED
    BY <2>1, InstanceAssumption DEF EndedTwice, IInv, Values
<1>3. PICK b \in Branches : Len(ends[b]) > 1 /\ ends[b][1] = "finished"
  BY DEF EndedTwice
<1>4. ends[b] # <<>> /\ Len(ends[b]) \in Nat
  BY <1>3 DEF IInv, Work
<1>5. Len(ends'[b]) > 1 /\ ends'[b][1] = "finished"
  BY <1>3, <1>4, RowsMove
<1> QED
  BY <1>1, <1>2, <1>5 DEF EndedTwice

\* The second run begins when its caller has found the child, and loads its rows.
LEMMA SecondMoves ==
  ASSUME IInv, [Next]_vars
  PROVE /\ at[2] = "off" /\ at'[2] # "off" => FindCalled
        /\ at[2] # "running" /\ at'[2] = "running" => Load(2)
<1> USE DEF Runs
<1> at \in [Runs -> RunPlaces]
  BY DEF IInv, Values
<1>1. CASE Alone
  <2>1. CASE Save \/ StartEvent \/ Return
    BY <2>1 DEF Save, StartEvent, Return
  <2>2. CASE \E q \in Runs : Finish(q) \/ Fail(q) \/ Failed(q)
    BY <2>2 DEF Finish, Fail, Failed
  <2>3. CASE \E q \in Runs : Lookup(q) \/ FinishOrphan(q)
    BY <2>3 DEF Lookup, FinishOrphan
  <2>4. CASE \E q \in Runs : Load(q)
    BY <2>4 DEF Load, Retrace
  <2>5. CASE \E q \in Runs, b \in Branches : EnterEnd(q, b) \/ ExitEnd(q, b) \/ RegularEnd(q, b) \/
       ErrorEnd(q, b) \/ TerminateEnd(q, b)
    BY <2>5 DEF EnterEnd, ExitEnd, RegularEnd, ErrorEnd, TerminateEnd
  <2> QED
    BY <1>1, <2>1, <2>2, <2>3, <2>4, <2>5 DEF Alone, InstanceStep, RunStep
<1>2. CASE CallerStep
  <2>1. CASE FindSubProcess
    BY <2>1 DEF FindSubProcess, WaitForSubProcessResumption, Retrace, runVars
  <2>2. CASE Suspended \/ WaitForSubProcessExecution \/ FindCalled
    BY <2>2 DEF Suspended, WaitForSubProcessExecution, FindCalled, ExecuteSubprocess
  <2>3. CASE ClientReturns \/ ExecuteHandler \/ Refused \/ RunReturns \/ ContinueAfterResume \/ Resolve \/
       Reject \/ TerminateSubprocess \/ Close
    BY <2>3 DEF ClientReturns, ExecuteHandler, Refused, RunReturns, ContinueAfterResume, Resolve, Reject,
       TerminateSubprocess, Close, instanceVars, runVars
  <2> QED
    BY <1>2, <2>1, <2>2, <2>3 DEF CallerStep
<1>3. CASE (Refuse /\ UNCHANGED callerVars) \/ Restart \/ StartAndAwaitEndEvent
  BY <1>3 DEF Refuse, Restart, StartAndAwaitEndEvent
<1>4. CASE Deliver \/ Answered \/ Begin \/ Interrupted \/ UNCHANGED vars
  BY <1>4 DEF Deliver, Answered, Answer, Begin, Interrupted, vars, instanceVars, runVars
<1> QED
  BY <1>1, <1>2, <1>3, <1>4 DEF Next, System

\* Who changes the subscriptions of the caller.
LEMMA ListensMoves ==
  ASSUME [Next]_vars
  PROVE \/ listens' = listens \/ Deliver \/ Restart \/ StartAndAwaitEndEvent \/ Interrupted \/ RunReturns
        \/ Suspended \/ WaitForSubProcessExecution \/ FindCalled \/ FindSubProcess \/ Load(2)
<1>1. CASE Alone
  BY <1>1 DEF Alone, InstanceStep, RunStep, Save, StartEvent, Return, Finish, Fail, Failed, Lookup, Load,
     FinishOrphan, EnterEnd, ExitEnd, RegularEnd, ErrorEnd, TerminateEnd
<1>2. CASE CallerStep
  BY <1>2 DEF CallerStep, ClientReturns, ExecuteHandler, Refused, ContinueAfterResume, Resolve, Reject,
     TerminateSubprocess, Close, instanceVars
<1>3. CASE Answered \/ (Refuse /\ UNCHANGED callerVars) \/ Begin \/ UNCHANGED vars
  BY <1>3 DEF Answered, Answer, Refuse, Begin, vars, instanceVars
<1> QED
  BY <1>1, <1>2, <1>3 DEF Next, System

\* Who begins to wait.
LEMMA PlaceMoves ==
  ASSUME IInv, [Next]_vars, place' # place
  PROVE \/ Restart \/ StartAndAwaitEndEvent \/ WaitForSubProcessExecution \/ Suspended
        \/ FindCalled \/ (FindSubProcess /\ started)
        \/ /\ Deliver /\ Head(queue).caller /\ Topic(Head(queue).event) \in listens
           /\ CallerHears(Head(queue).event)
        \/ place' \notin {"idle", "entering", "suspending", "finding", "starting", "waiting"}
        \/ place' \in {"entering", "suspending"} /\ (Begin \/ ExecuteHandler)
<1>1. CASE Alone
  BY <1>1 DEF Alone, callerVars
<1>2. CASE CallerStep
  BY <1>2 DEF CallerStep, ClientReturns, ExecuteHandler, Refused, RunReturns, GoOn, GoDown, GoDownTerminated,
     ContinueAfterResume, Resolve, Reject, TerminateSubprocess, Close, FindSubProcess
<1>3. CASE Deliver
  BY <1>3 DEF Deliver
<1>4. CASE Answered \/ (Refuse /\ UNCHANGED callerVars) \/ Begin \/ Interrupted \/ UNCHANGED vars
  BY <1>4 DEF Answered, Begin, Interrupted, vars, callerVars
<1> QED
  BY <1>1, <1>2, <1>3, <1>4 DEF Next, System

\* An answer to the caller, or the news of the start, is on its way.
AnswerOnWay == \E i \in DOMAIN queue : queue[i].caller /\ Topic(queue[i].event) \in listens
StartOnWay ==
  /\ Len(queue) = 1 /\ queue[1].event = "started" /\ queue[1].caller
  /\ at[1] = "running" /\ how[1] = "none"
  /\ \A b \in Present : pos[1][b] = "waiting"
NoneDone == \A b \in Present : pos[1][b] # "done"

\* The start is told once, to a handler that waits for it.
StartedOnce ==
  /\ kind = "callActivity" /\ at[1] \in {"starting", "saving"} => place = "starting"
  /\ \A i \in DOMAIN queue : queue[i].event = "started" =>
       /\ place = "starting" /\ how[1] # "refused"
       /\ \A j \in DOMAIN queue : queue[j].event = "started" => j = i

\* What a caller that waits can count on: a client, a sub process, a call activity before
\* and after it knows its child.
ClientServed ==
  kind = "client" /\ place = "waiting" =>
    /\ at[1] \in {"starting", "saving", "running", "failing", "over"}
    /\ heard \/ (listens = {"ended"} /\ (NoneDone \/ AnswerOnWay))
SubServed == kind = "subProcess" /\ place = "waiting" => at[1] \in {"running", "over"}
StartServed ==
  place = "starting" =>
    /\ kind = "callActivity" /\ at[2] = "off"
    /\ closing = "no" =>
         /\ listens = {"started"}
         /\ \/ at[1] \in {"starting", "saving"}
            \/ at[1] = "over" /\ how[1] = "refused" /\ proc = "absent"
            \/ StartOnWay
CallServed ==
  kind = "callActivity" /\ place = "waiting" /\ closing = "no" =>
    /\ at[2] = "off" =>
         /\ listens = EveryEnd
         /\ AnswerOnWay \/ (at[1] \in {"running", "failing"} /\ NoneDone)
    /\ at[2] # "off" =>
         /\ listens \subseteq {"ended"} /\ (at[2] = "running" => "ended" \in listens)
         /\ at[2] \in {"running", "over"} /\ how[2] = "none" /\ AllDone(2) => AnswerOnWay \/ EndedTwice

\* An answer stays on its way until it is delivered.
LEMMA OnWayStays ==
  ASSUME IInv, [Next]_vars, AnswerOnWay, ~Deliver, ~Restart, listens \subseteq listens'
  PROVE AnswerOnWay'
<1>1. PICK i \in DOMAIN queue : queue[i].caller /\ Topic(queue[i].event) \in listens
  BY DEF AnswerOnWay
<1>2. CASE queue' = queue
  BY <1>1, <1>2 DEF AnswerOnWay, Topic
<1>3. ASSUME NEW event, Publish(event) PROVE AnswerOnWay'
  <2>1. i \in DOMAIN queue' /\ queue'[i] = queue[i]
    BY <1>3, PublishedLast
  <2> QED
    BY <1>1, <2>1 DEF AnswerOnWay, Topic
<1>4. CASE StartEvent \/ (\E r \in Runs : Failed(r)) \/
     (\E r \in Runs, b \in Branches : RegularEnd(r, b) \/ TerminateEnd(r, b))
  BY <1>3, <1>4 DEF StartEvent, Failed, SendNotification, RegularEnd, NotifyAboutRegularEnd, TerminateEnd,
     NotifyAboutTermination
<1> QED
  BY <1>2, <1>3, <1>4, QueueMoves

\* Another event that is delivered leaves it on its way.
LEMMA OnWayDelivered ==
  ASSUME IInv, Deliver, AnswerOnWay, ~(Head(queue).caller /\ Topic(Head(queue).event) \in listens)
  PROVE AnswerOnWay'
<1>1. PICK i \in DOMAIN queue : queue[i].caller /\ Topic(queue[i].event) \in listens
  BY DEF AnswerOnWay
<1>2. queue # <<>> /\ queue' = Tail(queue) /\ listens' = listens /\ Head(queue) = queue[1]
  BY DEF Deliver, IInv, Queued
<1>3. i # 1
  BY <1>1, <1>2
<1>4. i - 1 \in DOMAIN queue' /\ queue'[i - 1] = queue[i]
  BY <1>2, <1>3 DEF IInv, Queued
<1> QED
  BY <1>1, <1>2, <1>4 DEF AnswerOnWay, Topic

\* An event that is published to the caller is an answer on its way.
LEMMA PublishedAnswer ==
  ASSUME IInv, NEW event, Publish(event), Topic(event) \in listens, listens' = listens
  PROVE AnswerOnWay'
<1>1. PICK i \in DOMAIN queue' : queue'[i] = EntryFor(event)
  BY PublishedLast
<1>2. queue'[i].caller /\ queue'[i].event = event
  <2>1. EntryFor(event).caller /\ EntryFor(event).event = event
    BY DEF EntryFor
  <2> QED
    BY <1>1, <2>1
<1>3. Topic(queue'[i].event) \in listens'
  BY <1>2
<1> QED
  BY <1>2, <1>3 DEF AnswerOnWay, Topic

\* Whoever comes to the end of a branch tells the caller of it.
LEMMA DoneTells ==
  ASSUME IInv, [Next]_vars, NEW r \in Runs, NEW b \in Branches, pos[r][b] # "done", pos'[r][b] = "done",
         ~Retraces(r), ~(Begins /\ b \notin Present), "ended" \in listens
  PROVE AnswerOnWay'
<1>1. ~Restart
  BY DEF Restart
<1>2. Branching(r, b)
  BY <1>1, PosMoves
<1>3. RegularEnd(r, b)
  BY <1>2 DEF Branching, EnterEnd, ExitEnd, ErrorEnd, TerminateEnd, IInv, Chains
<1>4. Publish("ended") /\ listens' = listens
  BY <1>3 DEF RegularEnd, NotifyAboutRegularEnd
<1> QED
  BY <1>4, PublishedAnswer DEF Topic

\* The start is told once.
LEMMA StartingOnce ==
  ASSUME IInv, Unborn, Undecided, NothingYet, StartedOnce, [Next]_vars
  PROVE StartedOnce'
<1> USE DEF Runs
<1> at \in [Runs -> RunPlaces] /\ how \in [Runs -> Outcomes]
  BY DEF IInv, Values, Chains
<1>1. kind' = kind
  BY Keeps DEF IInv, Kept, diagram
<1>2. CASE Restart
  BY <1>2 DEF Restart, StartedOnce
<1>3. CASE Suspended \/ (FindCalled /\ proc = "absent")
  <2>1. kind = "callActivity" /\ proc = "absent"
    BY <1>3 DEF Suspended, FindCalled, IInv, Stations
  <2>2. queue = <<>>
    BY <2>1 DEF NothingYet
  <2>3. place' = "starting" /\ queue' = queue
    BY <1>3 DEF Suspended, FindCalled, ExecuteSubprocess
  <2> QED
    BY <2>2, <2>3 DEF StartedOnce
<1>4. ASSUME kind' = "callActivity", at'[1] \in {"starting", "saving"}, ~Restart, ~Suspended,
             ~(FindCalled /\ proc = "absent")
      PROVE place = "starting" /\ place' = "starting"
  <2>1. at[1] \in {"starting", "saving"}
    <3>1. CASE Alone
      BY <1>4, <3>1 DEF Alone, InstanceStep, RunStep, Save, StartEvent, Return, Finish, Fail, Failed, Lookup, Load,
         Retrace, FinishOrphan, EnterEnd, ExitEnd, RegularEnd, ErrorEnd, TerminateEnd
    <3>2. CASE CallerStep
      BY <1>4, <3>2 DEF CallerStep, ClientReturns, ExecuteHandler, WaitForSubProcessExecution, Refused,
         RunReturns, ContinueAfterResume, Resolve, Reject, TerminateSubprocess, Close, FindCalled, FindSubProcess,
         Retrace, WaitForSubProcessResumption, instanceVars, runVars
    <3>3. CASE StartAndAwaitEndEvent
      BY <1>1, <1>4, <3>3 DEF StartAndAwaitEndEvent
    <3>4. CASE Deliver \/ Answered \/ (Refuse /\ UNCHANGED callerVars) \/ Begin \/ Interrupted \/ UNCHANGED vars
      BY <1>4, <3>4 DEF Deliver, Answered, Answer, Refuse, Begin, Interrupted, vars, instanceVars, runVars
    <3> QED
      BY <1>4, <3>1, <3>2, <3>3, <3>4 DEF Next, System
  <2>2. place = "starting"
    BY <1>1, <1>4, <2>1 DEF StartedOnce
  <2>3. queue = <<>> /\ how[1] = "none"
    BY <1>1, <1>4, <2>1 DEF NothingYet, Undecided, IInv, Phases
  <2>4. ~Deliver
    BY <2>3 DEF Deliver
  <2>5. CASE CallerStep
    BY <1>4, <2>2, <2>3, <2>5 DEF CallerStep, ClientReturns, ExecuteHandler, WaitForSubProcessExecution, Refused,
       RunReturns, ContinueAfterResume, Resolve, Reject, TerminateSubprocess, Close, FindCalled, FindSubProcess
  <2>6. CASE ~CallerStep
    BY <1>1, <1>4, <2>2, <2>4, <2>6 DEF Next, System, Alone, Answered, StartAndAwaitEndEvent, Begin, Interrupted,
       callerVars, vars
  <2> QED
    BY <2>2, <2>5, <2>6
<1>5. ASSUME NEW i \in DOMAIN queue', queue'[i].event = "started", ~Restart, ~Suspended,
             ~(FindCalled /\ proc = "absent")
      PROVE /\ place' = "starting" /\ how'[1] # "refused"
            /\ \A j \in DOMAIN queue' : queue'[j].event = "started" => j = i
  <2>1. CASE StartEvent /\ UNCHANGED callerVars
    <3>1. kind = "callActivity" => place = "starting" /\ queue = <<>>
      BY <2>1 DEF StartEvent, StartedOnce, NothingYet
    <3>2. kind = "callActivity"
      <4>1. CASE kind = "client"
        <5>1. "started" \notin listens
          BY <4>1 DEF IInv, Stations
        <5>2. queue' = queue
          BY <2>1, <5>1 DEF StartEvent, Publish, Topic
        <5> QED
          BY <1>5, <4>1, <5>2 DEF StartedOnce, IInv, Stations
      <4>2. CASE kind = "subProcess"
        BY <2>1, <4>2 DEF StartEvent, IInv, Phases
      <4> QED
        BY <4>1, <4>2, DiagramTyped DEF IInv, Kinds
    <3>3. how[1] = "none" /\ how' = how
      BY <2>1 DEF StartEvent, Undecided
    <3>4. \A j \in DOMAIN queue' : j = 1
      <4>1. queue' = Append(queue, EntryFor("started")) \/ queue' = queue
        BY <2>1, Published DEF StartEvent
      <4> QED
        BY <3>1, <3>2, <4>1
    <3> QED
      BY <2>1, <3>1, <3>2, <3>3, <3>4 DEF callerVars
  <2>2. CASE Deliver
    <3>1. queue # <<>> /\ queue' = Tail(queue) /\ Head(queue) = queue[1] /\ 1 \in DOMAIN queue
      BY <2>2, EmptySeq DEF Deliver, IInv, Queued
    <3>2. \A j \in DOMAIN queue' : j + 1 \in DOMAIN queue /\ queue'[j] = queue[j + 1]
      BY <3>1 DEF IInv, Queued
    <3>3. /\ place = "starting" /\ how[1] # "refused"
          /\ \A j \in DOMAIN queue : queue[j].event = "started" => j = i + 1
      BY <1>5, <3>2 DEF StartedOnce
    <3>4. i \in Nat /\ Head(queue).event # "started"
      <4>1. i \in Nat /\ i >= 1
        BY <3>1 DEF IInv, Queued
      <4> QED
        BY <3>1, <3>3, <4>1
    <3>5. place' = "starting"
      BY <2>2, <3>3, <3>4 DEF Deliver, CallerHears, ClientHears, HandlerHears
    <3>6. how'[1] # "refused"
      BY <2>2, <3>3, Heard DEF Deliver, IInv
    <3>7. \A j \in DOMAIN queue' : queue'[j].event = "started" => j = i
      <4> SUFFICES ASSUME NEW j \in DOMAIN queue', queue'[j].event = "started" PROVE j = i
        OBVIOUS
      <4>1. j \in Nat /\ j + 1 = i + 1
        BY <3>1, <3>2, <3>3 DEF IInv, Queued
      <4> QED
        BY <3>4, <4>1
    <3> QED
      BY <3>5, <3>6, <3>7
  <2>3. CASE ~Deliver /\ ~(StartEvent /\ UNCHANGED callerVars)
    <3>1. \A j \in DOMAIN queue' : queue'[j].event = "started" => j \in DOMAIN queue /\ queue'[j] = queue[j]
      <4>1. CASE queue' = queue
        BY <4>1
      <4>2. ASSUME NEW event, Publish(event), event # "started" PROVE
              \A j \in DOMAIN queue' : queue'[j].event = "started" => j \in DOMAIN queue /\ queue'[j] = queue[j]
        BY <4>2, PublishedLast DEF EntryFor
      <4>3. CASE (\E r \in Runs : Failed(r)) \/
           (\E r \in Runs, b \in Branches : RegularEnd(r, b) \/ TerminateEnd(r, b))
        BY <4>2, <4>3 DEF Failed, SendNotification, RegularEnd, NotifyAboutRegularEnd, TerminateEnd,
           NotifyAboutTermination
      <4> QED
        BY <1>5, <2>3, <4>1, <4>2, <4>3, QueueMoves
    <3>2. /\ place = "starting" /\ how[1] # "refused"
          /\ \A j \in DOMAIN queue : queue[j].event = "started" => j = i
      BY <1>5, <3>1 DEF StartedOnce
    <3>3. \A j \in DOMAIN queue' : queue'[j].event = "started" => j = i
      BY <3>1, <3>2
    <3>4. kind # "client" /\ kind # "subProcess" /\ queue # <<>>
      BY <1>5, <3>1, <3>2 DEF IInv, Stations, KnownChild
    <3>5. kind = "callActivity" /\ at[1] # "starting" /\ at[1] # "saving"
      BY <3>4, DiagramTyped DEF IInv, Kinds, Phases, NothingYet
    <3>6. how'[1] # "refused"
      <4>1. CASE \E r \in Runs : Retraces(r)
        BY <3>2, <4>1, RetracedHow, RetracedChains DEF Retraces, IInv, Outcomes
      <4>2. CASE Alone /\ ~\E r \in Runs : Retraces(r)
        <5>1. CASE \E q \in Runs : Load(q)
          <6>1. PICK q \in Runs : Load(q)
            BY <5>1
          <6>2. IsOrphaned \/ ~started
            <7>1. ~IsOrphaned /\ started => Retraces(q)
              BY <4>2, <6>1 DEF Alone, Load, Retraces, Retrace, callerVars, dbVars, diagram
            <7> QED
              BY <4>2, <7>1
          <6> QED
            BY <3>2, <6>1, <6>2 DEF Load, ComesOut
        <5>2. CASE ~\E q \in Runs : Load(q)
          BY <3>2, <4>2, <5>2 DEF Alone, InstanceStep, RunStep, Save, StartEvent, Return, Finish, Fail, Failed,
             Lookup, FinishOrphan, EnterEnd, ExitEnd, RegularEnd, ErrorEnd, TerminateEnd, ComesOut
        <5> QED
          BY <5>1, <5>2
      <4>3. CASE CallerStep /\ ~\E r \in Runs : Retraces(r)
        BY <3>2, <3>4, <4>3 DEF CallerStep, ClientReturns, ExecuteHandler, Suspended, WaitForSubProcessExecution,
           Refused, RunReturns, ContinueAfterResume, Resolve, Reject, TerminateSubprocess, Close, FindCalled,
           FindSubProcess, instanceVars, runVars
      <4>4. CASE Answered \/ StartAndAwaitEndEvent \/ Begin \/ Interrupted \/ UNCHANGED vars
        BY <3>2, <4>4 DEF Answered, Answer, StartAndAwaitEndEvent, Begin, Interrupted, vars, instanceVars, runVars
      <4>5. ~Refuse
        BY <3>5 DEF Refuse
      <4> QED
        BY <1>5, <2>3, <4>1, <4>2, <4>3, <4>4, <4>5 DEF Next, System
    <3>7. place' = "starting"
      <4>1. CASE CallerStep
        BY <1>5, <3>2, <4>1 DEF CallerStep, ClientReturns, ExecuteHandler, WaitForSubProcessExecution, Refused,
           RunReturns, ContinueAfterResume, Resolve, Reject, TerminateSubprocess, Close, FindCalled, FindSubProcess
      <4>2. CASE ~CallerStep
        BY <1>5, <2>3, <3>2, <3>4, <4>2 DEF Next, System, Alone, Answered, StartAndAwaitEndEvent, Begin,
           Interrupted, callerVars, vars
      <4> QED
        BY <4>1, <4>2
    <3> QED
      BY <3>3, <3>6, <3>7
  <2> QED
    BY <2>1, <2>2, <2>3
<1> QED
  BY <1>2, <1>3, <1>4, <1>5 DEF StartedOnce

\* Who begins to wait when an event is heard has heard of the start.
LEMMA HearingStarts ==
  ASSUME IInv, Deliver, CallerHears(Head(queue).event), Head(queue).caller,
         Topic(Head(queue).event) \in listens, place' \in {"starting", "waiting"}, place' # place
  PROVE StartIsHeard /\ Head(queue).event = "started"
<1>1. CASE Head(queue).event = "started"
  <2>1. kind # "client"
    BY <1>1 DEF Topic, IInv, Stations
  <2> QED
    BY <1>1, <2>1 DEF CallerHears
<1>2. CASE Head(queue).event # "started"
  <2>1. ClientHears \/ HandlerHears(Head(queue).event)
    BY <1>2 DEF CallerHears
  <2> QED
    BY <2>1 DEF ClientHears, HandlerHears, GoOn, GoDown
<1> QED
  BY <1>1, <1>2

\* A sub process is run as long as its handler waits.
LEMMA ServingSub == ASSUME IInv, Unborn, SubServed, [Next]_vars PROVE SubServed'
<1> USE DEF Runs
<1> at \in [Runs -> RunPlaces]
  BY DEF IInv, Values
<1> SUFFICES ASSUME kind' = "subProcess", place' = "waiting" PROVE at'[1] \in {"running", "over"}
  BY DEF SubServed
<1>1. kind = "subProcess"
  BY Keeps DEF IInv, Kept, diagram
<1>2. ~Restart
  BY DEF Restart
<1>3. CASE place # "waiting"
  <2>1. ~Deliver \/ ~CallerHears(Head(queue).event) \/ ~Head(queue).caller \/ Topic(Head(queue).event) \notin listens
    <3>1. ASSUME Deliver, CallerHears(Head(queue).event), Head(queue).caller, Topic(Head(queue).event) \in listens
          PROVE FALSE
      <4>1. Head(queue).event = "started"
        BY <1>3, <3>1, HearingStarts
      <4>2. 1 \in DOMAIN queue /\ Head(queue) = queue[1]
        BY <3>1, EmptySeq DEF Deliver, IInv, Queued
      <4> QED
        BY <1>1, <4>1, <4>2 DEF IInv, KnownChild
    <3> QED
      BY <3>1
  <2>2. WaitForSubProcessExecution \/ (FindSubProcess /\ started)
    BY <1>1, <1>2, <1>3, <2>1, PlaceMoves DEF StartAndAwaitEndEvent, Suspended, FindCalled
  <2> QED
    BY <2>2 DEF WaitForSubProcessExecution, FindSubProcess, WaitForSubProcessResumption, Retrace
<1>4. CASE place = "waiting"
  <2>1. at[1] \in {"running", "over"}
    BY <1>1, <1>4 DEF SubServed
  <2>2. Begins => at'[1] = "running"
    BY Beginnings DEF Begins, StartEvent, WaitForSubProcessExecution
  <2> QED
    BY <1>1, <1>2, <2>1, <2>2, RunMoves DEF Keeping, Arriving, Leaving, Saving, Loading, Deciding, Fail, Retraces,
       Retrace
<1> QED
  BY <1>3, <1>4

\* An answer stays on its way, and where there is none nobody has come to an end, as long
\* as the caller is subscribed to the end and hears of nothing.
LEMMA ServingOn ==
  ASSUME IInv, [Next]_vars, "ended" \in listens, NoneDone \/ AnswerOnWay, ~Restart, ~Begins, ~Retraces(1),
         listens \subseteq listens',
         ~(Deliver /\ Head(queue).caller /\ Topic(Head(queue).event) \in listens)
  PROVE NoneDone' \/ AnswerOnWay'
<1> Present' = Present
  BY Keeps DEF IInv, Kept, diagram, Present
<1>1. CASE AnswerOnWay
  BY <1>1, OnWayStays, OnWayDelivered
<1>2. CASE NoneDone
  <2>1. CASE \E b \in Present : pos'[1][b] = "done"
    <3>1. PICK b \in Present : pos'[1][b] = "done"
      BY <2>1
    <3>2. b \in Branches /\ pos[1][b] # "done"
      BY <1>2, <3>1 DEF NoneDone, Present
    <3> QED
      BY <3>1, <3>2, DoneTells DEF Runs
  <2>2. CASE ~\E b \in Present : pos'[1][b] = "done"
    BY <2>2 DEF NoneDone
  <2> QED
    BY <2>1, <2>2
<1> QED
  BY <1>1, <1>2

\* What has begun has not come to an end.
LEMMA NoneDoneYet == ASSUME IInv, Begins \/ (\A b \in Branches : pos'[1][b] = "idle"), [Next]_vars PROVE NoneDone'
<1>1. Present' = Present /\ Present \subseteq Branches
  BY Keeps DEF IInv, Kept, diagram, Present
<1>2. CASE Begins
  <2>1. pos' = EnteredBy(1)
    BY <1>2 DEF Begins, StartEvent, WaitForSubProcessExecution
  <2>2. \A b \in Present : pos'[1][b] = "waiting"
    BY <1>1, <2>1 DEF EnteredBy, IInv, Chains, Runs
  <2> QED
    BY <1>1, <2>2 DEF NoneDone
<1>3. CASE \A b \in Branches : pos'[1][b] = "idle"
  BY <1>1, <1>3 DEF NoneDone
<1> QED
  BY <1>2, <1>3

\* A client that waits has heard of an end, or is subscribed to it in front of it.
LEMMA ServingClient == ASSUME IInv, Unborn, ClientServed, [Next]_vars PROVE ClientServed'
<1> USE DEF Runs
<1> at \in [Runs -> RunPlaces]
  BY DEF IInv, Values
<1> SUFFICES ASSUME kind' = "client", place' = "waiting"
             PROVE /\ at'[1] \in {"starting", "saving", "running", "failing", "over"}
                   /\ heard' \/ (listens' = {"ended"} /\ (NoneDone' \/ AnswerOnWay'))
  BY DEF ClientServed
<1>1. kind = "client"
  BY Keeps DEF IInv, Kept, diagram
<1>2. ~Restart
  BY DEF Restart
<1>3. listens \subseteq {"ended"} /\ at[2] = "off"
  BY <1>1 DEF IInv, Stations, Phases
<1>4. CASE place # "waiting"
  <2>1. ASSUME Deliver, CallerHears(Head(queue).event), Head(queue).caller, Topic(Head(queue).event) \in listens
        PROVE FALSE
    BY <1>3, <1>4, <2>1, HearingStarts DEF Topic
  <2>2. StartAndAwaitEndEvent
    BY <1>1, <1>2, <1>4, <2>1, PlaceMoves DEF WaitForSubProcessExecution, Suspended, FindCalled, FindSubProcess
  <2>3. at[1] = "off"
    BY <2>2 DEF StartAndAwaitEndEvent, IInv, Stations
  <2>4. \A b \in Branches : pos'[1][b] = "idle"
    BY <2>2, <2>3 DEF StartAndAwaitEndEvent, IInv, IdleRuns
  <2> QED
    BY <2>2, <2>4, NoneDoneYet DEF StartAndAwaitEndEvent
<1>5. CASE place = "waiting"
  <2>1. at[1] \in {"starting", "saving", "running", "failing", "over"}
    BY <1>1, <1>5 DEF ClientServed
  <2>2. Begins => at'[1] = "running"
    BY Beginnings DEF Begins, StartEvent, WaitForSubProcessExecution
  <2>3. ~Retraces(1)
    BY <1>1, <2>1 DEF Retraces
  <2>4. at'[1] \in {"starting", "saving", "running", "failing", "over"}
    BY <1>2, <2>1, <2>2, <2>3, RunMoves DEF Keeping, Arriving, Leaving, Saving, Loading, Deciding, Fail
  <2>5. CASE Deliver /\ Head(queue).caller /\ Topic(Head(queue).event) \in listens
    <3>1. CallerHears(Head(queue).event) /\ Head(queue).event # "started"
      BY <1>3, <2>5 DEF Deliver, Topic
    <3>2. heard'
      BY <1>1, <3>1 DEF CallerHears, ClientHears
    <3> QED
      BY <2>4, <3>2
  <2>6. CASE ~(Deliver /\ Head(queue).caller /\ Topic(Head(queue).event) \in listens)
    <3>1. heard' = heard
      BY <1>1, <1>2, <1>5, <2>6 DEF Next, System, Alone, CallerStep, ClientReturns, ExecuteHandler, Suspended,
         WaitForSubProcessExecution, Refused, RunReturns, ContinueAfterResume, Resolve, Reject,
         TerminateSubprocess, Close, FindCalled, FindSubProcess, Deliver, Answered, StartAndAwaitEndEvent, Begin,
         Interrupted, callerVars, vars
    <3>2. listens' = listens
      <4>1. CASE Deliver
        BY <2>6, <4>1 DEF Deliver
      <4>2. CASE ~Deliver
        BY <1>1, <1>2, <1>3, <1>5, <4>2, ListensMoves DEF StartAndAwaitEndEvent, Interrupted, RunReturns,
           Suspended, WaitForSubProcessExecution, FindCalled, FindSubProcess, Load
      <4> QED
        BY <4>1, <4>2
    <3>3. CASE heard
      BY <2>4, <3>1, <3>3
    <3>4. CASE ~heard
      <4>1. listens = {"ended"} /\ (NoneDone \/ AnswerOnWay)
        BY <1>1, <1>5, <3>4 DEF ClientServed
      <4>2. NoneDone' \/ AnswerOnWay'
        BY <1>2, <2>3, <2>6, <3>2, <4>1, ServingOn, NoneDoneYet
      <4> QED
        BY <2>4, <3>2, <4>1, <4>2
    <3> QED
      BY <3>3, <3>4
  <2> QED
    BY <2>5, <2>6
<1> QED
  BY <1>4, <1>5

\* How a run comes to its end.
LEMMA Leaves ==
  ASSUME IInv, [Next]_vars, NEW r \in Runs, at[r] # "over", at'[r] = "over"
  PROVE \/ Refuse /\ r = 1
        \/ Return /\ r = 1
        \/ Alone /\ (Finish(r) \/ Failed(r) \/ Lookup(r) \/ Load(r) \/ FinishOrphan(r))
<1> USE DEF Runs
<1> at \in [Runs -> RunPlaces]
  BY DEF IInv, Values
<1>1. CASE Alone
  <2>1. CASE Save \/ StartEvent
    BY <2>1 DEF Save, StartEvent
  <2>2. CASE Return
    BY <2>2 DEF Return
  <2>3. CASE \E q \in Runs : Finish(q) \/ Fail(q) \/ Failed(q)
    BY <1>1, <2>3 DEF Finish, Fail, Failed
  <2>4. CASE \E q \in Runs : Lookup(q) \/ FinishOrphan(q)
    BY <1>1, <2>4 DEF Lookup, FinishOrphan
  <2>5. CASE \E q \in Runs : Load(q)
    <3>1. PICK q \in Runs : Load(q)
      BY <2>5
    <3>2. q = r \/ at'[r] = at[r]
      BY <3>1 DEF Load, Retrace
    <3> QED
      BY <1>1, <3>1, <3>2
  <2>6. CASE \E q \in Runs, b \in Branches : EnterEnd(q, b) \/ ExitEnd(q, b) \/ RegularEnd(q, b) \/
       ErrorEnd(q, b) \/ TerminateEnd(q, b)
    BY <2>6 DEF EnterEnd, ExitEnd, RegularEnd, ErrorEnd, TerminateEnd
  <2> QED
    BY <1>1, <2>1, <2>2, <2>3, <2>4, <2>5, <2>6 DEF Alone, InstanceStep, RunStep
<1>2. CASE CallerStep
  <2>1. CASE FindSubProcess
    BY <2>1 DEF FindSubProcess, WaitForSubProcessResumption, Retrace, runVars
  <2>2. CASE Suspended \/ WaitForSubProcessExecution \/ FindCalled
    BY <2>2 DEF Suspended, WaitForSubProcessExecution, FindCalled, ExecuteSubprocess
  <2>3. CASE ClientReturns \/ ExecuteHandler \/ Refused \/ RunReturns \/ ContinueAfterResume \/ Resolve \/
       Reject \/ TerminateSubprocess \/ Close
    BY <2>3 DEF ClientReturns, ExecuteHandler, Refused, RunReturns, ContinueAfterResume, Resolve, Reject,
       TerminateSubprocess, Close, instanceVars, runVars
  <2> QED
    BY <1>2, <2>1, <2>2, <2>3 DEF CallerStep
<1>3. CASE (Refuse /\ UNCHANGED callerVars) \/ Restart \/ StartAndAwaitEndEvent
  BY <1>3 DEF Refuse, Restart, StartAndAwaitEndEvent
<1>4. CASE Deliver \/ Answered \/ Begin \/ Interrupted \/ UNCHANGED vars
  BY <1>4 DEF Deliver, Answered, Answer, Begin, Interrupted, vars, instanceVars, runVars
<1> QED
  BY <1>1, <1>2, <1>3, <1>4 DEF Next, System

\* Nothing happens while the news of the start is on its way to the handler.
LEMMA StartWaits ==
  ASSUME IInv, Unborn, StartOnWay, kind = "callActivity", place = "starting", at[2] = "off",
         ~Deliver, closing' = "no", [Next]_vars, ~Restart
  PROVE StartOnWay'
<1> USE DEF Runs
<1>1. Present' = Present /\ Present \subseteq Branches
  BY Keeps DEF IInv, Kept, diagram, Present
<1>2. \A r \in Runs, b \in Branches : pos[r][b] \in {"idle", "waiting", "done"}
  BY <1>1 DEF StartOnWay, IInv, IdleRuns, EndsEntered
<1>3. ~AllDone(1)
  <2>1. Present # {}
    BY InstanceAssumption DEF IInv, Values, diagram, Present
  <2> QED
    BY <1>1, <2>1 DEF AllDone, StartOnWay
<1>4. \A r \in Runs : ~Failed(r) /\ \A b \in Branches : ~Branching(r, b) /\ ~Answer(b)
  <2>1. \A r \in Runs : ~Failed(r)
    BY DEF Failed, StartOnWay
  <2>2. \A r \in Runs, b \in Branches : ~Branching(r, b)
    BY <1>2 DEF Branching, EnterEnd, ExitEnd, RegularEnd, ErrorEnd, TerminateEnd
  <2>3. \A b \in Branches : ~Answer(b)
    <3>1. 1 \in DOMAIN queue
      BY DEF StartOnWay, IInv, Queued
    <3> QED
      BY <3>1 DEF Answer, StartOnWay
  <2> QED
    BY <2>1, <2>2, <2>3
<1>5. ~Begins /\ \A r \in Runs : ~Retraces(r)
  BY DEF Begins, StartEvent, WaitForSubProcessExecution, Retraces, StartOnWay
<1>6. queue' = queue
  <2>1. ~StartEvent /\ ~TerminateSubprocess
    BY DEF StartEvent, TerminateSubprocess, StartOnWay
  <2> QED
    BY <1>4, <2>1, QueueMoves DEF Branching
<1>7. pos' = pos
  BY <1>4, <1>5, StepKinds DEF Interrupted, TerminateSubprocess, Steady, runVars
<1>8. at'[1] = at[1] /\ how'[1] = how[1]
  <2>1. ~Fail(1) /\ ~Deciding(1)
    BY <1>2 DEF Fail, Deciding, ExitEnd, StartOnWay
  <2>2. ~Leaving(1)
    <3>1. ~Refuse /\ ~Return /\ ~Finish(1) /\ ~Failed(1) /\ ~Lookup(1) /\ ~Load(1) /\ ~FinishOrphan(1)
      BY <1>3 DEF Refuse, Return, Finish, Failed, Lookup, Load, FinishOrphan, StartOnWay
    <3> QED
      BY <3>1, Leaves DEF Leaving, StartOnWay
  <2> QED
    BY <1>5, <2>1, <2>2, RunMoves DEF Keeping, Arriving, Saving, Loading, StartOnWay
<1> QED
  BY <1>1, <1>6, <1>7, <1>8 DEF StartOnWay

\* A handler that has had its child started can count on the news of it, or of its refusal.
LEMMA ServingStart ==
  ASSUME IInv, Unborn, Undecided, NothingYet, StartServed, [Next]_vars
  PROVE StartServed'
<1> USE DEF Runs
<1> at \in [Runs -> RunPlaces] /\ how \in [Runs -> Outcomes]
  BY DEF IInv, Values, Chains
<1> SUFFICES ASSUME place' = "starting"
             PROVE /\ kind' = "callActivity" /\ at'[2] = "off"
                   /\ closing' = "no" =>
                        /\ listens' = {"started"}
                        /\ \/ at'[1] \in {"starting", "saving"}
                           \/ at'[1] = "over" /\ how'[1] = "refused" /\ proc' = "absent"
                           \/ StartOnWay'
  BY DEF StartServed
<1>1. kind' = kind
  BY Keeps DEF IInv, Kept, diagram
<1>2. ~Restart
  BY DEF Restart
<1>3. CASE place # "starting"
  <2>1. ASSUME Deliver, CallerHears(Head(queue).event), Head(queue).caller, Topic(Head(queue).event) \in listens
        PROVE FALSE
    BY <1>3, <2>1, HearingStarts DEF StartIsHeard
  <2>2. Suspended \/ (FindCalled /\ proc = "absent")
    BY <1>2, <1>3, <2>1, PlaceMoves DEF StartAndAwaitEndEvent, WaitForSubProcessExecution, FindCalled,
       FindSubProcess, WaitForSubProcessResumption
  <2>3. kind = "callActivity" /\ proc = "absent"
    BY <2>2 DEF Suspended, FindCalled, IInv, Stations
  <2>4. at[2] = "off"
    BY <2>3 DEF IInv, Phases
  <2> QED
    BY <1>1, <2>2, <2>3, <2>4 DEF Suspended, FindCalled, ExecuteSubprocess
<1>4. CASE place = "starting"
  <2>1. kind = "callActivity" /\ at[2] = "off"
    BY <1>4 DEF StartServed
  <2>2. at'[2] = "off"
    BY <1>4, <2>1, SecondMoves DEF FindCalled
  <2>3. ASSUME closing' = "no"
        PROVE /\ listens' = {"started"}
              /\ \/ at'[1] \in {"starting", "saving"}
                 \/ at'[1] = "over" /\ how'[1] = "refused" /\ proc' = "absent"
                 \/ StartOnWay'
    <3>1. closing = "no" /\ ~Interrupted
      BY <1>2, <2>3 DEF Next, System, Alone, CallerStep, ClientReturns, ExecuteHandler, Suspended,
         WaitForSubProcessExecution, Refused, RunReturns, ContinueAfterResume, Resolve, Reject,
         TerminateSubprocess, Close, FindCalled, FindSubProcess, Deliver, Answered, StartAndAwaitEndEvent, Begin,
         Interrupted, callerVars, vars
    <3>2. /\ listens = {"started"}
          /\ \/ at[1] \in {"starting", "saving"}
             \/ at[1] = "over" /\ how[1] = "refused" /\ proc = "absent"
             \/ StartOnWay
      BY <1>4, <3>1 DEF StartServed
    <3>3. ~(Deliver /\ Head(queue).caller /\ Topic(Head(queue).event) \in listens)
      <4>1. ASSUME Deliver, Head(queue).caller, Topic(Head(queue).event) \in listens PROVE FALSE
        <5>1. Topic(Head(queue).event) = "started" => Head(queue).event = "started"
          BY DEF Topic
        <5>2. Head(queue).event = "started" /\ kind # "client"
          BY <2>1, <3>2, <4>1, <5>1
        <5>3. StartIsHeard
          BY <4>1, <5>2 DEF Deliver, CallerHears
        <5> QED
          BY <5>3 DEF StartIsHeard
      <4> QED
        BY <4>1
    <3>4. listens' = {"started"}
      <4>1. CASE Deliver
        BY <3>2, <3>3, <4>1 DEF Deliver
      <4>2. CASE ~Deliver
        BY <1>2, <1>4, <2>1, <3>1, <3>2, <4>2, ListensMoves DEF StartAndAwaitEndEvent, RunReturns,
           Suspended, WaitForSubProcessExecution, FindCalled, FindSubProcess, Load
      <4> QED
        BY <4>1, <4>2
    <3>5. CASE at[1] \in {"starting", "saving"}
      <4>1. how[1] = "none" /\ at[1] # "over"
        BY <3>5 DEF Undecided
      <4>2. CASE Leaving(1)
        <5>1. Refuse
          BY <3>5, <4>1, <4>2, Leaves DEF Leaving, Return, Finish, Failed, Lookup, Load, FinishOrphan
        <5> QED
          BY <3>4, <4>1, <5>1 DEF Refuse, ComesOut, dbVars, IInv, Phases
      <4>3. CASE Begins
        <5>1. StartEvent /\ at[1] = "saving"
          BY <2>1, <4>3 DEF Begins, WaitForSubProcessExecution, StartEvent
        <5>2. queue = <<>>
          BY <2>1, <5>1 DEF NothingYet
        <5>3. Publish("started") /\ EntryFor("started").caller /\ EntryFor("started").event = "started"
          BY <3>2, <5>1 DEF StartEvent, EntryFor, Topic
        <5>4. queue' = Append(<<>>, EntryFor("started"))
          BY <5>2, <5>3, Published
        <5>5. Len(queue') = 1 /\ queue'[1] = EntryFor("started")
          BY <5>4
        <5>6. at'[1] = "running" /\ how'[1] = "none" /\ pos' = EnteredBy(1)
          BY <4>1, <4>3, Beginnings
        <5>7. Present' = Present /\ Present \subseteq Branches
          BY Keeps DEF IInv, Kept, diagram, Present
        <5>8. \A b \in Present : pos'[1][b] = "waiting"
          BY <5>6, <5>7 DEF EnteredBy, IInv, Chains
        <5> QED
          BY <3>4, <5>3, <5>5, <5>6, <5>7, <5>8 DEF StartOnWay
      <4> QED
        BY <1>2, <2>1, <3>4, <3>5, <4>2, <4>3, RunMoves DEF Keeping, Arriving, Saving, Loading, Deciding, Fail, Retraces
    <3>6. CASE at[1] = "over" /\ how[1] = "refused" /\ proc = "absent"
      <4>1. ~Retraces(1) /\ ~Begins
        BY <2>1, <3>6 DEF Retraces, Begins, StartEvent, WaitForSubProcessExecution
      <4>2. at'[1] = "over"
        BY <1>2, <3>6, <4>1, RunMoves DEF Keeping, Arriving, Leaving, Saving, Loading, Deciding, Fail
      <4>3. how'[1] = "refused"
        BY <1>2, <3>6, <4>1, HowStays
      <4>4. proc' = "absent"
        BY <2>1, <3>6, StateMoves DEF Finish, Fail, FinishOrphan
      <4> QED
        BY <3>4, <4>2, <4>3, <4>4
    <3>7. CASE StartOnWay
      <4>1. ~Deliver
        BY <3>2, <3>3, <3>7, EmptySeq DEF StartOnWay, Topic, Deliver, IInv, Queued
      <4> QED
        BY <1>2, <1>4, <2>1, <2>3, <3>4, <3>7, <4>1, StartWaits
    <3> QED
      BY <3>2, <3>5, <3>6, <3>7
  <2> QED
    BY <1>1, <2>1, <2>2, <2>3
<1> QED
  BY <1>3, <1>4

\* A handler that has just heard of the start of its child is in front of everything.
LEMMA ServedFromStart ==
  ASSUME IInv, StartedOnce, StartServed, Deliver, StartIsHeard, Head(queue).event = "started", closing = "no",
         [Next]_vars
  PROVE at'[2] = "off" /\ listens' = EveryEnd /\ at'[1] \in {"running", "failing"} /\ NoneDone'
<1> USE DEF Runs
<1>1. 1 \in DOMAIN queue /\ queue[1].event = "started"
  BY EmptySeq DEF Deliver, IInv, Queued
<1>2. place = "starting" /\ how[1] # "refused" /\ at[1] \notin {"starting", "saving"}
  BY <1>1 DEF StartedOnce, IInv, KnownChild
<1>3. StartOnWay /\ at[2] = "off"
  BY <1>2 DEF StartServed
<1>4. at' = at
  BY DEF Deliver
<1>5. Present' = Present /\ Present \subseteq Branches
  BY Keeps DEF IInv, Kept, diagram, Present
<1>6. \A b \in Present : pos'[1][b] # "done"
  <2> SUFFICES ASSUME NEW b \in Present PROVE pos'[1][b] # "done"
    OBVIOUS
  <2>1. b \in Branches /\ pos[1][b] = "waiting"
    BY <1>3, <1>5 DEF StartOnWay
  <2>2. pos'[1][b] = IF ~Hears(Head(queue), 1, b) THEN pos[1][b]
                     ELSE IF Head(queue).event = "terminatedSilently" THEN "stuck" ELSE "failed"
    BY <2>1 DEF Deliver, TasksHear
  <2> QED
    BY <2>1, <2>2
<1> QED
  BY <1>3, <1>4, <1>5, <1>6 DEF StartOnWay, StartIsHeard, ListensForChild, NoneDone

\* A call activity that waits and is not interrupted hears of nothing, or it does not wait any more.
LEMMA WaitingHeard ==
  ASSUME IInv, CallServed, kind = "callActivity", place = "waiting", place' = "waiting", closing = "no", Deliver
  PROVE ~(Head(queue).caller /\ Topic(Head(queue).event) \in listens)
<1> SUFFICES ASSUME Head(queue).caller, Topic(Head(queue).event) \in listens PROVE FALSE
  OBVIOUS
<1>1. "started" \notin listens
  BY DEF CallServed, EveryEnd
<1>2. Head(queue).event # "started"
  BY <1>1 DEF Topic
<1>3. HandlerHears(Head(queue).event)
  BY <1>2 DEF Deliver, CallerHears
<1> QED
  BY <1>3 DEF HandlerHears, GoOn, GoDown

\* The first run answers whoever knew the child from its start.
LEMMA FirstServes ==
  ASSUME IInv, Unborn, [Next]_vars, kind = "callActivity", ~Restart, listens = EveryEnd, listens' = listens,
         AnswerOnWay \/ (at[1] \in {"running", "failing"} /\ NoneDone),
         ~(Deliver /\ Head(queue).caller /\ Topic(Head(queue).event) \in listens)
  PROVE AnswerOnWay' \/ (at'[1] \in {"running", "failing"} /\ NoneDone')
<1> USE DEF Runs
<1> at \in [Runs -> RunPlaces]
  BY DEF IInv, Values
<1>1. CASE AnswerOnWay
  BY <1>1, OnWayStays, OnWayDelivered
<1>2. CASE at[1] \in {"running", "failing"} /\ NoneDone
  <2>1. ~Begins /\ ~Retraces(1)
    BY <1>2 DEF Begins, StartEvent, WaitForSubProcessExecution, Retraces
  <2>2. NoneDone' \/ AnswerOnWay'
    BY <1>2, <2>1, ServingOn DEF EveryEnd
  <2>3. CASE Leaving(1)
    <3>1. ~AllDone(1)
      <4>1. \E b \in Branches : b \in Present
        BY InstanceAssumption DEF IInv, Values, diagram, Present
      <4> QED
        BY <1>2, <4>1 DEF AllDone, NoneDone
    <3>2. Failed(1)
      BY <1>2, <2>3, <3>1, Leaves DEF Leaving, Refuse, Return, Finish, Lookup, Load, FinishOrphan
    <3>3. Publish("terminated") \/ Publish("errored")
      BY <3>2 DEF Failed, SendNotification
    <3> QED
      BY <3>3, PublishedAnswer DEF Topic, EveryEnd
  <2> QED
    BY <1>2, <2>1, <2>2, <2>3, RunMoves DEF Keeping, Arriving, Saving, Loading, Deciding, Fail
<1> QED
  BY <1>1, <1>2

\* The second run answers whoever has found the child after a restart.
LEMMA SecondServes ==
  ASSUME IInv, Unborn, OneRow, FailedOut, OverOut, [Next]_vars, ~Restart,
         at[2] # "off", at[2] = "running" => "ended" \in listens,
         at[2] \in {"running", "over"} /\ how[2] = "none" /\ AllDone(2) => AnswerOnWay \/ EndedTwice,
         listens' = listens \/ Load(2),
         ~(Deliver /\ Head(queue).caller /\ Topic(Head(queue).event) \in listens),
         at'[2] \in {"running", "over"}, how'[2] = "none", AllDone(2)'
  PROVE AnswerOnWay' \/ EndedTwice'
<1> USE DEF Runs
<1> at \in [Runs -> RunPlaces]
  BY DEF IInv, Values
<1>1. CASE at[2] \notin {"running", "over"} /\ at'[2] = "running"
  BY <1>1, SecondMoves, LoadsTwice, TwiceStays
<1>2. CASE at[2] \notin {"running", "over"} /\ at'[2] = "over"
  <2>1. AllDone(2)
    BY <1>2, ComesToEnd
  <2>2. at[2] = "failing"
    BY <1>2, <2>1, InstanceAssumption DEF AllDone, IInv, IdleRuns, RunPlaces
  <2>3. how[2] # "none" /\ ~Retraces(2)
    BY <2>2 DEF FailedOut, Retraces
  <2> QED
    BY <2>3, HowStays
<1>3. CASE at[2] \in {"running", "over"}
  <2>1. ~Load(2) /\ ~Retraces(2) /\ ~Begins
    BY <1>3 DEF Load, Retraces, Begins
  <2>2. how[2] = "none"
    BY <2>1, HowStays
  <2>3. CASE AllDone(2)
    BY <1>3, <2>1, <2>2, <2>3, TwiceStays, OnWayStays, OnWayDelivered
  <2>4. CASE ~AllDone(2)
    <3>1. at[2] = "running" /\ "ended" \in listens
      BY <1>3, <2>2, <2>4 DEF OverOut
    <3>2. PICK b \in Branches : pos[2][b] # "done"
      BY <2>4 DEF AllDone
    <3>3. pos'[2][b] = "done"
      BY DEF AllDone
    <3> QED
      BY <2>1, <3>1, <3>2, <3>3, DoneTells
  <2> QED
    BY <2>3, <2>4
<1> QED
  BY <1>1, <1>2, <1>3

\* A call activity that waits for its child can count on an answer.
LEMMA ServingCall ==
  ASSUME IInv, Unborn, OneRow, FailedOut, OverOut, NothingYet, StartedOnce, StartServed, CallServed, [Next]_vars
  PROVE CallServed'
<1> USE DEF Runs
<1> at \in [Runs -> RunPlaces]
  BY DEF IInv, Values
<1> SUFFICES ASSUME kind' = "callActivity", place' = "waiting", closing' = "no"
             PROVE /\ at'[2] = "off" =>
                        /\ listens' = EveryEnd
                        /\ AnswerOnWay' \/ (at'[1] \in {"running", "failing"} /\ NoneDone')
                   /\ at'[2] # "off" =>
                        /\ listens' \subseteq {"ended"} /\ (at'[2] = "running" => "ended" \in listens')
                        /\ at'[2] \in {"running", "over"} /\ how'[2] = "none" /\ AllDone(2)' =>
                             AnswerOnWay' \/ EndedTwice'
  BY DEF CallServed
<1>1. kind = "callActivity"
  BY Keeps DEF IInv, Kept, diagram
<1>2. ~Restart
  BY DEF Restart
<1>3. closing = "no" /\ ~Interrupted
  BY <1>2 DEF Next, System, Alone, CallerStep, ClientReturns, ExecuteHandler, Suspended,
     WaitForSubProcessExecution, Refused, RunReturns, ContinueAfterResume, Resolve, Reject,
     TerminateSubprocess, Close, FindCalled, FindSubProcess, Deliver, Answered, StartAndAwaitEndEvent, Begin,
     Interrupted, callerVars, vars
<1>4. CASE place # "waiting"
  <2>1. CASE FindCalled
    <3>1. proc # "absent" /\ at'[2] = "looking" /\ listens' = {}
      BY <1>4, <2>1 DEF FindCalled, ExecuteSubprocess, NothingYet
    <3> QED
      BY <3>1
  <2>2. CASE Deliver /\ StartIsHeard /\ Head(queue).event = "started"
    BY <1>3, <2>2, ServedFromStart
  <2>3. FindCalled \/ (Deliver /\ StartIsHeard /\ Head(queue).event = "started")
    BY <1>1, <1>2, <1>4, PlaceMoves, HearingStarts DEF StartAndAwaitEndEvent, Suspended, ExecuteSubprocess,
       WaitForSubProcessExecution, FindSubProcess
  <2> QED
    BY <2>1, <2>2, <2>3
<1>5. CASE place = "waiting"
  <2>1. ~(Deliver /\ Head(queue).caller /\ Topic(Head(queue).event) \in listens)
    BY <1>1, <1>3, <1>5, WaitingHeard
  <2>2. listens' = listens \/ Load(2)
    <3>1. CASE Deliver
      BY <2>1, <3>1 DEF Deliver
    <3>2. CASE ~Deliver
      BY <1>2, <1>3, <1>5, <3>2, ListensMoves DEF StartAndAwaitEndEvent, RunReturns, GoOn, GoDown,
         GoDownTerminated, Suspended, WaitForSubProcessExecution, FindCalled, FindSubProcess
    <3> QED
      BY <3>1, <3>2
  <2>3. at[2] = "off" <=> at'[2] = "off"
    <3>1. at[2] = "off" => at'[2] = "off"
      BY <1>5, SecondMoves DEF FindCalled
    <3>2. at[2] # "off" => at'[2] # "off"
      BY <1>2, RunMoves DEF Keeping, Arriving, Leaving, Saving, Loading, Deciding, Fail, Retraces, Retrace
    <3> QED
      BY <3>1, <3>2
  <2>4. CASE at[2] = "off"
    <3>1. /\ listens = EveryEnd /\ listens' = listens
          /\ AnswerOnWay \/ (at[1] \in {"running", "failing"} /\ NoneDone)
      BY <1>1, <1>3, <1>5, <2>2, <2>4 DEF CallServed, Load
    <3>2. AnswerOnWay' \/ (at'[1] \in {"running", "failing"} /\ NoneDone')
      BY <1>1, <1>2, <2>1, <3>1, FirstServes
    <3> QED
      BY <2>3, <2>4, <3>1, <3>2
  <2>5. CASE at[2] # "off"
    <3>1. /\ listens \subseteq {"ended"} /\ (at[2] = "running" => "ended" \in listens)
          /\ at[2] \in {"running", "over"} /\ how[2] = "none" /\ AllDone(2) => AnswerOnWay \/ EndedTwice
      BY <1>1, <1>3, <1>5, <2>5 DEF CallServed
    <3>2. listens' \subseteq {"ended"}
      BY <2>2, <3>1 DEF Load
    <3>3. at'[2] = "running" => "ended" \in listens'
      <4>1. CASE at[2] = "running"
        BY <2>2, <3>1, <4>1 DEF Load
      <4>2. CASE at[2] # "running" /\ at'[2] = "running"
        BY <4>2, SecondMoves DEF Load
      <4> QED
        BY <4>1, <4>2
    <3>4. at'[2] \in {"running", "over"} /\ how'[2] = "none" /\ AllDone(2)' => AnswerOnWay' \/ EndedTwice'
      BY <1>2, <2>1, <2>2, <2>5, <3>1, SecondServes
    <3> QED
      BY <2>3, <2>5, <3>2, <3>3, <3>4
  <2> QED
    BY <2>4, <2>5
<1> QED
  BY <1>4, <1>5

\* The inductive invariant of those who wait.
WInv ==
  /\ Running /\ FailedOut /\ OverOut /\ StuckClosed /\ NothingYet /\ OneRow /\ StartedOnce
  /\ ClientServed /\ SubServed /\ StartServed /\ CallServed

LEMMA WInit == ASSUME Init PROVE WInv
<1> USE DEF Init, InstanceInit, Runs
<1>1. Running /\ FailedOut /\ OverOut /\ StuckClosed
  BY DEF Running, FailedOut, OverOut, StuckClosed
<1>2. NothingYet /\ OneRow /\ StartedOnce
  BY DEF NothingYet, OneRow, StartedOnce
<1>3. ClientServed /\ SubServed /\ StartServed /\ CallServed
  BY DEF ClientServed, SubServed, StartServed, CallServed
<1> QED
  BY <1>1, <1>2, <1>3 DEF WInv

LEMMA WStep == ASSUME IInv, EInv, WInv, [Next]_vars PROVE WInv'
<1> Unborn /\ Undecided /\ EndsOnce
  BY DEF EInv
<1>1. Running' /\ FailedOut' /\ OverOut' /\ StuckClosed'
  BY RunningStands, FailingOut, StayingOver, StayingClosed DEF WInv
<1>2. NothingYet' /\ OneRow' /\ StartedOnce'
  BY StayingQuiet, StayingOneRow, StartingOnce DEF WInv
<1>3. ClientServed' /\ SubServed' /\ StartServed' /\ CallServed'
  BY ServingClient, ServingSub, ServingStart, ServingCall DEF WInv
<1> QED
  BY <1>1, <1>2, <1>3 DEF WInv

\* Where nobody was interrupted, a run that goes on has something to do.
LEMMA RunningWorks ==
  ASSUME IInv, Running, FailedOut, StuckClosed, closing = "no", NEW r \in Runs, at[r] = "running"
  PROVE IsAtWork(r)
<1>1. CASE AllDone(r) \/ how[r] # "none"
  BY <1>1 DEF IsAtWork
<1>2. CASE ~AllDone(r) /\ how[r] = "none"
  <2>1. PICK b \in Branches : pos[r][b] # "done"
    BY <1>2 DEF AllDone
  <2>2. pos[r][b] \notin {"idle", "failed", "stuck"}
    BY <1>2 DEF Running, FailedOut, StuckClosed
  <2>3. pos[r][b] \in {"waiting", "leaving", "ending", "exiting"}
    BY <2>1, <2>2 DEF IInv, Chains, Positions
  <2> QED
    BY <2>3 DEF IsAtWork
<1> QED
  BY <1>1, <1>2

\* Whoever waits has an answer, or somebody works for it.
LEMMA ServedWaits == ASSUME IInv, WInv PROVE NobodyWaitsInVain
<1> USE DEF WInv, Runs
<1> SUFFICES ASSUME place \in {"starting", "waiting"}, settled = "none", closing = "no", ~EndedTwice
             PROVE queue # <<>> \/ HasAnswer \/ \E r \in Runs : IsAtWork(r)
  BY DEF NobodyWaitsInVain
<1>1. AnswerOnWay \/ StartOnWay => queue # <<>>
  BY DEF AnswerOnWay, StartOnWay
<1>2. \A r \in Runs : at[r] \notin {"off", "over"} => IsAtWork(r)
  BY RunningWorks DEF IsAtWork
<1>3. \E b \in Branches : b \in Present
  BY InstanceAssumption DEF IInv, Values, diagram, Present
<1>4. CASE place = "starting"
  BY <1>1, <1>2, <1>4 DEF StartServed, HasAnswer
<1>5. CASE place = "waiting" /\ kind = "client"
  <2>1. CASE at[1] = "over" /\ ~heard /\ how[1] = "none"
    BY <1>1, <1>3, <1>5, <2>1 DEF ClientServed, OverOut, AllDone, NoneDone
  <2>2. CASE at[1] = "over" /\ (heard \/ how[1] # "none")
    BY <1>5, <2>2 DEF HasAnswer
  <2> QED
    BY <1>2, <1>5, <2>1, <2>2 DEF ClientServed
<1>6. CASE place = "waiting" /\ kind = "subProcess"
  BY <1>2, <1>6 DEF SubServed, HasAnswer, Awaited
<1>7. CASE place = "waiting" /\ kind = "callActivity"
  <2>1. CASE at[2] = "off"
    BY <1>1, <1>2, <1>7, <2>1 DEF CallServed
  <2>2. CASE at[2] = "over" /\ how[2] = "none"
    BY <1>1, <1>7, <2>2 DEF CallServed, OverOut
  <2>3. CASE at[2] = "over" /\ how[2] # "none"
    BY <1>7, <2>3 DEF HasAnswer, Awaited
  <2> QED
    BY <1>2, <2>1, <2>2, <2>3
<1> QED
  BY <1>4, <1>5, <1>6, <1>7, DiagramTyped DEF IInv, Kinds

\* Until a caller that is not interrupted has its answer, somebody is at work for it or an
\* event is on its way: a client, a sub process, and a call activity, whoever of the runs
\* it has heard of; but for a child with two rows of an end event after two restarts.
THEOREM CallerIsServed == Spec => []NobodyWaitsInVain
<1>1. Init => IInv /\ EInv /\ WInv
  BY InitHolds, EInit, WInit
<1>2. (IInv /\ EInv /\ WInv) /\ [Next]_vars => (IInv /\ EInv /\ WInv)'
  BY StepHolds, EStep, WStep
<1>3. IInv /\ EInv /\ WInv => NobodyWaitsInVain
  BY ServedWaits
<1> QED
  BY <1>1, <1>2, <1>3, PTL DEF Spec
=============================================================================
