---------------------------- MODULE ProcessCaller ----------------------------
(***************************************************************************)
(* A process instance together with whoever called it and waits for its    *)
(* end: a client of startAndAwaitEndEvent, a call activity, or a sub       *)
(* process embedded in its parent's diagram.  The handlers of the latter   *)
(* two are flow nodes of a parent instance: they have a row, they can be   *)
(* interrupted by a boundary event or by the end of the parent, and they   *)
(* are resumed after a restart.                                            *)
(*                                                                         *)
(* An interruption cancels the promise of the handler; the body behind     *)
(* that promise runs on, and so does a child it does not know of yet.      *)
(***************************************************************************)
EXTENDS ProcessInstance

CONSTANT Interruptions   \* the states an interruption can give to the row

ASSUME CallerAssumption == Interruptions \subseteq {"finished", "terminated", "error"}

VARIABLES
  row,       \* row of the call activity or sub process ("absent" for a client)
  place,     \* where the body of the handler promise stands
  known,     \* subProcessInstanceId is set
  closing,   \* where the chain of an interruption stands
  settled,   \* how the caller came out
  heard,     \* the client has heard of an end event
  blind      \* history: the child's termination did not reach all of its tasks

callerVars == <<row, place, known, closing, settled, heard, blind>>
vars == <<instanceVars, callerVars>>

Init ==
  /\ InstanceInit
  /\ row = "absent" /\ place = "idle" /\ known = FALSE
  /\ closing = "no" /\ settled = "none"
  /\ heard = FALSE /\ blind = FALSE

Settle(result) == settled' = IF settled = "none" THEN result ELSE settled

\* A step of the instance that the caller has no part in.
Alone == InstanceStep /\ UNCHANGED callerVars

-----------------------------------------------------------------------------
(* The client                                                              *)

\* executeProcessInstanceAndWaitForEndEvent.
StartAndAwaitEndEvent ==
  /\ kind = "client" /\ place = "idle"
  /\ place' = "waiting"
  /\ at' = [at EXCEPT ![1] = "starting"]
  /\ listens' = {"ended"}
  /\ UNCHANGED <<diagram, dbVars, boot, pos, mine, how, queue>>
  /\ UNCHANGED <<row, known, closing, settled, heard, blind>>

\* Promise.all: the execution is over and an end event was heard, or the
\* execution has failed.
ClientReturns ==
  /\ kind = "client" /\ place = "waiting" /\ at[1] = "over"
  /\ how[1] # "none" \/ heard
  /\ place' = "over"
  /\ Settle(IF how[1] # "none" THEN "rejected" ELSE "resolved")
  /\ UNCHANGED <<instanceVars, row, known, closing, heard, blind>>

-----------------------------------------------------------------------------
(* Call activity and sub process                                           *)

\* startExecution.
Begin ==
  /\ kind # "client" /\ place = "idle"
  /\ place' = "entering" /\ row' = "running"
  /\ UNCHANGED <<instanceVars, known, closing, settled, heard, blind>>

\* executeHandler installs onInterruptedCallback and suspends.
ExecuteHandler ==
  /\ place = "entering"
  /\ place' = "suspending" /\ row' = "suspended"
  /\ UNCHANGED <<instanceVars, known, closing, settled, heard, blind>>

\* executeSubprocess calls start, which listens for processStarted.
ExecuteSubprocess ==
  /\ at' = [at EXCEPT ![1] = "starting"]
  /\ place' = "starting"
  /\ listens' = {"started"}

Suspended ==
  /\ kind = "callActivity" /\ place = "suspending"
  /\ ExecuteSubprocess
  /\ UNCHANGED <<diagram, dbVars, boot, pos, mine, how, queue>>
  /\ UNCHANGED <<row, known, closing, settled, heard, blind>>

\* waitForSubProcessExecution subscribes and runs the sub process.
WaitForSubProcessExecution ==
  /\ kind = "subProcess" /\ place = "suspending"
  /\ place' = "waiting" /\ known' = TRUE
  /\ listens' = {"ended", "terminated"}
  /\ at' = [at EXCEPT ![1] = "running"]
  /\ started' = TRUE
  /\ task' = Entered
  /\ pos' = EnteredBy(1)
  /\ UNCHANGED <<diagram, proc, ends, boot, mine, how, queue>>
  /\ UNCHANGED <<row, closing, settled, heard, blind>>

\* The answers a waiting handler can get: a result, an error, or an error that
\* calls itself a termination.
GoOn == place' = "resuming" /\ row' = "resumed"
GoDown == place' = "failing" /\ row' = "error"
GoDownTerminated == place' = "terminating" /\ row' = "terminated"

\* Deliver the next event to the tasks and to the caller.
EveryEnd == {"ended", "terminated", "errored"}
AllButErrors == {"ended", "terminated"}
ListensForChild == EveryEnd

StartIsHeard ==
  /\ place' = "waiting" /\ known' = TRUE
  /\ listens' = ListensForChild
  /\ UNCHANGED <<row, heard>>

ClientHears ==
  /\ heard' = TRUE /\ listens' = {}
  /\ UNCHANGED <<row, place, known>>

\* (The first termination heard is the terminate end event's own, with a payload
\* or a message that does not call itself a termination.)
HandlerHears(event) ==
  /\ listens' = IF kind = "callActivity" THEN {} ELSE listens \ {Topic(event)}
  /\ \/ place = "waiting" /\ event = "ended" /\ GoOn
     \/ place = "waiting" /\ event # "ended" /\ GoDown
     \/ place # "waiting" /\ UNCHANGED <<row, place>>
  /\ UNCHANGED <<known, heard>>

CallerHears(event) ==
  CASE event = "started" -> StartIsHeard
    [] kind = "client" -> ClientHears
    [] OTHER -> HandlerHears(event)

Deliver ==
  /\ queue # <<>>
  /\ queue' = Tail(queue)
  /\ TasksHear(Head(queue))
  /\ IF Head(queue).caller /\ Topic(Head(queue).event) \in listens
     THEN CallerHears(Head(queue).event)
     ELSE UNCHANGED <<row, place, known, heard, listens>>
  /\ UNCHANGED <<diagram, proc, started, ends, boot, at, mine>>
  /\ UNCHANGED <<closing, settled, blind>>

\* A promise the handler waits for is settled by a run.  start refuses the
\* model; the loop in run 1 answers nobody.
Awaited == IF kind = "subProcess" THEN 1 ELSE 2

Refused ==
  /\ kind = "callActivity" /\ place = "starting" /\ how[1] = "refused"
  /\ GoDown
  /\ UNCHANGED <<instanceVars, known, closing, settled, heard, blind>>

\* resumeProcessInstanceById returns for an instance that was not running and
\* for an orphan, the run of a sub process when all its branches are done.
RunReturns ==
  /\ kind # "client" /\ place = "waiting" /\ at[Awaited] = "over"
  /\ \/ /\ how[Awaited] = "terminated" /\ GoDownTerminated
     \/ /\ how[Awaited] = "error" /\ GoDown
     \/ /\ how[Awaited] \in {"closed", "orphan"} /\ GoOn
     \/ /\ how[Awaited] = "none" /\ kind = "subProcess" /\ GoOn
  /\ listens' = IF kind = "subProcess" /\ how[1] = "none" THEN {} ELSE listens
  /\ UNCHANGED <<diagram, dbVars, boot, runVars, queue>>
  /\ UNCHANGED <<known, closing, settled, heard, blind>>

ContinueAfterResume ==
  /\ place = "resuming"
  /\ place' = "exiting" /\ row' = "finished"
  /\ UNCHANGED <<instanceVars, known, closing, settled, heard, blind>>

Resolve ==
  /\ place = "exiting"
  /\ place' = "over"
  /\ Settle("resolved")
  /\ UNCHANGED <<instanceVars, row, known, closing, heard, blind>>

Reject ==
  /\ place \in {"failing", "terminating"}
  /\ place' = "over"
  /\ Settle("rejected")
  /\ UNCHANGED <<instanceVars, row, known, closing, heard, blind>>

-----------------------------------------------------------------------------
(* Interruption                                                            *)

\* The tasks of the child are all subscribed to its termination.
InReach == known /\ \A r \in Runs : at[r] \notin {"looking", "loading"}

SendTerminationSignalToSubProcess == Publish("terminatedSilently")

\* onInterruptedCallback cancels the handler's own subscriptions, not the one
\* of a resumption.  A call activity looks up its child first, a sub process
\* publishes at once.  A handler that has no child yet, or whose callback is
\* not installed, only ends its row.
Interrupted ==
  /\ kind # "client" /\ row # "absent" /\ settled = "none" /\ closing = "no"
  /\ blind' = ~InReach
  /\ listens' = IF known /\ at[2] = "off" THEN listens \ EveryEnd ELSE listens
  /\ \/ known /\ kind = "callActivity" /\ closing' = "reading" /\ UNCHANGED queue
     \/ known /\ kind = "subProcess" /\ closing' = "closed" /\ SendTerminationSignalToSubProcess
     \/ ~known /\ closing' = "closed" /\ UNCHANGED queue
  /\ UNCHANGED <<diagram, dbVars, boot, runVars>>
  /\ UNCHANGED <<row, place, known, settled, heard>>

TerminateNothing == UNCHANGED queue
TerminateChild == Publish("terminatedByParent")

TerminateSubprocess ==
  /\ closing = "reading"
  /\ closing' = "closed"
  /\ TerminateChild
  /\ blind' = (blind \/ ~InReach)
  /\ UNCHANGED <<diagram, dbVars, boot, runVars, listens>>
  /\ UNCHANGED <<row, place, known, settled, heard>>

\* persistOnExit, persistOnTerminate or persistOnError of the interrupted
\* handler; it settles with that.
Close ==
  /\ closing = "closed"
  /\ closing' = "over" /\ row' \in Interruptions
  /\ Settle("interrupted")
  /\ UNCHANGED <<instanceVars, place, known, heard, blind>>

-----------------------------------------------------------------------------
(* Restart                                                                 *)

\* The rows are left.  The loop resumes the instance if it is running; the
\* caller goes on where its row ends. 
Restart ==
  /\ boot < MaxRestarts
  /\ boot' = boot + 1
  /\ at' = [r \in Runs |->
       IF r = 1 /\ kind # "subProcess" /\ proc = "running" THEN "looking" ELSE "off"]
  /\ pos' = [r \in Runs |-> [b \in Branches |-> "idle"]]
  /\ mine' = [r \in Runs |-> [b \in Branches |-> 0]]
  /\ how' = [r \in Runs |-> "none"]
  /\ queue' = <<>> /\ listens' = {}
  /\ known' = FALSE /\ heard' = FALSE /\ closing' = "no"
  /\ settled' = IF kind = "client" /\ place # "idle" THEN "lost" ELSE settled
  /\ place' =
       IF settled' # "none" THEN "over"
       ELSE CASE row = "absent" -> "idle"
              [] row = "running" -> "entering"
              [] row = "suspended" -> "finding"
              [] row = "resumed" -> "resuming"
              [] row = "finished" -> "exiting"
              [] OTHER -> "failing"
  /\ blind' = (blind \/ \E i \in DOMAIN queue : queue[i].tasks # {})
  /\ UNCHANGED <<diagram, dbVars, row>>

\* continueAfterSuspend of a call activity: the child is known by its parent
\* and model.  One that is not there is started again.
FindCalled ==
  /\ kind = "callActivity" /\ place = "finding"
  /\ \/ /\ proc = "absent"
        /\ ExecuteSubprocess
        /\ UNCHANGED known
     \/ /\ proc # "absent"
        /\ known' = TRUE /\ place' = "waiting"
        /\ at' = [at EXCEPT ![2] = "looking"]
        /\ UNCHANGED listens
  /\ UNCHANGED <<diagram, dbVars, boot, pos, mine, how, queue>>
  /\ UNCHANGED <<row, closing, settled, heard, blind>>

\* waitForSubProcessResumption.
WaitForSubProcessResumption ==
  /\ listens' = {"ended", "terminated"}
  /\ place' = "waiting"
  /\ Retrace(1)

\* continueAfterSuspend of a sub process finds it by its rows: it fails if
\* there are none.
FindSubProcess ==
  /\ kind = "subProcess" /\ place = "finding"
  /\ \/ /\ ~started
        /\ GoDown
        /\ UNCHANGED <<runVars, listens, known>>
     \/ /\ started
        /\ WaitForSubProcessResumption
        /\ known' = TRUE /\ UNCHANGED row
  /\ UNCHANGED <<diagram, dbVars, boot, queue>>
  /\ UNCHANGED <<closing, settled, heard, blind>>

-----------------------------------------------------------------------------
CallerStep ==
  \/ ClientReturns \/ ExecuteHandler \/ Suspended \/ WaitForSubProcessExecution
  \/ Refused \/ RunReturns \/ ContinueAfterResume \/ Resolve \/ Reject
  \/ TerminateSubprocess \/ Close \/ FindCalled \/ FindSubProcess
Answered == \E b \in Branches : Answer(b) /\ UNCHANGED callerVars

System == Alone \/ Deliver \/ CallerStep

Next ==
  \/ System \/ Answered
  \/ Refuse /\ UNCHANGED callerVars
  \/ StartAndAwaitEndEvent \/ Begin \/ Restart
  \/ Interrupted

Spec == Init /\ [][Next]_vars
FairSpec == Spec /\ WF_vars(System) /\ WF_vars(Answered)

-----------------------------------------------------------------------------
(* Properties                                                              *)

Rows == {"absent", "running", "suspended", "resumed", "finished", "terminated", "error"}
Positions == {"idle", "waiting", "leaving", "ending", "exiting", "done", "failed", "stuck"}
Events == {"started", "ended", "errored", "terminated", "terminatedByEnd",
           "terminatedByParent", "terminatedSilently"}
RunPlaces == {"off", "starting", "saving", "running", "failing",
              "looking", "loading", "orphaned", "over"}
Outcomes == {"none", "refused", "error", "terminated", "closed", "orphan"}
Places == {"idle", "entering", "suspending", "starting", "waiting", "finding",
           "resuming", "exiting", "failing", "terminating", "over"}

\* Every variable keeps its type: a run works on a row that exists, and an
\* event is addressed to tasks and topics that there are.
TypeOK ==
  /\ diagram \in Cases /\ started \in BOOLEAN
  /\ proc \in {"absent", "running", "finished", "error"}
  /\ task \in [Branches -> Rows \ {"resumed", "running"}]
  /\ \A b \in Branches : \A i \in DOMAIN ends[b] :
       ends[b][i] \in {"running", "finished", "terminated", "error"}
  /\ boot \in 0..MaxRestarts
  /\ at \in [Runs -> RunPlaces] /\ how \in [Runs -> Outcomes]
  /\ pos \in [Runs -> [Branches -> Positions]]
  /\ \A r \in Runs, b \in Branches : mine[r][b] \in 0..Len(ends[b])
  /\ \A i \in DOMAIN queue :
       queue[i] \in [event : Events, tasks : SUBSET (Runs \X Branches), caller : BOOLEAN]
  /\ listens \subseteq EveryEnd \cup {"started"}
  /\ row \in Rows /\ place \in Places
  /\ closing \in {"no", "reading", "closed", "over"}
  /\ settled \in {"none", "resolved", "rejected", "interrupted", "lost"}
  /\ {known, heard, blind} \subseteq BOOLEAN

\* An instance counts as finished only with an end event in every branch.  A
\* branch that had left its task before a restart, and had not entered its
\* end event, is dropped as soon as another one has an end event.
FinishedMeansEnded ==
  (proc = "finished") =>
    \A b \in Present :
      ends[b] # <<>> \/ (boot > 0 /\ task[b] \in {"finished", "terminated", "error"})

\* A caller goes on only behind an end event that was reached; a regular one if
\* there was no restart.  (After a restart a call activity takes any instance
\* that is not running any more for one that has ended.)
GoesOnBehindEnd ==
  (settled = "resolved") =>
    \/ \E b \in Branches : \E i \in DOMAIN ends[b] :
         ends[b][i] = "finished" /\ (boot = 0 => endType[b] = "regular")
    \/ boot > 0 /\ kind = "callActivity" /\ proc # "running"

\* Nothing is on its way any more.
Quiet == queue = <<>> /\ \A r \in Runs : at[r] \in {"off", "running", "over"}

\* An interrupted handler leaves no task of its child behind, unless it could
\* not reach it: its id was not known, or a resumed run had not subscribed yet.
\* (A restart before a failed child has told its tasks leaves their rows.)
NoChildIsLeft ==
  (settled = "interrupted" /\ ~blind /\ Quiet) =>
    /\ Waiting = {}
    /\ \A b \in Branches : (task[b] = "suspended") => (boot > 0 /\ proc = "error")

\* The rows tell of an end and of a failure.
BothEnds ==
  /\ \E b \in Branches : \E i \in DOMAIN ends[b] : ends[b][i] = "finished"
  /\ \E b \in Branches : \/ task[b] \in {"terminated", "error"}
                         \/ \E i \in DOMAIN ends[b] : ends[b][i] \in {"terminated", "error"}

\* The final state of an instance stays, also when two runs or an orphan's end
\* set it, but for the child of a call activity that was resumed twice: its runs
\* disagree if a termination reached only one of them, if one branch has ended and
\* another one has failed, so that a run takes it for an orphan that has finished,
\* or if an error end event, whose row says "finished", is retraced by one of them.
FinalStateStays ==
  [][ (proc \in {"finished", "error"} /\ proc' # proc) =>
        /\ boot > 0 /\ kind = "callActivity"
        /\ blind \/ BothEnds \/ \E b \in Branches : endType[b] = "error" ]_vars

\* Nobody waits in vain: until a caller that is not interrupted has its answer, a run has
\* something left to do or a task that can be answered, or an event is on its way.
\* (But a child that was resumed by two runs may have two rows of an end event, of which a
\* second restart leaves the first one finished and another one open: then both runs
\* retrace the end and tell nobody of it.)
IsAtWork(r) ==
  \/ at[r] \notin {"off", "running", "over"}
  \/ /\ at[r] = "running"
     /\ \/ AllDone(r) \/ how[r] # "none"
        \/ \E b \in Branches : pos[r][b] \in {"waiting", "leaving", "ending", "exiting"}

HasAnswer ==
  \/ kind = "client" /\ (heard \/ how[1] # "none")
  \/ place = "starting" /\ how[1] = "refused"
  \/ place = "waiting" /\ at[Awaited] = "over" /\ (how[Awaited] # "none" \/ kind = "subProcess")

EndedTwice ==
  /\ boot > 1 /\ kind = "callActivity"
  /\ \E b \in Branches : Len(ends[b]) > 1 /\ ends[b][1] = "finished"

NobodyWaitsInVain ==
  place \in {"starting", "waiting"} /\ settled = "none" /\ closing = "no" /\ ~EndedTwice =>
    queue # <<>> \/ HasAnswer \/ \E r \in Runs : IsAtWork(r)

\* Whoever waits for a child gets an answer or is interrupted.
CallerSettles == (place # "idle") ~> (settled # "none")
=============================================================================
