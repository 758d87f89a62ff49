----------------------------- MODULE ProcessFlow -----------------------------
(***************************************************************************)
(* The way of a token through a diagram: each handler writes the row of    *)
(* its flow node instance, and hands its token on to the flow nodes behind *)
(* it.  After a restart the rows are retraced from the start event, and    *)
(* the flow goes on where they end.                                        *)
(*                                                                         *)
(* One token is followed.  At a parallel split gateway the module ends     *)
(* with the search for its join; the branches are those of                 *)
(* ParallelGateway.  Activities are user tasks that are answered; what     *)
(* they do beside that is in ActivityHandler.                              *)
(***************************************************************************)
EXTENDS ProcessModel

CONSTANTS
  Diagrams,     \* the diagrams looked at
  Inputs,       \* what an instance may be started with
  Answers,      \* what messages, signals and users may answer with
  Configured,   \* the payload that throw events are configured to send
  Empty,        \* the empty payload
  MaxRestarts,  \* bound: how often the runtime is started again
  MaxRows       \* bound: the rows from which on answers lead out of a loop

\* Diagrams that are well formed: a sequence flow joins flow nodes of the diagram and has a
\* place in its file, and there is a start event (else nothing is started).  None and Failed
\* stand for what is no flow node.
ASSUME DiagramsAssumption ==
  \A d \in Diagrams :
    /\ \E n \in NodesOf(d) : d.type[n] \in {"start", "timerStart"}
    /\ \A f \in d.flows : f.source \in NodesOf(d) /\ f.target \in NodesOf(d) /\ f.place \in Nat
    /\ None \notin NodesOf(d) /\ Failed \notin NodesOf(d)
ASSUME BoundsAssumption == MaxRestarts \in Nat

Payloads == Inputs \cup Answers \cup {Configured, Empty}

VARIABLES
  diagram,   \* the diagram; it never changes
  \* what the database holds
  rows,      \* the flow node instances, in the order of their creation
  proc,      \* state of the process instance
  boot,      \* how often the runtime was started again
  \* what the running process holds
  at,        \* where the handler stands
  here,      \* the flow node it is for
  mine,      \* its row, or that of the flow node in front of it
  token,     \* payload of the token the handler works with
  apart,     \* that token is not the one it hands on
  results,   \* the ProcessTokenFacade
  onward,    \* the flow node the handler goes on with
  join       \* what the search for the join gateway found

dbVars == <<rows, proc>>
handlerVars == <<at, here, mine, token, apart, results, onward>>
vars == <<diagram, dbVars, boot, handlerVars, join>>

Init ==
  /\ diagram \in Diagrams
  /\ rows = <<>> /\ proc = "running" /\ boot = 0
  /\ at = "next" /\ here = GetSingleStartEvent(diagram) /\ mine = 0
  /\ token \in Inputs /\ apart = FALSE
  /\ results = <<>> /\ onward = None /\ join = "unknown"

Type == diagram.type[here]
Waits == {"timerStart", "messageCatch", "signalCatch", "timerCatch", "userTask"}

\* findNextInstanceOfFlowNode.
NextInstances == {i \in DOMAIN rows : rows[i].prev = mine /\ rows[i].node = here}

-----------------------------------------------------------------------------
(* What the handlers share                                                 *)

Becomes(state) == rows' = [rows EXCEPT ![mine].state = state]
Fails == at' = "failed"
Goes == at' = "left"

\* Where a handler goes on: an exclusive gateway decides, a link jumps.
MatchingCatchEvents == GetLinkCatchEventsByLinkName(diagram, diagram.link[here])
NextBehind ==
  IF BranchesWithoutGateway(diagram, here) THEN Failed
  ELSE IF GetOutgoingSequenceFlowsFor(diagram, here) = {} THEN None
  ELSE FirstTarget(GetOutgoingSequenceFlowsFor(diagram, here))

\* addResultForFlowNode with the one, persistOnExit with the other payload.
Exits(result, payload) ==
  /\ results' = Append(results, Result(here, mine, result))
  /\ rows' = [rows EXCEPT ![mine].state = "finished", ![mine].left = payload]
  /\ token' = payload
  /\ Goes

\* beforeExecute and persistOnEnter; a gateway that splits and joins, or
\* neither, is refused before it has a row.
Supported == IsGateway(diagram, here) =>
  GatewayDirection(diagram, here) \in {"Diverging", "Converging"}

Execute ==
  /\ at = "next" /\ NextInstances = {}
  /\ IF Supported
     THEN /\ rows' = Append(rows, [node |-> here, prev |-> mine, state |-> "running",
                                   entered |-> token, left |-> token])
          /\ mine' = Len(rows) + 1
          /\ at' = "entered"
     ELSE Fails /\ UNCHANGED <<rows, mine>>
  /\ apart' = FALSE
  /\ UNCHANGED <<diagram, proc, boot, here, token, results, onward, join>>

\* The flow nodes behind are executed or resumed with the token: after a
\* restart with the first token of the row, whatever the handler has done to
\* the one it worked with.
HandedOnAlways == rows[mine].entered
HandedOn == IF apart THEN rows[mine].entered ELSE token

HandleNextFlowNode ==
  /\ at \in {"left", "closing"} /\ onward \notin {None, Failed}
  /\ at' = "next" /\ here' = onward /\ token' = HandedOn /\ apart' = FALSE
  /\ UNCHANGED <<diagram, dbVars, boot, mine, results, onward, join>>

\* Nothing follows, and every promise behind it resolves.
Resolve ==
  /\ at \in {"left", "closing"} /\ onward = None
  /\ at' = "over" /\ proc' = "finished"
  /\ UNCHANGED <<diagram, rows, boot, here, mine, token, apart, results, onward, join>>

\* More than one flow node follows something that is no gateway: most handlers
\* persist the error, some pass it on, and the catch events lose it.
Loses == {"messageCatch", "signalCatch"}
Persists == {"start", "timerStart", "timerCatch", "messageThrow", "signalThrow", "scriptTask", "serviceTask"}

NextIsUnclear ==
  /\ at \in {"left", "closing"} /\ onward = Failed
  /\ IF at = "left" /\ Type \in Loses THEN at' = "stuck" ELSE Fails
  /\ IF at = "left" /\ Type \in Persists /\ here \notin diagram.unset THEN Becomes("error") ELSE UNCHANGED rows
  /\ UNCHANGED <<diagram, proc, boot, here, mine, token, apart, results, onward, join>>

\* The rejection reaches the start event, and the instance is closed.
Reject ==
  /\ at = "failed"
  /\ at' = "over" /\ proc' = "error"
  /\ UNCHANGED <<diagram, rows, boot, here, mine, token, apart, results, onward, join>>

-----------------------------------------------------------------------------
(* Events: executeHandler of each                                          *)

Entered(types) == at = "entered" /\ Type \in types
KeptByEvents == <<diagram, proc, boot, here, mine, apart, join>>

StartEvent ==
  /\ Entered({"start"})
  /\ Exits(token, token) /\ onward' = NextBehind
  /\ UNCHANGED KeptByEvents

EmptyEvent ==
  /\ Entered({"empty"})
  /\ Exits(token, token) /\ onward' = NextBehind
  /\ UNCHANGED KeptByEvents

\* By now the way to an end event is through; it is the last flow node.
EndEvent ==
  /\ Entered({"end"})
  /\ Exits(token, token) /\ onward' = None
  /\ UNCHANGED KeptByEvents

LinkCatchEvent ==
  /\ Entered({"linkCatch"})
  /\ Exits(Empty, token) /\ onward' = NextBehind
  /\ UNCHANGED KeptByEvents

LinkThrowEvent ==
  /\ Entered({"linkThrow"})
  /\ \/ /\ Exits(Empty, token)
        /\ \E n \in MatchingCatchEvents : MatchingCatchEvents = {n} /\ onward' = n
     \/ /\ \A n \in MatchingCatchEvents : MatchingCatchEvents # {n}
        /\ Becomes("error") /\ Fails
        /\ UNCHANGED <<token, results, onward>>
  /\ UNCHANGED KeptByEvents

\* The event is published; its result is empty, its token is what it sent.
SentPayload == IF here \in diagram.inputs THEN Configured ELSE token

Throws ==
  \/ /\ here \notin diagram.broken
     /\ Exits(Empty, SentPayload) /\ onward' = NextBehind
  \/ /\ here \in diagram.broken
     /\ Becomes("error") /\ Fails
     /\ token' = Empty
     /\ UNCHANGED <<results, onward>>

MessageThrowEvent == Entered({"messageThrow"}) /\ Throws /\ UNCHANGED KeptByEvents
SignalThrowEvent == Entered({"signalThrow"}) /\ Throws /\ UNCHANGED KeptByEvents

\* The subscription or timer is there when persistOnSuspend is called.
Suspends ==
  /\ at' = "waiting" /\ Becomes("suspended")
  /\ UNCHANGED <<token, results, onward>>

MessageCatchEvent == Entered({"messageCatch"}) /\ Suspends /\ UNCHANGED KeptByEvents
SignalCatchEvent == Entered({"signalCatch"}) /\ Suspends /\ UNCHANGED KeptByEvents
TimerCatchEvent == Entered({"timerCatch"}) /\ Suspends /\ UNCHANGED KeptByEvents
TimerStartEvent == Entered({"timerStart"}) /\ Suspends /\ UNCHANGED KeptByEvents
UserTask == Entered({"userTask"}) /\ Suspends /\ UNCHANGED KeptByEvents

\* persistOnResume.
Waiting(types) == at = "waiting" /\ Type \in types
Resumes(payload) ==
  /\ at' = "resumed" /\ token' = payload
  /\ rows' = [rows EXCEPT ![mine].state = "resumed", ![mine].left = payload]
  /\ UNCHANGED <<KeptByEvents, results, onward>>

\* A user who could go round in circles has an end of it some time.
Leaves(answer) == Len(rows) >= MaxRows => answer \notin diagram.again

MessageArrives == Waiting({"messageCatch"}) /\ \E m \in Answers : Leaves(m) /\ Resumes(m)
SignalArrives == Waiting({"signalCatch"}) /\ \E s \in Answers : Leaves(s) /\ Resumes(s)
TaskIsAnswered == Waiting({"userTask"}) /\ \E a \in Answers : Leaves(a) /\ Resumes(a)
TimerElapses == Waiting({"timerCatch"}) /\ here \notin diagram.broken /\ Resumes(token)
TimerStartElapses == Waiting({"timerStart"}) /\ Resumes(token)

TimerIsInvalid ==
  /\ Waiting({"timerCatch"}) /\ here \in diagram.broken
  /\ Becomes("error") /\ Fails
  /\ UNCHANGED <<KeptByEvents, token, results, onward>>

\* The result is stored, and persistOnExit called.
FinishWait ==
  /\ at = "resumed"
  /\ Exits(token, token) /\ onward' = NextBehind
  /\ UNCHANGED KeptByEvents

-----------------------------------------------------------------------------
(* Tasks that run code, which may fail                                     *)

Returns(result) == Exits(result, result) /\ onward' = NextBehind
Throwing == Becomes("error") /\ Fails /\ UNCHANGED <<token, results, onward>>
NeverSettles == at' = "stuck" /\ UNCHANGED <<rows, token, results, onward>>

\* Without a script nobody settles the promise.
ScriptTask ==
  /\ Entered({"scriptTask"})
  /\ \/ here \in diagram.unset /\ NeverSettles
     \/ here \notin diagram.unset /\ \E result \in Answers \cup {Empty} : Returns(result)
     \/ here \notin diagram.unset /\ Throwing
  /\ UNCHANGED KeptByEvents

\* Without an invocation the task is skipped; a broken one (no method, no such service or
\* method, invalid parameters) throws where nobody catches it.
ServiceTask ==
  /\ Entered({"serviceTask"})
  /\ \/ here \in diagram.unset /\ Returns(Empty)
     \/ here \in diagram.broken /\ NeverSettles
     \/ here \notin diagram.unset \cup diagram.broken /\ \E result \in Answers : Returns(result)
     \/ here \notin diagram.unset \cup diagram.broken /\ Throwing
  /\ UNCHANGED KeptByEvents

-----------------------------------------------------------------------------
(* Gateways: executeHandler of each                                        *)

Decided(seen) == IF GatewayDirection(diagram, here) = "Converging" THEN NextBehind
                 ELSE DetermineBranchToTake(diagram, here, seen)

ExclusiveGateway ==
  /\ Entered({"exclusive"})
  /\ LET seen == Append(results, Result(here, mine, token))
         decided == Decided(seen)
     IN /\ results' = seen
        /\ onward' = decided
        /\ Becomes(IF decided = Failed THEN "error" ELSE "finished")
        /\ IF decided = Failed THEN Fails ELSE Goes
  /\ UNCHANGED <<KeptByEvents, token>>

\* The split has to know its join before the branches start.  It does not
\* persist that it failed.
ParallelSplitGateway ==
  /\ Entered({"parallel"}) /\ GatewayDirection(diagram, here) = "Diverging"
  /\ \E found \in {FindJoinGatewayAfterSplitGateway(diagram, here)} :
        /\ join' = found
        /\ \/ /\ found \in {None, Failed}
              /\ Fails /\ UNCHANGED <<rows, results>>
           \/ /\ found \notin {None, Failed}
              /\ at' = "split" /\ Becomes("finished")
              /\ results' = Append(results, Result(here, mine, Empty))
  /\ UNCHANGED <<diagram, proc, boot, here, mine, token, apart, onward>>

-----------------------------------------------------------------------------
(* Restart                                                                 *)

Stop ==
  /\ boot < MaxRestarts /\ proc = "running" /\ at \notin {"off", "over", "split"}
  /\ boot' = boot + 1
  /\ at' = "off"
  /\ UNCHANGED <<diagram, dbVars, here, mine, token, apart, results, onward, join>>

HasWaitingFlowNodeInstances == \E i \in DOMAIN rows : rows[i].state \in {"suspended", "resumed"}
HasActiveFlowNodeInstances == \E i \in DOMAIN rows : rows[i].state \in {"running", "suspended", "resumed"}
EndRows == {i \in DOMAIN rows : diagram.type[rows[i].node] = "end"}
HasReachedAnEndEvent == EndRows # {}
IsOrphaned == ~HasActiveFlowNodeInstances /\ HasReachedAnEndEvent

\* An orphan is closed; without a start event's row nothing is resumed; all
\* others are retraced from their start event.
ResumeProcessInstance ==
  /\ at = "off"
  /\ proc' = IF IsOrphaned THEN "finished" ELSE proc
  /\ at' = IF IsOrphaned \/ rows = <<>> THEN "over" ELSE "next"
  /\ here' = GetSingleStartEvent(diagram)
  /\ mine' = 0 /\ results' = <<>> /\ onward' = None /\ apart' = FALSE
  /\ UNCHANGED <<diagram, rows, boot, token, join>>

\* resume: a row that follows ours is taken up in the state it was left in.
TakesUp(state) ==
  /\ at = "next" /\ NextInstances # {}
  /\ mine' = CHOOSE i \in NextInstances : \A j \in NextInstances : i <= j
Retraces(state) ==
  /\ at = "next" /\ NextInstances # {}
  /\ mine' = CHOOSE i \in NextInstances : \A j \in NextInstances : i <= j
  /\ rows[mine'].state = state
KeptByResume == <<diagram, proc, boot, here, join>>

ContinueAfterEnter ==
  /\ Retraces("running")
  /\ at' = "entered" /\ apart' = FALSE /\ token' = rows[mine'].entered
  /\ UNCHANGED <<KeptByResume, rows, results, onward>>

ContinueAfterSuspend ==
  /\ Retraces("suspended")
  /\ at' = "waiting" /\ apart' = TRUE /\ token' = rows[mine'].entered
  /\ UNCHANGED <<KeptByResume, rows, results, onward>>

ContinueAfterResume ==
  /\ Retraces("resumed")
  /\ at' = "closing" /\ apart' = TRUE /\ token' = rows[mine'].left
  /\ results' = Append(results, Result(here, mine', rows[mine'].left))
  /\ rows' = [rows EXCEPT ![mine'].state = "finished"]
  /\ onward' = NextBehind
  /\ UNCHANGED KeptByResume

\* The result is now what the handler left with; an exclusive gateway decides
\* again, a link finds no sequence flow behind itself.
RestoresEntered(row) == row.entered
RestoredResult(row) == row.left

ContinueAfterExit ==
  /\ Retraces("finished")
  /\ apart' = TRUE /\ token' = rows[mine'].left
  /\ LET seen == Append(results, Result(here, mine', RestoredResult(rows[mine'])))
         decided == IF Type = "exclusive" THEN Decided(seen) ELSE NextBehind
     IN /\ results' = seen
        /\ onward' = decided
        /\ IF decided = Failed THEN Fails ELSE at' = "closing"
        /\ rows' = IF Type = "exclusive" /\ decided = Failed
                   THEN [rows EXCEPT ![mine'].state = "error"] ELSE rows
  /\ UNCHANGED KeptByResume

CannotResume ==
  /\ Retraces("error")
  /\ Fails
  /\ UNCHANGED <<KeptByResume, rows, token, apart, results, onward>>

-----------------------------------------------------------------------------
Events ==
  \/ StartEvent \/ EmptyEvent \/ EndEvent
  \/ LinkCatchEvent \/ LinkThrowEvent \/ MessageThrowEvent \/ SignalThrowEvent
  \/ MessageCatchEvent \/ SignalCatchEvent \/ TimerCatchEvent \/ TimerStartEvent \/ UserTask
  \/ TimerIsInvalid \/ FinishWait
Resumption ==
  \/ ResumeProcessInstance
  \/ ContinueAfterEnter \/ ContinueAfterSuspend \/ ContinueAfterResume \/ ContinueAfterExit
  \/ CannotResume
Handling ==
  Execute \/ HandleNextFlowNode \/ Resolve \/ NextIsUnclear \/ Reject
Outside ==
  MessageArrives \/ SignalArrives \/ TaskIsAnswered \/ TimerElapses \/ TimerStartElapses

System == Events \/ ScriptTask \/ ServiceTask \/ ExclusiveGateway \/ ParallelSplitGateway \/ Handling \/ Resumption
Next == System \/ Outside \/ Stop

Spec == Init /\ [][Next]_vars

\* Handlers go on, the runtime is started again, and what is waited for comes.
FairSpec == Spec /\ WF_vars(System) /\ WF_vars(Outside)

-----------------------------------------------------------------------------
(* Properties                                                              *)

RowStates == {"running", "suspended", "resumed", "finished", "error"}
Rows == [node : NodesOf(diagram), prev : Nat, state : RowStates, entered : Payloads, left : Payloads]

\* The rows are a chain from the start event, and the handler is where its row is.
TypeOK ==
  /\ proc \in {"running", "finished", "error"} /\ boot \in 0 .. MaxRestarts
  /\ at \in {"next", "entered", "waiting", "resumed", "closing", "left", "failed", "stuck", "split",
             "off", "over"}
  /\ \A i \in DOMAIN rows : rows[i] \in Rows /\ rows[i].prev < i
  /\ token \in Payloads /\ apart \in BOOLEAN /\ here \in NodesOf(diagram) /\ mine \in 0 .. Len(rows)
  /\ \A i \in DOMAIN results : results[i] \in [node : NodesOf(diagram), row : DOMAIN rows, value : Payloads]
  /\ onward \in NodesOf(diagram) \cup {None, Failed}
  /\ join \in NodesOf(diagram) \cup {None, Failed, "unknown"}
  /\ at \in {"entered", "waiting", "resumed", "left", "closing"} => rows[mine].node = here

\* The events whose result is empty, while their row keeps the token's payload.
ForgetsWhatItSent == {"linkThrow", "linkCatch", "messageThrow", "signalThrow"}
LooksAtThem(d, n) ==
  \E f \in GetOutgoingSequenceFlowsFor(d, n) :
    /\ f.when.kind = "condition" /\ f.when.of \in NodesOf(d)
    /\ d.type[f.when.of] \in ForgetsWhatItSent

\* No flow node instance is followed twice: wherever the runtime was stopped, what is
\* retraced takes the branch that was taken, and nothing is executed a second time.
\* (But an exclusive gateway that looks at the result of a throw event or a link finds
\* another one after a restart, and may go on with a second branch.)
FollowedOnce ==
  \A i, j \in DOMAIN rows : i # j /\ rows[i].prev = rows[j].prev =>
    rows[i].prev # 0 /\ LooksAtThem(diagram, rows[rows[i].prev].node)

\* The instance is closed, all its rows are, and if it is finished then the last of
\* them is of a flow node that nothing follows.
IsOpen(row) == row.state \in {"running", "suspended", "resumed"}
EndsProperly ==
  /\ proc # "running"
  /\ \A i \in DOMAIN rows : ~IsOpen(rows[i])
  /\ proc = "finished" =>
       LET last == rows[Len(rows)].node
       IN GetNextFlowNodesFor(diagram, last) = {} /\ diagram.type[last] # "linkThrow"

\* What keeps the code from that: a restart before the start event has its row, or
\* behind a link; a second branch; a catch event that several flow nodes follow, a script
\* task without a script or a service task with a broken invocation ("stuck"); a split
\* that finds no join and leaves its row open.  (A split that finds it ends this module.)
Excused ==
  \/ rows = <<>> \/ at \in {"split", "stuck"} \/ join \in {None, Failed}
  \/ boot > 0 /\ \E i \in DOMAIN rows :
       diagram.type[rows[i].node] = "linkThrow" \/ LooksAtThem(diagram, rows[i].node)

\* Nobody takes an instance for ended that has not: whoever closes it (the chain of promises
\* that resolves or rejects, or a resumption that takes it for an orphan) leaves no row
\* open, and finishes it only where nothing follows.
EndsWhenOver == at = "over" => EndsProperly \/ Excused

\* What a closed row says stays: a restart that retraces it writes nothing into it.  (But a
\* flow node that several others follow has its error persisted after its exit, and an
\* exclusive gateway that looks at what a throw event sent may fail when it decides again.)
Closed(row) == row.state \in {"finished", "error"}
ClosedRowStays ==
  [][\A i \in DOMAIN rows : Closed(rows[i]) =>
       \/ rows'[i] = rows[i]
       \/ /\ BranchesWithoutGateway(diagram, rows[i].node) \/ LooksAtThem(diagram, rows[i].node)
          /\ rows'[i] = [rows[i] EXCEPT !.state = "error"]]_vars

\* A flow node starts with the payload that the one in front of it was left with; after a
\* restart, it may be the payload that one was entered with.
PayloadIsHandedOn ==
  \A i \in DOMAIN rows : rows[i].prev # 0 =>
    LET front == rows[rows[i].prev]
    IN rows[i].entered = front.left \/ (boot > 0 /\ rows[i].entered = front.entered)

\* What resume says of the token it hands on: that it does not matter which one it is.
\* Then each flow node would start with what the one in front of it was left with.
TokenDoesNotMatter ==
  \A i \in DOMAIN rows : rows[i].prev # 0 => rows[i].entered = rows[rows[i].prev].left

\* Whatever is interrupted by a restart comes to its end.
FlowEnds == <>[](EndsProperly \/ Excused)

\* The reference for the join of a split: follow every path and count the splits and
\* joins of its type; the join at which the count is back is its counterpart.
Counterparts(split) ==
  LET balanced[n \in NodesOf(diagram), depth \in Nat] ==
        LET deeper == IF IsSplit(diagram, n) THEN depth + 1 ELSE depth - 1
            depthBehind == IF diagram.type[n] = diagram.type[split] THEN deeper ELSE depth
        IN IF depthBehind = 0 THEN {n}
           ELSE UNION {balanced[m, depthBehind] : m \in GetNextFlowNodesFor(diagram, n)}
  IN UNION {balanced[n, 1] : n \in GetNextFlowNodesFor(diagram, split)}

\* On every path behind a flow node each join is of the type of the innermost split that
\* is open.
Nests(start) ==
  LET nestsBehind[n \in NodesOf(diagram), open \in Seq(GatewayTypes)] ==
        LET on(stack) == \A m \in GetNextFlowNodesFor(diagram, n) : nestsBehind[m, stack]
        IN CASE IsSplit(diagram, n) -> on(<<diagram.type[n]>> \o open)
             [] IsGateway(diagram, n) /\ ~IsSplit(diagram, n) ->
                  /\ diagram.type[n] = Head(open)
                  /\ Tail(open) # <<>> => on(Tail(open))
             [] OTHER -> on(open)
  IN nestsBehind[start, <<>>]

IsWellFormed ==
  /\ Nests(here)
  /\ \A n \in NodesOf(diagram) : IsSplit(diagram, n) => Cardinality(Counterparts(n)) = 1

\* If the gateways nest and each split has a counterpart, the search finds it.  (If they do
\* not nest, it may find another join: behind nested splits whose branches meet in the join
\* of the outer one, it goes on to the next.)
JoinIsCounterpart == join # "unknown" /\ IsWellFormed => join \in Counterparts(here)
=============================================================================
