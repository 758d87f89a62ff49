-------------------------- MODULE ProcessFlowProofs --------------------------
(***************************************************************************)
(* Proofs about the way of a token through a diagram (ProcessFlow), for    *)
(* every set of diagrams, loops included, and any number of restarts.      *)
(*                                                                         *)
(* That nothing is followed twice rests on what leads from a closed row to *)
(* the next one: it is a function of the rows on the path to it, there is  *)
(* only one such path, and closed rows do not change.  So a gateway that   *)
(* is retraced decides as it has decided.                                  *)
(***************************************************************************)
EXTENDS ProcessFlow, WellFoundedInduction, SequenceTheorems, FiniteSetTheorems, TLAPS

-----------------------------------------------------------------------------
(* The diagram                                                             *)

IsDiagram(d) ==
  /\ \E n \in NodesOf(d) : d.type[n] \in {"start", "timerStart"}
  /\ \A f \in d.flows : f.source \in NodesOf(d) /\ f.target \in NodesOf(d) /\ f.place \in Nat
  /\ None \notin NodesOf(d) /\ Failed \notin NodesOf(d)

\* A set of numbers that is not empty has a least one.
LEMMA Smallest ==
  ASSUME NEW S \in SUBSET Nat, S # {}
  PROVE  \E i \in S : \A j \in S : i <= j
<1>1. PICK i \in S : \A j \in S : <<j, i>> \notin OpToRel(<, Nat)
  BY NatLessThanWellFounded, WFMin
<1>2. ASSUME NEW j \in S PROVE i <= j
  <2>1. i \in Nat /\ j \in Nat
    OBVIOUS
  <2>2. ~(j < i)
    BY <1>1, <2>1 DEF OpToRel
  <2> QED
    BY <2>1, <2>2
<1> QED
  BY <1>2

\* The first of some sequence flows leads to a flow node.
LEMMA FirstTargetIsNode ==
  ASSUME NEW d, IsDiagram(d), NEW flows \in SUBSET d.flows, flows # {}
  PROVE  FirstTarget(flows) \in NodesOf(d)
<1>1. {f.place : f \in flows} \in SUBSET Nat /\ {f.place : f \in flows} # {}
  BY DEF IsDiagram
<1>2. PICK i \in {f.place : f \in flows} : \A j \in {f.place : f \in flows} : i <= j
  BY <1>1, Smallest
<1>3. \E f \in flows : \A g \in flows : f.place <= g.place
  BY <1>2
<1>4. (CHOOSE f \in flows : \A g \in flows : f.place <= g.place) \in flows
  BY <1>3
<1> QED
  BY <1>4 DEF FirstTarget, IsDiagram

Behind(d, n) ==
  IF BranchesWithoutGateway(d, n) THEN Failed
  ELSE IF GetOutgoingSequenceFlowsFor(d, n) = {} THEN None
  ELSE FirstTarget(GetOutgoingSequenceFlowsFor(d, n))

LEMMA BehindType ==
  ASSUME NEW d, IsDiagram(d), NEW n
  PROVE  Behind(d, n) \in NodesOf(d) \cup {None, Failed}
<1>1. GetOutgoingSequenceFlowsFor(d, n) \in SUBSET d.flows
  BY DEF GetOutgoingSequenceFlowsFor
<1> QED
  BY <1>1, FirstTargetIsNode DEF Behind

\* An exclusive gateway decides for a flow node, or fails.
LEMMA DecisionType ==
  ASSUME NEW d, IsDiagram(d), NEW n, NEW s
  PROVE  DetermineBranchToTake(d, n, s) \in NodesOf(d) \cup {Failed}
<1>1. Truthy(d, n, s) \in SUBSET d.flows /\ DefaultFlows(d, n) \in SUBSET d.flows
  BY DEF Truthy, DefaultFlows, GetOutgoingSequenceFlowsFor
<1>2. Cardinality(Truthy(d, n, s)) = 1 => Truthy(d, n, s) # {}
  BY FS_EmptySet
<1>3. Cardinality(Truthy(d, n, s)) = 1 => FirstTarget(Truthy(d, n, s)) \in NodesOf(d)
  BY <1>1, <1>2, FirstTargetIsNode
<1>4. DefaultFlows(d, n) # {} => FirstTarget(DefaultFlows(d, n)) \in NodesOf(d)
  BY <1>1, FirstTargetIsNode
<1> QED
  BY <1>3, <1>4 DEF DetermineBranchToTake

LEMMA JoinType ==
  ASSUME NEW d, NEW split
  PROVE  FindJoinGatewayAfterSplitGateway(d, split) \in NodesOf(d) \cup {None, Failed}
BY DEF FindJoinGatewayAfterSplitGateway

LEMMA StartEventIsNode ==
  ASSUME NEW d, IsDiagram(d)
  PROVE  GetSingleStartEvent(d) \in NodesOf(d)
BY DEF IsDiagram, GetSingleStartEvent

-----------------------------------------------------------------------------
(* Types                                                                   *)

Places == {"next", "entered", "waiting", "resumed", "closing", "left", "failed", "stuck", "split",
           "off", "over"}
AtItsRow == {"entered", "waiting", "resumed", "left", "closing"}
Steps(last) == [node : NodesOf(diagram), row : 1 .. last, value : Payloads]

RowsTyped ==
  /\ diagram \in Diagrams
  /\ rows \in Seq(Rows)
  /\ \A i \in 1 .. Len(rows) : rows[i].prev < i
ResultsTyped == results \in Seq(Steps(Len(rows)))
HandlerTyped ==
  /\ proc \in {"running", "finished", "error"} /\ boot \in 0 .. MaxRestarts
  /\ at \in Places /\ apart \in BOOLEAN
  /\ token \in Payloads /\ here \in NodesOf(diagram) /\ mine \in 0 .. Len(rows)
  /\ onward \in NodesOf(diagram) \cup {None, Failed}
  /\ join \in NodesOf(diagram) \cup {None, Failed, "unknown"}
Placed == at \in AtItsRow => mine \in 1 .. Len(rows) /\ rows[mine].node = here

Typed == RowsTyped /\ ResultsTyped /\ HandlerTyped /\ Placed

\* Row m has the state and the payload it is left with from now on; nothing else changes.
Changes(m, state, payload) ==
  /\ rows' \in Seq(Rows) /\ Len(rows') = Len(rows)
  /\ \A i \in 1 .. Len(rows) :
       rows'[i] = IF i = m THEN [rows[i] EXCEPT !.state = state, !.left = payload] ELSE rows[i]

LEMMA ReplacedRow ==
  ASSUME RowsTyped, NEW m \in 1 .. Len(rows), NEW r \in Rows, rows' = [rows EXCEPT ![m] = r]
  PROVE  /\ rows' \in Seq(Rows) /\ Len(rows') = Len(rows)
         /\ \A i \in 1 .. Len(rows) : rows'[i] = IF i = m THEN r ELSE rows[i]
<1>1. rows \in Seq(Rows)
  BY DEF RowsTyped
<1> QED
  BY <1>1

LEMMA BecomesChanges ==
  ASSUME RowsTyped, mine \in 1 .. Len(rows), NEW state \in RowStates, Becomes(state)
  PROVE  Changes(mine, state, rows[mine].left)
<1>1. rows' = [rows EXCEPT ![mine] = [rows[mine] EXCEPT !.state = state]]
  BY DEF Becomes
<1>2. rows[mine] \in Rows
  BY DEF RowsTyped
<1>3. [rows[mine] EXCEPT !.state = state] = [rows[mine] EXCEPT !.state = state, !.left = rows[mine].left]
  BY <1>2 DEF Rows
<1>4. [rows[mine] EXCEPT !.state = state] \in Rows
  BY <1>2 DEF Rows
<1>5. /\ rows' \in Seq(Rows) /\ Len(rows') = Len(rows)
      /\ \A i \in 1 .. Len(rows) :
           rows'[i] = IF i = mine THEN [rows[mine] EXCEPT !.state = state] ELSE rows[i]
  BY <1>1, <1>4, ReplacedRow
<1> QED
  BY <1>3, <1>5 DEF Changes

LEMMA ReplacedChanges ==
  ASSUME RowsTyped, NEW m \in 1 .. Len(rows), NEW state \in RowStates, NEW payload \in Payloads,
         rows' = [rows EXCEPT ![m].state = state, ![m].left = payload]
  PROVE  Changes(m, state, payload)
<1>1. rows' = [rows EXCEPT ![m] = [rows[m] EXCEPT !.state = state, !.left = payload]]
  BY DEF RowsTyped
<1>2. rows[m] \in Rows
  BY DEF RowsTyped
<1>3. [rows[m] EXCEPT !.state = state, !.left = payload] \in Rows
  BY <1>2 DEF Rows
<1> QED
  BY ZenonT(60), <1>1, <1>3, ReplacedRow DEF Changes

\* Such a change keeps the rows a chain, and the results those of its rows.
LEMMA ChangesTyped ==
  ASSUME RowsTyped, NEW m, NEW state, NEW payload, Changes(m, state, payload), diagram' = diagram
  PROVE  /\ RowsTyped' /\ Len(rows') = Len(rows)
         /\ \A i \in 1 .. Len(rows) : rows'[i].node = rows[i].node /\ rows'[i].prev = rows[i].prev
<1>1. \A i \in 1 .. Len(rows) : rows[i] \in Rows
  BY DEF RowsTyped
<1>2. \A i \in 1 .. Len(rows) : rows'[i].node = rows[i].node /\ rows'[i].prev = rows[i].prev
  BY <1>1 DEF Changes, Rows
<1>3. Rows' = Rows
  BY DEF Rows
<1> QED
  BY <1>2, <1>3 DEF RowsTyped, Changes

LEMMA RowsStay ==
  ASSUME RowsTyped, rows' = rows, diagram' = diagram
  PROVE  RowsTyped' /\ Len(rows') = Len(rows)
<1>1. Rows' = Rows
  BY DEF Rows
<1> QED
  BY <1>1 DEF RowsTyped

LEMMA ResultsStay ==
  ASSUME RowsTyped, ResultsTyped, RowsTyped', Len(rows) <= Len(rows'), diagram' = diagram, results' = results
  PROVE  ResultsTyped'
<1>1. Len(rows) \in Nat /\ Len(rows') \in Nat
  BY DEF RowsTyped
<1>2. Steps(Len(rows)) \subseteq (Steps(Len(rows)))'
  BY <1>1 DEF Steps
<1>3. results \in Seq((Steps(Len(rows)))')
  BY <1>2 DEF ResultsTyped
<1> QED
  BY <1>3 DEF ResultsTyped

LEMMA ResultAppended ==
  ASSUME RowsTyped, ResultsTyped, RowsTyped', Len(rows) = Len(rows'), diagram' = diagram,
         NEW n \in NodesOf(diagram), NEW r \in 1 .. Len(rows), NEW v \in Payloads,
         results' = Append(results, Result(n, r, v))
  PROVE  ResultsTyped'
<1>1. Result(n, r, v) \in Steps(Len(rows))
  BY DEF Result, Steps
<1>2. (Steps(Len(rows)))' = Steps(Len(rows))
  BY DEF Steps
<1>3. results' \in Seq(Steps(Len(rows)))
  BY <1>1 DEF ResultsTyped
<1> QED
  BY <1>2, <1>3 DEF ResultsTyped

LEMMA PayloadTypes ==
  /\ Empty \in Payloads /\ Configured \in Payloads
  /\ \A p \in Inputs \cup Answers \cup {Empty} : p \in Payloads
BY DEF Payloads

LEMMA NextBehindType ==
  ASSUME Typed
  PROVE  NextBehind \in NodesOf(diagram) \cup {None, Failed}
<1>1. IsDiagram(diagram)
  BY DiagramsAssumption DEF Typed, RowsTyped, IsDiagram
<1>2. NextBehind = Behind(diagram, here)
  BY DEF NextBehind, Behind
<1> QED
  BY <1>1, <1>2, BehindType

LEMMA DecidedType ==
  ASSUME Typed, NEW seen
  PROVE  Decided(seen) \in NodesOf(diagram) \cup {None, Failed}
<1>1. IsDiagram(diagram)
  BY DiagramsAssumption DEF Typed, RowsTyped, IsDiagram
<1> QED
  BY <1>1, NextBehindType, DecisionType DEF Decided

\* The handler's row is closed and its result stored.
LEMMA ExitsTyped ==
  ASSUME Typed, at \in AtItsRow, UNCHANGED KeptByEvents,
         NEW result \in Payloads, NEW payload \in Payloads, Exits(result, payload),
         onward' \in NodesOf(diagram) \cup {None, Failed}
  PROVE  Typed'
<1>1. mine \in 1 .. Len(rows) /\ rows[mine].node = here
  BY DEF Typed, Placed
<1>2. Changes(mine, "finished", payload)
  BY <1>1, ReplacedChanges DEF Exits, RowStates, Typed
<1>3. /\ diagram' = diagram /\ proc' = proc /\ boot' = boot /\ here' = here /\ mine' = mine
      /\ apart' = apart /\ join' = join
  BY DEF KeptByEvents
<1>4. RowsTyped' /\ Len(rows') = Len(rows) /\ rows'[mine].node = here
  BY <1>1, <1>2, <1>3, ChangesTyped DEF Typed
<1>5. ResultsTyped'
  BY <1>1, <1>3, <1>4, ResultAppended DEF Typed, HandlerTyped, Exits
<1>6. HandlerTyped' /\ Placed'
  BY <1>1, <1>3, <1>4 DEF Typed, HandlerTyped, Placed, Exits, Goes, Places
<1> QED
  BY <1>4, <1>5, <1>6 DEF Typed

\* The handler's row changes its state, or its payload, and no result is stored.
LEMMA ChangesStateTyped ==
  ASSUME Typed, mine \in 1 .. Len(rows), rows[mine].node = here, UNCHANGED KeptByEvents,
         NEW state, NEW payload, Changes(mine, state, payload),
         results' = results, onward' = onward, token' \in Payloads, at' \in Places
  PROVE  Typed'
<1>1. /\ diagram' = diagram /\ proc' = proc /\ boot' = boot /\ here' = here /\ mine' = mine
      /\ apart' = apart /\ join' = join
  BY DEF KeptByEvents
<1>2. RowsTyped' /\ Len(rows') = Len(rows) /\ rows'[mine].node = here
  BY <1>1, ChangesTyped DEF Typed
<1>3. ResultsTyped'
  BY <1>1, <1>2, ResultsStay DEF Typed, RowsTyped
<1>4. HandlerTyped' /\ Placed'
  BY <1>1, <1>2 DEF Typed, HandlerTyped, Placed
<1> QED
  BY <1>2, <1>3, <1>4 DEF Typed

\* The rows stay as they are.
LEMMA StaysTyped ==
  ASSUME Typed, diagram' = diagram, rows' = rows, results' = results, HandlerTyped', Placed'
  PROVE  Typed'
<1>1. RowsTyped' /\ Len(rows') = Len(rows)
  BY RowsStay DEF Typed
<1>2. ResultsTyped'
  BY <1>1, ResultsStay DEF Typed, RowsTyped
<1> QED
  BY <1>1, <1>2 DEF Typed

\* The handler has entered its flow node.
LEMMA EnteredRow ==
  ASSUME Typed, at \in AtItsRow
  PROVE  mine \in 1 .. Len(rows) /\ rows[mine].node = here /\ RowsTyped /\ rows[mine].left \in Payloads
                                 /\ rows[mine].entered \in Payloads /\ token \in Payloads
<1>1. mine \in 1 .. Len(rows) /\ rows[mine].node = here /\ RowsTyped
  BY DEF Typed, Placed
<1>2. rows[mine] \in Rows
  BY <1>1 DEF RowsTyped
<1> QED
  BY <1>1, <1>2 DEF Rows, Typed, HandlerTyped

LEMMA FailsTyped ==
  ASSUME Typed, at \in AtItsRow, UNCHANGED KeptByEvents, results' = results, onward' = onward,
         token' \in Payloads, NEW state \in RowStates, Becomes(state), at' \in Places
  PROVE  Typed'
<1>1. Changes(mine, state, rows[mine].left)
  BY EnteredRow, BecomesChanges
<1> QED
  BY <1>1, EnteredRow, ChangesStateTyped

LEMMA ResumesTyped ==
  ASSUME Typed, at \in AtItsRow, NEW payload \in Payloads, Resumes(payload)
  PROVE  Typed'
<1>1. Changes(mine, "resumed", payload)
  BY EnteredRow, ReplacedChanges DEF Resumes, RowStates
<1> QED
  BY <1>1, EnteredRow, ChangesStateTyped DEF Resumes, Places

LEMMA EventsTyped ==
  ASSUME Typed, Events
  PROVE  Typed'
<1> USE DEF Entered, AtItsRow
<1>1. CASE StartEvent \/ EmptyEvent \/ LinkCatchEvent \/ FinishWait
  BY <1>1, ExitsTyped, NextBehindType, EnteredRow, PayloadTypes
     DEF StartEvent, EmptyEvent, LinkCatchEvent, FinishWait
<1>2. CASE EndEvent
  BY <1>2, ExitsTyped, EnteredRow DEF EndEvent
<1>3. CASE LinkThrowEvent
  <2>1. CASE Exits(Empty, token) /\ \E n \in MatchingCatchEvents : MatchingCatchEvents = {n} /\ onward' = n
    <3>1. onward' \in NodesOf(diagram)
      BY <2>1 DEF MatchingCatchEvents, GetLinkCatchEventsByLinkName
    <3> QED
      BY <1>3, <2>1, <3>1, ExitsTyped, EnteredRow, PayloadTypes DEF LinkThrowEvent
  <2>2. CASE Becomes("error") /\ Fails /\ UNCHANGED <<token, results, onward>>
    BY <1>3, <2>2, FailsTyped, EnteredRow DEF LinkThrowEvent, Fails, Places, RowStates
  <2> QED
    BY <1>3, <2>1, <2>2 DEF LinkThrowEvent
<1>4. CASE MessageThrowEvent \/ SignalThrowEvent
  <2>1. Throws /\ UNCHANGED KeptByEvents /\ at = "entered"
    BY <1>4 DEF MessageThrowEvent, SignalThrowEvent
  <2>2. CASE Exits(Empty, SentPayload) /\ onward' = NextBehind
    <3>1. SentPayload \in Payloads
      BY <2>1, EnteredRow, PayloadTypes DEF SentPayload
    <3> QED
      BY <2>1, <2>2, <3>1, ExitsTyped, NextBehindType, PayloadTypes
  <2>3. CASE Becomes("error") /\ Fails /\ token' = Empty /\ UNCHANGED <<results, onward>>
    BY <2>1, <2>3, FailsTyped, PayloadTypes DEF Fails, Places, RowStates
  <2> QED
    BY <2>1, <2>2, <2>3 DEF Throws
<1>5. CASE MessageCatchEvent \/ SignalCatchEvent \/ TimerCatchEvent \/ TimerStartEvent \/ UserTask
  BY <1>5, FailsTyped, EnteredRow
     DEF MessageCatchEvent, SignalCatchEvent, TimerCatchEvent, TimerStartEvent, UserTask, Suspends, Places,
         RowStates
<1>6. CASE TimerIsInvalid
  BY <1>6, FailsTyped, EnteredRow DEF TimerIsInvalid, Waiting, Fails, Places, RowStates
<1> QED
  BY <1>1, <1>2, <1>3, <1>4, <1>5, <1>6 DEF Events

LEMMA TasksTyped ==
  ASSUME Typed, ScriptTask \/ ServiceTask
  PROVE  Typed'
<1>1. at = "entered" /\ at \in AtItsRow /\ UNCHANGED KeptByEvents
  BY DEF ScriptTask, ServiceTask, Entered, AtItsRow
<1>2. CASE \E result \in Answers \cup {Empty} : Returns(result)
  BY <1>1, <1>2, ExitsTyped, NextBehindType, PayloadTypes DEF Returns
<1>3. CASE Throwing
  BY <1>1, <1>3, FailsTyped, EnteredRow DEF Throwing, Fails, Places, RowStates
<1>4. CASE NeverSettles
  <2>1. HandlerTyped' /\ Placed'
    BY <1>1, <1>4 DEF NeverSettles, KeptByEvents, Typed, HandlerTyped, Placed, Places, AtItsRow
  <2> QED
    BY <1>1, <1>4, <2>1, StaysTyped DEF NeverSettles, KeptByEvents
<1> QED
  BY <1>2, <1>3, <1>4 DEF ScriptTask, ServiceTask, Returns

LEMMA OutsideTyped ==
  ASSUME Typed, Outside
  PROVE  Typed'
BY ResumesTyped, EnteredRow, PayloadTypes
   DEF Outside, MessageArrives, SignalArrives, TaskIsAnswered, TimerElapses, TimerStartElapses, Waiting, AtItsRow

LEMMA GatewaysTyped ==
  ASSUME Typed, ExclusiveGateway \/ ParallelSplitGateway
  PROVE  Typed'
<1>1. at = "entered" /\ at \in AtItsRow
  BY DEF ExclusiveGateway, ParallelSplitGateway, Entered, AtItsRow
<1>2. CASE ExclusiveGateway
  <2> DEFINE seen == Append(results, Result(here, mine, token))
             decided == Decided(seen)
             state == IF decided = Failed THEN "error" ELSE "finished"
  <2>1. /\ results' = seen /\ onward' = decided /\ Becomes(state)
        /\ IF decided = Failed THEN Fails ELSE Goes
        /\ UNCHANGED <<KeptByEvents, token>>
    BY <1>2 DEF ExclusiveGateway
  <2>2. decided \in NodesOf(diagram) \cup {None, Failed}
    BY DecidedType
  <2>3. state \in RowStates
    BY DEF RowStates
  <2> HIDE DEF state, decided
  <2>4. Changes(mine, state, rows[mine].left)
    BY <1>1, <2>1, <2>3, EnteredRow, BecomesChanges
  <2>5. RowsTyped' /\ Len(rows') = Len(rows) /\ rows'[mine].node = here /\ diagram' = diagram
    BY <1>1, <2>1, <2>4, EnteredRow, ChangesTyped DEF KeptByEvents
  <2>6. ResultsTyped'
    BY <1>1, <2>1, <2>5, EnteredRow, ResultAppended DEF Typed, HandlerTyped
  <2>7. HandlerTyped' /\ Placed'
    BY <1>1, <2>1, <2>2, <2>5, EnteredRow
       DEF KeptByEvents, Typed, HandlerTyped, Placed, Fails, Goes, Places
  <2> QED
    BY <2>5, <2>6, <2>7 DEF Typed
<1>3. CASE ParallelSplitGateway
  <2>1. PICK found \in NodesOf(diagram) \cup {None, Failed} :
          /\ join' = found
          /\ \/ Fails /\ UNCHANGED <<rows, results>>
             \/ /\ at' = "split" /\ Becomes("finished")
                /\ results' = Append(results, Result(here, mine, Empty))
    BY <1>3, JoinType DEF ParallelSplitGateway
  <2>2. UNCHANGED <<diagram, proc, boot, here, mine, token, apart, onward>>
    BY <1>3 DEF ParallelSplitGateway
  <2>3. CASE Fails /\ UNCHANGED <<rows, results>>
    <3>1. HandlerTyped' /\ Placed'
      BY <2>1, <2>2, <2>3 DEF Typed, HandlerTyped, Placed, Fails, Places, AtItsRow
    <3> QED
      BY <2>2, <2>3, <3>1, StaysTyped
  <2>4. CASE /\ at' = "split" /\ Becomes("finished")
             /\ results' = Append(results, Result(here, mine, Empty))
    <3>1. Changes(mine, "finished", rows[mine].left)
      BY <1>1, <2>4, EnteredRow, BecomesChanges DEF RowStates
    <3>2. RowsTyped' /\ Len(rows') = Len(rows)
      BY <1>1, <2>2, <3>1, EnteredRow, ChangesTyped
    <3>3. ResultsTyped'
      BY <1>1, <2>2, <2>4, <3>2, EnteredRow, ResultAppended, PayloadTypes DEF Typed, HandlerTyped
    <3>4. HandlerTyped' /\ Placed'
      BY <2>1, <2>2, <2>4, <3>2 DEF Typed, HandlerTyped, Placed, Places, AtItsRow
    <3> QED
      BY <3>2, <3>3, <3>4 DEF Typed
  <2> QED
    BY <2>1, <2>3, <2>4
<1> QED
  BY <1>2, <1>3

\* The row that a handler writes when it starts.
LEMMA NewRow ==
  ASSUME Typed, NEW r \in Rows, r.prev <= Len(rows), rows' = Append(rows, r), diagram' = diagram,
         results' = results
  PROVE  /\ RowsTyped' /\ ResultsTyped' /\ Len(rows') = Len(rows) + 1 /\ Len(rows) \in Nat
         /\ rows'[Len(rows) + 1] = r
         /\ \A i \in 1 .. Len(rows) : rows'[i] = rows[i]
<1>1. rows \in Seq(Rows) /\ Len(rows) \in Nat /\ r.prev \in Nat /\ Rows' = Rows
  BY DEF Typed, RowsTyped, Rows
<1>2. /\ rows' \in Seq(Rows) /\ Len(rows') = Len(rows) + 1
      /\ rows'[Len(rows) + 1] = r /\ \A i \in 1 .. Len(rows) : rows'[i] = rows[i]
  BY <1>1
<1>3. \A i \in 1 .. Len(rows') : rows'[i].prev < i
  <2> SUFFICES ASSUME NEW i \in 1 .. Len(rows') PROVE rows'[i].prev < i
    OBVIOUS
  <2>1. CASE i = Len(rows) + 1
    BY <1>1, <1>2, <2>1
  <2>2. CASE i \in 1 .. Len(rows)
    BY <1>2, <2>2 DEF Typed, RowsTyped
  <2> QED
    BY <1>1, <1>2, <2>1, <2>2
<1>4. RowsTyped'
  BY <1>1, <1>2, <1>3 DEF Typed, RowsTyped
<1>5. ResultsTyped'
  BY <1>1, <1>2, <1>4, ResultsStay DEF Typed
<1> QED
  BY <1>1, <1>2, <1>4, <1>5

LEMMA HandlingTyped ==
  ASSUME Typed, Handling
  PROVE  Typed'
<1>1. CASE Execute
  <2>1. CASE Supported
    <3> DEFINE r == [node |-> here, prev |-> mine, state |-> "running", entered |-> token, left |-> token]
    <3>1. r \in Rows /\ r.prev <= Len(rows) /\ r.node = here
      BY DEF Typed, RowsTyped, HandlerTyped, Rows, RowStates
    <3>2. /\ rows' = Append(rows, r) /\ mine' = Len(rows) + 1 /\ at' = "entered"
          /\ diagram' = diagram /\ results' = results /\ here' = here /\ apart' = FALSE
          /\ UNCHANGED <<proc, boot, token, onward, join>>
      BY <1>1, <2>1 DEF Execute
    <3> HIDE DEF r
    <3>3. /\ RowsTyped' /\ ResultsTyped' /\ Len(rows') = Len(rows) + 1 /\ Len(rows) \in Nat
          /\ rows'[Len(rows) + 1] = r
      BY <3>1, <3>2, NewRow
    <3>4. mine' \in 1 .. Len(rows') /\ rows'[mine'].node = here'
      BY <3>1, <3>2, <3>3
    <3>5. mine' \in 0 .. Len(rows') /\ diagram' = diagram
      BY <3>2, <3>3, <3>4
    <3>6. HandlerTyped'
      BY <3>2, <3>5 DEF Typed, HandlerTyped, Places
    <3>7. Placed'
      BY <3>4 DEF Placed
    <3> QED
      BY <3>3, <3>6, <3>7 DEF Typed
  <2>2. CASE ~Supported
    <3>1. HandlerTyped' /\ Placed'
      BY <1>1, <2>2 DEF Execute, Fails, Typed, HandlerTyped, Placed, Places, AtItsRow
    <3> QED
      BY <1>1, <2>2, <3>1, StaysTyped DEF Execute
  <2> QED
    BY <2>1, <2>2
<1>2. CASE HandleNextFlowNode
  <2>1. HandedOn \in Payloads
    BY <1>2, EnteredRow DEF HandleNextFlowNode, HandedOn, AtItsRow
  <2>2. HandlerTyped' /\ Placed'
    BY <1>2, <2>1 DEF HandleNextFlowNode, dbVars, Typed, HandlerTyped, Placed, Places, AtItsRow
  <2> QED
    BY <1>2, <2>2, StaysTyped DEF HandleNextFlowNode, dbVars
<1>3. CASE Resolve
  <2>1. HandlerTyped' /\ Placed'
    BY <1>3 DEF Resolve, Typed, HandlerTyped, Placed, Places, AtItsRow
  <2> QED
    BY <1>3, <2>1, StaysTyped DEF Resolve
<1>4. CASE NextIsUnclear
  <2>1. /\ at \in AtItsRow /\ at' \in {"stuck", "failed"}
        /\ UNCHANGED KeptByEvents /\ results' = results /\ onward' = onward /\ token' \in Payloads
    BY <1>4 DEF NextIsUnclear, AtItsRow, Fails, KeptByEvents, Typed, HandlerTyped
  <2>2. CASE Becomes("error")
    BY <2>1, <2>2, FailsTyped DEF Places, RowStates
  <2>3. CASE UNCHANGED rows
    <3>1. HandlerTyped' /\ Placed'
      BY <2>1, <2>3 DEF KeptByEvents, Typed, HandlerTyped, Placed, Places, AtItsRow
    <3> QED
      BY <2>1, <2>3, <3>1, StaysTyped DEF KeptByEvents
  <2> QED
    BY <1>4, <2>2, <2>3 DEF NextIsUnclear
<1>5. CASE Reject
  <2>1. HandlerTyped' /\ Placed'
    BY <1>5 DEF Reject, Typed, HandlerTyped, Placed, Places, AtItsRow
  <2> QED
    BY <1>5, <2>1, StaysTyped DEF Reject
<1> QED
  BY <1>1, <1>2, <1>3, <1>4, <1>5 DEF Handling

\* findNextInstanceOfFlowNode finds the row of the flow node behind the handler's.
LEMMA FoundRow ==
  ASSUME Typed, NEW state, Retraces(state)
  PROVE  /\ at = "next" /\ mine' \in 1 .. Len(rows)
         /\ rows[mine'].node = here /\ rows[mine'].prev = mine /\ rows[mine'].state = state
         /\ rows[mine'] \in Rows
<1>1. rows \in Seq(Rows) /\ DOMAIN rows = 1 .. Len(rows)
  BY DEF Typed, RowsTyped
<1>2. NextInstances \in SUBSET Nat /\ NextInstances # {}
  BY <1>1 DEF Retraces, NextInstances
<1>3. \E i \in NextInstances : \A j \in NextInstances : i <= j
  BY <1>2, Smallest
<1>4. mine' \in NextInstances
  BY <1>3 DEF Retraces
<1> QED
  BY <1>1, <1>4 DEF NextInstances, Retraces

LEMMA ResumptionTyped ==
  ASSUME Typed, Resumption
  PROVE  Typed'
<1>1. CASE ResumeProcessInstance
  <2>1. IsDiagram(diagram)
    BY DiagramsAssumption DEF Typed, RowsTyped, IsDiagram
  <2>2. here' \in NodesOf(diagram) /\ diagram' = diagram
    BY <1>1, <2>1, StartEventIsNode DEF ResumeProcessInstance
  <2>3. RowsTyped' /\ Len(rows') = Len(rows) /\ Len(rows) \in Nat
    BY <1>1, RowsStay DEF ResumeProcessInstance, Typed, RowsTyped
  <2>4. ResultsTyped'
    BY <1>1 DEF ResumeProcessInstance, ResultsTyped
  <2>5. at' \in {"over", "next"} /\ proc' \in {"finished", proc} /\ mine' = 0 /\ onward' = None /\ apart' = FALSE
        /\ UNCHANGED <<boot, token, join>>
    BY <1>1 DEF ResumeProcessInstance
  <2>6. Placed'
    BY <2>5 DEF Placed, AtItsRow
  <2>7. mine' \in 0 .. Len(rows') /\ proc' \in {"running", "finished", "error"} /\ at' \in Places
    BY <2>3, <2>5 DEF Typed, HandlerTyped, Places
  <2>8. HandlerTyped'
    BY <2>2, <2>5, <2>7 DEF Typed, HandlerTyped
  <2> QED
    BY <2>3, <2>4, <2>6, <2>8 DEF Typed
<1>2. CASE ContinueAfterEnter \/ ContinueAfterSuspend
  <2>1. mine' \in 1 .. Len(rows) /\ rows[mine'].node = here /\ rows[mine'] \in Rows
    BY <1>2, FoundRow DEF ContinueAfterEnter, ContinueAfterSuspend
  <2>2. token' \in Payloads
    BY <1>2, <2>1 DEF ContinueAfterEnter, ContinueAfterSuspend, Rows
  <2>3. UNCHANGED <<KeptByResume, rows, results, onward>> /\ at' \in Places /\ apart' \in BOOLEAN
    BY <1>2 DEF ContinueAfterEnter, ContinueAfterSuspend, Places
  <2>4. HandlerTyped' /\ Placed'
    BY <2>1, <2>2, <2>3 DEF KeptByResume, Typed, HandlerTyped, Placed
  <2> QED
    BY <2>3, <2>4, StaysTyped DEF KeptByResume
<1>3. CASE ContinueAfterResume
  <2>1. mine' \in 1 .. Len(rows) /\ rows[mine'].node = here /\ rows[mine'] \in Rows
    BY <1>3, FoundRow DEF ContinueAfterResume
  <2>2. rows[mine'].left \in Payloads
    BY <2>1 DEF Rows
  <2>3. rows' = [rows EXCEPT ![mine'].state = "finished", ![mine'].left = rows[mine'].left]
    <3>1. rows' = [rows EXCEPT ![mine'].state = "finished"]
      BY <1>3 DEF ContinueAfterResume
    <3> QED
      BY <2>1, <3>1 DEF Typed, RowsTyped, Rows
  <2>4. Changes(mine', "finished", rows[mine'].left)
    BY <2>1, <2>2, <2>3, ReplacedChanges DEF Typed, RowStates
  <2>5. diagram' = diagram /\ proc' = proc /\ boot' = boot /\ here' = here /\ join' = join
    BY <1>3 DEF ContinueAfterResume, KeptByResume
  <2>6. RowsTyped' /\ Len(rows') = Len(rows) /\ rows'[mine'].node = here
    BY <2>1, <2>4, <2>5, ChangesTyped DEF Typed
  <2>7. results' = Append(results, Result(here, mine', rows[mine'].left))
    BY <1>3 DEF ContinueAfterResume
  <2>8. ResultsTyped'
    BY <2>1, <2>2, <2>5, <2>6, <2>7, ResultAppended DEF Typed, HandlerTyped
  <2>9. at' = "closing" /\ apart' = TRUE /\ token' \in Payloads /\ onward' = NextBehind
    BY <1>3, <2>2 DEF ContinueAfterResume
  <2>10. HandlerTyped' /\ Placed'
    BY <2>1, <2>5, <2>6, <2>9, NextBehindType DEF Typed, HandlerTyped, Placed, Places
  <2> QED
    BY <2>6, <2>8, <2>10 DEF Typed
<1>4. CASE ContinueAfterExit
  <2>1. mine' \in 1 .. Len(rows) /\ rows[mine'].node = here /\ rows[mine'] \in Rows
    BY <1>4, FoundRow DEF ContinueAfterExit
  <2>2. rows[mine'].left \in Payloads
    BY <2>1 DEF Rows
  <2> DEFINE seen == Append(results, Result(here, mine', rows[mine'].left))
             decided == IF Type = "exclusive" THEN Decided(seen) ELSE NextBehind
  <2>3. /\ results' = seen /\ onward' = decided /\ token' = rows[mine'].left /\ apart' = TRUE
        /\ IF decided = Failed THEN Fails ELSE at' = "closing"
        /\ rows' = IF Type = "exclusive" /\ decided = Failed
                   THEN [rows EXCEPT ![mine'].state = "error"] ELSE rows
        /\ UNCHANGED KeptByResume
    BY <1>4 DEF ContinueAfterExit, RestoredResult
  <2>4. decided \in NodesOf(diagram) \cup {None, Failed}
    BY DecidedType, NextBehindType
  <2> HIDE DEF decided
  <2>5. diagram' = diagram /\ proc' = proc /\ boot' = boot /\ here' = here /\ join' = join
    BY <2>3 DEF KeptByResume
  <2>6. RowsTyped' /\ Len(rows') = Len(rows) /\ rows'[mine'].node = here
    <3>1. CASE rows' = rows
      BY <2>1, <2>5, <3>1, RowsStay DEF Typed
    <3>2. CASE rows' = [rows EXCEPT ![mine'].state = "error"]
      <4>1. rows' = [rows EXCEPT ![mine'].state = "error", ![mine'].left = rows[mine'].left]
        BY <2>1, <3>2 DEF Typed, RowsTyped, Rows
      <4>2. Changes(mine', "error", rows[mine'].left)
        BY <2>1, <2>2, <4>1, ReplacedChanges DEF Typed, RowStates
      <4> QED
        BY <2>1, <2>5, <4>2, ChangesTyped DEF Typed
    <3> QED
      BY <2>3, <3>1, <3>2
  <2>7. ResultsTyped'
    BY <2>1, <2>2, <2>3, <2>5, <2>6, ResultAppended DEF Typed, HandlerTyped
  <2>8. HandlerTyped' /\ Placed'
    BY <2>1, <2>2, <2>3, <2>4, <2>5, <2>6 DEF Typed, HandlerTyped, Placed, Places, Fails
  <2> QED
    BY <2>6, <2>7, <2>8 DEF Typed
<1>5. CASE CannotResume
  <2>1. mine' \in 1 .. Len(rows)
    BY <1>5, FoundRow DEF CannotResume
  <2>2. HandlerTyped' /\ Placed'
    BY <1>5, <2>1 DEF CannotResume, KeptByResume, Fails, Typed, HandlerTyped, Placed, Places, AtItsRow
  <2> QED
    BY <1>5, <2>2, StaysTyped DEF CannotResume, KeptByResume
<1> QED
  BY <1>1, <1>2, <1>3, <1>4, <1>5 DEF Resumption

LEMMA StopTyped ==
  ASSUME Typed, Stop
  PROVE  Typed'
<1>1. boot' \in 0 .. MaxRestarts
  BY BoundsAssumption DEF Stop, Typed, HandlerTyped
<1>2. HandlerTyped' /\ Placed'
  BY <1>1 DEF Stop, dbVars, Typed, HandlerTyped, Placed, Places, AtItsRow
<1> QED
  BY <1>2, StaysTyped DEF Stop, dbVars

LEMMA InitTyped ==
  ASSUME Init
  PROVE  Typed
<1>1. IsDiagram(diagram) /\ diagram \in Diagrams
  BY DiagramsAssumption DEF Init, IsDiagram
<1>2. here \in NodesOf(diagram)
  BY <1>1, StartEventIsNode DEF Init
<1>3. RowsTyped /\ ResultsTyped
  BY DEF Init, RowsTyped, ResultsTyped
<1>4. token \in Payloads /\ Len(rows) = 0
  BY DEF Init, Payloads
<1>5. boot \in 0 .. MaxRestarts /\ mine \in 0 .. Len(rows)
  BY <1>4, BoundsAssumption DEF Init
<1>6. HandlerTyped
  BY <1>2, <1>4, <1>5 DEF Init, HandlerTyped, Places
<1>7. Placed
  BY DEF Init, Placed, AtItsRow
<1> QED
  BY <1>3, <1>6, <1>7 DEF Typed

LEMMA StepTyped ==
  ASSUME Typed, [Next]_vars
  PROVE  Typed'
<1>1. CASE Next
  BY <1>1, EventsTyped, TasksTyped, GatewaysTyped, HandlingTyped, ResumptionTyped, OutsideTyped, StopTyped
     DEF Next, System
<1>2. CASE UNCHANGED vars
  <2>1. HandlerTyped' /\ Placed'
    BY <1>2 DEF vars, dbVars, handlerVars, Typed, HandlerTyped, Placed
  <2> QED
    BY <1>2, <2>1, StaysTyped DEF vars, dbVars, handlerVars
<1> QED
  BY <1>1, <1>2

LEMMA AlwaysTyped == Spec => []Typed
<1>1. Init => Typed
  BY InitTyped
<1>2. Typed /\ [Next]_vars => Typed'
  BY StepTyped
<1> QED
  BY <1>1, <1>2, PTL DEF Spec

\* Every row is of a flow node of the diagram and behind one that was written before it,
\* every result belongs to a row, and a handler that is between entering its flow node and
\* leaving it stands where its row is: also after a restart has taken it up again.
THEOREM TypeCorrect == Spec => []TypeOK
<1>1. Typed => TypeOK
  <2> SUFFICES ASSUME Typed PROVE TypeOK
    OBVIOUS
  <2>1. DOMAIN rows = 1 .. Len(rows) /\ \A i \in DOMAIN rows : rows[i] \in Rows /\ rows[i].prev < i
    BY DEF Typed, RowsTyped
  <2>2. \A i \in DOMAIN results : results[i] \in [node : NodesOf(diagram), row : DOMAIN rows, value : Payloads]
    <3>1. results \in Seq(Steps(Len(rows)))
      BY DEF Typed, ResultsTyped
    <3>2. \A i \in DOMAIN results : results[i] \in Steps(Len(rows))
      BY <3>1
    <3> QED
      BY <2>1, <3>2 DEF Steps
  <2> QED
    BY <2>1, <2>2 DEF TypeOK, Typed, HandlerTyped, Placed, Places, AtItsRow
<1> QED
  BY <1>1, AlwaysTyped, PTL

-----------------------------------------------------------------------------
(* What is retraced takes the branch that was taken                        *)

Chained(rs) ==
  /\ Len(rs) \in Nat
  /\ \A i \in 1 .. Len(rs) :
       /\ rs[i].prev \in Nat /\ rs[i].prev < i
       /\ rs[i].prev # 0 => Closed(rs[rs[i].prev])

\* A path of rows from the start event to row i, and the results that a token has that
\* is retraced along it.
IsPath(rs, p, i) ==
  /\ p \in Seq(1 .. Len(rs)) /\ p # <<>>
  /\ rs[p[1]].prev = 0 /\ p[Len(p)] = i
  /\ \A k \in 1 .. (Len(p) - 1) : p[k] = rs[p[k + 1]].prev
Replay(rs, p) == [k \in 1 .. Len(p) |-> Result(rs[p[k]].node, p[k], rs[p[k]].left)]

\* The flow node that follows row i: a link jumps; a gateway that does not look at what a
\* restart changes decides on every path to its row alike; others go on behind themselves.
Decides(n) == diagram.type[n] = "exclusive" /\ GatewayDirection(diagram, n) # "Converging"
Leads(rs, i, n) ==
  LET m == rs[i].node
  IN /\ diagram.type[m] = "linkThrow" => GetLinkCatchEventsByLinkName(diagram, diagram.link[m]) = {n}
     /\ Decides(m) /\ ~LooksAtThem(diagram, m) =>
          \A p : IsPath(rs, p, i) => n = DetermineBranchToTake(diagram, m, Replay(rs, p))
     /\ ~Decides(m) /\ diagram.type[m] # "linkThrow" => n = Behind(diagram, m)

\* The results are those of the rows on the way to row i.
IsTrail(rs, s, i) ==
  /\ i = (IF s = <<>> THEN 0 ELSE s[Len(s)].row)
  /\ \A k \in 1 .. Len(s) :
       /\ Closed(rs[s[k].row])
       /\ s[k].node = rs[s[k].row].node
       /\ s[k].value = rs[s[k].row].left \/ diagram.type[s[k].node] \in ForgetsWhatItSent
       /\ rs[s[k].row].prev = (IF k = 1 THEN 0 ELSE s[k - 1].row)

\* There is one path to a row.
LEMMA PathsMeet ==
  ASSUME NEW rs, NEW i, NEW p, NEW q, IsPath(rs, p, i), IsPath(rs, q, i)
  PROVE  \A k \in Nat : k < Len(p) /\ k < Len(q) => p[Len(p) - k] = q[Len(q) - k]
<1> DEFINE Apart == {k \in Nat : k < Len(p) /\ k < Len(q) /\ p[Len(p) - k] # q[Len(q) - k]}
<1>1. p \in Seq(1 .. Len(rs)) /\ q \in Seq(1 .. Len(rs)) /\ Len(p) \in Nat /\ Len(q) \in Nat
  BY DEF IsPath
<1>2. SUFFICES ASSUME Apart # {} PROVE FALSE
  OBVIOUS
<1>3. PICK k \in Apart : \A j \in Apart : k <= j
  <2>1. Apart \in SUBSET Nat
    OBVIOUS
  <2> HIDE DEF Apart
  <2> QED
    BY <1>2, <2>1, Smallest
<1>4. k \in Nat /\ k < Len(p) /\ k < Len(q) /\ p[Len(p) - k] # q[Len(q) - k]
  OBVIOUS
<1>5. CASE k = 0
  BY <1>1, <1>4, <1>5 DEF IsPath
<1>6. CASE k > 0
  <2>1. k - 1 \in Nat /\ k - 1 < k /\ k - 1 < Len(p) /\ k - 1 < Len(q)
    BY SMTT(30), <1>1, <1>4, <1>6
  <2>2. p[Len(p) - (k - 1)] = q[Len(q) - (k - 1)]
    BY <1>3, <2>1
  <2>3. /\ Len(p) - k \in 1 .. (Len(p) - 1) /\ (Len(p) - k) + 1 = Len(p) - (k - 1)
        /\ Len(q) - k \in 1 .. (Len(q) - 1) /\ (Len(q) - k) + 1 = Len(q) - (k - 1)
    BY SMTT(30), <1>1, <1>4, <1>6
  <2>4. p[Len(p) - k] = rs[p[Len(p) - (k - 1)]].prev
    BY <2>3 DEF IsPath
  <2>5. q[Len(q) - k] = rs[q[Len(q) - (k - 1)]].prev
    BY <2>3 DEF IsPath
  <2> QED
    BY <1>4, <2>2, <2>4, <2>5
<1> QED
  BY <1>4, <1>5, <1>6

LEMMA PathNotLonger ==
  ASSUME NEW rs, NEW i, NEW p, NEW q, IsPath(rs, p, i), IsPath(rs, q, i)
  PROVE  Len(q) <= Len(p)
<1>1. p \in Seq(1 .. Len(rs)) /\ q \in Seq(1 .. Len(rs)) /\ Len(p) \in Nat /\ Len(q) \in Nat /\ Len(p) > 0
  BY DEF IsPath
<1>2. SUFFICES ASSUME Len(p) < Len(q) PROVE FALSE
  BY <1>1
<1>3. Len(p) - 1 \in Nat /\ Len(p) - 1 < Len(p) /\ Len(p) - 1 < Len(q)
  BY <1>1, <1>2
<1>4. p[Len(p) - (Len(p) - 1)] = q[Len(q) - (Len(p) - 1)]
  BY <1>3, PathsMeet
<1>5. Len(p) - (Len(p) - 1) = 1
  BY <1>1
<1>6. rs[q[Len(q) - (Len(p) - 1)]].prev = 0
  BY <1>4, <1>5 DEF IsPath
<1>7. Len(q) - Len(p) \in 1 .. (Len(q) - 1) /\ (Len(q) - Len(p)) + 1 = Len(q) - (Len(p) - 1)
  BY <1>1, <1>2
<1>8. q[Len(q) - Len(p)] = 0
  BY <1>6, <1>7 DEF IsPath
<1>9. q[Len(q) - Len(p)] \in 1 .. Len(rs)
  BY <1>1, <1>7
<1> QED
  BY <1>8, <1>9

LEMMA PathsEqual ==
  ASSUME NEW rs, NEW i, NEW p, NEW q, IsPath(rs, p, i), IsPath(rs, q, i)
  PROVE  p = q
<1>1. p \in Seq(1 .. Len(rs)) /\ q \in Seq(1 .. Len(rs)) /\ Len(p) \in Nat /\ Len(q) \in Nat
  BY DEF IsPath
<1>2. Len(p) = Len(q)
  BY <1>1, PathNotLonger
<1>3. ASSUME NEW k \in 1 .. Len(p) PROVE p[k] = q[k]
  <2>1. Len(p) - k \in Nat /\ Len(p) - k < Len(p) /\ Len(p) - (Len(p) - k) = k
    BY <1>1
  <2>2. p[Len(p) - (Len(p) - k)] = q[Len(q) - (Len(p) - k)]
    BY <1>2, <2>1, PathsMeet
  <2> QED
    BY <1>2, <2>1, <2>2
<1> QED
  BY <1>1, <1>2, <1>3, SeqEqual

\* A gateway that does not look at what a throw event sent, or a link, decides alike on
\* results that differ in nothing else.
LEMMA SameHistory ==
  ASSUME NEW s, NEW t, NEW of, Len(s) \in Nat, DOMAIN s = 1 .. Len(s), DOMAIN t = DOMAIN s,
         \A k \in 1 .. Len(s) : s[k].node = t[k].node,
         \A k \in 1 .. Len(s) : s[k].node = of => s[k].value = t[k].value
  PROVE  HistoryOf(s, of) = HistoryOf(t, of)
<1> DEFINE seen == {k \in DOMAIN s : s[k].node = of}
           last == CHOOSE k \in seen : \A j \in seen : j <= k
<1>1. seen = {k \in DOMAIN t : t[k].node = of}
  OBVIOUS
<1>2. CASE seen = {}
  BY <1>1, <1>2 DEF HistoryOf
<1>3. CASE seen # {}
  <2>1. {Len(s) - k : k \in seen} \in SUBSET Nat /\ {Len(s) - k : k \in seen} # {}
    BY <1>3
  <2>2. PICK m \in {Len(s) - k : k \in seen} : \A j \in {Len(s) - k : k \in seen} : m <= j
    BY <2>1, Smallest
  <2>3. \E k \in seen : \A j \in seen : j <= k
    <3>1. PICK k \in seen : m = Len(s) - k
      OBVIOUS
    <3>2. ASSUME NEW j \in seen PROVE j <= k
      <4>1. Len(s) - k <= Len(s) - j
        BY <2>2, <3>1
      <4> QED
        BY <4>1
    <3> QED
      BY <3>2
  <2>4. last \in seen
    BY <2>3
  <2>5. s[last].value = t[last].value
    BY <2>4
  <2>6. HistoryOf(s, of) = s[last].value
    BY <1>3 DEF HistoryOf
  <2>7. HistoryOf(t, of) = t[last].value
    BY <1>1, <1>3 DEF HistoryOf
  <2> QED
    BY <2>5, <2>6, <2>7
<1> QED
  BY <1>2, <1>3

LEMMA SameDecision ==
  ASSUME NEW n, NEW s, NEW t, Len(s) \in Nat, DOMAIN s = 1 .. Len(s), DOMAIN t = DOMAIN s, Len(t) = Len(s),
         \A k \in 1 .. Len(s) : s[k].node = t[k].node /\ s[k].node \in NodesOf(diagram),
         \A k \in 1 .. Len(s) : s[k].value = t[k].value \/ diagram.type[s[k].node] \in ForgetsWhatItSent,
         s[Len(s)].value = t[Len(s)].value,
         ~LooksAtThem(diagram, n)
  PROVE  DetermineBranchToTake(diagram, n, s) = DetermineBranchToTake(diagram, n, t)
<1>1. ASSUME NEW f \in GetOutgoingSequenceFlowsFor(diagram, n), f.when.kind = "condition"
      PROVE  ValueOf(s, f.when.of) = ValueOf(t, f.when.of)
  <2>1. CASE f.when.of = "current"
    BY <2>1 DEF ValueOf, CurrentOf, Last
  <2>2. CASE f.when.of # "current"
    <3>1. \A k \in 1 .. Len(s) : s[k].node = f.when.of => s[k].value = t[k].value
      BY <1>1 DEF LooksAtThem
    <3>2. HistoryOf(s, f.when.of) = HistoryOf(t, f.when.of)
      BY <3>1, SameHistory
    <3> QED
      BY <2>2, <3>2 DEF ValueOf
  <2> QED
    BY <2>1, <2>2
<1>2. Truthy(diagram, n, s) = Truthy(diagram, n, t)
  BY <1>1 DEF Truthy
<1> QED
  BY <1>2 DEF DetermineBranchToTake

\* The rows of a trail are the path to its end, and their results those of a replay.
LEMMA TrailPath ==
  ASSUME NEW rs, Chained(rs), NEW i, NEW s \in Seq(Steps(Len(rs))), s # <<>>, IsTrail(rs, s, i)
  PROVE  LET p == [k \in 1 .. Len(s) |-> s[k].row]
         IN /\ IsPath(rs, p, i) /\ Len(p) = Len(s)
            /\ \A k \in 1 .. Len(s) : Replay(rs, p)[k] = Result(rs[s[k].row].node, s[k].row, rs[s[k].row].left)
<1> DEFINE p == [k \in 1 .. Len(s) |-> s[k].row]
<1>1. Len(s) \in Nat /\ Len(s) > 0 /\ \A k \in 1 .. Len(s) : s[k] \in Steps(Len(rs))
  OBVIOUS
<1>2. \A k \in 1 .. Len(s) : s[k].row \in 1 .. Len(rs)
  BY <1>1 DEF Steps
<1>3. p \in Seq(1 .. Len(rs)) /\ Len(p) = Len(s) /\ DOMAIN p = 1 .. Len(s)
  BY <1>1, <1>2
<1>4. p # <<>>
  <2>1. Len(p) > 0
    BY <1>1, <1>3
  <2> HIDE DEF p
  <2> QED
    BY <2>1
<1>5. rs[p[1]].prev = 0 /\ p[Len(p)] = i
  BY <1>1, <1>3 DEF IsTrail
<1>6. ASSUME NEW k \in 1 .. (Len(p) - 1) PROVE p[k] = rs[p[k + 1]].prev
  <2>1. k + 1 \in 1 .. Len(s) /\ k + 1 # 1 /\ (k + 1) - 1 = k /\ k \in 1 .. Len(s)
    BY <1>1, <1>3
  <2>2. rs[s[k + 1].row].prev = s[(k + 1) - 1].row
    BY <2>1 DEF IsTrail
  <2> QED
    BY <2>1, <2>2
<1>7. IsPath(rs, p, i)
  BY <1>3, <1>4, <1>5, <1>6 DEF IsPath
<1>8. \A k \in 1 .. Len(s) : Replay(rs, p)[k] = Result(rs[s[k].row].node, s[k].row, rs[s[k].row].left)
  BY <1>3 DEF Replay
<1> QED
  BY <1>3, <1>7, <1>8

\* A gateway decides on the results the handler has as on those of any path to its row.
LEMMA TrailDecides ==
  ASSUME NEW rs, Chained(rs), NEW i, NEW s \in Seq(Steps(Len(rs))), s # <<>>, IsTrail(rs, s, i),
         diagram.type[rs[i].node] \notin ForgetsWhatItSent, ~LooksAtThem(diagram, rs[i].node),
         NEW q, IsPath(rs, q, i)
  PROVE  DetermineBranchToTake(diagram, rs[i].node, s) =
         DetermineBranchToTake(diagram, rs[i].node, Replay(rs, q))
<1> DEFINE p == [k \in 1 .. Len(s) |-> s[k].row]
           t == Replay(rs, p)
<1>1. /\ IsPath(rs, p, i) /\ Len(p) = Len(s)
      /\ \A k \in 1 .. Len(s) : t[k] = Result(rs[s[k].row].node, s[k].row, rs[s[k].row].left)
  BY TrailPath
<1>2. /\ Len(s) \in Nat /\ Len(s) > 0 /\ DOMAIN s = 1 .. Len(s)
      /\ \A k \in 1 .. Len(s) : s[k] \in Steps(Len(rs))
  OBVIOUS
<1>3. DOMAIN t = 1 .. Len(s) /\ Len(t) = Len(s)
  BY <1>1, <1>2 DEF Replay
<1>4. p = q
  BY <1>1, PathsEqual
<1> HIDE DEF p, t
<1>5. ASSUME NEW k \in 1 .. Len(s)
      PROVE  t[k].node = rs[s[k].row].node /\ t[k].value = rs[s[k].row].left
  <2>1. t[k] = Result(rs[s[k].row].node, s[k].row, rs[s[k].row].left)
    BY <1>1
  <2> QED
    BY <2>1 DEF Result
<1>6. \A k \in 1 .. Len(s) : s[k].node = t[k].node /\ s[k].node \in NodesOf(diagram)
  BY <1>2, <1>5 DEF IsTrail, Steps
<1>7. \A k \in 1 .. Len(s) : s[k].value = t[k].value \/ diagram.type[s[k].node] \in ForgetsWhatItSent
  BY <1>5 DEF IsTrail
<1>8. s[Len(s)].value = t[Len(s)].value
  <2>1. s[Len(s)].row = i /\ Len(s) \in 1 .. Len(s)
    BY <1>2 DEF IsTrail
  <2>2. s[Len(s)].node = rs[i].node
    BY <2>1 DEF IsTrail
  <2> QED
    BY <1>7, <2>1, <2>2
<1>9. DetermineBranchToTake(diagram, rs[i].node, s) = DetermineBranchToTake(diagram, rs[i].node, t)
  BY <1>2, <1>3, <1>6, <1>7, <1>8, SameDecision
<1> QED
  BY <1>4, <1>9 DEF t

\* Two flow nodes that follow a row are the same.
LEMMA LeadsToOne ==
  ASSUME NEW rs, NEW i, NEW n, NEW m, Leads(rs, i, n), Leads(rs, i, m),
         ~LooksAtThem(diagram, rs[i].node), NEW p, IsPath(rs, p, i)
  PROVE  n = m
<1>1. CASE Decides(rs[i].node)
  BY <1>1 DEF Leads
<1>2. CASE diagram.type[rs[i].node] = "linkThrow"
  BY <1>2 DEF Leads
<1>3. CASE ~Decides(rs[i].node) /\ diagram.type[rs[i].node] # "linkThrow"
  BY <1>3 DEF Leads
<1> QED
  BY <1>1, <1>2, <1>3

\* Rows may be added behind the others and a row that is not closed may change: what the
\* closed ones say stays.
Extends(rs, xs) ==
  /\ Len(rs) <= Len(xs)
  /\ \A i \in 1 .. Len(rs) :
       /\ xs[i].node = rs[i].node /\ xs[i].prev = rs[i].prev
       /\ Closed(rs[i]) => Closed(xs[i]) /\ xs[i].left = rs[i].left
  /\ \A i \in 1 .. Len(xs) : xs[i].prev <= Len(rs)

LEMMA PathStays ==
  ASSUME NEW rs, NEW xs, Chained(rs), Chained(xs), Extends(rs, xs), NEW i \in 1 .. Len(rs), Closed(rs[i]),
         NEW p, IsPath(xs, p, i)
  PROVE  IsPath(rs, p, i) /\ Replay(xs, p) = Replay(rs, p)
<1>1. /\ Len(p) \in Nat /\ Len(p) > 0 /\ p \in Seq(1 .. Len(xs)) /\ p # <<>>
      /\ \A k \in 1 .. Len(p) : p[k] \in 1 .. Len(xs)
  BY DEF IsPath
<1>2. Len(rs) \in Nat /\ Len(xs) \in Nat /\ Len(rs) <= Len(xs)
  BY DEF Chained, Extends
<1>3. ASSUME NEW k \in 1 .. Len(p) PROVE p[k] \in 1 .. Len(rs) /\ (k = Len(p) \/ p[k] = xs[p[k + 1]].prev)
  <2>1. CASE k = Len(p)
    BY <2>1 DEF IsPath
  <2>2. CASE k # Len(p)
    <3>1. k \in 1 .. (Len(p) - 1) /\ k + 1 \in 1 .. Len(p)
      BY <1>1, <2>2
    <3>2. p[k] = xs[p[k + 1]].prev /\ p[k + 1] \in 1 .. Len(xs) /\ p[k] \in 1 .. Len(xs)
      BY <1>1, <3>1 DEF IsPath
    <3>3. p[k] <= Len(rs)
      BY <3>2 DEF Extends
    <3> QED
      BY <1>2, <3>2, <3>3
  <2> QED
    BY <2>1, <2>2
<1>4. ASSUME NEW k \in 1 .. (Len(p) - 1) PROVE p[k] = rs[p[k + 1]].prev
  <2>1. k + 1 \in 1 .. Len(p) /\ k \in 1 .. Len(p) /\ k # Len(p)
    BY <1>1
  <2>2. p[k] = xs[p[k + 1]].prev /\ p[k + 1] \in 1 .. Len(rs)
    BY <1>3, <2>1
  <2> QED
    BY <2>2 DEF Extends
<1>5. ASSUME NEW k \in 1 .. Len(p) PROVE Closed(rs[p[k]])
  <2>1. CASE k = Len(p)
    BY <2>1 DEF IsPath
  <2>2. CASE k # Len(p)
    <3>1. k \in 1 .. (Len(p) - 1) /\ k + 1 \in 1 .. Len(p)
      BY <1>1, <2>2
    <3>2. p[k] = rs[p[k + 1]].prev /\ p[k + 1] \in 1 .. Len(rs) /\ p[k] \in 1 .. Len(rs)
      BY <1>3, <1>4, <3>1
    <3>3. rs[p[k + 1]].prev # 0
      BY <1>2, <3>2
    <3> QED
      BY <3>2, <3>3 DEF Chained
  <2> QED
    BY <2>1, <2>2
<1>6. p \in Seq(1 .. Len(rs))
  BY <1>1, <1>3
<1>7. rs[p[1]].prev = 0 /\ p[Len(p)] = i
  <2>1. xs[p[1]].prev = 0 /\ p[Len(p)] = i /\ p[1] \in 1 .. Len(rs)
    BY <1>1, <1>3 DEF IsPath
  <2> QED
    BY <2>1 DEF Extends
<1>8. IsPath(rs, p, i)
  BY <1>1, <1>4, <1>6, <1>7 DEF IsPath
<1>9. \A k \in 1 .. Len(p) : xs[p[k]].node = rs[p[k]].node /\ xs[p[k]].left = rs[p[k]].left
  BY <1>3, <1>5 DEF Extends
<1> QED
  BY <1>8, <1>9 DEF Replay

LEMMA LeadsStays ==
  ASSUME NEW rs, NEW xs, Chained(rs), Chained(xs), Extends(rs, xs), NEW i \in 1 .. Len(rs), Closed(rs[i]),
         NEW n, Leads(rs, i, n)
  PROVE  Leads(xs, i, n)
<1>1. xs[i].node = rs[i].node
  BY DEF Extends
<1>2. \A p : IsPath(xs, p, i) => IsPath(rs, p, i) /\ Replay(xs, p) = Replay(rs, p)
  BY PathStays
<1> QED
  BY <1>1, <1>2 DEF Leads

LEMMA TrailStays ==
  ASSUME NEW rs, NEW xs, Extends(rs, xs), NEW s \in Seq(Steps(Len(rs))), NEW i, IsTrail(rs, s, i)
  PROVE  IsTrail(xs, s, i)
<1>1. \A k \in 1 .. Len(s) : s[k] \in Steps(Len(rs))
  OBVIOUS
<1>2. \A k \in 1 .. Len(s) : s[k].row \in 1 .. Len(rs)
  BY <1>1 DEF Steps
<1> QED
  BY <1>2 DEF IsTrail, Extends

LEMMA TrailAppended ==
  ASSUME NEW rs, NEW s \in Seq(Steps(Len(rs))), NEW m \in 1 .. Len(rs), IsTrail(rs, s, rs[m].prev), Closed(rs[m]),
         NEW v \in Payloads, rs[m].node \in NodesOf(diagram),
         v = rs[m].left \/ diagram.type[rs[m].node] \in ForgetsWhatItSent
  PROVE  IsTrail(rs, Append(s, Result(rs[m].node, m, v)), m)
<1> DEFINE r == Result(rs[m].node, m, v)
           t == Append(s, r)
<1>1. r \in Steps(Len(rs)) /\ r.node = rs[m].node /\ r.row = m /\ r.value = v
  BY DEF Result, Steps
<1> HIDE DEF r
<1>2. Len(t) = Len(s) + 1 /\ Len(s) \in Nat /\ t[Len(s) + 1] = r /\ t # <<>> /\ \A k \in 1 .. Len(s) : t[k] = s[k]
  BY <1>1
<1> HIDE DEF t
<1>3. ASSUME NEW k \in 1 .. Len(t)
      PROVE  /\ Closed(rs[t[k].row])
             /\ t[k].node = rs[t[k].row].node
             /\ t[k].value = rs[t[k].row].left \/ diagram.type[t[k].node] \in ForgetsWhatItSent
             /\ rs[t[k].row].prev = (IF k = 1 THEN 0 ELSE t[k - 1].row)
  <2>1. CASE k = Len(s) + 1
    <3>1. rs[m].prev = (IF k = 1 THEN 0 ELSE t[k - 1].row)
      <4>1. CASE Len(s) = 0
        BY <1>2, <2>1, <4>1 DEF IsTrail
      <4>2. CASE Len(s) # 0
        <5>1. k # 1 /\ k - 1 = Len(s) /\ Len(s) \in 1 .. Len(s) /\ s # <<>>
          BY <1>2, <2>1, <4>2
        <5> QED
          BY <1>2, <5>1 DEF IsTrail
      <4> QED
        BY <4>1, <4>2
    <3> QED
      BY <1>1, <1>2, <2>1, <3>1
  <2>2. CASE k \in 1 .. Len(s)
    <3>1. t[k] = s[k] /\ (k # 1 => t[k - 1] = s[k - 1])
      BY <1>2, <2>2
    <3> QED
      BY <2>2, <3>1 DEF IsTrail
  <2> QED
    BY <1>2, <2>1, <2>2
<1>4. m = (IF t = <<>> THEN 0 ELSE t[Len(t)].row)
  BY <1>1, <1>2
<1>5. IsTrail(rs, t, m)
  BY <1>3, <1>4 DEF IsTrail
<1> QED
  BY <1>5 DEF t, r
\* A link has no sequence flow behind itself.
LinksEnd == \A d \in Diagrams : \A f \in d.flows : d.type[f.source] # "linkThrow"

\* Every row follows a closed one, at a flow node that one leads to.
RowsLinked ==
  \A i \in 1 .. Len(rows) :
    /\ rows[i].state = "running" => rows[i].left = rows[i].entered
    /\ rows[i].state \in {"suspended", "resumed"} => diagram.type[rows[i].node] \in Waits
    /\ rows[i].prev = 0 => rows[i].node = GetSingleStartEvent(diagram)
    /\ rows[i].prev # 0 => Closed(rows[rows[i].prev]) /\ Leads(rows, rows[i].prev, rows[i].node)

\* Where the handler stands, the state of its row, and the results that it has.
Working ==
  at \in {"entered", "waiting", "resumed"} =>
    /\ at = "entered" => rows[mine].state = "running" /\ token = rows[mine].entered
    /\ at = "waiting" => rows[mine].state = "suspended"
    /\ at = "resumed" => rows[mine].state = "resumed"
    /\ IsTrail(rows, results, rows[mine].prev)
Leaving ==
  at \in {"left", "closing"} =>
    /\ Closed(rows[mine])
    /\ onward \notin {None, Failed} => Leads(rows, mine, onward)
    /\ IsTrail(rows, results, mine)
Following ==
  at = "next" =>
    /\ mine = 0 => here = GetSingleStartEvent(diagram)
    /\ mine # 0 => Closed(rows[mine]) /\ Leads(rows, mine, here)
    /\ IsTrail(rows, results, mine)
Standing == Working /\ Leaving /\ Following

IInv == Typed /\ RowsLinked /\ FollowedOnce /\ Standing

LEMMA RowsAreChained ==
  ASSUME Typed, RowsLinked
  PROVE  Chained(rows)
<1>1. Len(rows) \in Nat /\ \A i \in 1 .. Len(rows) : rows[i] \in Rows /\ rows[i].prev < i
  BY DEF Typed, RowsTyped
<1>2. \A i \in 1 .. Len(rows) : rows[i].prev \in Nat
  BY <1>1 DEF Rows
<1> QED
  BY <1>1, <1>2 DEF RowsLinked, Chained

\* A row that is not closed changes, or one that is changes from one such state to another.
LEMMA ChangesLinked ==
  ASSUME Typed, RowsLinked, FollowedOnce, diagram' = diagram,
         NEW m \in 1 .. Len(rows), NEW state \in RowStates, NEW payload, Changes(m, state, payload),
         Closed(rows[m]) => state \in {"finished", "error"} /\ payload = rows[m].left,
         state # "running",
         state \in {"suspended", "resumed"} => diagram.type[rows[m].node] \in Waits
  PROVE  /\ RowsLinked' /\ FollowedOnce'
         /\ Extends(rows, rows') /\ Chained(rows') /\ Len(rows') = Len(rows)
         /\ \A i \in 1 .. Len(rows) : rows'[i].node = rows[i].node /\ rows'[i].prev = rows[i].prev
         /\ rows'[m].state = state /\ rows'[m].left = payload /\ rows'[m].entered = rows[m].entered
<1>1. /\ Len(rows) \in Nat /\ Len(rows') = Len(rows) /\ DOMAIN rows = 1 .. Len(rows) /\ DOMAIN rows' = 1 .. Len(rows)
      /\ \A i \in 1 .. Len(rows) : rows[i] \in Rows /\ rows[i].prev < i
  <2>1. rows \in Seq(Rows) /\ rows' \in Seq(Rows) /\ Len(rows') = Len(rows)
    BY DEF Typed, RowsTyped, Changes
  <2>2. \A i \in 1 .. Len(rows) : rows[i].prev < i
    BY DEF Typed, RowsTyped
  <2> QED
    BY <2>1, <2>2
<1>2. /\ \A i \in 1 .. Len(rows) : rows'[i].node = rows[i].node /\ rows'[i].prev = rows[i].prev
      /\ \A i \in 1 .. Len(rows) : i # m => rows'[i] = rows[i]
      /\ rows'[m].state = state /\ rows'[m].left = payload /\ rows'[m].entered = rows[m].entered
  BY <1>1 DEF Changes, Rows
<1>3. \A i \in 1 .. Len(rows) : Closed(rows[i]) => Closed(rows'[i]) /\ rows'[i].left = rows[i].left
  BY <1>2 DEF Closed
<1>4. \A i \in 1 .. Len(rows) : rows[i].prev \in Nat /\ rows[i].prev <= Len(rows)
  BY <1>1 DEF Rows
<1>5. Extends(rows, rows')
  BY <1>1, <1>2, <1>3, <1>4 DEF Extends
<1>6. Chained(rows)
  BY RowsAreChained
<1>7. ASSUME NEW i \in 1 .. Len(rows), rows[i].prev # 0
      PROVE  rows[i].prev \in 1 .. Len(rows) /\ Closed(rows[rows[i].prev]) /\ Closed(rows'[rows[i].prev])
  <2>1. rows[i].prev \in 1 .. Len(rows)
    BY <1>1, <1>4, <1>7
  <2> QED
    BY <1>3, <1>7, <2>1 DEF RowsLinked
<1>8. Chained(rows')
  BY <1>1, <1>2, <1>4, <1>7 DEF Chained
<1>9. ASSUME NEW i \in 1 .. Len(rows)
      PROVE  /\ rows'[i].state = "running" => rows'[i].left = rows'[i].entered
             /\ rows'[i].state \in {"suspended", "resumed"} => diagram.type[rows'[i].node] \in Waits
             /\ rows'[i].prev = 0 => rows'[i].node = GetSingleStartEvent(diagram)
             /\ rows'[i].prev # 0 => Closed(rows'[rows'[i].prev]) /\ Leads(rows', rows'[i].prev, rows'[i].node)
  <2>1. rows'[i].state = "running" => rows'[i].left = rows'[i].entered
    BY <1>2 DEF RowsLinked
  <2>2. rows'[i].state \in {"suspended", "resumed"} => diagram.type[rows'[i].node] \in Waits
    BY <1>2 DEF RowsLinked
  <2>3. rows'[i].prev = 0 => rows'[i].node = GetSingleStartEvent(diagram)
    BY <1>2 DEF RowsLinked
  <2>4. rows[i].prev # 0 => Leads(rows, rows[i].prev, rows[i].node)
    BY DEF RowsLinked
  <2>5. rows[i].prev # 0 => Leads(rows', rows[i].prev, rows[i].node)
    BY <1>5, <1>6, <1>7, <1>8, <2>4, LeadsStays
  <2> QED
    BY <1>2, <1>7, <2>1, <2>2, <2>3, <2>5
<1>10. RowsLinked'
  BY ZenonT(60), <1>1, <1>9 DEF RowsLinked, Leads, Decides
<1>11. FollowedOnce'
  BY <1>1, <1>2, <1>4, <1>7 DEF FollowedOnce
<1> QED
  BY <1>1, <1>2, <1>5, <1>8, <1>10, <1>11

LEMMA StaysLinked ==
  ASSUME RowsLinked, FollowedOnce, diagram' = diagram, rows' = rows
  PROVE  RowsLinked' /\ FollowedOnce'
BY DEF RowsLinked, FollowedOnce, Leads, Decides

LEMMA NothingStands ==
  ASSUME at' \in {"failed", "stuck", "split", "off", "over"}
  PROVE  Standing'
BY DEF Standing, Working, Leaving, Following

\* Where a handler goes on that does not decide.
LEMMA NextLeads ==
  ASSUME LinksEnd, Typed, NEW rs, NEW i, rs[i].node = here, ~Decides(here), NextBehind \notin {None, Failed}
  PROVE  Leads(rs, i, NextBehind)
<1>1. NextBehind = Behind(diagram, here)
  BY DEF NextBehind, Behind
<1>2. diagram.type[here] # "linkThrow"
  <2>1. SUFFICES ASSUME diagram.type[here] = "linkThrow" PROVE FALSE
    OBVIOUS
  <2>2. GetOutgoingSequenceFlowsFor(diagram, here) = {}
    BY <2>1 DEF LinksEnd, GetOutgoingSequenceFlowsFor, Typed, RowsTyped
  <2>3. ~BranchesWithoutGateway(diagram, here)
    BY <2>2, FS_EmptySet DEF BranchesWithoutGateway
  <2> QED
    BY <2>2, <2>3 DEF NextBehind
<1> QED
  BY <1>1, <1>2 DEF Leads

\* Where an exclusive gateway goes on.
LEMMA DecidedLeads ==
  ASSUME LinksEnd, Typed, NEW rs, Chained(rs), NEW i \in 1 .. Len(rs), rs[i].node = here, Type = "exclusive",
         NEW s \in Seq(Steps(Len(rs))), s # <<>>, IsTrail(rs, s, i), Decided(s) \notin {None, Failed}
  PROVE  Leads(rs, i, Decided(s))
<1>1. CASE GatewayDirection(diagram, here) = "Converging"
  BY <1>1, NextLeads DEF Decided, Decides
<1>2. CASE GatewayDirection(diagram, here) # "Converging"
  <2>1. Decides(here) /\ Decided(s) = DetermineBranchToTake(diagram, here, s)
    BY <1>2 DEF Decided, Decides, Type
  <2>2. diagram.type[here] \notin ForgetsWhatItSent /\ diagram.type[here] # "linkThrow"
    BY DEF Type, ForgetsWhatItSent
  <2>3. ~LooksAtThem(diagram, here) =>
          \A p : IsPath(rs, p, i) => Decided(s) = DetermineBranchToTake(diagram, here, Replay(rs, p))
    BY <2>1, <2>2, TrailDecides
  <2> QED
    BY <2>1, <2>2, <2>3 DEF Leads
<1> QED
  BY <1>1, <1>2
\* The handler is done, or gone, and the rows are as they were, or its own is closed.
LEMMA Stays ==
  ASSUME IInv, Typed', rows' = rows, diagram' = diagram, at' \in {"failed", "stuck", "split", "off", "over"}
  PROVE  IInv'
BY StaysLinked, NothingStands DEF IInv

LEMMA FailsStands ==
  ASSUME IInv, Typed', at \in AtItsRow, diagram' = diagram, NEW state \in {"finished", "error"}, Becomes(state),
         at' \in {"failed", "stuck", "split", "off", "over"}
  PROVE  IInv'
<1>1. mine \in 1 .. Len(rows) /\ RowsTyped
  BY EnteredRow DEF IInv
<1>2. state \in RowStates
  BY DEF RowStates
<1>3. Changes(mine, state, rows[mine].left)
  BY <1>1, <1>2, BecomesChanges
<1>4. RowsLinked' /\ FollowedOnce'
  BY <1>1, <1>2, <1>3, ChangesLinked DEF IInv
<1> QED
  BY <1>4, NothingStands DEF IInv

\* A handler stores its result, and closes its row.
LEMMA ExitsStands ==
  ASSUME IInv, Typed', at \in {"entered", "resumed"}, UNCHANGED KeptByEvents,
         NEW result \in Payloads, NEW payload \in Payloads, Exits(result, payload),
         result = payload \/ Type \in ForgetsWhatItSent,
         onward' \notin {None, Failed} =>
           (Closed(rows'[mine]) /\ rows'[mine].node = here => Leads(rows', mine, onward'))
  PROVE  IInv'
<1>1. /\ mine \in 1 .. Len(rows) /\ rows[mine].node = here /\ RowsTyped /\ ResultsTyped
      /\ diagram' = diagram /\ mine' = mine /\ here \in NodesOf(diagram)
  BY EnteredRow DEF IInv, AtItsRow, KeptByEvents, Typed, HandlerTyped
<1>2. Changes(mine, "finished", payload)
  BY <1>1, ReplacedChanges DEF Exits, RowStates
<1>3. ~Closed(rows[mine]) /\ IsTrail(rows, results, rows[mine].prev)
  BY DEF IInv, Standing, Working, Closed
<1>4. /\ RowsLinked' /\ FollowedOnce' /\ Extends(rows, rows') /\ Len(rows') = Len(rows)
      /\ rows'[mine].node = here /\ rows'[mine].prev = rows[mine].prev
      /\ rows'[mine].state = "finished" /\ rows'[mine].left = payload
  BY <1>1, <1>2, <1>3, ChangesLinked DEF IInv, RowStates
<1>5. IsTrail(rows', results, rows'[mine].prev) /\ results \in Seq(Steps(Len(rows')))
  BY <1>1, <1>3, <1>4, TrailStays DEF ResultsTyped
<1>6. IsTrail(rows', Append(results, Result(here, mine, result)), mine)
  <2>1. Closed(rows'[mine]) /\ mine \in 1 .. Len(rows')
    BY <1>1, <1>4 DEF Closed
  <2>2. result = rows'[mine].left \/ diagram.type[rows'[mine].node] \in ForgetsWhatItSent
    BY <1>4 DEF Type
  <2> QED
    BY <1>1, <1>4, <1>5, <2>1, <2>2, TrailAppended
<1>7. results' = Append(results, Result(here, mine, result)) /\ at' = "left"
  BY DEF Exits, Goes
<1>8. Closed(rows'[mine])
  BY <1>4 DEF Closed
<1>9. Standing'
  BY <1>1, <1>4, <1>6, <1>7, <1>8 DEF Standing, Working, Leaving, Following, Leads, IsTrail, Decides
<1> QED
  BY <1>4, <1>9 DEF IInv

\* A handler takes its flow node up to where it waits or has its answer.
LEMMA WaitsStands ==
  ASSUME IInv, Typed', at \in {"entered", "waiting"}, UNCHANGED KeptByEvents, results' = results,
         Type \in Waits, NEW state, NEW payload, Changes(mine, state, payload),
         \/ at' = "waiting" /\ state = "suspended"
         \/ at' = "resumed" /\ state = "resumed"
  PROVE  IInv'
<1>1. /\ mine \in 1 .. Len(rows) /\ rows[mine].node = here /\ RowsTyped /\ ResultsTyped
      /\ diagram' = diagram /\ mine' = mine /\ here \in NodesOf(diagram)
  BY EnteredRow DEF IInv, AtItsRow, KeptByEvents, Typed, HandlerTyped
<1>2. ~Closed(rows[mine]) /\ IsTrail(rows, results, rows[mine].prev)
  BY DEF IInv, Standing, Working, Closed
<1>3. state \in RowStates /\ state # "running" /\ diagram.type[rows[mine].node] \in Waits
  BY <1>1 DEF RowStates, Type
<1>4. /\ RowsLinked' /\ FollowedOnce' /\ Extends(rows, rows') /\ Len(rows') = Len(rows)
      /\ rows'[mine].prev = rows[mine].prev /\ rows'[mine].state = state
  BY <1>1, <1>2, <1>3, ChangesLinked DEF IInv
<1>5. IsTrail(rows', results, rows'[mine].prev)
  BY <1>1, <1>2, <1>4, TrailStays DEF ResultsTyped
<1>6. Standing'
  BY <1>1, <1>4, <1>5 DEF Standing, Working, Leaving, Following, IsTrail
<1> QED
  BY <1>4, <1>6 DEF IInv
LEMMA EventsStand ==
  ASSUME LinksEnd, IInv, Typed', Events
  PROVE  IInv'
<1>1. token \in Payloads /\ Empty \in Payloads /\ Typed
  BY PayloadTypes DEF IInv, Typed, HandlerTyped
<1>2. CASE StartEvent \/ EmptyEvent \/ LinkCatchEvent
  <2>1. /\ at = "entered" /\ Type \in {"start", "empty", "linkCatch"} /\ UNCHANGED KeptByEvents
        /\ \/ Exits(token, token)
           \/ Type = "linkCatch" /\ Exits(Empty, token)
        /\ onward' = NextBehind
    BY <1>2 DEF StartEvent, EmptyEvent, LinkCatchEvent, Entered
  <2>2. ~Decides(here)
    BY <2>1 DEF Decides, Type
  <2>3. onward' \notin {None, Failed} => (rows'[mine].node = here => Leads(rows', mine, onward'))
    BY <1>1, <2>1, <2>2, NextLeads
  <2> QED
    BY <1>1, <2>1, <2>3, ExitsStands DEF ForgetsWhatItSent
<1>3. CASE FinishWait
  <2>1. at = "resumed" /\ Exits(token, token) /\ onward' = NextBehind /\ UNCHANGED KeptByEvents
    BY <1>3 DEF FinishWait
  <2>2. Type \in Waits
    <3>1. mine \in 1 .. Len(rows) /\ rows[mine].node = here /\ rows[mine].state = "resumed"
      BY <1>1, <2>1, EnteredRow DEF AtItsRow, IInv, Standing, Working
    <3> QED
      BY <3>1 DEF IInv, RowsLinked, Type
  <2>3. ~Decides(here)
    BY <2>2 DEF Decides, Type, Waits
  <2>4. onward' \notin {None, Failed} => (rows'[mine].node = here => Leads(rows', mine, onward'))
    BY <1>1, <2>1, <2>3, NextLeads
  <2> QED
    BY <1>1, <2>1, <2>4, ExitsStands
<1>4. CASE EndEvent
  BY <1>1, <1>4, ExitsStands DEF EndEvent, Entered
<1>5. CASE LinkThrowEvent
  <2>1. at = "entered" /\ Type = "linkThrow" /\ UNCHANGED KeptByEvents
    BY <1>5 DEF LinkThrowEvent, Entered
  <2>2. CASE Exits(Empty, token) /\ \E n \in MatchingCatchEvents : MatchingCatchEvents = {n} /\ onward' = n
    <3>1. rows'[mine].node = here => Leads(rows', mine, onward')
      BY <2>1, <2>2 DEF Leads, MatchingCatchEvents, Type, Decides
    <3> QED
      BY <1>1, <2>1, <2>2, <3>1, ExitsStands DEF ForgetsWhatItSent
  <2>3. CASE Becomes("error") /\ Fails
    BY <2>1, <2>3, FailsStands DEF Fails, AtItsRow, KeptByEvents
  <2> QED
    BY <1>5, <2>2, <2>3 DEF LinkThrowEvent
<1>6. CASE MessageThrowEvent \/ SignalThrowEvent
  <2>1. at = "entered" /\ Type \in {"messageThrow", "signalThrow"} /\ UNCHANGED KeptByEvents /\ Throws
    BY <1>6 DEF MessageThrowEvent, SignalThrowEvent, Entered
  <2>2. CASE Exits(Empty, SentPayload) /\ onward' = NextBehind
    <3>1. SentPayload \in Payloads
      BY <1>1, PayloadTypes DEF SentPayload
    <3>2. ~Decides(here)
      BY <2>1 DEF Decides, Type
    <3>3. onward' \notin {None, Failed} => (rows'[mine].node = here => Leads(rows', mine, onward'))
      BY <1>1, <2>2, <3>2, NextLeads
    <3> QED
      BY <1>1, <2>1, <2>2, <3>1, <3>3, ExitsStands DEF ForgetsWhatItSent
  <2>3. CASE Becomes("error") /\ Fails
    BY <2>1, <2>3, FailsStands DEF Fails, AtItsRow, KeptByEvents
  <2> QED
    BY <2>1, <2>2, <2>3 DEF Throws
<1>7. CASE MessageCatchEvent \/ SignalCatchEvent \/ TimerCatchEvent \/ TimerStartEvent \/ UserTask
  <2>1. /\ at = "entered" /\ Type \in Waits /\ UNCHANGED KeptByEvents /\ results' = results
        /\ at' = "waiting" /\ Becomes("suspended")
    BY <1>7 DEF MessageCatchEvent, SignalCatchEvent, TimerCatchEvent, TimerStartEvent, UserTask, Entered, Waits,
                Suspends
  <2>2. Changes(mine, "suspended", rows[mine].left)
    BY <1>1, <2>1, EnteredRow, BecomesChanges DEF AtItsRow, RowStates
  <2> QED
    BY <2>1, <2>2, WaitsStands
<1>8. CASE TimerIsInvalid
  BY <1>8, FailsStands DEF TimerIsInvalid, Waiting, Fails, AtItsRow, KeptByEvents
<1> QED
  BY <1>2, <1>3, <1>4, <1>5, <1>6, <1>7, <1>8 DEF Events

LEMMA OutsideStands ==
  ASSUME IInv, Typed', Outside
  PROVE  IInv'
<1>1. token \in Payloads /\ Typed
  BY DEF IInv, Typed, HandlerTyped
<1>2. PICK payload \in Payloads : Resumes(payload)
  BY <1>1, PayloadTypes
     DEF Outside, MessageArrives, SignalArrives, TaskIsAnswered, TimerElapses, TimerStartElapses
<1>3. at = "waiting" /\ Type \in Waits
  BY DEF Outside, MessageArrives, SignalArrives, TaskIsAnswered, TimerElapses, TimerStartElapses, Waiting, Waits
<1>4. Changes(mine, "resumed", payload)
  BY <1>1, <1>2, <1>3, EnteredRow, ReplacedChanges DEF Resumes, RowStates, AtItsRow
<1> QED
  BY <1>2, <1>3, <1>4, WaitsStands DEF Resumes

LEMMA TasksStand ==
  ASSUME LinksEnd, IInv, Typed', ScriptTask \/ ServiceTask
  PROVE  IInv'
<1>1. at = "entered" /\ Type \in {"scriptTask", "serviceTask"} /\ UNCHANGED KeptByEvents /\ Typed
  BY DEF ScriptTask, ServiceTask, Entered, IInv
<1>2. CASE \E result \in Answers \cup {Empty} : Returns(result)
  <2>1. PICK result \in Payloads : Exits(result, result) /\ onward' = NextBehind
    BY <1>2, PayloadTypes DEF Returns
  <2>2. ~Decides(here)
    BY <1>1 DEF Decides, Type
  <2>3. onward' \notin {None, Failed} => (rows'[mine].node = here => Leads(rows', mine, onward'))
    BY <1>1, <2>1, <2>2, NextLeads
  <2> QED
    BY <1>1, <2>1, <2>3, ExitsStands
<1>3. CASE Throwing
  BY <1>1, <1>3, FailsStands DEF Throwing, Fails, AtItsRow, KeptByEvents
<1>4. CASE NeverSettles
  BY <1>1, <1>4, Stays DEF NeverSettles, KeptByEvents
<1> QED
  BY <1>2, <1>3, <1>4 DEF ScriptTask, ServiceTask, Returns

LEMMA GatewaysStand ==
  ASSUME LinksEnd, IInv, Typed', ExclusiveGateway \/ ParallelSplitGateway
  PROVE  IInv'
<1>1. at = "entered" /\ at \in AtItsRow /\ Typed
  BY DEF ExclusiveGateway, ParallelSplitGateway, Entered, AtItsRow, IInv
<1>2. /\ mine \in 1 .. Len(rows) /\ rows[mine].node = here /\ RowsTyped /\ ResultsTyped
      /\ here \in NodesOf(diagram) /\ token \in Payloads
  BY <1>1, EnteredRow DEF Typed, HandlerTyped
<1>3. CASE ExclusiveGateway
  <2> DEFINE seen == Append(results, Result(here, mine, token))
  <2>1. /\ results' = seen /\ onward' = Decided(seen) /\ UNCHANGED KeptByEvents /\ Type = "exclusive"
        /\ \/ Decided(seen) = Failed /\ Becomes("error") /\ Fails
           \/ Decided(seen) # Failed /\ Becomes("finished") /\ Goes
    BY <1>3 DEF ExclusiveGateway, Entered
  <2>2. diagram' = diagram /\ mine' = mine /\ here' = here
    BY <2>1 DEF KeptByEvents
  <2>3. CASE Becomes("error") /\ Fails
    BY <1>1, <2>2, <2>3, FailsStands DEF Fails
  <2>4. CASE Becomes("finished") /\ Goes
    <3>1. /\ ~Closed(rows[mine]) /\ IsTrail(rows, results, rows[mine].prev)
          /\ token = rows[mine].entered /\ rows[mine].left = rows[mine].entered
      BY <1>1, <1>2 DEF IInv, Standing, Working, Closed, RowsLinked
    <3>2. Changes(mine, "finished", rows[mine].left)
      BY <1>2, <2>4, BecomesChanges DEF RowStates
    <3>3. /\ RowsLinked' /\ FollowedOnce' /\ Extends(rows, rows') /\ Chained(rows') /\ Len(rows') = Len(rows)
          /\ rows'[mine].node = here /\ rows'[mine].prev = rows[mine].prev
          /\ rows'[mine].state = "finished" /\ rows'[mine].left = rows[mine].left
      BY <1>2, <2>2, <3>1, <3>2, ChangesLinked DEF IInv, RowStates
    <3>4. IsTrail(rows', results, rows'[mine].prev) /\ results \in Seq(Steps(Len(rows')))
      BY <1>2, <3>1, <3>3, TrailStays DEF ResultsTyped
    <3>5. Closed(rows'[mine]) /\ mine \in 1 .. Len(rows')
      BY <1>2, <3>3 DEF Closed
    <3>6. IsTrail(rows', seen, mine)
      BY <1>2, <3>1, <3>3, <3>4, <3>5, TrailAppended
    <3>7. seen \in Seq(Steps(Len(rows'))) /\ seen # <<>>
      <4>1. Result(here, mine, token) \in Steps(Len(rows'))
        BY <1>2, <3>5 DEF Result, Steps
      <4> QED
        BY <3>4, <4>1
    <3> HIDE DEF seen
    <3>8. Decided(seen) \notin {None, Failed} => Leads(rows', mine, Decided(seen))
      BY <1>1, <2>1, <3>3, <3>5, <3>6, <3>7, DecidedLeads
    <3>9. Standing'
      BY <2>1, <2>2, <2>4, <3>5, <3>6, <3>8
         DEF Goes, Standing, Working, Leaving, Following, Leads, IsTrail, Decides
    <3> QED
      BY <3>3, <3>9 DEF IInv
  <2> QED
    BY <2>1, <2>3, <2>4
<1>4. CASE ParallelSplitGateway
  <2>1. /\ diagram' = diagram
        /\ \/ at' = "failed" /\ rows' = rows
           \/ at' = "split" /\ Becomes("finished")
    BY <1>4 DEF ParallelSplitGateway, Fails
  <2> QED
    BY <1>1, <2>1, Stays, FailsStands
<1> QED
  BY <1>3, <1>4
\* A flow node that is executed has no row behind the same row yet, neither of its own nor,
\* where there is one way on, of another flow node.
LEMMA ExecuteStands ==
  ASSUME IInv, Typed', Execute
  PROVE  IInv'
<1>1. /\ Typed /\ Len(rows) \in Nat /\ DOMAIN rows = 1 .. Len(rows) /\ rows \in Seq(Rows) /\ ResultsTyped
      /\ at = "next" /\ NextInstances = {} /\ mine \in 0 .. Len(rows) /\ diagram' = diagram
      /\ here \in NodesOf(diagram) /\ token \in Payloads
  BY DEF IInv, Typed, RowsTyped, HandlerTyped, Execute
<1>2. CASE ~Supported
  BY <1>2, Stays DEF Execute, Fails
<1>3. CASE Supported
  <2> DEFINE r == [node |-> here, prev |-> mine, state |-> "running", entered |-> token, left |-> token]
             new == Len(rows) + 1
  <2>1. /\ rows' = Append(rows, r) /\ mine' = new /\ at' = "entered"
        /\ results' = results /\ here' = here /\ token' = token
    BY <1>3 DEF Execute
  <2>2. r \in Rows /\ r.prev <= Len(rows)
    BY <1>1 DEF Rows, RowStates
  <2>3. /\ r.node = here /\ r.prev = mine /\ r.state = "running" /\ r.entered = token /\ r.left = token
        /\ ~Closed(r)
    BY DEF Closed
  <2> HIDE DEF r
  <2>4. /\ Len(rows') = Len(rows) + 1 /\ rows'[new] = r /\ \A i \in 1 .. Len(rows) : rows'[i] = rows[i]
    BY <1>1, <2>1, <2>2, NewRow
  <2>5. DOMAIN rows' = 1 .. new /\ new \in 1 .. new /\ new \notin 1 .. Len(rows)
        /\ \A i \in 1 .. new : i = new \/ i \in 1 .. Len(rows)
    <3>1. rows' \in Seq(Rows)
      BY <1>1, <2>1, <2>2
    <3> QED
      BY <1>1, <2>4, <3>1
  <2> HIDE DEF new
  <2>6. Chained(rows)
    BY <1>1, RowsAreChained DEF IInv
  <2>7. \A i \in 1 .. Len(rows) : rows[i].prev \in Nat /\ rows[i].prev < i
    BY <2>6 DEF Chained
  <2>8. ASSUME NEW i \in 1 .. Len(rows), rows[i].prev # 0
        PROVE  /\ rows[i].prev \in 1 .. Len(rows) /\ Closed(rows[rows[i].prev])
               /\ Leads(rows, rows[i].prev, rows[i].node)
    BY <1>1, <2>7, <2>8 DEF IInv, RowsLinked
  <2>9. /\ mine = 0 => here = GetSingleStartEvent(diagram)
        /\ mine # 0 => mine \in 1 .. Len(rows) /\ Closed(rows[mine]) /\ Leads(rows, mine, here)
        /\ IsTrail(rows, results, mine)
    BY <1>1 DEF IInv, Standing, Following
  <2>10. Extends(rows, rows')
    BY <1>1, <2>3, <2>4, <2>5, <2>7 DEF Extends
  <2>11. Chained(rows')
    <3>1. ASSUME NEW i \in 1 .. new
          PROVE  /\ rows'[i].prev \in Nat /\ rows'[i].prev < i
                 /\ rows'[i].prev # 0 => Closed(rows'[rows'[i].prev])
      <4>1. CASE i = new
        BY <1>1, <2>3, <2>4, <2>9, <4>1 DEF new
      <4>2. CASE i \in 1 .. Len(rows)
        BY <2>4, <2>7, <2>8, <4>2
      <4> QED
        BY <2>5, <4>1, <4>2
    <3> QED
      BY <1>1, <2>4, <3>1 DEF Chained, new
  <2>12. \A i \in 1 .. Len(rows) : \A n : Closed(rows[i]) /\ Leads(rows, i, n) => Leads(rows', i, n)
    BY <2>6, <2>10, <2>11, LeadsStays
  <2>13. RowsLinked'
    <3>1. ASSUME NEW i \in 1 .. new
          PROVE  /\ rows'[i].state = "running" => rows'[i].left = rows'[i].entered
                 /\ rows'[i].state \in {"suspended", "resumed"} => diagram.type[rows'[i].node] \in Waits
                 /\ rows'[i].prev = 0 => rows'[i].node = GetSingleStartEvent(diagram)
                 /\ rows'[i].prev # 0 =>
                      Closed(rows'[rows'[i].prev]) /\ Leads(rows', rows'[i].prev, rows'[i].node)
      <4>1. CASE i = new
        BY <2>3, <2>4, <2>9, <2>12, <4>1
      <4>2. CASE i \in 1 .. Len(rows)
        BY <2>4, <2>8, <2>12, <4>2 DEF IInv, RowsLinked
      <4> QED
        BY <2>5, <4>1, <4>2
    <3>2. Len(rows') = new
      BY <2>4 DEF new
    <3> QED
      BY <1>1, <3>1, <3>2 DEF RowsLinked, Leads, Decides
  <2>14. ASSUME NEW j \in 1 .. Len(rows), rows[j].prev = mine
         PROVE  mine # 0 /\ LooksAtThem(diagram, rows[mine].node)
    <3>1. rows[j].node # here
      BY <1>1, <2>14 DEF NextInstances
    <3>2. mine # 0
      BY <2>9, <2>14, <3>1 DEF IInv, RowsLinked
    <3>3. results # <<>> /\ results \in Seq(Steps(Len(rows)))
      BY <1>1, <2>9, <3>2 DEF IsTrail, ResultsTyped
    <3>4. \E p : IsPath(rows, p, mine)
      BY <2>6, <2>9, <3>3, TrailPath
    <3>5. Leads(rows, mine, rows[j].node)
      BY <2>8, <2>14, <3>2
    <3> QED
      BY <2>9, <3>1, <3>2, <3>4, <3>5, LeadsToOne
  <2>15. FollowedOnce'
    <3>1. ASSUME NEW i \in 1 .. new, NEW j \in 1 .. new, i # j, rows'[i].prev = rows'[j].prev
          PROVE  rows'[i].prev # 0 /\ LooksAtThem(diagram, rows'[rows'[i].prev].node)
      <4>1. CASE i \in 1 .. Len(rows) /\ j \in 1 .. Len(rows)
        <5>1. rows[i].prev # 0 /\ LooksAtThem(diagram, rows[rows[i].prev].node)
          BY <1>1, <2>4, <3>1, <4>1 DEF IInv, FollowedOnce
        <5> QED
          BY <2>4, <2>8, <4>1, <5>1
      <4>2. CASE i = new /\ j \in 1 .. Len(rows)
        BY <2>3, <2>4, <2>9, <2>14, <3>1, <4>2
      <4>3. CASE j = new /\ i \in 1 .. Len(rows)
        BY <2>3, <2>4, <2>9, <2>14, <3>1, <4>3
      <4> QED
        BY <2>5, <3>1, <4>1, <4>2, <4>3
    <3> QED
      BY <1>1, <2>5, <3>1 DEF FollowedOnce
  <2>16. IsTrail(rows', results, mine)
    BY <1>1, <2>9, <2>10, TrailStays DEF ResultsTyped
  <2>17. Standing'
    BY <1>1, <2>1, <2>3, <2>4, <2>16 DEF Standing, Working, Leaving, Following, IsTrail
  <2> QED
    BY <2>13, <2>15, <2>17 DEF IInv
<1> QED
  BY <1>2, <1>3

LEMMA HandlingStands ==
  ASSUME IInv, Typed', Handling
  PROVE  IInv'
<1>1. CASE Execute
  BY <1>1, ExecuteStands
<1>2. CASE HandleNextFlowNode
  <2>1. /\ at \in {"left", "closing"} /\ onward \notin {None, Failed} /\ at' = "next" /\ here' = onward
        /\ diagram' = diagram /\ rows' = rows /\ mine' = mine /\ results' = results
    BY <1>2 DEF HandleNextFlowNode, dbVars
  <2>2. /\ Closed(rows[mine]) /\ Leads(rows, mine, onward) /\ IsTrail(rows, results, mine)
        /\ mine \in 1 .. Len(rows)
    BY <2>1 DEF IInv, Standing, Leaving, Typed, Placed, AtItsRow
  <2>3. mine # 0
    BY <2>2 DEF IInv, Typed, RowsTyped
  <2>4. Standing'
    BY <2>1, <2>2, <2>3 DEF Standing, Working, Leaving, Following, Leads, IsTrail, Decides
  <2> QED
    BY <2>1, <2>4, StaysLinked DEF IInv
<1>3. CASE Resolve \/ Reject
  BY <1>3, Stays DEF Resolve, Reject
<1>4. CASE NextIsUnclear
  <2>1. /\ at \in AtItsRow /\ diagram' = diagram /\ at' \in {"stuck", "failed"}
        /\ Becomes("error") \/ UNCHANGED rows
    BY <1>4 DEF NextIsUnclear, Fails, AtItsRow
  <2> QED
    BY <2>1, Stays, FailsStands
<1> QED
  BY <1>1, <1>2, <1>3, <1>4 DEF Handling

LEMMA ResumptionStands ==
  ASSUME LinksEnd, IInv, Typed', Resumption
  PROVE  IInv'
<1>1. Typed /\ ResultsTyped /\ RowsTyped /\ Chained(rows)
  BY RowsAreChained DEF IInv, Typed
<1>2. CASE ResumeProcessInstance
  <2>1. /\ at' \in {"over", "next"} /\ here' = GetSingleStartEvent(diagram) /\ mine' = 0 /\ results' = <<>>
        /\ diagram' = diagram /\ rows' = rows
    BY <1>2 DEF ResumeProcessInstance
  <2>2. Standing'
    BY <2>1 DEF Standing, Working, Leaving, Following, IsTrail
  <2> QED
    BY <2>1, <2>2, StaysLinked DEF IInv
<1>3. CASE ContinueAfterEnter \/ ContinueAfterSuspend
  <2>1. /\ at = "next" /\ rows[mine'].prev = mine
        /\ rows' = rows /\ results' = results /\ diagram' = diagram
        /\ \/ at' = "entered" /\ rows[mine'].state = "running" /\ token' = rows[mine'].entered
           \/ at' = "waiting" /\ rows[mine'].state = "suspended"
    BY <1>1, <1>3, FoundRow DEF ContinueAfterEnter, ContinueAfterSuspend, KeptByResume
  <2>2. IsTrail(rows, results, mine)
    BY <2>1 DEF IInv, Standing, Following
  <2>3. Standing'
    BY <2>1, <2>2 DEF Standing, Working, Leaving, Following, IsTrail
  <2> QED
    BY <2>1, <2>3, StaysLinked DEF IInv
<1>4. CASE ContinueAfterResume
  <2> DEFINE seen == Append(results, Result(here, mine', rows[mine'].left))
  <2>1. /\ at = "next" /\ mine' \in 1 .. Len(rows) /\ rows[mine'].node = here /\ rows[mine'].prev = mine
        /\ rows[mine'].state = "resumed" /\ rows[mine'] \in Rows
    BY <1>1, <1>4, FoundRow DEF ContinueAfterResume
  <2>2. /\ at' = "closing" /\ results' = seen /\ rows' = [rows EXCEPT ![mine'].state = "finished"]
        /\ onward' = NextBehind /\ diagram' = diagram /\ here' = here
    BY <1>4 DEF ContinueAfterResume, KeptByResume
  <2>3. /\ rows[mine'].left \in Payloads
       /\ rows' = [rows EXCEPT ![mine'].state = "finished", ![mine'].left = rows[mine'].left]
    BY <1>1, <2>1, <2>2 DEF RowsTyped, Rows
  <2>4. Changes(mine', "finished", rows[mine'].left)
    BY <1>1, <2>1, <2>3, ReplacedChanges DEF RowStates
  <2>5. ~Closed(rows[mine']) /\ IsTrail(rows, results, mine) /\ Type \in Waits
    BY <2>1 DEF Closed, IInv, Standing, Following, RowsLinked, Type
  <2>6. /\ RowsLinked' /\ FollowedOnce' /\ Extends(rows, rows') /\ Len(rows') = Len(rows)
        /\ rows'[mine'].node = here /\ rows'[mine'].prev = mine
        /\ rows'[mine'].state = "finished" /\ rows'[mine'].left = rows[mine'].left
    BY <2>1, <2>2, <2>4, <2>5, ChangesLinked DEF IInv, RowStates
  <2>7. Closed(rows'[mine']) /\ mine' \in 1 .. Len(rows') /\ here \in NodesOf(diagram)
    BY <1>1, <2>1, <2>6 DEF Closed, Typed, HandlerTyped
  <2>8. IsTrail(rows', results, mine) /\ results \in Seq(Steps(Len(rows')))
    BY <1>1, <2>5, <2>6, TrailStays DEF ResultsTyped
  <2>9. IsTrail(rows', seen, mine')
    BY <2>3, <2>6, <2>7, <2>8, TrailAppended
  <2>10. ~Decides(here)
    BY <2>5 DEF Decides, Type, Waits
  <2>11. onward' \notin {None, Failed} => Leads(rows', mine', onward')
    BY <1>1, <2>2, <2>6, <2>10, NextLeads
  <2> HIDE DEF seen
  <2>12. Standing'
    BY <2>2, <2>7, <2>9, <2>11 DEF Standing, Working, Leaving, Following, Leads, IsTrail, Decides
  <2> QED
    BY <2>6, <2>12 DEF IInv
<1>5. CASE ContinueAfterExit
  <2> DEFINE seen == Append(results, Result(here, mine', rows[mine'].left))
             decided == IF Type = "exclusive" THEN Decided(seen) ELSE NextBehind
  <2>1. /\ at = "next" /\ mine' \in 1 .. Len(rows) /\ rows[mine'].node = here /\ rows[mine'].prev = mine
        /\ rows[mine'].state = "finished" /\ rows[mine'] \in Rows
    BY <1>1, <1>5, FoundRow DEF ContinueAfterExit
  <2>2. /\ results' = seen /\ onward' = decided /\ diagram' = diagram /\ here' = here
        /\ \/ at' = "failed" /\ rows' = [rows EXCEPT ![mine'].state = "error"]
           \/ at' = "failed" /\ rows' = rows
           \/ at' = "closing" /\ rows' = rows
    BY <1>5 DEF ContinueAfterExit, RestoredResult, KeptByResume, Fails
  <2>3. CASE at' = "failed" /\ rows' = rows
    BY <2>2, <2>3, Stays
  <2>4. CASE at' = "failed" /\ rows' = [rows EXCEPT ![mine'].state = "error"]
    <3>1. /\ rows[mine'].left \in Payloads
         /\ rows' = [rows EXCEPT ![mine'].state = "error", ![mine'].left = rows[mine'].left]
      BY <1>1, <2>1, <2>4 DEF RowsTyped, Rows
    <3>2. Changes(mine', "error", rows[mine'].left)
      BY <1>1, <2>1, <3>1, ReplacedChanges DEF RowStates
    <3>3. RowsLinked' /\ FollowedOnce'
      BY <2>1, <2>2, <3>2, ChangesLinked DEF IInv, RowStates
    <3> QED
      BY <2>4, <3>3, NothingStands DEF IInv
  <2>5. CASE at' = "closing" /\ rows' = rows
    <3>1. /\ Closed(rows[mine']) /\ IsTrail(rows, results, mine) /\ rows[mine'].left \in Payloads
          /\ here \in NodesOf(diagram)
      BY <1>1, <2>1 DEF Closed, IInv, Standing, Following, Rows, Typed, HandlerTyped
    <3>2. IsTrail(rows, seen, mine')
      BY <1>1, <2>1, <3>1, TrailAppended DEF ResultsTyped
    <3>3. seen \in Seq(Steps(Len(rows))) /\ seen # <<>>
      <4>1. Result(here, mine', rows[mine'].left) \in Steps(Len(rows))
        BY <2>1, <3>1 DEF Result, Steps
      <4> QED
        BY <1>1, <4>1 DEF ResultsTyped
    <3> HIDE DEF seen
    <3>4. decided \notin {None, Failed} => Leads(rows, mine', decided)
      <4>1. CASE Type = "exclusive"
        BY <1>1, <2>1, <3>2, <3>3, <4>1, DecidedLeads
      <4>2. CASE Type # "exclusive"
        <5>1. ~Decides(here)
          BY <4>2 DEF Decides, Type
        <5> QED
          BY <1>1, <2>1, <4>2, <5>1, NextLeads
      <4> QED
        BY <4>1, <4>2
    <3>5. Standing'
      BY <2>2, <2>5, <3>1, <3>2, <3>4 DEF Standing, Working, Leaving, Following, Leads, IsTrail, Decides
    <3> QED
      BY <2>2, <2>5, <3>5, StaysLinked DEF IInv
  <2> QED
    BY <2>2, <2>3, <2>4, <2>5
<1>6. CASE CannotResume
  BY <1>6, Stays DEF CannotResume, KeptByResume, Fails
<1> QED
  BY <1>2, <1>3, <1>4, <1>5, <1>6 DEF Resumption

LEMMA InitStands ==
  ASSUME Init
  PROVE  IInv
<1>1. rows = <<>> /\ results = <<>> /\ Len(rows) = 0 /\ DOMAIN rows = {}
  BY DEF Init
<1>2. RowsLinked /\ FollowedOnce
  BY <1>1 DEF RowsLinked, FollowedOnce
<1>3. Standing
  BY <1>1 DEF Init, Standing, Working, Leaving, Following, IsTrail
<1> QED
  BY <1>2, <1>3, InitTyped DEF IInv

LEMMA StepStands ==
  ASSUME LinksEnd, IInv, [Next]_vars
  PROVE  IInv'
<1>1. Typed'
  BY StepTyped DEF IInv
<1>2. CASE Stop
  BY <1>1, <1>2, Stays DEF Stop, dbVars
<1>3. CASE UNCHANGED vars
  <2>1. Standing'
    BY <1>3 DEF vars, dbVars, handlerVars, IInv, Standing, Working, Leaving, Following, Leads, IsTrail, Decides
  <2> QED
    BY <1>1, <1>3, <2>1, StaysLinked DEF IInv, vars, dbVars
<1> QED
  BY <1>1, <1>2, <1>3, EventsStand, TasksStand, GatewaysStand, HandlingStands, ResumptionStands, OutsideStands
     DEF Next, System

\* Wherever and however often the runtime is stopped, no flow node instance is followed
\* twice: what is retraced takes the branch that was taken, and nothing that was executed
\* is executed again, unless an exclusive gateway looks at the result of a throw event or
\* a link.  For every diagram, with loops too, in which link events are not followed by a
\* sequence flow.
THEOREM NothingFollowedTwice ==
  ASSUME LinksEnd
  PROVE  Spec => []FollowedOnce
<1>1. Init => IInv
  BY InitStands
<1>2. IInv /\ [Next]_vars => IInv'
  BY StepStands
<1>3. IInv => FollowedOnce
  BY DEF IInv
<1> QED
  BY <1>1, <1>2, <1>3, PTL DEF Spec

-----------------------------------------------------------------------------
(* Where a handler leaves its flow node                                    *)

\* An end event has no sequence flow behind itself.
EndsEnd == \A d \in Diagrams : \A f \in d.flows : d.type[f.source] # "end"

\* What it means that a handler goes on nowhere, or cannot.
GoesOn(next) ==
  /\ next = Failed => BranchesWithoutGateway(diagram, here)
  /\ next = None => GetOutgoingSequenceFlowsFor(diagram, here) = {}

LEMMA NextBehindGoesOn ==
  ASSUME Typed
  PROVE  GoesOn(NextBehind)
<1>1. IsDiagram(diagram)
  BY DiagramsAssumption DEF Typed, RowsTyped, IsDiagram
<1>2. GetOutgoingSequenceFlowsFor(diagram, here) \in SUBSET diagram.flows
  BY DEF GetOutgoingSequenceFlowsFor
<1>3. GetOutgoingSequenceFlowsFor(diagram, here) # {} =>
        FirstTarget(GetOutgoingSequenceFlowsFor(diagram, here)) \notin {None, Failed}
  BY <1>1, <1>2, FirstTargetIsNode DEF IsDiagram
<1> QED
  BY <1>3 DEF GoesOn, NextBehind, None, Failed

\* A gateway decides for a flow node, or fails; one that joins branches is no other.
LEMMA DecidedGoesOn ==
  ASSUME Typed, NEW seen, Decided(seen) # Failed
  PROVE  GoesOn(Decided(seen))
<1>1. IsDiagram(diagram)
  BY DiagramsAssumption DEF Typed, RowsTyped, IsDiagram
<1>2. CASE GatewayDirection(diagram, here) = "Converging"
  BY <1>2, NextBehindGoesOn DEF Decided
<1>3. CASE GatewayDirection(diagram, here) # "Converging"
  <2>1. Decided(seen) \in NodesOf(diagram)
    BY <1>1, <1>3, DecisionType DEF Decided
  <2> QED
    BY <1>1, <2>1 DEF GoesOn, IsDiagram
<1> QED
  BY <1>2, <1>3

LEMMA EndGoesNowhere ==
  ASSUME Typed, NEW n
  PROVE  /\ LinksEnd /\ diagram.type[n] = "linkThrow" => GetOutgoingSequenceFlowsFor(diagram, n) = {}
         /\ EndsEnd /\ diagram.type[n] = "end" => GetOutgoingSequenceFlowsFor(diagram, n) = {}
         /\ GetOutgoingSequenceFlowsFor(diagram, n) = {} => ~BranchesWithoutGateway(diagram, n)
BY FS_EmptySet
   DEF LinksEnd, EndsEnd, GetOutgoingSequenceFlowsFor, BranchesWithoutGateway, Typed, RowsTyped

\* Asked again, the gateway of row i does not fail.
Redecides(rs, i) ==
  Decides(rs[i].node) /\ ~LooksAtThem(diagram, rs[i].node) =>
    \A p : IsPath(rs, p, i) => DetermineBranchToTake(diagram, rs[i].node, Replay(rs, p)) # Failed

\* What a handler does that stands at its row: it leaves, fails, waits or never settles.
Handles ==
  /\ mine \in 1 .. Len(rows) /\ rows[mine].node = here /\ ~Closed(rows[mine])
  /\ UNCHANGED KeptByEvents
LeavesRow ==
  /\ Handles /\ at' = "left" /\ Changes(mine, "finished", token')
  /\ GoesOn(onward') /\ (onward' = None => Type # "linkThrow") /\ Redecides(rows', mine)
FailsAtRow == Handles /\ at' = "failed" /\ Changes(mine, "error", rows[mine].left)
WaitsAtRow ==
  /\ Handles /\ at' \in {"waiting", "resumed"}
  /\ \E state \in {"suspended", "resumed"} : \E payload : Changes(mine, state, payload)
SticksAtRow == Handles /\ at' = "stuck" /\ rows' = rows

LEMMA HandlerStands ==
  ASSUME IInv, at \in {"entered", "waiting", "resumed"}
  PROVE  /\ mine \in 1 .. Len(rows) /\ rows[mine].node = here /\ ~Closed(rows[mine])
         /\ RowsTyped /\ Typed /\ rows[mine].left \in Payloads /\ token \in Payloads
<1>1. Typed /\ at \in AtItsRow
  BY DEF IInv, AtItsRow
<1> QED
  BY <1>1, EnteredRow DEF IInv, Standing, Working, Closed

LEMMA ExitsLeaves ==
  ASSUME IInv, at \in {"entered", "resumed"}, UNCHANGED KeptByEvents,
         NEW result, NEW payload \in Payloads, Exits(result, payload), ~Decides(here),
         GoesOn(onward'), onward' = None => Type # "linkThrow"
  PROVE  LeavesRow
<1>1. mine \in 1 .. Len(rows) /\ rows[mine].node = here /\ ~Closed(rows[mine]) /\ RowsTyped
  BY HandlerStands
<1>2. Changes(mine, "finished", payload) /\ token' = payload /\ at' = "left"
  BY <1>1, ReplacedChanges DEF Exits, RowStates, Goes
<1>3. rows'[mine].node = here
  BY <1>1, <1>2, ChangesTyped DEF KeptByEvents
<1>4. Redecides(rows', mine)
  BY <1>3 DEF Redecides
<1> QED
  BY <1>1, <1>2, <1>4 DEF LeavesRow, Handles

LEMMA BecomesFails ==
  ASSUME IInv, at \in {"entered", "waiting"}, UNCHANGED KeptByEvents, Becomes("error"), Fails
  PROVE  FailsAtRow
<1>1. mine \in 1 .. Len(rows) /\ rows[mine].node = here /\ ~Closed(rows[mine]) /\ RowsTyped
  BY HandlerStands
<1> QED
  BY <1>1, BecomesChanges DEF FailsAtRow, Handles, Fails, RowStates

LEMMA EventsHandle ==
  ASSUME EndsEnd, IInv, Events
  PROVE  LeavesRow \/ FailsAtRow \/ WaitsAtRow
<1>1. token \in Payloads /\ Empty \in Payloads /\ Typed
  BY PayloadTypes DEF IInv, Typed, HandlerTyped
<1>2. CASE StartEvent \/ EmptyEvent \/ LinkCatchEvent
  <2>1. /\ at = "entered" /\ Type \in {"start", "empty", "linkCatch"} /\ UNCHANGED KeptByEvents
        /\ \E result : Exits(result, token)
        /\ onward' = NextBehind
    BY <1>2 DEF StartEvent, EmptyEvent, LinkCatchEvent, Entered
  <2>2. ~Decides(here) /\ Type # "linkThrow"
    BY <2>1 DEF Decides, Type
  <2> QED
    BY <1>1, <2>1, <2>2, NextBehindGoesOn, ExitsLeaves
<1>3. CASE FinishWait
  <2>1. at = "resumed" /\ Exits(token, token) /\ onward' = NextBehind /\ UNCHANGED KeptByEvents
    BY <1>3 DEF FinishWait
  <2>2. Type \in Waits
    <3>1. mine \in 1 .. Len(rows) /\ rows[mine].node = here /\ rows[mine].state = "resumed"
      BY <1>1, <2>1, EnteredRow DEF AtItsRow, IInv, Standing, Working
    <3> QED
      BY <3>1 DEF IInv, RowsLinked, Type
  <2>3. ~Decides(here) /\ Type # "linkThrow"
    BY <2>2 DEF Decides, Type, Waits
  <2> QED
    BY <1>1, <2>1, <2>3, NextBehindGoesOn, ExitsLeaves
<1>4. CASE EndEvent
  <2>1. at = "entered" /\ Type = "end" /\ UNCHANGED KeptByEvents /\ Exits(token, token) /\ onward' = None
    BY <1>4 DEF EndEvent, Entered
  <2>2. ~Decides(here) /\ Type # "linkThrow"
    BY <2>1 DEF Decides, Type
  <2>3. GoesOn(onward')
    BY <1>1, <2>1, EndGoesNowhere DEF GoesOn, Type, None, Failed
  <2> QED
    BY <1>1, <2>1, <2>2, <2>3, ExitsLeaves
<1>5. CASE LinkThrowEvent
  <2>1. at = "entered" /\ Type = "linkThrow" /\ UNCHANGED KeptByEvents
    BY <1>5 DEF LinkThrowEvent, Entered
  <2>2. CASE Exits(Empty, token) /\ \E n \in MatchingCatchEvents : MatchingCatchEvents = {n} /\ onward' = n
    <3>1. onward' \in NodesOf(diagram)
      BY <2>2 DEF MatchingCatchEvents, GetLinkCatchEventsByLinkName
    <3>2. onward' \notin {None, Failed}
      BY <1>1, <3>1, DiagramsAssumption DEF Typed, RowsTyped
    <3>3. ~Decides(here)
      BY <2>1 DEF Decides, Type
    <3> QED
      BY <1>1, <2>1, <2>2, <3>2, <3>3, ExitsLeaves DEF GoesOn
  <2>3. CASE Becomes("error") /\ Fails
    BY <2>1, <2>3, BecomesFails
  <2> QED
    BY <1>5, <2>2, <2>3 DEF LinkThrowEvent
<1>6. CASE MessageThrowEvent \/ SignalThrowEvent
  <2>1. at = "entered" /\ Type \in {"messageThrow", "signalThrow"} /\ UNCHANGED KeptByEvents /\ Throws
    BY <1>6 DEF MessageThrowEvent, SignalThrowEvent, Entered
  <2>2. CASE Exits(Empty, SentPayload) /\ onward' = NextBehind
    <3>1. SentPayload \in Payloads
      BY <1>1, PayloadTypes DEF SentPayload
    <3>2. ~Decides(here) /\ Type # "linkThrow"
      BY <2>1 DEF Decides, Type
    <3> QED
      BY <1>1, <2>1, <2>2, <3>1, <3>2, NextBehindGoesOn, ExitsLeaves
  <2>3. CASE Becomes("error") /\ Fails
    BY <2>1, <2>3, BecomesFails
  <2> QED
    BY <2>1, <2>2, <2>3 DEF Throws
<1>7. CASE MessageCatchEvent \/ SignalCatchEvent \/ TimerCatchEvent \/ TimerStartEvent \/ UserTask
  <2>1. at = "entered" /\ UNCHANGED KeptByEvents /\ at' = "waiting" /\ Becomes("suspended")
    BY <1>7 DEF MessageCatchEvent, SignalCatchEvent, TimerCatchEvent, TimerStartEvent, UserTask, Entered, Suspends
  <2>2. Changes(mine, "suspended", rows[mine].left)
    BY <2>1, HandlerStands, BecomesChanges DEF RowStates
  <2> QED
    BY <2>1, <2>2, HandlerStands DEF WaitsAtRow, Handles
<1>8. CASE TimerIsInvalid
  BY <1>8, BecomesFails DEF TimerIsInvalid, Waiting
<1> QED
  BY <1>2, <1>3, <1>4, <1>5, <1>6, <1>7, <1>8 DEF Events

LEMMA OutsideHandles ==
  ASSUME IInv, Outside
  PROVE  WaitsAtRow
<1>1. token \in Payloads /\ Typed
  BY DEF IInv, Typed, HandlerTyped
<1>2. PICK payload \in Payloads : Resumes(payload)
  BY <1>1, PayloadTypes
     DEF Outside, MessageArrives, SignalArrives, TaskIsAnswered, TimerElapses, TimerStartElapses
<1>3. at = "waiting"
  BY DEF Outside, MessageArrives, SignalArrives, TaskIsAnswered, TimerElapses, TimerStartElapses, Waiting
<1>4. Changes(mine, "resumed", payload)
  BY <1>2, <1>3, HandlerStands, ReplacedChanges DEF Resumes, RowStates
<1> QED
  BY <1>2, <1>3, <1>4, HandlerStands DEF WaitsAtRow, Handles, Resumes

LEMMA TasksHandle ==
  ASSUME IInv, ScriptTask \/ ServiceTask
  PROVE  LeavesRow \/ FailsAtRow \/ SticksAtRow
<1>1. at = "entered" /\ Type \in {"scriptTask", "serviceTask"} /\ UNCHANGED KeptByEvents /\ Typed
  BY DEF ScriptTask, ServiceTask, Entered, IInv
<1>2. CASE \E result \in Answers \cup {Empty} : Returns(result)
  <2>1. PICK result \in Payloads : Exits(result, result) /\ onward' = NextBehind
    BY <1>2, PayloadTypes DEF Returns
  <2>2. ~Decides(here) /\ Type # "linkThrow"
    BY <1>1 DEF Decides, Type
  <2> QED
    BY <1>1, <2>1, <2>2, NextBehindGoesOn, ExitsLeaves
<1>3. CASE Throwing
  BY <1>1, <1>3, BecomesFails DEF Throwing
<1>4. CASE NeverSettles
  BY <1>1, <1>4, HandlerStands DEF NeverSettles, SticksAtRow, Handles
<1> QED
  BY <1>2, <1>3, <1>4 DEF ScriptTask, ServiceTask, Returns

LEMMA GatewayHandles ==
  ASSUME IInv, ExclusiveGateway
  PROVE  LeavesRow \/ FailsAtRow
<1> DEFINE seen == Append(results, Result(here, mine, token))
<1>1. /\ at = "entered" /\ Type = "exclusive" /\ UNCHANGED <<KeptByEvents, token>>
      /\ results' = seen /\ onward' = Decided(seen)
      /\ \/ Decided(seen) = Failed /\ Becomes("error") /\ Fails
         \/ Decided(seen) # Failed /\ Becomes("finished") /\ Goes
  BY DEF ExclusiveGateway, Entered
<1>2. CASE Becomes("error") /\ Fails
  BY <1>1, <1>2, BecomesFails
<1>3. CASE Decided(seen) # Failed /\ Becomes("finished") /\ Goes
  <2>1. /\ Typed /\ RowsTyped /\ ResultsTyped /\ diagram' = diagram /\ mine' = mine
        /\ here \in NodesOf(diagram) /\ token \in Payloads
        /\ mine \in 1 .. Len(rows) /\ rows[mine].node = here /\ ~Closed(rows[mine])
        /\ IsTrail(rows, results, rows[mine].prev)
        /\ token = rows[mine].entered /\ rows[mine].left = rows[mine].entered
    BY <1>1, HandlerStands DEF IInv, Typed, HandlerTyped, Standing, Working, RowsLinked, KeptByEvents
  <2>2. Changes(mine, "finished", rows[mine].left)
    BY <1>3, <2>1, BecomesChanges DEF RowStates
  <2>3. /\ Extends(rows, rows') /\ Chained(rows') /\ Len(rows') = Len(rows)
        /\ rows'[mine].node = here /\ rows'[mine].prev = rows[mine].prev
        /\ rows'[mine].state = "finished" /\ rows'[mine].left = rows[mine].left
    BY <2>1, <2>2, ChangesLinked DEF IInv, RowStates
  <2>4. IsTrail(rows', results, rows'[mine].prev) /\ results \in Seq(Steps(Len(rows')))
    BY <2>1, <2>3, TrailStays DEF ResultsTyped
  <2>5. Closed(rows'[mine]) /\ mine \in 1 .. Len(rows')
    BY <2>1, <2>3 DEF Closed
  <2>6. IsTrail(rows', seen, mine)
    BY <2>1, <2>3, <2>4, <2>5, TrailAppended
  <2>7. seen \in Seq(Steps(Len(rows'))) /\ seen # <<>>
    <3>1. Result(here, mine, token) \in Steps(Len(rows'))
      BY <2>1, <2>5 DEF Result, Steps
    <3> QED
      BY <2>4, <3>1
  <2> HIDE DEF seen
  <2>8. GoesOn(onward') /\ Type # "linkThrow"
    BY <1>1, <1>3, <2>1, DecidedGoesOn
  <2>9. Redecides(rows', mine)
    <3>1. SUFFICES ASSUME Decides(here), ~LooksAtThem(diagram, here), NEW p, IsPath(rows', p, mine)
                   PROVE  DetermineBranchToTake(diagram, here, Replay(rows', p)) # Failed
      BY <2>3 DEF Redecides
    <3>2. Decided(seen) = DetermineBranchToTake(diagram, here, seen)
      BY <3>1 DEF Decided, Decides
    <3>3. diagram.type[here] \notin ForgetsWhatItSent
      BY <3>1 DEF Decides, ForgetsWhatItSent
    <3>4. DetermineBranchToTake(diagram, here, seen) = DetermineBranchToTake(diagram, here, Replay(rows', p))
      BY <2>3, <2>6, <2>7, <3>1, <3>3, TrailDecides
    <3> QED
      BY <1>3, <3>2, <3>4
  <2> QED
    BY <1>1, <1>3, <2>1, <2>2, <2>8, <2>9 DEF LeavesRow, Handles, Goes
<1> QED
  BY <1>1, <1>2, <1>3

\* A step of the handler at its row.
AtRow == Events \/ Outside \/ ScriptTask \/ ServiceTask \/ ExclusiveGateway

LEMMA HandlerSteps ==
  ASSUME EndsEnd, IInv, AtRow
  PROVE  LeavesRow \/ FailsAtRow \/ WaitsAtRow \/ SticksAtRow
BY EventsHandle, OutsideHandles, TasksHandle, GatewayHandles DEF AtRow

\* A split never goes on in this module.
LEMMA SplitSteps ==
  ASSUME IInv, ParallelSplitGateway
  PROVE  /\ mine \in 1 .. Len(rows) /\ rows[mine].node = here /\ ~Closed(rows[mine])
         /\ UNCHANGED <<diagram, proc, boot, here, mine, apart>>
         /\ diagram.type[here] = "parallel"
         /\ \/ at' = "failed" /\ rows' = rows /\ join' \in {None, Failed}
            \/ at' = "split" /\ Changes(mine, "finished", rows[mine].left)
<1>1. at = "entered" /\ Type = "parallel"
  BY DEF ParallelSplitGateway, Entered
<1>2. mine \in 1 .. Len(rows) /\ rows[mine].node = here /\ ~Closed(rows[mine]) /\ RowsTyped
  BY <1>1, HandlerStands
<1>3. /\ UNCHANGED <<diagram, proc, boot, here, mine, apart>>
      /\ \/ at' = "failed" /\ rows' = rows /\ join' \in {None, Failed}
         \/ at' = "split" /\ Becomes("finished")
  BY DEF ParallelSplitGateway, Fails
<1>4. Becomes("finished") => Changes(mine, "finished", rows[mine].left)
  BY <1>2, BecomesChanges DEF RowStates
<1> QED
  BY <1>1, <1>2, <1>3, <1>4 DEF Type

\* Where a handler leaves, its row is finished; what it hands on is what it left with, or,
\* after a restart, what it was entered with.  Without a restart nothing is retraced.
Onward ==
  /\ boot = 0 => mine = Len(rows) /\ ~apart /\ at # "off"
  /\ at \in {"left", "closing"} =>
       /\ rows[mine].state = "finished" /\ (apart \/ token = rows[mine].left)
       /\ GoesOn(onward) /\ (onward = None /\ Type = "linkThrow" => boot # 0)
  /\ at = "next" /\ mine # 0 =>
       /\ rows[mine].state = "finished"
       /\ token = rows[mine].left \/ (boot # 0 /\ token = rows[mine].entered)

LEMMA RetracesAfterRestart ==
  ASSUME Typed, Onward, NEW state, Retraces(state)
  PROVE  boot # 0
<1>1. /\ mine' \in 1 .. Len(rows) /\ rows[mine'].prev = mine /\ rows[mine'].prev < mine'
      /\ Len(rows) \in Nat
  BY FoundRow DEF Typed, RowsTyped
<1> QED
  BY <1>1 DEF Onward

LEMMA HandlerOnward ==
  ASSUME IInv, Onward, LeavesRow \/ FailsAtRow \/ WaitsAtRow \/ SticksAtRow
  PROVE  Onward'
<1>1. /\ mine \in 1 .. Len(rows) /\ UNCHANGED <<diagram, boot, here, mine, apart>> /\ at \in Places
      /\ at' \in {"left", "failed", "waiting", "resumed", "stuck"}
  BY DEF LeavesRow, FailsAtRow, WaitsAtRow, SticksAtRow, Handles, KeptByEvents, IInv, Typed, HandlerTyped
<1>2. Len(rows') = Len(rows)
  BY DEF LeavesRow, FailsAtRow, WaitsAtRow, SticksAtRow, Changes
<1>3. ASSUME at' = "left"
      PROVE  /\ rows'[mine].state = "finished" /\ token' = rows'[mine].left
             /\ GoesOn(onward)' /\ (onward' = None => Type' # "linkThrow")
  <2>1. LeavesRow
    BY <1>3 DEF LeavesRow, FailsAtRow, WaitsAtRow, SticksAtRow
  <2>2. rows[mine] \in Rows
    BY <1>1 DEF IInv, Typed, RowsTyped
  <2>3. rows'[mine] = [rows[mine] EXCEPT !.state = "finished", !.left = token']
    BY <1>1, <2>1 DEF LeavesRow, Changes
  <2>4. rows'[mine].state = "finished" /\ rows'[mine].left = token'
    BY <2>2, <2>3 DEF Rows
  <2> QED
    BY <1>1, <2>1, <2>4 DEF LeavesRow, GoesOn, Type
<1> QED
  BY <1>1, <1>2, <1>3 DEF Onward

LEMMA HandlingOnward ==
  ASSUME IInv, Onward, Handling \/ ParallelSplitGateway \/ Stop
  PROVE  Onward'
<1>1. /\ Typed /\ Len(rows) \in Nat /\ boot \in Nat /\ rows \in Seq(Rows) /\ mine \in 0 .. Len(rows)
  BY DEF IInv, Typed, RowsTyped, HandlerTyped
<1>2. CASE Execute
  <2>1. CASE Supported
    <3>1. /\ mine' = Len(rows) + 1 /\ at' = "entered" /\ apart' = FALSE /\ boot' = boot
          /\ \E r : rows' = Append(rows, r)
      BY <1>2, <2>1 DEF Execute
    <3>2. Len(rows') = Len(rows) + 1
      BY <1>1, <3>1
    <3> QED
      BY <3>1, <3>2 DEF Onward
  <2>2. CASE ~Supported
    BY <1>2, <2>2 DEF Execute, Fails, Onward
  <2> QED
    BY <2>1, <2>2
<1>3. CASE HandleNextFlowNode
  <2>1. /\ at \in {"left", "closing"} /\ at' = "next" /\ token' = HandedOn /\ apart' = FALSE
        /\ UNCHANGED <<rows, boot, mine>>
    BY <1>3 DEF HandleNextFlowNode, dbVars
  <2> QED
    BY <2>1 DEF Onward, HandedOn
<1>4. CASE Resolve \/ Reject
  BY <1>4 DEF Resolve, Reject, Onward
<1>5. CASE NextIsUnclear
  <2>1. at' \in {"stuck", "failed"} /\ UNCHANGED <<boot, mine, apart>>
    BY <1>5 DEF NextIsUnclear, Fails
  <2>2. Len(rows') = Len(rows)
    BY <1>1, <1>5 DEF NextIsUnclear, Becomes
  <2> QED
    BY <2>1, <2>2 DEF Onward
<1>6. CASE ParallelSplitGateway
  <2>1. /\ UNCHANGED <<boot, mine, apart>> /\ at' \in {"failed", "split"}
    BY <1>6, SplitSteps
  <2>2. Len(rows') = Len(rows)
    BY <1>6, SplitSteps DEF Changes
  <2> QED
    BY <2>1, <2>2 DEF Onward
<1>7. CASE Stop
  BY <1>1, <1>7 DEF Stop, dbVars, Onward
<1> QED
  BY <1>2, <1>3, <1>4, <1>5, <1>6, <1>7 DEF Handling

LEMMA ResumptionOnward ==
  ASSUME IInv, Onward, Resumption
  PROVE  Onward'
<1>1. Typed
  BY DEF IInv
<1>2. CASE ResumeProcessInstance
  BY <1>2 DEF ResumeProcessInstance, Onward
<1>3. CASE ContinueAfterEnter \/ ContinueAfterSuspend \/ CannotResume
  <2>1. boot # 0 /\ boot' = boot /\ at' \in {"entered", "waiting", "failed"}
    BY <1>1, <1>3, RetracesAfterRestart
       DEF ContinueAfterEnter, ContinueAfterSuspend, CannotResume, KeptByResume, Fails
  <2> QED
    BY <2>1 DEF Onward
<1>4. CASE ContinueAfterResume
  <2>1. /\ boot # 0 /\ mine' \in 1 .. Len(rows)
        /\ UNCHANGED <<diagram, boot, here>> /\ at' = "closing" /\ apart' = TRUE /\ onward' = NextBehind
        /\ rows' = [rows EXCEPT ![mine'].state = "finished"] /\ rows \in Seq(Rows)
    BY <1>1, <1>4, RetracesAfterRestart, FoundRow
       DEF ContinueAfterResume, KeptByResume, Typed, RowsTyped
  <2>2. rows'[mine'].state = "finished"
    BY <2>1 DEF Rows
  <2>3. GoesOn(onward)'
    BY <1>1, <2>1, NextBehindGoesOn DEF GoesOn
  <2> QED
    BY <2>1, <2>2, <2>3 DEF Onward
<1>5. CASE ContinueAfterExit
  <2> DEFINE seen == Append(results, Result(here, mine', rows[mine'].left))
             decided == IF Type = "exclusive" THEN Decided(seen) ELSE NextBehind
  <2>1. /\ boot # 0 /\ rows[mine'].state = "finished"
        /\ UNCHANGED <<diagram, boot, here>> /\ apart' = TRUE /\ onward' = decided
        /\ \/ decided = Failed /\ at' = "failed"
           \/ decided # Failed /\ at' = "closing" /\ rows' = rows
    BY <1>1, <1>5, RetracesAfterRestart, FoundRow
       DEF ContinueAfterExit, RestoredResult, KeptByResume, Fails
  <2>2. decided # Failed => GoesOn(decided)
    BY <1>1, NextBehindGoesOn, DecidedGoesOn
  <2> HIDE DEF decided
  <2>3. decided # Failed => GoesOn(onward)'
    BY <2>1, <2>2 DEF GoesOn
  <2> QED
    BY <2>1, <2>3 DEF Onward
<1> QED
  BY <1>2, <1>3, <1>4, <1>5 DEF Resumption

LEMMA StepOnward ==
  ASSUME EndsEnd, IInv, Onward, [Next]_vars
  PROVE  Onward'
<1>1. CASE AtRow
  BY <1>1, HandlerSteps, HandlerOnward
<1>2. CASE UNCHANGED vars
  BY <1>2 DEF vars, dbVars, handlerVars, Onward, GoesOn, Type
<1> QED
  BY <1>1, <1>2, HandlingOnward, ResumptionOnward DEF Next, System, AtRow

-----------------------------------------------------------------------------
(* Closed rows stay, and payloads are handed on                            *)

GatewaysRedecide == \A i \in 1 .. Len(rows) : rows[i].state = "finished" => Redecides(rows, i)

\* One row is written: an open one, or a closed one is set to "error", where the code does so.
WritesOpen(m, state, payload) ==
  /\ Changes(m, state, payload) /\ ~Closed(rows[m])
  /\ state = "finished" => Redecides(rows', m)
WritesError(m) ==
  /\ Changes(m, "error", rows[m].left) /\ Closed(rows[m])
  /\ BranchesWithoutGateway(diagram, rows[m].node) \/ LooksAtThem(diagram, rows[m].node)
AddsRow ==
  /\ at = "next" /\ NextInstances = {} /\ mine \in 0 .. Len(rows)
  /\ rows' = Append(rows, [node |-> here, prev |-> mine, state |-> "running", entered |-> token, left |-> token])
  /\ mine' = Len(rows) + 1 /\ at' = "entered" /\ boot' = boot

WritesRows ==
  \/ rows' = rows
  \/ \E m \in 1 .. Len(rows) : \E state, payload : WritesOpen(m, state, payload)
  \/ \E m \in 1 .. Len(rows) : WritesError(m)
  \/ AddsRow

LEMMA HandlerWrites ==
  ASSUME IInv, LeavesRow \/ FailsAtRow \/ WaitsAtRow \/ SticksAtRow
  PROVE  \/ rows' = rows
         \/ \E m \in 1 .. Len(rows) : \E state, payload : WritesOpen(m, state, payload)
BY DEF LeavesRow, FailsAtRow, WaitsAtRow, SticksAtRow, Handles, WritesOpen

LEMMA SplitWrites ==
  ASSUME IInv, ParallelSplitGateway
  PROVE  \/ rows' = rows
         \/ \E m \in 1 .. Len(rows) : \E state, payload : WritesOpen(m, state, payload)
<1>1. /\ mine \in 1 .. Len(rows) /\ rows[mine].node = here /\ ~Closed(rows[mine]) /\ diagram' = diagram
      /\ diagram.type[here] = "parallel"
      /\ rows' = rows \/ Changes(mine, "finished", rows[mine].left)
  BY SplitSteps
<1>2. CASE Changes(mine, "finished", rows[mine].left)
  <2>1. rows'[mine].node = here
    BY <1>1, <1>2, ChangesTyped DEF IInv, Typed
  <2>2. Redecides(rows', mine)
    BY <1>1, <2>1 DEF Redecides, Decides
  <2> QED
    BY <1>1, <1>2, <2>2 DEF WritesOpen
<1> QED
  BY <1>1, <1>2

LEMMA UnclearWrites ==
  ASSUME IInv, Onward, NextIsUnclear
  PROVE  rows' = rows \/ \E m \in 1 .. Len(rows) : WritesError(m)
<1>1. /\ mine \in 1 .. Len(rows) /\ rows[mine].node = here /\ RowsTyped /\ rows[mine].state = "finished"
      /\ BranchesWithoutGateway(diagram, here)
  BY EnteredRow DEF NextIsUnclear, IInv, AtItsRow, Onward, GoesOn
<1>2. CASE Becomes("error")
  BY <1>1, <1>2, BecomesChanges DEF RowStates, WritesError, Closed
<1> QED
  BY <1>2 DEF NextIsUnclear

\* The results of a handler that retraces a closed row are a trail to it.
LEMMA RetracedTrail ==
  ASSUME IInv, NEW m \in 1 .. Len(rows), at = "next", rows[m].node = here, rows[m].prev = mine, Closed(rows[m])
  PROVE  LET seen == Append(results, Result(here, m, rows[m].left))
         IN Chained(rows) /\ IsTrail(rows, seen, m) /\ seen \in Seq(Steps(Len(rows))) /\ seen # <<>>
<1> DEFINE seen == Append(results, Result(here, m, rows[m].left))
<1>1. Typed /\ RowsLinked /\ IsTrail(rows, results, mine)
  BY DEF IInv, Standing, Following
<1>2. ResultsTyped /\ here \in NodesOf(diagram) /\ rows[m] \in Rows
  BY <1>1 DEF Typed, RowsTyped, HandlerTyped
<1>3. rows[m].left \in Payloads
  BY <1>2 DEF Rows
<1>4. IsTrail(rows, seen, m)
  BY <1>1, <1>2, <1>3, TrailAppended DEF ResultsTyped
<1>5. seen \in Seq(Steps(Len(rows))) /\ seen # <<>>
  <2>1. Result(here, m, rows[m].left) \in Steps(Len(rows))
    BY <1>2, <1>3 DEF Result, Steps
  <2> QED
    BY <1>2, <2>1 DEF ResultsTyped
<1> QED
  BY <1>1, <1>4, <1>5, RowsAreChained

\* A gateway that is retraced decides as it did.
LEMMA GatewayRetraced ==
  ASSUME IInv, NEW m \in 1 .. Len(rows), at = "next", rows[m].node = here, rows[m].prev = mine, Closed(rows[m]),
         Decides(here), ~LooksAtThem(diagram, here), NEW p, IsPath(rows, p, m)
  PROVE  Decided(Append(results, Result(here, m, rows[m].left))) =
         DetermineBranchToTake(diagram, here, Replay(rows, p))
<1> DEFINE seen == Append(results, Result(here, m, rows[m].left))
<1>1. Chained(rows) /\ IsTrail(rows, seen, m) /\ seen \in Seq(Steps(Len(rows))) /\ seen # <<>>
  BY RetracedTrail
<1> HIDE DEF seen
<1>2. diagram.type[here] \notin ForgetsWhatItSent
  BY DEF Decides, ForgetsWhatItSent
<1>3. DetermineBranchToTake(diagram, here, seen) = DetermineBranchToTake(diagram, here, Replay(rows, p))
  BY <1>1, <1>2, TrailDecides
<1>4. Decided(seen) = DetermineBranchToTake(diagram, here, seen)
  BY DEF Decides, Decided
<1> QED
  BY <1>3, <1>4 DEF seen

\* There is a path to every closed row that is retraced.
LEMMA RetracedPath ==
  ASSUME IInv, NEW m \in 1 .. Len(rows), at = "next", rows[m].node = here, rows[m].prev = mine, Closed(rows[m])
  PROVE  \E p : IsPath(rows, p, m)
<1> DEFINE seen == Append(results, Result(here, m, rows[m].left))
<1>1. Chained(rows) /\ IsTrail(rows, seen, m) /\ seen \in Seq(Steps(Len(rows))) /\ seen # <<>>
  BY RetracedTrail
<1> HIDE DEF seen
<1> QED
  BY <1>1, TrailPath

LEMMA RetracedWrites ==
  ASSUME LinksEnd, IInv, GatewaysRedecide, ContinueAfterResume \/ ContinueAfterExit
  PROVE  \/ rows' = rows
         \/ \E m \in 1 .. Len(rows) : \E state, payload : WritesOpen(m, state, payload)
         \/ \E m \in 1 .. Len(rows) : WritesError(m)
<1>1. Typed /\ RowsTyped
  BY DEF IInv, Typed
<1>2. CASE ContinueAfterResume
  <2>1. /\ mine' \in 1 .. Len(rows) /\ rows[mine'].node = here /\ rows[mine'].state = "resumed"
        /\ rows[mine'] \in Rows /\ diagram' = diagram
        /\ rows' = [rows EXCEPT ![mine'].state = "finished"]
    BY <1>1, <1>2, FoundRow DEF ContinueAfterResume, KeptByResume
  <2>2. /\ rows[mine'].left \in Payloads
        /\ rows' = [rows EXCEPT ![mine'].state = "finished", ![mine'].left = rows[mine'].left]
    BY <1>1, <2>1 DEF RowsTyped, Rows
  <2>3. Changes(mine', "finished", rows[mine'].left)
    BY <1>1, <2>1, <2>2, ReplacedChanges DEF RowStates
  <2>4. rows'[mine'].node = here
    BY <1>1, <2>1, <2>3, ChangesTyped
  <2>5. diagram.type[here] \in Waits
    BY <2>1 DEF IInv, RowsLinked
  <2>6. Redecides(rows', mine')
    BY <2>1, <2>4, <2>5 DEF Redecides, Decides, Waits
  <2> QED
    BY <2>1, <2>3, <2>6 DEF WritesOpen, Closed
<1>3. CASE ContinueAfterExit
  <2> DEFINE seen == Append(results, Result(here, mine', rows[mine'].left))
  <2>1. /\ at = "next" /\ mine' \in 1 .. Len(rows) /\ rows[mine'].node = here /\ rows[mine'].prev = mine
        /\ rows[mine'].state = "finished" /\ rows[mine'] \in Rows
        /\ rows' = IF Type = "exclusive" /\ Decided(seen) = Failed
                   THEN [rows EXCEPT ![mine'].state = "error"] ELSE rows
    BY <1>1, <1>3, FoundRow DEF ContinueAfterExit, RestoredResult
  <2>2. CASE Type = "exclusive" /\ Decided(seen) = Failed /\ rows' = [rows EXCEPT ![mine'].state = "error"]
    <3>1. /\ rows[mine'].left \in Payloads
          /\ rows' = [rows EXCEPT ![mine'].state = "error", ![mine'].left = rows[mine'].left]
      BY <1>1, <2>1, <2>2 DEF RowsTyped, Rows
    <3>2. Changes(mine', "error", rows[mine'].left)
      BY <1>1, <2>1, <3>1, ReplacedChanges DEF RowStates
    <3>3. Closed(rows[mine'])
      BY <2>1 DEF Closed
    <3>4. LooksAtThem(diagram, here) \/ BranchesWithoutGateway(diagram, here)
      <4>1. CASE Decides(here)
        <5>1. SUFFICES ASSUME ~LooksAtThem(diagram, here) PROVE FALSE
          OBVIOUS
        <5>2. PICK p : IsPath(rows, p, mine')
          BY <2>1, <3>3, RetracedPath
        <5>3. DetermineBranchToTake(diagram, here, Replay(rows, p)) = Failed
          BY <2>1, <2>2, <3>3, <4>1, <5>1, <5>2, GatewayRetraced
        <5> QED
          BY <2>1, <4>1, <5>1, <5>2, <5>3 DEF GatewaysRedecide, Redecides
      <4>2. CASE ~Decides(here)
        BY <1>1, <2>2, <4>2, NextBehindGoesOn DEF Decides, Decided, Type, GoesOn
      <4> QED
        BY <4>1, <4>2
    <3> QED
      BY <2>1, <3>2, <3>3, <3>4 DEF WritesError
  <2> QED
    BY <2>1, <2>2
<1> QED
  BY <1>2, <1>3

LEMMA RowsStep ==
  ASSUME LinksEnd, EndsEnd, IInv, Onward, GatewaysRedecide, Next
  PROVE  WritesRows
<1>1. CASE Execute
  BY <1>1 DEF Execute, AddsRow, IInv, Typed, HandlerTyped, WritesRows
<1>2. CASE HandleNextFlowNode \/ Resolve \/ Reject \/ Stop
  BY <1>2 DEF HandleNextFlowNode, Resolve, Reject, Stop, dbVars, WritesRows
<1>3. CASE ResumeProcessInstance \/ ContinueAfterEnter \/ ContinueAfterSuspend \/ CannotResume
  BY <1>3 DEF ResumeProcessInstance, ContinueAfterEnter, ContinueAfterSuspend, CannotResume, WritesRows
<1>4. CASE AtRow
  BY <1>4, HandlerSteps, HandlerWrites DEF WritesRows
<1> QED
  BY <1>1, <1>2, <1>3, <1>4, SplitWrites, UnclearWrites, RetracedWrites
     DEF Next, System, AtRow, Handling, Resumption, WritesRows

LEMMA RowsStayClosed ==
  ASSUME IInv, WritesRows
  PROVE  \A i \in 1 .. Len(rows) : Closed(rows[i]) =>
           \/ rows'[i] = rows[i]
           \/ /\ BranchesWithoutGateway(diagram, rows[i].node) \/ LooksAtThem(diagram, rows[i].node)
              /\ rows'[i] = [rows[i] EXCEPT !.state = "error"]
<1> SUFFICES ASSUME NEW i \in 1 .. Len(rows), Closed(rows[i]), rows'[i] # rows[i]
             PROVE  /\ BranchesWithoutGateway(diagram, rows[i].node) \/ LooksAtThem(diagram, rows[i].node)
                    /\ rows'[i] = [rows[i] EXCEPT !.state = "error"]
  OBVIOUS
<1>1. rows[i] \in Rows /\ rows \in Seq(Rows)
  BY DEF IInv, Typed, RowsTyped
<1>2. CASE \E m \in 1 .. Len(rows) : \E state, payload : WritesOpen(m, state, payload)
  BY <1>2 DEF WritesOpen, Changes
<1>3. CASE \E m \in 1 .. Len(rows) : WritesError(m)
  <2>1. PICK m \in 1 .. Len(rows) : WritesError(m)
    BY <1>3
  <2>2. i = m
    BY <2>1 DEF WritesError, Changes
  <2>3. rows'[i] = [rows[i] EXCEPT !.state = "error", !.left = rows[i].left]
    BY <2>1, <2>2 DEF WritesError, Changes
  <2>4. rows'[i] = [rows[i] EXCEPT !.state = "error"]
    BY <1>1, <2>3 DEF Rows
  <2> QED
    BY <2>1, <2>2, <2>4 DEF WritesError
<1>4. CASE AddsRow
  BY <1>1, <1>4 DEF AddsRow
<1> QED
  BY <1>2, <1>3, <1>4 DEF WritesRows

\* Flow node, predecessor and payload at the start stay with a row, and what closed rows say.
LEMMA RowsExtend ==
  ASSUME IInv, IInv', diagram' = diagram, WritesRows
  PROVE  /\ Chained(rows) /\ Chained(rows') /\ Extends(rows, rows')
         /\ \A i \in 1 .. Len(rows) : rows'[i].entered = rows[i].entered
         /\ \A i \in 1 .. Len(rows') : i \in 1 .. Len(rows) \/ (AddsRow /\ i = Len(rows) + 1)
<1>1. /\ Len(rows) \in Nat /\ rows \in Seq(Rows) /\ Chained(rows)
      /\ \A i \in 1 .. Len(rows) : rows[i] \in Rows
  BY RowsAreChained DEF IInv, Typed, RowsTyped
<1>2. Chained(rows')
  <2>1. Len(rows') \in Nat /\ \A i \in 1 .. Len(rows') : rows'[i] \in Rows' /\ rows'[i].prev < i
    BY DEF IInv, Typed, RowsTyped
  <2>2. \A i \in 1 .. Len(rows') : rows'[i].prev \in Nat
    BY <2>1 DEF Rows
  <2>3. \A i \in 1 .. Len(rows') : rows'[i].prev # 0 => Closed(rows'[rows'[i].prev])
    BY DEF IInv, RowsLinked
  <2> QED
    BY <2>1, <2>2, <2>3 DEF Chained
<1>3. /\ Len(rows') = Len(rows) \/ (AddsRow /\ Len(rows') = Len(rows) + 1)
      /\ \A i \in 1 .. Len(rows) :
           rows'[i].node = rows[i].node /\ rows'[i].prev = rows[i].prev /\ rows'[i].entered = rows[i].entered
  <2>1. ASSUME NEW m \in 1 .. Len(rows), NEW state, NEW payload, Changes(m, state, payload)
        PROVE  /\ Len(rows') = Len(rows)
               /\ \A i \in 1 .. Len(rows) :
                    rows'[i].node = rows[i].node /\ rows'[i].prev = rows[i].prev
                                                 /\ rows'[i].entered = rows[i].entered
    BY <1>1, <2>1 DEF Changes, Rows
  <2>2. CASE AddsRow
    BY <1>1, <2>2 DEF AddsRow
  <2> QED
    BY <2>1, <2>2 DEF WritesRows, WritesOpen, WritesError
<1>4. ASSUME NEW i \in 1 .. Len(rows), Closed(rows[i])
      PROVE  Closed(rows'[i]) /\ rows'[i].left = rows[i].left
  <2>1. CASE rows'[i] = rows[i]
    BY <1>4, <2>1
  <2>2. CASE rows'[i] = [rows[i] EXCEPT !.state = "error"]
    BY <1>1, <2>2 DEF Closed, Rows
  <2> QED
    BY <1>4, <2>1, <2>2, RowsStayClosed
<1>5. \A i \in 1 .. Len(rows') : i \in 1 .. Len(rows) \/ (AddsRow /\ i = Len(rows) + 1)
  <2>1. CASE Len(rows') = Len(rows)
    BY <2>1
  <2>2. CASE AddsRow /\ Len(rows') = Len(rows) + 1
    <3>1. \A i \in 1 .. Len(rows') : i \in 1 .. Len(rows) \/ i = Len(rows) + 1
      BY <1>1, <2>2
    <3> QED
      BY <2>2, <3>1
  <2> QED
    BY <1>3, <2>1, <2>2
<1>6. \A i \in 1 .. Len(rows') : rows'[i].prev <= Len(rows)
  <2>1. ASSUME NEW i \in 1 .. Len(rows) PROVE rows'[i].prev <= Len(rows)
    BY <1>1, <1>3, <2>1 DEF Chained
  <2>2. ASSUME AddsRow PROVE rows'[Len(rows) + 1].prev <= Len(rows)
    BY <1>1, <2>2 DEF AddsRow
  <2> QED
    BY <1>5, <2>1, <2>2
<1> QED
  BY <1>1, <1>2, <1>3, <1>4, <1>5, <1>6 DEF Extends

LEMMA StepRedecides ==
  ASSUME IInv, IInv', GatewaysRedecide, diagram' = diagram, WritesRows
  PROVE  GatewaysRedecide'
<1>1. /\ Chained(rows) /\ Chained(rows') /\ Extends(rows, rows')
      /\ \A i \in 1 .. Len(rows') : i \in 1 .. Len(rows) \/ (AddsRow /\ i = Len(rows) + 1)
  BY RowsExtend
<1>2. ASSUME NEW i \in 1 .. Len(rows), rows[i].state = "finished" PROVE Redecides(rows', i)
  <2>1. rows'[i].node = rows[i].node /\ Closed(rows[i]) /\ Redecides(rows, i)
    BY <1>1, <1>2 DEF Extends, Closed, GatewaysRedecide
  <2>2. \A p : IsPath(rows', p, i) => IsPath(rows, p, i) /\ Replay(rows', p) = Replay(rows, p)
    BY <1>1, <2>1, PathStays
  <2> QED
    BY <2>1, <2>2 DEF Redecides
<1>3. ASSUME NEW i \in 1 .. Len(rows'), rows'[i].state = "finished" PROVE Redecides(rows', i)
  <2>1. CASE i \in 1 .. Len(rows) /\ rows[i].state = "finished"
    BY <1>2, <2>1
  <2>2. CASE i \in 1 .. Len(rows) /\ rows[i].state # "finished"
    <3>1. rows'[i] # rows[i] /\ rows[i] \in Rows
      BY <1>3, <2>2 DEF IInv, Typed, RowsTyped
    <3>2. CASE \E m \in 1 .. Len(rows) : \E state, payload : WritesOpen(m, state, payload)
      <4>1. PICK m \in 1 .. Len(rows) : \E state, payload : WritesOpen(m, state, payload)
        BY <3>2
      <4>2. PICK state, payload : WritesOpen(m, state, payload)
        BY <4>1
      <4>3. i = m /\ rows'[i] = [rows[i] EXCEPT !.state = state, !.left = payload]
        BY <2>2, <3>1, <4>2 DEF WritesOpen, Changes
      <4>4. rows'[i].state = state
        BY <3>1, <4>3 DEF Rows
      <4> QED
        BY <1>3, <4>2, <4>3, <4>4 DEF WritesOpen
    <3>3. CASE \E m \in 1 .. Len(rows) : WritesError(m)
      <4>1. PICK m \in 1 .. Len(rows) : WritesError(m)
        BY <3>3
      <4>2. rows'[i] = [rows[i] EXCEPT !.state = "error", !.left = rows[i].left]
        BY <2>2, <3>1, <4>1 DEF WritesError, Changes
      <4>3. rows'[i].state = "error"
        BY <3>1, <4>2 DEF Rows
      <4> QED
        BY <1>3, <4>3
    <3>4. CASE AddsRow
      <4>1. rows \in Seq(Rows)
        BY DEF IInv, Typed, RowsTyped
      <4> QED
        BY <2>2, <3>1, <3>4, <4>1 DEF AddsRow
    <3> QED
      BY <3>1, <3>2, <3>3, <3>4 DEF WritesRows
  <2>3. CASE AddsRow /\ i = Len(rows) + 1
    <3>1. rows \in Seq(Rows)
      BY DEF IInv, Typed, RowsTyped
    <3>2. rows'[i].state = "running"
      BY <2>3, <3>1 DEF AddsRow
    <3> QED
      BY <1>3, <3>2
  <2> QED
    BY <1>1, <2>1, <2>2, <2>3
<1> QED
  BY <1>3 DEF GatewaysRedecide, Redecides, Decides

LEMMA StepPayload ==
  ASSUME IInv, IInv', Onward, PayloadIsHandedOn, diagram' = diagram, boot' \in Nat, boot # 0 => boot' # 0, WritesRows
  PROVE  PayloadIsHandedOn'
<1>1. /\ Chained(rows) /\ Extends(rows, rows')
      /\ \A i \in 1 .. Len(rows) : rows'[i].entered = rows[i].entered
      /\ \A i \in 1 .. Len(rows') : i \in 1 .. Len(rows) \/ (AddsRow /\ i = Len(rows) + 1)
  BY RowsExtend
<1>2. /\ DOMAIN rows = 1 .. Len(rows) /\ DOMAIN rows' = 1 .. Len(rows') /\ boot \in Nat /\ Len(rows) \in Nat
      /\ rows \in Seq(Rows)
  BY DEF IInv, Typed, RowsTyped, HandlerTyped
<1>3. ASSUME NEW f \in 1 .. Len(rows), Closed(rows[f]), NEW payload,
             payload = rows[f].left \/ (boot # 0 /\ payload = rows[f].entered)
      PROVE  payload = rows'[f].left \/ (boot' > 0 /\ payload = rows'[f].entered)
  BY <1>1, <1>3 DEF Extends
<1>4. ASSUME NEW i \in 1 .. Len(rows'), rows'[i].prev # 0
      PROVE  \/ rows'[i].entered = rows'[rows'[i].prev].left
             \/ boot' > 0 /\ rows'[i].entered = rows'[rows'[i].prev].entered
  <2>1. CASE i \in 1 .. Len(rows)
    <3>1. rows'[i].prev = rows[i].prev /\ rows'[i].entered = rows[i].entered
      BY <1>1, <2>1 DEF Extends
    <3>2. rows[i].prev \in 1 .. Len(rows) /\ Closed(rows[rows[i].prev])
      BY <1>1, <1>2, <1>4, <2>1, <3>1 DEF Chained
    <3>3. \/ rows[i].entered = rows[rows[i].prev].left
          \/ boot # 0 /\ rows[i].entered = rows[rows[i].prev].entered
      BY <1>2, <1>4, <2>1, <3>1 DEF PayloadIsHandedOn
    <3> QED
      BY <1>3, <3>1, <3>2, <3>3
  <2>2. CASE AddsRow /\ i = Len(rows) + 1
    <3>1. rows'[i].prev = mine /\ rows'[i].entered = token /\ at = "next"
      BY <1>2, <2>2 DEF AddsRow
    <3>2. mine \in 1 .. Len(rows) /\ Closed(rows[mine])
      BY <1>2, <1>4, <2>2, <3>1 DEF AddsRow, IInv, Standing, Following
    <3>3. token = rows[mine].left \/ (boot # 0 /\ token = rows[mine].entered)
      BY <1>4, <3>1 DEF Onward
    <3> QED
      BY <1>3, <3>1, <3>2, <3>3
  <2> QED
    BY <1>1, <2>1, <2>2
<1> QED
  BY <1>2, <1>4 DEF PayloadIsHandedOn

LEMMA DiagramStays ==
  ASSUME IInv, Next
  PROVE  diagram' = diagram /\ boot' >= boot
<1>1. boot \in Nat
  BY DEF IInv, Typed, HandlerTyped
<1>2. Events => diagram' = diagram /\ boot' = boot
  BY DEF Events, StartEvent, EmptyEvent, EndEvent, LinkCatchEvent, LinkThrowEvent, MessageThrowEvent,
         SignalThrowEvent, MessageCatchEvent, SignalCatchEvent, TimerCatchEvent, TimerStartEvent, UserTask,
         TimerIsInvalid, FinishWait, KeptByEvents
<1>3. Outside => diagram' = diagram /\ boot' = boot
  BY DEF Outside, MessageArrives, SignalArrives, TaskIsAnswered, TimerElapses, TimerStartElapses, Resumes,
         KeptByEvents
<1>4. ScriptTask \/ ServiceTask \/ ExclusiveGateway \/ ParallelSplitGateway => diagram' = diagram /\ boot' = boot
  BY DEF ScriptTask, ServiceTask, ExclusiveGateway, ParallelSplitGateway, KeptByEvents
<1>5. Handling => diagram' = diagram /\ boot' = boot
  BY DEF Handling, Execute, HandleNextFlowNode, Resolve, NextIsUnclear, Reject
<1>6. Resumption => diagram' = diagram /\ boot' = boot
  BY DEF Resumption, ResumeProcessInstance, ContinueAfterEnter, ContinueAfterSuspend, ContinueAfterResume,
         ContinueAfterExit, CannotResume, KeptByResume
<1>7. Stop => diagram' = diagram /\ boot' = boot + 1
  BY DEF Stop
<1> QED
  BY <1>1, <1>2, <1>3, <1>4, <1>5, <1>6, <1>7 DEF Next, System

FlowInv == IInv /\ Onward /\ GatewaysRedecide /\ PayloadIsHandedOn

LEMMA InitFlow ==
  ASSUME Init
  PROVE  FlowInv
<1>1. rows = <<>> /\ Len(rows) = 0 /\ DOMAIN rows = {} /\ at = "next" /\ mine = 0 /\ apart = FALSE
  BY DEF Init
<1> QED
  BY <1>1, InitStands DEF FlowInv, Onward, GatewaysRedecide, PayloadIsHandedOn

LEMMA StepFlow ==
  ASSUME LinksEnd, EndsEnd, FlowInv, [Next]_vars
  PROVE  FlowInv'
<1>1. IInv' /\ Onward'
  BY StepStands, StepOnward DEF FlowInv
<1>2. CASE Next
  <2>1. diagram' = diagram /\ boot' >= boot /\ boot \in Nat /\ boot' \in Nat
    BY <1>1, <1>2, DiagramStays DEF FlowInv, IInv, Typed, HandlerTyped
  <2>2. WritesRows
    BY <1>2, RowsStep DEF FlowInv
  <2> QED
    BY <1>1, <2>1, <2>2, StepRedecides, StepPayload DEF FlowInv
<1>3. CASE UNCHANGED vars
  BY <1>1, <1>3 DEF vars, dbVars, handlerVars, FlowInv, GatewaysRedecide, PayloadIsHandedOn, Redecides, Decides
<1> QED
  BY <1>2, <1>3

\* Each flow node starts with the payload that the one in front of it was left with or, after
\* a restart, was entered with, and with no other one: wherever the runtime was stopped,
\* for every diagram in which nothing leads on from a link throw or an end event.
THEOREM PayloadArrives ==
  ASSUME LinksEnd, EndsEnd
  PROVE  Spec => []PayloadIsHandedOn
<1>1. Init => FlowInv
  BY InitFlow
<1>2. FlowInv /\ [Next]_vars => FlowInv'
  BY StepFlow
<1>3. FlowInv => PayloadIsHandedOn
  BY DEF FlowInv
<1> QED
  BY <1>1, <1>2, <1>3, PTL DEF Spec

\* What a closed row says stays, however often it is retraced: a gateway that decides again
\* finds what it has found.  But for flow nodes that several others follow, and gateways
\* that look at what a throw event sent.
THEOREM ClosedRowIsKept ==
  ASSUME LinksEnd, EndsEnd
  PROVE  Spec => ClosedRowStays
<1>1. Init => FlowInv
  BY InitFlow
<1>2. FlowInv /\ [Next]_vars => FlowInv'
  BY StepFlow
<1>3. FlowInv /\ [Next]_vars =>
        [\A i \in DOMAIN rows : Closed(rows[i]) =>
           \/ rows'[i] = rows[i]
           \/ /\ BranchesWithoutGateway(diagram, rows[i].node) \/ LooksAtThem(diagram, rows[i].node)
              /\ rows'[i] = [rows[i] EXCEPT !.state = "error"]]_vars
  <2>1. ASSUME FlowInv, Next
        PROVE  \A i \in DOMAIN rows : Closed(rows[i]) =>
                 \/ rows'[i] = rows[i]
                 \/ /\ BranchesWithoutGateway(diagram, rows[i].node) \/ LooksAtThem(diagram, rows[i].node)
                    /\ rows'[i] = [rows[i] EXCEPT !.state = "error"]
    <3>1. WritesRows
      BY <2>1, RowsStep DEF FlowInv
    <3>2. DOMAIN rows = 1 .. Len(rows)
      BY <2>1 DEF FlowInv, IInv, Typed, RowsTyped
    <3> QED
      BY <2>1, <3>1, <3>2, RowsStayClosed DEF FlowInv
  <2> QED
    BY <2>1
<1> QED
  BY <1>1, <1>2, <1>3, PTL DEF Spec, ClosedRowStays

-----------------------------------------------------------------------------
(* What is over has ended                                                  *)

\* What excuses an instance that has not ended properly, and stays so.
Tangled ==
  \/ at = "split" \/ join \in {None, Failed}
  \/ boot # 0 /\ \E i \in 1 .. Len(rows) :
       diagram.type[rows[i].node] = "linkThrow" \/ LooksAtThem(diagram, rows[i].node)

\* Otherwise each row is behind the one that was written before it, and all but the last
\* are finished.
Lined ==
  \A i \in 1 .. Len(rows) : rows[i].prev = i - 1 /\ (i < Len(rows) => rows[i].state = "finished")
AllClosed == \A i \in 1 .. Len(rows) : Closed(rows[i])
Straight ==
  /\ Lined
  /\ at = "failed" => AllClosed
  /\ at = "over" => EndsProperly \/ rows = <<>>

\* The row that follows another one is at the flow node that one leads to.
LEMMA LinedPath ==
  ASSUME Typed, Lined, NEW i \in 1 .. Len(rows)
  PROVE  IsPath(rows, [k \in 1 .. i |-> k], i)
<1> DEFINE p == [k \in 1 .. i |-> k]
<1>1. Len(rows) \in Nat /\ i \in Nat /\ i > 0
  BY DEF Typed, RowsTyped
<1>2. p \in Seq(1 .. Len(rows)) /\ Len(p) = i /\ DOMAIN p = 1 .. i
  BY <1>1
<1>3. p # <<>>
  <2>1. Len(p) > 0
    BY <1>1, <1>2
  <2> HIDE DEF p
  <2> QED
    BY <2>1
<1>4. p[1] = 1 /\ p[Len(p)] = i /\ rows[1].prev = 0
  BY <1>1, <1>2 DEF Lined
<1>5. ASSUME NEW k \in 1 .. (Len(p) - 1) PROVE p[k] = rows[p[k + 1]].prev
  <2>1. p[k] = k /\ p[k + 1] = k + 1 /\ k + 1 \in 1 .. Len(rows) /\ k \in Nat
    BY <1>1, <1>2
  <2>2. rows[k + 1].prev = (k + 1) - 1
    BY <2>1 DEF Lined
  <2> QED
    BY <2>1, <2>2
<1> QED
  BY <1>2, <1>3, <1>4, <1>5 DEF IsPath

LEMMA NextRow ==
  ASSUME IInv, Lined, NEW i \in 1 .. Len(rows), i < Len(rows)
  PROVE  /\ i + 1 \in 1 .. Len(rows) /\ rows[i + 1].prev = i
         /\ Leads(rows, i, rows[i + 1].node) /\ rows[i + 1].node \in NodesOf(diagram)
         /\ rows[i + 1].node \notin {None, Failed}
<1>1. Len(rows) \in Nat /\ \A j \in 1 .. Len(rows) : rows[j] \in Rows
  BY DEF IInv, Typed, RowsTyped
<1>2. i + 1 \in 1 .. Len(rows) /\ i # 0 /\ (i + 1) - 1 = i
  BY <1>1
<1>3. rows[i + 1].prev = i
  BY <1>2 DEF Lined
<1>4. Leads(rows, i, rows[i + 1].node)
  BY <1>2, <1>3 DEF IInv, RowsLinked
<1>5. rows[i + 1].node \in NodesOf(diagram)
  BY <1>1, <1>2 DEF Rows
<1>6. rows[i + 1].node \notin {None, Failed}
  BY <1>5, DiagramsAssumption DEF IInv, Typed, RowsTyped
<1> QED
  BY <1>2, <1>3, <1>4, <1>5, <1>6

\* Nothing follows a flow node without a sequence flow, but behind a link; and nothing
\* follows one that several others follow.
LEMMA NothingLed ==
  ASSUME Typed, NEW i, NEW n, n \notin {None, Failed}, Leads(rows, i, n), ~LooksAtThem(diagram, rows[i].node),
         NEW p, IsPath(rows, p, i)
  PROVE  /\ diagram.type[rows[i].node] # "linkThrow" =>
              GetOutgoingSequenceFlowsFor(diagram, rows[i].node) # {}
         /\ LinksEnd => ~BranchesWithoutGateway(diagram, rows[i].node)
<1> DEFINE m == rows[i].node
<1>1. CASE Decides(m)
  <2>1. n = DetermineBranchToTake(diagram, m, Replay(rows, p))
    BY <1>1 DEF Leads
  <2>2. GetOutgoingSequenceFlowsFor(diagram, m) = {} =>
          DetermineBranchToTake(diagram, m, Replay(rows, p)) = Failed
    <3>1. SUFFICES ASSUME GetOutgoingSequenceFlowsFor(diagram, m) = {}
                   PROVE  DetermineBranchToTake(diagram, m, Replay(rows, p)) = Failed
      OBVIOUS
    <3>2. Truthy(diagram, m, Replay(rows, p)) = {} /\ DefaultFlows(diagram, m) = {}
      BY <3>1 DEF Truthy, DefaultFlows
    <3>3. Cardinality(Truthy(diagram, m, Replay(rows, p))) = 0
      BY <3>2, FS_EmptySet
    <3> QED
      BY <3>2, <3>3 DEF DetermineBranchToTake
  <2>3. ~BranchesWithoutGateway(diagram, m)
    BY <1>1 DEF Decides, BranchesWithoutGateway, IsGateway, GatewayTypes
  <2> QED
    BY <2>1, <2>2, <2>3
<1>2. CASE diagram.type[m] = "linkThrow"
  BY <1>2, EndGoesNowhere
<1>3. CASE ~Decides(m) /\ diagram.type[m] # "linkThrow"
  <2>1. n = Behind(diagram, m)
    BY <1>3 DEF Leads
  <2> QED
    BY <2>1, EndGoesNowhere DEF Behind
<1> QED
  BY <1>1, <1>2, <1>3

\* So a handler that goes on nowhere, or cannot, is at the last row.
LEMMA LastWhereNothingFollows ==
  ASSUME LinksEnd, FlowInv, Lined, ~Tangled, mine \in 1 .. Len(rows), rows[mine].node = here,
         \/ BranchesWithoutGateway(diagram, here)
         \/ GetOutgoingSequenceFlowsFor(diagram, here) = {}
  PROVE  mine = Len(rows)
<1>1. Len(rows) \in Nat /\ Typed /\ IInv
  BY DEF FlowInv, IInv, Typed, RowsTyped
<1>2. SUFFICES ASSUME mine < Len(rows) PROVE FALSE
  BY <1>1
<1>3. boot # 0
  BY <1>2 DEF FlowInv, Onward
<1>4. diagram.type[here] # "linkThrow" /\ ~LooksAtThem(diagram, here)
  BY <1>3 DEF Tangled
<1>5. IsPath(rows, [k \in 1 .. mine |-> k], mine)
  BY <1>1, LinedPath
<1>6. Leads(rows, mine, rows[mine + 1].node) /\ rows[mine + 1].node \notin {None, Failed}
  BY <1>1, <1>2, NextRow
<1> QED
  BY <1>1, <1>4, <1>5, <1>6, NothingLed

\* And a handler that is executed is behind the last row.
LEMMA LastWhereExecuted ==
  ASSUME FlowInv, Lined, ~Tangled, at = "next", NextInstances = {}
  PROVE  mine = Len(rows)
<1>1. /\ Len(rows) \in Nat /\ Typed /\ IInv /\ mine \in 0 .. Len(rows) /\ DOMAIN rows = 1 .. Len(rows)
  BY DEF FlowInv, IInv, Typed, RowsTyped, HandlerTyped
<1>2. SUFFICES ASSUME mine < Len(rows) PROVE FALSE
  <2>1. mine \in 0 .. Len(rows) /\ Len(rows) \in Nat
    BY <1>1
  <2> QED
    BY <2>1
<1>3. boot # 0
  BY <1>2 DEF FlowInv, Onward
<1>4. CASE mine = 0
  <2>1. 1 \in 1 .. Len(rows) /\ rows[1].prev = 0
    BY <1>1, <1>2, <1>4 DEF Lined
  <2>2. rows[1].node = here
    BY <1>1, <1>4, <2>1 DEF IInv, RowsLinked, Standing, Following
  <2> QED
    BY <1>1, <1>4, <2>1, <2>2 DEF NextInstances
<1>5. CASE mine # 0
  <2>1. mine \in 1 .. Len(rows)
    BY <1>1, <1>5
  <2>2. /\ mine + 1 \in 1 .. Len(rows) /\ rows[mine + 1].prev = mine
        /\ Leads(rows, mine, rows[mine + 1].node)
    BY <1>1, <1>2, <2>1, NextRow
  <2>3. Leads(rows, mine, here)
    BY <1>1, <1>5 DEF IInv, Standing, Following
  <2>4. ~LooksAtThem(diagram, rows[mine].node)
    BY <1>3, <2>1 DEF Tangled
  <2>5. rows[mine + 1].node = here
    <3>1. PICK p : IsPath(rows, p, mine)
      BY <1>1, <2>1, LinedPath
    <3> QED
      BY <2>2, <2>3, <2>4, <3>1, LeadsToOne
  <2> QED
    BY <1>1, <2>2, <2>5 DEF NextInstances
<1> QED
  BY <1>4, <1>5

LEMMA TangledStays ==
  ASSUME LinksEnd, EndsEnd, FlowInv, FlowInv', Next, Tangled
  PROVE  Tangled'
<1>1. IInv /\ IInv' /\ diagram' = diagram /\ boot' >= boot /\ boot \in Nat /\ boot' \in Nat
  BY DiagramStays DEF FlowInv, IInv, Typed, HandlerTyped
<1>2. at # "split" \/ at' = "split"
  <2>1. AtRow => at # "split"
    BY DEF AtRow, Events, StartEvent, EmptyEvent, EndEvent, LinkCatchEvent, LinkThrowEvent, MessageThrowEvent,
           SignalThrowEvent, MessageCatchEvent, SignalCatchEvent, TimerCatchEvent, TimerStartEvent, UserTask,
           TimerIsInvalid, FinishWait, Outside, MessageArrives, SignalArrives, TaskIsAnswered, TimerElapses,
           TimerStartElapses, ScriptTask, ServiceTask, ExclusiveGateway, Entered, Waiting
  <2>2. ParallelSplitGateway \/ Handling \/ Stop => at # "split"
    BY DEF ParallelSplitGateway, Entered, Handling, Execute, HandleNextFlowNode, Resolve, NextIsUnclear, Reject,
           Stop
  <2>3. Resumption => at # "split"
    BY DEF Resumption, ResumeProcessInstance, ContinueAfterEnter, ContinueAfterSuspend, ContinueAfterResume,
           ContinueAfterExit, CannotResume, Retraces
  <2> QED
    BY <2>1, <2>2, <2>3 DEF Next, System, AtRow
<1>3. join' = join \/ Tangled'
  <2>1. AtRow => join' = join
    BY <1>1, HandlerSteps
       DEF LeavesRow, FailsAtRow, WaitsAtRow, SticksAtRow, Handles, KeptByEvents
  <2>2. ParallelSplitGateway => Tangled'
    BY <1>1, SplitSteps DEF Tangled
  <2>3. Handling \/ Stop => join' = join
    BY DEF Handling, Execute, HandleNextFlowNode, Resolve, NextIsUnclear, Reject, Stop
  <2>4. Resumption => join' = join
    BY DEF Resumption, ResumeProcessInstance, ContinueAfterEnter, ContinueAfterSuspend, ContinueAfterResume,
           ContinueAfterExit, CannotResume, KeptByResume
  <2> QED
    BY <2>1, <2>2, <2>3, <2>4 DEF Next, System, AtRow
<1>4. ASSUME boot # 0, NEW i \in 1 .. Len(rows),
             diagram.type[rows[i].node] = "linkThrow" \/ LooksAtThem(diagram, rows[i].node)
      PROVE  Tangled'
  <2>1. Extends(rows, rows')
    BY <1>1, RowsStep, RowsExtend DEF FlowInv
  <2>2. i \in 1 .. Len(rows') /\ rows'[i].node = rows[i].node
    <3>1. Len(rows) \in Nat /\ Len(rows') \in Nat
      BY <1>1 DEF IInv, Typed, RowsTyped
    <3> QED
      BY <2>1, <3>1 DEF Extends
  <2>3. boot' # 0
    BY <1>1, <1>4
  <2> QED
    BY <1>1, <1>4, <2>2, <2>3 DEF Tangled
<1> QED
  BY <1>2, <1>3, <1>4 DEF Tangled

\* An open row is the last one.
LEMMA OpenIsLast ==
  ASSUME IInv, Lined, NEW m \in 1 .. Len(rows), rows[m].state # "finished"
  PROVE  m = Len(rows)
<1>1. Len(rows) \in Nat
  BY DEF IInv, Typed, RowsTyped
<1> QED
  BY <1>1 DEF Lined

LEMMA LastRowChanges ==
  ASSUME IInv, Lined, NEW m \in 1 .. Len(rows), m = Len(rows), NEW state, NEW payload, Changes(m, state, payload)
  PROVE  Lined' /\ (state \in {"finished", "error"} => AllClosed')
<1>1. Len(rows') = Len(rows) /\ Len(rows) \in Nat /\ rows[m] \in Rows
  <2>1. rows \in Seq(Rows) /\ Len(rows) \in Nat
    BY DEF IInv, Typed, RowsTyped
  <2>2. Len(rows') = Len(rows)
    BY DEF Changes
  <2> QED
    BY <2>1, <2>2
<1>2. /\ \A i \in 1 .. Len(rows) : i # m => rows'[i] = rows[i]
      /\ rows'[m] = [rows[m] EXCEPT !.state = state, !.left = payload]
  BY DEF Changes
<1>3. rows'[m].state = state /\ rows'[m].prev = rows[m].prev
  BY <1>1, <1>2 DEF Rows
<1>4. \A i \in 1 .. Len(rows) : i # m => i < Len(rows) /\ rows[i].state = "finished"
  BY <1>1 DEF Lined
<1>5. Lined'
  <2>1. SUFFICES ASSUME NEW i \in 1 .. Len(rows)
                 PROVE  rows'[i].prev = i - 1 /\ (i < Len(rows) => rows'[i].state = "finished")
    BY <1>1 DEF Lined
  <2>2. rows[i].prev = i - 1
    BY DEF Lined
  <2>3. CASE i = m
    BY <1>1, <1>3, <2>2, <2>3
  <2>4. CASE i # m
    BY <1>2, <1>4, <2>2, <2>4
  <2> QED
    BY <2>3, <2>4
<1>6. ASSUME state \in {"finished", "error"}, NEW i \in 1 .. Len(rows) PROVE Closed(rows'[i])
  <2>1. CASE i = m
    BY <1>3, <1>6, <2>1 DEF Closed
  <2>2. CASE i # m
    BY <1>2, <1>4, <2>2 DEF Closed
  <2> QED
    BY <2>1, <2>2
<1> QED
  BY <1>1, <1>5, <1>6 DEF AllClosed

LEMMA LinedClosed ==
  ASSUME IInv, Lined, rows = <<>> \/ Closed(rows[Len(rows)])
  PROVE  AllClosed
<1>1. rows \in Seq(Rows) /\ Len(rows) \in Nat
  BY DEF IInv, Typed, RowsTyped
<1>2. \A i \in 1 .. Len(rows) : i = Len(rows) \/ i < Len(rows)
  BY <1>1
<1> QED
  BY <1>1, <1>2 DEF Lined, AllClosed, Closed

\* An instance is closed after the last of its rows.
LEMMA ClosesProperly ==
  ASSUME IInv, AllClosed, rows' = rows, diagram' = diagram,
         \/ proc' = "error"
         \/ /\ proc' = "finished"
            /\ GetOutgoingSequenceFlowsFor(diagram, rows[Len(rows)].node) = {}
            /\ diagram.type[rows[Len(rows)].node] # "linkThrow"
  PROVE  EndsProperly'
<1>1. DOMAIN rows = 1 .. Len(rows)
  BY DEF IInv, Typed, RowsTyped
<1>2. \A i \in DOMAIN rows' : ~IsOpen(rows'[i])
  BY <1>1 DEF AllClosed, Closed, IsOpen
<1> QED
  BY <1>2 DEF EndsProperly, GetNextFlowNodesFor

LEMMA HandlerStraight ==
  ASSUME IInv, Straight, LeavesRow \/ FailsAtRow \/ WaitsAtRow \/ SticksAtRow
  PROVE  Straight'
<1>1. /\ mine \in 1 .. Len(rows) /\ ~Closed(rows[mine])
      /\ at' \in {"left", "failed", "waiting", "resumed", "stuck"} /\ Lined
  BY DEF LeavesRow, FailsAtRow, WaitsAtRow, SticksAtRow, Handles, Straight
<1>2. mine = Len(rows)
  BY <1>1, OpenIsLast DEF Closed
<1>3. Lined'
  BY <1>1, <1>2, LastRowChanges DEF LeavesRow, FailsAtRow, WaitsAtRow, SticksAtRow, Lined
<1>4. at' = "failed" => AllClosed'
  BY <1>1, <1>2, LastRowChanges DEF LeavesRow, FailsAtRow, WaitsAtRow, SticksAtRow
<1> QED
  BY <1>1, <1>3, <1>4 DEF Straight

LEMMA ExecuteStraight ==
  ASSUME FlowInv, Straight, ~Tangled, Execute
  PROVE  Straight'
<1>1. /\ IInv /\ Lined /\ at = "next" /\ NextInstances = {} /\ rows \in Seq(Rows) /\ Len(rows) \in Nat
  BY DEF FlowInv, IInv, Typed, RowsTyped, Straight, Execute
<1>2. mine = Len(rows)
  BY <1>1, LastWhereExecuted
<1>3. rows = <<>> \/ rows[Len(rows)].state = "finished"
  <2>1. mine # 0 => rows[mine].state = "finished"
    BY <1>1 DEF FlowInv, Onward
  <2>2. Len(rows) = 0 => rows = <<>>
    BY <1>1
  <2> QED
    BY <1>2, <2>1, <2>2
<1>4. CASE Supported
  <2> DEFINE r == [node |-> here, prev |-> mine, state |-> "running", entered |-> token, left |-> token]
  <2>1. rows' = Append(rows, r) /\ r.prev = mine /\ at' = "entered"
    BY <1>4 DEF Execute
  <2> HIDE DEF r
  <2>2. Len(rows') = Len(rows) + 1 /\ rows'[Len(rows) + 1] = r /\ \A i \in 1 .. Len(rows) : rows'[i] = rows[i]
    BY <1>1, <2>1
  <2>3. ASSUME NEW i \in 1 .. Len(rows')
        PROVE  rows'[i].prev = i - 1 /\ (i < Len(rows') => rows'[i].state = "finished")
    <3>1. CASE i = Len(rows) + 1
      BY <1>1, <1>2, <2>1, <2>2, <3>1
    <3>2. CASE i \in 1 .. Len(rows)
      <4>1. i = Len(rows) \/ i < Len(rows)
        BY <1>1, <3>2
      <4>2. rows # <<>>
        BY <1>1, <3>2
      <4> QED
        BY <1>1, <1>3, <2>2, <3>2, <4>1, <4>2 DEF Lined
    <3> QED
      BY <1>1, <2>2, <3>1, <3>2
  <2> QED
    BY <2>1, <2>3 DEF Straight, Lined
<1>5. CASE ~Supported
  <2>1. rows' = rows /\ at' = "failed"
    BY <1>5 DEF Execute, Fails
  <2>2. AllClosed
    BY <1>1, <1>3, LinedClosed DEF Closed
  <2> QED
    BY <1>1, <2>1, <2>2 DEF Straight, Lined, AllClosed
<1> QED
  BY <1>4, <1>5

LEMMA HandlingStraight ==
  ASSUME LinksEnd, EndsEnd, FlowInv, Straight, ~Tangled, Handling \/ Stop
  PROVE  Straight'
<1>1. IInv /\ Lined /\ Len(rows) \in Nat
  BY DEF FlowInv, IInv, Typed, RowsTyped, Straight
<1>2. CASE HandleNextFlowNode \/ Stop
  BY <1>1, <1>2 DEF HandleNextFlowNode, Stop, dbVars, Straight, Lined
<1>3. CASE Resolve
  <2>1. /\ at \in {"left", "closing"} /\ onward = None /\ at' = "over" /\ proc' = "finished"
        /\ rows' = rows /\ diagram' = diagram
    BY <1>3 DEF Resolve
  <2>2. mine \in 1 .. Len(rows) /\ rows[mine].node = here
    BY <1>1, <2>1, EnteredRow DEF IInv, AtItsRow
  <2>3. rows[mine].state = "finished" /\ GetOutgoingSequenceFlowsFor(diagram, here) = {}
    BY <2>1 DEF FlowInv, Onward, GoesOn
  <2>4. Type # "linkThrow"
    <3>1. Type = "linkThrow" => boot # 0
      BY <2>1 DEF FlowInv, Onward
    <3> QED
      BY <2>2, <3>1 DEF Tangled, Type
  <2>5. mine = Len(rows)
    BY <1>1, <2>2, <2>3, LastWhereNothingFollows
  <2>6. AllClosed
    BY <1>1, <2>3, <2>5, LinedClosed DEF Closed
  <2>7. EndsProperly'
    BY <1>1, <2>1, <2>2, <2>3, <2>4, <2>5, <2>6, ClosesProperly DEF Type
  <2> QED
    BY <1>1, <2>1, <2>7 DEF Straight, Lined
<1>4. CASE NextIsUnclear
  <2>1. /\ at \in {"left", "closing"} /\ onward = Failed /\ at' \in {"stuck", "failed"}
        /\ Becomes("error") \/ rows' = rows
    BY <1>4 DEF NextIsUnclear, Fails
  <2>2. mine \in 1 .. Len(rows) /\ rows[mine].node = here /\ RowsTyped
    BY <1>1, <2>1, EnteredRow DEF IInv, AtItsRow
  <2>3. rows[mine].state = "finished" /\ BranchesWithoutGateway(diagram, here)
    BY <2>1 DEF FlowInv, Onward, GoesOn
  <2>4. mine = Len(rows)
    BY <1>1, <2>2, <2>3, LastWhereNothingFollows
  <2>5. CASE Becomes("error")
    <3>1. Changes(mine, "error", rows[mine].left)
      BY <2>2, <2>5, BecomesChanges DEF RowStates
    <3> QED
      BY <1>1, <2>1, <2>2, <2>4, <3>1, LastRowChanges DEF Straight
  <2>6. CASE rows' = rows
    <3>1. AllClosed
      BY <1>1, <2>3, <2>4, LinedClosed DEF Closed
    <3> QED
      BY <1>1, <2>1, <2>6, <3>1 DEF Straight, Lined, AllClosed
  <2> QED
    BY <2>1, <2>5, <2>6
<1>5. CASE Reject
  <2>1. at = "failed" /\ at' = "over" /\ proc' = "error" /\ rows' = rows /\ diagram' = diagram
    BY <1>5 DEF Reject
  <2>2. EndsProperly'
    BY <1>1, <2>1, ClosesProperly DEF Straight
  <2> QED
    BY <1>1, <2>1, <2>2 DEF Straight, Lined
<1> QED
  BY <1>2, <1>3, <1>4, <1>5, ExecuteStraight DEF Handling

\* Where a flow node is retraced that fails again, or at which several others follow, it is
\* the last one.
LEMMA LastWhereFails ==
  ASSUME LinksEnd, FlowInv, Lined, ~Tangled, NEW m \in 1 .. Len(rows), at = "next", boot # 0,
         rows[m].node = here, rows[m].prev = mine, rows[m].state = "finished",
         LET seen == Append(results, Result(here, m, rows[m].left))
         IN IF Type = "exclusive" THEN Decided(seen) = Failed ELSE NextBehind = Failed
  PROVE  m = Len(rows)
<1> DEFINE seen == Append(results, Result(here, m, rows[m].left))
<1>1. Len(rows) \in Nat /\ Typed /\ IInv /\ Closed(rows[m])
  BY DEF FlowInv, IInv, Typed, RowsTyped, Closed
<1>2. SUFFICES ASSUME m < Len(rows) PROVE FALSE
  BY <1>1
<1>3. ~LooksAtThem(diagram, here)
  BY DEF Tangled
<1>4. PICK p : IsPath(rows, p, m)
  BY <1>1, LinedPath
<1>5. Leads(rows, m, rows[m + 1].node) /\ rows[m + 1].node \notin {None, Failed}
  BY <1>1, <1>2, NextRow
<1>6. CASE Decides(here)
  <2>1. Decided(seen) = DetermineBranchToTake(diagram, here, Replay(rows, p))
    BY <1>1, <1>3, <1>4, <1>6, GatewayRetraced
  <2>2. Type = "exclusive"
    BY <1>6 DEF Decides, Type
  <2>3. rows[m + 1].node = DetermineBranchToTake(diagram, here, Replay(rows, p))
    BY <1>3, <1>4, <1>5, <1>6 DEF Leads
  <2> QED
    BY <1>5, <2>1, <2>2, <2>3
<1>7. CASE ~Decides(here)
  <2>1. NextBehind = Failed
    BY <1>7 DEF Decides, Decided, Type
  <2>2. BranchesWithoutGateway(diagram, here)
    BY <1>1, <2>1, NextBehindGoesOn DEF GoesOn
  <2> QED
    BY <1>1, <1>3, <1>4, <1>5, <2>2, NothingLed
<1> QED
  BY <1>6, <1>7

LEMMA ResumptionStraight ==
  ASSUME LinksEnd, EndsEnd, FlowInv, Straight, ~Tangled, Resumption
  PROVE  Straight'
<1>1. IInv /\ Typed /\ RowsTyped /\ Lined /\ Len(rows) \in Nat /\ DOMAIN rows = 1 .. Len(rows)
  BY DEF FlowInv, IInv, Typed, RowsTyped, Straight
<1>2. CASE ResumeProcessInstance
  <2>1. CASE ~IsOrphaned
    BY <1>1, <1>2, <2>1 DEF ResumeProcessInstance, Straight, Lined
  <2>2. CASE IsOrphaned
    <3>1. at' = "over" /\ proc' = "finished" /\ rows' = rows /\ diagram' = diagram /\ boot # 0
      BY <1>2, <2>2 DEF ResumeProcessInstance, FlowInv, Onward
    <3>2. AllClosed
      <4>1. \A i \in 1 .. Len(rows) : rows[i].state \in RowStates
        <5>1. \A i \in 1 .. Len(rows) : rows[i] \in Rows
          BY <1>1 DEF RowsTyped
        <5> QED
          BY <5>1 DEF Rows
      <4> QED
        BY <1>1, <2>2, <4>1 DEF IsOrphaned, HasActiveFlowNodeInstances, AllClosed, Closed, RowStates
    <3>3. PICK i \in 1 .. Len(rows) : diagram.type[rows[i].node] = "end"
      BY <1>1, <2>2 DEF IsOrphaned, HasReachedAnEndEvent, EndRows
    <3>4. GetOutgoingSequenceFlowsFor(diagram, rows[i].node) = {}
      BY <1>1, <3>3, EndGoesNowhere
    <3>5. i = Len(rows)
      <4>1. SUFFICES ASSUME i < Len(rows) PROVE FALSE
        <5>1. Len(rows) \in Nat /\ i \in 1 .. Len(rows)
          BY <1>1
        <5> QED
          BY <5>1
      <4>2. PICK p : IsPath(rows, p, i)
        BY <1>1, LinedPath
      <4>3. ~LooksAtThem(diagram, rows[i].node)
        BY <3>1 DEF Tangled
      <4>4. Leads(rows, i, rows[i + 1].node) /\ rows[i + 1].node \notin {None, Failed}
        BY <1>1, <4>1, NextRow
      <4>5. diagram.type[rows[i].node] # "linkThrow"
        BY <3>3
      <4> QED
        BY <1>1, <3>4, <4>2, <4>3, <4>4, <4>5, NothingLed
    <3>6. EndsProperly'
      BY <1>1, <3>1, <3>2, <3>3, <3>4, <3>5, ClosesProperly
    <3> QED
      BY <1>1, <3>1, <3>6 DEF Straight, Lined
  <2> QED
    BY <2>1, <2>2
<1>3. CASE ContinueAfterEnter \/ ContinueAfterSuspend
  BY <1>1, <1>3 DEF ContinueAfterEnter, ContinueAfterSuspend, Straight, Lined
<1>4. CASE ContinueAfterResume
  <2>1. /\ mine' \in 1 .. Len(rows) /\ rows[mine'].state = "resumed" /\ rows[mine'] \in Rows
        /\ at' = "closing" /\ rows' = [rows EXCEPT ![mine'].state = "finished"]
    BY <1>1, <1>4, FoundRow DEF ContinueAfterResume
  <2>2. /\ rows[mine'].left \in Payloads
        /\ rows' = [rows EXCEPT ![mine'].state = "finished", ![mine'].left = rows[mine'].left]
    BY <1>1, <2>1 DEF RowsTyped, Rows
  <2>3. Changes(mine', "finished", rows[mine'].left)
    BY <1>1, <2>1, <2>2, ReplacedChanges DEF RowStates
  <2>4. mine' = Len(rows)
    BY <1>1, <2>1, OpenIsLast
  <2>5. Lined'
    BY <1>1, <2>1, <2>3, <2>4, LastRowChanges
  <2> QED
    BY <2>1, <2>5 DEF Straight
<1>5. CASE ContinueAfterExit
  <2> DEFINE seen == Append(results, Result(here, mine', rows[mine'].left))
             fails == IF Type = "exclusive" THEN Decided(seen) = Failed ELSE NextBehind = Failed
  <2>1. /\ mine' \in 1 .. Len(rows) /\ rows[mine'].state = "finished" /\ rows[mine'] \in Rows
        /\ rows[mine'].node = here /\ rows[mine'].prev = mine /\ at = "next" /\ boot # 0
        /\ \/ ~fails /\ at' = "closing" /\ rows' = rows
           \/ fails /\ at' = "failed" /\ rows' = rows
           \/ fails /\ at' = "failed" /\ rows' = [rows EXCEPT ![mine'].state = "error"]
    BY <1>1, <1>5, FoundRow, RetracesAfterRestart DEF ContinueAfterExit, RestoredResult, Fails, FlowInv
  <2>2. fails => mine' = Len(rows)
    BY <1>1, <2>1, LastWhereFails
  <2> HIDE DEF fails
  <2>3. CASE at' = "closing" /\ rows' = rows
    BY <1>1, <2>3 DEF Straight, Lined
  <2>4. CASE fails /\ at' = "failed" /\ rows' = rows
    <3>1. AllClosed
      BY <1>1, <2>1, <2>2, <2>4, LinedClosed DEF Closed
    <3> QED
      BY <1>1, <2>4, <3>1 DEF Straight, Lined, AllClosed
  <2>5. CASE fails /\ at' = "failed" /\ rows' = [rows EXCEPT ![mine'].state = "error"]
    <3>1. /\ rows[mine'].left \in Payloads
          /\ rows' = [rows EXCEPT ![mine'].state = "error", ![mine'].left = rows[mine'].left]
      BY <1>1, <2>1, <2>5 DEF RowsTyped, Rows
    <3>2. Changes(mine', "error", rows[mine'].left)
      BY <1>1, <2>1, <3>1, ReplacedChanges DEF RowStates
    <3>3. Lined' /\ AllClosed'
      BY <1>1, <2>1, <2>2, <2>5, <3>2, LastRowChanges
    <3> QED
      BY <2>5, <3>3 DEF Straight
  <2> QED
    BY <2>1, <2>3, <2>4, <2>5
<1>6. CASE CannotResume
  <2>1. mine' \in 1 .. Len(rows) /\ rows[mine'].state = "error" /\ rows' = rows /\ at' = "failed"
    BY <1>1, <1>6, FoundRow DEF CannotResume, Fails
  <2>2. mine' = Len(rows)
    BY <1>1, <2>1, OpenIsLast
  <2>3. AllClosed
    BY <1>1, <2>1, <2>2, LinedClosed DEF Closed
  <2> QED
    BY <1>1, <2>1, <2>3 DEF Straight, Lined, AllClosed
<1> QED
  BY <1>2, <1>3, <1>4, <1>5, <1>6 DEF Resumption

EndInv == FlowInv /\ (Tangled \/ Straight)

LEMMA InitEnd ==
  ASSUME Init
  PROVE  EndInv
<1>1. rows = <<>> /\ Len(rows) = 0 /\ at = "next"
  BY DEF Init
<1> QED
  BY <1>1, InitFlow DEF EndInv, Straight, Lined

LEMMA StepEnd ==
  ASSUME LinksEnd, EndsEnd, EndInv, [Next]_vars
  PROVE  EndInv'
<1>1. FlowInv /\ FlowInv' /\ IInv
  BY StepFlow DEF EndInv, FlowInv
<1>2. CASE Next /\ Tangled
  BY <1>1, <1>2, TangledStays DEF EndInv
<1>3. CASE Next /\ Straight /\ ~Tangled
  <2>1. CASE AtRow
    BY <1>1, <1>3, <2>1, HandlerSteps, HandlerStraight DEF EndInv
  <2>2. CASE ParallelSplitGateway
    BY <1>1, <2>2, SplitSteps DEF EndInv, Tangled
  <2> QED
    BY <1>1, <1>3, <2>1, <2>2, HandlingStraight, ResumptionStraight DEF EndInv, Next, System, AtRow
<1>4. CASE UNCHANGED vars
  BY <1>1, <1>4
     DEF vars, dbVars, handlerVars, EndInv, Tangled, Straight, Lined, AllClosed, EndsProperly
<1> QED
  BY <1>2, <1>3, <1>4 DEF EndInv

\* Whoever closes an instance leaves no row open, and finishes it only where nothing follows:
\* for every diagram in which nothing leads on from a link throw or an end event, loops
\* included, any number of restarts, and but for the cases the code does not handle.
THEOREM OverWhenEnded ==
  ASSUME LinksEnd, EndsEnd
  PROVE  Spec => []EndsWhenOver
<1>1. Init => EndInv
  BY InitEnd
<1>2. EndInv /\ [Next]_vars => EndInv'
  BY StepEnd
<1>3. EndInv => EndsWhenOver
  <2>1. SUFFICES ASSUME EndInv, at = "over", Tangled PROVE Excused
    BY DEF EndInv, EndsWhenOver, Straight, Excused
  <2>2. boot \in Nat /\ DOMAIN rows = 1 .. Len(rows)
    BY <2>1 DEF EndInv, FlowInv, IInv, Typed, RowsTyped, HandlerTyped
  <2> QED
    BY <2>1, <2>2 DEF Tangled, Excused
<1> QED
  BY <1>1, <1>2, <1>3, PTL DEF Spec
=============================================================================
