---------------------------- MODULE ProcessModel ----------------------------
(***************************************************************************)
(* A diagram, and what ProcessModelFacade answers about it.                *)
(*                                                                         *)
(* A diagram d has the type of each flow node (d.type), the sequence flows *)
(* (d.flows, each with source, target, when and its place in the file),    *)
(* the names of its links (d.link), the throw events that configure the    *)
(* payload they send (d.inputs), the tasks without a script or invocation  *)
(* (d.unset), the flow nodes configured wrongly (d.broken) and the answers *)
(* that lead round in a loop (d.again).  A sequence flow is taken always,  *)
(* by default, or if a value of the token has been seen: the current one   *)
(* or that of a flow node in its history.                                  *)
(***************************************************************************)
EXTENDS Integers, Sequences, FiniteSets, SequencesExt

None == "none"       \* undefined
Failed == "failed"   \* an exception

NodesOf(d) == DOMAIN d.type
GatewayTypes == {"parallel", "exclusive"}
IsGateway(d, n) == d.type[n] \in GatewayTypes

GetSingleStartEvent(d) == CHOOSE n \in NodesOf(d) : d.type[n] \in {"start", "timerStart"}

GetOutgoingSequenceFlowsFor(d, n) == {f \in d.flows : f.source = n}
GetIncomingSequenceFlowsFor(d, n) == {f \in d.flows : f.target = n}

\* Only a gateway may have several outgoing sequence flows.
BranchesWithoutGateway(d, n) == ~IsGateway(d, n) /\ Cardinality(GetOutgoingSequenceFlowsFor(d, n)) > 1
GetNextFlowNodesFor(d, n) == {f.target : f \in GetOutgoingSequenceFlowsFor(d, n)}

\* Where the first of some sequence flows leads.
FirstTarget(flows) == (CHOOSE f \in flows : \A g \in flows : f.place <= g.place).target

GetLinkCatchEventsByLinkName(d, name) ==
  {n \in NodesOf(d) : d.type[n] = "linkCatch" /\ d.link[n] = name}

\* Gateway.gatewayDirection.
GatewayDirection(d, n) ==
  LET joins == Cardinality(GetIncomingSequenceFlowsFor(d, n)) > 1
      splits == Cardinality(GetOutgoingSequenceFlowsFor(d, n)) > 1
  IN IF splits THEN IF joins THEN "Mixed" ELSE "Diverging"
     ELSE IF joins THEN "Converging" ELSE "Unspecified"

-----------------------------------------------------------------------------
(* findJoinGatewayAfterSplitGateway                                        *)

IsSplit(d, n) == IsGateway(d, n) /\ GatewayDirection(d, n) = "Diverging"

AnyOfItsType(d, n, split) == d.type[n] = d.type[split]
IsJoinOfItsType(d, n, split) == d.type[n] = d.type[split] /\ GatewayDirection(d, n) # "Diverging"

\* How the search goes on behind a flow node: on the first branch, if there is one.
FirstNext(d, n) ==
  LET flows == GetOutgoingSequenceFlowsFor(d, n)
  IN CASE BranchesWithoutGateway(d, n) -> {Failed}
       [] ~BranchesWithoutGateway(d, n) /\ flows # {} -> {FirstTarget(flows)}
       [] OTHER -> {}

\* The verdict on what the branches led to, those left out that led nowhere.  (Bound as
\* the element of a set, they are looked for once.)
Agreed(founds) == UNION {IF Cardinality(found) > 1 THEN {Failed} ELSE found : found \in {founds}}

\* Along one branch, from n: the set of the join that it leads to, empty if there is
\* none.  A nested split is skipped up to what it leads to, and has to lead somewhere.
TravelToJoinGateway(d) ==
  LET travel[split \in NodesOf(d), n \in NodesOf(d) \cup {Failed}, parent \in NodesOf(d) \cup {None}] ==
        LET goOn(m) == UNION {travel[split, next, parent] : next \in FirstNext(d, m)}
            skip(nested) == IF nested = Failed THEN {Failed} ELSE goOn(nested)
            orFail(founds) == UNION {IF found = {} THEN {Failed} ELSE found : found \in {founds}}
            discovered == Agreed(UNION {travel[n, next, split] : next \in GetNextFlowNodesFor(d, n)})
        IN CASE n = Failed -> {Failed}
             [] n # Failed /\ IsJoinOfItsType(d, n, split) -> {n}
             [] n # Failed /\ IsSplit(d, n) -> UNION {skip(nested) : nested \in orFail(discovered)}
             [] OTHER -> IF IsGateway(d, n) /\ parent # None /\ d.type[n] = d.type[parent] THEN {n} ELSE goOn(n)
  IN travel

DiscoverJoinGateway(d, split, parent) ==
  Agreed(UNION {TravelToJoinGateway(d)[split, n, parent] : n \in GetNextFlowNodesFor(d, split)})

FindJoinGatewayAfterSplitGateway(d, split) ==
  LET discovered == DiscoverJoinGateway(d, split, None)
  IN CASE \E n \in NodesOf(d) : n \in discovered -> CHOOSE n \in NodesOf(d) : n \in discovered
       [] discovered = {} -> None
       [] OTHER -> Failed

-----------------------------------------------------------------------------
(* ProcessTokenFacade                                                      *)

Result(n, row, value) == [node |-> n, row |-> row, value |-> value]

\* getOldTokenFormat: a flow node that was executed again has its last result.
HistoryOf(results, n) ==
  LET seen == {i \in DOMAIN results : results[i].node = n}
  IN IF seen = {} THEN None
     ELSE results[CHOOSE i \in seen : \A j \in seen : j <= i].value
CurrentOf(results) == Last(results).value

\* The value a condition looks at.
ValueOf(results, of) == IF of = "current" THEN CurrentOf(results) ELSE HistoryOf(results, of)

-----------------------------------------------------------------------------
(* ExclusiveGatewayHandler.determineBranchToTake                           *)

Truthy(d, n, results) ==
  {f \in GetOutgoingSequenceFlowsFor(d, n) :
     f.when.kind = "condition" /\ ValueOf(results, f.when.of) = f.when.is}
DefaultFlows(d, n) == {f \in GetOutgoingSequenceFlowsFor(d, n) : f.when.kind = "default"}

DetermineBranchToTake(d, n, results) ==
  LET truthy == Truthy(d, n, results)
  IN CASE Cardinality(truthy) = 1 -> FirstTarget(truthy)
       [] truthy = {} /\ DefaultFlows(d, n) # {} -> FirstTarget(DefaultFlows(d, n))
       [] OTHER -> Failed
=============================================================================
