---------------------------- MODULE MCProcessFlow ----------------------------
(* Twenty diagrams that are walked through,  and all diagrams of a split with *)
(* four flow nodes behind it.                                                 *)
EXTENDS ProcessFlow

Always == [kind |-> "always", of |-> "", is |-> ""]
Default == [kind |-> "default", of |-> "", is |-> ""]
If(of, is) == [kind |-> "condition", of |-> of, is |-> is]
Flow(from, to) == [source |-> from, target |-> to, when |-> Always]
Branch(from, to, when) == [source |-> from, target |-> to, when |-> when]
Diagram(type, flows) ==
  [type |-> type, link |-> [n \in {} |-> None],
   flows |-> {[source |-> flows[i].source, target |-> flows[i].target,
               when |-> flows[i].when, place |-> i] : i \in DOMAIN flows},
   inputs |-> {}, unset |-> {}, broken |-> {}, again |-> {}]

\* A message decides on the branch; one of them waits for a timer.
Message == Diagram(
  [s |-> "start", m |-> "messageCatch", x |-> "exclusive", t |-> "timerCatch", e |-> "empty", j |-> "exclusive",
   g |-> "signalCatch", end |-> "end"],
  <<Flow("s", "m"), Flow("m", "x"), Branch("x", "t", If("m", "yes")), Branch("x", "e", Default),
    Flow("t", "j"), Flow("e", "j"), Flow("j", "g"), Flow("g", "end")>>)
\* The same, by the current value; both conditions may be false.
Current == Diagram(
  [s |-> "timerStart", m |-> "messageCatch", x |-> "exclusive", t |-> "signalThrow", e |-> "empty", end |-> "end"],
  <<Flow("s", "m"), Flow("m", "x"), Branch("x", "t", If("current", "yes")), Branch("x", "e", If("current", "in")),
    Flow("t", "end"), Flow("e", "end")>>)
\* Two conditions that may both hold.
Both == Diagram(
  [s |-> "start", u |-> "userTask", x |-> "exclusive", e |-> "end", f |-> "end"],
  <<Flow("s", "u"), Flow("u", "x"), Branch("x", "e", If("u", "yes")), Branch("x", "f", If("s", "in"))>>)
\* A user who may want to go round again.
Loop == [Diagram(
  [s |-> "start", j |-> "exclusive", u |-> "userTask", x |-> "exclusive", end |-> "end"],
  <<Flow("s", "j"), Flow("j", "u"), Flow("u", "x"), Branch("x", "j", If("u", "no")), Branch("x", "end", Default)>>)
  EXCEPT !.again = {"no"}]
\* A branch that depends on what a throw event sent.
Sent == [Diagram(
  [s |-> "start", h |-> "messageThrow", x |-> "exclusive", m |-> "messageCatch", e |-> "empty", end |-> "end"],
  <<Flow("s", "h"), Flow("h", "x"), Branch("x", "m", If("h", "cfg")), Branch("x", "e", Default),
    Flow("m", "end"), Flow("e", "end")>>)
  EXCEPT !.inputs = {"h"}]
\* A link, one without and one with two ends; events that are not configured well.
Link == [Diagram(
  [s |-> "start", l |-> "linkThrow", c |-> "linkCatch", m |-> "messageCatch", end |-> "end"],
  <<Flow("s", "l"), Flow("c", "m"), Flow("m", "end")>>)
  EXCEPT !.link = [n \in {"l", "c"} |-> "A"]]
LinkToNowhere == [Link EXCEPT !.link = [n \in {"l", "c"} |-> n]]
Broken(type) == [Diagram(
  [s |-> "start", b |-> type, end |-> "end"], <<Flow("s", "b"), Flow("b", "end")>>)
  EXCEPT !.broken = {"b"}]
\* A script whose result decides, and a service behind it.
Tasks == Diagram(
  [s |-> "start", c |-> "scriptTask", x |-> "exclusive", v |-> "serviceTask", e |-> "empty", end |-> "end"],
  <<Flow("s", "c"), Flow("c", "x"), Branch("x", "v", If("c", "yes")), Branch("x", "e", Default),
    Flow("v", "end"), Flow("e", "end")>>)
Unset(type) == [Diagram(
  [s |-> "start", b |-> type, end |-> "end"], <<Flow("s", "b"), Flow("b", "end")>>)
  EXCEPT !.unset = {"b"}]
Branching(type) == Diagram(
  [s |-> "start", b |-> type, e |-> "end", f |-> "end"], <<Flow("s", "b"), Flow("b", "e"), Flow("b", "f")>>)
MixedGateway == Diagram(
  [s |-> "start", j |-> "exclusive", x |-> "exclusive", u |-> "userTask", e |-> "end"],
  <<Flow("s", "x"), Branch("x", "u", If("s", "in")), Branch("x", "e", Default), Flow("u", "x")>>)

Walked ==
  {Message, Current, Both, Loop, Sent, Link, LinkToNowhere, MixedGateway, Tasks}
    \cup {Unset(type) : type \in {"scriptTask", "serviceTask"}}
    \cup {Broken(type) : type \in {"messageThrow", "signalThrow", "timerCatch", "serviceTask"}}
    \cup {Branching(type) : type \in {"empty", "messageCatch", "timerCatch", "messageThrow", "scriptTask"}}

\* Every parallel split n0 with four flow nodes behind it, in that order: each of them
\* goes on with a later one, or, as a gateway, with two, and all are reached.  The end
\* event is n5.  A flow node with two incoming sequence flows may join them or not.
Name == <<"n1", "n2", "n3", "n4">>
NameOf(n) == IF n = 0 THEN "n0" ELSE IF n = 5 THEN "end" ELSE Name[n]
Later(n) == {T \in SUBSET ((n + 1) .. 5) : Cardinality(T) \in {1, 2}}
Incoming(shape, n) == {m \in 0 .. (n - 1) : n \in shape[m + 1]}
Shapes == {shape \in Later(0) \X Later(1) \X Later(2) \X Later(3) \X Later(4) :
             /\ Cardinality(shape[1]) = 2
             /\ \A n \in 1 .. 4 : Incoming(shape, n) # {}}

Fits(shape, n, type) ==
  CASE Cardinality(shape[n + 1]) = 2 -> type # "empty" /\ Cardinality(Incoming(shape, n)) = 1
    [] Cardinality(Incoming(shape, n)) = 1 -> type = "empty"
    [] OTHER -> TRUE
Typings(shape) == {types \in [1 .. 4 -> {"empty", "exclusive", "parallel"}] :
                     \A n \in 1 .. 4 : Fits(shape, n, types[n])}

\* The sequence flows, those of a split in either order.
FlowsFrom(shape, n, descending) ==
  LET targets == SetToSortSeq(shape[n + 1], LAMBDA a, b : IF descending THEN a > b ELSE a < b)
  IN [i \in DOMAIN targets |-> Flow(NameOf(n), NameOf(targets[i]))]
SplitDiagram(shape, types, descending) ==
  Diagram([n \in {"s", "n0", "end"} \cup ToSet(Name) |->
             CASE n = "s" -> "start" [] n = "n0" -> "parallel" [] n = "end" -> "end"
               [] OTHER -> types[CHOOSE i \in 1 .. 4 : Name[i] = n]],
          <<Flow("s", "n0")>> \o FlattenSeq([i \in 1 .. 5 |-> FlowsFrom(shape, i - 1, descending)]))
Splits == UNION {{SplitDiagram(shape, types, descending) :
                    types \in Typings(shape), descending \in BOOLEAN} : shape \in Shapes}

MCDiagrams == Walked \cup Splits
=============================================================================
