------------------------ MODULE ActivityHandlerProofs ------------------------
(***************************************************************************)
(* What holds of an activity with boundary events for any boundary events, *)
(* timers, interrupting events and number of restarts.  The invariant is   *)
(* built in four stages, each on the one before:                           *)
(*                                                                         *)
(*   Inv         needs no assumption: types, where the chains can stand    *)
(*               together, and what is armed is listed for detachment;     *)
(*   WaitingInv  nothing comes before the activity waits (WaitsFirst);     *)
(*   RowInv      and the process instance is not stopped from outside: the *)
(*               row fits the place where the chains stand;                *)
(*   PathInv     and an event that interrupts is a timer, the first of the *)
(*               list (FirstIsTimer): which paths can have been begun.     *)
(***************************************************************************)
EXTENDS ActivityHandler, SequenceTheorems, TLAPS

\* The event and the answer come when the activity has begun to wait, and no timer
\* that interrupts it falls due while the runtime is down.
WaitsFirst == ~Early /\ (Elapsed => Timers \cap Interrupting = {})

\* An event that interrupts is a timer and the first boundary event of the model.
FirstIsTimer == \A e \in Interrupting : e \in Timers /\ e = Boundary[1]

Narrow == WaitsFirst /\ Stops = {} /\ FirstIsTimer

-----------------------------------------------------------------------------
(* The parts of Inv                                                        *)

\* The type invariant, in parts.
Values ==
  /\ row \in RowStates
  /\ eventRow \in [Events -> {"absent", "running", "finished"}]
  /\ nextRows \in [Paths -> Nat]
  /\ boot \in 0 .. MaxCrashes
  /\ loaded \in RowStates \cup {"skip"}
  /\ exec \in {"none", "suspending", "waiting", "resuming", "exiting", "done"}
  /\ answer \in {"none", "open", "given", "closed"}
  /\ result \in {"next", "nothing", "error"}
  /\ stop \in {"none", "terminated", "error"}
  /\ outcome \in {"none", "resolved", "rejected"}

Lists ==
  /\ todo \in [Chains -> Seq(Events)]
  /\ attachLeft \in Seq(Events)
  /\ attached \in Seq(Events)
  /\ live \subseteq Events \ ErrorEvents

Places ==
  /\ at \in [Chains -> MainPlaces \cup OtherPlaces]
  /\ at["main"] \in MainPlaces
  /\ \A c \in Chains \ {"main"} : at[c] \in OtherPlaces

Flags == {installed, cancelled, subscribed} \subseteq BOOLEAN

\* Where main stands tells how far the body of the handler promise can be.
Attaching == {"attach", "arming", "due"}

Stations ==
  /\ at["main"] \in Attaching <=> attachLeft # <<>>
  /\ at["main"] \in Attaching \cup {"attached", "entering", "leaving", "failed"}
       => exec = "none" /\ answer = "none" /\ ~installed
  /\ at["main"] = "executing" => exec # "none" /\ installed
  /\ at["main"] \in {"detach", "next", "over"} => exec \in {"none", "done"} /\ answer # "open"
  /\ exec \in {"resuming", "exiting", "done"} => answer = "given"
  /\ exec = "none" => ~cancelled /\ ~installed

\* A chain has handlers left to cancel as long as it is detaching.
Walks ==
  \A c \in Chains : at[c] = "detach" <=> todo[c] # <<>>

\* Only events that interrupt, and the end of the process instance, detach.
Idles ==
  /\ \A e \in Events \ Interrupting : at[e] \in {"idle", "next", "over"}
  /\ at["stop"] # "idle" => stop # "none"
  /\ at["stop"] # "next"

Basis ==
  /\ Values /\ Places /\ Flags /\ Lists
  /\ Stations /\ Walks /\ Idles

\* What can happen while the boundary events are attached: nothing at all in the
\* first run of the handler, or if nothing comes before the activity waits.
Unbothered ==
  /\ at["main"] = "due" => Elapsed /\ NextUp \in Timers
  /\ attachLeft # <<>> /\ ((~Early /\ ~Elapsed) \/ boot = 0)
       => \A c \in Chains \ {"main"} : at[c] = "idle"

\* In the first run the rows of the events still to be attached do not exist.
FirstStart ==
  /\ boot = 0 => loaded = "absent"
  /\ IsInjective(attachLeft)
  /\ boot = 0 /\ attachLeft # <<>> =>
       /\ row = "absent" /\ at["main"] # "due"
       /\ \A i \in DOMAIN attachLeft :
            at["main"] = "attach" \/ i > 1 => eventRow[attachLeft[i]] = "absent"

\* What is armed is listed for detachment, and is still before every chain that
\* detaches.  While more is attached such a chain walks the same array, so that it
\* will come to what is pushed.
Listed ==
  /\ live \subseteq ToSet(attached)
  /\ \A c \in Chains : at[c] = "detach" =>
       /\ live \subseteq ToSet(todo[c])
       /\ attachLeft # <<>> => attached # <<>> /\ Last(todo[c]) = Last(attached)

Arming == DetachedTwice \/ Listed
Gone == at["main"] \in {"next", "over"} => DetachedTwice \/ live = {}

Inv == Basis /\ Unbothered /\ FirstStart /\ Arming /\ Gone

-----------------------------------------------------------------------------
(* The parts of WaitingInv and RowInv                                      *)

Interrupters == Interrupting \cup {"stop"}
BeforeStart == {"attach", "arming", "due", "attached"}

\* Who interrupts finds an activity that waits or has been answered, and nobody
\* can answer it from then on.
Waited ==
  /\ \A c \in Interrupters :
       /\ at[c] # "idle" => exec \notin {"none", "suspending"}
       /\ at[c] \in {"detach", "exiting", "next"} => answer # "open"
  /\ \A e \in Interrupting : at[e] = "over" => answer # "open"

ErrorsLast == \A e \in ErrorEvents : at[e] # "idle" => at["main"] = "over"

Settled ==
  outcome # "none" => answer # "open" /\ at["main"] \notin BeforeStart \cup {"entering"}

WaitingInv == Inv /\ Waited /\ ErrorsLast /\ Settled

\* The row fits the place where the activity stands.  An event that interrupts
\* may have finished the row of an activity whose promise body still runs.
RowOf ==
  /\ stop = "none"
  /\ at["main"] \in BeforeStart => loaded \in {row, "skip"}
  /\ at["main"] = "entering" => row = "running"
  /\ exec = "suspending" => row = "suspended" /\ answer \in {"open", "given"}
  /\ exec = "waiting" => row \in {"suspended", "finished"} /\ answer # "given"
  /\ exec = "waiting" /\ answer = "open" => row = "suspended"
  /\ exec = "resuming" => row \in {"resumed", "finished"}
  /\ exec \in {"exiting", "done"} => row = "finished"

RowInv == WaitingInv /\ RowOf

-----------------------------------------------------------------------------
(* The parts of PathInv                                                    *)

\* The event that interrupts is the head of the list, so that its timer is stopped in
\* the step in which main, or the event itself, begins to detach: from then on it
\* cannot come any more, and once it came main will not go on.
FirstInList ==
  /\ attached # <<>> => Boundary # <<>> /\ attached[1] = Boundary[1]
  /\ attachLeft # <<>> => Boundary # <<>> /\ (attached = <<>> => attachLeft[1] = Boundary[1])
  /\ at["main"] \in {"detach", "next", "over"} => live \cap Interrupting = {}
  /\ cancelled => live \cap Interrupting = {}
  /\ \A e \in Interrupting :
       at[e] # "idle" => cancelled /\ at["main"] = "executing" /\ e \notin live
  /\ exec = "done" => cancelled \/ at["main"] \in {"detach", "next", "over"}

\* What main goes on with fits the row.
Behind ==
  /\ row # "terminated" /\ loaded # "terminated"
  /\ at["main"] = "entering" => loaded = "absent"
  /\ at["main"] = "next" => result = "next"
  /\ at["main"] = "detach" /\ result = "next" => row = "finished"
  /\ at["main"] = "failed" => row = "error" /\ result = "error"
  /\ at["main"] = "leaving" => row = "finished"
  /\ result = "error" => row = "error"
  /\ loaded = "error" => result # "next"
  /\ loaded = "skip" => result = "nothing"

\* The row tells which paths can have been begun, also after a restart.
TakenRows ==
  /\ \A e \in ErrorEvents : Taken(e) => row = "error"
  /\ \A e \in Interrupting : Taken(e) \/ at[e] \notin {"idle", "detach"} => row = "finished"
  /\ \A e \in Interrupting : nextRows[e] > 0 => result = "nothing" \/ at[e] = "over"

NormalPath ==
  Taken("main") =>
    /\ row = "finished"
    /\ \A e \in Interrupting : nextRows[e] = 0 /\ at[e] = "idle"
    /\ at["main"] \in {"next", "over"} \/ (exec = "none" /\ loaded = "finished")

PathInv == RowInv /\ FirstInList /\ Behind /\ TakenRows /\ NormalPath

-----------------------------------------------------------------------------
(* Names, sequences and the steps that several chains share                *)

\* The names of the chains and paths are apart from the events, and the constants
\* lie within the events.
LEMMA Names ==
  /\ Chains = Events \cup {"main", "stop"} /\ Paths = Events \cup {"main"}
  /\ "main" \notin Events /\ "stop" \notin Events
  /\ Boundary \in Seq(Events)
  /\ Timers \subseteq Events /\ ErrorEvents \subseteq Events /\ Interrupting \subseteq Events \ ErrorEvents
  /\ \A how \in Stops : how \in {"terminated", "error"}
  BY ConstantsAssumption, NamesAssumption DEF Chains, Paths

\* Sequences that grow at the end and are used up from the front.
LEMMA SeqFacts ==
  ASSUME NEW S, NEW s \in Seq(S)
  PROVE  /\ \A x \in S : ToSet(Append(s, x)) = ToSet(s) \cup {x} /\ Last(Append(s, x)) = x
         /\ s # <<>> => /\ Head(s) \in S /\ Tail(s) \in Seq(S)
                        /\ ToSet(s) = {Head(s)} \cup ToSet(Tail(s))
                        /\ IsInjective(s) => IsInjective(Tail(s))
         /\ Tail(s) # <<>> /\ s # <<>> => Last(Tail(s)) = Last(s)
         /\ ToSet(<<>>) = {}
<1>1. ASSUME NEW x \in S
      PROVE  ToSet(Append(s, x)) = ToSet(s) \cup {x} /\ Last(Append(s, x)) = x
  <2>1. Append(s, x) \in Seq(S) /\ Len(Append(s, x)) = Len(s) + 1 /\ Append(s, x)[Len(s) + 1] = x
    BY <1>1, AppendProperties
  <2>2. \A i \in 1 .. Len(s) : Append(s, x)[i] = s[i]
    BY <1>1, AppendProperties
  <2>3. DOMAIN s = 1 .. Len(s) /\ DOMAIN Append(s, x) = 1 .. Len(s) + 1 /\ Len(s) \in Nat
    BY <2>1
  <2> HIDE DEF Append
  <2> QED
    BY <2>1, <2>2, <2>3 DEF ToSet, Last
<1>2. ASSUME s # <<>>
      PROVE  /\ Head(s) \in S /\ Tail(s) \in Seq(S) /\ Len(Tail(s)) = Len(s) - 1 /\ Len(s) \in Nat \ {0}
             /\ Head(s) = s[1] /\ \A i \in 1 .. Len(s) - 1 : Tail(s)[i] = s[i + 1]
             /\ DOMAIN s = 1 .. Len(s) /\ DOMAIN Tail(s) = 1 .. Len(s) - 1
  BY <1>2, HeadTailProperties
<1>3. ASSUME s # <<>>
      PROVE  ToSet(s) = {Head(s)} \cup ToSet(Tail(s))
  <2>1. \A i \in 1 .. Len(s) : i = 1 \/ (i - 1 \in 1 .. Len(s) - 1 /\ s[i] = Tail(s)[i - 1])
    BY <1>2, <1>3
  <2>2. ASSUME NEW x
        PROVE  (\E i \in 1 .. Len(s) : x = s[i])
                 <=> (x = s[1] \/ \E j \in 1 .. Len(s) - 1 : x = Tail(s)[j])
    <3>1. \A j \in 1 .. Len(s) - 1 : j + 1 \in 1 .. Len(s) /\ 1 \in 1 .. Len(s)
      BY <1>2, <1>3
    <3> QED
      BY <1>2, <1>3, <2>1, <3>1
  <2>3. \A x : x \in ToSet(s) <=> \E i \in 1 .. Len(s) : x = s[i]
    BY <1>2, <1>3, Zenon DEF ToSet
  <2>4. \A x : x \in ToSet(Tail(s)) <=> \E j \in 1 .. Len(s) - 1 : x = Tail(s)[j]
    BY <1>2, <1>3, Zenon DEF ToSet
  <2>5. \A x : x \in ToSet(s) <=> (x = Head(s) \/ x \in ToSet(Tail(s)))
    BY <1>2, <1>3, <2>2, <2>3, <2>4
  <2> QED
    BY <2>5
<1>4. ASSUME s # <<>>, IsInjective(s)
      PROVE  IsInjective(Tail(s))
  BY <1>2, <1>4 DEF IsInjective
<1>5. ASSUME s # <<>>, Tail(s) # <<>>
      PROVE  Last(Tail(s)) = Last(s)
  <2>1. Len(Tail(s)) # 0
    BY <1>2, <1>5, EmptySeq
  <2> QED
    BY <1>2, <1>5, <2>1 DEF Last
<1>6. ToSet(<<>>) = {}
  BY DEF ToSet
<1> QED
  BY <1>1, <1>2, <1>3, <1>4, <1>5, <1>6

\* The first element of a list stays when another one is appended.
LEMMA FirstOfAppend ==
  ASSUME NEW S, NEW s \in Seq(S), NEW x \in S
  PROVE  Append(s, x) # <<>> /\ Append(s, x)[1] = IF s = <<>> THEN x ELSE s[1]
<1>1. Len(Append(s, x)) = Len(s) + 1 /\ Append(s, x) \in Seq(S)
  BY AppendProperties
<1>2. CASE s = <<>>
  BY <1>1, <1>2, AppendProperties
<1>3. CASE s # <<>>
  <2>1. Len(s) \in Nat \ {0}
    BY <1>3, EmptySeq
  <2> QED
    BY <1>1, <1>3, <2>1, AppendProperties
<1> QED
  BY <1>2, <1>3

\* The same of the attached events.
LEMMA FirstAttached ==
  ASSUME attached \in Seq(Events), NextUp \in Events, attached' = Append(attached, NextUp)
  PROVE  attached' # <<>> /\ attached'[1] = IF attached = <<>> THEN NextUp ELSE attached[1]
  BY FirstOfAppend

\* While main attaches there is an event to be attached.
LEMMA Upcoming ==
  ASSUME Lists, Stations, at["main"] \in Attaching
  PROVE  /\ attachLeft # <<>> /\ NextUp \in Events /\ Tail(attachLeft) \in Seq(Events)
  BY DEF Lists, Stations, NextUp

\* A chain that is detaching has a handler to cancel.
LEMMA Remaining ==
  ASSUME Lists, Walks, NEW c \in Chains, at[c] = "detach"
  PROVE  todo[c] # <<>> /\ Head(todo[c]) \in Events /\ Tail(todo[c]) \in Seq(Events)
  BY HeadTailProperties DEF Lists, Walks

\* What pushing an event does to the lists of the chains: a chain that walks the
\* array comes to the event, and no list is emptied or begun.
LEMMA Pushed ==
  ASSUME Lists, Stations, at["main"] \in Attaching, NEW armed, Push(armed)
  PROVE  /\ attached' = Append(attached, NextUp) /\ attachLeft' = Tail(attachLeft)
         /\ \A c \in Chains : /\ todo[c] \in Seq(Events) /\ (todo'[c] # <<>> <=> todo[c] # <<>>)
                               /\ \/ todo'[c] = todo[c] /\ ~SharesArray(c)
                                  \/ todo'[c] = Append(todo[c], NextUp) /\ SharesArray(c)
         /\ at' = [at EXCEPT !["main"] = IF Tail(attachLeft) = <<>> THEN "attached" ELSE "attach"]
<1>1. NextUp \in Events
  BY Upcoming
<1>2. ASSUME NEW c \in Chains
      PROVE  /\ todo[c] \in Seq(Events) /\ (todo'[c] # <<>> <=> todo[c] # <<>>)
             /\ \/ todo'[c] = todo[c] /\ ~SharesArray(c)
                \/ todo'[c] = Append(todo[c], NextUp) /\ SharesArray(c)
  <2>1. todo[c] \in Seq(Events)
    BY <1>2 DEF Lists
  <2>2. todo'[c] = IF SharesArray(c) THEN Append(todo[c], NextUp) ELSE todo[c]
    BY <1>2 DEF Push
  <2>3. SharesArray(c) => todo[c] # <<>>
    BY DEF SharesArray
  <2>4. Append(todo[c], NextUp) # <<>>
    BY <1>1, <2>1, AppendProperties
  <2> QED
    BY <2>1, <2>2, <2>3, <2>4
<1> QED
  BY <1>2 DEF Push

\* What onInterruptedCallback leaves of the subscription and of the promise.
LEMMA Interrupted ==
  ASSUME Interrupt
  PROVE  /\ answer' = IF installed /\ answer = "open" THEN "closed" ELSE answer
         /\ cancelled' <=> cancelled \/ (installed /\ exec # "done")
  BY Zenon DEF Interrupt

\* The end of the process instance reaches the handler while it is subscribed ...
LEMMA Heard ==
  ASSUME StopReceived, subscribed
  PROVE  /\ at["stop"] = "notified" /\ Interrupt /\ Detach("stop", {}, attached)
         /\ UNCHANGED <<nextRows, bootVars, attachLeft, exec, installed, result, stop>>
  BY Zenon DEF StopReceived

\* ... or finds it no longer subscribed, and is dropped.
LEMMA Unheard ==
  ASSUME StopReceived, ~subscribed
  PROVE  /\ at["stop"] = "notified" /\ at' = [at EXCEPT !["stop"] = "over"]
         /\ UNCHANGED <<row, eventRow, todo, live, attached, outcome, answer, cancelled>>
         /\ UNCHANGED <<nextRows, bootVars, attachLeft, exec, installed, result, stop>>
  BY Zenon DEF StopReceived

\* What Detach does, whatever main goes on with: the lists, the armed events, and where
\* chain c stands then.
Detached(c, freed, rest) ==
  /\ live' = live \ (freed \cup {e \in Timers : rest # <<>> /\ e = Head(rest)})
  /\ todo' = [todo EXCEPT ![c] = rest]
  /\ eventRow' \in [Events -> {"absent", "running", "finished"}]
  /\ at' \in [Chains -> MainPlaces \cup OtherPlaces]
  /\ \/ /\ rest # <<>>
        /\ at' = [at EXCEPT ![c] = "detach"]
        /\ UNCHANGED <<attached, row, outcome>>
     \/ /\ rest = <<>> /\ attached' = <<>>
        /\ c = "main"
        /\ at'["main"] \in {"next", "over"}
        /\ \A x \in Chains \ {"main"} :
             at'[x] = at[x] \/ (x \in ErrorEvents /\ at'[x] = "next" /\ result = "error" /\ at'["main"] = "over")
        /\ at'["main"] = "next" => result = "next" /\ outcome' = outcome
        /\ outcome' \in {outcome, "resolved", "rejected"} /\ row' = row
     \/ /\ rest = <<>> /\ attached' = <<>>
        /\ c = "stop" /\ row' = stop
        /\ at' = [at EXCEPT !["stop"] = "exiting"] /\ outcome' = outcome
     \/ /\ rest = <<>> /\ attached' = <<>>
        /\ c \in Events /\ row' = "finished"
        /\ at' = [at EXCEPT ![c] = "exiting"] /\ outcome' = outcome

\* A call of Detach has that effect.
LEMMA Detaching ==
  ASSUME Values, Places, NEW c \in Chains, NEW freed, NEW rest \in Seq(Events), Detach(c, freed,
         rest)
  PROVE  Detached(c, freed, rest)
<1>1. live' = live \ (freed \cup {e \in Timers : rest # <<>> /\ e = Head(rest)})
  BY DEF Detach, Disarmed, StoppedAtOnce
<1>2. eventRow' \in [Events -> {"absent", "running", "finished"}]
  BY DEF Detach, Values
<1>3. CASE rest # <<>>
  BY <1>1, <1>2, <1>3 DEF Detach, Detached, Places, OtherPlaces
<1>4. CASE rest = <<>> /\ c # "main"
  BY <1>1, <1>2, <1>4, Names DEF Detach, Detached, AfterDetach, Places, OtherPlaces
<1>5. CASE rest = <<>> /\ c = "main" /\ result # "error"
  BY <1>1, <1>2, <1>5, Names DEF Detach, Detached, AfterDetach, Settle, Places, MainPlaces
<1>6. CASE rest = <<>> /\ c = "main" /\ result = "error"
  <2>1. PICK caught \in SUBSET Catchable :
          /\ at' = [x \in Chains |-> IF x \in caught THEN "next" ELSE IF x = "main" THEN "over" ELSE at[x]]
          /\ IF caught = {} THEN Settle("rejected") ELSE UNCHANGED outcome
    BY <1>6, Names DEF Detach, AfterDetach
  <2>2. caught \subseteq ErrorEvents /\ "main" \notin caught
    BY Names DEF Catchable
  <2>3. at' \in [Chains -> MainPlaces \cup OtherPlaces] /\ at'["main"] = "over"
    BY <2>1, <2>2, Names DEF Places, MainPlaces, OtherPlaces
  <2>4. \A x \in Chains \ {"main"} : at'[x] = at[x] \/ (x \in ErrorEvents /\ at'[x] = "next")
    BY <2>1, <2>2
  <2>5. outcome' \in {outcome, "resolved", "rejected"} /\ row' = row
    BY <1>6, <2>1, Names DEF Settle, Detach, AfterDetach
  <2> QED
    BY <1>1, <1>2, <1>6, <2>3, <2>4, <2>5 DEF Detached, Detach
<1> QED
  BY <1>3, <1>4, <1>5, <1>6

\* The part of it that most proofs need.
Moved(c) ==
  /\ live' \subseteq live /\ attached' \in {attached, <<>>}
  /\ \A x \in Chains \ ErrorEvents : x # c => at'[x] = at[x]
  /\ \A x \in ErrorEvents \ {c} :
       at'[x] = at[x] \/ (at'[x] = "next" /\ result = "error" /\ at'["main"] = "over" /\ c = "main")
  /\ c = "main" =>
       /\ at'["main"] \in {"detach", "next", "over"} /\ row' = row
       /\ at'["main"] = "next" => result = "next"
       /\ outcome' = outcome \/ (at'["main"] = "over" /\ outcome' \in {"resolved", "rejected"})
  /\ c # "main" => at'[c] \in {"detach", "exiting"} /\ outcome' = outcome
  /\ c \in Events => row' = IF at'[c] = "exiting" THEN "finished" ELSE row
  /\ c = "stop" => row' = IF at'[c] = "exiting" THEN stop ELSE row

\* Where the chains stand after a detachment.
LEMMA Moves ==
  ASSUME Values, Places, NEW c \in Chains, NEW freed, NEW rest, Detached(c, freed, rest)
  PROVE  Moved(c)
<1>1. rest # <<>> => at'[c] = "detach"
  BY DEF Detached, Places
<1>2. rest = <<>> /\ c # "main" => at'[c] = "exiting"
  BY DEF Detached, Places
<1>3. live' \subseteq live /\ attached' \in {attached, <<>>}
  BY DEF Detached
<1>4. \A x \in Chains \ ErrorEvents : x # c => at'[x] = at[x]
  BY Names DEF Detached, Places
<1>5. \A x \in ErrorEvents \ {c} :
        at'[x] = at[x] \/ (at'[x] = "next" /\ result = "error" /\ at'["main"] = "over" /\ c = "main")
  BY Names DEF Detached, Places
<1>6. c = "main" =>
        /\ at'["main"] \in {"detach", "next", "over"} /\ row' = row
        /\ at'["main"] = "next" => result = "next"
        /\ outcome' = outcome \/ (at'["main"] = "over" /\ outcome' \in {"resolved", "rejected"})
  BY Names, <1>1 DEF Detached, Places
<1>7. c # "main" => outcome' = outcome
  BY DEF Detached
<1>8. c \in Events => row' = IF at'[c] = "exiting" THEN "finished" ELSE row
  BY <1>1, <1>2, Names DEF Detached
<1>9. c = "stop" => row' = IF at'[c] = "exiting" THEN stop ELSE row
  BY <1>1, <1>2, Names DEF Detached
<1> QED
  BY <1>1, <1>2, <1>3, <1>4, <1>5, <1>6, <1>7, <1>8, <1>9 DEF Moved

\* The same of a call of Detach.
LEMMA Moving ==
  ASSUME Values, Places, NEW c \in Chains, NEW freed, NEW rest \in Seq(Events), Detach(c, freed,
         rest)
  PROVE  Moved(c)
  BY Detaching, Moves

\* A detachment keeps the types of what it writes.
LEMMA DetachedValues ==
  ASSUME Values, NEW c, NEW freed, NEW rest, Detached(c, freed, rest),
         c = "stop" => stop # "none"
  PROVE  /\ row' \in RowStates /\ outcome' \in {"none", "resolved", "rejected"}
         /\ eventRow' \in [Events -> {"absent", "running", "finished"}]
  BY DEF Values, Detached, RowStates

\* A detachment leaves a chain in its loop exactly while it has handlers left.
LEMMA DetachedWalks ==
  ASSUME Values, Places, Walks, Lists, NEW c \in Chains, NEW freed, NEW rest \in Seq(Events),
         Idles, Detached(c, freed, rest)
  PROVE  Walks'
<1>1. todo'[c] = rest /\ \A x \in Chains \ {c} : todo'[x] = todo[x]
  BY DEF Detached, Lists
<1>2. \A x \in Chains \ {c} : at'[x] = "detach" <=> at[x] = "detach"
  BY Names DEF Detached, Places, MainPlaces, Idles
<1>3. at'[c] = "detach" <=> rest # <<>>
  BY DEF Detached, Places
<1> QED
  BY <1>1, <1>2, <1>3 DEF Walks

-----------------------------------------------------------------------------
(* Types and places                                                        *)

\* Every step keeps the values of the simple variables in range.
LEMMA Valuing ==
  ASSUME Values, Places, Walks, Idles, Lists, Stations, [Next]_vars
  PROVE  Values'
<1> USE Names DEF Values, RowStates, Attaching, Lists, Idles
<1>1. CASE AttachNew
  BY SMTT(30), <1>1, Upcoming DEF AttachNew, NextUp, dbVars, bootVars, attachVars, execVars
<1>2. CASE ArmNew
  BY <1>2 DEF ArmNew, Push, Armable, SharesArray, NextUp, dbVars, bootVars, attachVars, execVars
<1>3. CASE ArmResumed
  BY <1>3 DEF ArmResumed, Push, Armable, SharesArray, NextUp, dbVars, bootVars, attachVars,
     execVars
<1>4. CASE ElapsedTimer
  BY <1>4 DEF ElapsedTimer, NextUp, dbVars, bootVars, attachVars, execVars
<1>5. CASE ElapsedTimerFires
  <2>1. CASE NextUp \in Interrupting
    <3>1. Detached(NextUp, {NextUp}, attached)
      BY <1>5, <2>1, Detaching, Upcoming DEF ElapsedTimerFires, InterruptedBy
    <3> QED
      BY <1>5, <2>1, <3>1, Interrupted DEF ElapsedTimerFires, InterruptedBy, Detached, dbVars,
         bootVars, attachVars, execVars
  <2>2. CASE NextUp \notin Interrupting
    BY SMTT(30), <1>5, <2>2, Upcoming DEF ElapsedTimerFires, BranchedBy, dbVars, bootVars, attachVars,
       execVars
  <2> QED
    BY <2>1, <2>2
<1>6. CASE PushElapsed
  BY SMTT(30), <1>6 DEF PushElapsed, Push, Armable, SharesArray, NextUp, dbVars, bootVars, attachVars,
     execVars
<1>7. CASE Enter
  BY <1>7 DEF Enter, dbVars, bootVars, attachVars, execVars
<1>8. CASE Entered
  BY <1>8 DEF Entered, ExecuteHandler, dbVars, bootVars, attachVars, execVars
<1>9. CASE ResumeSuspended
  BY <1>9 DEF ResumeSuspended, dbVars, bootVars, attachVars, execVars
<1>10. CASE ResumeResumed
  BY <1>10 DEF ResumeResumed, dbVars, bootVars, attachVars, execVars
<1>11. CASE Suspended
  BY <1>11 DEF Suspended, Proceed, dbVars, bootVars, attachVars, execVars
<1>12. CASE Finish
  BY <1>12 DEF Finish, dbVars, bootVars, attachVars, execVars
<1>13. CASE ExecDone
  <2>1. CASE MainGoesOn
    <3>1. Detached("main", {}, attached)
      BY <1>13, <2>1, Detaching, Upcoming DEF ExecDone
    <3> QED
      BY <1>13, <2>1, <3>1 DEF ExecDone, Detached, dbVars, bootVars, attachVars, execVars
  <2>2. CASE ~MainGoesOn
    BY <1>13, <2>2 DEF ExecDone, dbVars, bootVars, attachVars, execVars
  <2> QED
    BY <2>1, <2>2
<1>14. CASE Leave
  <2>1. Detached("main", {}, attached)
    BY <1>14, Detaching DEF Leave
  <2> QED
    BY <1>14, <2>1, DetachedValues DEF Leave, bootVars, execVars
<1>15. CASE StopReceived
  <2>1. CASE subscribed
    <3>1. Detached("stop", {}, attached)
      BY <1>15, <2>1, Heard, Detaching, Upcoming
    <3> QED
      BY SMTT(30), <1>15, <2>1, <3>1, Heard, Interrupted DEF Detached, dbVars, bootVars, attachVars,
         execVars
  <2>2. CASE ~subscribed
    BY <1>15, <2>2, Unheard DEF dbVars, bootVars, attachVars, execVars
  <2> QED
    BY <2>1, <2>2
<1>16. CASE \E c \in Chains : DetachNext(c)
  <2>1. PICK c \in Chains : DetachNext(c)
    BY <1>16
  <2>2. todo[c] # <<>> /\ Head(todo[c]) \in Events /\ Tail(todo[c]) \in Seq(Events)
    BY <2>1, Remaining DEF DetachNext
  <2>3. PICK h \in Events, rest \in Seq(Events) : Detached(c, {h}, rest)
    BY <2>1, <2>2, Detaching DEF DetachNext
  <2>4. c = "stop" => stop # "none"
    BY <2>1 DEF DetachNext
  <2> QED
    BY <2>1, <2>3, <2>4, DetachedValues DEF DetachNext, bootVars, execVars
<1>17. CASE \E c \in Chains : Exited(c)
  BY <1>17 DEF Exited, Settle, dbVars, bootVars, attachVars, execVars
<1>18. CASE \E p \in Paths : PathRuns(p)
  BY <1>18 DEF PathRuns, PathSettles, Settle, dbVars, bootVars, attachVars, execVars
<1>19. CASE Answer
  BY <1>19 DEF Answer, Proceed, dbVars, bootVars, attachVars, execVars
<1>20. CASE \E e \in Events : InterruptingEvent(e)
  <2>1. PICK e \in Events : InterruptingEvent(e)
    BY <1>20
  <2>2. Detached(e, {e}, attached)
    BY <2>1, Detaching, Upcoming DEF InterruptingEvent, InterruptedBy
  <2> QED
    BY <2>1, <2>2, Interrupted DEF InterruptingEvent, InterruptedBy, MayCome, Detached, dbVars,
       bootVars, attachVars, execVars
<1>21. CASE \E e \in Events : NonInterruptingEvent(e)
  BY <1>21 DEF NonInterruptingEvent, BranchedBy, MayCome, dbVars, bootVars, attachVars, execVars
<1>22. CASE \E how \in Stops : ProcessStopped(how)
  BY <1>22 DEF ProcessStopped, MayCome, dbVars, bootVars, attachVars, execVars
<1>23. CASE CrashAndResume
  <2>1. loaded' \in RowStates \cup {"skip"}
    BY <1>23 DEF CrashAndResume, LoadedAs
  <2>2. eventRow' \in [Events -> {"absent", "running", "finished"}]
    BY <1>23 DEF CrashAndResume
  <2>3. boot' \in 0 .. MaxCrashes
    BY <1>23, ConstantsAssumption DEF CrashAndResume
  <2> QED
    BY <1>23, <2>1, <2>2, <2>3 DEF CrashAndResume
<1>24. CASE UNCHANGED vars
  BY <1>24 DEF vars, dbVars, bootVars, attachVars, execVars
<1> QED
  BY <1>1, <1>2, <1>3, <1>4, <1>5, <1>6, <1>7, <1>8, <1>9, <1>10, <1>11, <1>12, <1>13, <1>14,
     <1>15, <1>16, <1>17, <1>18, <1>19, <1>20, <1>21, <1>22, <1>23, <1>24 DEF Next, UrgentStep,
     Running, AttachStep, ActivityStep, ChainStep, Environment

\* Every step moves the chains between their places.
LEMMA Placing ==
  ASSUME Places, Lists, Values, Stations, Walks, [Next]_vars
  PROVE  Places'
<1> USE Names DEF Places, MainPlaces, OtherPlaces, Attaching, Lists
<1>1. CASE AttachNew
  BY <1>1 DEF AttachNew, NextUp, dbVars, bootVars, attachVars, execVars
<1>2. CASE ArmNew
  BY <1>2 DEF ArmNew, Push, Armable, SharesArray, NextUp, dbVars, bootVars, attachVars, execVars
<1>3. CASE ArmResumed
  BY <1>3 DEF ArmResumed, Push, Armable, SharesArray, NextUp, dbVars, bootVars, attachVars,
     execVars
<1>4. CASE ElapsedTimer
  BY <1>4 DEF ElapsedTimer, NextUp, dbVars, bootVars, attachVars, execVars
<1>5. CASE ElapsedTimerFires
  <2>1. CASE NextUp \in Interrupting
    <3>1. Detached(NextUp, {NextUp}, attached)
      BY <1>5, <2>1, Detaching, Upcoming DEF ElapsedTimerFires, InterruptedBy
    <3> QED
      BY <1>5, <2>1, <3>1, Interrupted DEF ElapsedTimerFires, InterruptedBy, Detached, dbVars,
         bootVars, attachVars, execVars
  <2>2. CASE NextUp \notin Interrupting
    BY <1>5, <2>2, Upcoming DEF ElapsedTimerFires, BranchedBy, dbVars, bootVars, attachVars,
       execVars
  <2> QED
    BY <2>1, <2>2
<1>6. CASE PushElapsed
  BY <1>6 DEF PushElapsed, Push, Armable, SharesArray, NextUp, dbVars, bootVars, attachVars,
     execVars
<1>7. CASE Enter
  BY <1>7 DEF Enter, dbVars, bootVars, attachVars, execVars
<1>8. CASE Entered
  BY <1>8 DEF Entered, ExecuteHandler, dbVars, bootVars, attachVars, execVars
<1>9. CASE ResumeSuspended
  BY <1>9 DEF ResumeSuspended, dbVars, bootVars, attachVars, execVars
<1>10. CASE ResumeResumed
  BY <1>10 DEF ResumeResumed, dbVars, bootVars, attachVars, execVars
<1>11. CASE Suspended
  BY <1>11 DEF Suspended, Proceed, dbVars, bootVars, attachVars, execVars
<1>12. CASE Finish
  BY <1>12 DEF Finish, dbVars, bootVars, attachVars, execVars
<1>13. CASE ExecDone
  <2>1. CASE MainGoesOn
    <3>1. Detached("main", {}, attached)
      BY <1>13, <2>1, Detaching, Upcoming DEF ExecDone
    <3> QED
      BY <1>13, <2>1, <3>1 DEF ExecDone, Detached, dbVars, bootVars, attachVars, execVars
  <2>2. CASE ~MainGoesOn
    BY <1>13, <2>2 DEF ExecDone, dbVars, bootVars, attachVars, execVars
  <2> QED
    BY <2>1, <2>2
<1>14. CASE Leave
  <2>1. Detached("main", {}, attached)
    BY <1>14, Detaching, Upcoming DEF Leave
  <2> QED
    BY <1>14, <2>1 DEF Leave, Detached, dbVars, bootVars, attachVars, execVars
<1>15. CASE StopReceived
  <2>1. CASE subscribed
    <3>1. Detached("stop", {}, attached)
      BY <1>15, <2>1, Heard, Detaching, Upcoming
    <3> QED
      BY <1>15, <2>1, <3>1, Heard, Interrupted DEF Detached, dbVars, bootVars, attachVars,
         execVars
  <2>2. CASE ~subscribed
    BY <1>15, <2>2, Unheard DEF dbVars, bootVars, attachVars, execVars
  <2> QED
    BY <2>1, <2>2
<1>16. CASE \E c \in Chains : DetachNext(c)
  <2>1. PICK c \in Chains : DetachNext(c)
    BY <1>16
  <2>2. todo[c] # <<>> /\ Head(todo[c]) \in Events /\ Tail(todo[c]) \in Seq(Events)
    BY <2>1, Remaining DEF DetachNext
  <2>3. PICK h \in Events, rest \in Seq(Events) : Detached(c, {h}, rest)
    BY <2>1, <2>2, Detaching, Upcoming DEF DetachNext
  <2> QED
    BY <2>1, <2>3 DEF DetachNext, Detached, dbVars, bootVars, attachVars, execVars
<1>17. CASE \E c \in Chains : Exited(c)
  BY <1>17 DEF Exited, Settle, dbVars, bootVars, attachVars, execVars
<1>18. CASE \E p \in Paths : PathRuns(p)
  BY <1>18 DEF PathRuns, PathSettles, Settle, dbVars, bootVars, attachVars, execVars
<1>19. CASE Answer
  BY <1>19 DEF Answer, Proceed, dbVars, bootVars, attachVars, execVars
<1>20. CASE \E e \in Events : InterruptingEvent(e)
  <2>1. PICK e \in Events : InterruptingEvent(e)
    BY <1>20
  <2>2. Detached(e, {e}, attached)
    BY <2>1, Detaching, Upcoming DEF InterruptingEvent, InterruptedBy
  <2> QED
    BY <2>1, <2>2, Interrupted DEF InterruptingEvent, InterruptedBy, MayCome, Detached, dbVars,
       bootVars, attachVars, execVars
<1>21. CASE \E e \in Events : NonInterruptingEvent(e)
  BY <1>21 DEF NonInterruptingEvent, BranchedBy, MayCome, dbVars, bootVars, attachVars, execVars
<1>22. CASE \E how \in Stops : ProcessStopped(how)
  BY <1>22 DEF ProcessStopped, MayCome, dbVars, bootVars, attachVars, execVars
<1>23. CASE CrashAndResume
  BY <1>23 DEF CrashAndResume, LoadedAs, FollowedEvents, dbVars, bootVars, attachVars, execVars
<1>24. CASE UNCHANGED vars
  BY <1>24 DEF vars, dbVars, bootVars, attachVars, execVars
<1> QED
  BY <1>1, <1>2, <1>3, <1>4, <1>5, <1>6, <1>7, <1>8, <1>9, <1>10, <1>11, <1>12, <1>13, <1>14,
     <1>15, <1>16, <1>17, <1>18, <1>19, <1>20, <1>21, <1>22, <1>23, <1>24 DEF Next, UrgentStep,
     Running, AttachStep, ActivityStep, ChainStep, Environment

\* Every step keeps lists of boundary events, and arms no error event.
LEMMA Listing ==
  ASSUME Values, Places, Lists, Walks, Stations, [Next]_vars
  PROVE  Lists'
<1> USE Names DEF Lists, Attaching
<1>1. CASE AttachNew
  BY <1>1 DEF AttachNew, NextUp, dbVars, bootVars, attachVars, execVars
<1>2. CASE ArmNew
  BY <1>2, Upcoming DEF ArmNew, Push, Armable, SharesArray, NextUp, dbVars, bootVars,
     attachVars, execVars
<1>3. CASE ArmResumed
  BY <1>3, Upcoming DEF ArmResumed, Push, Armable, SharesArray, NextUp, dbVars, bootVars,
     attachVars, execVars
<1>4. CASE ElapsedTimer
  BY <1>4 DEF ElapsedTimer, NextUp, dbVars, bootVars, attachVars, execVars
<1>5. CASE ElapsedTimerFires
  <2>1. CASE NextUp \in Interrupting
    <3>1. Detached(NextUp, {NextUp}, attached)
      BY <1>5, <2>1, Detaching, Upcoming DEF ElapsedTimerFires, InterruptedBy
    <3> QED
      BY <1>5, <2>1, <3>1, Interrupted DEF ElapsedTimerFires, InterruptedBy, Detached, dbVars,
         bootVars, attachVars, execVars
  <2>2. CASE NextUp \notin Interrupting
    BY <1>5, <2>2, Upcoming DEF ElapsedTimerFires, BranchedBy, dbVars, bootVars, attachVars,
       execVars
  <2> QED
    BY <2>1, <2>2
<1>6. CASE PushElapsed
  BY <1>6, Upcoming DEF PushElapsed, Push, Armable, SharesArray, NextUp, dbVars, bootVars,
     attachVars, execVars
<1>7. CASE Enter
  BY <1>7 DEF Enter, dbVars, bootVars, attachVars, execVars
<1>8. CASE Entered
  BY <1>8 DEF Entered, ExecuteHandler, dbVars, bootVars, attachVars, execVars
<1>9. CASE ResumeSuspended
  BY <1>9 DEF ResumeSuspended, dbVars, bootVars, attachVars, execVars
<1>10. CASE ResumeResumed
  BY <1>10 DEF ResumeResumed, dbVars, bootVars, attachVars, execVars
<1>11. CASE Suspended
  BY <1>11 DEF Suspended, Proceed, dbVars, bootVars, attachVars, execVars
<1>12. CASE Finish
  BY <1>12 DEF Finish, dbVars, bootVars, attachVars, execVars
<1>13. CASE ExecDone
  <2>1. CASE MainGoesOn
    <3>1. Detached("main", {}, attached)
      BY <1>13, <2>1, Detaching, Upcoming DEF ExecDone
    <3> QED
      BY <1>13, <2>1, <3>1 DEF ExecDone, Detached, dbVars, bootVars, attachVars, execVars
  <2>2. CASE ~MainGoesOn
    BY <1>13, <2>2 DEF ExecDone, dbVars, bootVars, attachVars, execVars
  <2> QED
    BY <2>1, <2>2
<1>14. CASE Leave
  <2>1. Detached("main", {}, attached)
    BY <1>14, Detaching, Upcoming DEF Leave
  <2> QED
    BY <1>14, <2>1 DEF Leave, Detached, dbVars, bootVars, attachVars, execVars
<1>15. CASE StopReceived
  <2>1. CASE subscribed
    <3>1. Detached("stop", {}, attached)
      BY <1>15, <2>1, Heard, Detaching, Upcoming
    <3> QED
      BY <1>15, <2>1, <3>1, Heard, Interrupted DEF Detached, dbVars, bootVars, attachVars,
         execVars
  <2>2. CASE ~subscribed
    BY <1>15, <2>2, Unheard DEF dbVars, bootVars, attachVars, execVars
  <2> QED
    BY <2>1, <2>2
<1>16. CASE \E c \in Chains : DetachNext(c)
  <2>1. PICK c \in Chains : DetachNext(c)
    BY <1>16
  <2>2. todo[c] # <<>> /\ Head(todo[c]) \in Events /\ Tail(todo[c]) \in Seq(Events)
    BY <2>1, Remaining DEF DetachNext
  <2>3. PICK h \in Events, rest \in Seq(Events) : Detached(c, {h}, rest)
    BY <2>1, <2>2, Detaching, Upcoming DEF DetachNext
  <2> QED
    BY <2>1, <2>3 DEF DetachNext, Detached, dbVars, bootVars, attachVars, execVars
<1>17. CASE \E c \in Chains : Exited(c)
  BY <1>17 DEF Exited, Settle, dbVars, bootVars, attachVars, execVars
<1>18. CASE \E p \in Paths : PathRuns(p)
  BY <1>18 DEF PathRuns, PathSettles, Settle, dbVars, bootVars, attachVars, execVars
<1>19. CASE Answer
  BY <1>19 DEF Answer, Proceed, dbVars, bootVars, attachVars, execVars
<1>20. CASE \E e \in Events : InterruptingEvent(e)
  <2>1. PICK e \in Events : InterruptingEvent(e)
    BY <1>20
  <2>2. Detached(e, {e}, attached)
    BY <2>1, Detaching, Upcoming DEF InterruptingEvent, InterruptedBy
  <2> QED
    BY <2>1, <2>2, Interrupted DEF InterruptingEvent, InterruptedBy, MayCome, Detached, dbVars,
       bootVars, attachVars, execVars
<1>21. CASE \E e \in Events : NonInterruptingEvent(e)
  BY <1>21 DEF NonInterruptingEvent, BranchedBy, MayCome, dbVars, bootVars, attachVars, execVars
<1>22. CASE \E how \in Stops : ProcessStopped(how)
  BY <1>22 DEF ProcessStopped, MayCome, dbVars, bootVars, attachVars, execVars
<1>23. CASE CrashAndResume
  BY <1>23 DEF CrashAndResume, LoadedAs, FollowedEvents, dbVars, bootVars, attachVars, execVars
<1>24. CASE UNCHANGED vars
  BY <1>24 DEF vars, dbVars, bootVars, attachVars, execVars
<1> QED
  BY <1>1, <1>2, <1>3, <1>4, <1>5, <1>6, <1>7, <1>8, <1>9, <1>10, <1>11, <1>12, <1>13, <1>14,
     <1>15, <1>16, <1>17, <1>18, <1>19, <1>20, <1>21, <1>22, <1>23, <1>24 DEF Next, UrgentStep,
     Running, AttachStep, ActivityStep, ChainStep, Environment

\* The flags stay Boolean.
LEMMA Flagging ==
  ASSUME Flags, [Next]_vars
  PROVE  Flags'
<1> USE DEF Flags
<1>1. CASE AttachNew
  BY <1>1, Zenon DEF AttachNew, NextUp, Detach, AfterDetach, dbVars, bootVars, attachVars,
     execVars
<1>2. CASE ArmNew
  BY <1>2, Zenon DEF ArmNew, Push, Armable, SharesArray, NextUp, Detach, AfterDetach, dbVars,
     bootVars, attachVars, execVars
<1>3. CASE ArmResumed
  BY <1>3, Zenon DEF ArmResumed, Push, Armable, SharesArray, NextUp, Detach, AfterDetach,
     dbVars, bootVars, attachVars, execVars
<1>4. CASE ElapsedTimer
  BY <1>4, Zenon DEF ElapsedTimer, NextUp, Detach, AfterDetach, dbVars, bootVars, attachVars,
     execVars
<1>5. CASE ElapsedTimerFires
  BY <1>5, Zenon DEF ElapsedTimerFires, BranchedBy, InterruptedBy, Interrupt, Detach,
     AfterDetach, dbVars, bootVars, attachVars, execVars
<1>6. CASE PushElapsed
  BY <1>6, Zenon DEF PushElapsed, Push, Armable, SharesArray, NextUp, Detach, AfterDetach,
     dbVars, bootVars, attachVars, execVars
<1>7. CASE Enter
  BY <1>7, Zenon DEF Enter, Detach, AfterDetach, dbVars, bootVars, attachVars, execVars
<1>8. CASE Entered
  BY <1>8, Zenon DEF Entered, ExecuteHandler, Detach, AfterDetach, dbVars, bootVars, attachVars,
     execVars
<1>9. CASE ResumeSuspended
  BY <1>9, Zenon DEF ResumeSuspended, Detach, AfterDetach, dbVars, bootVars, attachVars,
     execVars
<1>10. CASE ResumeResumed
  BY <1>10, Zenon DEF ResumeResumed, Detach, AfterDetach, dbVars, bootVars, attachVars, execVars
<1>11. CASE Suspended
  BY <1>11, Zenon DEF Suspended, Proceed, Detach, AfterDetach, dbVars, bootVars, attachVars,
     execVars
<1>12. CASE Finish
  BY <1>12, Zenon DEF Finish, Detach, AfterDetach, dbVars, bootVars, attachVars, execVars
<1>13. CASE ExecDone
  BY <1>13, Zenon DEF ExecDone, MainGoesOn, Detach, AfterDetach, dbVars, bootVars, attachVars,
     execVars
<1>14. CASE Leave
  BY <1>14, Zenon DEF Leave, Detach, AfterDetach, dbVars, bootVars, attachVars, execVars
<1>15. CASE StopReceived
  BY <1>15, Zenon DEF StopReceived, Interrupt, Detach, AfterDetach, dbVars, bootVars,
     attachVars, execVars
<1>16. CASE \E c \in Chains : DetachNext(c)
  BY <1>16, Zenon DEF DetachNext, Detach, AfterDetach, dbVars, bootVars, attachVars, execVars
<1>17. CASE \E c \in Chains : Exited(c)
  BY <1>17, Zenon DEF Exited, Settle, Detach, AfterDetach, dbVars, bootVars, attachVars,
     execVars
<1>18. CASE \E p \in Paths : PathRuns(p)
  BY <1>18, Zenon DEF PathRuns, PathSettles, Settle, Detach, AfterDetach, dbVars, bootVars,
     attachVars, execVars
<1>19. CASE Answer
  BY <1>19, Zenon DEF Answer, Proceed, Detach, AfterDetach, dbVars, bootVars, attachVars,
     execVars
<1>20. CASE \E e \in Events : InterruptingEvent(e)
  BY <1>20, Zenon DEF InterruptingEvent, InterruptedBy, MayCome, Interrupt, Detach, AfterDetach,
     dbVars, bootVars, attachVars, execVars
<1>21. CASE \E e \in Events : NonInterruptingEvent(e)
  BY <1>21, Zenon DEF NonInterruptingEvent, BranchedBy, MayCome, Detach, AfterDetach, dbVars,
     bootVars, attachVars, execVars
<1>22. CASE \E how \in Stops : ProcessStopped(how)
  BY <1>22, Zenon DEF ProcessStopped, MayCome, Detach, AfterDetach, dbVars, bootVars,
     attachVars, execVars
<1>23. CASE CrashAndResume
  BY <1>23, Zenon DEF CrashAndResume, LoadedAs, FollowedEvents, Detach, AfterDetach, dbVars,
     bootVars, attachVars, execVars
<1>24. CASE UNCHANGED vars
  BY <1>24, Zenon DEF vars, Detach, AfterDetach, dbVars, bootVars, attachVars, execVars
<1> QED
  BY <1>1, <1>2, <1>3, <1>4, <1>5, <1>6, <1>7, <1>8, <1>9, <1>10, <1>11, <1>12, <1>13, <1>14,
     <1>15, <1>16, <1>17, <1>18, <1>19, <1>20, <1>21, <1>22, <1>23, <1>24 DEF Next, UrgentStep,
     Running, AttachStep, ActivityStep, ChainStep, Environment

\* Every step keeps the place of main and the progress of the promise body in
\* accord.
LEMMA Stationing ==
  ASSUME Values, Places, Lists, Stations, Walks, [Next]_vars
  PROVE  Stations'
<1> USE Names DEF Places, Stations, Attaching, MainPlaces, Walks, Lists
<1>1. CASE AttachNew
  BY <1>1 DEF AttachNew, NextUp, dbVars, bootVars, attachVars, execVars
<1>2. CASE ArmNew
  BY <1>2 DEF ArmNew, Push, Armable, SharesArray, NextUp, dbVars, bootVars, attachVars, execVars
<1>3. CASE ArmResumed
  BY <1>3 DEF ArmResumed, Push, Armable, SharesArray, NextUp, dbVars, bootVars, attachVars,
     execVars
<1>4. CASE ElapsedTimer
  BY <1>4 DEF ElapsedTimer, NextUp, dbVars, bootVars, attachVars, execVars
<1>5. CASE ElapsedTimerFires
  <2>1. CASE NextUp \in Interrupting
    <3>1. Detached(NextUp, {NextUp}, attached)
      BY <1>5, <2>1, Detaching, Upcoming DEF ElapsedTimerFires, InterruptedBy
    <3> QED
      BY <1>5, <2>1, <3>1, Interrupted DEF ElapsedTimerFires, InterruptedBy, Detached, dbVars,
         bootVars, attachVars, execVars
  <2>2. CASE NextUp \notin Interrupting
    BY <1>5, <2>2, Upcoming DEF ElapsedTimerFires, BranchedBy, dbVars, bootVars, attachVars,
       execVars
  <2> QED
    BY <2>1, <2>2
<1>6. CASE PushElapsed
  BY <1>6 DEF PushElapsed, Push, Armable, SharesArray, NextUp, dbVars, bootVars, attachVars,
     execVars
<1>7. CASE Enter
  BY <1>7 DEF Enter, dbVars, bootVars, attachVars, execVars
<1>8. CASE Entered
  BY <1>8 DEF Entered, ExecuteHandler, dbVars, bootVars, attachVars, execVars
<1>9. CASE ResumeSuspended
  BY <1>9 DEF ResumeSuspended, dbVars, bootVars, attachVars, execVars
<1>10. CASE ResumeResumed
  BY <1>10 DEF ResumeResumed, dbVars, bootVars, attachVars, execVars
<1>11. CASE Suspended
  BY <1>11 DEF Suspended, Proceed, dbVars, bootVars, attachVars, execVars
<1>12. CASE Finish
  BY <1>12 DEF Finish, dbVars, bootVars, attachVars, execVars
<1>13. CASE ExecDone
  <2>1. CASE MainGoesOn
    <3>1. Detached("main", {}, attached)
      BY <1>13, <2>1, Detaching, Upcoming DEF ExecDone
    <3> QED
      BY <1>13, <2>1, <3>1 DEF ExecDone, Detached, dbVars, bootVars, attachVars, execVars
  <2>2. CASE ~MainGoesOn
    BY <1>13, <2>2 DEF ExecDone, dbVars, bootVars, attachVars, execVars
  <2> QED
    BY <2>1, <2>2
<1>14. CASE Leave
  <2>1. Detached("main", {}, attached)
    BY <1>14, Detaching, Upcoming DEF Leave
  <2> QED
    BY <1>14, <2>1 DEF Leave, Detached, dbVars, bootVars, attachVars, execVars
<1>15. CASE StopReceived
  <2>1. CASE subscribed
    <3>1. Detached("stop", {}, attached)
      BY <1>15, <2>1, Heard, Detaching, Upcoming
    <3> QED
      BY <1>15, <2>1, <3>1, Heard, Interrupted DEF Detached, dbVars, bootVars, attachVars,
         execVars
  <2>2. CASE ~subscribed
    BY <1>15, <2>2, Unheard DEF dbVars, bootVars, attachVars, execVars
  <2> QED
    BY <2>1, <2>2
<1>16. CASE \E c \in Chains : DetachNext(c)
  <2>1. PICK c \in Chains : DetachNext(c)
    BY <1>16
  <2>2. todo[c] # <<>> /\ Head(todo[c]) \in Events /\ Tail(todo[c]) \in Seq(Events)
    BY <2>1, Remaining DEF DetachNext
  <2>3. PICK h \in Events, rest \in Seq(Events) : Detached(c, {h}, rest)
    BY <2>1, <2>2, Detaching, Upcoming DEF DetachNext
  <2> QED
    BY <2>1, <2>3 DEF DetachNext, Detached, dbVars, bootVars, attachVars, execVars
<1>17. CASE \E c \in Chains : Exited(c)
  BY <1>17 DEF Exited, Settle, dbVars, bootVars, attachVars, execVars
<1>18. CASE \E p \in Paths : PathRuns(p)
  BY <1>18 DEF PathRuns, PathSettles, Settle, dbVars, bootVars, attachVars, execVars
<1>19. CASE Answer
  BY <1>19 DEF Answer, Proceed, dbVars, bootVars, attachVars, execVars
<1>20. CASE \E e \in Events : InterruptingEvent(e)
  <2>1. PICK e \in Events : InterruptingEvent(e)
    BY <1>20
  <2>2. Detached(e, {e}, attached)
    BY <2>1, Detaching, Upcoming DEF InterruptingEvent, InterruptedBy
  <2> QED
    BY <2>1, <2>2, Interrupted DEF InterruptingEvent, InterruptedBy, MayCome, Detached, dbVars,
       bootVars, attachVars, execVars
<1>21. CASE \E e \in Events : NonInterruptingEvent(e)
  BY <1>21 DEF NonInterruptingEvent, BranchedBy, MayCome, dbVars, bootVars, attachVars, execVars
<1>22. CASE \E how \in Stops : ProcessStopped(how)
  BY <1>22 DEF ProcessStopped, MayCome, dbVars, bootVars, attachVars, execVars
<1>23. CASE CrashAndResume
  BY <1>23 DEF CrashAndResume, LoadedAs, FollowedEvents, dbVars, bootVars, attachVars, execVars
<1>24. CASE UNCHANGED vars
  BY <1>24 DEF vars, dbVars, bootVars, attachVars, execVars
<1> QED
  BY <1>1, <1>2, <1>3, <1>4, <1>5, <1>6, <1>7, <1>8, <1>9, <1>10, <1>11, <1>12, <1>13, <1>14,
     <1>15, <1>16, <1>17, <1>18, <1>19, <1>20, <1>21, <1>22, <1>23, <1>24 DEF Next, UrgentStep,
     Running, AttachStep, ActivityStep, ChainStep, Environment

\* A chain is detaching as long as it has handlers left, also when an event is
\* pushed to the list it walks.
LEMMA Walking ==
  ASSUME Values, Places, Walks, Idles, Lists, Stations, [Next]_vars
  PROVE  Walks'
<1> USE Names DEF Walks, Places, OtherPlaces, MainPlaces, Lists, Attaching, Idles
<1>1. CASE AttachNew
  BY <1>1 DEF AttachNew, NextUp, dbVars, bootVars, attachVars, execVars
<1>2. CASE ArmNew
  <2>1. at["main"] \in Attaching
    BY <1>2 DEF Attaching, ArmNew
  <2>2. PICK armed : Push(armed)
    BY <1>2 DEF ArmNew
  <2>3. ASSUME NEW c \in Chains
        PROVE  /\ todo'[c] # <<>> <=> todo[c] # <<>>
               /\ IF c = "main" THEN at[c] # "detach" /\ at'[c] # "detach" ELSE at'[c] = at[c]
    <3> HIDE DEF Lists, Walks, Attaching
    <3>1. todo'[c] # <<>> <=> todo[c] # <<>>
      BY <2>1, <2>2, <2>3, Pushed
    <3>2. at' = [at EXCEPT !["main"] = IF Tail(attachLeft) = <<>> THEN "attached" ELSE "attach"]
      BY <2>1, <2>2, Pushed
    <3>3. IF c = "main" THEN at[c] # "detach" /\ at'[c] # "detach" ELSE at'[c] = at[c]
      BY <2>1, <3>2 DEF Attaching
    <3> QED
      BY <3>1, <3>3
  <2> QED
    BY <2>3
<1>3. CASE ArmResumed
  <2>1. at["main"] \in Attaching
    BY <1>3 DEF Attaching, ArmResumed
  <2>2. PICK armed : Push(armed)
    BY <1>3 DEF ArmResumed
  <2>3. ASSUME NEW c \in Chains
        PROVE  /\ todo'[c] # <<>> <=> todo[c] # <<>>
               /\ IF c = "main" THEN at[c] # "detach" /\ at'[c] # "detach" ELSE at'[c] = at[c]
    <3> HIDE DEF Lists, Walks, Attaching
    <3>1. todo'[c] # <<>> <=> todo[c] # <<>>
      BY <2>1, <2>2, <2>3, Pushed
    <3>2. at' = [at EXCEPT !["main"] = IF Tail(attachLeft) = <<>> THEN "attached" ELSE "attach"]
      BY <2>1, <2>2, Pushed
    <3>3. IF c = "main" THEN at[c] # "detach" /\ at'[c] # "detach" ELSE at'[c] = at[c]
      BY <2>1, <3>2 DEF Attaching
    <3> QED
      BY <3>1, <3>3
  <2> QED
    BY <2>3
<1>4. CASE ElapsedTimer
  BY <1>4 DEF ElapsedTimer, NextUp, dbVars, bootVars, attachVars, execVars
<1>5. CASE ElapsedTimerFires
  <2>1. CASE NextUp \in Interrupting
    <3>1. Detached(NextUp, {NextUp}, attached)
      BY <1>5, <2>1, Detaching, Upcoming DEF ElapsedTimerFires, InterruptedBy
    <3> QED
      BY <1>5, <2>1, <3>1, Interrupted DEF ElapsedTimerFires, InterruptedBy, Detached, dbVars,
         bootVars, attachVars, execVars
  <2>2. CASE NextUp \notin Interrupting
    BY <1>5, <2>2, Upcoming DEF ElapsedTimerFires, BranchedBy, dbVars, bootVars, attachVars,
       execVars
  <2> QED
    BY <2>1, <2>2
<1>6. CASE PushElapsed
  <2>1. at["main"] \in Attaching
    BY <1>6 DEF Attaching, PushElapsed
  <2>2. PICK armed : Push(armed)
    BY <1>6 DEF PushElapsed
  <2>3. ASSUME NEW c \in Chains
        PROVE  /\ todo'[c] # <<>> <=> todo[c] # <<>>
               /\ IF c = "main" THEN at[c] # "detach" /\ at'[c] # "detach" ELSE at'[c] = at[c]
    <3> HIDE DEF Lists, Walks, Attaching
    <3>1. todo'[c] # <<>> <=> todo[c] # <<>>
      BY <2>1, <2>2, <2>3, Pushed
    <3>2. at' = [at EXCEPT !["main"] = IF Tail(attachLeft) = <<>> THEN "attached" ELSE "attach"]
      BY <2>1, <2>2, Pushed
    <3>3. IF c = "main" THEN at[c] # "detach" /\ at'[c] # "detach" ELSE at'[c] = at[c]
      BY <2>1, <3>2 DEF Attaching
    <3> QED
      BY <3>1, <3>3
  <2> QED
    BY <2>3
<1>7. CASE Enter
  BY <1>7 DEF Enter, dbVars, bootVars, attachVars, execVars
<1>8. CASE Entered
  BY <1>8 DEF Entered, ExecuteHandler, dbVars, bootVars, attachVars, execVars
<1>9. CASE ResumeSuspended
  BY <1>9 DEF ResumeSuspended, dbVars, bootVars, attachVars, execVars
<1>10. CASE ResumeResumed
  BY <1>10 DEF ResumeResumed, dbVars, bootVars, attachVars, execVars
<1>11. CASE Suspended
  BY <1>11 DEF Suspended, Proceed, dbVars, bootVars, attachVars, execVars
<1>12. CASE Finish
  BY <1>12 DEF Finish, dbVars, bootVars, attachVars, execVars
<1>13. CASE ExecDone
  <2>1. CASE MainGoesOn
    <3>1. Detached("main", {}, attached)
      BY <1>13, <2>1, Detaching, Upcoming DEF ExecDone
    <3> QED
      BY <1>13, <2>1, <3>1 DEF ExecDone, Detached, dbVars, bootVars, attachVars, execVars
  <2>2. CASE ~MainGoesOn
    BY <1>13, <2>2 DEF ExecDone, dbVars, bootVars, attachVars, execVars
  <2> QED
    BY <2>1, <2>2
<1>14. CASE Leave
  <2>1. Detached("main", {}, attached)
    BY <1>14, Detaching, Upcoming DEF Leave
  <2> QED
    BY SMTT(30), <1>14, <2>1 DEF Leave, Detached, dbVars, bootVars, attachVars, execVars
<1>15. CASE StopReceived
  <2>1. CASE subscribed
    <3>1. Detached("stop", {}, attached)
      BY <1>15, <2>1, Heard, Detaching, Upcoming
    <3> QED
      BY <1>15, <2>1, <3>1, Heard, Interrupted DEF Detached, dbVars, bootVars, attachVars,
         execVars
  <2>2. CASE ~subscribed
    BY <1>15, <2>2, Unheard DEF dbVars, bootVars, attachVars, execVars
  <2> QED
    BY <2>1, <2>2
<1>16. CASE \E c \in Chains : DetachNext(c)
  <2>1. PICK c \in Chains : DetachNext(c)
    BY <1>16
  <2>2. todo[c] # <<>> /\ Head(todo[c]) \in Events /\ Tail(todo[c]) \in Seq(Events)
    BY <2>1, Remaining DEF DetachNext
  <2>3. PICK h \in Events, rest \in Seq(Events) : Detached(c, {h}, rest)
    BY <2>1, <2>2, Detaching DEF DetachNext
  <2> QED
    BY <2>1, <2>3, DetachedWalks DEF DetachNext
<1>17. CASE \E c \in Chains : Exited(c)
  BY <1>17 DEF Exited, Settle, dbVars, bootVars, attachVars, execVars
<1>18. CASE \E p \in Paths : PathRuns(p)
  BY <1>18 DEF PathRuns, PathSettles, Settle, dbVars, bootVars, attachVars, execVars
<1>19. CASE Answer
  BY <1>19 DEF Answer, Proceed, dbVars, bootVars, attachVars, execVars
<1>20. CASE \E e \in Events : InterruptingEvent(e)
  <2>1. PICK e \in Events : InterruptingEvent(e)
    BY <1>20
  <2>2. Detached(e, {e}, attached)
    BY <2>1, Detaching, Upcoming DEF InterruptingEvent, InterruptedBy
  <2> QED
    BY <2>1, <2>2, Interrupted DEF InterruptingEvent, InterruptedBy, MayCome, Detached, dbVars,
       bootVars, attachVars, execVars
<1>21. CASE \E e \in Events : NonInterruptingEvent(e)
  BY <1>21 DEF NonInterruptingEvent, BranchedBy, MayCome, dbVars, bootVars, attachVars, execVars
<1>22. CASE \E how \in Stops : ProcessStopped(how)
  BY <1>22 DEF ProcessStopped, MayCome, dbVars, bootVars, attachVars, execVars
<1>23. CASE CrashAndResume
  BY <1>23 DEF CrashAndResume, LoadedAs, FollowedEvents, dbVars, bootVars, attachVars, execVars
<1>24. CASE UNCHANGED vars
  BY <1>24 DEF vars, dbVars, bootVars, attachVars, execVars
<1> QED
  BY <1>1, <1>2, <1>3, <1>4, <1>5, <1>6, <1>7, <1>8, <1>9, <1>10, <1>11, <1>12, <1>13, <1>14,
     <1>15, <1>16, <1>17, <1>18, <1>19, <1>20, <1>21, <1>22, <1>23, <1>24 DEF Next, UrgentStep,
     Running, AttachStep, ActivityStep, ChainStep, Environment

\* An event that does not interrupt never detaches, and the stop chain moves only
\* when the process instance has ended.
LEMMA Idling ==
  ASSUME Values, Places, Walks, Idles, Lists, Stations, [Next]_vars
  PROVE  Idles'
<1> USE Names DEF Places, OtherPlaces, MainPlaces, Lists, Attaching, Idles
<1>1. CASE AttachNew
  BY <1>1 DEF AttachNew, NextUp, dbVars, bootVars, attachVars, execVars
<1>2. CASE ArmNew
  BY <1>2 DEF ArmNew, Push, Armable, SharesArray, NextUp, dbVars, bootVars, attachVars, execVars
<1>3. CASE ArmResumed
  BY <1>3 DEF ArmResumed, Push, Armable, SharesArray, NextUp, dbVars, bootVars, attachVars,
     execVars
<1>4. CASE ElapsedTimer
  BY <1>4 DEF ElapsedTimer, NextUp, dbVars, bootVars, attachVars, execVars
<1>5. CASE ElapsedTimerFires
  <2>1. CASE NextUp \in Interrupting
    <3>1. Detached(NextUp, {NextUp}, attached)
      BY <1>5, <2>1, Detaching, Upcoming DEF ElapsedTimerFires, InterruptedBy
    <3> QED
      BY <1>5, <2>1, <3>1, Interrupted DEF ElapsedTimerFires, InterruptedBy, Detached, dbVars,
         bootVars, attachVars, execVars
  <2>2. CASE NextUp \notin Interrupting
    BY <1>5, <2>2, Upcoming DEF ElapsedTimerFires, BranchedBy, dbVars, bootVars, attachVars,
       execVars
  <2> QED
    BY <2>1, <2>2
<1>6. CASE PushElapsed
  BY <1>6 DEF PushElapsed, Push, Armable, SharesArray, NextUp, dbVars, bootVars, attachVars,
     execVars
<1>7. CASE Enter
  BY <1>7 DEF Enter, dbVars, bootVars, attachVars, execVars
<1>8. CASE Entered
  BY <1>8 DEF Entered, ExecuteHandler, dbVars, bootVars, attachVars, execVars
<1>9. CASE ResumeSuspended
  BY <1>9 DEF ResumeSuspended, dbVars, bootVars, attachVars, execVars
<1>10. CASE ResumeResumed
  BY <1>10 DEF ResumeResumed, dbVars, bootVars, attachVars, execVars
<1>11. CASE Suspended
  BY <1>11 DEF Suspended, Proceed, dbVars, bootVars, attachVars, execVars
<1>12. CASE Finish
  BY <1>12 DEF Finish, dbVars, bootVars, attachVars, execVars
<1>13. CASE ExecDone
  <2>1. CASE MainGoesOn
    <3>1. Detached("main", {}, attached)
      BY <1>13, <2>1, Detaching, Upcoming DEF ExecDone
    <3> QED
      BY <1>13, <2>1, <3>1 DEF ExecDone, Detached, dbVars, bootVars, attachVars, execVars
  <2>2. CASE ~MainGoesOn
    BY <1>13, <2>2 DEF ExecDone, dbVars, bootVars, attachVars, execVars
  <2> QED
    BY <2>1, <2>2
<1>14. CASE Leave
  <2>1. Detached("main", {}, attached)
    BY <1>14, Detaching, Upcoming DEF Leave
  <2> QED
    BY <1>14, <2>1 DEF Leave, Detached, dbVars, bootVars, attachVars, execVars
<1>15. CASE StopReceived
  <2>1. CASE subscribed
    <3>1. Detached("stop", {}, attached)
      BY <1>15, <2>1, Heard, Detaching, Upcoming
    <3> QED
      BY <1>15, <2>1, <3>1, Heard, Interrupted DEF Detached, dbVars, bootVars, attachVars,
         execVars
  <2>2. CASE ~subscribed
    BY <1>15, <2>2, Unheard DEF dbVars, bootVars, attachVars, execVars
  <2> QED
    BY <2>1, <2>2
<1>16. CASE \E c \in Chains : DetachNext(c)
  <2>1. PICK c \in Chains : DetachNext(c)
    BY <1>16
  <2>2. todo[c] # <<>> /\ Head(todo[c]) \in Events /\ Tail(todo[c]) \in Seq(Events)
    BY <2>1, Remaining DEF DetachNext
  <2>3. PICK h \in Events, rest \in Seq(Events) : Detached(c, {h}, rest)
    BY <2>1, <2>2, Detaching, Upcoming DEF DetachNext
  <2> QED
    BY <2>1, <2>3 DEF DetachNext, Detached, dbVars, bootVars, attachVars, execVars
<1>17. CASE \E c \in Chains : Exited(c)
  BY <1>17 DEF Exited, Settle, dbVars, bootVars, attachVars, execVars
<1>18. CASE \E p \in Paths : PathRuns(p)
  BY <1>18 DEF PathRuns, PathSettles, Settle, dbVars, bootVars, attachVars, execVars
<1>19. CASE Answer
  BY <1>19 DEF Answer, Proceed, dbVars, bootVars, attachVars, execVars
<1>20. CASE \E e \in Events : InterruptingEvent(e)
  <2>1. PICK e \in Events : InterruptingEvent(e)
    BY <1>20
  <2>2. Detached(e, {e}, attached)
    BY <2>1, Detaching, Upcoming DEF InterruptingEvent, InterruptedBy
  <2> QED
    BY <2>1, <2>2, Interrupted DEF InterruptingEvent, InterruptedBy, MayCome, Detached, dbVars,
       bootVars, attachVars, execVars
<1>21. CASE \E e \in Events : NonInterruptingEvent(e)
  BY <1>21 DEF NonInterruptingEvent, BranchedBy, MayCome, dbVars, bootVars, attachVars, execVars
<1>22. CASE \E how \in Stops : ProcessStopped(how)
  BY <1>22 DEF ProcessStopped, MayCome, dbVars, bootVars, attachVars, execVars
<1>23. CASE CrashAndResume
  BY <1>23 DEF CrashAndResume, LoadedAs, FollowedEvents, dbVars, bootVars, attachVars, execVars
<1>24. CASE UNCHANGED vars
  BY <1>24 DEF vars, dbVars, bootVars, attachVars, execVars
<1> QED
  BY <1>1, <1>2, <1>3, <1>4, <1>5, <1>6, <1>7, <1>8, <1>9, <1>10, <1>11, <1>12, <1>13, <1>14,
     <1>15, <1>16, <1>17, <1>18, <1>19, <1>20, <1>21, <1>22, <1>23, <1>24 DEF Next, UrgentStep,
     Running, AttachStep, ActivityStep, ChainStep, Environment

-----------------------------------------------------------------------------
(* What is armed is listed                                                 *)

\* Between two restarts a chain that was triggered stays so.
LEMMA Triggered ==
  ASSUME Values, Places, Idles, Lists, Walks, Stations, ~CrashAndResume, NEW k \in Chains,
         IsTriggered(k), [Next]_vars
  PROVE  IsTriggered(k)' /\ boot' = boot
<1> USE Names DEF Values, Places, MainPlaces, OtherPlaces, Idles, Lists, Attaching, IsTriggered
<1>1. CASE AttachNew
  BY <1>1, Upcoming DEF AttachNew, NextUp, dbVars, bootVars, attachVars, execVars
<1>2. CASE ArmNew
  BY <1>2, Upcoming DEF ArmNew, Push, Armable, SharesArray, NextUp, dbVars, bootVars,
     attachVars, execVars
<1>3. CASE ArmResumed
  BY <1>3, Upcoming DEF ArmResumed, Push, Armable, SharesArray, NextUp, dbVars, bootVars,
     attachVars, execVars
<1>4. CASE ElapsedTimer
  BY <1>4 DEF ElapsedTimer, NextUp, dbVars, bootVars, attachVars, execVars
<1>5. CASE ElapsedTimerFires
  <2>1. CASE NextUp \in Interrupting
    <3>1. Detached(NextUp, {NextUp}, attached)
      BY <1>5, <2>1, Detaching, Upcoming DEF ElapsedTimerFires, InterruptedBy
    <3> QED
      BY <1>5, <2>1, <3>1, Interrupted DEF ElapsedTimerFires, InterruptedBy, Detached, dbVars,
         bootVars, attachVars, execVars
  <2>2. CASE NextUp \notin Interrupting
    BY <1>5, <2>2, Upcoming DEF ElapsedTimerFires, BranchedBy, dbVars, bootVars, attachVars,
       execVars
  <2> QED
    BY <2>1, <2>2
<1>6. CASE PushElapsed
  BY <1>6, Upcoming DEF PushElapsed, Push, Armable, SharesArray, NextUp, dbVars, bootVars,
     attachVars, execVars
<1>7. CASE Enter
  BY <1>7 DEF Enter, dbVars, bootVars, attachVars, execVars
<1>8. CASE Entered
  BY <1>8 DEF Entered, ExecuteHandler, dbVars, bootVars, attachVars, execVars
<1>9. CASE ResumeSuspended
  BY <1>9 DEF ResumeSuspended, dbVars, bootVars, attachVars, execVars
<1>10. CASE ResumeResumed
  BY <1>10 DEF ResumeResumed, dbVars, bootVars, attachVars, execVars
<1>11. CASE Suspended
  BY <1>11 DEF Suspended, Proceed, dbVars, bootVars, attachVars, execVars
<1>12. CASE Finish
  BY <1>12 DEF Finish, dbVars, bootVars, attachVars, execVars
<1>13. CASE ExecDone
  <2>1. CASE MainGoesOn
    <3>1. Detached("main", {}, attached)
      BY <1>13, <2>1, Detaching, Upcoming DEF ExecDone
    <3> QED
      BY <1>13, <2>1, <3>1 DEF ExecDone, Detached, dbVars, bootVars, attachVars, execVars
  <2>2. CASE ~MainGoesOn
    BY <1>13, <2>2 DEF ExecDone, dbVars, bootVars, attachVars, execVars
  <2> QED
    BY <2>1, <2>2
<1>14. CASE Leave
  <2>1. Detached("main", {}, attached)
    BY <1>14, Detaching, Upcoming DEF Leave
  <2> QED
    BY <1>14, <2>1 DEF Leave, Detached, dbVars, bootVars, attachVars, execVars
<1>15. CASE StopReceived
  <2>1. CASE subscribed
    <3>1. Detached("stop", {}, attached)
      BY <1>15, <2>1, Heard, Detaching, Upcoming
    <3> QED
      BY <1>15, <2>1, <3>1, Heard, Interrupted DEF Detached, dbVars, bootVars, attachVars,
         execVars
  <2>2. CASE ~subscribed
    BY <1>15, <2>2, Unheard DEF dbVars, bootVars, attachVars, execVars
  <2> QED
    BY <2>1, <2>2
<1>16. CASE \E c \in Chains : DetachNext(c)
  <2>1. PICK c \in Chains : DetachNext(c)
    BY <1>16
  <2>2. todo[c] # <<>> /\ Head(todo[c]) \in Events /\ Tail(todo[c]) \in Seq(Events)
    BY <2>1, Remaining DEF DetachNext
  <2>3. PICK h \in Events, rest \in Seq(Events) : Detached(c, {h}, rest)
    BY <2>1, <2>2, Detaching, Upcoming DEF DetachNext
  <2> QED
    BY SMTT(30), <2>1, <2>3 DEF DetachNext, Detached, dbVars, bootVars, attachVars, execVars
<1>17. CASE \E c \in Chains : Exited(c)
  BY <1>17 DEF Exited, Settle, dbVars, bootVars, attachVars, execVars
<1>18. CASE \E p \in Paths : PathRuns(p)
  BY <1>18 DEF PathRuns, PathSettles, Settle, dbVars, bootVars, attachVars, execVars
<1>19. CASE Answer
  BY <1>19 DEF Answer, Proceed, dbVars, bootVars, attachVars, execVars
<1>20. CASE \E e \in Events : InterruptingEvent(e)
  <2>1. PICK e \in Events : InterruptingEvent(e)
    BY <1>20
  <2>2. Detached(e, {e}, attached)
    BY <2>1, Detaching, Upcoming DEF InterruptingEvent, InterruptedBy
  <2> QED
    BY <2>1, <2>2, Interrupted DEF InterruptingEvent, InterruptedBy, MayCome, Detached, dbVars,
       bootVars, attachVars, execVars
<1>21. CASE \E e \in Events : NonInterruptingEvent(e)
  BY <1>21 DEF NonInterruptingEvent, BranchedBy, MayCome, dbVars, bootVars, attachVars, execVars
<1>22. CASE \E how \in Stops : ProcessStopped(how)
  BY <1>22 DEF ProcessStopped, MayCome, dbVars, bootVars, attachVars, execVars
<1>23. CASE CrashAndResume
  BY <1>23
<1>24. CASE UNCHANGED vars
  BY <1>24 DEF vars, dbVars, bootVars, attachVars, execVars
<1> QED
  BY <1>1, <1>2, <1>3, <1>4, <1>5, <1>6, <1>7, <1>8, <1>9, <1>10, <1>11, <1>12, <1>13, <1>14,
     <1>15, <1>16, <1>17, <1>18, <1>19, <1>20, <1>21, <1>22, <1>23, <1>24 DEF Next, UrgentStep,
     Running, AttachStep, ActivityStep, ChainStep, Environment

\* So the exception of NothingStaysArmed lasts till the next restart.
LEMMA Twice ==
  ASSUME Values, Places, Idles, Lists, Walks, Stations, [Next]_vars, DetachedTwice,
         ~CrashAndResume
  PROVE  DetachedTwice'
<1>1. Interrupting \cup {"stop"} \subseteq Chains
  BY Names
<1> QED
  BY <1>1, Triggered DEF DetachedTwice

\* Unbothered is kept: in a first run nothing can come before the activity's row
\* exists, and the rows of the events do not exist before they are attached.
LEMMA Bothering ==
  ASSUME Values, Places, Idles, Lists, Walks, Stations, FirstStart, Unbothered, [Next]_vars
  PROVE  Unbothered'
<1> USE Names DEF Values, Places, MainPlaces, OtherPlaces, Idles, Lists, Stations, Attaching,
    Unbothered, FirstStart, NextUp
<1>1. CASE AttachNew
  BY <1>1, Upcoming DEF AttachNew, NextUp, dbVars, bootVars, attachVars, execVars
<1>2. CASE ArmNew
  BY <1>2, Upcoming DEF ArmNew, Push, Armable, SharesArray, NextUp, dbVars, bootVars,
     attachVars, execVars
<1>3. CASE ArmResumed
  BY <1>3, Upcoming DEF ArmResumed, Push, Armable, SharesArray, NextUp, dbVars, bootVars,
     attachVars, execVars
<1>4. CASE ElapsedTimer
  BY <1>4 DEF ElapsedTimer, NextUp, dbVars, bootVars, attachVars, execVars
<1>5. CASE ElapsedTimerFires
  <2>1. CASE NextUp \in Interrupting
    <3>1. Detached(NextUp, {NextUp}, attached)
      BY <1>5, <2>1, Detaching, Upcoming DEF ElapsedTimerFires, InterruptedBy
    <3> QED
      BY <1>5, <2>1, <3>1, Interrupted DEF ElapsedTimerFires, InterruptedBy, Detached, dbVars,
         bootVars, attachVars, execVars
  <2>2. CASE NextUp \notin Interrupting
    BY <1>5, <2>2, Upcoming DEF ElapsedTimerFires, BranchedBy, dbVars, bootVars, attachVars,
       execVars
  <2> QED
    BY <2>1, <2>2
<1>6. CASE PushElapsed
  BY <1>6, Upcoming DEF PushElapsed, Push, Armable, SharesArray, NextUp, dbVars, bootVars,
     attachVars, execVars
<1>7. CASE Enter
  BY <1>7 DEF Enter, dbVars, bootVars, attachVars, execVars
<1>8. CASE Entered
  BY <1>8 DEF Entered, ExecuteHandler, dbVars, bootVars, attachVars, execVars
<1>9. CASE ResumeSuspended
  BY <1>9 DEF ResumeSuspended, dbVars, bootVars, attachVars, execVars
<1>10. CASE ResumeResumed
  BY <1>10 DEF ResumeResumed, dbVars, bootVars, attachVars, execVars
<1>11. CASE Suspended
  BY <1>11 DEF Suspended, Proceed, dbVars, bootVars, attachVars, execVars
<1>12. CASE Finish
  BY <1>12 DEF Finish, dbVars, bootVars, attachVars, execVars
<1>13. CASE ExecDone
  <2>1. CASE MainGoesOn
    <3>1. Detached("main", {}, attached)
      BY <1>13, <2>1, Detaching, Upcoming DEF ExecDone
    <3> QED
      BY <1>13, <2>1, <3>1 DEF ExecDone, Detached, dbVars, bootVars, attachVars, execVars
  <2>2. CASE ~MainGoesOn
    BY <1>13, <2>2 DEF ExecDone, dbVars, bootVars, attachVars, execVars
  <2> QED
    BY <2>1, <2>2
<1>14. CASE Leave
  <2>1. Detached("main", {}, attached)
    BY <1>14, Detaching, Upcoming DEF Leave
  <2> QED
    BY <1>14, <2>1 DEF Leave, Detached, dbVars, bootVars, attachVars, execVars
<1>15. CASE StopReceived
  <2>1. CASE subscribed
    <3>1. Detached("stop", {}, attached)
      BY <1>15, <2>1, Heard, Detaching, Upcoming
    <3> QED
      BY <1>15, <2>1, <3>1, Heard, Interrupted DEF Detached, dbVars, bootVars, attachVars,
         execVars
  <2>2. CASE ~subscribed
    BY <1>15, <2>2, Unheard DEF dbVars, bootVars, attachVars, execVars
  <2> QED
    BY <2>1, <2>2
<1>16. CASE \E c \in Chains : DetachNext(c)
  <2>1. PICK c \in Chains : DetachNext(c)
    BY <1>16
  <2>2. todo[c] # <<>> /\ Head(todo[c]) \in Events /\ Tail(todo[c]) \in Seq(Events)
    BY <2>1, Remaining DEF DetachNext
  <2>3. PICK h \in Events, rest \in Seq(Events) : Detached(c, {h}, rest)
    BY <2>1, <2>2, Detaching DEF DetachNext
  <2>4. at[c] = "detach" /\ attachLeft' = attachLeft /\ boot' = boot
    BY <2>1 DEF DetachNext, bootVars
  <2>5. at'["main"] = "due" => at["main"] = "due" /\ NextUp' = NextUp
    <3>1. c = "main" => at'["main"] # "due"
      BY <2>3 DEF Detached
    <3>2. c # "main" => at'["main"] = at["main"]
      BY <2>3 DEF Detached
    <3> QED
      BY <2>4, <3>1, <3>2 DEF NextUp
  <2>6. CASE c = "main"
    BY <2>4, <2>5, <2>6
  <2>7. CASE c # "main"
    BY <2>3, <2>4, <2>5, <2>7 DEF Detached
  <2> QED
    BY <2>6, <2>7
<1>17. CASE \E c \in Chains : Exited(c)
  BY <1>17 DEF Exited, Settle, dbVars, bootVars, attachVars, execVars
<1>18. CASE \E p \in Paths : PathRuns(p)
  BY <1>18 DEF PathRuns, PathSettles, Settle, dbVars, bootVars, attachVars, execVars
<1>19. CASE Answer
  BY <1>19 DEF Answer, Proceed, dbVars, bootVars, attachVars, execVars
<1>20. CASE \E e \in Events : InterruptingEvent(e)
  <2>1. PICK e \in Events : InterruptingEvent(e)
    BY <1>20
  <2>2. Detached(e, {e}, attached)
    BY <2>1, Detaching, Upcoming DEF InterruptingEvent, InterruptedBy
  <2> QED
    BY <2>1, <2>2, Interrupted DEF InterruptingEvent, InterruptedBy, MayCome, Detached, dbVars,
       bootVars, attachVars, execVars
<1>21. CASE \E e \in Events : NonInterruptingEvent(e)
  BY <1>21 DEF NonInterruptingEvent, BranchedBy, MayCome, dbVars, bootVars, attachVars, execVars
<1>22. CASE \E how \in Stops : ProcessStopped(how)
  BY <1>22 DEF ProcessStopped, MayCome, dbVars, bootVars, attachVars, execVars
<1>23. CASE CrashAndResume
  BY <1>23 DEF CrashAndResume, LoadedAs, FollowedEvents, dbVars, bootVars, attachVars, execVars
<1>24. CASE UNCHANGED vars
  BY <1>24 DEF vars, dbVars, bootVars, attachVars, execVars
<1> QED
  BY <1>1, <1>2, <1>3, <1>4, <1>5, <1>6, <1>7, <1>8, <1>9, <1>10, <1>11, <1>12, <1>13, <1>14,
     <1>15, <1>16, <1>17, <1>18, <1>19, <1>20, <1>21, <1>22, <1>23, <1>24 DEF Next, UrgentStep,
     Running, AttachStep, ActivityStep, ChainStep, Environment

\* FirstStart is kept: an event is attached once, because the list holds it once.
LEMMA FirstStarting ==
  ASSUME Values, Places, Idles, Lists, Walks, Stations, FirstStart, Unbothered, [Next]_vars
  PROVE  FirstStart'
<1> USE Names DEF Values, Places, MainPlaces, OtherPlaces, Idles, Lists, Stations, Attaching,
    Unbothered, FirstStart
<1>1. CASE AttachNew
  <2>1. attachLeft # <<>> /\ attachLeft \in Seq(Events)
    BY <1>1, Upcoming DEF AttachNew
  <2>2. \A i \in DOMAIN attachLeft : i > 1 => attachLeft[i] # NextUp
    BY <2>1, HeadTailProperties DEF NextUp, IsInjective
  <2>3. at'["main"] = "arming"
    BY <1>1 DEF AttachNew
  <2>4. \A e \in Events \ {NextUp} : eventRow'[e] = eventRow[e]
    BY <1>1 DEF AttachNew
  <2>5. UNCHANGED <<row, attachLeft, boot, loaded>>
    BY <1>1 DEF AttachNew, attachVars, bootVars
  <2>6. \A i \in DOMAIN attachLeft : attachLeft[i] \in Events
    BY <2>1
  <2> QED
    BY <2>2, <2>3, <2>4, <2>5, <2>6
<1>2. CASE ArmNew
  <2>1. at["main"] \in Attaching
    BY <1>2 DEF ArmNew
  <2>2. PICK armed : Push(armed)
    BY <1>2 DEF ArmNew
  <2>3. attachLeft # <<>> /\ attachLeft \in Seq(Events)
    BY <2>1, Upcoming
  <2>4. attachLeft' = Tail(attachLeft) /\ UNCHANGED <<row, eventRow, boot, loaded>>
    BY <2>2 DEF Push, dbVars, bootVars
  <2>5. IsInjective(Tail(attachLeft))
    BY <2>3, SeqFacts
  <2>6. \A i \in DOMAIN Tail(attachLeft) : i + 1 \in DOMAIN attachLeft /\ i + 1 > 1
                                           /\ Tail(attachLeft)[i] = attachLeft[i + 1]
    BY SMTT(30), <2>3, HeadTailProperties
  <2>7. at'["main"] # "due"
    BY <2>2 DEF Push
  <2> QED
    BY <2>3, <2>4, <2>5, <2>6, <2>7
<1>3. CASE ArmResumed
  <2>1. at["main"] \in Attaching
    BY <1>3 DEF ArmResumed
  <2>2. PICK armed : Push(armed)
    BY <1>3 DEF ArmResumed
  <2>3. attachLeft # <<>> /\ attachLeft \in Seq(Events)
    BY <2>1, Upcoming
  <2>4. attachLeft' = Tail(attachLeft) /\ UNCHANGED <<row, eventRow, boot, loaded>>
    BY <2>2 DEF Push, dbVars, bootVars
  <2>5. IsInjective(Tail(attachLeft))
    BY <2>3, SeqFacts
  <2>6. \A i \in DOMAIN Tail(attachLeft) : i + 1 \in DOMAIN attachLeft /\ i + 1 > 1
                                           /\ Tail(attachLeft)[i] = attachLeft[i + 1]
    BY SMTT(30), <2>3, HeadTailProperties
  <2>7. at'["main"] # "due"
    BY <2>2 DEF Push
  <2> QED
    BY <2>3, <2>4, <2>5, <2>6, <2>7
<1>4. CASE ElapsedTimer
  BY <1>4 DEF ElapsedTimer, NextUp, dbVars, bootVars, attachVars, execVars
<1>5. CASE ElapsedTimerFires
  <2>1. CASE NextUp \in Interrupting
    <3>1. Detached(NextUp, {NextUp}, attached)
      BY <1>5, <2>1, Detaching, Upcoming DEF ElapsedTimerFires, InterruptedBy
    <3> QED
      BY <1>5, <2>1, <3>1, Interrupted DEF ElapsedTimerFires, InterruptedBy, Detached, dbVars,
         bootVars, attachVars, execVars
  <2>2. CASE NextUp \notin Interrupting
    BY <1>5, <2>2, Upcoming DEF ElapsedTimerFires, BranchedBy, dbVars, bootVars, attachVars,
       execVars
  <2> QED
    BY <2>1, <2>2
<1>6. CASE PushElapsed
  <2>1. at["main"] \in Attaching
    BY <1>6 DEF PushElapsed
  <2>2. PICK armed : Push(armed)
    BY <1>6 DEF PushElapsed
  <2>3. attachLeft # <<>> /\ attachLeft \in Seq(Events)
    BY <2>1, Upcoming
  <2>4. attachLeft' = Tail(attachLeft) /\ UNCHANGED <<row, eventRow, boot, loaded>>
    BY <2>2 DEF Push, dbVars, bootVars
  <2>5. IsInjective(Tail(attachLeft))
    BY <2>3, SeqFacts
  <2>6. \A i \in DOMAIN Tail(attachLeft) : i + 1 \in DOMAIN attachLeft /\ i + 1 > 1
                                           /\ Tail(attachLeft)[i] = attachLeft[i + 1]
    BY SMTT(30), <2>3, HeadTailProperties
  <2>7. at'["main"] # "due"
    BY <2>2 DEF Push
  <2> QED
    BY <2>3, <2>4, <2>5, <2>6, <2>7
<1>7. CASE Enter
  BY <1>7 DEF Enter, dbVars, bootVars, attachVars, execVars
<1>8. CASE Entered
  BY <1>8 DEF Entered, ExecuteHandler, dbVars, bootVars, attachVars, execVars
<1>9. CASE ResumeSuspended
  BY <1>9 DEF ResumeSuspended, dbVars, bootVars, attachVars, execVars
<1>10. CASE ResumeResumed
  BY <1>10 DEF ResumeResumed, dbVars, bootVars, attachVars, execVars
<1>11. CASE Suspended
  BY <1>11 DEF Suspended, Proceed, dbVars, bootVars, attachVars, execVars
<1>12. CASE Finish
  BY <1>12 DEF Finish, dbVars, bootVars, attachVars, execVars
<1>13. CASE ExecDone
  <2>1. CASE MainGoesOn
    <3>1. Detached("main", {}, attached)
      BY <1>13, <2>1, Detaching, Upcoming DEF ExecDone
    <3> QED
      BY <1>13, <2>1, <3>1 DEF ExecDone, Detached, dbVars, bootVars, attachVars, execVars
  <2>2. CASE ~MainGoesOn
    BY <1>13, <2>2 DEF ExecDone, dbVars, bootVars, attachVars, execVars
  <2> QED
    BY <2>1, <2>2
<1>14. CASE Leave
  <2>1. Detached("main", {}, attached)
    BY <1>14, Detaching, Upcoming DEF Leave
  <2> QED
    BY <1>14, <2>1 DEF Leave, Detached, dbVars, bootVars, attachVars, execVars
<1>15. CASE StopReceived
  <2>1. CASE subscribed
    <3>1. Detached("stop", {}, attached)
      BY <1>15, <2>1, Heard, Detaching, Upcoming
    <3> QED
      BY <1>15, <2>1, <3>1, Heard, Interrupted DEF Detached, dbVars, bootVars, attachVars,
         execVars
  <2>2. CASE ~subscribed
    BY <1>15, <2>2, Unheard DEF dbVars, bootVars, attachVars, execVars
  <2> QED
    BY <2>1, <2>2
<1>16. CASE \E c \in Chains : DetachNext(c)
  <2>1. PICK c \in Chains : DetachNext(c)
    BY <1>16
  <2>2. todo[c] # <<>> /\ Head(todo[c]) \in Events /\ Tail(todo[c]) \in Seq(Events)
    BY <2>1, Remaining DEF DetachNext
  <2>3. PICK h \in Events, rest \in Seq(Events) : Detached(c, {h}, rest)
    BY <2>1, <2>2, Detaching, Upcoming DEF DetachNext
  <2> QED
    BY <2>1, <2>3 DEF DetachNext, Detached, dbVars, bootVars, attachVars, execVars
<1>17. CASE \E c \in Chains : Exited(c)
  BY <1>17 DEF Exited, Settle, dbVars, bootVars, attachVars, execVars
<1>18. CASE \E p \in Paths : PathRuns(p)
  BY <1>18 DEF PathRuns, PathSettles, Settle, dbVars, bootVars, attachVars, execVars
<1>19. CASE Answer
  BY <1>19 DEF Answer, Proceed, dbVars, bootVars, attachVars, execVars
<1>20. CASE \E e \in Events : InterruptingEvent(e)
  <2>1. PICK e \in Events : InterruptingEvent(e)
    BY <1>20
  <2>2. Detached(e, {e}, attached)
    BY <2>1, Detaching, Upcoming DEF InterruptingEvent, InterruptedBy
  <2> QED
    BY <2>1, <2>2, Interrupted DEF InterruptingEvent, InterruptedBy, MayCome, Detached, dbVars,
       bootVars, attachVars, execVars
<1>21. CASE \E e \in Events : NonInterruptingEvent(e)
  BY <1>21 DEF NonInterruptingEvent, BranchedBy, MayCome, dbVars, bootVars, attachVars, execVars
<1>22. CASE \E how \in Stops : ProcessStopped(how)
  BY <1>22 DEF ProcessStopped, MayCome, dbVars, bootVars, attachVars, execVars
<1>23. CASE CrashAndResume
  <2>1. boot' # 0
    BY <1>23 DEF CrashAndResume, Values
  <2>2. IsInjective(attachLeft')
    <3>1. IsInjective(<<>>)
      BY DEF IsInjective
    <3> QED
      BY <1>23, <3>1, ConstantsAssumption DEF CrashAndResume
  <2> QED
    BY <2>1, <2>2
<1>24. CASE UNCHANGED vars
  BY <1>24 DEF vars, dbVars, bootVars, attachVars, execVars
<1> QED
  BY <1>1, <1>2, <1>3, <1>4, <1>5, <1>6, <1>7, <1>8, <1>9, <1>10, <1>11, <1>12, <1>13, <1>14,
     <1>15, <1>16, <1>17, <1>18, <1>19, <1>20, <1>21, <1>22, <1>23, <1>24 DEF Next, UrgentStep,
     Running, AttachStep, ActivityStep, ChainStep, Environment

\* Two chains can only be detaching while main attaches if DetachedTwice holds.
LEMMA NotTwice ==
  ASSUME Values, Places, Idles, Lists, Stations, Unbothered, ~DetachedTwice,
         NEW c \in Chains, at[c] = "detach", attachLeft # <<>>
  PROVE  \A d \in Chains \ {c} : at[d] # "detach"
<1>1. at["main"] # "detach"
  BY DEF Stations, Attaching
<1>2. boot > 0 /\ (Early \/ Elapsed)
  BY <1>1 DEF Unbothered, Values
<1>3. \A d \in Chains : at[d] = "detach" => d \in Interrupting \cup {"stop"}
  BY <1>1, Names DEF Idles
<1> QED
  BY <1>2, <1>3 DEF DetachedTwice, IsTriggered

\* A detachment keeps Listed: it starts with the whole list, or takes the head of
\* it, and drops the list only when nothing is armed.
LEMMA DetachListed ==
  ASSUME Values, Places, Idles, Lists, Listed, attachLeft' = attachLeft,
         NEW c \in Chains, NEW freed, NEW rest \in Seq(Events), Detached(c, freed, rest),
         \/ rest = attached
         \/ /\ at[c] = "detach" /\ todo[c] # <<>> /\ freed = {Head(todo[c])} /\ rest = Tail(todo[c])
            /\ attachLeft # <<>> /\ rest = <<>> => \A d \in Chains \ {c} : at[d] # "detach"
  PROVE  Listed' /\ (rest = <<>> => live' = {})
<1>1. live' \subseteq live /\ todo'[c] = rest /\ \A d \in Chains \ {c} : todo'[d] = todo[d]
  BY DEF Detached, Lists
<1>2. \A d \in Chains \ {c} : at'[d] = "detach" => at[d] = "detach"
  BY Names DEF Detached, Places, MainPlaces, Idles
<1>3. attached \in Seq(Events) /\ \A d \in Chains : todo[d] \in Seq(Events)
  BY DEF Lists
<1>4. attached' = IF rest = <<>> THEN <<>> ELSE attached
  BY DEF Detached
<1>5. at'[c] = "detach" => rest # <<>>
  BY DEF Detached, Places
<1>6. live' \cap freed = {}
  BY DEF Detached
<1>7. CASE rest = attached
  <2>1. live' \subseteq ToSet(rest)
    BY <1>1, <1>7 DEF Listed
  <2>2. rest = <<>> => live' = {}
    BY <2>1, SeqFacts
  <2> QED
    BY <1>1, <1>2, <1>4, <1>5, <1>7, <2>1, <2>2 DEF Listed
<1>8. CASE rest # attached
  <2>1. /\ at[c] = "detach" /\ todo[c] # <<>> /\ freed = {Head(todo[c])} /\ rest = Tail(todo[c])
        /\ attachLeft # <<>> /\ rest = <<>> => \A d \in Chains \ {c} : at[d] # "detach"
    BY <1>8
  <2>2. ToSet(todo[c]) = {Head(todo[c])} \cup ToSet(rest) /\ (rest # <<>> => Last(rest) = Last(todo[c]))
    BY <1>3, <2>1, SeqFacts
  <2>3. live' \subseteq ToSet(rest)
    BY <1>1, <1>6, <2>1, <2>2 DEF Listed
  <2>4. rest = <<>> => live' = {}
    BY <2>3, SeqFacts
  <2>5. rest # <<>> => live' \subseteq ToSet(attached)
    BY <1>1 DEF Listed
  <2>6. live' \subseteq ToSet(attached')
    BY <1>4, <2>4, <2>5
  <2>7. ASSUME NEW d \in Chains, at'[d] = "detach"
        PROVE  /\ live' \subseteq ToSet(todo'[d])
               /\ attachLeft # <<>> => attached' # <<>> /\ Last(todo'[d]) = Last(attached')
    <3>1. CASE d = c
      BY <1>1, <1>4, <1>5, <2>1, <2>2, <2>3, <2>7, <3>1 DEF Listed
    <3>2. CASE d # c
      BY <1>1, <1>2, <1>4, <2>1, <2>7, <3>2 DEF Listed
    <3> QED
      BY <3>1, <3>2
  <2> QED
    BY <2>4, <2>6, <2>7 DEF Listed
<1> QED
  BY <1>7, <1>8

\* Pushing an event keeps Listed: a chain that is detaching walks the array it is
\* pushed to.
LEMMA PushListed ==
  ASSUME Places, Lists, Walks, Stations, at["main"] \in Attaching, Listed,
         NEW armed, armed \subseteq {NextUp}, Push(armed)
  PROVE  Listed'
<1>1. NextUp \in Events /\ attachLeft # <<>>
  BY Upcoming
<1>2. attached' = Append(attached, NextUp) /\ attached \in Seq(Events)
  BY Pushed DEF Lists
<1>3. ToSet(attached') = ToSet(attached) \cup {NextUp} /\ Last(attached') = NextUp /\ attached' # <<>>
  BY <1>1, <1>2, SeqFacts, AppendProperties
<1>4. live' \subseteq live \cup {NextUp}
  BY DEF Push, Armable
<1>5. ASSUME NEW c \in Chains, at'[c] = "detach"
      PROVE  live' \subseteq ToSet(todo'[c]) /\ Last(todo'[c]) = Last(attached')
  <2>1. at[c] = "detach"
    BY <1>5, Pushed DEF Places
  <2>2. SharesArray(c)
    BY <1>1, <2>1 DEF Listed, SharesArray, Walks
  <2>3. todo'[c] = Append(todo[c], NextUp) /\ todo[c] \in Seq(Events)
    BY <2>2, Pushed
  <2>4. ToSet(todo'[c]) = ToSet(todo[c]) \cup {NextUp} /\ Last(todo'[c]) = NextUp
    BY <1>1, <2>3, SeqFacts
  <2> QED
    BY <1>3, <1>4, <2>1, <2>4 DEF Listed
<1> QED
  BY <1>3, <1>4, <1>5 DEF Listed

\* Every step but those after DetachedTwice keeps Listed.
LEMMA ListingOn ==
  ASSUME Values, Places, Idles, Lists, Walks, Stations, Unbothered, Listed, ~DetachedTwice,
         [Next]_vars
  PROVE  Listed'
<1> USE Names DEF Places, MainPlaces, OtherPlaces
<1>0. attached \in Seq(Events)
  BY DEF Lists
<1>1. CASE AttachNew
  BY <1>1 DEF AttachNew, NextUp, Listed, dbVars, bootVars, attachVars, execVars
<1>2. CASE ArmNew
  <2>1. at["main"] \in Attaching
    BY <1>2 DEF Attaching, ArmNew
  <2>2. PICK armed : Push(armed) /\ armed \subseteq {NextUp}
    BY <1>2 DEF ArmNew
  <2> QED
    BY <2>1, <2>2, PushListed
<1>3. CASE ArmResumed
  <2>1. at["main"] \in Attaching
    BY <1>3 DEF Attaching, ArmResumed
  <2>2. PICK armed : Push(armed) /\ armed \subseteq {NextUp}
    BY <1>3 DEF ArmResumed
  <2> QED
    BY <2>1, <2>2, PushListed
<1>4. CASE ElapsedTimer
  BY <1>4 DEF ElapsedTimer, NextUp, Listed, dbVars, bootVars, attachVars, execVars
<1>5. CASE ElapsedTimerFires
  <2>1. CASE NextUp \in Interrupting
    <3>1. Detached(NextUp, {NextUp}, attached) /\ attachLeft' = attachLeft
      BY <1>5, <1>0, <2>1, Detaching DEF ElapsedTimerFires, InterruptedBy
    <3> QED
      BY <1>0, <2>1, <3>1, DetachListed
  <2>2. CASE NextUp \notin Interrupting
    <3>1. at["main"] \in Attaching
      BY <1>5 DEF ElapsedTimerFires, Attaching
    <3> QED
      BY <1>5, <2>2, <3>1, Upcoming DEF ElapsedTimerFires, BranchedBy, Listed
  <2> QED
    BY <2>1, <2>2
<1>6. CASE PushElapsed
  <2>1. at["main"] \in Attaching
    BY <1>6 DEF Attaching, PushElapsed
  <2>2. PICK armed : Push(armed) /\ armed \subseteq {NextUp}
    BY <1>6 DEF PushElapsed
  <2> QED
    BY <2>1, <2>2, PushListed
<1>7. CASE Enter
  BY <1>7 DEF Enter, Listed, dbVars, bootVars, attachVars, execVars
<1>8. CASE Entered
  BY <1>8 DEF Entered, ExecuteHandler, Listed, dbVars, bootVars, attachVars, execVars
<1>9. CASE ResumeSuspended
  BY <1>9 DEF ResumeSuspended, Listed, dbVars, bootVars, attachVars, execVars
<1>10. CASE ResumeResumed
  BY <1>10 DEF ResumeResumed, Listed, dbVars, bootVars, attachVars, execVars
<1>11. CASE Suspended
  BY <1>11 DEF Suspended, Proceed, Listed, dbVars, bootVars, attachVars, execVars
<1>12. CASE Finish
  BY <1>12 DEF Finish, Listed, dbVars, bootVars, attachVars, execVars
<1>13. CASE ExecDone
  <2>1. CASE MainGoesOn
    <3>1. Detached("main", {}, attached) /\ attachLeft' = attachLeft
      BY <1>13, <1>0, <2>1, Detaching DEF ExecDone
    <3> QED
      BY <1>0, <3>1, DetachListed
  <2>2. CASE ~MainGoesOn
    BY <1>13, <2>2 DEF ExecDone, Listed
  <2> QED
    BY <2>1, <2>2
<1>14. CASE Leave
  <2>1. Detached("main", {}, attached) /\ attachLeft' = attachLeft
    BY <1>14, <1>0, Detaching DEF Leave
  <2> QED
    BY <1>0, <2>1, DetachListed
<1>15. CASE StopReceived
  <2>1. CASE subscribed
    <3>1. Detached("stop", {}, attached) /\ attachLeft' = attachLeft
      BY <1>15, <1>0, <2>1, Heard, Detaching
    <3> QED
      BY <1>0, <3>1, DetachListed
  <2>2. CASE ~subscribed
    BY <1>15, <2>2, Unheard DEF Listed
  <2> QED
    BY <2>1, <2>2
<1>16. CASE \E c \in Chains : DetachNext(c)
  <2>1. PICK c \in Chains : DetachNext(c)
    BY <1>16
  <2>2. todo[c] # <<>> /\ Head(todo[c]) \in Events /\ Tail(todo[c]) \in Seq(Events)
    BY <2>1, Remaining DEF DetachNext
  <2>3. Detached(c, {Head(todo[c])}, Tail(todo[c])) /\ attachLeft' = attachLeft
    BY <2>1, <2>2, Detaching DEF DetachNext
  <2>4. attachLeft # <<>> => \A d \in Chains \ {c} : at[d] # "detach"
    BY <2>1, NotTwice DEF DetachNext
  <2> QED
    BY <2>1, <2>2, <2>3, <2>4, DetachListed DEF DetachNext
<1>17. CASE \E c \in Chains : Exited(c)
  BY <1>17 DEF Exited, Settle, Listed, dbVars, bootVars, attachVars, execVars
<1>18. CASE \E p \in Paths : PathRuns(p)
  BY <1>18 DEF PathRuns, PathSettles, Settle, Listed, dbVars, bootVars, attachVars, execVars
<1>19. CASE Answer
  BY <1>19 DEF Answer, Proceed, Listed, dbVars, bootVars, attachVars, execVars
<1>20. CASE \E e \in Events : InterruptingEvent(e)
  <2>1. PICK e \in Events : InterruptingEvent(e)
    BY <1>20
  <2>2. Detached(e, {e}, attached) /\ attachLeft' = attachLeft
    BY <1>0, <2>1, Detaching DEF InterruptingEvent, InterruptedBy
  <2> QED
    BY <1>0, <2>2, DetachListed
<1>21. CASE \E e \in Events : NonInterruptingEvent(e)
  BY <1>21 DEF NonInterruptingEvent, BranchedBy, MayCome, Listed, dbVars, bootVars, attachVars,
     execVars
<1>22. CASE \E how \in Stops : ProcessStopped(how)
  BY <1>22 DEF ProcessStopped, MayCome, Listed, dbVars, bootVars, attachVars, execVars
<1>23. CASE CrashAndResume
  BY <1>23 DEF CrashAndResume, LoadedAs, FollowedEvents, Listed, dbVars, bootVars, attachVars,
     execVars
<1>24. CASE UNCHANGED vars
  BY <1>24 DEF vars, Listed, dbVars, bootVars, attachVars, execVars
<1> QED
  BY <1>1, <1>2, <1>3, <1>4, <1>5, <1>6, <1>7, <1>8, <1>9, <1>10, <1>11, <1>12, <1>13, <1>14,
     <1>15, <1>16, <1>17, <1>18, <1>19, <1>20, <1>21, <1>22, <1>23, <1>24 DEF Next, UrgentStep,
     Running, AttachStep, ActivityStep, ChainStep, Environment

\* Main goes on when nothing is armed any more, and nothing is armed after that.
LEMMA GoingOn ==
  ASSUME Values, Places, Idles, Lists, Walks, Stations, Unbothered, Listed, ~DetachedTwice,
         ~CrashAndResume, Gone, at'["main"] \in {"next", "over"}, [Next]_vars
  PROVE  live' = {}
<1> USE Names DEF Places, MainPlaces, OtherPlaces
<1>0. attached \in Seq(Events)
  BY DEF Lists
<1>1. CASE AttachNew
  BY <1>1 DEF AttachNew, NextUp, Gone, dbVars, bootVars, attachVars, execVars
<1>2. CASE ArmNew
  BY <1>2 DEF ArmNew, Push, Armable, SharesArray, NextUp, Gone, dbVars, bootVars, attachVars,
     execVars
<1>3. CASE ArmResumed
  BY <1>3 DEF ArmResumed, Push, Armable, SharesArray, NextUp, Gone, dbVars, bootVars,
     attachVars, execVars
<1>4. CASE ElapsedTimer
  BY <1>4 DEF ElapsedTimer, NextUp, Gone, dbVars, bootVars, attachVars, execVars
<1>5. CASE ElapsedTimerFires
  <2>1. NextUp \in Events /\ at["main"] \notin {"next", "over"}
    BY <1>5, Upcoming DEF ElapsedTimerFires, Attaching
  <2>2. CASE NextUp \in Interrupting
    <3>1. Detached(NextUp, {NextUp}, attached)
      BY <1>5, <1>0, <2>2, Detaching DEF ElapsedTimerFires, InterruptedBy
    <3> QED
      BY <2>1, <3>1 DEF Detached
  <2>3. CASE NextUp \notin Interrupting
    BY <1>5, <2>1, <2>3 DEF ElapsedTimerFires, BranchedBy
  <2> QED
    BY <2>2, <2>3
<1>6. CASE PushElapsed
  BY <1>6 DEF PushElapsed, Push, Armable, SharesArray, NextUp, Gone, dbVars, bootVars,
     attachVars, execVars
<1>7. CASE Enter
  BY <1>7 DEF Enter, Gone, dbVars, bootVars, attachVars, execVars
<1>8. CASE Entered
  BY <1>8 DEF Entered, ExecuteHandler, Gone, dbVars, bootVars, attachVars, execVars
<1>9. CASE ResumeSuspended
  BY <1>9 DEF ResumeSuspended, Gone, dbVars, bootVars, attachVars, execVars
<1>10. CASE ResumeResumed
  BY <1>10 DEF ResumeResumed, Gone, dbVars, bootVars, attachVars, execVars
<1>11. CASE Suspended
  BY <1>11 DEF Suspended, Proceed, Gone, dbVars, bootVars, attachVars, execVars
<1>12. CASE Finish
  BY <1>12 DEF Finish, Gone, dbVars, bootVars, attachVars, execVars
<1>13. CASE ExecDone
  <2>1. CASE MainGoesOn
    <3>1. Detached("main", {}, attached) /\ attachLeft' = attachLeft
      BY <1>13, <1>0, <2>1, Detaching DEF ExecDone
    <3> QED
      BY <1>0, <3>1, DetachListed DEF Detached
  <2>2. CASE ~MainGoesOn
    BY <1>13, <2>2 DEF ExecDone, Gone
  <2> QED
    BY <2>1, <2>2
<1>14. CASE Leave
  <2>1. Detached("main", {}, attached) /\ attachLeft' = attachLeft
    BY <1>14, <1>0, Detaching DEF Leave
  <2> QED
    BY <1>0, <2>1, DetachListed DEF Detached
<1>15. CASE StopReceived
  <2>1. CASE subscribed
    <3>1. Detached("stop", {}, attached)
      BY <1>15, <1>0, <2>1, Heard, Detaching
    <3> QED
      BY <3>1 DEF Detached, Gone
  <2>2. CASE ~subscribed
    BY <1>15, <2>2, Unheard DEF Gone
  <2> QED
    BY <2>1, <2>2
<1>16. CASE \E c \in Chains : DetachNext(c)
  <2>1. PICK c \in Chains : DetachNext(c)
    BY <1>16
  <2>2. todo[c] # <<>> /\ Head(todo[c]) \in Events /\ Tail(todo[c]) \in Seq(Events)
    BY <2>1, Remaining DEF DetachNext
  <2>3. Detached(c, {Head(todo[c])}, Tail(todo[c])) /\ attachLeft' = attachLeft
    BY <2>1, <2>2, Detaching DEF DetachNext
  <2>4. attachLeft # <<>> => \A d \in Chains \ {c} : at[d] # "detach"
    BY <2>1, NotTwice DEF DetachNext
  <2>5. Tail(todo[c]) = <<>> => live' = {}
    <3>1. at[c] = "detach"
      BY <2>1 DEF DetachNext
    <3>2. /\ Tail(todo[c]) \in Seq(Events)
          /\ attachLeft # <<>> /\ Tail(todo[c]) = <<>> =>
               \A d \in Chains \ {c} : at[d] # "detach"
      BY <2>2, <2>4
    <3> HIDE DEF Places, MainPlaces, OtherPlaces
    <3> QED
      BY <2>2, <2>3, <3>1, <3>2, DetachListed
  <2>6. CASE c = "main"
    BY <2>3, <2>5, <2>6 DEF Detached
  <2>7. CASE c # "main"
    BY <2>3, <2>7 DEF Detached, Gone
  <2> QED
    BY <2>6, <2>7
<1>17. CASE \E c \in Chains : Exited(c)
  BY <1>17 DEF Exited, Settle, Gone, dbVars, bootVars, attachVars, execVars
<1>18. CASE \E p \in Paths : PathRuns(p)
  BY <1>18 DEF PathRuns, PathSettles, Settle, Gone, dbVars, bootVars, attachVars, execVars
<1>19. CASE Answer
  BY <1>19 DEF Answer, Proceed, Gone, dbVars, bootVars, attachVars, execVars
<1>20. CASE \E e \in Events : InterruptingEvent(e)
  <2>1. PICK e \in Events : InterruptingEvent(e)
    BY <1>20
  <2>2. Detached(e, {e}, attached)
    BY <1>0, <2>1, Detaching DEF InterruptingEvent, InterruptedBy
  <2> QED
    BY <2>1, <2>2 DEF Detached, Gone
<1>21. CASE \E e \in Events : NonInterruptingEvent(e)
  BY <1>21 DEF NonInterruptingEvent, BranchedBy, MayCome, Gone, dbVars, bootVars, attachVars,
     execVars
<1>22. CASE \E how \in Stops : ProcessStopped(how)
  BY <1>22 DEF ProcessStopped, MayCome, Gone, dbVars, bootVars, attachVars, execVars
<1>23. CASE CrashAndResume
  BY <1>23
<1>24. CASE UNCHANGED vars
  BY <1>24 DEF vars, Gone, dbVars, bootVars, attachVars, execVars
<1> QED
  BY <1>1, <1>2, <1>3, <1>4, <1>5, <1>6, <1>7, <1>8, <1>9, <1>10, <1>11, <1>12, <1>13, <1>14,
     <1>15, <1>16, <1>17, <1>18, <1>19, <1>20, <1>21, <1>22, <1>23, <1>24 DEF Next, UrgentStep,
     Running, AttachStep, ActivityStep, ChainStep, Environment

\* A restart forgets all timers and subscriptions.
LEMMA Restarting ==
  ASSUME CrashAndResume
  PROVE  Listed' /\ at'["main"] \notin {"next", "over"}
<1>1. live' = {} /\ \A c \in Chains : at'[c] # "detach"
  BY DEF CrashAndResume
<1>2. at'["main"] \notin {"next", "over"}
  BY Names DEF CrashAndResume
<1> QED
  BY <1>1, <1>2 DEF Listed

\* Arming and Gone are kept.
LEMMA ArmingOn ==
  ASSUME Values, Places, Idles, Lists, Walks, Stations, Unbothered, Arming, Gone, [Next]_vars
  PROVE  Arming' /\ Gone'
<1>1. CASE CrashAndResume
  BY <1>1, Restarting DEF Arming, Gone
<1>2. CASE ~CrashAndResume /\ DetachedTwice
  BY <1>2, Twice DEF Arming, Gone
<1>3. CASE ~CrashAndResume /\ ~DetachedTwice
  BY <1>3, ListingOn, GoingOn DEF Arming, Gone
<1> QED
  BY <1>1, <1>2, <1>3

\* All the invariants hold at the start.
LEMMA Starting ==
  ASSUME Init
  PROVE  Inv /\ Waited /\ ErrorsLast /\ Settled /\ RowOf /\ FirstInList /\ Behind /\ TakenRows /\ NormalPath
<1> USE Names DEF Init
<1>1. Values
  BY ConstantsAssumption DEF Values, RowStates
<1>2. Places
  BY DEF Places, MainPlaces, OtherPlaces
<1>3. Flags
  BY Zenon DEF Flags
<1>4. Lists /\ Idles
  BY DEF Lists, Idles
<1>5. \A c \in Chains : todo[c] = <<>> /\ at[c] # "detach"
  OBVIOUS
<1>6. /\ ~installed /\ ~cancelled /\ exec = "none" /\ answer = "none" /\ live = {} /\ outcome = "none"
      /\ attachLeft = Boundary /\ attached = <<>> /\ row = "absent" /\ loaded = "absent" /\ boot = 0
      /\ stop = "none" /\ result = "next" /\ \A p \in Paths : nextRows[p] = 0
      /\ at["main"] = IF Boundary = <<>> THEN "attached" ELSE "attach"
      /\ \A c \in Chains \ {"main"} : at[c] = "idle"
      /\ \A e \in Events : eventRow[e] = "absent"
  OBVIOUS
<1>7. Stations
  BY <1>6 DEF Stations, Attaching
<1>8. Walks
  BY <1>5 DEF Walks
<1>9. Unbothered
  BY <1>6 DEF Unbothered
<1>10. FirstStart
  BY <1>6, ConstantsAssumption DEF FirstStart
<1>11. Arming /\ Gone
  BY <1>5, <1>6 DEF Arming, Listed, Gone
<1>12. Waited /\ ErrorsLast /\ Settled
  BY <1>6 DEF Waited, Interrupters, ErrorsLast, Settled
<1>13. RowOf
  BY <1>6 DEF RowOf
<1>14. FirstInList
  BY <1>6 DEF FirstInList
<1>15. Behind /\ TakenRows /\ NormalPath
  BY <1>6 DEF Behind, TakenRows, NormalPath, Taken
<1> QED
  BY <1>1, <1>2, <1>3, <1>4, <1>7, <1>8, <1>9, <1>10, <1>11, <1>12, <1>13, <1>14, <1>15 DEF Inv,
     Basis

\* Inv is inductive.
LEMMA BasisOn ==
  ASSUME Inv, [Next]_vars
  PROVE  Inv'
<1> USE DEF Inv, Basis
<1>1. Values'
  BY Valuing
<1>2. Places'
  BY Placing
<1>3. Flags'
  BY Flagging
<1>4. Lists'
  BY Listing
<1>5. Stations'
  BY Stationing
<1>6. Walks'
  BY Walking
<1>7. Idles'
  BY Idling
<1>8. Unbothered'
  BY Bothering
<1>9. FirstStart'
  BY FirstStarting
<1>10. Arming' /\ Gone'
  BY ArmingOn
<1> QED
  BY <1>1, <1>2, <1>3, <1>4, <1>5, <1>6, <1>7, <1>8, <1>9, <1>10

\* Inv holds in every reachable state.
THEOREM Inductive == Spec => []Inv
<1>1. Init => Inv
  BY Starting
<1>2. Inv /\ [Next]_vars => Inv'
  BY BasisOn
<1> QED
  BY <1>1, <1>2, PTL DEF Spec

\* Every variable has its type in every reachable state.
THEOREM TypeCorrect == Spec => []TypeOK
<1>1. Inv => TypeOK
  <2> SUFFICES ASSUME Inv PROVE TypeOK
    OBVIOUS
  <2>1. Values /\ Places /\ Lists
    BY DEF Inv, Basis
  <2>2. {installed, cancelled, subscribed} \subseteq BOOLEAN
    BY Zenon DEF Inv, Basis, Flags
  <2> QED
    BY <2>1, <2>2 DEF Values, Places, Lists, TypeOK
<1> QED
  BY <1>1, Inductive, PTL

\* No timer and no subscription of a boundary event outlives the activity, and none
\* is armed that no list holds, but for two detachments during a resumption.
THEOREM NothingArmed == Spec => []NothingStaysArmed
<1>1. Inv => NothingStaysArmed
  BY DEF Inv, Arming, Listed, Gone, NothingStaysArmed
<1> QED
  BY <1>1, Inductive, PTL

-----------------------------------------------------------------------------
(* Nobody answers an activity that is settled                              *)

\* Waited is kept: who interrupts closes the subscription to the answer.
LEMMA WaitingOn ==
  ASSUME Values, Places, Idles, Lists, Walks, Stations, Unbothered, WaitsFirst, Waited,
         [Next]_vars
  PROVE  Waited'
<1> USE Names DEF Values, Places, MainPlaces, OtherPlaces, Idles, Lists, Stations, Attaching,
    Waited, Interrupters
<1>1. CASE AttachNew
  BY <1>1, Upcoming DEF AttachNew, NextUp, WaitsFirst, dbVars, bootVars, attachVars, execVars
<1>2. CASE ArmNew
  BY <1>2, Upcoming DEF ArmNew, Push, Armable, SharesArray, NextUp, WaitsFirst, dbVars,
     bootVars, attachVars, execVars
<1>3. CASE ArmResumed
  BY <1>3, Upcoming DEF ArmResumed, Push, Armable, SharesArray, NextUp, WaitsFirst, dbVars,
     bootVars, attachVars, execVars
<1>4. CASE ElapsedTimer
  BY <1>4 DEF ElapsedTimer, NextUp, WaitsFirst, dbVars, bootVars, attachVars, execVars
<1>5. CASE ElapsedTimerFires
  <2>1. NextUp \in Timers /\ NextUp \notin Interrupting
    BY <1>5 DEF ElapsedTimerFires, WaitsFirst, Unbothered
  <2> QED
    BY <1>5, <2>1 DEF ElapsedTimerFires, BranchedBy, dbVars, bootVars, attachVars, execVars
<1>6. CASE PushElapsed
  BY <1>6, Upcoming DEF PushElapsed, Push, Armable, SharesArray, NextUp, WaitsFirst, dbVars,
     bootVars, attachVars, execVars
<1>7. CASE Enter
  BY <1>7 DEF Enter, WaitsFirst, dbVars, bootVars, attachVars, execVars
<1>8. CASE Entered
  <2>1. /\ exec = "none" /\ at["main"] \in {"entering", "attached"}
        /\ at' = [at EXCEPT !["main"] = "executing"] \/ at' = [at EXCEPT !["main"] = "failed"]
    BY <1>8 DEF Entered, ExecuteHandler
  <2>2. \A c \in Interrupters : at'[c] = "idle"
    BY <2>1, Names
  <2> QED
    BY <2>2
<1>9. CASE ResumeSuspended
  BY <1>9 DEF ResumeSuspended, WaitsFirst, dbVars, bootVars, attachVars, execVars
<1>10. CASE ResumeResumed
  BY <1>10 DEF ResumeResumed, WaitsFirst, dbVars, bootVars, attachVars, execVars
<1>11. CASE Suspended
  BY <1>11 DEF Suspended, Proceed, WaitsFirst, dbVars, bootVars, attachVars, execVars
<1>12. CASE Finish
  BY <1>12 DEF Finish, WaitsFirst, dbVars, bootVars, attachVars, execVars
<1>13. CASE ExecDone
  <2>1. CASE MainGoesOn
    <3>1. Detached("main", {}, attached)
      BY <1>13, <2>1, Detaching, Upcoming DEF ExecDone
    <3> QED
      BY <1>13, <2>1, <3>1 DEF ExecDone, Detached, dbVars, bootVars, attachVars, execVars
  <2>2. CASE ~MainGoesOn
    BY <1>13, <2>2 DEF ExecDone, dbVars, bootVars, attachVars, execVars
  <2> QED
    BY <2>1, <2>2
<1>14. CASE Leave
  <2>1. Detached("main", {}, attached)
    BY <1>14, Detaching, Upcoming DEF Leave
  <2> QED
    BY SMTT(30), <1>14, <2>1 DEF Leave, Detached, dbVars, bootVars, attachVars, execVars
<1>15. CASE StopReceived
  <2>1. CASE subscribed
    <3>1. Detached("stop", {}, attached)
      BY <1>15, <2>1, Heard, Detaching, Upcoming
    <3> QED
      BY <1>15, <2>1, <3>1, Heard, Interrupted DEF Detached, dbVars, bootVars, attachVars,
         execVars
  <2>2. CASE ~subscribed
    BY SMTT(30), <1>15, <2>2, Unheard DEF dbVars, bootVars, attachVars, execVars
  <2> QED
    BY <2>1, <2>2
<1>16. CASE \E c \in Chains : DetachNext(c)
  <2>1. PICK c \in Chains : DetachNext(c)
    BY <1>16
  <2>2. todo[c] # <<>> /\ Head(todo[c]) \in Events /\ Tail(todo[c]) \in Seq(Events)
    BY <2>1, Remaining DEF DetachNext
  <2>3. PICK h \in Events, rest \in Seq(Events) : Detached(c, {h}, rest)
    BY <2>1, <2>2, Detaching, Upcoming DEF DetachNext
  <2> QED
    BY SMTT(30), <2>1, <2>3 DEF DetachNext, Detached, dbVars, bootVars, attachVars, execVars
<1>17. CASE \E c \in Chains : Exited(c)
  BY <1>17 DEF Exited, Settle, WaitsFirst, dbVars, bootVars, attachVars, execVars
<1>18. CASE \E p \in Paths : PathRuns(p)
  BY <1>18 DEF PathRuns, PathSettles, Settle, WaitsFirst, dbVars, bootVars, attachVars, execVars
<1>19. CASE Answer
  BY <1>19 DEF Answer, Proceed, WaitsFirst, dbVars, bootVars, attachVars, execVars
<1>20. CASE \E e \in Events : InterruptingEvent(e)
  <2>1. PICK e \in Events : InterruptingEvent(e)
    BY <1>20
  <2>2. Detached(e, {e}, attached)
    BY <2>1, Detaching DEF InterruptingEvent, InterruptedBy
  <2>3. /\ e \in Interrupting /\ exec \notin {"none", "suspending"} /\ UNCHANGED <<exec, loaded, boot, stop>>
        /\ answer' = IF installed /\ answer = "open" THEN "closed" ELSE answer
    BY <2>1, Interrupted DEF InterruptingEvent, InterruptedBy, MayCome, WaitsFirst, bootVars
  <2>4. installed => answer' # "open"
    BY <2>3
  <2> HIDE <2>1
  <2> QED
    BY <2>2, <2>3, <2>4 DEF Detached
<1>21. CASE \E e \in Events : NonInterruptingEvent(e)
  BY <1>21 DEF NonInterruptingEvent, BranchedBy, MayCome, WaitsFirst, dbVars, bootVars,
     attachVars, execVars
<1>22. CASE \E how \in Stops : ProcessStopped(how)
  <2>1. PICK how \in Stops : ProcessStopped(how)
    BY <1>22
  <2>2. /\ exec \notin {"none", "suspending"} /\ UNCHANGED <<exec, answer>>
        /\ at' = [at EXCEPT !["stop"] = "notified"] \/ at' = at
    BY <2>1 DEF ProcessStopped, MayCome, WaitsFirst, execVars
  <2> QED
    BY <2>2
<1>23. CASE CrashAndResume
  BY <1>23 DEF CrashAndResume, LoadedAs, FollowedEvents, WaitsFirst, dbVars, bootVars,
     attachVars, execVars
<1>24. CASE UNCHANGED vars
  BY <1>24 DEF vars, WaitsFirst, dbVars, bootVars, attachVars, execVars
<1> QED
  BY <1>1, <1>2, <1>3, <1>4, <1>5, <1>6, <1>7, <1>8, <1>9, <1>10, <1>11, <1>12, <1>13, <1>14,
     <1>15, <1>16, <1>17, <1>18, <1>19, <1>20, <1>21, <1>22, <1>23, <1>24 DEF Next, UrgentStep,
     Running, AttachStep, ActivityStep, ChainStep, Environment

\* An error event is run when main has ended with the error.
LEMMA ErrorsOn ==
  ASSUME Values, Places, Idles, Lists, Walks, Stations, Unbothered, WaitsFirst, ErrorsLast,
         [Next]_vars
  PROVE  ErrorsLast'
<1> USE Names DEF Values, Places, MainPlaces, OtherPlaces, Idles, Lists, Stations, Attaching,
    ErrorsLast
<1>1. CASE AttachNew
  BY <1>1, Upcoming DEF AttachNew, NextUp, dbVars, bootVars, attachVars, execVars
<1>2. CASE ArmNew
  BY <1>2, Upcoming DEF ArmNew, Push, Armable, SharesArray, NextUp, dbVars, bootVars,
     attachVars, execVars
<1>3. CASE ArmResumed
  BY <1>3, Upcoming DEF ArmResumed, Push, Armable, SharesArray, NextUp, dbVars, bootVars,
     attachVars, execVars
<1>4. CASE ElapsedTimer
  BY <1>4, ConstantsAssumption DEF ElapsedTimer, NextUp, dbVars, bootVars, attachVars, execVars
<1>5. CASE ElapsedTimerFires
  <2>1. NextUp \in Timers /\ NextUp \notin Interrupting
    BY <1>5 DEF ElapsedTimerFires, WaitsFirst, Unbothered
  <2> QED
    BY <1>5, <2>1, ConstantsAssumption DEF ElapsedTimerFires, BranchedBy, dbVars, bootVars,
       attachVars, execVars
<1>6. CASE PushElapsed
  BY <1>6, Upcoming DEF PushElapsed, Push, Armable, SharesArray, NextUp, dbVars, bootVars,
     attachVars, execVars
<1>7. CASE Enter
  BY <1>7, ConstantsAssumption DEF Enter, dbVars, bootVars, attachVars, execVars
<1>8. CASE Entered
  BY <1>8, ConstantsAssumption DEF Entered, ExecuteHandler, dbVars, bootVars, attachVars,
     execVars
<1>9. CASE ResumeSuspended
  BY <1>9, ConstantsAssumption DEF ResumeSuspended, dbVars, bootVars, attachVars, execVars
<1>10. CASE ResumeResumed
  BY <1>10, ConstantsAssumption DEF ResumeResumed, dbVars, bootVars, attachVars, execVars
<1>11. CASE Suspended
  BY <1>11, ConstantsAssumption DEF Suspended, Proceed, dbVars, bootVars, attachVars, execVars
<1>12. CASE Finish
  BY <1>12, ConstantsAssumption DEF Finish, dbVars, bootVars, attachVars, execVars
<1>13. CASE ExecDone
  <2>1. CASE MainGoesOn
    <3>1. Detached("main", {}, attached)
      BY <1>13, <2>1, Detaching, Upcoming, ConstantsAssumption DEF ExecDone
    <3> QED
      BY <1>13, <2>1, <3>1 DEF ExecDone, Detached, dbVars, bootVars, attachVars, execVars
  <2>2. CASE ~MainGoesOn
    BY <1>13, <2>2 DEF ExecDone, dbVars, bootVars, attachVars, execVars
  <2> QED
    BY <2>1, <2>2
<1>14. CASE Leave
  <2>1. Detached("main", {}, attached)
    BY <1>14, Detaching, Upcoming, ConstantsAssumption DEF Leave
  <2> QED
    BY <1>14, <2>1 DEF Leave, Detached, dbVars, bootVars, attachVars, execVars
<1>15. CASE StopReceived
  <2>1. CASE subscribed
    <3>1. Detached("stop", {}, attached)
      BY <1>15, <2>1, Heard, Detaching, Upcoming, ConstantsAssumption
    <3> QED
      BY <1>15, <2>1, <3>1, Heard, Interrupted DEF Detached, dbVars, bootVars, attachVars,
         execVars
  <2>2. CASE ~subscribed
    BY <1>15, <2>2, Unheard DEF dbVars, bootVars, attachVars, execVars
  <2> QED
    BY <2>1, <2>2
<1>16. CASE \E c \in Chains : DetachNext(c)
  <2>1. PICK c \in Chains : DetachNext(c)
    BY <1>16
  <2>2. todo[c] # <<>> /\ Head(todo[c]) \in Events /\ Tail(todo[c]) \in Seq(Events)
    BY <2>1, Remaining DEF DetachNext
  <2>3. PICK h \in Events, rest \in Seq(Events) : Detached(c, {h}, rest)
    BY <2>1, <2>2, Detaching, Upcoming, ConstantsAssumption DEF DetachNext
  <2> QED
    BY <2>1, <2>3 DEF DetachNext, Detached, dbVars, bootVars, attachVars, execVars
<1>17. CASE \E c \in Chains : Exited(c)
  BY <1>17, ConstantsAssumption DEF Exited, Settle, dbVars, bootVars, attachVars, execVars
<1>18. CASE \E p \in Paths : PathRuns(p)
  BY <1>18, ConstantsAssumption DEF PathRuns, PathSettles, Settle, dbVars, bootVars, attachVars,
     execVars
<1>19. CASE Answer
  BY <1>19, ConstantsAssumption DEF Answer, Proceed, dbVars, bootVars, attachVars, execVars
<1>20. CASE \E e \in Events : InterruptingEvent(e)
  <2>1. PICK e \in Events : InterruptingEvent(e)
    BY <1>20
  <2>2. Detached(e, {e}, attached)
    BY <2>1, Detaching, Upcoming, ConstantsAssumption DEF InterruptingEvent, InterruptedBy
  <2> QED
    BY <2>1, <2>2, Interrupted DEF InterruptingEvent, InterruptedBy, MayCome, Detached, dbVars,
       bootVars, attachVars, execVars
<1>21. CASE \E e \in Events : NonInterruptingEvent(e)
  BY <1>21, ConstantsAssumption DEF NonInterruptingEvent, BranchedBy, MayCome, dbVars, bootVars,
     attachVars, execVars
<1>22. CASE \E how \in Stops : ProcessStopped(how)
  BY <1>22, ConstantsAssumption DEF ProcessStopped, MayCome, dbVars, bootVars, attachVars,
     execVars
<1>23. CASE CrashAndResume
  BY <1>23, ConstantsAssumption DEF CrashAndResume, LoadedAs, FollowedEvents, dbVars, bootVars,
     attachVars, execVars
<1>24. CASE UNCHANGED vars
  BY <1>24, ConstantsAssumption DEF vars, dbVars, bootVars, attachVars, execVars
<1> QED
  BY <1>1, <1>2, <1>3, <1>4, <1>5, <1>6, <1>7, <1>8, <1>9, <1>10, <1>11, <1>12, <1>13, <1>14,
     <1>15, <1>16, <1>17, <1>18, <1>19, <1>20, <1>21, <1>22, <1>23, <1>24 DEF Next, UrgentStep,
     Running, AttachStep, ActivityStep, ChainStep, Environment

\* Settled is kept: every chain that settles the promise has closed the
\* subscription before.
LEMMA SettlingOn ==
  ASSUME Values, Places, Idles, Lists, Walks, Stations, Unbothered, WaitsFirst, Waited,
         ErrorsLast, Settled, [Next]_vars
  PROVE  Settled'
<1> USE Names DEF Values, Places, MainPlaces, OtherPlaces, Idles, Lists, Stations, Attaching,
    Waited, Interrupters, ErrorsLast, Settled, BeforeStart
<1>1. CASE AttachNew
  BY <1>1, Upcoming DEF AttachNew, NextUp, dbVars, bootVars, attachVars, execVars
<1>2. CASE ArmNew
  BY <1>2, Upcoming DEF ArmNew, Push, Armable, SharesArray, NextUp, dbVars, bootVars,
     attachVars, execVars
<1>3. CASE ArmResumed
  BY <1>3, Upcoming DEF ArmResumed, Push, Armable, SharesArray, NextUp, dbVars, bootVars,
     attachVars, execVars
<1>4. CASE ElapsedTimer
  BY <1>4 DEF ElapsedTimer, NextUp, dbVars, bootVars, attachVars, execVars
<1>5. CASE ElapsedTimerFires
  <2>1. NextUp \in Timers /\ NextUp \notin Interrupting
    BY <1>5 DEF ElapsedTimerFires, WaitsFirst, Unbothered
  <2> QED
    BY <1>5, <2>1 DEF ElapsedTimerFires, BranchedBy, dbVars, bootVars, attachVars, execVars
<1>6. CASE PushElapsed
  BY <1>6, Upcoming DEF PushElapsed, Push, Armable, SharesArray, NextUp, dbVars, bootVars,
     attachVars, execVars
<1>7. CASE Enter
  BY <1>7 DEF Enter, dbVars, bootVars, attachVars, execVars
<1>8. CASE Entered
  BY <1>8 DEF Entered, ExecuteHandler, dbVars, bootVars, attachVars, execVars
<1>9. CASE ResumeSuspended
  BY <1>9 DEF ResumeSuspended, dbVars, bootVars, attachVars, execVars
<1>10. CASE ResumeResumed
  BY <1>10 DEF ResumeResumed, dbVars, bootVars, attachVars, execVars
<1>11. CASE Suspended
  BY <1>11 DEF Suspended, Proceed, dbVars, bootVars, attachVars, execVars
<1>12. CASE Finish
  BY <1>12 DEF Finish, dbVars, bootVars, attachVars, execVars
<1>13. CASE ExecDone
  <2>1. CASE MainGoesOn
    <3>1. Moved("main")
      BY <1>13, <2>1, Moving, Upcoming DEF ExecDone
    <3> QED
      BY <1>13, <2>1, <3>1 DEF ExecDone, Moved, dbVars, bootVars, attachVars, execVars
  <2>2. CASE ~MainGoesOn
    BY <1>13, <2>2 DEF ExecDone, dbVars, bootVars, attachVars, execVars
  <2> QED
    BY <2>1, <2>2
<1>14. CASE Leave
  <2>1. Moved("main")
    BY <1>14, Moving, Upcoming DEF Leave
  <2> QED
    BY <1>14, <2>1 DEF Leave, Moved, dbVars, bootVars, attachVars, execVars
<1>15. CASE StopReceived
  <2>1. CASE subscribed
    <3>1. Detached("stop", {}, attached)
      BY <1>15, <2>1, Heard, Detaching, Upcoming
    <3> QED
      BY <1>15, <2>1, <3>1, Heard, Interrupted DEF Detached, dbVars, bootVars, attachVars,
         execVars
  <2>2. CASE ~subscribed
    BY <1>15, <2>2, Unheard DEF dbVars, bootVars, attachVars, execVars
  <2> QED
    BY <2>1, <2>2
<1>16. CASE \E c \in Chains : DetachNext(c)
  <2>1. PICK c \in Chains : DetachNext(c)
    BY <1>16
  <2>2. todo[c] # <<>> /\ Head(todo[c]) \in Events /\ Tail(todo[c]) \in Seq(Events)
    BY <2>1, Remaining DEF DetachNext
  <2>3. Moved(c)
    BY <2>1, <2>2, Moving DEF DetachNext
  <2>4. /\ at[c] = "detach" /\ UNCHANGED <<exec, answer, loaded, boot, stop, result>>
        /\ installed' = installed /\ cancelled' = cancelled
    BY <2>1 DEF DetachNext, bootVars, execVars
  <2>5. CASE c = "main"
    BY <2>3, <2>4, <2>5 DEF Moved
  <2>6. CASE c = "stop"
    BY <2>3, <2>4, <2>6 DEF Moved
  <2>7. CASE c \in Events
    BY <2>3, <2>4, <2>7 DEF Moved
  <2> QED
    BY <2>5, <2>6, <2>7
<1>17. CASE \E c \in Chains : Exited(c)
  BY <1>17 DEF Exited, Settle, dbVars, bootVars, attachVars, execVars
<1>18. CASE \E p \in Paths : PathRuns(p)
  BY <1>18 DEF PathRuns, PathSettles, Settle, dbVars, bootVars, attachVars, execVars
<1>19. CASE Answer
  BY <1>19 DEF Answer, Proceed, dbVars, bootVars, attachVars, execVars
<1>20. CASE \E e \in Events : InterruptingEvent(e)
  <2>1. PICK e \in Events : InterruptingEvent(e)
    BY <1>20
  <2>2. Detached(e, {e}, attached)
    BY <2>1, Detaching, Upcoming DEF InterruptingEvent, InterruptedBy
  <2> QED
    BY <2>1, <2>2, Interrupted DEF InterruptingEvent, InterruptedBy, MayCome, Detached, dbVars,
       bootVars, attachVars, execVars
<1>21. CASE \E e \in Events : NonInterruptingEvent(e)
  BY <1>21 DEF NonInterruptingEvent, BranchedBy, MayCome, dbVars, bootVars, attachVars, execVars
<1>22. CASE \E how \in Stops : ProcessStopped(how)
  BY <1>22 DEF ProcessStopped, MayCome, dbVars, bootVars, attachVars, execVars
<1>23. CASE CrashAndResume
  BY <1>23 DEF CrashAndResume, LoadedAs, FollowedEvents, dbVars, bootVars, attachVars, execVars
<1>24. CASE UNCHANGED vars
  BY <1>24 DEF vars, dbVars, bootVars, attachVars, execVars
<1> QED
  BY <1>1, <1>2, <1>3, <1>4, <1>5, <1>6, <1>7, <1>8, <1>9, <1>10, <1>11, <1>12, <1>13, <1>14,
     <1>15, <1>16, <1>17, <1>18, <1>19, <1>20, <1>21, <1>22, <1>23, <1>24 DEF Next, UrgentStep,
     Running, AttachStep, ActivityStep, ChainStep, Environment

\* WaitingInv holds in every reachable state, if nothing comes before the activity
\* waits.
LEMMA WaitingInductive ==
  ASSUME WaitsFirst
  PROVE  Spec => []WaitingInv
<1>1. Init => WaitingInv
  BY Starting DEF WaitingInv
<1>2. WaitingInv /\ [Next]_vars => WaitingInv'
  BY BasisOn, WaitingOn, ErrorsOn, SettlingOn DEF WaitingInv, Inv, Basis
<1> QED
  BY <1>1, <1>2, PTL DEF Spec

\* When the promise of the handler is settled, nobody can answer the activity any
\* more: for any events, restarts and stops that come after it began to wait.
THEOREM NobodyAnswers ==
  ASSUME WaitsFirst
  PROVE  Spec => []ClosedWhenSettled
<1>1. WaitingInv => ClosedWhenSettled
  BY DEF WaitingInv, Settled, ClosedWhenSettled
<1> QED
  BY <1>1, WaitingInductive, PTL

-----------------------------------------------------------------------------
(* The row goes through its life cycle                                     *)

\* RowOf is kept by every step.
LEMMA RowsOn ==
  ASSUME Values, Places, Idles, Lists, Walks, Stations, Unbothered, WaitsFirst, Stops = {},
         Waited, RowOf, [Next]_vars
  PROVE  RowOf'
<1> USE Names DEF Values, Places, MainPlaces, OtherPlaces, Idles, Lists, Stations, Attaching,
    Waited, Interrupters, RowOf, BeforeStart
<1>1. CASE AttachNew
  BY <1>1, Upcoming DEF AttachNew, NextUp, dbVars, bootVars, attachVars, execVars
<1>2. CASE ArmNew
  BY <1>2, Upcoming DEF ArmNew, Push, Armable, SharesArray, NextUp, dbVars, bootVars,
     attachVars, execVars
<1>3. CASE ArmResumed
  BY <1>3, Upcoming DEF ArmResumed, Push, Armable, SharesArray, NextUp, dbVars, bootVars,
     attachVars, execVars
<1>4. CASE ElapsedTimer
  BY <1>4 DEF ElapsedTimer, NextUp, dbVars, bootVars, attachVars, execVars
<1>5. CASE ElapsedTimerFires
  <2>1. NextUp \in Timers /\ NextUp \notin Interrupting
    BY <1>5 DEF ElapsedTimerFires, WaitsFirst, Unbothered
  <2> QED
    BY <1>5, <2>1 DEF ElapsedTimerFires, BranchedBy, dbVars, bootVars, attachVars, execVars
<1>6. CASE PushElapsed
  BY <1>6, Upcoming DEF PushElapsed, Push, Armable, SharesArray, NextUp, dbVars, bootVars,
     attachVars, execVars
<1>7. CASE Enter
  BY <1>7 DEF Enter, dbVars, bootVars, attachVars, execVars
<1>8. CASE Entered
  BY <1>8 DEF Entered, ExecuteHandler, dbVars, bootVars, attachVars, execVars
<1>9. CASE ResumeSuspended
  BY <1>9 DEF ResumeSuspended, dbVars, bootVars, attachVars, execVars
<1>10. CASE ResumeResumed
  BY <1>10 DEF ResumeResumed, dbVars, bootVars, attachVars, execVars
<1>11. CASE Suspended
  BY <1>11 DEF Suspended, Proceed, dbVars, bootVars, attachVars, execVars
<1>12. CASE Finish
  BY <1>12 DEF Finish, dbVars, bootVars, attachVars, execVars
<1>13. CASE ExecDone
  <2>1. CASE MainGoesOn
    <3>1. Moved("main")
      BY <1>13, <2>1, Moving, Upcoming DEF ExecDone
    <3> QED
      BY <1>13, <2>1, <3>1 DEF ExecDone, Moved, dbVars, bootVars, attachVars, execVars
  <2>2. CASE ~MainGoesOn
    BY <1>13, <2>2 DEF ExecDone, dbVars, bootVars, attachVars, execVars
  <2> QED
    BY <2>1, <2>2
<1>14. CASE Leave
  <2>1. Moved("main")
    BY <1>14, Moving, Upcoming DEF Leave
  <2> QED
    BY <1>14, <2>1 DEF Leave, Moved, dbVars, bootVars, attachVars, execVars
<1>15. CASE StopReceived
  <2>1. CASE subscribed
    <3>1. Detached("stop", {}, attached)
      BY <1>15, <2>1, Heard, Detaching, Upcoming
    <3> QED
      BY <1>15, <2>1, <3>1, Heard, Interrupted DEF Detached, dbVars, bootVars, attachVars,
         execVars
  <2>2. CASE ~subscribed
    BY <1>15, <2>2, Unheard DEF dbVars, bootVars, attachVars, execVars
  <2> QED
    BY <2>1, <2>2
<1>16. CASE \E c \in Chains : DetachNext(c)
  <2>1. PICK c \in Chains : DetachNext(c)
    BY <1>16
  <2>2. todo[c] # <<>> /\ Head(todo[c]) \in Events /\ Tail(todo[c]) \in Seq(Events)
    BY <2>1, Remaining DEF DetachNext
  <2>3. Moved(c)
    BY <2>1, <2>2, Moving DEF DetachNext
  <2>4. /\ at[c] = "detach" /\ UNCHANGED <<exec, answer, loaded, boot, stop, result>>
        /\ installed' = installed /\ cancelled' = cancelled
    BY <2>1 DEF DetachNext, bootVars, execVars
  <2>5. CASE c = "main"
    BY <2>3, <2>4, <2>5 DEF Moved
  <2>6. CASE c = "stop"
    BY <2>3, <2>4, <2>6 DEF Moved
  <2>7. CASE c \in Events
    BY <2>3, <2>4, <2>7 DEF Moved
  <2> QED
    BY <2>5, <2>6, <2>7
<1>17. CASE \E c \in Chains : Exited(c)
  BY <1>17 DEF Exited, Settle, dbVars, bootVars, attachVars, execVars
<1>18. CASE \E p \in Paths : PathRuns(p)
  BY <1>18 DEF PathRuns, PathSettles, Settle, dbVars, bootVars, attachVars, execVars
<1>19. CASE Answer
  BY <1>19 DEF Answer, Proceed, dbVars, bootVars, attachVars, execVars
<1>20. CASE \E e \in Events : InterruptingEvent(e)
  <2>1. PICK e \in Events : InterruptingEvent(e)
    BY <1>20
  <2>2. Detached(e, {e}, attached)
    BY <2>1, Detaching DEF InterruptingEvent, InterruptedBy
  <2>3. /\ e \in Interrupting /\ exec \notin {"none", "suspending"} /\ UNCHANGED <<exec, loaded, boot, stop>>
        /\ answer' = IF installed /\ answer = "open" THEN "closed" ELSE answer
    BY <2>1, Interrupted DEF InterruptingEvent, InterruptedBy, MayCome, WaitsFirst, bootVars
  <2>4. installed => answer' # "open"
    BY <2>3
  <2> HIDE <2>1
  <2> QED
    BY <2>2, <2>3, <2>4 DEF Detached
<1>21. CASE \E e \in Events : NonInterruptingEvent(e)
  BY <1>21 DEF NonInterruptingEvent, BranchedBy, MayCome, dbVars, bootVars, attachVars, execVars
<1>22. CASE \E how \in Stops : ProcessStopped(how)
  BY <1>22 DEF ProcessStopped, MayCome, dbVars, bootVars, attachVars, execVars
<1>23. CASE CrashAndResume
  BY <1>23 DEF CrashAndResume, LoadedAs, FollowedEvents, dbVars, bootVars, attachVars, execVars
<1>24. CASE UNCHANGED vars
  BY <1>24 DEF vars, dbVars, bootVars, attachVars, execVars
<1> QED
  BY <1>1, <1>2, <1>3, <1>4, <1>5, <1>6, <1>7, <1>8, <1>9, <1>10, <1>11, <1>12, <1>13, <1>14,
     <1>15, <1>16, <1>17, <1>18, <1>19, <1>20, <1>21, <1>22, <1>23, <1>24 DEF Next, UrgentStep,
     Running, AttachStep, ActivityStep, ChainStep, Environment

\* RowInv holds in every reachable state, if besides the process instance is not
\* stopped.
LEMMA RowInductive ==
  ASSUME WaitsFirst, Stops = {}
  PROVE  Spec => []RowInv
<1>1. Init => RowInv
  BY Starting DEF RowInv, WaitingInv
<1>2. RowInv /\ [Next]_vars => RowInv'
  BY BasisOn, WaitingOn, ErrorsOn, SettlingOn, RowsOn DEF RowInv, WaitingInv, Inv, Basis
<1> QED
  BY <1>1, <1>2, PTL DEF Spec

\* Every step is a step of FlowNodeInstance or leaves the row as it is.
LEMMA Mapping ==
  ASSUME Values, Places, Idles, Lists, Walks, Stations, Unbothered, WaitsFirst, Stops = {},
         Waited, RowOf, [Next]_vars
  PROVE  Lifecycle!Next \/ row' = row
<1> USE Names DEF Values, Places, MainPlaces, OtherPlaces, Idles, Lists, Stations, Attaching,
    Waited, Interrupters, RowOf, BeforeStart, Lifecycle!Next, Lifecycle!Enter,
    Lifecycle!Suspend, Lifecycle!Resume, Lifecycle!Exit, Lifecycle!Terminate, Lifecycle!Fail,
    Lifecycle!Live
<1>1. CASE AttachNew
  BY <1>1, Upcoming DEF AttachNew, NextUp, dbVars, bootVars, attachVars, execVars
<1>2. CASE ArmNew
  BY <1>2, Upcoming DEF ArmNew, Push, Armable, SharesArray, NextUp, dbVars, bootVars,
     attachVars, execVars
<1>3. CASE ArmResumed
  BY <1>3, Upcoming DEF ArmResumed, Push, Armable, SharesArray, NextUp, dbVars, bootVars,
     attachVars, execVars
<1>4. CASE ElapsedTimer
  BY <1>4 DEF ElapsedTimer, NextUp, dbVars, bootVars, attachVars, execVars
<1>5. CASE ElapsedTimerFires
  <2>1. NextUp \in Timers /\ NextUp \notin Interrupting
    BY <1>5 DEF ElapsedTimerFires, WaitsFirst, Unbothered
  <2> QED
    BY <1>5, <2>1 DEF ElapsedTimerFires, BranchedBy, dbVars, bootVars, attachVars, execVars
<1>6. CASE PushElapsed
  BY <1>6, Upcoming DEF PushElapsed, Push, Armable, SharesArray, NextUp, dbVars, bootVars,
     attachVars, execVars
<1>7. CASE Enter
  BY <1>7 DEF Enter, dbVars, bootVars, attachVars, execVars
<1>8. CASE Entered
  BY <1>8 DEF Entered, ExecuteHandler, dbVars, bootVars, attachVars, execVars
<1>9. CASE ResumeSuspended
  BY <1>9 DEF ResumeSuspended, dbVars, bootVars, attachVars, execVars
<1>10. CASE ResumeResumed
  BY <1>10 DEF ResumeResumed, dbVars, bootVars, attachVars, execVars
<1>11. CASE Suspended
  BY <1>11 DEF Suspended, Proceed, dbVars, bootVars, attachVars, execVars
<1>12. CASE Finish
  BY <1>12 DEF Finish, dbVars, bootVars, attachVars, execVars
<1>13. CASE ExecDone
  <2>1. CASE MainGoesOn
    <3>1. Detached("main", {}, attached)
      BY <1>13, <2>1, Detaching, Upcoming DEF ExecDone
    <3> QED
      BY <1>13, <2>1, <3>1 DEF ExecDone, Detached, dbVars, bootVars, attachVars, execVars
  <2>2. CASE ~MainGoesOn
    BY <1>13, <2>2 DEF ExecDone, dbVars, bootVars, attachVars, execVars
  <2> QED
    BY <2>1, <2>2
<1>14. CASE Leave
  <2>1. Detached("main", {}, attached)
    BY <1>14, Detaching, Upcoming DEF Leave
  <2> QED
    BY <1>14, <2>1 DEF Leave, Detached, dbVars, bootVars, attachVars, execVars
<1>15. CASE StopReceived
  <2>1. CASE subscribed
    <3>1. Detached("stop", {}, attached)
      BY <1>15, <2>1, Heard, Detaching, Upcoming
    <3> QED
      BY <1>15, <2>1, <3>1, Heard, Interrupted DEF Detached, dbVars, bootVars, attachVars,
         execVars
  <2>2. CASE ~subscribed
    BY <1>15, <2>2, Unheard DEF dbVars, bootVars, attachVars, execVars
  <2> QED
    BY <2>1, <2>2
<1>16. CASE \E c \in Chains : DetachNext(c)
  <2>1. PICK c \in Chains : DetachNext(c)
    BY <1>16
  <2>2. todo[c] # <<>> /\ Head(todo[c]) \in Events /\ Tail(todo[c]) \in Seq(Events)
    BY <2>1, Remaining DEF DetachNext
  <2>3. Moved(c)
    BY <2>1, <2>2, Moving DEF DetachNext
  <2>4. /\ at[c] = "detach" /\ UNCHANGED <<exec, answer, loaded, boot, stop, result>>
        /\ installed' = installed /\ cancelled' = cancelled
    BY <2>1 DEF DetachNext, bootVars, execVars
  <2>5. CASE c = "main"
    BY <2>3, <2>4, <2>5 DEF Moved
  <2>6. CASE c = "stop"
    BY <2>3, <2>4, <2>6 DEF Moved
  <2>7. CASE c \in Events
    BY <2>3, <2>4, <2>7 DEF Moved
  <2> QED
    BY <2>5, <2>6, <2>7
<1>17. CASE \E c \in Chains : Exited(c)
  BY <1>17 DEF Exited, Settle, dbVars, bootVars, attachVars, execVars
<1>18. CASE \E p \in Paths : PathRuns(p)
  BY <1>18 DEF PathRuns, PathSettles, Settle, dbVars, bootVars, attachVars, execVars
<1>19. CASE Answer
  BY <1>19 DEF Answer, Proceed, dbVars, bootVars, attachVars, execVars
<1>20. CASE \E e \in Events : InterruptingEvent(e)
  <2>1. PICK e \in Events : InterruptingEvent(e)
    BY <1>20
  <2>2. Detached(e, {e}, attached)
    BY <2>1, Detaching DEF InterruptingEvent, InterruptedBy
  <2>3. /\ e \in Interrupting /\ exec \notin {"none", "suspending"} /\ UNCHANGED <<exec, loaded, boot, stop>>
        /\ answer' = IF installed /\ answer = "open" THEN "closed" ELSE answer
    BY <2>1, Interrupted DEF InterruptingEvent, InterruptedBy, MayCome, WaitsFirst, bootVars
  <2>4. installed => answer' # "open"
    BY <2>3
  <2> HIDE <2>1
  <2> QED
    BY <2>2, <2>3, <2>4 DEF Detached
<1>21. CASE \E e \in Events : NonInterruptingEvent(e)
  BY <1>21 DEF NonInterruptingEvent, BranchedBy, MayCome, dbVars, bootVars, attachVars, execVars
<1>22. CASE \E how \in Stops : ProcessStopped(how)
  BY <1>22 DEF ProcessStopped, MayCome, dbVars, bootVars, attachVars, execVars
<1>23. CASE CrashAndResume
  BY <1>23 DEF CrashAndResume, LoadedAs, FollowedEvents, dbVars, bootVars, attachVars, execVars
<1>24. CASE UNCHANGED vars
  BY <1>24 DEF vars, dbVars, bootVars, attachVars, execVars
<1> QED
  BY <1>1, <1>2, <1>3, <1>4, <1>5, <1>6, <1>7, <1>8, <1>9, <1>10, <1>11, <1>12, <1>13, <1>14,
     <1>15, <1>16, <1>17, <1>18, <1>19, <1>20, <1>21, <1>22, <1>23, <1>24 DEF Next, UrgentStep,
     Running, AttachStep, ActivityStep, ChainStep, Environment

\* The activity implements FlowNodeInstance: its row is entered, suspended, resumed
\* and exited in this order and once each, whatever events interrupt it and however
\* often the runtime is restarted.
THEOREM FollowsLifecycle ==
  ASSUME WaitsFirst, Stops = {}
  PROVE  Spec => ImplementsFlowNodeInstance
<1>1. Init => Lifecycle!Init
  BY DEF Init, Lifecycle!Init
<1>2. RowInv /\ [Next]_vars => [Lifecycle!Next]_row
  BY Mapping DEF RowInv, WaitingInv, Inv, Basis
<1> QED
  BY <1>1, <1>2, RowInductive, PTL DEF Spec, ImplementsFlowNodeInstance, Lifecycle!Spec

\* A row that has ended stays as it is.
LEMMA Ended ==
  ASSUME Values, Places, Idles, Lists, Walks, Stations, Unbothered, WaitsFirst, Stops = {},
         Waited, RowOf, [Next]_vars,
         row \in {"finished", "error", "terminated"}
  PROVE  row' = row
  BY Mapping DEF Lifecycle!Next, Lifecycle!Enter, Lifecycle!Suspend, Lifecycle!Resume,
     Lifecycle!Exit,
     Lifecycle!Terminate, Lifecycle!Fail, Lifecycle!Live

-----------------------------------------------------------------------------
(* One path behind the activity                                            *)

\* With one event that interrupts, and no stop, nothing is detached twice.
LEMMA NotTwiceHere ==
  ASSUME Narrow, Idles, RowOf
  PROVE  ~DetachedTwice
<1>1. ASSUME NEW c \in Interrupting \cup {"stop"}, NEW d \in Interrupting \cup {"stop"},
             c # d, IsTriggered(c), IsTriggered(d)
      PROVE  FALSE
  <2>1. at["stop"] = "idle"
    BY DEF Idles, RowOf
  <2>2. c \in Interrupting /\ d \in Interrupting
    BY <1>1, <2>1 DEF IsTriggered
  <2> QED
    BY <1>1, <2>2 DEF Narrow, FirstIsTimer
<1> QED
  BY <1>1 DEF DetachedTwice

\* Whoever begins to detach stops the timer that interrupts, in the same step.
LEMMA NoneLeft ==
  ASSUME Narrow, Values, Places, Idles, Lists, Listed, FirstInList,
         NEW c \in Chains, NEW freed, Detached(c, freed, attached)
  PROVE  live' \cap Interrupting = {}
<1>1. CASE attached = <<>>
  BY <1>1 DEF Detached, Listed, ToSet
<1>2. CASE attached # <<>>
  <2>1. Head(attached) = Boundary[1]
    BY <1>2, HeadTailProperties DEF FirstInList, Lists
  <2> QED
    BY <1>2, <2>1 DEF Detached, Narrow, FirstIsTimer
<1> QED
  BY <1>1, <1>2

\* FirstInList is kept.
LEMMA FirstOn ==
  ASSUME Narrow, WaitsFirst, Stops = {}, Values, Places, Idles, Lists, Walks, Stations,
         Unbothered, Listed, Waited, RowOf, FirstInList, [Next]_vars
  PROVE  FirstInList'
<1> USE Names DEF Values, Places, MainPlaces, OtherPlaces, Idles, Lists, Stations, Attaching,
    Waited, Interrupters, RowOf, FirstInList, BeforeStart
<1>1. CASE AttachNew
  BY <1>1, Upcoming DEF AttachNew, NextUp, dbVars, bootVars, attachVars, execVars
<1>2. CASE ArmNew
  <2>1. at["main"] \in Attaching
    BY <1>2 DEF Attaching, ArmNew
  <2>2. PICK armed : Push(armed)
    BY <1>2 DEF ArmNew
  <2>3. attached \in Seq(Events) /\ attachLeft \in Seq(Events) /\ attachLeft # <<>> /\ NextUp = attachLeft[1]
    BY <2>1, Upcoming DEF NextUp
  <2>4. NextUp \in Events
    BY <2>1, Upcoming
  <2>8. attached' = Append(attached, NextUp) /\ attachLeft' = Tail(attachLeft)
    BY <2>2 DEF Push
  <2>5. attached' # <<>> /\ attached'[1] = IF attached = <<>> THEN attachLeft[1] ELSE attached[1]
    BY <2>3, <2>4, <2>8, FirstAttached
  <2>6. UNCHANGED <<exec, cancelled>> /\ exec = "none" /\ ~cancelled
    BY <2>1, <2>2 DEF Push, execVars
  <2>7. /\ at'["main"] \in {"attach", "attached"} /\ at["main"] # "executing"
        /\ \A e \in Events : at'[e] = at[e]
    BY <2>1, <2>2, Pushed
  <2> QED
    BY <2>3, <2>5, <2>6, <2>7
<1>3. CASE ArmResumed
  <2>1. at["main"] \in Attaching
    BY <1>3 DEF Attaching, ArmResumed
  <2>2. PICK armed : Push(armed)
    BY <1>3 DEF ArmResumed
  <2>3. attached \in Seq(Events) /\ attachLeft \in Seq(Events) /\ attachLeft # <<>> /\ NextUp = attachLeft[1]
    BY <2>1, Upcoming DEF NextUp
  <2>4. NextUp \in Events
    BY <2>1, Upcoming
  <2>8. attached' = Append(attached, NextUp) /\ attachLeft' = Tail(attachLeft)
    BY <2>2 DEF Push
  <2>5. attached' # <<>> /\ attached'[1] = IF attached = <<>> THEN attachLeft[1] ELSE attached[1]
    BY <2>3, <2>4, <2>8, FirstAttached
  <2>6. UNCHANGED <<exec, cancelled>> /\ exec = "none" /\ ~cancelled
    BY <2>1, <2>2 DEF Push, execVars
  <2>7. /\ at'["main"] \in {"attach", "attached"} /\ at["main"] # "executing"
        /\ \A e \in Events : at'[e] = at[e]
    BY <2>1, <2>2, Pushed
  <2> QED
    BY <2>3, <2>5, <2>6, <2>7
<1>4. CASE ElapsedTimer
  BY <1>4 DEF ElapsedTimer, NextUp, dbVars, bootVars, attachVars, execVars
<1>5. CASE ElapsedTimerFires
  <2>1. NextUp \in Timers \ Interrupting /\ NextUp \in Events
    BY <1>5, Upcoming DEF ElapsedTimerFires, WaitsFirst, Unbothered
  <2>2. live' \subseteq live /\ at' = [at EXCEPT ![NextUp] = "next"]
        /\ UNCHANGED <<attached, attachLeft, exec>> /\ cancelled' = cancelled
    BY <1>5, <2>1 DEF ElapsedTimerFires, BranchedBy, execVars
  <2>3. at'["main"] = at["main"] /\ \A e \in Interrupting : at'[e] = at[e]
    BY <2>1, <2>2
  <2> QED
    BY <2>2, <2>3
<1>6. CASE PushElapsed
  <2>1. at["main"] \in Attaching
    BY <1>6 DEF Attaching, PushElapsed
  <2>2. PICK armed : Push(armed)
    BY <1>6 DEF PushElapsed
  <2>3. attached \in Seq(Events) /\ attachLeft \in Seq(Events) /\ attachLeft # <<>> /\ NextUp = attachLeft[1]
    BY <2>1, Upcoming DEF NextUp
  <2>4. NextUp \in Events
    BY <2>1, Upcoming
  <2>8. attached' = Append(attached, NextUp) /\ attachLeft' = Tail(attachLeft)
    BY <2>2 DEF Push
  <2>5. attached' # <<>> /\ attached'[1] = IF attached = <<>> THEN attachLeft[1] ELSE attached[1]
    BY <2>3, <2>4, <2>8, FirstAttached
  <2>6. UNCHANGED <<exec, cancelled>> /\ exec = "none" /\ ~cancelled
    BY <2>1, <2>2 DEF Push, execVars
  <2>7. /\ at'["main"] \in {"attach", "attached"} /\ at["main"] # "executing"
        /\ \A e \in Events : at'[e] = at[e]
    BY <2>1, <2>2, Pushed
  <2> QED
    BY <2>3, <2>5, <2>6, <2>7
<1>7. CASE Enter
  BY <1>7 DEF Enter, dbVars, bootVars, attachVars, execVars
<1>8. CASE Entered
  <2>1. /\ exec = "none" /\ at["main"] \in {"entering", "attached"}
        /\ at' = [at EXCEPT !["main"] = "executing"] \/ at' = [at EXCEPT !["main"] = "failed"]
        /\ UNCHANGED <<attached, attachLeft, live>> /\ exec' # "done" /\ cancelled' = cancelled
    BY <1>8 DEF Entered, ExecuteHandler, attachVars
  <2>2. \A e \in Interrupting : at'[e] = "idle"
    BY <2>1, Names
  <2> QED
    BY <2>1, <2>2
<1>9. CASE ResumeSuspended
  BY <1>9 DEF ResumeSuspended, dbVars, bootVars, attachVars, execVars
<1>10. CASE ResumeResumed
  BY <1>10 DEF ResumeResumed, dbVars, bootVars, attachVars, execVars
<1>11. CASE Suspended
  BY <1>11 DEF Suspended, Proceed, dbVars, bootVars, attachVars, execVars
<1>12. CASE Finish
  BY <1>12 DEF Finish, dbVars, bootVars, attachVars, execVars
<1>13. CASE ExecDone
  <2>1. CASE MainGoesOn
    <3>1. Detached("main", {}, attached)
      BY <1>13, <2>1, Detaching DEF ExecDone
    <3>2. live' \cap Interrupting = {}
      BY <3>1, NoneLeft
    <3>3. Moved("main")
      BY <3>1, Moves
    <3>4. exec = "exiting" /\ exec' = "done" /\ attachLeft' = attachLeft /\ ~cancelled /\ ~cancelled'
      BY <1>13, <2>1 DEF ExecDone, MainGoesOn
    <3>5. \A e \in Interrupting : at'[e] = "idle"
      BY <3>3, <3>4, ConstantsAssumption DEF Moved
    <3> QED
      BY <3>2, <3>3, <3>4, <3>5 DEF Moved
  <2>2. CASE ~MainGoesOn
    BY <1>13, <2>2 DEF ExecDone, MainGoesOn
  <2> QED
    BY <2>1, <2>2
<1>14. CASE Leave
  <2>1. Detached("main", {}, attached)
    BY <1>14, Detaching DEF Leave
  <2>2. live' \cap Interrupting = {}
    BY <2>1, NoneLeft
  <2>3. Moved("main")
    BY <2>1, Moves
  <2>4. at["main"] \in {"leaving", "failed", "attached"} /\ exec' = exec /\ attachLeft' = attachLeft
    BY <1>14 DEF Leave, execVars
  <2>5. \A e \in Interrupting : at'[e] = "idle"
    BY ZenonT(60), <2>3, <2>4, ConstantsAssumption DEF Moved
  <2> QED
    BY <2>2, <2>3, <2>4, <2>5 DEF Moved
<1>15. CASE StopReceived
  <2>1. CASE subscribed
    <3>1. Detached("stop", {}, attached)
      BY <1>15, <2>1, Heard, Detaching, Upcoming
    <3> QED
      BY <1>15, <2>1, <3>1, Heard, Interrupted DEF Detached, dbVars, bootVars, attachVars,
         execVars
  <2>2. CASE ~subscribed
    BY <1>15, <2>2, Unheard DEF dbVars, bootVars, attachVars, execVars
  <2> QED
    BY <2>1, <2>2
<1>16. CASE \E c \in Chains : DetachNext(c)
  <2>1. PICK c \in Chains : DetachNext(c)
    BY <1>16
  <2>2. todo[c] # <<>> /\ Head(todo[c]) \in Events /\ Tail(todo[c]) \in Seq(Events)
    BY <2>1, Remaining DEF DetachNext
  <2>3. Moved(c)
    BY <2>1, <2>2, Moving DEF DetachNext
  <2>4. at[c] = "detach" /\ exec' = exec /\ attachLeft' = attachLeft /\ cancelled' = cancelled
    BY <2>1 DEF DetachNext, execVars
  <2>5. attachLeft = <<>> /\ c # "stop" /\ (c = "main" \/ c \in Interrupting)
    BY <2>4
  <2>6. live' \subseteq live /\ (attached' = attached \/ attached' = <<>>)
    BY <2>3 DEF Moved
  <2>7. \A e \in Interrupting : at'[e] # "idle" <=> at[e] # "idle"
    BY <2>3, <2>4, ConstantsAssumption DEF Moved
  <2>8. IF c = "main" THEN at'["main"] \in {"detach", "next", "over"} ELSE at'["main"] = at["main"]
    BY <2>3, <2>4, ConstantsAssumption DEF Moved
  <2> QED
    BY <2>4, <2>5, <2>6, <2>7, <2>8
<1>17. CASE \E c \in Chains : Exited(c)
  BY <1>17 DEF Exited, Settle, dbVars, bootVars, attachVars, execVars
<1>18. CASE \E p \in Paths : PathRuns(p)
  <2>1. PICK p \in Paths : PathRuns(p)
    BY <1>18
  <2>2. /\ at[p] = "next" /\ at' = [at EXCEPT ![p] = "over"]
        /\ UNCHANGED <<attached, attachLeft, live, exec, cancelled>>
    BY <2>1 DEF PathRuns, dbVars, bootVars, attachVars, execVars
  <2>3. at'["main"] = at["main"] \/ (at["main"] = "next" /\ at'["main"] = "over")
    BY <2>2
  <2>4. \A e \in Interrupting : at'[e] # "idle" <=> at[e] # "idle"
    BY <2>2
  <2> QED
    BY <2>2, <2>3, <2>4
<1>19. CASE Answer
  BY <1>19 DEF Answer, Proceed, dbVars, bootVars, attachVars, execVars
<1>20. CASE \E e \in Events : InterruptingEvent(e)
  <2>1. PICK e \in Events : InterruptingEvent(e)
    BY <1>20
  <2>2. Detached(e, {e}, attached)
    BY <2>1, Detaching DEF InterruptingEvent, InterruptedBy
  <2>3. live' \cap Interrupting = {}
    BY <2>2, NoneLeft
  <2>4. /\ e \in Interrupting /\ e \in live /\ exec \notin {"none", "suspending"}
        /\ exec' = exec /\ attachLeft' = attachLeft
        /\ cancelled' <=> cancelled \/ (installed /\ exec # "done")
    BY <2>1, Interrupted DEF InterruptingEvent, InterruptedBy, MayCome, WaitsFirst
  <2>5. at["main"] = "executing" /\ installed /\ exec # "done"
    BY <2>4
  <2>6. cancelled'
    BY <2>4, <2>5
  <2>7. at'["main"] = "executing"
    BY <2>2, <2>5 DEF Detached
  <2>8. attached' = attached \/ attached' = <<>>
    BY <2>2 DEF Detached
  <2>9. attachLeft = <<>>
    BY <2>5
  <2> QED
    BY <2>3, <2>4, <2>6, <2>7, <2>8, <2>9 DEF Narrow, FirstIsTimer
<1>21. CASE \E e \in Events : NonInterruptingEvent(e)
  <2>1. PICK k \in Events \ Interrupting : NonInterruptingEvent(k)
    BY <1>21 DEF NonInterruptingEvent
  <2>2. live' \subseteq live /\ at' = [at EXCEPT ![k] = "next"]
        /\ UNCHANGED <<attached, attachLeft, exec>> /\ cancelled' = cancelled
    BY <2>1 DEF NonInterruptingEvent, BranchedBy, execVars
  <2>3. at'["main"] = at["main"] /\ \A e \in Interrupting : at'[e] = at[e]
    BY <2>1, <2>2
  <2> QED
    BY <2>2, <2>3
<1>22. CASE \E how \in Stops : ProcessStopped(how)
  BY <1>22 DEF ProcessStopped, MayCome, dbVars, bootVars, attachVars, execVars
<1>23. CASE CrashAndResume
  BY <1>23 DEF CrashAndResume, LoadedAs, FollowedEvents, dbVars, bootVars, attachVars, execVars
<1>24. CASE UNCHANGED vars
  BY <1>24 DEF vars, dbVars, bootVars, attachVars, execVars
<1> QED
  BY <1>1, <1>2, <1>3, <1>4, <1>5, <1>6, <1>7, <1>8, <1>9, <1>10, <1>11, <1>12, <1>13, <1>14,
     <1>15, <1>16, <1>17, <1>18, <1>19, <1>20, <1>21, <1>22, <1>23, <1>24 DEF Next, UrgentStep,
     Running, AttachStep, ActivityStep, ChainStep, Environment

\* Behind is kept.
LEMMA BehindOn ==
  ASSUME Narrow, WaitsFirst, Stops = {}, Values, Places, Idles, Lists, Walks, Stations,
         Unbothered, Waited, RowOf, Behind, [Next]_vars
  PROVE  Behind'
<1> USE Names DEF Values, Places, MainPlaces, OtherPlaces, Idles, Lists, Stations, Attaching,
    Waited, Interrupters, RowOf, Behind, BeforeStart
<1> row \in {"finished", "error", "terminated"} => row' = row
  BY Ended
<1>1. CASE AttachNew
  BY <1>1, Upcoming DEF AttachNew, NextUp, dbVars, bootVars, attachVars, execVars
<1>2. CASE ArmNew
  BY <1>2, Upcoming DEF ArmNew, Push, Armable, SharesArray, NextUp, dbVars, bootVars,
     attachVars, execVars
<1>3. CASE ArmResumed
  BY <1>3, Upcoming DEF ArmResumed, Push, Armable, SharesArray, NextUp, dbVars, bootVars,
     attachVars, execVars
<1>4. CASE ElapsedTimer
  BY <1>4 DEF ElapsedTimer, NextUp, dbVars, bootVars, attachVars, execVars
<1>5. CASE ElapsedTimerFires
  <2>1. NextUp \in Timers /\ NextUp \notin Interrupting
    BY <1>5 DEF ElapsedTimerFires, WaitsFirst, Unbothered
  <2> QED
    BY <1>5, <2>1 DEF ElapsedTimerFires, BranchedBy, dbVars, bootVars, attachVars, execVars
<1>6. CASE PushElapsed
  BY <1>6, Upcoming DEF PushElapsed, Push, Armable, SharesArray, NextUp, dbVars, bootVars,
     attachVars, execVars
<1>7. CASE Enter
  BY <1>7 DEF Enter, dbVars, bootVars, attachVars, execVars
<1>8. CASE Entered
  BY <1>8 DEF Entered, ExecuteHandler, dbVars, bootVars, attachVars, execVars
<1>9. CASE ResumeSuspended
  BY <1>9 DEF ResumeSuspended, dbVars, bootVars, attachVars, execVars
<1>10. CASE ResumeResumed
  BY <1>10 DEF ResumeResumed, dbVars, bootVars, attachVars, execVars
<1>11. CASE Suspended
  BY <1>11 DEF Suspended, Proceed, dbVars, bootVars, attachVars, execVars
<1>12. CASE Finish
  BY <1>12 DEF Finish, dbVars, bootVars, attachVars, execVars
<1>13. CASE ExecDone
  <2>1. CASE MainGoesOn
    <3>1. Moved("main")
      BY <1>13, <2>1, Moving, Upcoming DEF ExecDone
    <3> QED
      BY <1>13, <2>1, <3>1 DEF ExecDone, Moved, dbVars, bootVars, attachVars, execVars
  <2>2. CASE ~MainGoesOn
    BY <1>13, <2>2 DEF ExecDone, dbVars, bootVars, attachVars, execVars
  <2> QED
    BY <2>1, <2>2
<1>14. CASE Leave
  <2>1. Detached("main", {}, attached) /\ UNCHANGED <<loaded, result>>
    BY <1>14, Detaching DEF Leave, bootVars
  <2>2. at'["main"] \in {"detach", "next", "over"} /\ (at'["main"] = "next" => result = "next") /\ row' = row
    BY <2>1 DEF Detached
  <2>3. result = "next" => row = "finished"
    BY <1>14 DEF Leave
  <2> QED
    BY <2>1, <2>2, <2>3
<1>15. CASE StopReceived
  <2>1. CASE subscribed
    <3>1. Detached("stop", {}, attached)
      BY <1>15, <2>1, Heard, Detaching, Upcoming
    <3> QED
      BY <1>15, <2>1, <3>1, Heard, Interrupted DEF Detached, dbVars, bootVars, attachVars,
         execVars
  <2>2. CASE ~subscribed
    BY <1>15, <2>2, Unheard DEF dbVars, bootVars, attachVars, execVars
  <2> QED
    BY <2>1, <2>2
<1>16. CASE \E c \in Chains : DetachNext(c)
  <2>1. PICK c \in Chains : DetachNext(c)
    BY <1>16
  <2>2. todo[c] # <<>> /\ Head(todo[c]) \in Events /\ Tail(todo[c]) \in Seq(Events)
    BY <2>1, Remaining DEF DetachNext
  <2>3. Moved(c)
    BY <2>1, <2>2, Moving DEF DetachNext
  <2>4. /\ at[c] = "detach" /\ UNCHANGED <<exec, answer, loaded, boot, stop, result>>
        /\ installed' = installed /\ cancelled' = cancelled
    BY <2>1 DEF DetachNext, bootVars, execVars
  <2>5. CASE c = "main"
    BY <2>3, <2>4, <2>5 DEF Moved
  <2>6. CASE c = "stop"
    BY <2>3, <2>4, <2>6 DEF Moved
  <2>7. CASE c \in Events
    BY <2>3, <2>4, <2>7 DEF Moved
  <2> QED
    BY <2>5, <2>6, <2>7
<1>17. CASE \E c \in Chains : Exited(c)
  BY <1>17 DEF Exited, Settle, dbVars, bootVars, attachVars, execVars
<1>18. CASE \E p \in Paths : PathRuns(p)
  BY <1>18 DEF PathRuns, PathSettles, Settle, dbVars, bootVars, attachVars, execVars
<1>19. CASE Answer
  BY <1>19 DEF Answer, Proceed, dbVars, bootVars, attachVars, execVars
<1>20. CASE \E e \in Events : InterruptingEvent(e)
  <2>1. PICK e \in Events : InterruptingEvent(e)
    BY <1>20
  <2>2. Detached(e, {e}, attached) /\ UNCHANGED <<loaded, result>>
    BY <2>1, Detaching DEF InterruptingEvent, InterruptedBy, bootVars
  <2>3. at'["main"] = at["main"] /\ row' \in {row, "finished"}
    BY <2>2 DEF Detached
  <2> QED
    BY <2>2, <2>3
<1>21. CASE \E e \in Events : NonInterruptingEvent(e)
  BY <1>21 DEF NonInterruptingEvent, BranchedBy, MayCome, dbVars, bootVars, attachVars, execVars
<1>22. CASE \E how \in Stops : ProcessStopped(how)
  BY <1>22 DEF ProcessStopped, MayCome, dbVars, bootVars, attachVars, execVars
<1>23. CASE CrashAndResume
  <2>1. loaded' \in {row, "skip"} /\ (loaded' = "skip" => FollowedEvents # {})
    BY <1>23 DEF CrashAndResume, LoadedAs, RowStates
  <2>2. at'["main"] \in {"attach", "attached"} /\ row' = row
    BY <1>23 DEF CrashAndResume
  <2>3. result' = IF loaded' \in {"error", "terminated"} THEN "error"
                  ELSE IF FollowedEvents = {} THEN "next" ELSE "nothing"
    BY <1>23 DEF CrashAndResume
  <2> QED
    BY <2>1, <2>2, <2>3
<1>24. CASE UNCHANGED vars
  BY <1>24 DEF vars, dbVars, bootVars, attachVars, execVars
<1> QED
  BY <1>1, <1>2, <1>3, <1>4, <1>5, <1>6, <1>7, <1>8, <1>9, <1>10, <1>11, <1>12, <1>13, <1>14,
     <1>15, <1>16, <1>17, <1>18, <1>19, <1>20, <1>21, <1>22, <1>23, <1>24 DEF Next, UrgentStep,
     Running, AttachStep, ActivityStep, ChainStep, Environment

\* The path behind an error event begins when main ends with an error.
LEMMA ErrorTaken ==
  ASSUME Values, Places, Idles, Lists, Walks, Stations, Unbothered, WaitsFirst,
         NEW e \in ErrorEvents, Taken(e)', [Next]_vars
  PROVE  Taken(e) \/ result = "error"
<1> USE Names DEF Values, Places, MainPlaces, OtherPlaces, Idles, Lists, Stations, Attaching,
    Taken
<1>1. CASE AttachNew
  BY <1>1, Upcoming DEF AttachNew, NextUp, dbVars, bootVars, attachVars, execVars
<1>2. CASE ArmNew
  BY <1>2, Upcoming DEF ArmNew, Push, Armable, SharesArray, NextUp, dbVars, bootVars,
     attachVars, execVars
<1>3. CASE ArmResumed
  BY <1>3, Upcoming DEF ArmResumed, Push, Armable, SharesArray, NextUp, dbVars, bootVars,
     attachVars, execVars
<1>4. CASE ElapsedTimer
  BY <1>4, ConstantsAssumption DEF ElapsedTimer, NextUp, dbVars, bootVars, attachVars, execVars
<1>5. CASE ElapsedTimerFires
  <2>1. NextUp \in Timers /\ NextUp \notin Interrupting
    BY <1>5 DEF ElapsedTimerFires, WaitsFirst, Unbothered
  <2> QED
    BY <1>5, <2>1, ConstantsAssumption DEF ElapsedTimerFires, BranchedBy, dbVars, bootVars,
       attachVars, execVars
<1>6. CASE PushElapsed
  BY <1>6, Upcoming DEF PushElapsed, Push, Armable, SharesArray, NextUp, dbVars, bootVars,
     attachVars, execVars
<1>7. CASE Enter
  BY <1>7, ConstantsAssumption DEF Enter, dbVars, bootVars, attachVars, execVars
<1>8. CASE Entered
  BY <1>8, ConstantsAssumption DEF Entered, ExecuteHandler, dbVars, bootVars, attachVars,
     execVars
<1>9. CASE ResumeSuspended
  BY <1>9, ConstantsAssumption DEF ResumeSuspended, dbVars, bootVars, attachVars, execVars
<1>10. CASE ResumeResumed
  BY <1>10, ConstantsAssumption DEF ResumeResumed, dbVars, bootVars, attachVars, execVars
<1>11. CASE Suspended
  BY <1>11, ConstantsAssumption DEF Suspended, Proceed, dbVars, bootVars, attachVars, execVars
<1>12. CASE Finish
  BY <1>12, ConstantsAssumption DEF Finish, dbVars, bootVars, attachVars, execVars
<1>13. CASE ExecDone
  <2>1. CASE MainGoesOn
    <3>1. Detached("main", {}, attached)
      BY <1>13, <2>1, Detaching, Upcoming, ConstantsAssumption DEF ExecDone
    <3> QED
      BY <1>13, <2>1, <3>1 DEF ExecDone, Detached, dbVars, bootVars, attachVars, execVars
  <2>2. CASE ~MainGoesOn
    BY <1>13, <2>2 DEF ExecDone, dbVars, bootVars, attachVars, execVars
  <2> QED
    BY <2>1, <2>2
<1>14. CASE Leave
  <2>1. Detached("main", {}, attached)
    BY <1>14, Detaching, Upcoming, ConstantsAssumption DEF Leave
  <2> QED
    BY <1>14, <2>1 DEF Leave, Detached, dbVars, bootVars, attachVars, execVars
<1>15. CASE StopReceived
  <2>1. CASE subscribed
    <3>1. Detached("stop", {}, attached)
      BY <1>15, <2>1, Heard, Detaching, Upcoming, ConstantsAssumption
    <3> QED
      BY <1>15, <2>1, <3>1, Heard, Interrupted DEF Detached, dbVars, bootVars, attachVars,
         execVars
  <2>2. CASE ~subscribed
    BY <1>15, <2>2, Unheard DEF dbVars, bootVars, attachVars, execVars
  <2> QED
    BY <2>1, <2>2
<1>16. CASE \E c \in Chains : DetachNext(c)
  <2>1. PICK c \in Chains : DetachNext(c)
    BY <1>16
  <2>2. todo[c] # <<>> /\ Head(todo[c]) \in Events /\ Tail(todo[c]) \in Seq(Events)
    BY <2>1, Remaining DEF DetachNext
  <2>3. PICK h \in Events, rest \in Seq(Events) : Detached(c, {h}, rest)
    BY <2>1, <2>2, Detaching, Upcoming, ConstantsAssumption DEF DetachNext
  <2> QED
    BY <2>1, <2>3 DEF DetachNext, Detached, dbVars, bootVars, attachVars, execVars
<1>17. CASE \E c \in Chains : Exited(c)
  <2>1. PICK c \in Chains : Exited(c)
    BY <1>17
  <2>2. at[c] = "exiting" /\ \A x \in Chains \ {c} : at'[x] = at[x]
    BY <2>1, Zenon DEF Exited
  <2>3. c # e /\ nextRows' = nextRows
    BY <2>1, <2>2, ConstantsAssumption DEF Exited, dbVars
  <2> QED
    BY <2>2, <2>3
<1>18. CASE \E p \in Paths : PathRuns(p)
  BY <1>18, ConstantsAssumption DEF PathRuns, PathSettles, Settle, dbVars, bootVars, attachVars,
     execVars
<1>19. CASE Answer
  BY <1>19, ConstantsAssumption DEF Answer, Proceed, dbVars, bootVars, attachVars, execVars
<1>20. CASE \E k \in Events : InterruptingEvent(k)
  <2>1. PICK k \in Events : InterruptingEvent(k)
    BY <1>20
  <2>2. Detached(k, {k}, attached)
    BY <2>1, Detaching, Upcoming, ConstantsAssumption DEF InterruptingEvent, InterruptedBy
  <2> QED
    BY <2>1, <2>2, Interrupted DEF InterruptingEvent, InterruptedBy, MayCome, Detached, dbVars,
       bootVars, attachVars, execVars
<1>21. CASE \E k \in Events : NonInterruptingEvent(k)
  BY <1>21, ConstantsAssumption DEF NonInterruptingEvent, BranchedBy, MayCome, dbVars, bootVars,
     attachVars, execVars
<1>22. CASE \E how \in Stops : ProcessStopped(how)
  BY <1>22, ConstantsAssumption DEF ProcessStopped, MayCome, dbVars, bootVars, attachVars,
     execVars
<1>23. CASE CrashAndResume
  BY <1>23, ConstantsAssumption DEF CrashAndResume, LoadedAs, FollowedEvents, dbVars, bootVars,
     attachVars, execVars
<1>24. CASE UNCHANGED vars
  BY <1>24, ConstantsAssumption DEF vars, dbVars, bootVars, attachVars, execVars
<1> QED
  BY <1>1, <1>2, <1>3, <1>4, <1>5, <1>6, <1>7, <1>8, <1>9, <1>10, <1>11, <1>12, <1>13, <1>14,
     <1>15, <1>16, <1>17, <1>18, <1>19, <1>20, <1>21, <1>22, <1>23, <1>24 DEF Next, UrgentStep,
     Running, AttachStep, ActivityStep, ChainStep, Environment

\* The path behind an event that interrupts begins when the event has finished the
\* row.
LEMMA EventTaken ==
  ASSUME Values, Places, Idles, Lists, Walks, Stations, Unbothered, WaitsFirst,
         NEW e \in Interrupting, (Taken(e) \/ at[e] \notin {"idle", "detach"})', [Next]_vars
  PROVE  Taken(e) \/ at[e] \notin {"idle", "detach"} \/ row' = "finished"
<1> USE Names DEF Values, Places, MainPlaces, OtherPlaces, Idles, Lists, Stations, Attaching,
    Taken
<1>1. CASE AttachNew
  BY <1>1, Upcoming DEF AttachNew, NextUp, dbVars, bootVars, attachVars, execVars
<1>2. CASE ArmNew
  BY <1>2, Upcoming DEF ArmNew, Push, Armable, SharesArray, NextUp, dbVars, bootVars,
     attachVars, execVars
<1>3. CASE ArmResumed
  BY <1>3, Upcoming DEF ArmResumed, Push, Armable, SharesArray, NextUp, dbVars, bootVars,
     attachVars, execVars
<1>4. CASE ElapsedTimer
  BY <1>4, ConstantsAssumption DEF ElapsedTimer, NextUp, dbVars, bootVars, attachVars, execVars
<1>5. CASE ElapsedTimerFires
  <2>1. NextUp \in Timers /\ NextUp \notin Interrupting
    BY <1>5 DEF ElapsedTimerFires, WaitsFirst, Unbothered
  <2> QED
    BY <1>5, <2>1, ConstantsAssumption DEF ElapsedTimerFires, BranchedBy, dbVars, bootVars,
       attachVars, execVars
<1>6. CASE PushElapsed
  BY <1>6, Upcoming DEF PushElapsed, Push, Armable, SharesArray, NextUp, dbVars, bootVars,
     attachVars, execVars
<1>7. CASE Enter
  BY <1>7, ConstantsAssumption DEF Enter, dbVars, bootVars, attachVars, execVars
<1>8. CASE Entered
  BY <1>8, ConstantsAssumption DEF Entered, ExecuteHandler, dbVars, bootVars, attachVars,
     execVars
<1>9. CASE ResumeSuspended
  BY <1>9, ConstantsAssumption DEF ResumeSuspended, dbVars, bootVars, attachVars, execVars
<1>10. CASE ResumeResumed
  BY <1>10, ConstantsAssumption DEF ResumeResumed, dbVars, bootVars, attachVars, execVars
<1>11. CASE Suspended
  BY <1>11, ConstantsAssumption DEF Suspended, Proceed, dbVars, bootVars, attachVars, execVars
<1>12. CASE Finish
  BY <1>12, ConstantsAssumption DEF Finish, dbVars, bootVars, attachVars, execVars
<1>13. CASE ExecDone
  <2>1. CASE MainGoesOn
    <3>1. Detached("main", {}, attached)
      BY <1>13, <2>1, Detaching, Upcoming, ConstantsAssumption DEF ExecDone
    <3> QED
      BY <1>13, <2>1, <3>1 DEF ExecDone, Detached, dbVars, bootVars, attachVars, execVars
  <2>2. CASE ~MainGoesOn
    BY <1>13, <2>2 DEF ExecDone, dbVars, bootVars, attachVars, execVars
  <2> QED
    BY <2>1, <2>2
<1>14. CASE Leave
  <2>1. Detached("main", {}, attached)
    BY <1>14, Detaching, Upcoming, ConstantsAssumption DEF Leave
  <2> QED
    BY <1>14, <2>1 DEF Leave, Detached, dbVars, bootVars, attachVars, execVars
<1>15. CASE StopReceived
  <2>1. CASE subscribed
    <3>1. Detached("stop", {}, attached)
      BY <1>15, <2>1, Heard, Detaching, Upcoming, ConstantsAssumption
    <3> QED
      BY <1>15, <2>1, <3>1, Heard, Interrupted DEF Detached, dbVars, bootVars, attachVars,
         execVars
  <2>2. CASE ~subscribed
    BY <1>15, <2>2, Unheard DEF dbVars, bootVars, attachVars, execVars
  <2> QED
    BY <2>1, <2>2
<1>16. CASE \E c \in Chains : DetachNext(c)
  <2>1. PICK c \in Chains : DetachNext(c)
    BY <1>16
  <2>2. todo[c] # <<>> /\ Head(todo[c]) \in Events /\ Tail(todo[c]) \in Seq(Events)
    BY <2>1, Remaining DEF DetachNext
  <2>3. PICK h \in Events, rest \in Seq(Events) : Detached(c, {h}, rest)
    BY <2>1, <2>2, Detaching DEF DetachNext
  <2>4. at[c] = "detach" /\ nextRows' = nextRows
    BY <2>1 DEF DetachNext
  <2>5. CASE c = e
    BY <2>3, <2>4, <2>5 DEF Detached
  <2>6. CASE c # e
    <3>1. at'[e] = at[e]
      BY <2>3, <2>6, ConstantsAssumption DEF Detached
    <3> QED
      BY <2>4, <3>1
  <2> QED
    BY <2>5, <2>6
<1>17. CASE \E c \in Chains : Exited(c)
  BY SMTT(30), <1>17, ConstantsAssumption DEF Exited, Settle, dbVars, bootVars, attachVars, execVars
<1>18. CASE \E p \in Paths : PathRuns(p)
  BY <1>18, ConstantsAssumption DEF PathRuns, PathSettles, Settle, dbVars, bootVars, attachVars,
     execVars
<1>19. CASE Answer
  BY <1>19, ConstantsAssumption DEF Answer, Proceed, dbVars, bootVars, attachVars, execVars
<1>20. CASE \E k \in Events : InterruptingEvent(k)
  <2>1. PICK k \in Events : InterruptingEvent(k)
    BY <1>20
  <2>2. Detached(k, {k}, attached)
    BY <2>1, Detaching, Upcoming, ConstantsAssumption DEF InterruptingEvent, InterruptedBy
  <2> QED
    BY <2>1, <2>2, Interrupted DEF InterruptingEvent, InterruptedBy, MayCome, Detached, dbVars,
       bootVars, attachVars, execVars
<1>21. CASE \E k \in Events : NonInterruptingEvent(k)
  BY <1>21, ConstantsAssumption DEF NonInterruptingEvent, BranchedBy, MayCome, dbVars, bootVars,
     attachVars, execVars
<1>22. CASE \E how \in Stops : ProcessStopped(how)
  BY <1>22, ConstantsAssumption DEF ProcessStopped, MayCome, dbVars, bootVars, attachVars,
     execVars
<1>23. CASE CrashAndResume
  BY <1>23, ConstantsAssumption DEF CrashAndResume, LoadedAs, FollowedEvents, dbVars, bootVars,
     attachVars, execVars
<1>24. CASE UNCHANGED vars
  BY <1>24, ConstantsAssumption DEF vars, dbVars, bootVars, attachVars, execVars
<1> QED
  BY <1>1, <1>2, <1>3, <1>4, <1>5, <1>6, <1>7, <1>8, <1>9, <1>10, <1>11, <1>12, <1>13, <1>14,
     <1>15, <1>16, <1>17, <1>18, <1>19, <1>20, <1>21, <1>22, <1>23, <1>24 DEF Next, UrgentStep,
     Running, AttachStep, ActivityStep, ChainStep, Environment

\* That path is run once between two restarts: the chain of the event is over then.
LEMMA EventOver ==
  ASSUME Values, Places, Idles, Lists, Walks, Stations, Unbothered, WaitsFirst,
         NEW e \in Interrupting, at[e] = "over" => e \notin live, ~CrashAndResume,
         nextRows'[e] > 0, [Next]_vars
  PROVE  (nextRows[e] > 0 /\ (at[e] = "over" => at'[e] = "over")) \/ at'[e] = "over"
<1> USE Names DEF Values, Places, MainPlaces, OtherPlaces, Idles, Lists, Stations, Attaching,
    Taken
<1>1. CASE AttachNew
  BY <1>1, Upcoming DEF AttachNew, NextUp, dbVars, bootVars, attachVars, execVars
<1>2. CASE ArmNew
  BY <1>2, Upcoming DEF ArmNew, Push, Armable, SharesArray, NextUp, dbVars, bootVars,
     attachVars, execVars
<1>3. CASE ArmResumed
  BY <1>3, Upcoming DEF ArmResumed, Push, Armable, SharesArray, NextUp, dbVars, bootVars,
     attachVars, execVars
<1>4. CASE ElapsedTimer
  BY <1>4, ConstantsAssumption DEF ElapsedTimer, NextUp, dbVars, bootVars, attachVars, execVars
<1>5. CASE ElapsedTimerFires
  <2>1. NextUp \in Timers /\ NextUp \notin Interrupting
    BY <1>5 DEF ElapsedTimerFires, WaitsFirst, Unbothered
  <2> QED
    BY <1>5, <2>1, ConstantsAssumption DEF ElapsedTimerFires, BranchedBy, dbVars, bootVars,
       attachVars, execVars
<1>6. CASE PushElapsed
  BY <1>6, Upcoming DEF PushElapsed, Push, Armable, SharesArray, NextUp, dbVars, bootVars,
     attachVars, execVars
<1>7. CASE Enter
  BY <1>7, ConstantsAssumption DEF Enter, dbVars, bootVars, attachVars, execVars
<1>8. CASE Entered
  BY <1>8, ConstantsAssumption DEF Entered, ExecuteHandler, dbVars, bootVars, attachVars,
     execVars
<1>9. CASE ResumeSuspended
  BY <1>9, ConstantsAssumption DEF ResumeSuspended, dbVars, bootVars, attachVars, execVars
<1>10. CASE ResumeResumed
  BY <1>10, ConstantsAssumption DEF ResumeResumed, dbVars, bootVars, attachVars, execVars
<1>11. CASE Suspended
  BY <1>11, ConstantsAssumption DEF Suspended, Proceed, dbVars, bootVars, attachVars, execVars
<1>12. CASE Finish
  BY <1>12, ConstantsAssumption DEF Finish, dbVars, bootVars, attachVars, execVars
<1>13. CASE ExecDone
  <2>1. CASE MainGoesOn
    <3>1. Detached("main", {}, attached)
      BY <1>13, <2>1, Detaching, Upcoming, ConstantsAssumption DEF ExecDone
    <3> QED
      BY <1>13, <2>1, <3>1 DEF ExecDone, Detached, dbVars, bootVars, attachVars, execVars
  <2>2. CASE ~MainGoesOn
    BY <1>13, <2>2 DEF ExecDone, dbVars, bootVars, attachVars, execVars
  <2> QED
    BY <2>1, <2>2
<1>14. CASE Leave
  <2>1. Detached("main", {}, attached)
    BY <1>14, Detaching, Upcoming, ConstantsAssumption DEF Leave
  <2> QED
    BY <1>14, <2>1 DEF Leave, Detached, dbVars, bootVars, attachVars, execVars
<1>15. CASE StopReceived
  <2>1. CASE subscribed
    <3>1. Detached("stop", {}, attached)
      BY <1>15, <2>1, Heard, Detaching, Upcoming, ConstantsAssumption
    <3> QED
      BY <1>15, <2>1, <3>1, Heard, Interrupted DEF Detached, dbVars, bootVars, attachVars,
         execVars
  <2>2. CASE ~subscribed
    BY <1>15, <2>2, Unheard DEF dbVars, bootVars, attachVars, execVars
  <2> QED
    BY <2>1, <2>2
<1>16. CASE \E c \in Chains : DetachNext(c)
  <2>1. PICK c \in Chains : DetachNext(c)
    BY <1>16
  <2>2. todo[c] # <<>> /\ Head(todo[c]) \in Events /\ Tail(todo[c]) \in Seq(Events)
    BY <2>1, Remaining DEF DetachNext
  <2>3. PICK h \in Events, rest \in Seq(Events) : Detached(c, {h}, rest)
    BY <2>1, <2>2, Detaching, Upcoming, ConstantsAssumption DEF DetachNext
  <2> QED
    BY <2>1, <2>3 DEF DetachNext, Detached, dbVars, bootVars, attachVars, execVars
<1>17. CASE \E c \in Chains : Exited(c)
  BY <1>17, ConstantsAssumption DEF Exited, Settle, dbVars, bootVars, attachVars, execVars
<1>18. CASE \E p \in Paths : PathRuns(p)
  BY <1>18, ConstantsAssumption DEF PathRuns, PathSettles, Settle, dbVars, bootVars, attachVars,
     execVars
<1>19. CASE Answer
  BY <1>19, ConstantsAssumption DEF Answer, Proceed, dbVars, bootVars, attachVars, execVars
<1>20. CASE \E k \in Events : InterruptingEvent(k)
  <2>1. PICK k \in Events : InterruptingEvent(k)
    BY <1>20
  <2>2. Detached(k, {k}, attached)
    BY <2>1, Detaching, Upcoming, ConstantsAssumption DEF InterruptingEvent, InterruptedBy
  <2> QED
    BY <2>1, <2>2, Interrupted DEF InterruptingEvent, InterruptedBy, MayCome, Detached, dbVars,
       bootVars, attachVars, execVars
<1>21. CASE \E k \in Events : NonInterruptingEvent(k)
  BY <1>21, ConstantsAssumption DEF NonInterruptingEvent, BranchedBy, MayCome, dbVars, bootVars,
     attachVars, execVars
<1>22. CASE \E how \in Stops : ProcessStopped(how)
  BY <1>22, ConstantsAssumption DEF ProcessStopped, MayCome, dbVars, bootVars, attachVars,
     execVars
<1>23. CASE CrashAndResume
  BY <1>23
<1>24. CASE UNCHANGED vars
  BY <1>24, ConstantsAssumption DEF vars, dbVars, bootVars, attachVars, execVars
<1> QED
  BY <1>1, <1>2, <1>3, <1>4, <1>5, <1>6, <1>7, <1>8, <1>9, <1>10, <1>11, <1>12, <1>13, <1>14,
     <1>15, <1>16, <1>17, <1>18, <1>19, <1>20, <1>21, <1>22, <1>23, <1>24 DEF Next, UrgentStep,
     Running, AttachStep, ActivityStep, ChainStep, Environment

\* An event that is not armed, or comes before the activity waits, stays idle.
LEMMA EventIdle ==
  ASSUME Values, Places, Idles, Lists, Walks, Stations, Unbothered, WaitsFirst,
         NEW e \in Interrupting, at[e] = "idle", nextRows[e] = 0,
         e \notin live \/ exec \in {"none", "suspending"}, [Next]_vars
  PROVE  at'[e] = "idle" /\ nextRows'[e] = 0
<1> USE Names DEF Values, Places, MainPlaces, OtherPlaces, Idles, Lists, Stations, Attaching,
    Taken, WaitsFirst
<1>1. CASE AttachNew
  BY <1>1, Upcoming DEF AttachNew, NextUp, dbVars, bootVars, attachVars, execVars
<1>2. CASE ArmNew
  BY <1>2, Upcoming DEF ArmNew, Push, Armable, SharesArray, NextUp, dbVars, bootVars,
     attachVars, execVars
<1>3. CASE ArmResumed
  BY <1>3, Upcoming DEF ArmResumed, Push, Armable, SharesArray, NextUp, dbVars, bootVars,
     attachVars, execVars
<1>4. CASE ElapsedTimer
  BY <1>4, ConstantsAssumption DEF ElapsedTimer, NextUp, dbVars, bootVars, attachVars, execVars
<1>5. CASE ElapsedTimerFires
  <2>1. NextUp \in Timers /\ NextUp \notin Interrupting
    BY <1>5 DEF ElapsedTimerFires, WaitsFirst, Unbothered
  <2> QED
    BY <1>5, <2>1, ConstantsAssumption DEF ElapsedTimerFires, BranchedBy, dbVars, bootVars,
       attachVars, execVars
<1>6. CASE PushElapsed
  BY <1>6, Upcoming DEF PushElapsed, Push, Armable, SharesArray, NextUp, dbVars, bootVars,
     attachVars, execVars
<1>7. CASE Enter
  BY <1>7, ConstantsAssumption DEF Enter, dbVars, bootVars, attachVars, execVars
<1>8. CASE Entered
  BY <1>8, ConstantsAssumption DEF Entered, ExecuteHandler, dbVars, bootVars, attachVars,
     execVars
<1>9. CASE ResumeSuspended
  BY <1>9, ConstantsAssumption DEF ResumeSuspended, dbVars, bootVars, attachVars, execVars
<1>10. CASE ResumeResumed
  BY <1>10, ConstantsAssumption DEF ResumeResumed, dbVars, bootVars, attachVars, execVars
<1>11. CASE Suspended
  BY <1>11, ConstantsAssumption DEF Suspended, Proceed, dbVars, bootVars, attachVars, execVars
<1>12. CASE Finish
  BY <1>12, ConstantsAssumption DEF Finish, dbVars, bootVars, attachVars, execVars
<1>13. CASE ExecDone
  <2>1. CASE MainGoesOn
    <3>1. Detached("main", {}, attached)
      BY <1>13, <2>1, Detaching, Upcoming, ConstantsAssumption DEF ExecDone
    <3> QED
      BY <1>13, <2>1, <3>1 DEF ExecDone, Detached, dbVars, bootVars, attachVars, execVars
  <2>2. CASE ~MainGoesOn
    BY <1>13, <2>2 DEF ExecDone, dbVars, bootVars, attachVars, execVars
  <2> QED
    BY <2>1, <2>2
<1>14. CASE Leave
  <2>1. Detached("main", {}, attached)
    BY <1>14, Detaching, Upcoming, ConstantsAssumption DEF Leave
  <2> QED
    BY <1>14, <2>1 DEF Leave, Detached, dbVars, bootVars, attachVars, execVars
<1>15. CASE StopReceived
  <2>1. CASE subscribed
    <3>1. Detached("stop", {}, attached)
      BY <1>15, <2>1, Heard, Detaching, Upcoming, ConstantsAssumption
    <3> QED
      BY <1>15, <2>1, <3>1, Heard, Interrupted DEF Detached, dbVars, bootVars, attachVars,
         execVars
  <2>2. CASE ~subscribed
    BY <1>15, <2>2, Unheard DEF dbVars, bootVars, attachVars, execVars
  <2> QED
    BY <2>1, <2>2
<1>16. CASE \E c \in Chains : DetachNext(c)
  <2>1. PICK c \in Chains : DetachNext(c)
    BY <1>16
  <2>2. todo[c] # <<>> /\ Head(todo[c]) \in Events /\ Tail(todo[c]) \in Seq(Events)
    BY <2>1, Remaining DEF DetachNext
  <2>3. PICK h \in Events, rest \in Seq(Events) : Detached(c, {h}, rest)
    BY <2>1, <2>2, Detaching, Upcoming, ConstantsAssumption DEF DetachNext
  <2> QED
    BY <2>1, <2>3 DEF DetachNext, Detached, dbVars, bootVars, attachVars, execVars
<1>17. CASE \E c \in Chains : Exited(c)
  BY <1>17, ConstantsAssumption DEF Exited, Settle, dbVars, bootVars, attachVars, execVars
<1>18. CASE \E p \in Paths : PathRuns(p)
  BY <1>18, ConstantsAssumption DEF PathRuns, PathSettles, Settle, dbVars, bootVars, attachVars,
     execVars
<1>19. CASE Answer
  BY <1>19, ConstantsAssumption DEF Answer, Proceed, dbVars, bootVars, attachVars, execVars
<1>20. CASE \E k \in Events : InterruptingEvent(k)
  <2>1. PICK k \in Events : InterruptingEvent(k)
    BY <1>20
  <2>2. Detached(k, {k}, attached)
    BY <2>1, Detaching, Upcoming, ConstantsAssumption DEF InterruptingEvent, InterruptedBy
  <2> QED
    BY ZenonT(60), <2>1, <2>2, Interrupted DEF InterruptingEvent, InterruptedBy, MayCome, Detached, dbVars,
       bootVars, attachVars, execVars
<1>21. CASE \E k \in Events : NonInterruptingEvent(k)
  BY <1>21, ConstantsAssumption DEF NonInterruptingEvent, BranchedBy, MayCome, dbVars, bootVars,
     attachVars, execVars
<1>22. CASE \E how \in Stops : ProcessStopped(how)
  BY <1>22, ConstantsAssumption DEF ProcessStopped, MayCome, dbVars, bootVars, attachVars,
     execVars
<1>23. CASE CrashAndResume
  BY <1>23, ConstantsAssumption DEF CrashAndResume, LoadedAs, FollowedEvents, dbVars, bootVars,
     attachVars, execVars
<1>24. CASE UNCHANGED vars
  BY <1>24, ConstantsAssumption DEF vars, dbVars, bootVars, attachVars, execVars
<1> QED
  BY <1>1, <1>2, <1>3, <1>4, <1>5, <1>6, <1>7, <1>8, <1>9, <1>10, <1>11, <1>12, <1>13, <1>14,
     <1>15, <1>16, <1>17, <1>18, <1>19, <1>20, <1>21, <1>22, <1>23, <1>24 DEF Next, UrgentStep,
     Running, AttachStep, ActivityStep, ChainStep, Environment

\* What main goes on with is changed by an invalid configuration only.
LEMMA ResultKept ==
  ASSUME Values, Places, Idles, Lists, Walks, Stations, RowOf, Behind, ~CrashAndResume,
         [Next]_vars
  PROVE  result' = result \/ (result' = "error" /\ row = "running")
<1> USE DEF RowOf, BeforeStart, Behind
<1>1. CASE AttachNew
  BY <1>1 DEF AttachNew, NextUp, dbVars, bootVars, attachVars, execVars
<1>2. CASE ArmNew
  BY <1>2 DEF ArmNew, Push, Armable, SharesArray, NextUp, dbVars, bootVars, attachVars, execVars
<1>3. CASE ArmResumed
  BY <1>3 DEF ArmResumed, Push, Armable, SharesArray, NextUp, dbVars, bootVars, attachVars,
     execVars
<1>4. CASE ElapsedTimer
  BY <1>4 DEF ElapsedTimer, NextUp, dbVars, bootVars, attachVars, execVars
<1>5. CASE ElapsedTimerFires
  BY <1>5, Heard, Unheard DEF ElapsedTimerFires, BranchedBy, InterruptedBy, BranchedBy
<1>6. CASE PushElapsed
  BY <1>6 DEF PushElapsed, Push, Armable, SharesArray, NextUp, dbVars, bootVars, attachVars,
     execVars
<1>7. CASE Enter
  BY <1>7 DEF Enter, dbVars, bootVars, attachVars, execVars
<1>8. CASE Entered
  BY <1>8 DEF Entered, ExecuteHandler, dbVars, bootVars, attachVars, execVars
<1>9. CASE ResumeSuspended
  BY <1>9 DEF ResumeSuspended, dbVars, bootVars, attachVars, execVars
<1>10. CASE ResumeResumed
  BY <1>10 DEF ResumeResumed, dbVars, bootVars, attachVars, execVars
<1>11. CASE Suspended
  BY <1>11 DEF Suspended, Proceed, dbVars, bootVars, attachVars, execVars
<1>12. CASE Finish
  BY <1>12 DEF Finish, dbVars, bootVars, attachVars, execVars
<1>13. CASE ExecDone
  BY <1>13, Heard, Unheard DEF ExecDone, MainGoesOn, InterruptedBy, BranchedBy
<1>14. CASE Leave
  BY <1>14, Heard, Unheard DEF Leave, InterruptedBy, BranchedBy
<1>15. CASE StopReceived
  BY <1>15, Heard, Unheard DEF StopReceived, Interrupt, InterruptedBy, BranchedBy
<1>16. CASE \E c \in Chains : DetachNext(c)
  BY <1>16, Heard, Unheard DEF DetachNext, InterruptedBy, BranchedBy
<1>17. CASE \E c \in Chains : Exited(c)
  BY <1>17 DEF Exited, Settle, dbVars, bootVars, attachVars, execVars
<1>18. CASE \E p \in Paths : PathRuns(p)
  BY <1>18 DEF PathRuns, PathSettles, Settle, dbVars, bootVars, attachVars, execVars
<1>19. CASE Answer
  BY <1>19 DEF Answer, Proceed, dbVars, bootVars, attachVars, execVars
<1>20. CASE \E e \in Events : InterruptingEvent(e)
  BY <1>20, Heard, Unheard DEF InterruptingEvent, InterruptedBy, MayCome, Interrupt,
     InterruptedBy, BranchedBy
<1>21. CASE \E e \in Events : NonInterruptingEvent(e)
  BY <1>21 DEF NonInterruptingEvent, BranchedBy, MayCome, dbVars, bootVars, attachVars, execVars
<1>22. CASE \E how \in Stops : ProcessStopped(how)
  BY <1>22 DEF ProcessStopped, MayCome, dbVars, bootVars, attachVars, execVars
<1>23. CASE CrashAndResume
  BY <1>23
<1>24. CASE UNCHANGED vars
  BY <1>24 DEF vars, dbVars, bootVars, attachVars, execVars
<1> QED
  BY <1>1, <1>2, <1>3, <1>4, <1>5, <1>6, <1>7, <1>8, <1>9, <1>10, <1>11, <1>12, <1>13, <1>14,
     <1>15, <1>16, <1>17, <1>18, <1>19, <1>20, <1>21, <1>22, <1>23, <1>24 DEF Next, UrgentStep,
     Running, AttachStep, ActivityStep, ChainStep, Environment

\* TakenRows is kept.
LEMMA TakingOn ==
  ASSUME Narrow, WaitsFirst, Stops = {}, Values, Places, Idles, Lists, Walks, Stations,
         Unbothered, Waited, ErrorsLast, RowOf, FirstInList, Behind, TakenRows, [Next]_vars
  PROVE  TakenRows'
<1>0. row \in {"finished", "error", "terminated"} => row' = row
  BY Ended
<1>1. ASSUME NEW e \in ErrorEvents, Taken(e)'
      PROVE  row' = "error"
  <2>1. Taken(e) \/ result = "error"
    BY <1>1, ErrorTaken
  <2> QED
    BY <1>0, <2>1 DEF TakenRows, Behind
<1>2. ASSUME NEW e \in Interrupting, (Taken(e) \/ at[e] \notin {"idle", "detach"})'
      PROVE  row' = "finished"
  <2>1. Taken(e) \/ at[e] \notin {"idle", "detach"} \/ row' = "finished"
    BY <1>2, EventTaken
  <2> QED
    BY <1>0, <2>1 DEF TakenRows
<1>3. ASSUME NEW e \in Interrupting, nextRows'[e] > 0
      PROVE  result' = "nothing" \/ at'[e] = "over"
  <2>1. CASE CrashAndResume
    <3>1. e \in FollowedEvents \cap Interrupting
      BY <1>3, <2>1, Names DEF CrashAndResume, FollowedEvents
    <3>2. loaded' = "skip"
      BY <2>1, <3>1 DEF CrashAndResume, LoadedAs
    <3> QED
      BY <2>1, <3>1, <3>2 DEF CrashAndResume
  <2>2. CASE ~CrashAndResume
    <3>1. at[e] = "over" => e \notin live
      BY DEF FirstInList
    <3>2. (nextRows[e] > 0 /\ (at[e] = "over" => at'[e] = "over")) \/ at'[e] = "over"
      BY <1>3, <2>2, <3>1, EventOver
    <3>3. result' = result \/ row = "running"
      BY <2>2, ResultKept
    <3>4. nextRows[e] > 0 => row = "finished"
      BY DEF TakenRows, Taken
    <3> QED
      BY <3>2, <3>3, <3>4 DEF TakenRows
  <2> QED
    BY <2>1, <2>2
<1> QED
  BY <1>1, <1>2, <1>3 DEF TakenRows

\* The normal path begins when main has detached everything, with the row finished
\* and no event interrupting.
LEMMA MainTaken ==
  ASSUME Narrow, WaitsFirst, Stops = {}, Values, Places, Idles, Lists, Walks, Stations,
         Unbothered, Waited, ErrorsLast, RowOf, FirstInList, Behind, TakenRows, ~Taken("main"),
         Taken("main")', [Next]_vars
  PROVE  /\ at'["main"] = "next" /\ result = "next" /\ row = "finished" /\ nextRows' = nextRows
         /\ ~(at["main"] = "executing" /\ cancelled)
         /\ \A e \in Interrupting : at'[e] = at[e]
<1> USE Names DEF Values, Places, MainPlaces, OtherPlaces, Idles, Lists, Stations, Attaching,
    Taken, RowOf, BeforeStart
<1>1. CASE AttachNew
  BY <1>1, Upcoming DEF AttachNew, NextUp, dbVars, bootVars, attachVars, execVars
<1>2. CASE ArmNew
  BY <1>2, Upcoming DEF ArmNew, Push, Armable, SharesArray, NextUp, dbVars, bootVars,
     attachVars, execVars
<1>3. CASE ArmResumed
  BY <1>3, Upcoming DEF ArmResumed, Push, Armable, SharesArray, NextUp, dbVars, bootVars,
     attachVars, execVars
<1>4. CASE ElapsedTimer
  BY <1>4 DEF ElapsedTimer, NextUp, dbVars, bootVars, attachVars, execVars
<1>5. CASE ElapsedTimerFires
  <2>1. NextUp \in Timers /\ NextUp \notin Interrupting
    BY <1>5 DEF ElapsedTimerFires, WaitsFirst, Unbothered
  <2> QED
    BY <1>5, <2>1 DEF ElapsedTimerFires, BranchedBy, dbVars, bootVars, attachVars, execVars
<1>6. CASE PushElapsed
  BY <1>6, Upcoming DEF PushElapsed, Push, Armable, SharesArray, NextUp, dbVars, bootVars,
     attachVars, execVars
<1>7. CASE Enter
  BY <1>7 DEF Enter, dbVars, bootVars, attachVars, execVars
<1>8. CASE Entered
  BY <1>8 DEF Entered, ExecuteHandler, dbVars, bootVars, attachVars, execVars
<1>9. CASE ResumeSuspended
  BY <1>9 DEF ResumeSuspended, dbVars, bootVars, attachVars, execVars
<1>10. CASE ResumeResumed
  BY <1>10 DEF ResumeResumed, dbVars, bootVars, attachVars, execVars
<1>11. CASE Suspended
  BY <1>11 DEF Suspended, Proceed, dbVars, bootVars, attachVars, execVars
<1>12. CASE Finish
  BY <1>12 DEF Finish, dbVars, bootVars, attachVars, execVars
<1>13. CASE ExecDone
  <2>1. CASE MainGoesOn
    <3>1. Detached("main", {}, attached) /\ nextRows' = nextRows
      BY <1>13, <2>1, Detaching DEF ExecDone
    <3>2. at'["main"] = "next" => result = "next" /\ \A e \in Interrupting : at'[e] = at[e]
      BY <3>1, ConstantsAssumption DEF Detached
    <3> QED
      BY <1>13, <2>1, <3>1, <3>2 DEF ExecDone, MainGoesOn
  <2>2. CASE ~MainGoesOn
    BY <1>13, <2>2 DEF ExecDone, MainGoesOn
  <2> QED
    BY <2>1, <2>2
<1>14. CASE Leave
  <2>1. Detached("main", {}, attached) /\ nextRows' = nextRows /\ result' = result /\ at["main"] # "executing"
    BY <1>14, Detaching DEF Leave
  <2>2. at'["main"] = "next" => result = "next" /\ \A e \in Interrupting : at'[e] = at[e]
    BY <2>1, ConstantsAssumption DEF Detached
  <2>3. result = "next" => row = "finished"
    BY <1>14 DEF Leave, Behind
  <2> QED
    BY <2>1, <2>2, <2>3
<1>15. CASE StopReceived
  <2>1. CASE subscribed
    <3>1. Detached("stop", {}, attached)
      BY <1>15, <2>1, Heard, Detaching, Upcoming
    <3> QED
      BY <1>15, <2>1, <3>1, Heard, Interrupted DEF Detached, dbVars, bootVars, attachVars,
         execVars
  <2>2. CASE ~subscribed
    BY <1>15, <2>2, Unheard DEF dbVars, bootVars, attachVars, execVars
  <2> QED
    BY <2>1, <2>2
<1>16. CASE \E c \in Chains : DetachNext(c)
  <2>1. PICK c \in Chains : DetachNext(c)
    BY <1>16
  <2>2. todo[c] # <<>> /\ Head(todo[c]) \in Events /\ Tail(todo[c]) \in Seq(Events)
    BY <2>1, Remaining DEF DetachNext
  <2>3. PICK h \in Events, rest \in Seq(Events) : Detached(c, {h}, rest)
    BY <2>1, <2>2, Detaching DEF DetachNext
  <2>4. at[c] = "detach" /\ nextRows' = nextRows
    BY <2>1 DEF DetachNext
  <2>5. CASE c = "main"
    <3>1. at'["main"] = "next" => result = "next" /\ \A e \in Interrupting : at'[e] = at[e]
      BY <2>3, <2>5, ConstantsAssumption DEF Detached
    <3> QED
      BY <2>4, <2>5, <3>1 DEF Behind
  <2>6. CASE c # "main"
    BY <2>3, <2>4, <2>6 DEF Detached
  <2> QED
    BY <2>5, <2>6
<1>17. CASE \E c \in Chains : Exited(c)
  BY <1>17 DEF Exited, Settle, dbVars, bootVars, attachVars, execVars
<1>18. CASE \E p \in Paths : PathRuns(p)
  BY <1>18 DEF PathRuns, PathSettles, Settle, dbVars, bootVars, attachVars, execVars
<1>19. CASE Answer
  BY <1>19 DEF Answer, Proceed, dbVars, bootVars, attachVars, execVars
<1>20. CASE \E e \in Events : InterruptingEvent(e)
  <2>1. PICK e \in Events : InterruptingEvent(e)
    BY <1>20
  <2>2. Detached(e, {e}, attached)
    BY <2>1, Detaching, Upcoming DEF InterruptingEvent, InterruptedBy
  <2> QED
    BY <2>1, <2>2, Interrupted DEF InterruptingEvent, InterruptedBy, MayCome, Detached, dbVars,
       bootVars, attachVars, execVars
<1>21. CASE \E e \in Events : NonInterruptingEvent(e)
  BY <1>21 DEF NonInterruptingEvent, BranchedBy, MayCome, dbVars, bootVars, attachVars, execVars
<1>22. CASE \E how \in Stops : ProcessStopped(how)
  BY <1>22 DEF ProcessStopped, MayCome, dbVars, bootVars, attachVars, execVars
<1>23. CASE CrashAndResume
  BY <1>23 DEF CrashAndResume, LoadedAs, FollowedEvents, dbVars, bootVars, attachVars, execVars
<1>24. CASE UNCHANGED vars
  BY <1>24 DEF vars, dbVars, bootVars, attachVars, execVars
<1> QED
  BY <1>1, <1>2, <1>3, <1>4, <1>5, <1>6, <1>7, <1>8, <1>9, <1>10, <1>11, <1>12, <1>13, <1>14,
     <1>15, <1>16, <1>17, <1>18, <1>19, <1>20, <1>21, <1>22, <1>23, <1>24 DEF Next, UrgentStep,
     Running, AttachStep, ActivityStep, ChainStep, Environment

\* Once main has gone on it stays there, and a finished activity that is resumed
\* executes nothing.
LEMMA MainStays ==
  ASSUME Narrow, WaitsFirst, Stops = {}, Values, Places, Idles, Lists, Walks, Stations,
         Unbothered, Waited, ErrorsLast, RowOf, FirstInList, Behind, TakenRows, ~CrashAndResume,
         at["main"] \in {"next", "over"} \/ (exec = "none" /\ loaded = "finished"), [Next]_vars
  PROVE  at'["main"] \in {"next", "over"} \/ (exec' = "none" /\ loaded' = "finished")
<1> USE Names DEF Values, Places, MainPlaces, OtherPlaces, Idles, Lists, Stations, Attaching,
    Taken, RowOf, BeforeStart, Behind
<1>1. CASE AttachNew
  BY <1>1, Upcoming DEF AttachNew, NextUp, dbVars, bootVars, attachVars, execVars
<1>2. CASE ArmNew
  BY <1>2, Upcoming DEF ArmNew, Push, Armable, SharesArray, NextUp, dbVars, bootVars,
     attachVars, execVars
<1>3. CASE ArmResumed
  BY <1>3, Upcoming DEF ArmResumed, Push, Armable, SharesArray, NextUp, dbVars, bootVars,
     attachVars, execVars
<1>4. CASE ElapsedTimer
  BY <1>4 DEF ElapsedTimer, NextUp, dbVars, bootVars, attachVars, execVars
<1>5. CASE ElapsedTimerFires
  <2>1. NextUp \in Timers /\ NextUp \notin Interrupting
    BY <1>5 DEF ElapsedTimerFires, WaitsFirst, Unbothered
  <2> QED
    BY <1>5, <2>1 DEF ElapsedTimerFires, BranchedBy, dbVars, bootVars, attachVars, execVars
<1>6. CASE PushElapsed
  BY <1>6, Upcoming DEF PushElapsed, Push, Armable, SharesArray, NextUp, dbVars, bootVars,
     attachVars, execVars
<1>7. CASE Enter
  BY <1>7 DEF Enter, dbVars, bootVars, attachVars, execVars
<1>8. CASE Entered
  BY <1>8 DEF Entered, ExecuteHandler, dbVars, bootVars, attachVars, execVars
<1>9. CASE ResumeSuspended
  BY <1>9 DEF ResumeSuspended, dbVars, bootVars, attachVars, execVars
<1>10. CASE ResumeResumed
  BY <1>10 DEF ResumeResumed, dbVars, bootVars, attachVars, execVars
<1>11. CASE Suspended
  BY <1>11 DEF Suspended, Proceed, dbVars, bootVars, attachVars, execVars
<1>12. CASE Finish
  BY <1>12 DEF Finish, dbVars, bootVars, attachVars, execVars
<1>13. CASE ExecDone
  <2>1. CASE MainGoesOn
    <3>1. Detached("main", {}, attached)
      BY <1>13, <2>1, Detaching, Upcoming DEF ExecDone
    <3> QED
      BY <1>13, <2>1, <3>1 DEF ExecDone, Detached, dbVars, bootVars, attachVars, execVars
  <2>2. CASE ~MainGoesOn
    BY <1>13, <2>2 DEF ExecDone, dbVars, bootVars, attachVars, execVars
  <2> QED
    BY <2>1, <2>2
<1>14. CASE Leave
  <2>1. Detached("main", {}, attached)
    BY <1>14, Detaching, Upcoming DEF Leave
  <2> QED
    BY <1>14, <2>1 DEF Leave, Detached, dbVars, bootVars, attachVars, execVars
<1>15. CASE StopReceived
  <2>1. CASE subscribed
    <3>1. Detached("stop", {}, attached)
      BY <1>15, <2>1, Heard, Detaching, Upcoming
    <3> QED
      BY <1>15, <2>1, <3>1, Heard, Interrupted DEF Detached, dbVars, bootVars, attachVars,
         execVars
  <2>2. CASE ~subscribed
    BY <1>15, <2>2, Unheard DEF dbVars, bootVars, attachVars, execVars
  <2> QED
    BY <2>1, <2>2
<1>16. CASE \E c \in Chains : DetachNext(c)
  <2>1. PICK c \in Chains : DetachNext(c)
    BY <1>16
  <2>2. todo[c] # <<>> /\ Head(todo[c]) \in Events /\ Tail(todo[c]) \in Seq(Events)
    BY <2>1, Remaining DEF DetachNext
  <2>3. PICK h \in Events, rest \in Seq(Events) : Detached(c, {h}, rest)
    BY <2>1, <2>2, Detaching DEF DetachNext
  <2>4. at[c] = "detach" /\ nextRows' = nextRows /\ UNCHANGED <<exec, loaded>>
    BY <2>1 DEF DetachNext, bootVars, execVars
  <2>5. at'["main"] = at["main"] \/ at'["main"] \in {"next", "over", "detach"}
    BY <2>3 DEF Detached
  <2>6. at["main"] \in {"next", "over"} => c # "main" /\ at'["main"] = at["main"]
    BY <2>3, <2>4 DEF Detached
  <2> QED
    BY <2>4, <2>5, <2>6
<1>17. CASE \E c \in Chains : Exited(c)
  BY <1>17 DEF Exited, Settle, dbVars, bootVars, attachVars, execVars
<1>18. CASE \E p \in Paths : PathRuns(p)
  BY <1>18 DEF PathRuns, PathSettles, Settle, dbVars, bootVars, attachVars, execVars
<1>19. CASE Answer
  BY <1>19 DEF Answer, Proceed, dbVars, bootVars, attachVars, execVars
<1>20. CASE \E e \in Events : InterruptingEvent(e)
  <2>1. PICK e \in Events : InterruptingEvent(e)
    BY <1>20
  <2>2. Detached(e, {e}, attached)
    BY <2>1, Detaching, Upcoming DEF InterruptingEvent, InterruptedBy
  <2> QED
    BY <2>1, <2>2, Interrupted DEF InterruptingEvent, InterruptedBy, MayCome, Detached, dbVars,
       bootVars, attachVars, execVars
<1>21. CASE \E e \in Events : NonInterruptingEvent(e)
  BY <1>21 DEF NonInterruptingEvent, BranchedBy, MayCome, dbVars, bootVars, attachVars, execVars
<1>22. CASE \E how \in Stops : ProcessStopped(how)
  BY <1>22 DEF ProcessStopped, MayCome, dbVars, bootVars, attachVars, execVars
<1>23. CASE CrashAndResume
  BY <1>23
<1>24. CASE UNCHANGED vars
  BY <1>24 DEF vars, dbVars, bootVars, attachVars, execVars
<1> QED
  BY <1>1, <1>2, <1>3, <1>4, <1>5, <1>6, <1>7, <1>8, <1>9, <1>10, <1>11, <1>12, <1>13, <1>14,
     <1>15, <1>16, <1>17, <1>18, <1>19, <1>20, <1>21, <1>22, <1>23, <1>24 DEF Next, UrgentStep,
     Running, AttachStep, ActivityStep, ChainStep, Environment

\* NormalPath is kept.
LEMMA NormalOn ==
  ASSUME Narrow, WaitsFirst, Stops = {}, Values, Places, Idles, Lists, Walks, Stations,
         Unbothered, Waited, ErrorsLast, RowOf, FirstInList, Behind, TakenRows, NormalPath,
         [Next]_vars
  PROVE  NormalPath'
<1> SUFFICES ASSUME Taken("main")'
             PROVE  /\ row' = "finished"
                    /\ \A e \in Interrupting : nextRows'[e] = 0 /\ at'[e] = "idle"
                    /\ at'["main"] \in {"next", "over"} \/ (exec' = "none" /\ loaded' = "finished")
  BY DEF NormalPath
<1>1. CASE Taken("main")
  <2>1. /\ row = "finished" /\ \A e \in Interrupting : nextRows[e] = 0 /\ at[e] = "idle"
        /\ at["main"] \in {"next", "over"} \/ (exec = "none" /\ loaded = "finished")
    BY <1>1 DEF NormalPath
  <2>2. row' = "finished"
    BY <2>1, Ended
  <2>3. ASSUME NEW e \in Interrupting
        PROVE  nextRows'[e] = 0 /\ at'[e] = "idle"
    <3>1. e \notin live \/ exec \in {"none", "suspending"}
      BY <2>1 DEF FirstInList
    <3> QED
      BY <2>1, <3>1, EventIdle
  <2>4. CASE ~CrashAndResume
    BY <2>1, <2>2, <2>3, <2>4, MainStays
  <2>5. CASE CrashAndResume
    <3>1. FollowedEvents \cap (Interrupting \cup ErrorEvents) = {}
      BY <2>1, Names DEF FollowedEvents, TakenRows, Taken, Values
    <3>2. loaded' = "finished" /\ exec' = "none"
      BY <2>1, <2>5, <3>1 DEF CrashAndResume, LoadedAs
    <3> QED
      BY <2>2, <2>3, <3>2
  <2> QED
    BY <2>4, <2>5
<1>2. CASE ~Taken("main")
  <2>1. /\ at'["main"] = "next" /\ result = "next" /\ row = "finished" /\ nextRows' = nextRows
        /\ ~(at["main"] = "executing" /\ cancelled)
        /\ \A e \in Interrupting : at'[e] = at[e]
    BY <1>2, MainTaken
  <2>2. ASSUME NEW e \in Interrupting
        PROVE  nextRows[e] = 0 /\ at[e] = "idle"
    <3>1. at[e] = "idle"
      BY <2>1 DEF FirstInList
    <3>2. nextRows[e] \in Nat
      BY Names DEF Values
    <3> QED
      BY <2>1, <3>1, <3>2 DEF TakenRows
  <2> QED
    BY <2>1, <2>2, Ended
<1> QED
  BY <1>1, <1>2

\* PathInv holds in every reachable state, if the event that interrupts is a timer
\* and first in the list.
LEMMA PathInductive ==
  ASSUME Narrow
  PROVE  Spec => []PathInv
<1>1. Init => PathInv
  BY Starting DEF PathInv, RowInv, WaitingInv
<1>2. PathInv /\ [Next]_vars => PathInv'
  <2> SUFFICES ASSUME PathInv, [Next]_vars PROVE PathInv'
    OBVIOUS
  <2>1. WaitsFirst /\ Stops = {}
    BY DEF Narrow
  <2>2. RowInv'
    BY <2>1, BasisOn, WaitingOn, ErrorsOn, SettlingOn, RowsOn DEF PathInv, RowInv, WaitingInv,
       Inv, Basis
  <2>3. Listed
    BY NotTwiceHere DEF PathInv, RowInv, WaitingInv, Inv, Basis, Arming
  <2>4. FirstInList'
    BY <2>1, <2>3, FirstOn DEF PathInv, RowInv, WaitingInv, Inv, Basis
  <2>5. Behind'
    BY <2>1, BehindOn DEF PathInv, RowInv, WaitingInv, Inv, Basis
  <2>6. TakenRows'
    BY <2>1, TakingOn DEF PathInv, RowInv, WaitingInv, Inv, Basis
  <2>7. NormalPath'
    BY <2>1, NormalOn DEF PathInv, RowInv, WaitingInv, Inv, Basis
  <2> QED
    BY <2>2, <2>4, <2>5, <2>6, <2>7 DEF PathInv
<1> QED
  BY <1>1, <1>2, PTL DEF Spec

\* An activity is left on its normal path, behind the event that interrupts it, or
\* behind the events that catch its error, never on two of these, across any number
\* of restarts.
THEOREM PathsExclusive ==
  ASSUME Narrow
  PROVE  Spec => []ExclusivePaths
<1>1. PathInv => ExclusivePaths
  <2> SUFFICES ASSUME PathInv,
                      NEW p \in Interrupting \cup ErrorEvents \cup {"main"}, Taken(p),
                      NEW q \in Interrupting \cup ErrorEvents \cup {"main"}, Taken(q)
               PROVE  p = q \/ {p, q} \subseteq ErrorEvents
    BY DEF ExclusivePaths
  <2>1. TakenRows /\ NormalPath
    BY DEF PathInv
  <2>2. \A e \in Interrupting : Taken("main") => ~Taken(e)
    BY <2>1 DEF NormalPath, Taken
  <2>3. \A e, f \in Interrupting : e = f
    BY DEF Narrow, FirstIsTimer
  <2> QED
    BY <2>1, <2>2, <2>3 DEF TakenRows, NormalPath
<1> QED
  BY <1>1, PathInductive, PTL

\* With the normal path begun no step begins one behind a boundary event.
LEMMA NoEventStarts ==
  ASSUME Narrow, WaitsFirst, Stops = {}, Values, Places, Idles, Lists, Walks, Stations,
         Unbothered, Waited, ErrorsLast, RowOf, FirstInList, Behind, TakenRows, NormalPath,
         Gone, ~DetachedTwice, ~Elapsed, Taken("main"), NEW e \in Events, at[e] # "next",
         [Next]_vars
  PROVE  at'[e] # "next"
<1> USE Names DEF Values, Places, MainPlaces, OtherPlaces, Idles, Lists, Stations, Attaching,
    Taken, RowOf, BeforeStart, NormalPath, Gone, Behind
<1>1. CASE AttachNew
  BY <1>1, Upcoming DEF AttachNew, NextUp, dbVars, bootVars, attachVars, execVars
<1>2. CASE ArmNew
  BY <1>2, Upcoming DEF ArmNew, Push, Armable, SharesArray, NextUp, dbVars, bootVars,
     attachVars, execVars
<1>3. CASE ArmResumed
  BY <1>3, Upcoming DEF ArmResumed, Push, Armable, SharesArray, NextUp, dbVars, bootVars,
     attachVars, execVars
<1>4. CASE ElapsedTimer
  BY <1>4 DEF ElapsedTimer, NextUp, dbVars, bootVars, attachVars, execVars
<1>5. CASE ElapsedTimerFires
  BY <1>5 DEF ElapsedTimerFires, Unbothered
<1>6. CASE PushElapsed
  BY <1>6, Upcoming DEF PushElapsed, Push, Armable, SharesArray, NextUp, dbVars, bootVars,
     attachVars, execVars
<1>7. CASE Enter
  BY <1>7 DEF Enter, dbVars, bootVars, attachVars, execVars
<1>8. CASE Entered
  BY <1>8 DEF Entered, ExecuteHandler, dbVars, bootVars, attachVars, execVars
<1>9. CASE ResumeSuspended
  BY <1>9 DEF ResumeSuspended, dbVars, bootVars, attachVars, execVars
<1>10. CASE ResumeResumed
  BY <1>10 DEF ResumeResumed, dbVars, bootVars, attachVars, execVars
<1>11. CASE Suspended
  BY <1>11 DEF Suspended, Proceed, dbVars, bootVars, attachVars, execVars
<1>12. CASE Finish
  BY <1>12 DEF Finish, dbVars, bootVars, attachVars, execVars
<1>13. CASE ExecDone
  <2>1. CASE MainGoesOn
    <3>1. Detached("main", {}, attached)
      BY <1>13, <2>1, Detaching, Upcoming DEF ExecDone
    <3> QED
      BY <1>13, <2>1, <3>1 DEF ExecDone, Detached, dbVars, bootVars, attachVars, execVars
  <2>2. CASE ~MainGoesOn
    BY <1>13, <2>2 DEF ExecDone, dbVars, bootVars, attachVars, execVars
  <2> QED
    BY <2>1, <2>2
<1>14. CASE Leave
  <2>1. Detached("main", {}, attached)
    BY <1>14, Detaching, Upcoming DEF Leave
  <2> QED
    BY <1>14, <2>1 DEF Leave, Detached, dbVars, bootVars, attachVars, execVars
<1>15. CASE StopReceived
  <2>1. CASE subscribed
    <3>1. Detached("stop", {}, attached)
      BY <1>15, <2>1, Heard, Detaching, Upcoming
    <3> QED
      BY <1>15, <2>1, <3>1, Heard, Interrupted DEF Detached, dbVars, bootVars, attachVars,
         execVars
  <2>2. CASE ~subscribed
    BY <1>15, <2>2, Unheard DEF dbVars, bootVars, attachVars, execVars
  <2> QED
    BY <2>1, <2>2
<1>16. CASE \E c \in Chains : DetachNext(c)
  <2>1. PICK c \in Chains : DetachNext(c)
    BY <1>16
  <2>2. todo[c] # <<>> /\ Head(todo[c]) \in Events /\ Tail(todo[c]) \in Seq(Events)
    BY <2>1, Remaining DEF DetachNext
  <2>3. Moved(c)
    BY <2>1, <2>2, Moving DEF DetachNext
  <2>4. result # "error"
    BY <2>1
  <2>5. at'[e] \in {at[e], "detach", "exiting"}
    <3>1. CASE c = e
      BY <2>3, <3>1 DEF Moved
    <3>2. CASE c # e
      BY <2>3, <2>4, <3>2 DEF Moved
    <3> QED
      BY <3>1, <3>2
  <2> QED
    BY <2>5
<1>17. CASE \E c \in Chains : Exited(c)
  <2>1. PICK c \in Chains : Exited(c)
    BY <1>17
  <2>2. at[c] = "exiting" /\ \A x \in Chains \ {c} : at'[x] = at[x]
    BY <2>1, Zenon DEF Exited
  <2>3. c \notin Events
    BY <2>2
  <2> QED
    BY <2>2, <2>3
<1>18. CASE \E p \in Paths : PathRuns(p)
  BY <1>18 DEF PathRuns, PathSettles, Settle, dbVars, bootVars, attachVars, execVars
<1>19. CASE Answer
  BY <1>19 DEF Answer, Proceed, dbVars, bootVars, attachVars, execVars
<1>20. CASE \E k \in Events : InterruptingEvent(k)
  <2>1. PICK k \in Events : InterruptingEvent(k)
    BY <1>20
  <2>2. Detached(k, {k}, attached)
    BY <2>1, Detaching, Upcoming DEF InterruptingEvent, InterruptedBy
  <2> QED
    BY <2>1, <2>2, Interrupted DEF InterruptingEvent, InterruptedBy, MayCome, Detached, dbVars,
       bootVars, attachVars, execVars
<1>21. CASE \E k \in Events : NonInterruptingEvent(k)
  <2>1. PICK k \in Events : NonInterruptingEvent(k)
    BY <1>21
  <2>2. k \in live /\ exec \notin {"none", "suspending"}
    BY <2>1 DEF NonInterruptingEvent, MayCome, WaitsFirst
  <2> QED
    BY <2>2
<1>22. CASE \E how \in Stops : ProcessStopped(how)
  BY <1>22 DEF ProcessStopped, MayCome, dbVars, bootVars, attachVars, execVars
<1>23. CASE CrashAndResume
  BY <1>23 DEF CrashAndResume, LoadedAs, FollowedEvents, dbVars, bootVars, attachVars, execVars
<1>24. CASE UNCHANGED vars
  BY <1>24 DEF vars, dbVars, bootVars, attachVars, execVars
<1> QED
  BY <1>1, <1>2, <1>3, <1>4, <1>5, <1>6, <1>7, <1>8, <1>9, <1>10, <1>11, <1>12, <1>13, <1>14,
     <1>15, <1>16, <1>17, <1>18, <1>19, <1>20, <1>21, <1>22, <1>23, <1>24 DEF Next, UrgentStep,
     Running, AttachStep, ActivityStep, ChainStep, Environment

\* Once the flow node behind the activity has been reached no boundary event starts
\* a path, also when the finished activity is resumed.
THEOREM EventsEnd ==
  ASSUME Narrow, ~Elapsed
  PROVE  Spec => EventsEndWithActivity
<1>1. PathInv /\ [Next]_vars =>
        [\A e \in Events : nextRows["main"] > 0 /\ at[e] # "next" => at'[e] # "next"]_vars
  <2> SUFFICES ASSUME PathInv, [Next]_vars, NEW e \in Events, nextRows["main"] > 0, at[e] # "next"
               PROVE  at'[e] # "next"
    OBVIOUS
  <2>1. WaitsFirst /\ Stops = {} /\ Taken("main")
    BY DEF Narrow, Taken
  <2>2. ~DetachedTwice
    BY NotTwiceHere DEF PathInv, RowInv, WaitingInv, Inv, Basis
  <2> QED
    BY <2>1, <2>2, NoEventStarts DEF PathInv, RowInv, WaitingInv, Inv, Basis
<1> QED
  BY <1>1, PathInductive, PTL DEF Spec, EventsEndWithActivity


-----------------------------------------------------------------------------
(* Somebody is on the way to the outcome                                   *)

\* What the body of the handler promise is at: one that waits has a subscription, open or
\* closed, and main has gone on behind one that is done, unless it was cancelled.
Body ==
  /\ at["main"] = "executing" /\ ~cancelled => exec # "done"
  /\ exec = "waiting" => answer \in {"open", "closed"}
  /\ exec # "none" => answer # "none"

\* Who has cancelled the activity, or closed its subscription, is still on his way.
Chased ==
  outcome = "none" /\ (cancelled \/ answer = "closed") => \E c \in Interrupters : Drives(c)

\* Main has ended without an outcome only if an error event goes on for it.
Followed ==
  outcome = "none" /\ at["main"] = "over" => \E e \in ErrorEvents : at[e] = "next"

DrivenInv == Inv /\ Body /\ Chased /\ Followed

\* Body is kept by every step.
LEMMA BodyOn ==
  ASSUME Inv, Body, [Next]_vars
  PROVE  Body'
<1> USE Names DEF Inv, Basis, Values, Places, MainPlaces, OtherPlaces, Idles, Lists, Stations, Attaching, Body
<1>1. CASE AttachNew \/ ArmNew \/ ArmResumed \/ ElapsedTimer \/ PushElapsed
  BY <1>1, Upcoming DEF AttachNew, ArmNew, ArmResumed, ElapsedTimer, PushElapsed, Push, NextUp,
     dbVars, bootVars, attachVars, execVars
<1>2. CASE ElapsedTimerFires
  <2>1. NextUp \in Events /\ at["main"] = "due" /\ exec = "none"
    BY <1>2, Upcoming DEF ElapsedTimerFires
  <2>2. CASE NextUp \in Interrupting
    <3>1. exec' = exec
      BY <1>2, <2>2 DEF ElapsedTimerFires, InterruptedBy
    <3>2. Moved(NextUp)
      BY <1>2, <2>1, <2>2, Moving DEF ElapsedTimerFires, InterruptedBy
    <3>3. at'["main"] = "due"
      BY <2>1, <3>2 DEF Moved
    <3> QED
      BY <2>1, <3>1, <3>3
  <2>3. CASE NextUp \notin Interrupting
    BY <1>2, <2>1, <2>3 DEF ElapsedTimerFires, BranchedBy, execVars
  <2> QED
    BY <2>2, <2>3
<1>3. CASE Enter \/ Entered \/ ResumeSuspended \/ ResumeResumed
  BY <1>3 DEF Enter, Entered, ExecuteHandler, ResumeSuspended, ResumeResumed, dbVars, bootVars, attachVars,
     execVars
<1>4. CASE Suspended \/ Finish \/ Answer
  BY <1>4 DEF Suspended, Finish, Answer, Proceed, dbVars, bootVars, attachVars, execVars
<1>5. CASE ExecDone
  <2>1. CASE MainGoesOn
    <3>1. Moved("main")
      BY <1>5, <2>1, Moving, Upcoming DEF ExecDone
    <3> QED
      BY <1>5, <2>1, <3>1 DEF ExecDone, Moved
  <2>2. CASE ~MainGoesOn
    BY <1>5, <2>2 DEF ExecDone, MainGoesOn
  <2> QED
    BY <2>1, <2>2
<1>6. CASE Leave
  <2>1. Moved("main")
    BY <1>6, Moving, Upcoming DEF Leave
  <2> QED
    BY <1>6, <2>1 DEF Leave, Moved, execVars
<1>7. CASE StopReceived
  <2>1. CASE subscribed
    <3>1. Moved("stop")
      BY <1>7, <2>1, Heard, Moving, Upcoming
    <3>2. at'["main"] = at["main"] /\ exec' = exec
      BY <1>7, <2>1, <3>1, Heard DEF Moved
    <3>3. /\ answer' = IF installed /\ answer = "open" THEN "closed" ELSE answer
          /\ cancelled' <=> cancelled \/ (installed /\ exec # "done")
      BY <1>7, <2>1, Heard, Interrupted
    <3> QED
      BY <3>2, <3>3
  <2>2. CASE ~subscribed
    BY <1>7, <2>2, Unheard
  <2> QED
    BY <2>1, <2>2
<1>8. CASE \E c \in Chains : DetachNext(c)
  <2>1. PICK c \in Chains : DetachNext(c)
    BY <1>8
  <2>2. todo[c] # <<>> /\ Head(todo[c]) \in Events /\ Tail(todo[c]) \in Seq(Events)
    BY <2>1, Remaining DEF DetachNext
  <2>3. Moved(c) /\ UNCHANGED execVars
    BY <2>1, <2>2, Moving DEF DetachNext
  <2>4. at'["main"] = "executing" => at["main"] = "executing"
    BY <2>3 DEF Moved
  <2> QED
    BY <2>3, <2>4 DEF execVars
<1>9. CASE (\E c \in Chains : Exited(c)) \/ (\E p \in Paths : PathRuns(p))
  BY <1>9 DEF Exited, PathRuns, execVars
<1>10. CASE \E e \in Events : InterruptingEvent(e)
  <2>1. PICK e \in Events : InterruptingEvent(e)
    BY <1>10
  <2>2. Moved(e)
    BY <2>1, Moving DEF InterruptingEvent, InterruptedBy
  <2>3. at'["main"] = at["main"] /\ exec' = exec
    BY <2>1, <2>2 DEF Moved, InterruptingEvent, InterruptedBy
  <2>4. /\ answer' = IF installed /\ answer = "open" THEN "closed" ELSE answer
        /\ cancelled' <=> cancelled \/ (installed /\ exec # "done")
    BY <2>1, Interrupted DEF InterruptingEvent, InterruptedBy
  <2> QED
    BY <2>3, <2>4
<1>11. CASE \E e \in Events : NonInterruptingEvent(e)
  BY <1>11 DEF NonInterruptingEvent, BranchedBy, execVars
<1>12. CASE \E how \in Stops : ProcessStopped(how)
  BY <1>12 DEF ProcessStopped, execVars
<1>13. CASE CrashAndResume
  BY <1>13 DEF CrashAndResume
<1>14. CASE UNCHANGED vars
  BY <1>14 DEF vars, execVars
<1> QED
  BY <1>1, <1>2, <1>3, <1>4, <1>5, <1>6, <1>7, <1>8, <1>9, <1>10, <1>11, <1>12, <1>13, <1>14
     DEF Next, UrgentStep, Running, AttachStep, ActivityStep, ChainStep, Environment

\* An error that ends main is the outcome, unless error events catch it.
LEMMA ErrorsGoOn ==
  ASSUME Places, result = "error", AfterDetach("main")
  PROVE  Followed'
<1>1. PICK caught \in SUBSET Catchable :
        /\ at' = [x \in Chains |-> IF x \in caught THEN "next" ELSE IF x = "main" THEN "over" ELSE at[x]]
        /\ IF caught = {} THEN Settle("rejected") ELSE UNCHANGED outcome
  BY Names DEF AfterDetach
<1>2. caught \subseteq ErrorEvents
  BY DEF Catchable
<1>3. CASE caught = {}
  BY <1>1, <1>3 DEF Followed, Settle
<1>4. CASE caught # {}
  BY <1>1, <1>2, <1>4, Names DEF Followed
<1> QED
  BY <1>3, <1>4

\* Chased is kept: who interrupts detaches, persists the end of the activity, and then
\* settles the promise, or lets the first flow node on his path do so.
LEMMA ChasedOn ==
  ASSUME Inv, Chased, [Next]_vars
  PROVE  Chased'
<1> USE Names DEF Inv, Basis, Values, Places, MainPlaces, OtherPlaces, Idles, Lists, Stations, Attaching,
    Chased, Interrupters, Drives
<1>1. ASSUME \A c \in Interrupters : Drives(c) => Drives(c)', outcome' = "none" => outcome = "none",
             cancelled' \/ answer' = "closed" => cancelled \/ answer = "closed"
      PROVE  Chased'
  BY <1>1
<1>2. CASE AttachNew \/ ArmNew \/ ArmResumed \/ ElapsedTimer \/ PushElapsed
  BY <1>2, Upcoming DEF AttachNew, ArmNew, ArmResumed, ElapsedTimer, PushElapsed, Push, NextUp,
     dbVars, bootVars, attachVars, execVars
<1>3. CASE ElapsedTimerFires
  <2>1. NextUp \in Events
    BY <1>3, Upcoming DEF ElapsedTimerFires
  <2>2. CASE NextUp \in Interrupting
    <3>1. Moved(NextUp)
      BY <1>3, <2>1, <2>2, Moving DEF ElapsedTimerFires, InterruptedBy
    <3>2. at'[NextUp] \in {"detach", "exiting"}
      BY <2>1, <3>1 DEF Moved
    <3> QED
      BY <2>2, <3>2
  <2>3. CASE NextUp \notin Interrupting
    BY <1>1, <1>3, <2>1, <2>3 DEF ElapsedTimerFires, BranchedBy, execVars
  <2> QED
    BY <2>2, <2>3
<1>4. CASE Enter \/ Entered \/ ResumeSuspended \/ ResumeResumed
  BY <1>1, <1>4 DEF Enter, Entered, ExecuteHandler, ResumeSuspended, ResumeResumed, dbVars, bootVars,
     attachVars, execVars
<1>5. CASE Suspended \/ Finish \/ Answer
  BY <1>1, <1>5 DEF Suspended, Finish, Answer, Proceed, dbVars, bootVars, attachVars, execVars
<1>6. CASE ExecDone \/ Leave
  <2>1. CASE Moved("main") /\ answer' = answer /\ cancelled' = cancelled
    <3>1. \A c \in Interrupters : at'[c] = at[c]
      BY <2>1 DEF Moved
    <3>2. outcome' = "none" => outcome = "none"
      BY <2>1 DEF Moved
    <3> QED
      BY <2>1, <3>1, <3>2
  <2>2. CASE ExecDone /\ ~MainGoesOn
    BY <1>1, <2>2 DEF ExecDone
  <2>3. CASE ExecDone /\ MainGoesOn
    <3>1. Moved("main") /\ answer' = answer /\ cancelled' = cancelled
      BY <2>3, Moving, Upcoming DEF ExecDone
    <3> QED
      BY <2>1, <3>1
  <2>4. CASE Leave
    <3>1. Moved("main") /\ answer' = answer /\ cancelled' = cancelled
      BY <2>4, Moving, Upcoming DEF Leave, execVars
    <3> QED
      BY <2>1, <3>1
  <2> QED
    BY <1>6, <2>2, <2>3, <2>4
<1>7. CASE StopReceived
  <2>1. CASE subscribed
    <3>1. Moved("stop")
      BY <1>7, <2>1, Heard, Moving, Upcoming
    <3>2. at'["stop"] \in {"detach", "exiting"}
      BY <3>1 DEF Moved
    <3> QED
      BY <3>2
  <2>2. CASE ~subscribed
    BY <1>7, <2>2, Unheard
  <2> QED
    BY <2>1, <2>2
<1>8. CASE \E c \in Chains : DetachNext(c)
  <2>1. PICK c \in Chains : DetachNext(c)
    BY <1>8
  <2>2. todo[c] # <<>> /\ Head(todo[c]) \in Events /\ Tail(todo[c]) \in Seq(Events)
    BY <2>1, Remaining DEF DetachNext
  <2>3. Moved(c) /\ UNCHANGED execVars
    BY <2>1, <2>2, Moving DEF DetachNext
  <2>4. \A x \in Interrupters : x # c => at'[x] = at[x]
    BY <2>3 DEF Moved
  <2>5. c \in Interrupters => at'[c] \in {"detach", "exiting"}
    BY <2>3 DEF Moved
  <2>6. outcome' = "none" => outcome = "none"
    BY <2>3 DEF Moved
  <2> QED
    BY <2>3, <2>4, <2>5, <2>6 DEF execVars
<1>9. CASE \E c \in Chains : Exited(c)
  <2>1. PICK c \in Chains : Exited(c)
    BY <1>9
  <2>2. CASE c = "stop"
    BY <2>1, <2>2 DEF Exited, Settle
  <2>3. CASE c \in Events
    BY <1>1, <2>1, <2>3 DEF Exited, execVars
  <2> QED
    BY <2>1, <2>2, <2>3 DEF Exited
<1>10. CASE \E p \in Paths : PathRuns(p)
  <2>1. PICK p \in Paths : PathRuns(p)
    BY <1>10
  <2>2. CASE p \in Interrupting
    BY <2>1, <2>2 DEF PathRuns, PathSettles, Settle
  <2>3. CASE p \notin Interrupting
    BY <1>1, <2>1, <2>3 DEF PathRuns, Settle, execVars
  <2> QED
    BY <2>2, <2>3
<1>11. CASE \E e \in Events : InterruptingEvent(e)
  <2>1. PICK e \in Events : InterruptingEvent(e)
    BY <1>11
  <2>2. Moved(e) /\ e \in Interrupting
    BY <2>1, Moving DEF InterruptingEvent, InterruptedBy
  <2>3. at'[e] \in {"detach", "exiting"}
    BY <2>1, <2>2 DEF Moved
  <2> QED
    BY <2>2, <2>3
<1>12. CASE \E e \in Events : NonInterruptingEvent(e)
  BY <1>1, <1>12 DEF NonInterruptingEvent, BranchedBy, execVars
<1>13. CASE \E how \in Stops : ProcessStopped(how)
  BY <1>1, <1>13 DEF ProcessStopped, execVars
<1>14. CASE CrashAndResume
  BY <1>14 DEF CrashAndResume
<1>15. CASE UNCHANGED vars
  BY <1>1, <1>15 DEF vars, execVars
<1> QED
  BY <1>2, <1>3, <1>4, <1>5, <1>6, <1>7, <1>8, <1>9, <1>10, <1>11, <1>12, <1>13, <1>14, <1>15
     DEF Next, UrgentStep, Running, AttachStep, ActivityStep, ChainStep, Environment

\* Followed is kept: main ends with an outcome, or leaves it to the error events, of which
\* the last one gives it.
LEMMA FollowedOn ==
  ASSUME Inv, Followed, [Next]_vars
  PROVE  Followed'
<1> USE Names DEF Inv, Basis, Values, Places, MainPlaces, OtherPlaces, Idles, Lists, Stations, Attaching,
    Followed
<1>1. ASSUME \A c \in ErrorEvents : at[c] = "next" => at'[c] = "next", outcome' = "none" => outcome = "none",
             at'["main"] = "over" => at["main"] = "over"
      PROVE  Followed'
  BY <1>1
<1>2. CASE AttachNew \/ ArmNew \/ ArmResumed \/ ElapsedTimer \/ PushElapsed
  BY <1>2, Upcoming DEF AttachNew, ArmNew, ArmResumed, ElapsedTimer, PushElapsed, Push, NextUp,
     dbVars, bootVars, attachVars, execVars
<1>3. CASE ElapsedTimerFires
  <2>1. NextUp \in Events /\ at["main"] = "due"
    BY <1>3, Upcoming DEF ElapsedTimerFires
  <2>2. CASE NextUp \in Interrupting
    <3>1. Moved(NextUp)
      BY <1>3, <2>1, <2>2, Moving DEF ElapsedTimerFires, InterruptedBy
    <3>2. at'["main"] = "due"
      BY <2>1, <3>1 DEF Moved
    <3> QED
      BY <3>2
  <2>3. CASE NextUp \notin Interrupting
    BY <1>3, <2>1, <2>3 DEF ElapsedTimerFires, BranchedBy, execVars
  <2> QED
    BY <2>2, <2>3
<1>4. CASE Enter \/ Entered \/ ResumeSuspended \/ ResumeResumed
  BY <1>4 DEF Enter, Entered, ExecuteHandler, ResumeSuspended, ResumeResumed, dbVars, bootVars,
     attachVars, execVars
<1>5. CASE Suspended \/ Finish \/ Answer
  BY <1>1, <1>5 DEF Suspended, Finish, Answer, Proceed, dbVars, bootVars, attachVars, execVars
<1>6. CASE (ExecDone /\ MainGoesOn) \/ Leave
  <2>1. Detach("main", {}, attached)
    BY <1>6 DEF ExecDone, Leave
  <2>2. CASE attached # <<>>
    BY <2>1, <2>2 DEF Detach
  <2>3. CASE attached = <<>> /\ result # "error"
    BY <2>1, <2>3 DEF Detach, AfterDetach, Settle
  <2>4. CASE attached = <<>> /\ result = "error"
    BY <2>1, <2>4, ErrorsGoOn DEF Detach
  <2> QED
    BY <2>2, <2>3, <2>4
<1>7. CASE ExecDone /\ ~MainGoesOn
  BY <1>1, <1>7 DEF ExecDone
<1>8. CASE StopReceived
  <2>1. CASE subscribed
    <3>1. Moved("stop")
      BY <1>8, <2>1, Heard, Moving, Upcoming
    <3>2. at'["main"] = at["main"] /\ outcome' = outcome
      BY <3>1 DEF Moved
    <3>3. ErrorEvents \subseteq Events /\ "stop" \notin Events /\ "stop" # "main"
      OBVIOUS
    <3>4. \A c \in ErrorEvents : at'[c] = at[c]
      BY <3>1, <3>3 DEF Moved
    <3> QED
      BY <3>2, <3>4
  <2>2. CASE ~subscribed
    BY <1>1, <1>8, <2>2, Unheard
  <2> QED
    BY <2>1, <2>2
<1>9. CASE \E c \in Chains : DetachNext(c)
  <2>1. PICK c \in Chains : DetachNext(c)
    BY <1>9
  <2>2. /\ todo[c] # <<>> /\ Head(todo[c]) \in Events /\ Tail(todo[c]) \in Seq(Events)
        /\ Detach(c, {Head(todo[c])}, Tail(todo[c])) /\ at[c] = "detach"
    BY <2>1, Remaining DEF DetachNext
  <2>3. Moved(c)
    BY <2>2, Moving
  <2>4. CASE c # "main"
    <3>1. at'["main"] = at["main"] /\ outcome' = outcome
      BY <2>3, <2>4 DEF Moved
    <3>2. c \notin ErrorEvents
      BY <2>2
    <3>3. \A x \in ErrorEvents : at'[x] = at[x]
      BY <2>3, <2>4, <3>2 DEF Moved
    <3> QED
      BY <3>1, <3>3
  <2>5. CASE c = "main" /\ Tail(todo[c]) # <<>>
    BY <2>2, <2>5 DEF Detach
  <2>6. CASE c = "main" /\ Tail(todo[c]) = <<>> /\ result # "error"
    BY <2>2, <2>6 DEF Detach, AfterDetach, Settle
  <2>7. CASE c = "main" /\ Tail(todo[c]) = <<>> /\ result = "error"
    BY <2>2, <2>7, ErrorsGoOn DEF Detach
  <2> QED
    BY <2>4, <2>5, <2>6, <2>7
<1>10. CASE \E c \in Chains : Exited(c)
  BY <1>1, <1>10 DEF Exited, Settle, execVars
<1>11. CASE \E p \in Paths : PathRuns(p)
  <2>1. PICK p \in Paths : PathRuns(p)
    BY <1>11
  <2>2. CASE PathSettles(p)
    BY <2>1, <2>2 DEF PathRuns, Settle
  <2>3. CASE ~PathSettles(p)
    <3>1. /\ p # "main" /\ at'["main"] = at["main"] /\ outcome' = outcome
          /\ \A x \in ErrorEvents \ {p} : at'[x] = at[x]
      BY <2>1, <2>3 DEF PathRuns, PathSettles
    <3>2. p \in ErrorEvents => \E x \in ErrorEvents \ {p} : at[x] = "next"
      BY <2>3 DEF PathSettles
    <3> QED
      BY <3>1, <3>2
  <2> QED
    BY <2>2, <2>3
<1>12. CASE \E e \in Events : InterruptingEvent(e)
  <2>1. PICK e \in Events : InterruptingEvent(e)
    BY <1>12
  <2>2. Moved(e) /\ e \in Interrupting
    BY <2>1, Moving DEF InterruptingEvent, InterruptedBy
  <2>3. at'["main"] = at["main"] /\ outcome' = outcome /\ \A c \in ErrorEvents : at'[c] = at[c]
    BY <2>1, <2>2 DEF Moved
  <2> QED
    BY <2>3
<1>13. CASE \E e \in Events : NonInterruptingEvent(e)
  BY <1>1, <1>13 DEF NonInterruptingEvent, BranchedBy, execVars
<1>14. CASE \E how \in Stops : ProcessStopped(how)
  BY <1>1, <1>14 DEF ProcessStopped, execVars
<1>15. CASE CrashAndResume
  BY <1>15 DEF CrashAndResume
<1>16. CASE UNCHANGED vars
  BY <1>1, <1>16 DEF vars, execVars
<1> QED
  BY <1>2, <1>3, <1>4, <1>5, <1>6, <1>7, <1>8, <1>9, <1>10, <1>11, <1>12, <1>13, <1>14, <1>15, <1>16
     DEF Next, UrgentStep, Running, AttachStep, ActivityStep, ChainStep, Environment

\* In every reachable state somebody is on the way to the outcome of the handler: for any
\* events, stops, restarts and disturbances.
THEOREM NobodyIsForgotten == Spec => []SomebodyDrives
<1>1. Init => DrivenInv
  BY Starting, Names DEF DrivenInv, Body, Chased, Followed, Init
<1>2. DrivenInv /\ [Next]_vars => DrivenInv'
  BY BasisOn, BodyOn, ChasedOn, FollowedOn DEF DrivenInv
<1>3. DrivenInv => SomebodyDrives
  <2> SUFFICES ASSUME DrivenInv, outcome = "none", at["main"] \in {"executing", "over"},
                      \A c \in Interrupters \cup ErrorEvents : ~Drives(c)
               PROVE  /\ at["main"] = "executing" /\ ~cancelled /\ exec \notin {"none", "done"}
                      /\ exec = "waiting" => answer = "open"
    BY DEF SomebodyDrives, Interrupters
  <2>1. ~cancelled /\ answer # "closed"
    BY DEF DrivenInv, Chased
  <2>2. at["main"] = "executing"
    BY DEF DrivenInv, Followed, Drives
  <2> QED
    BY <2>1, <2>2 DEF DrivenInv, Body, Inv, Basis, Stations
<1> QED
  BY <1>1, <1>2, <1>3, PTL DEF Spec
=============================================================================
