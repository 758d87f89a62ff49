------------------------- MODULE CronjobServiceProofs -------------------------
(***************************************************************************)
(* What holds of CronjobService for any process models, start events and   *)
(* crontabs, as long as there is one caller of start.                      *)
(***************************************************************************)
EXTENDS CronjobService, WellFoundedInduction, TLAPS

\* start is called by one caller, which waits for it before it calls again.
OneCaller == \A c, d \in Callers : c = d

\* While start waits for the process models, the service is not running, and
\* what start will be given is what is deployed, but for changes that are still
\* to be told or were told in vain.
LoadsWhatIsDeployed ==
  \A c \in Callers : loading[c] =>
    /\ ~isRunning
    /\ \A m \in Models \ missed : untold[m] = "nothing" => loaded[c][m] = deployed[m]

\* The start events and crontabs of the timers in the entries of a model.
Served(m) == {<<t.event, t.cron>> : t \in dictionary[m]}
Wanted(m) == {<<e, deployed[m][e]>> : e \in ValidTimers(deployed[m])}

ServesDeployed ==
  isRunning => \A m \in Models \ missed : untold[m] = "nothing" => Served(m) = Wanted(m)

\* Within the entries of a model a start event occurs once.
EntriesUnique ==
  \A m \in Models : \A t, u \in dictionary[m] : t.event = u.event => t = u

\* remove is called for models that are deleted.
RemovedIsGone == \A m \in Models : untold[m] = "remove" => deployed[m] = NoCronjobs

IInv == /\ TypeOK
        /\ TimersAreKnown
        /\ EntriesUnique
        /\ LoadsWhatIsDeployed
        /\ ServesDeployed
        /\ RemovedIsGone

-----------------------------------------------------------------------------
\* The timers that are created for a version serve its valid start events, each
\* of them once.
LEMMA NewTimersServe ==
  ASSUME NEW m \in Models, NEW v \in [StartEvents -> Crontabs \cup {Invalid, Off}],
         NEW id \in 1 .. MaxCreations
  PROVE  /\ NewTimers(m, v, id) \subseteq Timer
         /\ \A t \in NewTimers(m, v, id) : t.model = m
         /\ \A t, u \in NewTimers(m, v, id) : t.event = u.event => t = u
         /\ {<<t.event, t.cron>> : t \in NewTimers(m, v, id)}
              = {<<e, v[e]>> : e \in ValidTimers(v)}
         /\ ActiveStartEvents(v) = {} => ValidTimers(v) = {}
<1> DEFINE new == NewTimers(m, v, id)
<1>1. \A e \in ValidTimers(v) :
        [model |-> m, event |-> e, cron |-> v[e], id |-> id] \in Timer
  BY DEF ValidTimers, Timer
<1>2. \A t \in new : \E e \in ValidTimers(v) :
        t = [model |-> m, event |-> e, cron |-> v[e], id |-> id]
  BY DEF NewTimers
<1>3. \A e \in ValidTimers(v) : [model |-> m, event |-> e, cron |-> v[e], id |-> id] \in new
  BY DEF NewTimers
<1> HIDE DEF new
<1>4. \A t \in new : t \in Timer /\ t.model = m /\ t.event \in ValidTimers(v)
                     /\ t.cron = v[t.event]
  BY <1>1, <1>2
<1>5. \A t, u \in new : t.event = u.event => t = u
  BY <1>2
<1>6. {<<t.event, t.cron>> : t \in new} = {<<e, v[e]>> : e \in ValidTimers(v)}
  <2>1. \A t \in new : <<t.event, t.cron>> \in {<<e, v[e]>> : e \in ValidTimers(v)}
    BY <1>4
  <2>2. ASSUME NEW e \in ValidTimers(v)
        PROVE  <<e, v[e]>> \in {<<t.event, t.cron>> : t \in new}
    <3>1. PICK t \in new : t.event = e /\ t.cron = v[e]
      BY <1>3
    <3> QED BY <3>1
  <2> QED BY <2>1, <2>2
<1>7. ActiveStartEvents(v) = {} => ValidTimers(v) = {}
  BY ConstantsAssumption DEF ActiveStartEvents, ValidTimers
<1> QED BY <1>4, <1>5, <1>6, <1>7 DEF new

\* Deployed versions are versions.
LEMMA VersionType ==
  ASSUME TypeOK
  PROVE  /\ \A m \in Models : deployed[m] \in [StartEvents -> Crontabs \cup {Invalid, Off}]
         /\ \A c \in Callers : \A m \in Models :
              loaded[c][m] \in [StartEvents -> Crontabs \cup {Invalid, Off}]
  BY ConstantsAssumption DEF TypeOK, NoCronjobs

\* Stopping the timers of some models leaves those of the others.
LEMMA StopTimers ==
  ASSUME TimersAreKnown, TypeOK, NEW m \in Models
  PROVE  armed \ StoppedTimers({m}) = UNION {dictionary[n] : n \in Models \ {m}}
  BY DEF TimersAreKnown, TypeOK, StoppedTimers, Timer

LEMMA InitIInv == Init => IInv
<1> SUFFICES ASSUME Init PROVE IInv
  OBVIOUS
<1> USE DEF Init
<1>1. TypeOK
  <2>1. \A m \in Models : dictionary[m] = {}
    OBVIOUS
  <2>2. dictionary \in [Models -> SUBSET Timer] /\ armed \subseteq Timer
    BY <2>1
  <2>3. created \in 0 .. MaxCreations /\ call.result = "none"
    BY ConstantsAssumption DEF NoCall
  <2> QED BY <2>2, <2>3 DEF TypeOK
<1>2. TimersAreKnown /\ EntriesUnique /\ LoadsWhatIsDeployed /\ ServesDeployed
  BY DEF TimersAreKnown, EntriesUnique, LoadsWhatIsDeployed, ServesDeployed
<1> QED BY <1>1, <1>2 DEF IInv, RemovedIsGone

-----------------------------------------------------------------------------
\* Deploy and Delete: what they change is still to be told.
LEMMA DeployIInv ==
  ASSUME NEW m \in Models
  PROVE  IInv /\ (Deploy(m) \/ Delete(m)) => IInv'
<1> SUFFICES ASSUME IInv, Deploy(m) \/ Delete(m) PROVE IInv'
  OBVIOUS
<1>1. /\ UNCHANGED <<loading, loaded, serviceVars, missed>>
      /\ \A n \in Models \ {m} : deployed'[n] = deployed[n] /\ untold'[n] = untold[n]
      /\ untold'[m] # "nothing"
  BY DEF Deploy, Delete, IInv, TypeOK
<1>2. TypeOK'
  <2>1. deployed' \in [Models -> Versions \cup {NoCronjobs}]
    BY DEF Deploy, Delete, IInv, TypeOK
  <2>2. untold' \in [Models -> {"nothing", "addOrUpdate", "remove"}] /\ call' = NoCall
    BY DEF Deploy, Delete, IInv, TypeOK
  <2> QED BY <1>1, <2>1, <2>2 DEF IInv, TypeOK, NoCall, serviceVars
<1>3. TimersAreKnown' /\ EntriesUnique'
  BY <1>1 DEF IInv, TimersAreKnown, EntriesUnique, serviceVars
<1>4. LoadsWhatIsDeployed'
  BY <1>1 DEF IInv, LoadsWhatIsDeployed, serviceVars
<1>5. ServesDeployed'
  BY <1>1 DEF IInv, ServesDeployed, Served, Wanted, serviceVars
<1>6. RemovedIsGone'
  BY DEF Deploy, Delete, IInv, TypeOK, RemovedIsGone
<1> QED BY <1>2, <1>3, <1>4, <1>5, <1>6 DEF IInv

LEMMA StartIInv ==
  ASSUME OneCaller, NEW c \in Callers
  PROVE  IInv /\ Start(c) => IInv'
<1> SUFFICES ASSUME IInv, Start(c) PROVE IInv'
  OBVIOUS
<1> USE DEF Start, serviceVars
<1>1. TypeOK'
  BY DEF IInv, TypeOK, NoCall
<1>2. TimersAreKnown' /\ EntriesUnique' /\ ServesDeployed'
  BY DEF IInv, TimersAreKnown, EntriesUnique, ServesDeployed
<1>3. LoadsWhatIsDeployed'
  <2>1. \A d \in Callers : d = c
    BY DEF OneCaller
  <2>2. loaded'[c] = deployed /\ ~isRunning'
    BY DEF IInv, TypeOK
  <2> QED BY <2>1, <2>2 DEF LoadsWhatIsDeployed
<1> QED BY <1>1, <1>2, <1>3 DEF IInv, RemovedIsGone

LEMMA StartedIInv ==
  ASSUME OneCaller, NEW c \in Callers
  PROVE  IInv /\ Started(c) => IInv'
<1> SUFFICES ASSUME IInv, Started(c) PROVE IInv'
  OBVIOUS
<1> DEFINE models == {m \in Models : ActiveStartEvents(loaded[c][m]) # {}}
           New(m) == NewTimers(m, loaded[c][m], created + 1)
<1>1. /\ loading[c]
      /\ loading' = [loading EXCEPT ![c] = FALSE]
      /\ dictionary' = [m \in Models |-> IF m \in models THEN New(m) ELSE dictionary[m]]
      /\ armed' = armed \cup UNION {New(m) : m \in models}
      /\ created' = created + 1 /\ created < MaxCreations
      /\ isRunning' = TRUE
      /\ call' = NoCall
      /\ UNCHANGED <<deployed, untold, loaded, missed>>
  BY DEF Started
<1>2. TypeOK /\ TimersAreKnown /\ EntriesUnique
  BY DEF IInv
<1>3. ~isRunning /\ armed = {}
  BY <1>1, <1>2 DEF IInv, LoadsWhatIsDeployed, TimersAreKnown
<1>4. \A m \in Models : dictionary[m] = {}
  BY <1>2, <1>3 DEF TimersAreKnown
<1>5. created + 1 \in 1 .. MaxCreations
  BY <1>1, <1>2, ConstantsAssumption DEF TypeOK
<1>6. \A m \in Models :
        /\ New(m) \subseteq Timer
        /\ \A t \in New(m) : t.model = m
        /\ \A t, u \in New(m) : t.event = u.event => t = u
        /\ {<<t.event, t.cron>> : t \in New(m)}
             = {<<e, loaded[c][m][e]>> : e \in ValidTimers(loaded[c][m])}
        /\ m \notin models => ValidTimers(loaded[c][m]) = {}
  <2> SUFFICES ASSUME NEW m \in Models
               PROVE  /\ New(m) \subseteq Timer
                      /\ \A t \in New(m) : t.model = m
                      /\ \A t, u \in New(m) : t.event = u.event => t = u
                      /\ {<<t.event, t.cron>> : t \in New(m)}
                           = {<<e, loaded[c][m][e]>> : e \in ValidTimers(loaded[c][m])}
                      /\ m \notin models => ValidTimers(loaded[c][m]) = {}
    OBVIOUS
  <2>1. loaded[c][m] \in [StartEvents -> Crontabs \cup {Invalid, Off}]
    BY <1>2, VersionType
  <2> QED BY <2>1, <1>5, NewTimersServe
<1> HIDE DEF New
<1>7. TypeOK'
  BY <1>1, <1>2, <1>4, <1>5, <1>6 DEF TypeOK, NoCall
<1>9. \A m \in Models : dictionary'[m] = IF m \in models THEN New(m) ELSE {}
  BY <1>1, <1>4
<1>10. TimersAreKnown'
  <2>1. armed' = UNION {New(m) : m \in models}
    BY <1>1, <1>3
  <2>2. \A t \in armed' : \E m \in Models : t \in dictionary'[m]
    BY <1>9, <2>1
  <2>3. \A m \in Models : dictionary'[m] \subseteq armed'
    BY <1>9, <2>1
  <2>4. armed' = UNION {dictionary'[m] : m \in Models}
    BY <2>2, <2>3
  <2>5. \A m \in Models : \A t \in dictionary'[m] : t.model = m
    BY <1>6, <1>9
  <2> QED BY <1>1, <2>4, <2>5 DEF TimersAreKnown
<1>11. EntriesUnique'
  BY <1>6, <1>9 DEF EntriesUnique
<1>12. LoadsWhatIsDeployed'
  <2>1. \A d \in Callers : ~loading'[d]
    BY <1>1, <1>2 DEF OneCaller, TypeOK
  <2> QED BY <2>1 DEF LoadsWhatIsDeployed
<1>13. ServesDeployed'
  <2> SUFFICES ASSUME NEW m \in Models \ missed, untold[m] = "nothing"
               PROVE  Served(m)' = Wanted(m)'
    BY <1>1 DEF ServesDeployed
  <2>1. loaded[c][m] = deployed[m]
    BY <1>1 DEF IInv, LoadsWhatIsDeployed
  <2>2. Wanted(m)' = {<<e, loaded[c][m][e]>> : e \in ValidTimers(loaded[c][m])}
    BY <1>1, <2>1 DEF Wanted, ValidTimers
  <2>3. CASE m \in models
    <3>1. Served(m)' = {<<t.event, t.cron>> : t \in New(m)}
      BY <1>9, <2>3 DEF Served
    <3> QED BY <1>6, <2>2, <3>1
  <2>4. CASE m \notin models
    <3>1. Served(m)' = {}
      BY <1>9, <2>4 DEF Served
    <3>2. ValidTimers(loaded[c][m]) = {}
      BY <1>6, <2>4
    <3> QED BY <2>2, <3>1, <3>2
  <2> QED BY <2>3, <2>4
<1> QED BY <1>1, <1>7, <1>10, <1>11, <1>12, <1>13 DEF IInv, RemovedIsGone

-----------------------------------------------------------------------------
LEMMA StopIInv == IInv /\ Stop => IInv'
<1> SUFFICES ASSUME IInv, Stop PROVE IInv'
  OBVIOUS
<1>1. armed' = {} /\ \A m \in Models : dictionary'[m] = {}
  BY DEF Stop, IInv, TimersAreKnown, StoppedTimers
<1>2. TypeOK'
  BY <1>1 DEF Stop, IInv, TypeOK, NoCall
<1>3. TimersAreKnown' /\ EntriesUnique' /\ ServesDeployed' /\ LoadsWhatIsDeployed'
  BY <1>1 DEF Stop, IInv, TimersAreKnown, EntriesUnique, ServesDeployed, LoadsWhatIsDeployed
<1> QED BY <1>2, <1>3 DEF Stop, IInv, RemovedIsGone

\* A call that comes while the service does not run: what start will be given is
\* not what is deployed any more, which `missed` records.
LEMMA IgnoredIInv ==
  ASSUME IInv, NEW m \in Models, Ignored(m),
         untold' = [untold EXCEPT ![m] = "nothing"],
         call' = NoCall, UNCHANGED <<deployed, loading, loaded>>
  PROVE  IInv'
<1> USE DEF Ignored, serviceVars
<1>1. TypeOK'
  BY DEF IInv, TypeOK, NoCall
<1>2. TimersAreKnown' /\ EntriesUnique' /\ ServesDeployed'
  BY DEF IInv, TimersAreKnown, EntriesUnique, ServesDeployed
<1>3. LoadsWhatIsDeployed'
  <2> SUFFICES ASSUME NEW c \in Callers, loading[c], NEW n \in Models \ missed',
                      untold'[n] = "nothing"
               PROVE  ~isRunning' /\ loaded[c][n] = deployed[n]
    BY DEF LoadsWhatIsDeployed
  <2>1. n \notin missed /\ n # m
    OBVIOUS
  <2>2. untold[n] = "nothing"
    BY <2>1 DEF IInv, TypeOK
  <2> QED BY <2>1, <2>2 DEF IInv, LoadsWhatIsDeployed
<1> QED BY <1>1, <1>2, <1>3 DEF IInv, TypeOK, RemovedIsGone

\* The entries of one model are replaced by new timers, or by none.
LEMMA UpdateIInv ==
  ASSUME IInv, isRunning, NEW m \in Models, NEW new \in SUBSET Timer,
         \A t \in new : t.model = m,
         \A t, u \in new : t.event = u.event => t = u,
         {<<t.event, t.cron>> : t \in new} = Wanted(m),
         armed' = (armed \ StoppedTimers({m})) \cup new,
         dictionary' = [dictionary EXCEPT ![m] = new],
         created' \in 0 .. MaxCreations,
         missed' = missed \ {m},
         untold' = [untold EXCEPT ![m] = "nothing"],
         call' = NoCall, UNCHANGED <<deployed, loading, loaded, isRunning>>
  PROVE  IInv'
<1>1. TypeOK /\ TimersAreKnown
  BY DEF IInv
<1>2. TypeOK'
  BY <1>1 DEF TypeOK, NoCall
<1>3. dictionary'[m] = new /\ \A n \in Models \ {m} : dictionary'[n] = dictionary[n]
  BY <1>1 DEF TypeOK
<1>4. TimersAreKnown'
  <2>1. armed' = (UNION {dictionary[n] : n \in Models \ {m}}) \cup new
    BY <1>1, StopTimers
  <2>2. \A t \in armed' : \E n \in Models : t \in dictionary'[n]
    BY <1>3, <2>1
  <2>3. \A n \in Models : dictionary'[n] \subseteq armed'
    BY <1>3, <2>1
  <2>4. armed' = UNION {dictionary'[n] : n \in Models}
    BY ZenonT(60), <2>2, <2>3
  <2>5. \A n \in Models : \A t \in dictionary'[n] : t.model = n
    BY <1>1, <1>3 DEF TimersAreKnown
  <2> QED BY <2>4, <2>5 DEF TimersAreKnown
<1>5. EntriesUnique'
  BY <1>3 DEF IInv, EntriesUnique
<1>6. LoadsWhatIsDeployed'
  BY DEF IInv, LoadsWhatIsDeployed
<1>7. ServesDeployed'
  <2> SUFFICES ASSUME NEW n \in Models \ missed', untold'[n] = "nothing"
               PROVE  Served(n)' = Wanted(n)'
    BY DEF ServesDeployed
  <2>1. Wanted(n)' = Wanted(n)
    BY DEF Wanted
  <2>2. CASE n = m
    BY <1>3, <2>1, <2>2 DEF Served
  <2>3. CASE n # m
    <3>1. n \notin missed /\ untold[n] = "nothing"
      BY <1>1, <2>3 DEF TypeOK
    <3> QED BY <1>3, <2>1, <2>3, <3>1 DEF IInv, ServesDeployed, Served
  <2> QED BY <2>2, <2>3
<1> QED BY <1>1, <1>2, <1>4, <1>5, <1>6, <1>7 DEF IInv, TypeOK, RemovedIsGone

\* The entries of a model without valid timers are dropped.
LEMMA DroppedIInv ==
  ASSUME IInv, NEW m \in Models, Dropped(m), ValidTimers(deployed[m]) = {},
         untold' = [untold EXCEPT ![m] = "nothing"],
         call' = NoCall, UNCHANGED <<deployed, loading, loaded>>
  PROVE  IInv'
<1>1. /\ isRunning /\ isRunning' = isRunning
      /\ armed' = (armed \ StoppedTimers({m})) \cup {}
      /\ dictionary' = [dictionary EXCEPT ![m] = {}]
      /\ missed' = missed \ {m}
  BY DEF Dropped
<1>2. created' \in 0 .. MaxCreations
  BY DEF Dropped, IInv, TypeOK
<1>3. {<<t.event, t.cron>> : t \in {}} = Wanted(m)
  BY DEF Wanted
<1>4. {} \in SUBSET Timer
  OBVIOUS
<1> QED BY <1>1, <1>2, <1>3, <1>4, UpdateIInv

LEMMA AddOrUpdateIInv ==
  ASSUME NEW m \in Models
  PROVE  IInv /\ AddOrUpdate(m) => IInv'
<1> SUFFICES ASSUME IInv, AddOrUpdate(m) PROVE IInv'
  OBVIOUS
<1>1. /\ untold' = [untold EXCEPT ![m] = "nothing"]
      /\ call' = NoCall
      /\ UNCHANGED <<deployed, loading, loaded>>
  BY DEF AddOrUpdate
<1>2. TypeOK /\ deployed[m] \in [StartEvents -> Crontabs \cup {Invalid, Off}]
  BY VersionType DEF IInv
<1>3. CASE Ignored(m)
  BY <1>1, <1>3, IgnoredIInv
<1>4. CASE ActiveStartEvents(deployed[m]) = {} /\ Dropped(m)
  <2>1. ValidTimers(deployed[m]) = {}
    BY <1>4, ConstantsAssumption DEF ValidTimers, ActiveStartEvents
  <2> QED BY <1>1, <1>4, <2>1, DroppedIInv
<1>5. CASE ActiveStartEvents(deployed[m]) # {} /\ Replaced(m)
  <2> DEFINE new == NewTimers(m, deployed[m], created + 1)
  <2>1. created + 1 \in 1 .. MaxCreations /\ created' \in 0 .. MaxCreations
    BY <1>2, <1>5, ConstantsAssumption DEF Replaced, TypeOK
  <2>2. /\ new \subseteq Timer
        /\ \A t \in new : t.model = m
        /\ \A t, u \in new : t.event = u.event => t = u
        /\ {<<t.event, t.cron>> : t \in new} = Wanted(m)
    BY <1>2, <2>1, NewTimersServe DEF Wanted
  <2>3. /\ armed' = (armed \ StoppedTimers({m})) \cup new
        /\ dictionary' = [dictionary EXCEPT ![m] = new]
        /\ missed' = missed \ {m} /\ isRunning /\ UNCHANGED isRunning
    BY <1>5 DEF Replaced
  <2> HIDE DEF new
  <2> QED BY <1>1, <2>1, <2>2, <2>3, UpdateIInv
<1> QED BY <1>3, <1>4, <1>5 DEF AddOrUpdate

LEMMA RemoveIInv ==
  ASSUME NEW m \in Models
  PROVE  IInv /\ Remove(m) => IInv'
<1> SUFFICES ASSUME IInv, Remove(m) PROVE IInv'
  OBVIOUS
<1>1. /\ untold' = [untold EXCEPT ![m] = "nothing"]
      /\ call' = NoCall
      /\ UNCHANGED <<deployed, loading, loaded>>
  BY DEF Remove
<1>2. CASE Ignored(m)
  BY <1>1, <1>2, IgnoredIInv
<1>3. CASE Dropped(m)
  <2>1. deployed[m] = NoCronjobs
    BY DEF Remove, IInv, RemovedIsGone
  <2>2. ValidTimers(deployed[m]) = {}
    BY <2>1, ConstantsAssumption DEF ValidTimers, NoCronjobs
  <2> QED BY <1>1, <1>3, <2>2, DroppedIInv
<1> QED BY <1>2, <1>3 DEF Remove

LEMMA ExpireIInv ==
  ASSUME NEW t \in armed
  PROVE  IInv /\ Expire(t) => IInv'
<1> SUFFICES ASSUME IInv, Expire(t) PROVE IInv'
  OBVIOUS
<1>1. UNCHANGED <<deployed, untold, loading, loaded, serviceVars, missed>>
  BY DEF Expire
<1>2. call'.result \in {"none", "start", "failed"}
  BY DEF Expire
<1> QED BY <1>1, <1>2 DEF serviceVars, IInv, TypeOK, TimersAreKnown, EntriesUnique,
     LoadsWhatIsDeployed, ServesDeployed, Served, Wanted, RemovedIsGone

LEMMA StepIInv == ASSUME OneCaller PROVE IInv /\ [Next]_vars => IInv'
<1> SUFFICES ASSUME IInv, [Next]_vars PROVE IInv'
  OBVIOUS
<1>1. CASE UNCHANGED vars
  BY <1>1 DEF vars, serviceVars, IInv, TypeOK, TimersAreKnown, EntriesUnique,
     LoadsWhatIsDeployed, ServesDeployed, Served, Wanted, RemovedIsGone
<1>2. ASSUME NEW m \in Models, Deploy(m) \/ Delete(m) PROVE IInv'
  BY <1>2, DeployIInv
<1>3. ASSUME NEW m \in Models, AddOrUpdate(m) PROVE IInv'
  BY <1>3, AddOrUpdateIInv
<1>4. ASSUME NEW m \in Models, Remove(m) PROVE IInv'
  BY <1>4, RemoveIInv
<1>5. ASSUME NEW c \in Callers, Start(c) PROVE IInv'
  BY <1>5, StartIInv
<1>6. ASSUME NEW c \in Callers, Started(c) PROVE IInv'
  BY <1>6, StartedIInv
<1>7. CASE Stop
  BY <1>7, StopIInv
<1>8. ASSUME NEW t \in armed, Expire(t) PROVE IInv'
  BY <1>8, ExpireIInv
<1> QED BY <1>1, <1>2, <1>3, <1>4, <1>5, <1>6, <1>7, <1>8 DEF Next

LEMMA AlwaysIInv == ASSUME OneCaller PROVE Spec => []IInv
BY InitIInv, StepIInv, PTL DEF Spec

\* Every variable keeps its type.
THEOREM CronjobTypes == ASSUME OneCaller PROVE Spec => []TypeOK
<1>1. IInv => TypeOK
  BY DEF IInv
<1> QED BY <1>1, AlwaysIInv, PTL

\* The armed timers are exactly those in the dictionary, and none is armed while
\* the service is stopped.
THEOREM NoTimerIsLeftBehind == ASSUME OneCaller PROVE Spec => []TimersAreKnown
<1>1. IInv => TimersAreKnown
  BY DEF IInv
<1> QED BY <1>1, AlwaysIInv, PTL

\* No start event is served by two timers.
THEOREM NoStartEventRunsTwice == ASSUME OneCaller PROVE Spec => []OneTimerPerStartEvent
<1>1. IInv => OneTimerPerStartEvent
  BY DEF IInv, TimersAreKnown, EntriesUnique, OneTimerPerStartEvent
<1> QED BY <1>1, AlwaysIInv, PTL

\* The timers that run are those of the deployed versions, but for changes that
\* are still to be told or came while start was under way.
THEOREM TimersFollowDeployments == ASSUME OneCaller PROVE Spec => []RunsAsDeployed
<1>1. IInv => RunsAsDeployed
  <2> SUFFICES ASSUME IInv, isRunning, NEW m \in Models \ missed, untold[m] = "nothing"
               PROVE  {<<t.event, t.cron>> : t \in {x \in armed : x.model = m}}
                        = {<<e, deployed[m][e]>> : e \in ValidTimers(deployed[m])}
    BY DEF RunsAsDeployed
  <2>1. {x \in armed : x.model = m} = dictionary[m]
    BY DEF IInv, TimersAreKnown
  <2> QED BY <2>1 DEF IInv, ServesDeployed, Served, Wanted
<1> QED BY <1>1, AlwaysIInv, PTL

-----------------------------------------------------------------------------
(* What an expired timer starts                                            *)

\* A set of natural numbers that is not empty has a first one.
LEMMA FirstIsIn ==
  ASSUME NEW S \in SUBSET Nat, S # {}
  PROVE  First(S) \in S
<1>1. IsWellFoundedOn(OpToRel(<, Nat), Nat)
  BY NatLessThanWellFounded
<1>2. PICK x \in S : \A y \in S : ~(<<y, x>> \in OpToRel(<, Nat))
  BY <1>1, WFMin
<1>3. \A y \in S : ~(y < x)
  BY <1>2 DEF OpToRel
<1>4. ASSUME NEW y \in S PROVE x <= y
  <2>1. x \in Nat /\ y \in Nat /\ ~(y < x)
    BY <1>3
  <2> QED BY <2>1
<1> QED BY <1>4 DEF First

\* The entry that executeProcessModelWithCronjob finds: there is always one, and it
\* belongs to the timer's model and has its crontab.
LEMMA FoundEntry ==
  ASSUME IInv, NEW t \in armed, Expire(t)
  PROVE  /\ isRunning /\ t.model \in Models
         /\ call'.result = "start"
         /\ \E x \in dictionary[t.model] :
              x \in armed /\ x.model = t.model /\ x.cron = t.cron /\ call'.event = x.event
<1>1. TypeOK /\ TimersAreKnown
  BY DEF IInv
<1>2. isRunning /\ t.model \in Models /\ t \in dictionary[t.model]
  BY <1>1 DEF TypeOK, TimersAreKnown, Timer
<1>3. \A x \in dictionary[t.model] : x \in armed /\ x.model = t.model /\ x.event \in StartEvents
  BY <1>1, <1>2 DEF TypeOK, TimersAreKnown, Timer
<1>4. t.event \in MatchingEvents(t)
  BY <1>2 DEF MatchingEvents
<1>5. MatchingEvents(t) \in SUBSET Nat
  BY <1>3, ConstantsAssumption DEF MatchingEvents
<1>6. First(MatchingEvents(t)) \in MatchingEvents(t)
  BY <1>4, <1>5, FirstIsIn
<1>7. call' = [result |-> "start", model |-> t.model, event |-> First(MatchingEvents(t))]
  BY <1>4 DEF Expire
<1>8. PICK x \in dictionary[t.model] : x.cron = t.cron /\ x.event = First(MatchingEvents(t))
  BY <1>6 DEF MatchingEvents
<1> QED BY <1>2, <1>3, <1>7, <1>8

\* An expired timer always starts something, and unless a change is still to be told or
\* was told in vain, a start event that is deployed with the timer's crontab: its own one,
\* if no other timer of the model has that crontab.
THEOREM ExpiryStartsWhatIsDeployed ==
  ASSUME OneCaller
  PROVE  Spec => ExpiryStartsDeployedCronjob
<1>1. IInv => \A t \in armed : Expire(t) =>
        /\ call'.result = "start"
        /\ untold[t.model] = "nothing" /\ t.model \notin missed =>
             deployed[t.model][call'.event] = t.cron
        /\ (\A u \in armed : u.model = t.model /\ u.cron = t.cron => u = t) =>
             call'.event = t.event
  <2> SUFFICES ASSUME IInv, NEW t \in armed, Expire(t)
               PROVE  /\ call'.result = "start"
                      /\ untold[t.model] = "nothing" /\ t.model \notin missed =>
                           deployed[t.model][call'.event] = t.cron
                      /\ (\A u \in armed : u.model = t.model /\ u.cron = t.cron => u = t) =>
                           call'.event = t.event
    OBVIOUS
  <2>1. isRunning /\ t.model \in Models /\ call'.result = "start"
    BY FoundEntry
  <2>2. PICK x \in dictionary[t.model] :
          x \in armed /\ x.model = t.model /\ x.cron = t.cron /\ call'.event = x.event
    BY FoundEntry
  <2>3. ASSUME untold[t.model] = "nothing", t.model \notin missed
        PROVE  deployed[t.model][x.event] = t.cron
    <3>1. <<x.event, x.cron>> \in Wanted(t.model)
      BY <2>1, <2>2, <2>3 DEF IInv, ServesDeployed, Served
    <3> QED BY <2>2, <3>1 DEF Wanted
  <2> QED BY <2>1, <2>2, <2>3
<1> QED BY <1>1, AlwaysIInv, PTL DEF ExpiryStartsDeployedCronjob

=============================================================================
