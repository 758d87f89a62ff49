---------------------------- MODULE CronjobService ----------------------------
(***************************************************************************)
(* CronjobService and the cyclic timers it has the TimerFacade run: a      *)
(* dictionary of armed timers per process model, which start, stop,        *)
(* addOrUpdate and remove bring up to date, and timers that start process  *)
(* instances when they expire.                                             *)
(*                                                                         *)
(* start awaits the process models.  Whatever is deployed, removed or      *)
(* stopped meanwhile comes in between.  All other operations are           *)
(* synchronous, so that each of them is one step.                          *)
(***************************************************************************)
EXTENDS Integers, FiniteSets

CONSTANTS
  Models,        \* ids of process models
  StartEvents,   \* start events of a model: their places in its flowNodes
  Crontabs,      \* crontabs that the parser accepts
  Invalid,       \* one that it does not accept
  Off,           \* a start event without an enabled cyclic timer
  Versions,      \* the versions of a model that are deployed
  Callers,       \* who may call start
  MaxCreations   \* bound: how often timers are created for a model

ASSUME ConstantsAssumption ==
  /\ StartEvents \subseteq Nat /\ IsFiniteSet(StartEvents)
  /\ Invalid \notin Crontabs /\ Off \notin Crontabs \cup {Invalid}
  /\ Versions \subseteq [StartEvents -> Crontabs \cup {Invalid, Off}]
  /\ MaxCreations \in Nat

\* A model without cronjobs: not deployed, or deployed without cyclic timers.
NoCronjobs == [e \in StartEvents |-> Off]

VARIABLES
  deployed,    \* the version of each model in the database
  untold,      \* the call that is still to follow on a change of the database
  loading,     \* per caller of start: is it waiting for the models?
  loaded,      \* ... and the models that it will be given
  isRunning,   \* _isRunning
  dictionary,  \* cronjobDictionary: the timers in the entries of each model
  armed,       \* the timers whose subscription the event aggregator holds
  created,     \* how often timers were created; makes their ids unique
  missed,      \* models whose change came while start was under way
  call         \* the process start that the last step called for, if any

serviceVars == <<isRunning, dictionary, armed, created>>
vars == <<deployed, untold, loading, loaded, serviceVars, missed, call>>

\* A timer subscription: whom it was created for and with which crontab.
Timer == [model : Models, event : StartEvents, cron : Crontabs, id : 1 .. MaxCreations]

NoCall == [result |-> "none"]

Init ==
  /\ deployed \in [Models -> Versions \cup {NoCronjobs}]
  /\ untold = [m \in Models |-> "nothing"]
  /\ loading = [c \in Callers |-> FALSE]
  /\ loaded = [c \in Callers |-> [m \in Models |-> NoCronjobs]]
  /\ isRunning = FALSE
  /\ dictionary = [m \in Models |-> {}]
  /\ armed = {}
  /\ created = 0
  /\ missed = {}
  /\ call = NoCall

-----------------------------------------------------------------------------
(* The users of the service                                                *)

\* A version of a model is stored; addOrUpdate is called next.
Deploy(m) ==
  /\ \E v \in Versions \ {deployed[m]} : deployed' = [deployed EXCEPT ![m] = v]
  /\ untold' = [untold EXCEPT ![m] = "addOrUpdate"]
  /\ call' = NoCall
  /\ UNCHANGED <<loading, loaded, serviceVars, missed>>

\* A model is deleted; remove is called next.
Delete(m) ==
  /\ deployed[m] # NoCronjobs
  /\ deployed' = [deployed EXCEPT ![m] = NoCronjobs]
  /\ untold' = [untold EXCEPT ![m] = "remove"]
  /\ call' = NoCall
  /\ UNCHANGED <<loading, loaded, serviceVars, missed>>

-----------------------------------------------------------------------------
(* Creating and stopping the timers of a model                             *)

\* getActiveCyclicTimerStartEventsForProcessModel
ActiveStartEvents(version) == {e \in StartEvents : version[e] # Off}

\* The start events whose crontab is valid; the others are skipped.
ValidTimers(version) == {e \in StartEvents : version[e] \in Crontabs}

\* createCronjobForProcessModel: the timers for a version of model m.
AllOrNone(m, version, id) ==
  {[model |-> m, event |-> e, cron |-> version[e], id |-> id] :
     e \in {x \in ValidTimers(version) : ValidTimers(version) = ActiveStartEvents(version)}}
NewTimers(m, version, id) ==
  {[model |-> m, event |-> e, cron |-> version[e], id |-> id] : e \in ValidTimers(version)}

\* stopCronjobsForProcessModel cancels the timers of all entries of the models.
KeepTimers(models) == {}
StoppedTimers(models) == UNION {dictionary[m] : m \in models}

-----------------------------------------------------------------------------
(* The operations                                                          *)

\* start, up to the await of getProcessModels.
Start(c) ==
  /\ ~isRunning /\ ~loading[c]
  /\ loading' = [loading EXCEPT ![c] = TRUE]
  /\ loaded' = [loaded EXCEPT ![c] = deployed]
  /\ missed' = IF \E d \in Callers : loading[d] THEN missed ELSE {}
  /\ call' = NoCall
  /\ UNCHANGED <<deployed, untold, serviceVars>>

\* ... and after it: the dictionary is filled for every model with cronjobs.
Started(c) ==
  LET models == {m \in Models : ActiveStartEvents(loaded[c][m]) # {}}
      New(m) == NewTimers(m, loaded[c][m], created + 1)
  IN
  /\ loading[c] /\ created < MaxCreations
  /\ loading' = [loading EXCEPT ![c] = FALSE]
  /\ dictionary' = [m \in Models |-> IF m \in models THEN New(m) ELSE dictionary[m]]
  /\ armed' = armed \cup UNION {New(m) : m \in models}
  /\ created' = created + 1
  /\ isRunning' = TRUE
  /\ call' = NoCall
  /\ UNCHANGED <<deployed, untold, loaded, missed>>

Stop ==
  /\ isRunning
  /\ armed' = armed \ StoppedTimers(Models)
  /\ dictionary' = [m \in Models |-> {}]
  /\ isRunning' = FALSE
  /\ call' = NoCall
  /\ UNCHANGED <<deployed, untold, loading, loaded, created, missed>>

\* addOrUpdate and remove return at once when the service is not running.
Ignored(m) ==
  /\ ~isRunning
  /\ missed' = IF \E c \in Callers : loading[c] THEN missed \cup {m} ELSE missed
  /\ UNCHANGED serviceVars

\* The timers that the model has, if any, are dropped.
Dropped(m) ==
  /\ isRunning
  /\ armed' = armed \ StoppedTimers({m})
  /\ dictionary' = [dictionary EXCEPT ![m] = {}]
  /\ missed' = missed \ {m}
  /\ UNCHANGED <<isRunning, created>>

\* They are stopped, and new ones are created.
Replaced(m) ==
  /\ isRunning /\ created < MaxCreations
  /\ LET new == NewTimers(m, deployed[m], created + 1) IN
       /\ armed' = (armed \ StoppedTimers({m})) \cup new
       /\ dictionary' = [dictionary EXCEPT ![m] = new]
  /\ created' = created + 1
  /\ missed' = missed \ {m}
  /\ UNCHANGED isRunning

AddOrUpdate(m) ==
  /\ untold[m] = "addOrUpdate"
  /\ untold' = [untold EXCEPT ![m] = "nothing"]
  /\ \/ Ignored(m)
     \/ ActiveStartEvents(deployed[m]) = {} /\ Dropped(m)
     \/ ActiveStartEvents(deployed[m]) # {} /\ Replaced(m)
  /\ call' = NoCall
  /\ UNCHANGED <<deployed, loading, loaded>>

Remove(m) ==
  /\ untold[m] = "remove"
  /\ untold' = [untold EXCEPT ![m] = "nothing"]
  /\ Ignored(m) \/ Dropped(m)
  /\ call' = NoCall
  /\ UNCHANGED <<deployed, loading, loaded>>

-----------------------------------------------------------------------------
(* A timer expires                                                         *)

\* executeProcessModelWithCronjob finds the first entry of the model with the
\* crontab that expired, and starts the process model with its start event.
\* Without such an entry the callback fails.
AllEvents(t) == {x.event : x \in dictionary[t.model]}
MatchingEvents(t) == {x.event : x \in {y \in dictionary[t.model] : y.cron = t.cron}}
First(events) == CHOOSE e \in events : \A f \in events : e <= f

Expire(t) ==
  /\ t \in armed
  /\ call' = IF MatchingEvents(t) = {} THEN [result |-> "failed"]
             ELSE [result |-> "start", model |-> t.model, event |-> First(MatchingEvents(t))]
  /\ UNCHANGED <<deployed, untold, loading, loaded, serviceVars, missed>>

-----------------------------------------------------------------------------
Next ==
  \/ \E m \in Models : Deploy(m) \/ Delete(m) \/ AddOrUpdate(m) \/ Remove(m)
  \/ \E c \in Callers : Start(c) \/ Started(c)
  \/ Stop
  \/ \E t \in armed : Expire(t)

Spec == Init /\ [][Next]_vars

-----------------------------------------------------------------------------
(* Properties                                                              *)

\* Every variable has its type.
TypeOK ==
  /\ deployed \in [Models -> Versions \cup {NoCronjobs}]
  /\ untold \in [Models -> {"nothing", "addOrUpdate", "remove"}]
  /\ loading \in [Callers -> BOOLEAN]
  /\ loaded \in [Callers -> [Models -> Versions \cup {NoCronjobs}]]
  /\ isRunning \in BOOLEAN
  /\ dictionary \in [Models -> SUBSET Timer]
  /\ armed \subseteq Timer
  /\ created \in 0 .. MaxCreations
  /\ missed \subseteq Models
  /\ call.result \in {"none", "start", "failed"}

\* The armed timers are those in the dictionary, each under its own model: none
\* is left behind when a model is updated or removed or the service is stopped
\* ("insurance against unintended executions"), and none is listed that is
\* cancelled.
TimersAreKnown ==
  /\ armed = UNION {dictionary[m] : m \in Models}
  /\ \A m \in Models : \A t \in dictionary[m] : t.model = m
  /\ ~isRunning => armed = {}

\* A start event is never served by two timers, which would start the process
\* model twice each time.
OneTimerPerStartEvent ==
  \A t, u \in armed : t.model = u.model /\ t.event = u.event => t = u

\* Once everybody has made the calls that follow a deployment, the timers that
\* run are those of the deployed versions.  (Not so for a change that came
\* while start was waiting for the models: it is ignored.)
RunsAsDeployed ==
  isRunning => \A m \in Models \ missed : untold[m] = "nothing" =>
    {<<t.event, t.cron>> : t \in {x \in armed : x.model = m}}
      = {<<e, deployed[m][e]>> : e \in ValidTimers(deployed[m])}

\* What an expired timer starts is a start event that is deployed with the
\* timer's crontab, and its own one unless the model has that crontab twice.
ExpiryStartsDeployedCronjob ==
  [][\A t \in armed : Expire(t) =>
       /\ call'.result = "start"
       /\ untold[t.model] = "nothing" /\ t.model \notin missed =>
            deployed[t.model][call'.event] = t.cron
       /\ (\A u \in armed : u.model = t.model /\ u.cron = t.cron => u = t) =>
            call'.event = t.event]_vars

=============================================================================
