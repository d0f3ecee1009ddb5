----------------------------- MODULE KillSwitch -----------------------------
(***************************************************************************)
(* The persistent kill switch: PersistentKillSwitch and its Redis store    *)
(* (core/risk/kill_switch_store.py), the start-up check and the refresh    *)
(* loop of the runtime (runtime/app.py) and the dashboard's endpoints,     *)
(* which write the same Redis key (api/quant_endpoints.py).                *)
(*                                                                         *)
(* Workers ask is_active(), which answers from a cache.  Every read and    *)
(* write of the key is an await: the request, the moment Redis serves it   *)
(* and the moment the coroutine goes on are three steps.  Redis commands   *)
(* in flight use different pool connections, so Redis may serve them in    *)
(* any order.                                                              *)
(*                                                                         *)
(* Messages, timestamps, the history list and the alerts are left out.     *)
(* The specification's own names begin with "Switch", so that a module can *)
(* extend it together with ControlPlane.                                   *)
(***************************************************************************)
EXTENDS Naturals

CONSTANTS
  Triggers,        (* KillSwitchTrigger                                     *)
  WorkerTriggers,  (* the ones workers of the runtime raise                 *)
  Drawdown,        (* EQUITY_DRAWDOWN                                       *)
  Manual,          (* MANUAL: raised at shutdown, and by the operator       *)
  RedisFails,      (* may a Redis command fail?                             *)
  Crashes          (* may the runtime stop and start again?                 *)

ASSUME SwitchAssumption ==
  /\ WorkerTriggers \subseteq Triggers
  /\ Drawdown \in Triggers /\ Manual \in Triggers
  /\ {RedisFails, Crashes} \subseteq BOOLEAN

(* KillSwitchState, as JSON and as dataclass. *)
State == [active : BOOLEAN, by : SUBSET Triggers]
Clear == [active |-> FALSE, by |-> {}]

Loaders == {"startup", "refresh"} \cup Triggers
Savers == {"sanity"} \cup Triggers

VARIABLES
  store,       (* the Redis key; a missing key reads as Clear               *)
  phase,       (* of the runtime: down, starting, checking, resetting,      *)
               (* running                                                   *)
  cache,       (* PersistentKillSwitch._state                               *)
  initialized, (* PersistentKillSwitch._initialized                         *)
  load,        (* what each caller of load_state waits for: idle, asked,    *)
  answer,      (* or answered, and the answer                               *)
  saving,      (* save_state calls on their way to Redis                    *)
  endpoint,    (* the trigger endpoint: idle, or read,                      *)
  seen,        (* and the state it read                                     *)
  owed         (* ghost: triggers stored since the last reset was stored    *)

runtime == <<phase, cache, initialized, load, answer>>
api == <<endpoint, seen>>
switchVars == <<store, runtime, saving, api, owed>>

SwitchTypeOK ==
  /\ store \in State
  /\ phase \in {"down", "starting", "checking", "resetting", "running"}
  /\ cache \in State
  /\ initialized \in BOOLEAN
  /\ load \in [Loaders -> {"idle", "asked", "answered"}]
  /\ answer \in [Loaders -> State]
  /\ saving \subseteq [who : Savers, state : State]
  /\ endpoint \in {"idle", "read"}
  /\ seen \in State
  /\ owed \in SUBSET Triggers

SwitchInit ==
  /\ store = Clear
  /\ phase = "down"
  /\ cache = Clear
  /\ initialized = FALSE
  /\ load = [l \in Loaders |-> "idle"]
  /\ answer = [l \in Loaders |-> Clear]
  /\ saving = {}
  /\ endpoint = "idle"
  /\ seen = Clear
  /\ owed = {}

-----------------------------------------------------------------------------
(* What trigger() makes of a state, and the question the workers ask. *)

(* Mutant: only the name is recorded when the switch was not active. *)
NameOnly(s, t) == [active |-> s.active, by |-> s.by \cup {t}]

(* Mutant: the state is rebuilt without triggered_by. *)
NamesDropped(s, t) == [active |-> TRUE]

Triggered(s, t) == [active |-> TRUE, by |-> s.by \cup {t}]

is_active == initialized /\ cache.active

-----------------------------------------------------------------------------
(* Redis (external). *)

Ask(l) == load' = [load EXCEPT ![l] = "asked"]

(* The caller goes on with the answer, or with an exception. *)
GoOn(l) ==
  /\ load' = [load EXCEPT ![l] = "idle"]
  /\ answer' = [answer EXCEPT ![l] = Clear]

Answer(l) ==
  /\ load[l] = "asked"
  /\ load' = [load EXCEPT ![l] = "answered"]
  /\ answer' = [answer EXCEPT ![l] = store]
  /\ UNCHANGED <<store, phase, cache, initialized, saving, api, owed>>

(* Redis applies a save.  The ghost records what the history list records. *)
Land(s) ==
  /\ s \in saving
  /\ saving' = saving \ {s}
  /\ store' = s.state
  /\ IF s.who = "sanity"
       THEN /\ owed' = {}
            /\ phase' = IF phase = "resetting" THEN "running" ELSE phase
       ELSE owed' = owed \cup {s.who} /\ UNCHANGED phase
  /\ UNCHANGED <<cache, initialized, load, answer, api>>

(* A save that raises: every caller catches, and none of them retries. *)
FailSave(s) ==
  /\ RedisFails
  /\ s \in saving
  /\ saving' = saving \ {s}
  /\ phase' = IF s.who = "sanity" /\ phase = "resetting" THEN "running" ELSE phase
  /\ UNCHANGED <<store, cache, initialized, load, answer, api, owed>>

-----------------------------------------------------------------------------
(* The runtime starts and stops. *)

Start ==
  /\ phase = "down"
  /\ phase' = "starting"
  /\ Ask("startup")
  /\ UNCHANGED <<store, cache, initialized, answer, saving, api, owed>>

(* The start-up check wants a drawdown-only switch; flat is its view of    *)
(* positions, orders and equity.  It then awaits the risk snapshot.        *)
DrawdownOnly(s) == s.active /\ s.by # {} /\ s.by \subseteq {Drawdown}

Started(flat) ==
  /\ phase = "starting" /\ load["startup"] = "answered"
  /\ cache' = answer["startup"]
  /\ initialized' = TRUE
  /\ phase' = IF DrawdownOnly(cache') /\ flat THEN "checking" ELSE "running"
  /\ GoOn("startup")
  /\ UNCHANGED <<store, saving, api, owed>>

(* initialize() raises: start() logs it and goes on. *)
StartedBlind ==
  /\ RedisFails
  /\ phase = "starting" /\ load["startup"] # "idle"
  /\ phase' = "running"
  /\ GoOn("startup")
  /\ UNCHANGED <<store, cache, initialized, saving, api, owed>>

(* The risk snapshot is back and shows the equity recovered, or not. *)
SanityReset ==
  /\ phase = "checking"
  /\ \/ /\ phase' = "resetting"
        /\ cache' = Clear
        /\ saving' = saving \cup {[who |-> "sanity", state |-> Clear]}
     \/ phase' = "running" /\ UNCHANGED <<cache, saving>>
  /\ UNCHANGED <<store, initialized, load, answer, api, owed>>

(* The process is gone; what it sent may still reach Redis. *)
Stop ==
  /\ Crashes
  /\ phase # "down"
  /\ phase' = "down"
  /\ cache' = Clear
  /\ initialized' = FALSE
  /\ load' = [l \in Loaders |-> "idle"]
  /\ answer' = [l \in Loaders |-> Clear]
  /\ UNCHANGED <<store, saving, api, owed>>

-----------------------------------------------------------------------------
(* trigger() *)

(* Under trigger(): mutate the state, then hand its JSON to Redis. *)
TriggerOn(s, t) ==
  /\ cache' = Triggered(s, t)
  /\ initialized' = TRUE
  /\ saving' = saving \cup {[who |-> t, state |-> cache']}

(* Workers do not trigger a switch they see active; shutdown() does.  The  *)
(* caller awaits its save before it may trigger again.                     *)
Trigger(t) ==
  /\ phase = "running" /\ load[t] = "idle" /\ ~\E s \in saving : s.who = t
  /\ t = Manual \/ (t \in WorkerTriggers /\ ~is_active)
  /\ IF initialized
       THEN TriggerOn(cache, t) /\ UNCHANGED load
       ELSE Ask(t) /\ UNCHANGED <<cache, initialized, saving>>
  /\ UNCHANGED <<store, phase, answer, api, owed>>

TriggerInitialized(t) ==
  /\ load[t] = "answered"
  /\ TriggerOn(answer[t], t)
  /\ GoOn(t)
  /\ UNCHANGED <<store, phase, api, owed>>

(* The load raises before anything is recorded: the worker logs it. *)
TriggerFails(t) ==
  /\ RedisFails
  /\ load[t] # "idle"
  /\ GoOn(t)
  /\ UNCHANGED <<store, phase, cache, initialized, saving, api, owed>>

-----------------------------------------------------------------------------
(* _kill_switch_refresh_loop *)

Refresh ==
  /\ phase = "running" /\ load["refresh"] = "idle"
  /\ Ask("refresh")
  /\ UNCHANGED <<store, phase, cache, initialized, answer, saving, api, owed>>

(* Mutant: an activation is taken over, a reset from elsewhere is not. *)
RefreshedUpwards ==
  /\ load["refresh"] = "answered"
  /\ cache' = IF answer["refresh"].active THEN answer["refresh"] ELSE cache
  /\ initialized' = TRUE
  /\ GoOn("refresh")
  /\ UNCHANGED <<store, phase, saving, api, owed>>

Refreshed ==
  /\ load["refresh"] = "answered"
  /\ cache' = answer["refresh"]
  /\ initialized' = TRUE
  /\ GoOn("refresh")
  /\ UNCHANGED <<store, phase, saving, api, owed>>

RefreshFails ==
  /\ RedisFails
  /\ load["refresh"] # "idle"
  /\ GoOn("refresh")
  /\ UNCHANGED <<store, phase, cache, initialized, saving, api, owed>>

-----------------------------------------------------------------------------
(* The dashboard's endpoints: read, modify, write; and write. *)

EndpointRead ==
  /\ endpoint = "idle"
  /\ endpoint' = "read"
  /\ seen' = store
  /\ UNCHANGED <<store, runtime, saving, owed>>

EndpointTrigger ==
  /\ endpoint = "read"
  /\ endpoint' = "idle"
  /\ seen' = Clear
  /\ store' = Triggered(seen, Manual)
  /\ owed' = owed \cup {Manual}
  /\ UNCHANGED <<runtime, saving>>

EndpointReset ==
  /\ store' = Clear
  /\ owed' = {}
  /\ UNCHANGED <<runtime, saving, api>>

-----------------------------------------------------------------------------
Redis == (\E l \in Loaders : Answer(l)) \/ (\E s \in saving : Land(s) \/ FailSave(s))

Worker(t) == Trigger(t) \/ TriggerInitialized(t) \/ TriggerFails(t)

Lifetime == Start \/ (\E flat \in BOOLEAN : Started(flat)) \/ StartedBlind \/ SanityReset \/ Stop

RefreshLoop == Refresh \/ Refreshed \/ RefreshFails

Endpoints == EndpointRead \/ EndpointTrigger \/ EndpointReset

SwitchNext == Redis \/ Lifetime \/ (\E t \in Triggers : Worker(t)) \/ RefreshLoop \/ Endpoints

SwitchSpec == SwitchInit /\ [][SwitchNext]_switchVars

(* The runtime comes up and its refresh loop keeps turning.  Redis may     *)
(* fail any call, but neither every refresh nor every save for ever.       *)
SwitchLiveSpec ==
  /\ SwitchSpec
  /\ WF_switchVars(Start) /\ WF_switchVars(SanityReset)
  /\ WF_switchVars(\E flat \in BOOLEAN : Started(flat))
  /\ WF_switchVars(Refresh) /\ SF_switchVars(Answer("refresh")) /\ SF_switchVars(Refreshed)
  /\ WF_switchVars(Answer("startup"))
  /\ SF_switchVars(\E s \in saving : Land(s))

-----------------------------------------------------------------------------
(* Properties. *)

(* A trigger that reached Redis keeps the switch active there until a      *)
(* reset reaches Redis, however the runtime, its restarts and the          *)
(* dashboard read, modify and write the key over one another.              *)
StoreRemembers == owed # {} => store.active

(* The cache every worker asks ends up saying what Redis says, both ways:  *)
(* an operator's trigger blocks a running bot, and a reset releases it.    *)
(* The refresh loop's answers race triggers and saves, saves and loads     *)
(* fail, and the bot may have come up without its first load; it only has  *)
(* to stay up in the end.                                                  *)
CacheConverges ==
  \A b \in BOOLEAN :
    <>[](store.active = b /\ phase # "down") => <>[](is_active = b)
=============================================================================
