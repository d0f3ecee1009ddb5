--------------------------- MODULE ConfigRollout ---------------------------
(***************************************************************************)
(* How a new configuration reaches a running bot: the config API           *)
(* (config/service.py, config/store.py), the event stream the bots'        *)
(* watchers read (config/watcher.py), the applier that waits for a safe    *)
(* moment (config/safety.py), the applied-config repository                *)
(* (config/repository.py) and the runtime's settings                       *)
(* (runtime/config_apply.py).                                              *)
(*                                                                         *)
(* API handlers interleave at every database and Redis call.  In a bot the *)
(* watcher and the flush loop are two tasks of one event loop; applying    *)
(* never yields between its checks and its effects, because the position   *)
(* store is in memory, so each is one step.                                *)
(*                                                                         *)
(* The stream and the consumer group are named without tenant or bot, so   *)
(* all bots of a deployment read them together.  A config is reduced to    *)
(* its bot, its version and its exchange.                                  *)
(***************************************************************************)
EXTENDS Naturals, FiniteSets, Sequences, FiniteSetsExt

CONSTANTS
  Bots,       (* every bot has a row in bot_configs and one runtime         *)
  Exchanges,
  First,      (* the exchange of every bot's configuration version 1        *)
  Handlers,   (* API requests being served at once                          *)
  Updates,    (* the configs operators send to /config/update               *)
  MaxVersion, (* bound on the versions of a bot                             *)
  Failures,   (* may publishing fail?                                       *)
  Restarts    (* may a runtime stop and be started again?                   *)

Configs == [bot : Bots, version : 1..MaxVersion, exchange : Exchanges]

ASSUME ConstantsAssumption ==
  /\ MaxVersion \in Nat \ {0}
  /\ First \in Exchanges
  /\ Updates \subseteq Configs
  /\ {Failures, Restarts} \subseteq BOOLEAN

None == [version |-> 0]   (* no config *)

VARIABLES
  stored,    (* the table bot_configs                                       *)
  doing,     (* what each handler does: idle, storing or publishing         *)
  request,   (* the config it does it with                                  *)
  stream,    (* events:config, from the group's position on                 *)
  inbox,     (* the events a watcher was handed and has not handled         *)
  last,      (* _last_version of a runtime's watcher, per bot               *)
  pending,   (* _pending of its SafeConfigApplier                           *)
  repo,      (* what its ConfigRepository was given, oldest first: for each *)
             (* bot the last one is the current one                         *)
  running,   (* the config its runtime.config was set from                  *)
  worker,    (* the exchange its execution worker's manager was built for   *)
  paused,    (* its trading_paused                                          *)
  flat,      (* has it no open position?                                    *)
  taken      (* history: the configs its watcher accepted since the start   *)

api == <<stored, doing, request>>
runtime == <<last, pending, repo, running, worker, taken>>
vars == <<api, stream, inbox, runtime, paused, flat>>

TypeOK ==
  /\ stored \subseteq Configs
  /\ doing \in [Handlers -> {"idle", "storing", "publishing"}]
  /\ request \in [Handlers -> Configs \cup {None}]
  /\ stream \in Seq(Configs)
  /\ inbox \in [Bots -> Seq(Configs)]
  /\ last \in [Bots -> [Bots -> 0..MaxVersion]]
  /\ pending \in [Bots -> Seq(Configs)]
  /\ repo \in [Bots -> Seq(Configs)]
  /\ running \in [Bots -> Configs]
  /\ worker \in [Bots -> Exchanges]
  /\ paused \in [Bots -> BOOLEAN] /\ flat \in [Bots -> BOOLEAN]
  /\ taken \in [Bots -> SUBSET Configs]

Elements(s) == {s[i] : i \in DOMAIN s}

Initially(b) == [bot |-> b, version |-> 1, exchange |-> First]

Init ==
  /\ stored = {Initially(b) : b \in Bots}
  /\ doing = [h \in Handlers |-> "idle"]
  /\ request = [h \in Handlers |-> None]
  /\ stream = <<>>
  /\ inbox = [b \in Bots |-> <<>>]
  /\ last = [b \in Bots |-> [k \in Bots |-> 0]]
  /\ pending = [b \in Bots |-> <<>>]
  /\ repo = [b \in Bots |-> <<>>]
  /\ running = [b \in Bots |-> Initially(b)]
  /\ worker = [b \in Bots |-> First]
  /\ paused = [b \in Bots |-> FALSE]
  /\ flat \in [Bots -> BOOLEAN]
  /\ taken = [b \in Bots |-> {}]

-----------------------------------------------------------------------------
(* The API.  Each handler reads, then inserts, then publishes. *)

get_latest(b) == Max({c.version : c \in {d \in stored : d.bot = b}})

Request(h, c) ==
  /\ doing[h] = "idle"
  /\ doing' = [doing EXCEPT ![h] = "storing"]
  /\ request' = [request EXCEPT ![h] = c]
  /\ UNCHANGED <<stored, stream, inbox, runtime, paused, flat>>

(* Anything not newer than the latest is answered 409. *)
Update(h, c) == c.version > get_latest(c.bot) /\ Request(h, c)

(* Mutant: the restored config is numbered below its own first number. *)
RollbackCountsDown(h, target) == Request(h, [target EXCEPT !.version = @ - 1])

Rollback(h, target) ==
  \E next \in 1..MaxVersion :
    /\ next = get_latest(target.bot) + 1
    /\ Request(h, [target EXCEPT !.version = next])

(* Mutant: the row of a version that is already there is left, and the     *)
(* handler goes on to publish its own config.                              *)
upsertIgnoringConflicts(h) ==
  /\ stored' = IF \E c \in stored : c.bot = request[h].bot /\ c.version = request[h].version
                 THEN stored ELSE stored \cup {request[h]}
  /\ doing' = [doing EXCEPT ![h] = "publishing"]
  /\ UNCHANGED request

(* An INSERT: a second row with the same bot and version violates the      *)
(* primary key and the request ends with the error.                        *)
upsert(h) ==
  IF \E c \in stored : c.bot = request[h].bot /\ c.version = request[h].version
    THEN /\ doing' = [doing EXCEPT ![h] = "idle"]
         /\ request' = [request EXCEPT ![h] = None]
         /\ UNCHANGED stored
    ELSE /\ stored' = stored \cup {request[h]}
         /\ doing' = [doing EXCEPT ![h] = "publishing"]
         /\ UNCHANGED request

Store(h) ==
  /\ doing[h] = "storing"
  /\ upsert(h)
  /\ UNCHANGED <<stream, inbox, runtime, paused, flat>>

(* When Redis fails, the row stays and no event is sent. *)
Publish(h) ==
  /\ doing[h] = "publishing"
  /\ \/ stream' = Append(stream, request[h])
     \/ Failures /\ UNCHANGED stream
  /\ doing' = [doing EXCEPT ![h] = "idle"]
  /\ request' = [request EXCEPT ![h] = None]
  /\ UNCHANGED <<stored, inbox, runtime, paused, flat>>

-----------------------------------------------------------------------------
(* A runtime. *)

(* Redis hands the new entries (up to ten, more than the bound lets wait)  *)
(* to whichever watcher of the group asks.                                 *)
Read(b) ==
  /\ inbox[b] = <<>> /\ stream # <<>>
  /\ inbox' = [inbox EXCEPT ![b] = stream]
  /\ stream' = <<>>
  /\ UNCHANGED <<api, runtime, paused, flat>>

Safe(b) == paused[b] /\ flat[b]

(* RuntimeConfigApplier.apply and repository.apply for the configs of s in *)
(* turn: the settings are those of the last one.  A new execution manager  *)
(* is built for the action handler, not for the execution worker.          *)
Apply(b, s) ==
  /\ running' = [running EXCEPT ![b] = s[Len(s)]]
  /\ repo' = [repo EXCEPT ![b] = @ \o s]
  /\ UNCHANGED worker

(* A config that is not newer than the last one applied is ignored; one    *)
(* that meets an unsafe moment waits, and does not count as applied.       *)
Handle(b) ==
  LET c == Head(inbox[b]) IN
  /\ inbox[b] # <<>>
  /\ inbox' = [inbox EXCEPT ![b] = Tail(inbox[b])]
  /\ \/ /\ c.version <= last[b][c.bot]
        /\ UNCHANGED runtime
     \/ /\ c.version > last[b][c.bot] /\ Safe(b)
        /\ Apply(b, <<c>>)
        /\ last' = [last EXCEPT ![b][c.bot] = c.version]
        /\ taken' = [taken EXCEPT ![b] = @ \cup {c}]
        /\ UNCHANGED pending
     \/ /\ c.version > last[b][c.bot] /\ ~Safe(b)
        /\ pending' = [pending EXCEPT ![b] = Append(@, c)]
        /\ taken' = [taken EXCEPT ![b] = @ \cup {c}]
        /\ UNCHANGED <<last, repo, running, worker>>
  /\ UNCHANGED <<api, stream, paused, flat>>

(* Mutant: the list is cleared before the positions are looked at. *)
FlushClearsFirst(b) ==
  /\ pending[b] # <<>> /\ paused[b]
  /\ IF flat[b] THEN Apply(b, pending[b]) ELSE UNCHANGED <<repo, running, worker>>
  /\ pending' = [pending EXCEPT ![b] = <<>>]
  /\ UNCHANGED <<last, taken, api, stream, inbox, paused, flat>>

(* Mutant: the flush waits for trading to go on, not for the pause. *)
FlushNeedsTrading(b) ==
  /\ pending[b] # <<>> /\ ~paused[b] /\ flat[b]
  /\ Apply(b, pending[b])
  /\ pending' = [pending EXCEPT ![b] = <<>>]
  /\ UNCHANGED <<last, taken, api, stream, inbox, paused, flat>>

(* flush_if_safe, in the order the configs arrived.  _last_version stays. *)
Flush(b) ==
  /\ pending[b] # <<>> /\ Safe(b)
  /\ Apply(b, pending[b])
  /\ pending' = [pending EXCEPT ![b] = <<>>]
  /\ UNCHANGED <<last, taken, api, stream, inbox, paused, flat>>

(* PAUSE.  Only a restart ends a pause: RESUME is refused under one (see   *)
(* ControlPlane).                                                          *)
Pause(b) ==
  /\ ~paused[b]
  /\ paused' = [paused EXCEPT ![b] = TRUE]
  /\ UNCHANGED <<api, stream, inbox, runtime, flat>>

(* Positions open and close.  No worker asks trading_paused before an      *)
(* order, so they also open in a pause.                                    *)
Trade(b) ==
  /\ flat' = [flat EXCEPT ![b] = ~@]
  /\ UNCHANGED <<api, stream, inbox, runtime, paused>>

(* The launcher takes the settings from some stored version of the bot.    *)
(* What the watcher was handed and the applier held is gone: the group     *)
(* never delivers an entry again to a reader that asks for new ones.       *)
Restart(b) ==
  /\ Restarts
  /\ \E c \in {d \in stored : d.bot = b} :
       /\ running' = [running EXCEPT ![b] = c]
       /\ worker' = [worker EXCEPT ![b] = c.exchange]
  /\ inbox' = [inbox EXCEPT ![b] = <<>>]
  /\ last' = [last EXCEPT ![b] = [k \in Bots |-> 0]]
  /\ pending' = [pending EXCEPT ![b] = <<>>]
  /\ repo' = [repo EXCEPT ![b] = <<>>]
  /\ paused' = [paused EXCEPT ![b] = FALSE]
  /\ taken' = [taken EXCEPT ![b] = {}]
  /\ UNCHANGED <<api, stream, flat>>

API ==
  \E h \in Handlers :
    \/ \E c \in Updates : Update(h, c)
    \/ \E c \in stored : Rollback(h, c)
    \/ Store(h) \/ Publish(h)

Runtime(b) == Read(b) \/ Handle(b) \/ Flush(b)

Next ==
  \/ API
  \/ \E b \in Bots : Runtime(b) \/ Pause(b) \/ Trade(b) \/ Restart(b)

Spec == Init /\ [][Next]_vars

(* The watcher and the flush loop of every bot keep running. *)
LiveSpec == Spec /\ \A b \in Bots : WF_vars(Handle(b)) /\ WF_vars(Flush(b))

-----------------------------------------------------------------------------
(* Properties. *)

(* Whatever races over a version number, a config a handler publishes or a *)
(* runtime holds, waits with or runs is the row stored for that version,   *)
(* and no version has two rows.                                            *)
OneRowPerVersion ==
  \A c, d \in stored : c.bot = d.bot /\ c.version = d.version => c = d

Published ==
  {request[h] : h \in {g \in Handlers : doing[g] = "publishing"}}
    \cup Elements(stream) \cup {running[b] : b \in Bots}
    \cup UNION {Elements(inbox[b]) \cup Elements(pending[b]) \cup Elements(repo[b]) : b \in Bots}

PublishedIsStored == OneRowPerVersion /\ Published \subseteq stored

(* A config a watcher accepted is waiting or has been applied: neither     *)
(* positions that open in a pause, nor newer events, nor the flush loop's  *)
(* working through the list make it vanish while the process lives.        *)
NothingForgotten ==
  \A b \in Bots : taken[b] \subseteq Elements(pending[b]) \cup Elements(repo[b])

(* A bot that stays paused and flat ends up with no config waiting.        *)
PendingIsApplied ==
  \A b \in Bots : <>[](Safe(b)) => <>[](pending[b] = <<>>)
=============================================================================
