--------------------------- MODULE ExecutionIntake ---------------------------
(***************************************************************************)
(* The execution worker's way from an accepted risk decision to an order   *)
(* (execution/execution_worker.py), for entries at market: the age limit,  *)
(* the throttle and the position gate, the lookup of the intent, the claim *)
(* of the client order id in Redis with its audit table                    *)
(* (execution/idempotency_store.py), the rows of order_intents             *)
(* (storage/postgres.py), the sends, retries and polls, and what happens   *)
(* around them: the stream, the exchange, the loops that expire and sync   *)
(* intents, a crash, and the start-up that replays claims and recovers     *)
(* pending intents (runtime/app.py).                                       *)
(*                                                                         *)
(* A decision stands for its client order id, a hash of bot, decision,     *)
(* symbol, side and size.  Every await of the handler ends a step.  Exits, *)
(* replacements and the maker path are not in this module.                 *)
(***************************************************************************)
EXTENDS Integers, Sequences, FiniteSets

CONSTANTS
  Decisions,
  None,         (* no decision                                             *)
  Symbol,       (* the symbol of each decision                             *)
  MaxAge,       (* max_decision_age_sec                                    *)
  MinInterval,  (* min_order_interval_sec                                  *)
  ClaimTtl,     (* IdempotencyConfig.ttl_sec                               *)
  IntentTtl,    (* INTENT_TTL_SEC of the expiry loop                       *)
  HandlingTime, (* the longest the handler takes from read to claim        *)
  MaxTries,     (* sends of one execution, 1 + max_retries                 *)
  MaxPolls,     (* status_poll_attempts                                    *)
  StoresFail,   (* may a read of Redis, Postgres or positions raise?       *)
  AuditFails,   (* may a write of the audit table raise?                   *)
  RedisLoses,   (* may Redis lose its keys?                                *)
  Parts,        (* may an order be executed in part?                       *)
  AutoHeal,     (* RECONCILIATION_AUTO_HEAL                                *)
  MaxCopies,    (* bound: copies of each event in the stream               *)
  MaxCrashes,   (* bound: times the process stops                          *)
  Horizon       (* bound: the last instant of the clock                    *)

ASSUME ConstantsAssumption ==
  /\ None \notin Decisions
  /\ {MaxAge, MinInterval, ClaimTtl, IntentTtl, HandlingTime, MaxTries,
      MaxPolls, MaxCrashes, Horizon} \subseteq Nat
  /\ MaxCopies \in [Decisions -> Nat]
  /\ {StoresFail, AuditFails, RedisLoses, Parts, AutoHeal} \subseteq BOOLEAN

(* A claim outlives every copy that could still pass the age limit: with   *)
(* the defaults, 60 seconds and the time of one handler against 300.       *)
ASSUME ClaimOutlivesDecision == MaxAge + HandlingTime < ClaimTtl

(* What the lookup of an intent, and what the start-up and the expiry loop *)
(* take as not decided yet; the statuses of an order that lives, and ends. *)
(* "open" stands for "partially_filled" too: what is past "pending".       *)
Underway == {"created", "submitted"}
Pending == Underway \cup {"pending"}
Live == {"pending", "open"}
Final == {"filled", "canceled", "rejected", "expired"}
Never == 0 - MinInterval
Symbols == {Symbol[d] : d \in Decisions}

VARIABLES
  now,       (* the clock                                                  *)
  copies,    (* of each decision, how often its event was published        *)
  stamp,     (* the timestamp the event carries                            *)
  stream,    (* the events no consumer has read                            *)
  pc,        (* where the handler, or the start-up, stands                 *)
  cur,       (* the decision it handles                                    *)
  begun,     (* when it was read                                           *)
  tries,     (* sends, then polls, so far                                  *)
  reply,     (* the answer of the exchange it waits for                    *)
  lastOrder, (* _last_order_time, by symbol                                *)
  todo,      (* the pending intents the start-up still has to recover      *)
  claim,     (* the Redis key of each decision: when it lapses, 0 if none  *)
  audit,     (* idempotency_audit: the newest row                          *)
  granted,   (* idempotency_audit: when the newest claimed row lapses      *)
  intent,    (* order_intents.status                                       *)
  bornAt,    (* order_intents.created_at                                   *)
  ledger,    (* the order store: the status of the record by order id      *)
  heard,     (* the ended records that the websocket was the last to write *)
  presumed,  (* decisions with a record by client id: a rejection          *)
  positions, (* decisions whose fill is an open position of the bot        *)
  wire,      (* the order requests on their way to the exchange            *)
  order,     (* the order at the exchange                                  *)
  traded,    (* the orders that are executed, or a part of them            *)
  held,      (* the executions that are an open position at the exchange   *)
  crashes,   (* times the process stopped                                  *)
  runs,      (* ghost: executions begun, by decision                       *)
  reliable   (* ghost: no claim was lost, or passed over, so far           *)

source == <<now, copies, stamp, stream>>
worker == <<pc, cur, begun, tries, reply, lastOrder, todo, positions>>
claims == <<claim, audit, granted>>
intents == <<intent, bornAt>>
records == <<ledger, heard, presumed>>
rows == <<intents, records>>
exchange == <<wire, order, traded, held>>
ghosts == <<runs, reliable>>
vars == <<source, worker, claims, rows, exchange, crashes, ghosts>>

BeforeClaim == {"gate", "lookup", "claim"}
Claiming == {"refused", "claimed", "record"}
Executing == {"send", "wait", "poll"}
Times == 0 .. Horizon

SourceTypes ==
  /\ now \in Times
  /\ copies \in [Decisions -> Nat]
  /\ \A d \in Decisions : copies[d] <= MaxCopies[d]
  /\ stamp \in [Decisions -> Times]
  /\ stream \in Seq(Decisions)

HandlerTypes ==
  /\ pc \in {"down", "recover", "idle"} \cup BeforeClaim \cup Claiming \cup Executing
  /\ cur \in Decisions \cup {None}
  /\ begun \in Times
  /\ tries \in Nat
  /\ reply \in {"none", "pending", "open", "filled", "rejected"}

MemoryTypes ==
  /\ lastOrder \in [Symbols -> Times \cup {Never}]
  /\ todo \subseteq Decisions
  /\ positions \subseteq Decisions

ClaimTypes ==
  /\ claim \in [Decisions -> Nat]
  /\ audit \in [Decisions -> [status : {"none", "claimed", "duplicate"}, until : Nat]]
  /\ granted \in [Decisions -> Nat]

RowTypes ==
  /\ intent \in [Decisions -> {"none", "failed"} \cup Underway \cup Live \cup Final]
  /\ bornAt \in [Decisions -> Times]
  /\ ledger \in [Decisions -> {"none"} \cup Live \cup Final]
  /\ heard \subseteq Decisions
  /\ presumed \subseteq Decisions

ExchangeTypes ==
  /\ wire \subseteq Decisions
  /\ order \in [Decisions -> {"none", "open"} \cup Final]
  /\ traded \subseteq Decisions
  /\ held \subseteq Decisions

TypeOK ==
  /\ SourceTypes /\ HandlerTypes /\ MemoryTypes
  /\ ClaimTypes /\ RowTypes /\ ExchangeTypes
  /\ crashes \in 0 .. MaxCrashes
  /\ runs \in [Decisions -> Nat]
  /\ reliable \in BOOLEAN

Init ==
  /\ now = 0
  /\ copies = [d \in Decisions |-> 0]
  /\ stamp = [d \in Decisions |-> 0]
  /\ stream = <<>>
  /\ pc = "idle"
  /\ cur = None
  /\ begun = 0
  /\ tries = 0
  /\ reply = "none"
  /\ lastOrder = [s \in Symbols |-> Never]
  /\ todo = {}
  /\ claim = [d \in Decisions |-> 0]
  /\ audit = [d \in Decisions |-> [status |-> "none", until |-> 0]]
  /\ granted = [d \in Decisions |-> 0]
  /\ intent = [d \in Decisions |-> "none"]
  /\ bornAt = [d \in Decisions |-> 0]
  /\ ledger = [d \in Decisions |-> "none"]
  /\ heard = {}
  /\ presumed = {}
  /\ positions = {}
  /\ wire = {}
  /\ order = [d \in Decisions |-> "none"]
  /\ traded = {}
  /\ held = {}
  /\ crashes = 0
  /\ runs = [d \in Decisions |-> 0]
  /\ reliable = TRUE

-----------------------------------------------------------------------------
(* The clock, the risk worker's stream and the exchange (external). *)

Tick ==
  /\ now < Horizon
  /\ pc \in BeforeClaim => now < begun + HandlingTime
  /\ now' = now + 1
  /\ UNCHANGED <<copies, stamp, stream, worker, claims, rows, exchange, crashes, ghosts>>

(* A publish that is repeated carries the event id and timestamp it had. *)
Publish(d) ==
  /\ copies[d] < MaxCopies[d]
  /\ copies' = [copies EXCEPT ![d] = @ + 1]
  /\ stamp' = IF copies[d] = 0 THEN [stamp EXCEPT ![d] = now] ELSE stamp
  /\ stream' = Append(stream, d)
  /\ UNCHANGED <<now, worker, claims, rows, exchange, crashes, ghosts>>

(* An execution: its size is part of the position at the exchange. *)
Trade(d) == traded' = traded \cup {d} /\ held' = held \cup {d}

(* A client order id the exchange has seen is refused. *)
Serve(d) ==
  /\ d \in wire
  /\ wire' = wire \ {d}
  /\ \E outcome \in IF order[d] = "none" THEN {"open", "filled", "rejected"}
                                         ELSE {"rejected"} :
       /\ order' = [order EXCEPT ![d] = IF outcome = "rejected" THEN @ ELSE outcome]
       /\ IF outcome = "filled" THEN Trade(d) ELSE UNCHANGED <<traded, held>>
       /\ IF pc = "wait" /\ cur = d /\ reply = "none"
            THEN reply' \in IF outcome = "open" THEN {"open", "pending"} ELSE {outcome}
            ELSE UNCHANGED reply
  /\ UNCHANGED <<source, pc, cur, begun, tries, lastOrder, todo, positions,
                 claims, rows, crashes, ghosts>>

Settle(d) ==
  /\ order[d] = "open"
  /\ \E outcome \in {"filled", "canceled"} :
       /\ order' = [order EXCEPT ![d] = outcome]
       /\ IF outcome = "filled" THEN Trade(d) ELSE UNCHANGED <<traded, held>>
  /\ UNCHANGED <<source, worker, claims, rows, wire, crashes, ghosts>>

(* A part of it is executed; the rest may still be canceled. *)
Execute(d) ==
  /\ Parts
  /\ order[d] = "open"
  /\ d \notin traded
  /\ Trade(d)
  /\ UNCHANGED <<source, worker, claims, rows, wire, order, crashes, ghosts>>

(* An exit closes a position the bot knows of. *)
Close(d) ==
  /\ d \in held \cap positions
  /\ held' = held \ {d}
  /\ positions' = positions \ {d}
  /\ UNCHANGED <<source, pc, cur, begun, tries, reply, lastOrder, todo,
                 claims, rows, wire, order, traded, crashes, ghosts>>

(* The key in Redis, set with ex=ttl. *)
KeyLives(d) == claim[d] > now

RedisLoss ==
  /\ RedisLoses
  /\ \E d \in Decisions : KeyLives(d)
  /\ claim' = [d \in Decisions |-> 0]
  /\ reliable' = FALSE
  /\ UNCHANGED <<source, worker, audit, granted, rows, exchange, crashes, runs>>

-----------------------------------------------------------------------------
(* The claim of a client order id. *)

(* is_claimed reads the newest row, a duplicate's row included. *)
is_claimed(d) == audit[d].status = "claimed" /\ audit[d].until >= now

(* SET NX EX *)
SetKey(d) == ~KeyLives(d) /\ claim' = [claim EXCEPT ![d] = now + ClaimTtl]

write_audit(d, status) ==
  /\ audit' = [audit EXCEPT ![d] = [status |-> status, until |-> now + ClaimTtl]]
  /\ granted' = IF status = "claimed" THEN [granted EXCEPT ![d] = now + ClaimTtl]
                                      ELSE granted

-----------------------------------------------------------------------------
(* The handler, up to the execution. *)

(* The handler returns, and its local variables are gone. *)
Drop == pc' = "idle" /\ cur' = None /\ begun' = 0 /\ tries' = 0

(* Mutant: no age limit. *)
AnyAge(d) == FALSE

TooOld(d) == now - stamp[d] > MaxAge

Throttled(s) == now - lastOrder[s] < MinInterval

(* The checks before the first await that can change the answer: a dropped *)
(* event is acknowledged and gone.                                         *)
Read ==
  /\ pc = "idle"
  /\ stream # <<>>
  /\ stream' = Tail(stream)
  /\ LET d == Head(stream) IN
       IF TooOld(d) \/ Throttled(Symbol[d])
         THEN UNCHANGED <<pc, cur, begun>>
         ELSE pc' = "gate" /\ cur' = d /\ begun' = now
  /\ UNCHANGED <<now, copies, stamp, tries, reply, lastOrder, todo, positions,
                 claims, rows, exchange, crashes, ghosts>>

Exposed(fills) == \E e \in fills : Symbol[e] = Symbol[cur]

(* Anti-stacking: a position the bot knows, or the exchange reports; the   *)
(* question to the exchange fails open.                                    *)
Gate ==
  /\ pc = "gate"
  /\ \E asked \in {TRUE} \cup {~StoresFail} :
       IF Exposed(positions) \/ (asked /\ Exposed(held))
         THEN /\ lastOrder' = [lastOrder EXCEPT ![Symbol[cur]] = now]
              /\ Drop
         ELSE /\ pc' = "lookup"
              /\ UNCHANGED <<cur, begun, tries, lastOrder>>
  /\ UNCHANGED <<source, reply, todo, positions, claims, rows,
                 exchange, crashes, ghosts>>

(* The cooldown, spread, size, edge and policy gates, which only refuse. *)
Refuse ==
  /\ pc \in {"gate", "lookup", "record"}
  /\ Drop
  /\ UNCHANGED <<source, reply, lastOrder, todo, positions,
                 claims, rows, exchange, crashes, ghosts>>

(* _intent_exists: only created and submitted count; a failure is a no. *)
Lookup ==
  /\ pc = "lookup"
  /\ \/ intent[cur] \in Underway /\ Drop
     \/ /\ intent[cur] \in Underway => StoresFail
        /\ pc' = "claim"
        /\ UNCHANGED <<cur, begun, tries>>
  /\ UNCHANGED <<source, reply, lastOrder, todo, positions,
                 claims, rows, exchange, crashes, ghosts>>

(* claim(), up to the audit row: is_claimed, then SET NX EX. *)
Claim ==
  /\ pc = "claim"
  /\ \/ /\ is_claimed(cur) \/ KeyLives(cur) \/ StoresFail
        /\ pc' = "refused"
        /\ UNCHANGED claim
     \/ /\ ~is_claimed(cur) \/ StoresFail
        /\ SetKey(cur)
        /\ pc' = "claimed"
  /\ UNCHANGED <<source, cur, begun, tries, reply, lastOrder, todo, positions,
                 audit, granted, rows, exchange, crashes, ghosts>>

(* The audit row; a write that raises ends in _mark_idempotent's except,   *)
(* which lets the intent through.                                          *)
Claimed ==
  /\ pc \in {"claimed", "refused"}
  /\ \/ /\ write_audit(cur, IF pc = "claimed" THEN "claimed" ELSE "duplicate")
        /\ IF pc = "claimed" THEN pc' = "record" /\ UNCHANGED <<cur, begun, tries>>
                             ELSE Drop
        /\ UNCHANGED reliable
     \/ /\ AuditFails
        /\ pc' = "record"
        /\ reliable' = (reliable /\ pc = "claimed")
        /\ UNCHANGED <<cur, begun, tries, audit, granted>>
  /\ UNCHANGED <<source, reply, lastOrder, todo, positions,
                 claim, rows, exchange, crashes, runs>>

(* Mutant: an update where the row must be inserted. *)
UpdateOnly(d, status) ==
  /\ intent' = IF intent[d] = "none" THEN intent ELSE [intent EXCEPT ![d] = status]
  /\ UNCHANGED bornAt

(* write_order_intent: created_at stays what the first insert made it. *)
Upsert(d, status) ==
  /\ intent' = [intent EXCEPT ![d] = status]
  /\ bornAt' = IF intent[d] = "none" THEN [bornAt EXCEPT ![d] = now] ELSE bornAt

Record ==
  /\ pc = "record"
  /\ Upsert(cur, "created")
  /\ pc' = "send"
  /\ runs' = [runs EXCEPT ![cur] = @ + 1]
  /\ UNCHANGED <<source, cur, begun, tries, reply, lastOrder, todo, positions,
                 claims, records, exchange, crashes, reliable>>

-----------------------------------------------------------------------------
(* The execution of a market entry. *)

(* Mutant: every final status ends the intent as filled. *)
FilledAtEnd(status) == IF status \in Final THEN "filled" ELSE "submitted"

(* The intent's status for a polled one. *)
IntentStatus(status) == IF status \in Final THEN status ELSE "submitted"

(* Mutant: the last status that is written stands. *)
AnyChange(d, status, rest) == TRUE

(* How far a status is, of an order that lives. *)
Rank == [pending |-> 1, open |-> 2]

(* InMemoryOrderStore: an order that lives does not go back; one that      *)
(* ended may only end otherwise, if REST says so.                          *)
Accepts(d, status, rest) ==
  \/ ledger[d] \in {"none", status}
  \/ status \in Final /\ (ledger[d] \in Live \/ rest)
  \/ {status, ledger[d]} \subseteq Live /\ Rank[status] >= Rank[ledger[d]]

Change(d, status) ==
  /\ ledger' = [ledger EXCEPT ![d] = status]
  /\ UNCHANGED presumed

(* A status with the order id, from a source other than the websocket. *)
Store(d, status, rest) ==
  IF Accepts(d, status, rest) THEN Change(d, status) /\ heard' = heard \ {d}
                              ELSE UNCHANGED records

(* A rejection that names no order is filed by the client order id: a      *)
(* record of its own, that nothing else is ever written to.                *)
Presume(d) ==
  /\ presumed' = presumed \cup {d}
  /\ UNCHANGED <<ledger, heard>>

(* Mutant: a status is not normalized. *)
Raw(d) == IF order[d] = "open" THEN {"new"} ELSE {order[d]}

(* What is told of an order at the exchange: a part that is executed does  *)
(* not show in every answer.                                               *)
Told(d) ==
  IF order[d] # "open" THEN {order[d]}
  ELSE {"open"} \cup (IF d \in traded THEN {} ELSE {"pending"})

(* The execution is over; a success starts the throttle's interval. *)
Finish(ok) ==
  /\ Drop
  /\ lastOrder' = IF ok THEN [lastOrder EXCEPT ![Symbol[cur]] = now] ELSE lastOrder

(* Mutant: a send that fails is not counted. *)
SameTry == tries

NextTry == tries + 1

(* The guard may refuse the call, or the request leaves. *)
Send ==
  /\ pc = "send"
  /\ pc' = "wait"
  /\ tries' = NextTry
  /\ \/ wire' = wire \cup {cur} /\ reply' = "none"
     \/ wire' = wire /\ reply' = "rejected"
  /\ UNCHANGED <<source, cur, begun, lastOrder, todo, positions, claims, rows,
                 order, traded, held, crashes, ghosts>>

(* A timeout or a lost answer: the guard makes it a rejection without an   *)
(* order id.                                                               *)
LoseReply ==
  /\ pc = "wait"
  /\ reply \in {"none", "open", "pending", "filled"}
  /\ reply' = "rejected"
  /\ UNCHANGED <<source, pc, cur, begun, tries, lastOrder, todo, positions,
                 claims, rows, exchange, crashes, ghosts>>

RecordReply == IF reply = "rejected" THEN Presume(cur) ELSE Store(cur, reply, FALSE)

Answered ==
  /\ pc = "wait"
  /\ reply # "none"
  /\ RecordReply
  /\ reply' = "none"
  /\ \/ /\ reply = "filled"
        /\ positions' = positions \cup {cur}
        /\ Upsert(cur, "filled")
        /\ Finish(TRUE)
     \/ /\ reply \in {"open", "pending"}
        /\ Upsert(cur, "submitted")
        /\ pc' = "poll"
        /\ tries' = 0
        /\ UNCHANGED <<cur, begun, lastOrder, positions>>
     \/ /\ reply = "rejected"
        /\ tries < MaxTries
        /\ Upsert(cur, "submitted")
        /\ pc' = "send"
        /\ UNCHANGED <<cur, begun, tries, lastOrder, positions>>
     \/ /\ reply = "rejected"
        /\ tries >= MaxTries
        /\ Upsert(cur, "failed")
        /\ Finish(FALSE)
        /\ UNCHANGED positions
  /\ UNCHANGED <<source, todo, claims, exchange, crashes, ghosts>>

(* A store raises in the midst of what is done with the answer: there is   *)
(* no other try.                                                           *)
Raises ==
  /\ pc = "wait"
  /\ reply # "none"
  /\ RecordReply \/ UNCHANGED records
  /\ positions' \in {positions, IF reply = "filled" THEN positions \cup {cur} ELSE positions}
  /\ reply' = "none"
  /\ Upsert(cur, "failed")
  /\ Finish(FALSE)
  /\ UNCHANGED <<source, todo, claims, exchange, crashes, ghosts>>

(* One REST poll by the order id: no answer, an order that lives, or its   *)
(* end.  record_order_status writes what the store accepts to the row of   *)
(* the intent too.                                                         *)
Poll ==
  /\ pc = "poll"
  /\ tries < MaxPolls
  /\ \/ /\ tries' = NextTry
        /\ UNCHANGED <<pc, cur, begun, lastOrder, positions>>
        /\ \/ UNCHANGED rows
           \/ \E status \in Told(cur) \cap Live :
                /\ Store(cur, status, TRUE)
                /\ IF Accepts(cur, status, TRUE) THEN Upsert(cur, status)
                                                 ELSE UNCHANGED intents
     \/ /\ order[cur] \in Final
        /\ Store(cur, order[cur], TRUE)
        /\ positions' = IF order[cur] = "filled" THEN positions \cup {cur} ELSE positions
        /\ Upsert(cur, IntentStatus(order[cur]))
        /\ Finish(TRUE)
  /\ UNCHANGED <<source, reply, todo, claims, exchange, crashes, ghosts>>

(* A report of the websocket resolved the order: the intent's row stays. *)
PollSeesReport ==
  /\ pc = "poll"
  /\ cur \in heard
  /\ ledger[cur] \in Final
  /\ Finish(TRUE)
  /\ UNCHANGED <<source, reply, todo, positions, claims, rows,
                 exchange, crashes, ghosts>>

(* status_poll_failed: the order may still be open. *)
PollGivesUp ==
  /\ pc = "poll"
  /\ tries >= MaxPolls
  /\ Upsert(cur, "failed")
  /\ Finish(FALSE)
  /\ UNCHANGED <<source, reply, todo, positions, claims, records,
                 exchange, crashes, ghosts>>

-----------------------------------------------------------------------------
(* The other tasks of the runtime. *)

Up == pc \notin {"down", "recover"}

(* OrderUpdateConsumer: a report the store accepts is written to the       *)
(* intent's row as it is; of one that tells no news, an end is written to  *)
(* that row all the same.                                                  *)
WsReport(d) ==
  /\ Up
  /\ order[d] # "none"
  /\ \E status \in Told(d) :
       /\ Upsert(d, status)
       /\ \/ /\ Accepts(d, status, FALSE)
             /\ Change(d, status)
             /\ heard' = IF status \in Final THEN heard \cup {d} ELSE heard \ {d}
             /\ positions' = IF status = "filled" THEN positions \cup {d} ELSE positions
          \/ /\ status \in Final
             /\ status = ledger[d]
             /\ UNCHANGED <<records, positions>>
  /\ UNCHANGED <<source, pc, cur, begun, tries, reply, lastOrder, todo, claims,
                 exchange, crashes, ghosts>>

(* OrderReconciler: a record of an order that lives is compared with REST. *)
ReconcileOrder(d) ==
  /\ Up
  /\ ledger[d] \in Live
  /\ \E status \in Told(d) \ {ledger[d]} :
       /\ Accepts(d, status, TRUE)
       /\ Store(d, status, TRUE)
       /\ Upsert(d, status)
       /\ positions' = IF status = "filled" THEN positions \cup {d} ELSE positions
  /\ UNCHANGED <<source, pc, cur, begun, tries, reply, lastOrder, todo, claims,
                 exchange, crashes, ghosts>>

(* _intent_expiry_loop looks for a row of order_states that is past        *)
(* pending.  Of two records that row has what was written last: here an    *)
(* intent may expire also when that was the rejection filed apart.         *)
ExpireIntent(d) ==
  /\ Up
  /\ intent[d] \in Pending
  /\ now - bornAt[d] > IntentTtl
  /\ ledger[d] = "pending" \/ (ledger[d] = "none" /\ d \notin presumed)
  /\ intent' = [intent EXCEPT ![d] = "expired"]
  /\ UNCHANGED <<source, worker, claims, bornAt, records, exchange, crashes, ghosts>>

(* _execution_sync_loop: an order with any trade is filled to it.  The     *)
(* record takes it unless it is over, or newer than the trade; the intent  *)
(* takes it always, and the position is left alone.                        *)
SyncTrade(d) ==
  /\ Up
  /\ d \in traded
  /\ Upsert(d, "filled")
  /\ Store(d, "filled", FALSE) \/ UNCHANGED records
  /\ UNCHANGED <<source, worker, claims, exchange, crashes, ghosts>>

(* The reconciliation worker (see Reconciliation) marks an order that it   *)
(* had read as open and the exchange did not list, or a list that could    *)
(* not be fetched.  By then the record may have ended, and it may look up  *)
(* the rejection that is filed apart: then only the intent takes it.       *)
HealGhost(d) ==
  /\ AutoHeal
  /\ Up
  /\ ledger[d] # "none"
  /\ order[d] \in Final \/ (order[d] = "open" /\ StoresFail)
  /\ Upsert(d, "canceled")
  /\ Store(d, "canceled", FALSE) \/ (d \in presumed /\ UNCHANGED records)
  /\ UNCHANGED <<source, worker, claims, exchange, crashes, ghosts>>

-----------------------------------------------------------------------------
(* The process stops, and starts again. *)

(* The event in hand was read from the group and is never read again. *)
Crash ==
  /\ Up \/ pc = "recover"
  /\ crashes < MaxCrashes
  /\ crashes' = crashes + 1
  /\ pc' = "down"
  /\ cur' = None
  /\ begun' = 0
  /\ tries' = 0
  /\ reply' = "none"
  /\ lastOrder' = [s \in Symbols |-> Never]
  /\ todo' = {}
  /\ positions' = {}
  /\ UNCHANGED <<source, claims, rows, exchange, ghosts>>

(* replay_recent_claims: the newest claimed row of each id, if it lives. *)
Replayed(d) == IF granted[d] > now THEN granted[d] ELSE claim[d]

(* Positions come from the exchange, claims from the audit table, and the  *)
(* pending intents from their table.                                       *)
Restart ==
  /\ pc = "down"
  /\ pc' = "recover"
  /\ positions' = held
  /\ claim' = [d \in Decisions |-> Replayed(d)]
  /\ todo' = {d \in Decisions : intent[d] \in Pending}
  /\ UNCHANGED <<source, cur, begun, tries, reply, lastOrder, audit, granted,
                 rows, exchange, crashes, ghosts>>

(* _recover_pending_intents claims the id first: an id still claimed is    *)
(* skipped as a duplicate, a claim that raises goes on.                    *)
RecoverClaim(d) ==
  /\ pc = "recover"
  /\ cur = None
  /\ d \in todo
  /\ \/ /\ is_claimed(d) \/ KeyLives(d) \/ StoresFail
        /\ UNCHANGED claim
        /\ \/ /\ write_audit(d, "duplicate")
              /\ todo' = todo \ {d}
              /\ UNCHANGED cur
           \/ /\ AuditFails
              /\ cur' = d
              /\ UNCHANGED <<todo, audit, granted>>
     \/ /\ ~is_claimed(d) \/ StoresFail
        /\ SetKey(d)
        /\ cur' = d
        /\ UNCHANGED todo
        /\ \/ write_audit(d, "claimed")
           \/ AuditFails /\ UNCHANGED <<audit, granted>>
  /\ UNCHANGED <<source, pc, begun, tries, reply, lastOrder, positions, rows,
                 exchange, crashes, ghosts>>

(* Its status is polled, by the order id the row has, or by the client     *)
(* order id: there the client makes a rejection of no answer.  A record    *)
(* that refuses the status does not keep it from the intent's row.         *)
RecoverPoll ==
  /\ pc = "recover"
  /\ cur # None
  /\ cur' = None
  /\ todo' = todo \ {cur}
  /\ \/ UNCHANGED <<rows, positions>>
     \/ Presume(cur) /\ Upsert(cur, "rejected") /\ UNCHANGED positions
     \/ /\ order[cur] # "none"
        /\ \E status \in Told(cur) :
             /\ Store(cur, status, FALSE)
             /\ Upsert(cur, IntentStatus(status))
             /\ positions' = IF status = "filled" /\ Accepts(cur, status, FALSE)
                               THEN positions \cup {cur} ELSE positions
  /\ UNCHANGED <<source, pc, begun, tries, reply, lastOrder, claims, exchange,
                 crashes, ghosts>>

Recovered ==
  /\ pc = "recover"
  /\ cur = None
  /\ todo = {}
  /\ pc' = "idle"
  /\ UNCHANGED <<source, cur, begun, tries, reply, lastOrder, todo, positions,
                 claims, rows, exchange, crashes, ghosts>>

-----------------------------------------------------------------------------
Handler ==
  \/ Read \/ Gate \/ Refuse \/ Lookup \/ Claim \/ Claimed \/ Record
  \/ Send \/ Answered \/ Raises \/ Poll \/ PollSeesReport \/ PollGivesUp

Startup ==
  \/ Restart \/ RecoverPoll \/ Recovered
  \/ \E d \in Decisions : RecoverClaim(d)

World ==
  \/ Tick \/ RedisLoss \/ LoseReply \/ Crash
  \/ \E d \in Decisions : Publish(d) \/ Serve(d) \/ Execute(d) \/ Settle(d) \/ Close(d)

Tasks ==
  \E d \in Decisions :
    WsReport(d) \/ ReconcileOrder(d) \/ ExpireIntent(d) \/ SyncTrade(d) \/ HealGhost(d)

Next == Handler \/ Startup \/ World \/ Tasks

Spec == Init /\ [][Next]_vars

(* The worker's task goes on until the handler returns, a call to the      *)
(* exchange ending with an answer or by its timeout; a process that        *)
(* stopped is started again.                                               *)
FairSpec == Spec /\ WF_vars(Handler \/ Startup \/ LoseReply)

-----------------------------------------------------------------------------
(* Where a decision stands, for the abstract specification. *)

fate == [d \in Decisions |->
  IF cur = d /\ pc \in Executing THEN "executing"
  ELSE IF runs[d] = 0 THEN "waiting"
  ELSE "ended"]

placed == {d \in Decisions : order[d] # "none"}

Abstract == INSTANCE DecisionExecution WITH fate <- fate, placed <- placed, reliable <- reliable

(* A decision is executed at most once and its order placed at most once,  *)
(* although its event may arrive again, reads of the stores may fail and   *)
(* the process may stop at any point: idempotency_store.py's claim, with   *)
(* the age limit of the handler.  Redis must keep its keys, and no refusal *)
(* be passed over because its audit row could not be written.              *)
ExecutesOnce == Abstract!Spec

(* The record by order id keeps the contract of OrderRecord: of what the   *)
(* handler, its polls, the reports, the reconcilers, the sync loop and the *)
(* recovery write, nothing reopens an order or replaces its end, but by    *)
(* the true one.  A traded order is presumed to be filled (the sync loop), *)
(* a missing one to be canceled (a heal), and none to be rejected: a lost  *)
(* answer is filed apart.                                                  *)
Ledger ==
  INSTANCE OrderRecord
  WITH Orders <- Decisions, truth <- order, record <- ledger,
       OpenStatuses <- Live, Ends <- Final, Presumed <- {"filled", "canceled"}

LedgerContract == Ledger!Spec

(* Whatever reaches the exchange has its row in order_intents, so that a   *)
(* start-up can find it: record_intent comes before execute_intent.        *)
IntentOnRecord ==
  \A d \in Decisions : d \in wire \/ order[d] # "none" => intent[d] # "none"

(* An intent, and the record of its order, read filled only when a part of *)
(* the order at least was executed, whoever wrote them last: the handler,  *)
(* a poll, a report, a reconciler, the recovery or the sync loop.          *)
FilledIsTraded ==
  \A d \in Decisions : intent[d] = "filled" \/ ledger[d] = "filled" => d \in traded

(* The worker always comes back to its stream: retries, polls and the      *)
(* recovery at start-up are bounded.                                       *)
ComesBack == []<>(pc = "idle")
=============================================================================
