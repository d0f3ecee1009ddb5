--------------------------- MODULE OrderLifecycle ---------------------------
(***************************************************************************)
(* The order state machine and its manager, core/lifecycle.py.             *)
(*                                                                         *)
(* The manager is a passive object: the caller registers an order, marks   *)
(* it SENT, and then feeds the manager what the exchange reports.  The     *)
(* exchange is external.  Its reports travel on a wire that reorders them, *)
(* repeats them and may lose them, which is what the module's docstring    *)
(* ("duplicate/out-of-order updates") promises to survive.                 *)
(*                                                                         *)
(* Prices, fees, timestamps and the transition log are left out.           *)
(***************************************************************************)
EXTENDS Integers

CONSTANTS
  Orders,       (* client order ids, one per attempt of an intent           *)
  Intents,      (* intent ids                                               *)
  IntentOf,     (* the intent an order is an attempt of                     *)
  ExIds,        (* exchange order ids                                       *)
  ExIdOf,       (* the id the exchange gives an order                       *)
  Qty,          (* ManagedOrder.qty, the same for every order               *)
  ExchangeSizes,(* the sizes the exchange may book for it (lot rounding)    *)
  KeySets,      (* the ids a fill or cancel report may carry                *)
  None          (* Python's None                                            *)

ASSUME ConstantsAssumption ==
  /\ IntentOf \in [Orders -> Intents]
  /\ ExIdOf \in [Orders -> ExIds]
  /\ \A c, d \in Orders : ExIdOf[c] = ExIdOf[d] => c = d
  /\ Qty \in Nat
  /\ ExchangeSizes \subseteq 1..Qty
  /\ KeySets \subseteq SUBSET {"client", "exchange"}
  /\ None \notin Orders \cup ExIds

VARIABLES
  state,        (* order.state, or "untracked" when not in _orders          *)
  filled,       (* order.filled_qty                                         *)
  exId,         (* order.exchange_order_id                                  *)
  byExchangeId, (* _by_exchange_id                                          *)
  byIntent,     (* _by_intent_id (_by_symbol is kept at the same places)    *)
  exStatus,     (* the exchange's own book: is the order open or closed,    *)
  exCum,        (* how much of it was executed,                             *)
  exSize,       (* and the size it was booked with                          *)
  wire          (* reports in flight                                        *)

local == <<state, filled, exId, byExchangeId, byIntent>>
exchange == <<exStatus, exCum, exSize>>
vars == <<local, exchange, wire>>

-----------------------------------------------------------------------------
(* OrderState and its transition table. *)

TERMINAL_STATES == {"filled", "rejected", "canceled", "failed", "expired"}
LIVE_STATES == {"sent", "acked", "partial", "cancel_requested"}
OrderState == {"new"} \cup LIVE_STATES \cup TERMINAL_STATES

VALID_TRANSITIONS ==
  [s \in OrderState |->
     CASE s = "new"  -> {"sent", "canceled"}
       [] s = "sent" -> {"acked", "rejected", "filled", "partial", "canceled", "expired"}
       [] s \in {"acked", "partial"} ->
            {"partial", "filled", "cancel_requested", "canceled", "expired"}
       [] s = "cancel_requested" -> {"canceled", "filled", "partial", "failed", "expired"}
       [] OTHER -> {}]    \* terminal states

(* Mutant: an order must be acknowledged before it can fill. *)
AckBeforeFill(s, t) ==
  t \in VALID_TRANSITIONS[s] /\ ~(s = "sent" /\ t \in {"filled", "partial"})

can_transition(s, t) == t \in VALID_TRANSITIONS[s]

(* transition(): the new state, or the old one when the move is refused. *)
Transition(s, t) == IF can_transition(s, t) THEN t ELSE s

tracked == {c \in Orders : state[c] # "untracked"}

-----------------------------------------------------------------------------
(* The reports of the exchange. *)

Ack(c) == [kind |-> "ack", order |-> c]
Reject(c) == [kind |-> "reject", order |-> c]
Fill(c, cum, complete, keys) ==
  [kind |-> "fill", order |-> c, cum |-> cum, complete |-> complete, keys |-> keys]
Cancel(c, keys) == [kind |-> "cancel", order |-> c, keys |-> keys]

Reports ==
  [kind : {"ack", "reject"}, order : Orders]
    \cup [kind : {"fill"}, order : Orders, cum : 1..Qty, complete : BOOLEAN, keys : KeySets]
    \cup [kind : {"cancel"}, order : Orders, keys : KeySets]

TypeOK ==
  /\ state \in [Orders -> OrderState \cup {"untracked"}]
  /\ filled \in [Orders -> 0..Qty]
  /\ exId \in [Orders -> ExIds \cup {None}]
  /\ byExchangeId \in [ExIds -> Orders \cup {None}]
  /\ byIntent \in [Intents -> SUBSET Orders]
  /\ exStatus \in [Orders -> {"unknown", "open", "closed"}]
  /\ exCum \in [Orders -> 0..Qty]
  /\ exSize \in [Orders -> 0..Qty]
  /\ wire \subseteq Reports

Init ==
  /\ state = [c \in Orders |-> "untracked"]
  /\ filled = [c \in Orders |-> 0]
  /\ exId = [c \in Orders |-> None]
  /\ byExchangeId = [x \in ExIds |-> None]
  /\ byIntent = [i \in Intents |-> {}]
  /\ exStatus = [c \in Orders |-> "unknown"]
  /\ exCum = [c \in Orders |-> 0]
  /\ exSize = [c \in Orders |-> 0]
  /\ wire = {}

-----------------------------------------------------------------------------
(* The caller's side. *)

(* A client order id names one attempt of one intent, so it is registered  *)
(* at most once: the exchange has never seen it.  Registering a tracked id *)
(* raises and changes nothing.                                             *)
Register(c) ==
  /\ c \notin tracked
  /\ exId[c] = None /\ exStatus[c] = "unknown"
  /\ state' = [state EXCEPT ![c] = "new"]
  /\ byIntent' = [byIntent EXCEPT ![IntentOf[c]] = @ \cup {c}]
  /\ UNCHANGED <<filled, exId, byExchangeId, exchange, wire>>

(* order.transition(OrderState.SENT), before the request leaves. *)
Send(c) ==
  /\ state[c] = "new"
  /\ state' = [state EXCEPT ![c] = Transition(@, "sent")]
  /\ UNCHANGED <<filled, exId, byExchangeId, byIntent, exchange, wire>>

(* Mutant: the order is taken for canceled as soon as that is requested. *)
CancelOptimistically(c) ==
  /\ c \in tracked
  /\ can_transition(state[c], "cancel_requested")
  /\ state' = [state EXCEPT ![c] = "canceled"]
  /\ UNCHANGED <<filled, exId, byExchangeId, byIntent, exchange, wire>>

RequestCancel(c) ==
  /\ c \in tracked
  /\ can_transition(state[c], "cancel_requested")
  /\ state' = [state EXCEPT ![c] = "cancel_requested"]
  /\ UNCHANGED <<filled, exId, byExchangeId, byIntent, exchange, wire>>

(* Mutant: the exchange id index is not cleaned. *)
CleanupKeepsIndex(S) ==
  /\ S # {}
  /\ \A c \in S : state[c] \in TERMINAL_STATES
  /\ state' = [c \in Orders |-> IF c \in S THEN "untracked" ELSE state[c]]
  /\ byIntent' = [i \in Intents |-> byIntent[i] \ S]
  /\ UNCHANGED <<filled, exId, byExchangeId, exchange, wire>>

(* cleanup_terminal(): S is the set of terminal orders past max_age_sec. *)
CleanupTerminal(S) ==
  /\ S # {}
  /\ \A c \in S : state[c] \in TERMINAL_STATES
  /\ state' = [c \in Orders |-> IF c \in S THEN "untracked" ELSE state[c]]
  /\ byExchangeId' = [x \in ExIds |->
       IF \E c \in S : exId[c] = x THEN None ELSE byExchangeId[x]]
  /\ byIntent' = [i \in Intents |-> byIntent[i] \ S]
  /\ UNCHANGED <<filled, exId, exchange, wire>>

-----------------------------------------------------------------------------
(* process_ack, process_fill, process_reject, process_cancel. *)

(* Client order id first, exchange id if that finds nothing. *)
Find(m) ==
  IF "client" \in m.keys /\ m.order \in tracked THEN m.order
  ELSE LET d == byExchangeId[ExIdOf[m.order]]
       IN  IF "exchange" \in m.keys /\ d # None /\ d \in tracked THEN d ELSE None

SetState(c, t) == state' = [state EXCEPT ![c] = Transition(@, t)]

ProcessAck(m) ==
  /\ m.kind = "ack"
  /\ IF m.order \in tracked
       THEN /\ exId' = [exId EXCEPT ![m.order] = ExIdOf[m.order]]
            /\ byExchangeId' = [byExchangeId EXCEPT ![ExIdOf[m.order]] = m.order]
            /\ SetState(m.order, "acked")
       ELSE UNCHANGED <<exId, byExchangeId, state>>
  /\ UNCHANGED <<filled, byIntent>>

(* Mutant: a late report of an earlier, smaller quantity is accepted. *)
AcceptOlderFill(c, cum) == cum <= Qty

update_fill_ok(c, cum) == filled[c] <= cum /\ cum <= Qty

(* Mutant: the cumulative quantity is taken for an increment. *)
AddFill(c, cum) == filled[c] + cum

FilledAfter(c, cum) == cum

ProcessFill(m) ==
  /\ m.kind = "fill"
  /\ LET c == Find(m) IN
       IF c # None /\ update_fill_ok(c, m.cum)
         THEN /\ filled' = [filled EXCEPT ![c] = FilledAfter(c, m.cum)]
              /\ SetState(c, IF m.complete \/ m.cum >= Qty THEN "filled" ELSE "partial")
         ELSE UNCHANGED <<filled, state>>
  /\ UNCHANGED <<exId, byExchangeId, byIntent>>

ProcessReject(m) ==
  /\ m.kind = "reject"
  /\ IF m.order \in tracked THEN SetState(m.order, "rejected") ELSE UNCHANGED state
  /\ UNCHANGED <<filled, exId, byExchangeId, byIntent>>

ProcessCancel(m) ==
  /\ m.kind = "cancel"
  /\ LET c == Find(m) IN
       IF c # None THEN SetState(c, "canceled") ELSE UNCHANGED state
  /\ UNCHANGED <<filled, exId, byExchangeId, byIntent>>

Process(m) == ProcessAck(m) \/ ProcessFill(m) \/ ProcessReject(m) \/ ProcessCancel(m)

Deliver(m) == m \in wire /\ Process(m) /\ wire' = wire \ {m} /\ UNCHANGED exchange
Redeliver(m) == m \in wire /\ Process(m) /\ UNCHANGED <<wire, exchange>>
Lose(m) == m \in wire /\ wire' = wire \ {m} /\ UNCHANGED <<local, exchange>>

-----------------------------------------------------------------------------
(* The exchange (external). *)

Accept(c, size) ==
  /\ state[c] = "sent" /\ exStatus[c] = "unknown"
  /\ exStatus' = [exStatus EXCEPT ![c] = "open"]
  /\ exSize' = [exSize EXCEPT ![c] = size]
  /\ wire' = wire \cup {Ack(c)}
  /\ UNCHANGED <<local, exCum>>

RejectOrder(c) ==
  /\ state[c] = "sent" /\ exStatus[c] = "unknown"
  /\ exStatus' = [exStatus EXCEPT ![c] = "closed"]
  /\ wire' = wire \cup {Reject(c)}
  /\ UNCHANGED <<local, exCum, exSize>>

Execute(c, keys) ==
  /\ exStatus[c] = "open"
  /\ exCum[c] < exSize[c]
  /\ LET cum == exCum[c] + 1
         complete == cum = exSize[c]
     IN  /\ exCum' = [exCum EXCEPT ![c] = cum]
         /\ exStatus' = [exStatus EXCEPT ![c] = IF complete THEN "closed" ELSE "open"]
         /\ wire' = wire \cup {Fill(c, cum, complete, keys)}
  /\ UNCHANGED <<local, exSize>>

CancelOrder(c, keys) ==
  /\ exStatus[c] = "open"
  /\ exStatus' = [exStatus EXCEPT ![c] = "closed"]
  /\ wire' = wire \cup {Cancel(c, keys)}
  /\ UNCHANGED <<local, exCum, exSize>>

-----------------------------------------------------------------------------
Caller ==
  \/ \E c \in Orders : Register(c) \/ Send(c) \/ RequestCancel(c)
  \/ \E S \in SUBSET Orders : CleanupTerminal(S)

Exchange ==
  \E c \in Orders :
    \/ \E size \in ExchangeSizes : Accept(c, size)
    \/ RejectOrder(c)
    \/ \E keys \in KeySets : Execute(c, keys) \/ CancelOrder(c, keys)

Next ==
  \/ Caller
  \/ Exchange
  \/ \E m \in wire : Deliver(m) \/ Redeliver(m) \/ Lose(m)

Spec == Init /\ [][Next]_vars

(* A wire that loses nothing and eventually delivers every report; the     *)
(* caller and the exchange are free to stop at any time.                   *)
LosslessNext ==
  \/ Caller
  \/ Exchange
  \/ \E m \in wire : Deliver(m) \/ Redeliver(m)

LosslessSpec ==
  /\ Init /\ [][LosslessNext]_vars
  /\ \A m \in Reports : WF_vars(Deliver(m))

-----------------------------------------------------------------------------
(* An order and its record, for the abstract specification: how an order   *)
(* ended at the exchange shows in its size and executions, and an order    *)
(* that was cleaned up counts with what the manager held of it last.       *)
truth == [c \in Orders |->
  CASE exStatus[c] = "unknown" -> "none"
    [] exStatus[c] = "open" -> "open"
    [] OTHER -> IF exSize[c] = 0 THEN "rejected"
                ELSE IF exCum[c] = exSize[c] THEN "filled" ELSE "canceled"]

record == [c \in Orders |->
  CASE state[c] = "untracked" -> truth[c]
    [] state[c] \in {"new", "sent"} -> "none"
    [] state[c] \in TERMINAL_STATES -> state[c]
    [] OTHER -> "open"]

Contract ==
  INSTANCE OrderRecord
  WITH truth <- truth, record <- record,
       OpenStatuses <- {"open"}, Ends <- TERMINAL_STATES, Presumed <- {}

-----------------------------------------------------------------------------
(* Properties. *)

(* However reports are lost, repeated or reordered, the filled quantity    *)
(* recorded by process_fill was really executed, and never exceeds the     *)
(* order.                                                                  *)
FilledIsReal == \A c \in Orders : filled[c] <= exCum[c] /\ exCum[c] <= Qty

(* An order the manager holds in a terminal state is dead at the exchange: *)
(* nothing in the books can still trade after the bot stopped watching it. *)
(* A FILLED order has all its executions recorded.                         *)
TerminalIsDead ==
  \A c \in Orders :
    /\ state[c] \in TERMINAL_STATES => exStatus[c] = "closed"
    /\ state[c] = "filled" => filled[c] = exSize[c]
    /\ state[c] = "rejected" => filled[c] = 0

(* _by_exchange_id and _by_intent_id agree with _orders: an exchange id    *)
(* leads to the order that carries it, also when an old acknowledgement    *)
(* arrives around cleanup_terminal, and an acknowledged order is found.    *)
IndexesAgree ==
  /\ \A x \in ExIds : byExchangeId[x] # None =>
       byExchangeId[x] \in tracked /\ exId[byExchangeId[x]] = x
  /\ \A c \in tracked : exId[c] # None => byExchangeId[exId[c]] = c
  /\ \A i \in Intents : byIntent[i] = {c \in tracked : IntentOf[c] = i}

(* "Terminal states remain terminal" (module docstring), and the filled    *)
(* quantity of an order never goes down, whatever order reports arrive in. *)
TerminalAndFillsStay ==
  [][\A c \in tracked :
       /\ state[c] \in TERMINAL_STATES => state'[c] \in {state[c], "untracked"}
       /\ filled[c] <= filled'[c]]_vars

(* The manager keeps the contract of OrderRecord and presumes nothing: an  *)
(* order it holds as ended ended that way at the exchange, and none that   *)
(* ended is taken for live again, whatever reports cross on the wire.      *)
RecordContract == Contract!Spec

(* Over a wire that loses nothing, and whose reports carry the client      *)
(* order id, an order that is closed at the exchange does not stay live    *)
(* here, and every executed lot is recorded, in whatever order the reports *)
(* come: refused transitions never swallow the report that mattered.       *)
ClosedIsLearned ==
  \A c \in Orders :
    exStatus[c] = "closed" ~>
      (state[c] = "untracked" \/ (state[c] \in TERMINAL_STATES /\ filled[c] = exCum[c]))
=============================================================================
