--------------------------- MODULE FillRecording ---------------------------
(***************************************************************************)
(* How an order's fill reaches the order store and the local position of   *)
(* one symbol of a perpetual market.  The tasks that share them, all on    *)
(* one event loop:                                                         *)
(*   the execution worker    places orders one after another and polls     *)
(*                           them (execution/execution_worker.py,          *)
(*                           execute_intent in execution/manager.py);      *)
(*   the consumer            of the exchange's order updates               *)
(*                           (execution/order_update_consumer.py);         *)
(*   the order reconciler    polls what the store calls open               *)
(*                           (execution/order_reconciler_worker.py);       *)
(*   the position guard      closes positions with orders of its own       *)
(*                           (execution/position_guard_worker.py);         *)
(*   the position sync       replaces what differs from the exchange       *)
(*                           (_sync_positions_from_exchange in             *)
(*                           runtime/app.py);                              *)
(*   the execution sync      records as filled what has executions, and    *)
(*                           leaves the position alone                     *)
(*                           (_sync_executions_once in runtime/app.py).    *)
(* Each await is a place where the others run.                             *)
(*                                                                         *)
(* Sizes are in hundredths of the coin.  All entries buy one lot, so the   *)
(* exchange only ever holds a long.                                        *)
(* Orders fill whole.  "pending" counts as open, a rejected order is not   *)
(* followed any further, and retries and reposts are orders of their own.  *)
(* Prices, fees, profit, telemetry and the table of intents are left out.  *)
(***************************************************************************)
EXTENDS Integers

CONSTANTS
  Entries,     (* orders the worker opens with                              *)
  Makers,      (* of them, the post-only ones it cancels when unfilled      *)
  Exits,       (* reduce-only orders of exit signals                        *)
  Closes,      (* reduce-only orders of the position guard                  *)
  Lot,         (* the size of an entry                                      *)
  RemoveAfter  (* exchange_positions_remove_after_misses                    *)

Orders == Entries \cup Exits \cup Closes
Tasks == {"consumer", "reconciler"}
Callers == Orders \cup Tasks
Fetchers == Exits \cup {"sync"}

ASSUME ConstantsAssumption ==
  /\ Makers \subseteq Entries
  /\ Entries \cap (Exits \cup Closes) = {} /\ Exits \cap Closes = {}
  /\ Tasks \cap Orders = {}
  /\ Lot \in Nat \ {0} /\ RemoveAfter \in Nat \ {0}

Final == {"filled", "canceled", "rejected", "noposition"}
Statuses == {"none", "open"} \cup Final

VARIABLES
  exchange,  (* status of every order at the exchange; none: not there      *)
  amount,    (* its size; once filled, what was filled                      *)
  held,      (* the exchange's position                                     *)
  status,    (* OrderRecord.status; none: no record                         *)
  time,      (* timestamp and                                               *)
  source,    (* source of its last history entry                            *)
  side, size, closing,  (* the local position; size 0: none                 *)
  stage,     (* where every caller is; for an order, the task placing it    *)
  answer,    (* the status its last request was answered with               *)
  about,     (* the order a caller works on; an order's caller: that order  *)
  stamp,     (* the timestamp of the update a caller records                *)
  misses,    (* _exchange_position_miss_counts of the position sync         *)
  fetched,   (* the position the exchange told the sync, or an exit         *)
  syncing,   (* is the sync between fetching and applying?                  *)
  listed,    (* orders the reconciler found open and has yet to poll        *)
  counted    (* history: the orders whose fill some caller has dealt with   *)

venue == <<exchange, amount, held>>
store == <<status, time, source>>
position == <<side, size, closing>>
calls == <<stage, answer, about, stamp>>
sync == <<misses, fetched, syncing, listed>>
vars == <<venue, store, position, calls, sync, counted>>

Stages == {"idle", "hydrating", "claimed", "sent", "answered", "executed", "polling",
           "canceling", "canceled", "confirming", "polled", "reporting", "accepted",
           "recorded", "closing", "done"}

(* The sources somebody asks for; whoever else it was is "other". *)
Sources == {"ws", "exchange_sync", "other"}

TypeOK ==
  /\ exchange \in [Orders -> Statuses] /\ amount \in [Orders -> Nat] /\ held \in Nat
  /\ status \in [Orders -> {"none", "open", "filled", "canceled"}]
  /\ time \in [Orders -> 0..5] /\ source \in [Orders -> Sources]
  /\ side \in {"long", "short"} /\ size \in Nat /\ closing \in BOOLEAN
  /\ stage \in [Callers -> Stages]
  /\ answer \in [Callers -> Statuses]
  /\ about \in [Callers -> Orders \cup {"none"}]
  /\ stamp \in [Callers -> 0..5]
  /\ misses \in 0..RemoveAfter - 1
  /\ fetched \in [Fetchers -> Nat] /\ syncing \in BOOLEAN
  /\ listed \subseteq Orders
  /\ counted \subseteq Orders

Init ==
  /\ exchange = [o \in Orders |-> "none"] /\ amount = [o \in Orders |-> Lot] /\ held = 0
  /\ status = [o \in Orders |-> "none"]
  /\ time = [o \in Orders |-> 0] /\ source = [o \in Orders |-> "other"]
  /\ side = "long" /\ size = 0 /\ closing = FALSE
  /\ stage = [c \in Callers |-> "idle"]
  /\ answer = [c \in Callers |-> "none"]
  /\ about = [c \in Callers |-> IF c \in Orders THEN c ELSE "none"]
  /\ stamp = [c \in Callers |-> 0]
  /\ misses = 0 /\ fetched = [f \in Fetchers |-> 0] /\ syncing = FALSE
  /\ listed = {}
  /\ counted = {}

-----------------------------------------------------------------------------
(* Clocks agree, and of an order only two moments matter: the exchange     *)
(* accepts it (2) and is done with it (4).  Local clocks read the odd      *)
(* moments between.                                                        *)

Now(o) == IF exchange[o] = "none" THEN 1 ELSE IF exchange[o] = "open" THEN 3 ELSE 5
EventTime(s) == IF s = "open" THEN 2 ELSE 4

-----------------------------------------------------------------------------
(* The order store. *)

ValidTransition(s, t) == s = t \/ s \notin Final

(* Mutant: the status is not looked at. *)
NewerIsAccepted(o, s, t, from) == status[o] = "none" \/ t >= time[o]

(* _should_accept_update: REST may also replace one final status by        *)
(* another.                                                                *)
Accepts(o, s, t, from) ==
  \/ status[o] = "none"
  \/ t >= time[o] /\ (ValidTransition(status[o], s) \/ (from = "rest" /\ s \in Final))

(* record(), which asks again and silently leaves the record as it is. *)
Record(o, s, t, from) ==
  IF Accepts(o, s, t, from)
    THEN /\ status' = [status EXCEPT ![o] = s]
         /\ time' = [time EXCEPT ![o] = t]
         /\ source' = [source EXCEPT ![o] = IF from \in Sources THEN from ELSE "other"]
    ELSE UNCHANGED store

-----------------------------------------------------------------------------
(* The local position.  Only an open one is ever listed. *)

Visible == size > 0 /\ ~closing

(* upsert_position, accumulating: the same side is added to, anything else *)
(* is replaced.                                                            *)
Upsert(s, n) ==
  /\ side' = s /\ closing' = FALSE
  /\ size' = IF Visible /\ side = s THEN size + n ELSE n

Replace(s, n) == side' = s /\ size' = n /\ closing' = FALSE

finalize_close == Replace("long", 0)

-----------------------------------------------------------------------------
(* The exchange (external). *)

Elsewhere == UNCHANGED <<store, position, calls, sync, counted>>

(* An order that was sent arrives. *)
Arrive(o) ==
  /\ exchange[o] = "none" /\ stage[o] = "sent"
  /\ exchange' = [exchange EXCEPT ![o] =
       IF o \in Entries \/ (held > 0 /\ amount[o] > 0) THEN "open" ELSE "noposition"]
  /\ UNCHANGED <<amount, held>> /\ Elsewhere

Reject(o) ==
  /\ exchange[o] = "none" /\ stage[o] = "sent"
  /\ exchange' = [exchange EXCEPT ![o] = "rejected"]
  /\ UNCHANGED <<amount, held>> /\ Elsewhere

(* A reduce-only order fills for what there still is to reduce. *)
Fill(o) ==
  /\ exchange[o] = "open"
  /\ o \in Entries \/ held > 0
  /\ exchange' = [exchange EXCEPT ![o] = "filled"]
  /\ LET n == IF o \in Entries \/ amount[o] <= held THEN amount[o] ELSE held IN
       /\ amount' = [amount EXCEPT ![o] = n]
       /\ held' = IF o \in Entries THEN held + n ELSE held - n
  /\ Elsewhere

Cancel(o) ==
  /\ exchange[o] = "open"
  /\ exchange' = [exchange EXCEPT ![o] = "canceled"]
  /\ UNCHANGED <<amount, held>> /\ Elsewhere

(* What the order stream has said of an order: any of it may be lost, late *)
(* or repeated.                                                            *)
Updates(o) ==
  CASE exchange[o] \in {"filled", "canceled"} -> {"open", exchange[o]}
    [] exchange[o] = "open" -> {"open"}
    [] OTHER -> {}

-----------------------------------------------------------------------------
(* execute_intent *)

At(c, s) == stage' = [stage EXCEPT ![c] = s]

Send(o, n) == amount' = [amount EXCEPT ![o] = n] /\ At(o, "sent")

(* The worker finishes one order before it takes the next. *)
WorkerFree == \A o \in Entries \cup Exits : stage[o] \in {"idle", "done"}

Enter(o) ==
  /\ o \in Entries /\ stage[o] = "idle" /\ WorkerFree
  /\ Send(o, Lot)
  /\ UNCHANGED <<exchange, held, store, position, answer, about, stamp, sync, counted>>

(* An exit closes all of the position it finds; of a short, nothing is     *)
(* there to be closed at the exchange.                                     *)
ToClose == IF side = "long" THEN size ELSE 0

Exit(o) ==
  /\ o \in Exits /\ stage[o] = "idle" /\ WorkerFree
  /\ IF Visible
       THEN Send(o, ToClose) /\ UNCHANGED fetched
       ELSE /\ At(o, "hydrating") /\ fetched' = [fetched EXCEPT ![o] = held]
            /\ UNCHANGED amount
  /\ UNCHANGED <<exchange, held, store, position, answer, about, stamp, misses, syncing, listed, counted>>

(* No local position: the exchange's is taken over. *)
Hydrated(o) ==
  /\ o \in Exits /\ stage[o] = "hydrating"
  /\ IF fetched[o] = 0
       THEN At(o, "done") /\ UNCHANGED <<amount, position>>
       ELSE Send(o, fetched[o]) /\ Replace("long", fetched[o])
  /\ fetched' = [fetched EXCEPT ![o] = 0]
  /\ UNCHANGED <<exchange, held, store, answer, about, stamp, misses, syncing, listed, counted>>

(* Any request for the status of an order, and its answer on the way. *)
Ask(c, o) == answer' = [answer EXCEPT ![c] = exchange[o]]

Answered(o) ==
  /\ stage[o] = "sent" /\ exchange[o] # "none"
  /\ Ask(o, o) /\ At(o, "answered")
  /\ UNCHANGED <<venue, store, position, about, stamp, sync, counted>>

Executed(o) ==
  /\ o \in Entries \cup Exits /\ stage[o] = "answered"
  /\ IF answer[o] \in {"rejected", "noposition"}
       THEN UNCHANGED store
       ELSE Record(o, answer[o], Now(o), "local")
  /\ IF answer[o] = "noposition" THEN finalize_close ELSE UNCHANGED position
  /\ At(o, CASE answer[o] = "filled" -> "executed"
             [] answer[o] = "open" -> "polling"
             [] OTHER -> "done")
  /\ UNCHANGED <<venue, answer, about, stamp, sync, counted>>

(* What a close records once its executions were fetched: with their time, *)
(* or with the time t when there are none.                                 *)
RecordClose(o, t) ==
  \E x \in {EventTime("filled"), t} : Record(o, "filled", x, "exchange_reconcile")

(* What is filled at once enters or leaves the local position, whoever     *)
(* else has seen to it.                                                    *)
Settle(o) ==
  /\ stage[o] = "executed"
  /\ \/ o \in Entries /\ Upsert("long", amount[o]) /\ UNCHANGED store
     \/ o \in Exits /\ RecordClose(o, Now(o)) /\ finalize_close
  /\ counted' = counted \cup {o}
  /\ At(o, "done")
  /\ UNCHANGED <<venue, answer, about, stamp, sync>>

(* _poll_status: the consumer may know already, REST is asked, or the      *)
(* attempts run out.  A maker order does not look at the store.            *)
WsResolved(o) ==
  /\ o \notin Makers /\ stage[o] = "polling"
  /\ source[o] = "ws" /\ status[o] \in Final
  /\ At(o, "done")
  /\ UNCHANGED <<venue, store, position, answer, about, stamp, sync, counted>>

Poll(o) ==
  /\ stage[o] = "polling"
  /\ Ask(o, o) /\ At(o, "reporting")
  /\ UNCHANGED <<venue, store, position, about, stamp, sync, counted>>

GiveUp(o) ==
  /\ stage[o] = "polling"
  /\ At(o, IF o \in Makers THEN "canceling" ELSE "done")
  /\ UNCHANGED <<venue, store, position, answer, about, stamp, sync, counted>>

(* cancel_order: the answer is "canceled" even where there was nothing     *)
(* left to cancel.                                                         *)
RequestCancel(o) ==
  /\ stage[o] = "canceling"
  /\ exchange' = [exchange EXCEPT ![o] = IF @ = "open" THEN "canceled" ELSE @]
  /\ At(o, "canceled")
  /\ UNCHANGED <<amount, held, store, position, answer, about, stamp, sync, counted>>

RecordCancel(o) ==
  /\ stage[o] = "canceled"
  /\ Record(o, "canceled", Now(o), "local")
  /\ At(o, "confirming")
  /\ UNCHANGED <<venue, position, answer, about, stamp, sync, counted>>

(* _wait_for_terminal_after_cancel: only the table of intents is told.     *)
Confirm(o) ==
  /\ stage[o] = "confirming"
  /\ Ask(o, o) /\ At(o, "done")
  /\ UNCHANGED <<venue, store, position, about, stamp, sync, counted>>

-----------------------------------------------------------------------------
(* The consumer and the reconciler find out about an order. *)

Take(c, o, s) ==
  /\ answer' = [answer EXCEPT ![c] = s]
  /\ about' = [about EXCEPT ![c] = o]
  /\ UNCHANGED <<venue, store, position, stamp, misses, fetched, syncing, counted>>

IsDuplicate(o, s) == status[o] = s /\ EventTime(s) <= time[o]

Receive(o) ==
  /\ stage["consumer"] = "idle"
  /\ \E s \in Updates(o) : ~IsDuplicate(o, s) /\ Take("consumer", o, s)
  /\ At("consumer", "reporting")
  /\ UNCHANGED listed

(* It polls a list of open orders that are due, and makes the next list    *)
(* when it is through, whatever became of the orders meanwhile.            *)
Open == {o \in Orders : status[o] = "open"}

Reconcile(o) ==
  /\ stage["reconciler"] = "idle"
  /\ \E due \in IF listed = {} THEN SUBSET Open ELSE {listed} :
       o \in due /\ listed' = due \ {o}
  /\ Take("reconciler", o, exchange[o])
  /\ At("reconciler", "polled")

(* A caller is through with record_order_status. *)
Return(c) ==
  /\ At(c, IF c \in Tasks THEN "idle" ELSE IF answer[c] = "open" THEN "polling" ELSE "done")
  /\ answer' = [answer EXCEPT ![c] = IF c \in Tasks THEN "none" ELSE @]
  /\ about' = [about EXCEPT ![c] = IF c \in Tasks THEN "none" ELSE @]
  /\ stamp' = [stamp EXCEPT ![c] = 0]

(* The status the store had is compared before the drift is reported. *)
Compare ==
  /\ stage["reconciler"] = "polled"
  /\ IF status[about["reconciler"]] = answer["reconciler"]
       THEN Return("reconciler")
       ELSE At("reconciler", "reporting") /\ UNCHANGED <<answer, about, stamp>>
  /\ UNCHANGED <<venue, store, position, sync, counted>>

-----------------------------------------------------------------------------
(* record_order_status *)

Source(c) == IF c = "consumer" THEN "ws" ELSE "rest"

(* Mutant: a polled answer carries the exchange's time. *)
ExchangeTime(c) == EventTime(answer[c])

(* The consumer passes the exchange's time on, the pollers stamp the       *)
(* answer when it is there.                                                *)
Timestamp(c) == IF c = "consumer" THEN EventTime(answer[c]) ELSE Now(about[c])

(* A fill is recorded only after its executions were fetched. *)
Judge(c) ==
  /\ stage[c] = "reporting"
  /\ LET o == about[c] IN
       IF answer[c] = "filled" /\ Accepts(o, "filled", Timestamp(c), Source(c))
         THEN /\ At(c, "accepted") /\ stamp' = [stamp EXCEPT ![c] = Timestamp(c)]
              /\ UNCHANGED <<store, answer, about>>
         ELSE /\ IF answer[c] = "filled"
                   THEN UNCHANGED store
                   ELSE Record(o, answer[c], Timestamp(c), Source(c))
              /\ Return(c)
  /\ UNCHANGED <<venue, position, sync, counted>>

RecordFill(c) ==
  /\ stage[c] = "accepted"
  /\ Record(about[c], "filled", stamp[c], Source(c))
  /\ At(c, "recorded")
  /\ UNCHANGED <<venue, position, answer, about, stamp, sync, counted>>

Direction(o) == IF o \in Entries THEN "long" ELSE "short"

(* Only the worker's own intent says that the order is an exit.            *)
KnownExit(c) == c \in Exits

(* Mutant: a position of that side is taken to include the fill already.   *)
ApplyUnlessPositioned(c) ==
  /\ stage[c] = "recorded"
  /\ IF Visible
       THEN UNCHANGED <<position, counted>>
       ELSE /\ Upsert(Direction(about[c]), amount[about[c]])
            /\ counted' = counted \cup {about[c]}
  /\ Return(c)
  /\ UNCHANGED <<venue, store, sync>>

(* The fill closes a position of the other side, or opens one. *)
Apply(c) ==
  /\ stage[c] = "recorded"
  /\ LET o == about[c] IN
       IF Visible /\ side # Direction(o)
         THEN At(c, "closing") /\ UNCHANGED <<position, counted, answer, about, stamp>>
         ELSE /\ IF KnownExit(c) THEN UNCHANGED position ELSE Upsert(Direction(o), amount[o])
              /\ counted' = counted \cup {o}
              /\ Return(c)
  /\ UNCHANGED <<venue, store, sync>>

(* Whatever the position is once the executions have been fetched. *)
Close(c) ==
  /\ stage[c] = "closing"
  /\ RecordClose(about[c], stamp[c])
  /\ finalize_close
  /\ counted' = counted \cup {about[c]}
  /\ Return(c)
  /\ UNCHANGED <<venue, sync>>

-----------------------------------------------------------------------------
(* The position guard closes what it sees, and writes no order record. *)

GuardFree == \A o \in Closes : stage[o] \in {"idle", "done"}

Guard(o) ==
  /\ o \in Closes /\ stage[o] = "idle" /\ GuardFree
  /\ Visible
  /\ amount' = [amount EXCEPT ![o] = ToClose] /\ At(o, "claimed")
  /\ UNCHANGED <<exchange, held, store, position, answer, about, stamp, sync, counted>>

MarkClosing(o) ==
  /\ stage[o] = "claimed"
  /\ closing' = (size > 0) /\ UNCHANGED <<side, size>>
  /\ At(o, "sent")
  /\ UNCHANGED <<venue, store, answer, about, stamp, sync, counted>>

(* Without a fill in the answer the position stays marked. *)
GuardClosed(o) ==
  /\ o \in Closes /\ stage[o] = "answered"
  /\ IF answer[o] \in {"filled", "noposition"} THEN finalize_close ELSE UNCHANGED position
  /\ counted' = IF answer[o] = "filled" THEN counted \cup {o} ELSE counted
  /\ At(o, "done")
  /\ UNCHANGED <<venue, store, answer, about, stamp, sync>>

-----------------------------------------------------------------------------
(* _sync_positions_from_exchange; a fetch that fails changes nothing. *)

Fetch ==
  /\ ~syncing
  /\ syncing' = TRUE /\ fetched' = [fetched EXCEPT !["sync"] = held]
  /\ UNCHANGED <<venue, store, position, calls, misses, listed, counted>>

(* Mutant: only the side is compared. *)
SameSide(n) == side = "long"

(* Two per cent of the local size, or of one coin if that is more, pass    *)
(* for no difference.                                                      *)
Tolerated == IF size < 100 THEN 100 ELSE size
SameSize(n) == 50 * (size - n) <= Tolerated /\ 50 * (n - size) <= Tolerated

Same(n) == side = "long" /\ SameSize(n)

(* Mutant: one miss too many. *)
RemovedLater == misses = RemoveAfter

RemovalDue == misses + 1 = RemoveAfter

Sync ==
  /\ syncing
  /\ syncing' = FALSE /\ fetched' = [fetched EXCEPT !["sync"] = 0]
  /\ LET n == fetched["sync"] IN
       IF n = 0
         THEN IF Visible /\ RemovalDue
                THEN finalize_close /\ misses' = 0
                ELSE misses' = (IF Visible THEN misses + 1 ELSE misses) /\ UNCHANGED position
         ELSE /\ misses' = IF Visible THEN 0 ELSE misses
              /\ IF Visible /\ Same(n) THEN UNCHANGED position ELSE Replace("long", n)
  /\ UNCHANGED <<venue, store, calls, listed, counted>>

-----------------------------------------------------------------------------
(* _sync_executions_once: an order with executions is recorded as filled   *)
(* with the time of the last one, whoever placed it and whatever the store *)
(* says; the position is not looked at.  Where the last event has the same *)
(* figures already (_should_upsert_exchange_sync), nothing is written.     *)
SyncExecutions(o) ==
  /\ exchange[o] = "filled"
  /\ Record(o, "filled", EventTime("filled"), "exchange_sync")
  /\ UNCHANGED <<venue, position, calls, sync, counted>>

-----------------------------------------------------------------------------
Exchange(o) == Arrive(o) \/ Reject(o) \/ Fill(o) \/ Cancel(o)

Worker(o) ==
  \/ Enter(o) \/ Exit(o) \/ Hydrated(o) \/ Answered(o) \/ Executed(o) \/ Settle(o)
  \/ WsResolved(o) \/ Poll(o) \/ GiveUp(o) \/ RequestCancel(o) \/ RecordCancel(o) \/ Confirm(o)

PositionGuard(o) == Guard(o) \/ MarkClosing(o) \/ GuardClosed(o)

record_order_status(c) == Judge(c) \/ RecordFill(c) \/ Apply(c) \/ Close(c)

Next ==
  \/ \E o \in Orders :
       Exchange(o) \/ Worker(o) \/ PositionGuard(o) \/ Receive(o) \/ Reconcile(o)
         \/ SyncExecutions(o)
  \/ \E c \in Callers : record_order_status(c)
  \/ Compare \/ Fetch \/ Sync

Spec == Init /\ [][Next]_vars

(* The sync and the reconciler are loops that survive any error.  Every    *)
(* open order gets its turn.                                               *)
Fairness ==
  /\ WF_vars(Fetch) /\ WF_vars(Sync)
  /\ \A o \in Orders : SF_vars(Reconcile(o))
  /\ WF_vars(Compare) /\ WF_vars(record_order_status("reconciler"))

LiveSpec == Spec /\ Fairness

-----------------------------------------------------------------------------
(* A fill that is on record, that the execution sync was not the last to   *)
(* write, and that no task is still working on, has been taken to the      *)
(* local position by some task (manager.py, the order of recording and     *)
(* applying in execute_intent and record_order_status): whichever report   *)
(* the store takes is also applied.  What the execution sync records first *)
(* it keeps from the others, and only the position sync makes up for it.   *)
Busy(o) == \E c \in Callers : about[c] = o /\ stage[c] \in {"executed", "accepted", "recorded", "closing"}
FillNotForgotten ==
  \A o \in Orders :
    status[o] = "filled" /\ source[o] # "exchange_sync" => o \in counted \/ Busy(o)

(* The store keeps its contract: no late, repeated or stale answer opens   *)
(* an order that was final, and a final status on record gives way only to *)
(* the one the exchange has (_should_accept_update in execution/           *)
(* order_store.py).  Only "canceled" is presumed: cancel_order says so of  *)
(* orders it found filled.                                                 *)
Contract ==
  INSTANCE OrderRecord
  WITH truth <- exchange, record <- status,
       OpenStatuses <- {"open"}, Ends <- Final, Presumed <- {"canceled"}

RecordContract == Contract!Spec

(* The local position ends up being the exchange's but for a difference    *)
(* the sync puts up with, whatever was counted twice, never counted or     *)
(* turned into a phantom before (_sync_positions_from_exchange in          *)
(* runtime/app.py).                                                        *)
Agrees == IF held = 0 THEN ~Visible ELSE Visible /\ side = "long" /\ SameSize(held)
PositionConverges == <>[]Agrees

(* A record does not stay open once its order is finished, although WS     *)
(* updates may be lost (execution/order_reconciler_worker.py).             *)
RecordCatchesUp ==
  \A o \in Orders : []<>~(exchange[o] \in Final /\ status[o] = "open")

(* execution/manager.py:1359 says a close fill that comes after the guard  *)
(* finalized the position makes no phantom position.                       *)
NoPhantom == ~(Visible /\ side = "short")
=============================================================================
