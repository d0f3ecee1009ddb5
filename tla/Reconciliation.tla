---------------------------- MODULE Reconciliation ----------------------------
(***************************************************************************)
(* The worker that compares orders and positions with the exchange every   *)
(* half minute and heals what differs (execution/reconciliation.py, over   *)
(* the adapters of runtime/quant_integration.py), among the tasks that     *)
(* write the same stores: answers, reports, polls and executions of orders *)
(* (execution/order_store.py), and the position sync (runtime/app.py).     *)
(*                                                                         *)
(* One symbol.  A cycle compares the orders, then the position.  In both   *)
(* halves the worker reads the local side, awaits the exchange's, and then *)
(* heals without another await: a position at once, an order by a task of  *)
(* its own.  Filled quantities and sides are left out.                     *)
(*                                                                         *)
(* The order store files a record by the order id or, where there is none, *)
(* by the client order id: an order whose answer was lost has two records. *)
(*                                                                         *)
(* An order on the exchange that the bot had not recorded is not canceled: *)
(* the adapter calls cancel_order without the guard's third argument, and  *)
(* takes the TypeError for a refusal.                                      *)
(***************************************************************************)
EXTENDS Integers

CONSTANTS
  Orders,
  MaxSize,      (* bound: lots in the position                             *)
  Rows,         (* may the exchange's rows have a "size"? ccxt's rows of   *)
                (* perpetuals do not, the rows made of spot balances do    *)
  RemoveAfter,  (* exchange_positions_remove_after_misses                  *)
  Slack,        (* a difference, in lots, that the sync takes for equal    *)
  MaxFaults     (* bound: fetches that fail                                *)

ASSUME ConstantsAssumption ==
  /\ MaxSize \in Nat
  /\ Slack \in Nat
  /\ MaxFaults \in Nat
  /\ RemoveAfter \in Nat \ {0}
  /\ Rows \subseteq BOOLEAN

Sizes == 0 .. MaxSize
OpenStatuses == {"pending", "open"}
Final == {"filled", "canceled"}

VARIABLES
  order,     (* each order at the exchange                                 *)
  traded,    (* the orders that are executed, or a part of them            *)
  rec,       (* OrderRecord.status of the record by order id               *)
  apart,     (* orders with an older record by client id: a rejection      *)
  heals,     (* the tasks update_order created: an order and its status    *)
  phase,     (* where the cycle stands                                     *)
  mine,      (* the open orders the worker read from the store             *)
  listed,    (* the open orders the exchange answered                      *)
  seenLocal, (* the position the worker read from the state manager        *)
  seenHeld,  (* the position the exchange answered                         *)
  held,      (* the position at the exchange                               *)
  local,     (* the position of the state manager                          *)
  fetched,   (* what the position sync has fetched, or NotAsked            *)
  misses,    (* _exchange_position_miss_counts                             *)
  sized,     (* the rows have a "size"                                     *)
  quiet,     (* trading has ended                                          *)
  faults,    (* fetches that failed so far                                 *)
  blind      (* ghost: orders compared with a list that was not fetched    *)

exchange == <<order, traded>>
records == <<rec, apart>>
store == <<exchange, records, heals>>
cycle == <<phase, mine, listed, seenLocal, seenHeld>>
positions == <<held, local>>
sync == <<fetched, misses>>
vars == <<store, cycle, positions, sync, sized, quiet, faults, blind>>

NotAsked == 0 - 1

TypeOK ==
  /\ order \in [Orders -> {"none", "open", "filled", "canceled"}]
  /\ traded \subseteq Orders
  /\ rec \in [Orders -> {"none"} \cup OpenStatuses \cup Final]
  /\ apart \subseteq Orders
  /\ heals \subseteq Orders \X {"canceled", "pending"}
  /\ phase \in {"idle", "orders", "heal orders", "position", "heal position"}
  /\ mine \subseteq Orders
  /\ listed \subseteq Orders
  /\ seenLocal \in Sizes
  /\ seenHeld \in Sizes
  /\ held \in Sizes
  /\ local \in Sizes
  /\ fetched \in Sizes \cup {NotAsked}
  /\ misses \in 0 .. RemoveAfter - 1
  /\ sized \in BOOLEAN
  /\ quiet \in BOOLEAN
  /\ faults \in 0 .. MaxFaults
  /\ blind \subseteq Orders

Init ==
  /\ order = [o \in Orders |-> "none"]
  /\ traded = {}
  /\ rec = [o \in Orders |-> "none"]
  /\ apart = {}
  /\ heals = {}
  /\ phase = "idle"
  /\ mine = {}
  /\ listed = {}
  /\ seenLocal = 0
  /\ seenHeld = 0
  /\ held = 0
  /\ local = 0
  /\ fetched = NotAsked
  /\ misses = 0
  /\ sized \in Rows
  /\ quiet = FALSE
  /\ faults = 0
  /\ blind = {}

Fault == faults < MaxFaults /\ faults' = faults + 1

-----------------------------------------------------------------------------
(* The exchange, and the trading that moves the position (external). *)

(* What an order executes moves the position. *)
Move(o) == traded' = traded \cup {o} /\ held' \in Sizes \ {held}

Become(o, status) ==
  /\ order' = [order EXCEPT ![o] = status]
  /\ IF status = "filled" THEN Move(o) ELSE UNCHANGED <<traded, held>>

Place(o) ==
  /\ ~quiet
  /\ order[o] = "none"
  /\ \E status \in {"open", "filled"} : Become(o, status)
  /\ UNCHANGED <<records, heals, cycle, local, sync, sized, quiet, faults, blind>>

(* A part is executed; the rest may still be canceled. *)
Execute(o) ==
  /\ order[o] = "open"
  /\ o \notin traded
  /\ Move(o)
  /\ UNCHANGED <<order, records, heals, cycle, local, sync, sized, quiet, faults,
                 blind>>

Settle(o) ==
  /\ order[o] = "open"
  /\ \E status \in {"filled", "canceled"} : Become(o, status)
  /\ UNCHANGED <<records, heals, cycle, local, sync, sized, quiet, faults, blind>>

(* A stop, or an order the bot did not place, moves it too. *)
Trade ==
  /\ ~quiet
  /\ held' \in Sizes \ {held}
  /\ UNCHANGED <<store, cycle, local, sync, sized, quiet, faults, blind>>

(* A task of the bot books a fill or a close (see FillRecording). *)
Book ==
  /\ ~quiet
  /\ local' \in Sizes
  /\ UNCHANGED <<store, cycle, held, sync, sized, quiet, faults, blind>>

EndTrading ==
  /\ ~quiet
  /\ \A o \in Orders : order[o] # "open"
  /\ quiet' = TRUE
  /\ UNCHANGED <<store, cycle, positions, sync, sized, faults, blind>>

-----------------------------------------------------------------------------
(* The order store, and the tasks that record what becomes of an order. *)

IsOpen(status) == status \in OpenStatuses

rank(status) == IF status = "pending" THEN 1 ELSE 2

is_valid_transition(previous, status) ==
  \/ previous \in {"none", status}
  \/ IsOpen(previous) /\ (status \in Final \/ rank(status) >= rank(previous))

(* _should_accept_update, but for its timestamps: see Report. *)
Recorded(o, status, source) ==
  IF is_valid_transition(rec[o], status) \/ (source = "rest" /\ status \in Final)
    THEN [rec EXCEPT ![o] = status]
    ELSE rec

(* The answer says what was true when it was given.  One that was lost,    *)
(* which the guard makes a rejection, names no order: it is filed by the   *)
(* client order id, before the record by order id or after it.             *)
Answer(o) ==
  /\ \/ /\ order[o] # "none"
        /\ \E status \in OpenStatuses \cup (Final \cap {order[o]}) :
             rec' = Recorded(o, status, "worker")
        /\ UNCHANGED apart
     \/ /\ apart' = IF rec[o] = "none" THEN apart \cup {o} ELSE apart
        /\ UNCHANGED rec
  /\ UNCHANGED <<exchange, heals, cycle, positions, sync, sized, quiet,
                 faults, blind>>

(* A report of the websocket.  One that is lost, or judged older than the  *)
(* record, changes nothing.                                                *)
Report(o) ==
  /\ order[o] # "none"
  /\ rec' = Recorded(o, order[o], "ws")
  /\ UNCHANGED <<exchange, apart, heals, cycle, positions, sync, sized, quiet,
                 faults, blind>>

(* The answer to a status poll that was asked for while the record was     *)
(* open, however long ago.                                                 *)
StatusAnswered(o) ==
  /\ rec[o] # "none"
  /\ rec' = Recorded(o, order[o], "rest")
  /\ UNCHANGED <<exchange, apart, heals, cycle, positions, sync, sized, quiet,
                 faults, blind>>

(* _sync_executions_once: an order with any trade is recorded as filled.   *)
SyncExecutions(o) ==
  /\ o \in traded
  /\ rec' = Recorded(o, "filled", "exchange_sync")
  /\ UNCHANGED <<exchange, apart, heals, cycle, positions, sync, sized, quiet,
                 faults, blind>>

-----------------------------------------------------------------------------
(* _reconcile_orders *)

Begin ==
  /\ phase = "idle"
  /\ phase' = "orders"
  /\ mine' = {o \in Orders : IsOpen(rec[o])}
  /\ UNCHANGED <<store, listed, seenLocal, seenHeld, positions, sync, sized,
                 quiet, faults, blind>>

(* A fetch that fails is an empty list. *)
ListOrders ==
  /\ phase = "orders"
  /\ phase' = "heal orders"
  /\ \/ listed' = {o \in Orders : order[o] = "open"} /\ UNCHANGED <<faults, blind>>
     \/ Fault /\ listed' = {} /\ blind' = blind \cup mine
  /\ UNCHANGED <<store, mine, seenLocal, seenHeld, positions, sync, sized,
                 quiet>>

(* Mutant: the store is read when the list has come. *)
GhostsNow == {o \in Orders : IsOpen(rec[o])} \ listed

Ghosts == mine \ listed

(* Mutant: the state of a ghost is left as it was converted. *)
StateNew == "pending"

HealStatus == "canceled"

(* A ghost is marked canceled.  A quantity that differs is written with    *)
(* the state NEW of the converted order, whatever its record says.  Then   *)
(* _reconcile_positions reads the local position.                          *)
HealOrders ==
  /\ phase = "heal orders"
  /\ phase' = "position"
  /\ \E differ \in SUBSET (mine \cap listed) :
       heals' = heals \cup (Ghosts \X {HealStatus}) \cup (differ \X {"pending"})
  /\ mine' = {}
  /\ listed' = {}
  /\ seenLocal' = local
  /\ UNCHANGED <<exchange, records, seenHeld, positions, sync, sized,
                 quiet, faults, blind>>

(* Mutant: a heal is taken for an answer of the exchange. *)
RestSource == "rest"

HealSource == "reconciliation"

(* The task that _submit_record created.  update_order looks for a record  *)
(* with the client order id and takes the first: where that is the one by  *)
(* client id, it is the rejection the heal is written to, which refuses.   *)
HealTask(o, status) ==
  /\ <<o, status>> \in heals
  /\ heals' = heals \ {<<o, status>>}
  /\ rec' = IF o \in apart THEN rec ELSE Recorded(o, status, HealSource)
  /\ UNCHANGED <<exchange, apart, cycle, positions, sync, sized,
                 quiet, faults, blind>>

-----------------------------------------------------------------------------
(* _reconcile_positions *)

(* Positions that could not be fetched, or are unavailable, are no         *)
(* positions.                                                              *)
ListPositions ==
  /\ phase = "position"
  /\ phase' = "heal position"
  /\ \/ seenHeld' = held /\ UNCHANGED faults
     \/ Fault /\ seenHeld' = 0
  /\ UNCHANGED <<store, mine, listed, seenLocal, positions, sync, sized, quiet,
                 blind>>

(* float(row.get("size", 0) or 0), or no row *)
RowSize == IF sized THEN seenHeld ELSE 0

(* A ghost is cleared, an orphan adopted, a size corrected. *)
HealPosition ==
  /\ phase = "heal position"
  /\ phase' = "idle"
  /\ local' = IF RowSize = seenLocal THEN local ELSE RowSize
  /\ seenLocal' = 0
  /\ seenHeld' = 0
  /\ UNCHANGED <<store, mine, listed, held, sync, sized, quiet, faults, blind>>

-----------------------------------------------------------------------------
(* _sync_positions_from_exchange *)

(* A fetch that raises is an empty list here too; one that is unavailable  *)
(* ends the sync.                                                          *)
Fetch ==
  /\ fetched = NotAsked
  /\ \/ fetched' = held /\ UNCHANGED faults
     \/ Fault /\ fetched' = 0
  /\ UNCHANGED <<store, cycle, positions, misses, sized, quiet, blind>>

(* Mutant: one miss too many. *)
RemovedLater == misses = RemoveAfter

RemovalDue == misses + 1 = RemoveAfter

(* Mutant: a position the bot does not know is not added. *)
KnownDiffers(size) == local > 0 /\ (local - size > Slack \/ size - local > Slack)

NeedsUpdate(size) == local = 0 \/ local - size > Slack \/ size - local > Slack

Sync ==
  /\ fetched # NotAsked
  /\ fetched' = NotAsked
  /\ \/ /\ fetched = 0
        /\ IF local > 0 /\ RemovalDue
             THEN local' = 0 /\ misses' = 0
             ELSE UNCHANGED local /\ misses' = IF local > 0 THEN misses + 1 ELSE misses
     \/ /\ fetched > 0
        /\ misses' = IF local > 0 THEN 0 ELSE misses
        /\ local' = IF NeedsUpdate(fetched) THEN fetched ELSE local
  /\ UNCHANGED <<store, cycle, held, sized, quiet, faults, blind>>

-----------------------------------------------------------------------------
Worker ==
  \/ Begin \/ ListOrders \/ HealOrders \/ ListPositions \/ HealPosition

OrderTasks ==
  \E o \in Orders :
    \/ Answer(o) \/ Report(o) \/ StatusAnswered(o)
    \/ SyncExecutions(o)

HealTasks == \E o \in Orders, status \in {"canceled", "pending"} : HealTask(o, status)

World ==
  \/ \E o \in Orders : Place(o) \/ Execute(o) \/ Settle(o)
  \/ Trade \/ Book \/ EndTrading

Next == Worker \/ HealTasks \/ OrderTasks \/ Fetch \/ Sync \/ World

Spec == Init /\ [][Next]_vars

(* The worker's loop and the sync's survive any error and run on, and so   *)
(* do the tasks the worker created.  Nothing is assumed of reports, polls  *)
(* and answers.                                                            *)
LiveSpec ==
  /\ Spec
  /\ WF_vars(Worker)
  /\ \A o \in Orders, status \in {"canceled", "pending"} : WF_vars(HealTask(o, status))
  /\ WF_vars(Fetch \/ Sync)

-----------------------------------------------------------------------------
(* An order whose record the worker closed is over at the exchange: an     *)
(* order placed, recorded or answered around the worker's await is not     *)
(* taken for a ghost.  Only a list that was not fetched may deceive it.    *)
HealedIsOver ==
  [][\A o \in Orders :
       <<o, "canceled">> \in heals \ heals' /\ rec'[o] # rec[o]
         => order[o] \in Final \/ o \in blind]_vars

(* The records by order id keep the store's contract among all who write   *)
(* them: a heal decided before an order's end was known, and written after *)
(* it, replaces no end on record and reopens nothing.  The worker presumes *)
(* "canceled", the sync of executions "filled".                            *)
Contract ==
  INSTANCE OrderRecord
  WITH truth <- order, record <- rec,
       Ends <- Final, Presumed <- {"canceled", "filled"}

RecordContract == Contract!Spec

(* "Recovering from missed WebSocket updates": with no report, poll or     *)
(* answer to rely on, the record of an order that is over does not stay    *)
(* open, unless a rejection was filed apart before it.                     *)
GhostsEnd ==
  \A o \in Orders : []<>~(IsOpen(rec[o]) /\ order[o] \in Final /\ o \notin apart)

(* Whatever the worker does to the local position, once trading has ended  *)
(* it is the exchange's again and again: the sync restores what the worker *)
(* clears, and the worker corrects what the sync takes for equal.  Where   *)
(* the exchange's rows have the key the worker reads, it stays so.         *)
PositionComesBack ==
  /\ []<>(quiet => local = held)
  /\ <>[](quiet /\ sized => local = held)
=============================================================================
