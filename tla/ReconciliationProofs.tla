------------------------- MODULE ReconciliationProofs -------------------------
(***************************************************************************)
(* What holds of Reconciliation for any orders, sizes and failures.  The   *)
(* induction follows a ghost through the cycle: what the worker read from  *)
(* the store is known to the exchange; what is then missing from the       *)
(* exchange's list is over, unless the list was not fetched; and so is     *)
(* what a task is about to mark canceled.                                  *)
(***************************************************************************)
EXTENDS Reconciliation, TLAPS

(* What is traded, or has a record, is an order the exchange has taken. *)
TradedIsKnown == \A o \in traded : order[o] # "none"
RecordIsKnown == \A o \in Orders : rec[o] # "none" => order[o] # "none"

(* What the worker read was on record, and known to the exchange. *)
MineIsKnown == \A o \in mine : order[o] # "none" /\ rec[o] # "none"

(* What is missing from a list is over. *)
MissingIsOver ==
  phase = "heal orders" => \A o \in mine \ listed : o \in blind \/ order[o] \in Final

(* A task only marks what is over. *)
HealsAreDue ==
  \A o \in Orders :
    /\ <<o, "canceled">> \in heals => o \in blind \/ order[o] \in Final
    /\ <<o, "canceled">> \in heals \/ <<o, "pending">> \in heals => rec[o] # "none"

IInv ==
  /\ TypeOK
  /\ TradedIsKnown
  /\ RecordIsKnown
  /\ MineIsKnown
  /\ MissingIsOver
  /\ HealsAreDue

-----------------------------------------------------------------------------
(* Recording changes one record, to the status that is given. *)
LEMMA RecordedChanges ==
  ASSUME TypeOK, NEW o \in Orders, NEW source,
         NEW status \in {"none"} \cup OpenStatuses \cup Final
  PROVE  /\ Recorded(o, status, source) \in [Orders -> {"none"} \cup OpenStatuses \cup Final]
         /\ \A p \in Orders \ {o} : Recorded(o, status, source)[p] = rec[p]
         /\ Recorded(o, status, source)[o] \in {rec[o], status}
         /\ status # "none" /\ rec[o] # "none" => Recorded(o, status, source)[o] # "none"
  BY DEF Recorded, TypeOK, OpenStatuses, Final

(* A record never becomes pending again. *)
LEMMA PendingChangesNothing ==
  ASSUME TypeOK, NEW o \in Orders, rec[o] # "none"
  PROVE  Recorded(o, "pending", HealSource) = rec
<1>1. CASE rec[o] = "pending"
  BY <1>1 DEF Recorded, TypeOK
<1>2. CASE rec[o] # "pending"
  <2>1. rank(rec[o]) = 2 /\ rank("pending") = 1
    BY <1>2 DEF rank
  <2>2. ~is_valid_transition(rec[o], "pending")
    BY <1>2, <2>1 DEF is_valid_transition, IsOpen, OpenStatuses, Final
  <2> QED
    BY <2>2 DEF Recorded, HealSource, Final
<1> QED
  BY <1>1, <1>2

(* An answer leaves the record by order id, or writes what is true, or was *)
(* of an order that is known.                                              *)
LEMMA AnswerRecords ==
  ASSUME TypeOK, NEW o \in Orders, Answer(o)
  PROVE  \/ rec' = rec
         \/ \E status \in OpenStatuses \cup Final :
              /\ rec' = Recorded(o, status, "worker")
              /\ order[o] # "none"
              /\ status \in Final => order[o] = status
<1>1. CASE UNCHANGED rec
  BY <1>1
<1>2. ASSUME NEW status \in OpenStatuses \cup (Final \cap {order[o]}), order[o] # "none",
             rec' = Recorded(o, status, "worker")
      PROVE  \E s \in OpenStatuses \cup Final :
               /\ rec' = Recorded(o, s, "worker")
               /\ order[o] # "none"
               /\ s \in Final => order[o] = s
  <2>1. status \in OpenStatuses \cup Final /\ (status \in Final => order[o] = status)
    BY DEF OpenStatuses, Final
  <2> QED
    BY <1>2, <2>1, Zenon
<1> QED
  BY <1>1, <1>2, Zenon DEF Answer

(* A heal leaves the record, or writes the status it was given. *)
LEMMA HealRecords ==
  ASSUME NEW o \in Orders, NEW status, HealTask(o, status)
  PROVE  rec' = rec \/ rec' = Recorded(o, status, HealSource)
  BY DEF HealTask

(* A fetch that fails is counted. *)
LEMMA FaultsCounted ==
  ASSUME TypeOK, UNCHANGED faults \/ Fault
  PROVE  faults' \in 0 .. MaxFaults
<1>1. faults \in 0 .. MaxFaults
  BY DEF TypeOK
<1> QED
  BY <1>1, ConstantsAssumption DEF Fault

-----------------------------------------------------------------------------
(* The variables keep their types. *)
LEMMA TypeKept ==
  ASSUME TypeOK, [Next]_vars
  PROVE  TypeOK'
<1> USE DEF store, exchange, records, cycle, positions, sync
<1>1. ASSUME NEW o \in Orders, Place(o) \/ Execute(o) \/ Settle(o) PROVE TypeOK'
  <2>1. held' \in Sizes /\ traded' \subseteq Orders
    BY <1>1 DEF Place, Execute, Settle, Become, Move, TypeOK
  <2>2. order' \in [Orders -> {"none", "open", "filled", "canceled"}]
    BY <1>1 DEF Place, Execute, Settle, Become, TypeOK
  <2> QED
    BY <1>1, <2>1, <2>2 DEF Place, Execute, Settle, TypeOK
<1>2. CASE Trade \/ Book \/ EndTrading
  BY <1>2 DEF Trade, Book, EndTrading, TypeOK
<1>3. ASSUME NEW o \in Orders, Answer(o) PROVE TypeOK'
  <2>1. rec' \in [Orders -> {"none"} \cup OpenStatuses \cup Final]
    <3>1. \/ rec' = rec
          \/ \E status \in OpenStatuses \cup Final : rec' = Recorded(o, status, "worker")
      BY <1>3, AnswerRecords, Zenon
    <3>2. CASE rec' = rec
      BY <3>2 DEF TypeOK
    <3>3. ASSUME NEW status \in OpenStatuses \cup Final, rec' = Recorded(o, status, "worker")
          PROVE  rec' \in [Orders -> {"none"} \cup OpenStatuses \cup Final]
      <4>1. Recorded(o, status, "worker") \in [Orders -> {"none"} \cup OpenStatuses \cup Final]
        BY RecordedChanges
      <4> QED
        BY <3>3, <4>1
    <3> QED
      BY <3>1, <3>2, <3>3, Zenon
  <2>2. apart' \subseteq Orders
    BY <1>3 DEF Answer, TypeOK
  <2> QED
    BY <1>3, <2>1, <2>2 DEF Answer, TypeOK
<1>4. ASSUME NEW o \in Orders, Report(o) PROVE TypeOK'
  <2>1. order[o] \in OpenStatuses \cup Final
    BY <1>4 DEF Report, TypeOK, OpenStatuses, Final
  <2>2. rec' \in [Orders -> {"none"} \cup OpenStatuses \cup Final]
    BY <1>4, <2>1, RecordedChanges DEF Report
  <2> QED
    BY <1>4, <2>2 DEF Report, TypeOK
<1>6. ASSUME NEW o \in Orders, StatusAnswered(o) PROVE TypeOK'
  <2>1. order[o] \in {"none"} \cup OpenStatuses \cup Final
    BY <1>6 DEF StatusAnswered, TypeOK, OpenStatuses, Final
  <2>2. rec' \in [Orders -> {"none"} \cup OpenStatuses \cup Final]
    BY <1>6, <2>1, RecordedChanges DEF StatusAnswered
  <2> QED
    BY <1>6, <2>2 DEF StatusAnswered, TypeOK
<1>7. CASE Begin \/ ListOrders
  <2>1. faults' \in 0 .. MaxFaults
    BY <1>7, FaultsCounted, Zenon DEF Begin, ListOrders
  <2> QED
    BY <1>7, <2>1 DEF Begin, ListOrders, TypeOK
<1>8. CASE HealOrders
  <2>1. heals' \subseteq Orders \X {"canceled", "pending"}
    BY <1>8 DEF HealOrders, Ghosts, HealStatus, TypeOK
  <2> QED
    BY <1>8, <2>1 DEF HealOrders, TypeOK
<1>9. ASSUME NEW o \in Orders, NEW status \in {"canceled", "pending"}, HealTask(o, status)
      PROVE  TypeOK'
  <2>1. rec' \in [Orders -> {"none"} \cup OpenStatuses \cup Final]
    <3>1. rec' = rec \/ rec' = Recorded(o, status, HealSource)
      BY <1>9, HealRecords
    <3>2. CASE rec' = rec
      BY <3>2 DEF TypeOK
    <3>3. CASE rec' = Recorded(o, status, HealSource)
      BY <3>3, RecordedChanges DEF OpenStatuses, Final
    <3> QED
      BY <3>1, <3>2, <3>3
  <2> QED
    BY <1>9, <2>1 DEF HealTask, TypeOK
<1>10. CASE ListPositions \/ HealPosition
  <2>1. 0 \in Sizes
    BY ConstantsAssumption DEF Sizes
  <2>2. faults' \in 0 .. MaxFaults
    BY <1>10, FaultsCounted, Zenon DEF ListPositions, HealPosition
  <2> QED
    BY <1>10, <2>1, <2>2 DEF ListPositions, HealPosition, RowSize, TypeOK
<1>11. CASE Fetch
  <2>1. fetched' \in Sizes \cup {NotAsked}
    <3>1. fetched' = held \/ fetched' = 0
      BY <1>11, Zenon DEF Fetch
    <3>2. 0 \in Sizes
      BY ConstantsAssumption DEF Sizes
    <3> QED
      BY <3>1, <3>2 DEF TypeOK
  <2>2. faults' \in 0 .. MaxFaults
    BY <1>11, FaultsCounted, Zenon DEF Fetch
  <2> QED
    BY <1>11, <2>1, <2>2 DEF Fetch, TypeOK
<1>12. CASE Sync
  <2>1. local' \in Sizes
    BY <1>12, ConstantsAssumption DEF Sync, TypeOK, Sizes, NotAsked, NeedsUpdate, RemovalDue
  <2>2. misses' \in 0 .. RemoveAfter - 1
    <3>1. \/ misses' = 0
          \/ misses' = misses
          \/ ~RemovalDue /\ misses' = misses + 1
      BY <1>12, Zenon DEF Sync
    <3>2. misses \in 0 .. RemoveAfter - 1
      BY DEF TypeOK
    <3> QED
      BY <3>1, <3>2, ConstantsAssumption DEF RemovalDue
  <2> QED
    BY <1>12, <2>1, <2>2 DEF Sync, TypeOK
<1>13. ASSUME NEW o \in Orders, SyncExecutions(o) PROVE TypeOK'
  <2>1. rec' \in [Orders -> {"none"} \cup OpenStatuses \cup Final]
    BY <1>13, RecordedChanges DEF SyncExecutions, Final
  <2> QED
    BY <1>13, <2>1 DEF SyncExecutions, TypeOK
<1>14. CASE UNCHANGED vars
  BY <1>14 DEF vars, TypeOK
<1> QED
  BY <1>1, <1>2, <1>3, <1>4, <1>6, <1>7, <1>8, <1>9, <1>10, <1>11, <1>12, <1>13, <1>14
  DEF Next, Worker, HealTasks, OrderTasks, World

-----------------------------------------------------------------------------
(* Only open orders leave their status, and never for it to be unknown. *)
LEMMA OrdersEnd ==
  ASSUME TypeOK, [Next]_vars
  PROVE  /\ \A o \in Orders : order[o] # "none" => order'[o] # "none"
         /\ \A o \in Orders : order[o] \in Final => order'[o] = order[o]
<1> USE DEF store, exchange, records, cycle, positions, sync
<1>1. CASE UNCHANGED order
  BY <1>1
<1>2. ASSUME NEW o \in Orders, Place(o) \/ Settle(o)
      PROVE  /\ \A p \in Orders : order[p] # "none" => order'[p] # "none"
             /\ \A p \in Orders : order[p] \in Final => order'[p] = order[p]
  BY <1>2 DEF Place, Settle, Become, TypeOK, Final
<1> QED
  BY <1>1, <1>2 DEF Next, Worker, HealTasks, OrderTasks, World, vars, Execute, Trade, Book, EndTrading,
       Answer, Report, StatusAnswered, SyncExecutions, Begin, ListOrders, HealOrders, HealTask,
       ListPositions, HealPosition, Fetch, Sync

(* A record once made is never removed. *)
LEMMA RecordsStay ==
  ASSUME TypeOK, RecordIsKnown, [Next]_vars
  PROVE  \A o \in Orders : rec[o] # "none" => rec'[o] # "none"
<1> USE DEF store, exchange, records, cycle, positions, sync
<1>1. ASSUME NEW o \in Orders, NEW status \in OpenStatuses \cup Final, NEW source,
             rec' = Recorded(o, status, source)
      PROVE  \A p \in Orders : rec[p] # "none" => rec'[p] # "none"
  <2>1. status \in {"none"} \cup OpenStatuses \cup Final /\ status # "none"
    BY DEF OpenStatuses, Final
  <2> QED
    BY <1>1, <2>1, RecordedChanges
<1>5. CASE UNCHANGED rec
  BY <1>5
<1>2. ASSUME NEW o \in Orders, Answer(o)
      PROVE  \A p \in Orders : rec[p] # "none" => rec'[p] # "none"
  BY <1>1, <1>2, <1>5, AnswerRecords
<1>3. ASSUME NEW o \in Orders, Report(o) \/ StatusAnswered(o)
      PROVE  \A p \in Orders : rec[p] # "none" => rec'[p] # "none"
  <2>1. order[o] \in OpenStatuses \cup Final
    BY <1>3 DEF Report, StatusAnswered, RecordIsKnown, TypeOK, OpenStatuses, Final
  <2> QED
    BY <1>1, <1>3, <2>1 DEF Report, StatusAnswered
<1>4. ASSUME NEW o \in Orders, NEW status \in {"canceled", "pending"}, HealTask(o, status)
      PROVE  \A p \in Orders : rec[p] # "none" => rec'[p] # "none"
  <2>1. status \in OpenStatuses \cup Final
    BY DEF OpenStatuses, Final
  <2> QED
    BY <1>1, <1>4, <1>5, <2>1, HealRecords
<1>6. ASSUME NEW o \in Orders, SyncExecutions(o)
      PROVE  \A p \in Orders : rec[p] # "none" => rec'[p] # "none"
  BY <1>1, <1>6 DEF SyncExecutions, Final
<1> QED
  BY <1>2, <1>3, <1>4, <1>5, <1>6
  DEF Next, Worker, HealTasks, OrderTasks, World, vars, Place, Execute, Settle, Trade, Book, EndTrading,
      Begin, ListOrders, HealOrders, ListPositions, HealPosition, Fetch, Sync

(* Only an order the exchange has is executed. *)
LEMMA TradedIsKnownKept ==
  ASSUME IInv, [Next]_vars
  PROVE  TradedIsKnown'
<1> USE DEF store, exchange, records, cycle, positions, sync
<1> TypeOK /\ TradedIsKnown
  BY DEF IInv
<1>o. \A o \in Orders : order[o] # "none" => order'[o] # "none"
  BY OrdersEnd
<1>1. ASSUME NEW o \in Orders, Place(o) \/ Execute(o) \/ Settle(o) PROVE TradedIsKnown'
  <2>1. traded' \subseteq traded \cup {o}
    BY <1>1 DEF Place, Execute, Settle, Become, Move
  <2>2. order'[o] # "none"
    BY <1>1 DEF Place, Execute, Settle, Become, TypeOK
  <2> QED
    BY <1>o, <2>1, <2>2 DEF TradedIsKnown, TypeOK
<1>2. CASE UNCHANGED traded
  BY <1>o, <1>2 DEF TradedIsKnown, TypeOK
<1> QED
  BY <1>1, <1>2
  DEF Next, Worker, HealTasks, OrderTasks, World, vars, Trade, Book, EndTrading,
      Answer, Report, StatusAnswered, SyncExecutions, HealTask, Begin, ListOrders, HealOrders, ListPositions,
      HealPosition, Fetch, Sync

(* Nothing is recorded of an order the exchange has not taken. *)
LEMMA RecordIsKnownKept ==
  ASSUME IInv, [Next]_vars
  PROVE  RecordIsKnown'
<1> USE DEF store, exchange, records, cycle, positions, sync
<1> TypeOK /\ TradedIsKnown /\ RecordIsKnown
  BY DEF IInv
<1>o. \A o \in Orders : order[o] # "none" => order'[o] # "none"
  BY OrdersEnd
<1>1. ASSUME NEW o \in Orders, NEW status \in {"none"} \cup OpenStatuses \cup Final, NEW source,
             order[o] # "none",
             rec' = Recorded(o, status, source)
      PROVE  RecordIsKnown'
  BY <1>o, <1>1, RecordedChanges DEF RecordIsKnown
<1>6. CASE UNCHANGED rec
  BY <1>o, <1>6 DEF RecordIsKnown
<1>2. ASSUME NEW o \in Orders, Answer(o) PROVE RecordIsKnown'
  BY <1>1, <1>2, <1>6, AnswerRecords
<1>3. ASSUME NEW o \in Orders, Report(o) \/ StatusAnswered(o) PROVE RecordIsKnown'
  <2>1. order[o] \in {"none"} \cup OpenStatuses \cup Final
    BY DEF TypeOK, OpenStatuses, Final
  <2> QED
    BY <1>1, <1>3, <2>1 DEF Report, StatusAnswered, RecordIsKnown
<1>5. ASSUME NEW o \in Orders, NEW status \in {"canceled", "pending"}, HealTask(o, status)
      PROVE  RecordIsKnown'
  <2>1. order[o] # "none"
    BY <1>5 DEF HealTask, IInv, HealsAreDue, RecordIsKnown
  <2>2. status \in {"none"} \cup OpenStatuses \cup Final
    BY DEF OpenStatuses, Final
  <2> QED
    BY <1>1, <1>5, <1>6, <2>1, <2>2, HealRecords
<1>7. ASSUME NEW o \in Orders, SyncExecutions(o) PROVE RecordIsKnown'
  BY <1>1, <1>7 DEF SyncExecutions, TradedIsKnown, Final
<1> QED
  BY <1>2, <1>3, <1>5, <1>6, <1>7
  DEF Next, Worker, HealTasks, OrderTasks, World, vars, Place, Execute, Settle, Trade, Book, EndTrading,
      Begin, ListOrders, HealOrders, ListPositions, HealPosition, Fetch, Sync

(* The worker reads open records, and a record once made stays. *)
LEMMA MineIsKnownKept ==
  ASSUME IInv, [Next]_vars
  PROVE  MineIsKnown'
<1> USE DEF store, exchange, records, cycle, positions, sync
<1> TypeOK /\ RecordIsKnown /\ MineIsKnown
  BY DEF IInv
<1>o. \A o \in Orders : order[o] # "none" => order'[o] # "none"
  BY OrdersEnd
<1>r. \A o \in Orders : rec[o] # "none" => rec'[o] # "none"
  BY RecordsStay
<1>1. CASE Begin
  BY <1>1 DEF Begin, MineIsKnown, RecordIsKnown, IsOpen, OpenStatuses
<1>2. CASE HealOrders
  BY <1>2 DEF HealOrders, MineIsKnown
<1>3. CASE UNCHANGED mine
  BY <1>o, <1>r, <1>3 DEF MineIsKnown, TypeOK
<1> QED
  BY <1>1, <1>2, <1>3
  DEF Next, Worker, HealTasks, OrderTasks, World, vars, Place, Execute, Settle, Trade, Book, EndTrading,
      Answer, Report, StatusAnswered, SyncExecutions, HealTask, ListOrders, ListPositions,
      HealPosition, Fetch, Sync

(* A list holds every order that is open when it is given. *)
LEMMA MissingIsOverKept ==
  ASSUME IInv, [Next]_vars
  PROVE  MissingIsOver'
<1> USE DEF store, exchange, records, cycle, positions, sync
<1> TypeOK /\ MineIsKnown /\ MissingIsOver
  BY DEF IInv
<1>o. \A o \in Orders : order[o] \in Final => order'[o] = order[o]
  BY OrdersEnd
<1>1. CASE ListOrders
  <2>1. CASE listed' = {o \in Orders : order[o] = "open"}
    BY <1>1, <2>1 DEF ListOrders, MissingIsOver, MineIsKnown, TypeOK, Final
  <2>2. CASE blind' = blind \cup mine
    BY <1>1, <2>2 DEF ListOrders, MissingIsOver
  <2> QED
    BY <1>1, <2>1, <2>2 DEF ListOrders
<1>2. CASE Begin \/ HealOrders \/ ListPositions \/ HealPosition
  BY <1>2 DEF Begin, HealOrders, ListPositions, HealPosition, MissingIsOver
<1>3. CASE UNCHANGED <<phase, mine, listed, blind>>
  BY <1>o, <1>3 DEF MissingIsOver, TypeOK
<1> QED
  BY <1>1, <1>2, <1>3
  DEF Next, Worker, HealTasks, OrderTasks, World, vars, Place, Execute, Settle, Trade, Book, EndTrading,
      Answer, Report, StatusAnswered, SyncExecutions, HealTask, Fetch, Sync

(* The tasks mark what was missing, and write where a record is. *)
LEMMA HealsAreDueKept ==
  ASSUME IInv, [Next]_vars
  PROVE  HealsAreDue'
<1> USE DEF store, exchange, records, cycle, positions, sync
<1> TypeOK /\ RecordIsKnown /\ MineIsKnown /\ MissingIsOver /\ HealsAreDue
  BY DEF IInv
<1>o. \A o \in Orders : order[o] \in Final => order'[o] = order[o]
  BY OrdersEnd
<1>r. \A o \in Orders : rec[o] # "none" => rec'[o] # "none"
  BY RecordsStay
<1>1. CASE HealOrders
  <2>1. PICK differ \in SUBSET (mine \cap listed) :
          heals' = heals \cup (Ghosts \X {HealStatus}) \cup (differ \X {"pending"})
    BY <1>1, Zenon DEF HealOrders
  <2>2. UNCHANGED <<order, rec, blind>> /\ phase = "heal orders"
    BY <1>1 DEF HealOrders
  <2>3. ASSUME NEW o \in Orders, <<o, "canceled">> \in heals'
        PROVE  (o \in blind \/ order[o] \in Final) /\ rec[o] # "none"
    BY <2>1, <2>2, <2>3 DEF HealsAreDue, MissingIsOver, MineIsKnown, Ghosts, HealStatus
  <2>4. ASSUME NEW o \in Orders, <<o, "pending">> \in heals'
        PROVE  rec[o] # "none"
    BY <2>1, <2>2, <2>4 DEF HealsAreDue, MineIsKnown, Ghosts, HealStatus
  <2> QED
    BY <2>2, <2>3, <2>4 DEF HealsAreDue
<1>2. CASE heals' \subseteq heals /\ blind \subseteq blind'
  BY <1>o, <1>r, <1>2 DEF HealsAreDue
<1> QED
  BY <1>1, <1>2
  DEF Next, Worker, HealTasks, OrderTasks, World, vars, Place, Execute, Settle, Trade, Book, EndTrading,
      Answer, Report, StatusAnswered, SyncExecutions, HealTask, Begin, ListOrders, ListPositions,
      HealPosition, Fetch, Sync

-----------------------------------------------------------------------------
(* The invariant holds from the start, and every step keeps it. *)
LEMMA IInvHolds == Spec => []IInv
<1>1. Init => IInv
  <2> SUFFICES ASSUME Init PROVE IInv
    OBVIOUS
  <2>1. 0 \in Sizes /\ 0 \in 0 .. RemoveAfter - 1 /\ 0 \in 0 .. MaxFaults
    BY ConstantsAssumption DEF Sizes
  <2>2. TypeOK
    BY <2>1, ConstantsAssumption DEF Init, TypeOK
  <2> QED
    BY <2>2 DEF Init, IInv, TradedIsKnown, RecordIsKnown, MineIsKnown, MissingIsOver, HealsAreDue
<1>2. IInv /\ [Next]_vars => IInv'
  <2> SUFFICES ASSUME IInv, [Next]_vars PROVE IInv'
    OBVIOUS
  <2>1. TypeOK'
    BY TypeKept DEF IInv
  <2> QED
    BY <2>1, TradedIsKnownKept, RecordIsKnownKept, MineIsKnownKept, MissingIsOverKept, HealsAreDueKept
    DEF IInv
<1> QED
  BY <1>1, <1>2, PTL DEF Spec

(* Every value a variable takes is of its type: no more misses are counted *)
(* than the sync waits for, no size leaves the bound, and no task marks    *)
(* an order with a status that no heal writes.                             *)
THEOREM TypeCorrect == Spec => []TypeOK
<1>1. IInv => TypeOK
  BY DEF IInv
<1> QED
  BY <1>1, IInvHolds, PTL

(* Of any orders, placed, recorded and answered in any order around the    *)
(* awaits of reconciliation.py, the worker closes the record of none that  *)
(* may still execute, except after a list it could not fetch.              *)
THEOREM HealedOrdersAreOver == Spec => HealedIsOver
<1>1. ASSUME IInv, NEW o \in Orders, <<o, "canceled">> \in heals
      PROVE  order[o] \in Final \/ o \in blind
  BY <1>1 DEF IInv, HealsAreDue
<1>2. IInv /\ [Next]_vars =>
        [\A o \in Orders :
           <<o, "canceled">> \in heals \ heals' /\ rec'[o] # rec[o]
             => order[o] \in Final \/ o \in blind]_vars
  BY <1>1
<1> QED
  BY <1>2, IInvHolds, PTL DEF Spec, HealedIsOver

-----------------------------------------------------------------------------
(* The store's contract: every step is one of OrderRecord's, or changes    *)
(* neither an order nor a record.                                          *)
ContractStep == [Contract!Next]_<<order, rec>>

(* What may be recorded: the status the exchange has, an open one of an    *)
(* order it knows and, unless it is a polled answer, an end on trust.      *)
LEMMA RecordedKeepsContract ==
  ASSUME TypeOK, NEW o \in Orders, NEW source, NEW status \in OpenStatuses \cup Final,
         rec' = Recorded(o, status, source), UNCHANGED order,
         IsOpen(status) => order[o] # "none",
         status \in Final =>
           order[o] = status \/ (status \in {"canceled", "filled"} /\ source # "rest")
  PROVE  ContractStep
<1>1. CASE rec' = rec
  BY <1>1 DEF ContractStep
<1>2. CASE rec' # rec
  <2>1. rec' = [rec EXCEPT ![o] = status]
    BY <1>2 DEF Recorded
  <2>2. (status \in Final /\ source = "rest") \/ is_valid_transition(rec[o], status)
    BY <1>2 DEF Recorded
  <2>3. rec[o] # status
    BY <1>2, <2>1 DEF TypeOK
  <2>4. rec[o] \in Final => status \in Final /\ source = "rest"
    BY <2>2, <2>3 DEF is_valid_transition, IsOpen, OpenStatuses, Final
  <2>5. CASE status \in OpenStatuses
    <3>1. status \notin Final
      BY <2>5 DEF OpenStatuses, Final
    <3> QED
      BY <2>1, <2>4, <2>5, <3>1 DEF Contract!WriteOpen, Contract!Write, Contract!Next,
         ContractStep, IsOpen
  <2>6. CASE status \in Final /\ order[o] = status
    BY <2>1, <2>6 DEF Contract!WriteEnd, Contract!Write, Contract!Next, ContractStep
  <2>7. CASE status \in {"canceled", "filled"} /\ source # "rest"
    BY <2>1, <2>4, <2>7 DEF Contract!Presume, Contract!Write, Contract!Next, ContractStep
  <2> QED
    BY <2>5, <2>6, <2>7
<1> QED
  BY <1>1, <1>2

LEMMA StepKeepsContract ==
  ASSUME IInv, [Next]_vars
  PROVE  ContractStep
<1> USE DEF store, exchange, records, cycle, positions, sync
<1> TypeOK /\ RecordIsKnown /\ HealsAreDue
  BY DEF IInv
<1>1. ASSUME NEW o \in Orders, Place(o) \/ Settle(o) PROVE ContractStep
  <2>1. PICK status \in {"open", "filled", "canceled"} :
          /\ order[o] = "none" \/ (order[o] = "open" /\ status # "open")
          /\ order' = [order EXCEPT ![o] = status]
    BY <1>1, Zenon DEF Place, Settle, Become
  <2>2. /\ status \in OpenStatuses \cup Final
        /\ order[o] = "none" \/ (order[o] \in OpenStatuses /\ status \in Final)
    BY <2>1, SMT DEF OpenStatuses, Final
  <2>3. UNCHANGED rec
    BY <1>1 DEF Place, Settle
  <2> QED
    BY <2>1, <2>2, <2>3 DEF Contract!Happen, Contract!Next, ContractStep
<1>7. CASE UNCHANGED <<order, rec>>
  BY <1>7 DEF ContractStep
<1>2. ASSUME NEW o \in Orders, Answer(o) PROVE ContractStep
  <2>1. UNCHANGED order
    BY <1>2 DEF Answer
  <2> QED
    BY <1>2, <1>7, <2>1, AnswerRecords, RecordedKeepsContract
<1>3. ASSUME NEW o \in Orders, NEW source, order[o] # "none", UNCHANGED order,
             rec' = Recorded(o, order[o], source)
      PROVE  ContractStep
  <2>1. order[o] \in OpenStatuses \cup Final
    BY <1>3 DEF TypeOK, OpenStatuses, Final
  <2> QED
    BY <1>3, <2>1, RecordedKeepsContract
<1>4. ASSUME NEW o \in Orders, Report(o) PROVE ContractStep
  BY <1>3, <1>4 DEF Report
<1>5. ASSUME NEW o \in Orders, StatusAnswered(o) PROVE ContractStep
  BY <1>3, <1>5 DEF StatusAnswered, RecordIsKnown
<1>6. ASSUME NEW o \in Orders, NEW status \in {"canceled", "pending"}, HealTask(o, status)
      PROVE  ContractStep
  <2>1. UNCHANGED order /\ (rec' = rec \/ rec' = Recorded(o, status, HealSource))
    BY <1>6, HealRecords DEF HealTask
  <2>2. CASE status = "canceled"
    BY <1>7, <2>1, <2>2, RecordedKeepsContract DEF HealSource, IsOpen, OpenStatuses, Final
  <2>3. CASE status = "pending"
    <3>1. rec[o] # "none"
      BY <1>6, <2>3 DEF HealTask, HealsAreDue
    <3> QED
      BY <2>1, <2>3, <3>1, PendingChangesNothing DEF ContractStep
  <2> QED
    BY <2>2, <2>3
<1>8. ASSUME NEW o \in Orders, SyncExecutions(o) PROVE ContractStep
  <2>1. UNCHANGED order /\ rec' = Recorded(o, "filled", "exchange_sync")
    BY <1>8 DEF SyncExecutions
  <2> QED
    BY <2>1, RecordedKeepsContract DEF IsOpen, OpenStatuses, Final
<1> QED
  BY <1>1, <1>2, <1>4, <1>5, <1>6, <1>7, <1>8
  DEF Next, Worker, HealTasks, OrderTasks, World, vars, Execute, Trade, Book, EndTrading,
      Begin, ListOrders, HealOrders, ListPositions, HealPosition, Fetch, Sync

(* The records by order id implement OrderRecord for any orders: of the    *)
(* answers, reports, polls, synced executions and heals, in whatever order *)
(* they are written, none reopens an order or replaces an end on record,   *)
(* but by the true one.                                                    *)
THEOREM StoreKeepsContract == Spec => RecordContract
<1>1. Init => Contract!Init
  BY DEF Init, Contract!Init
<1>2. IInv /\ [Next]_vars => [Contract!Next]_<<order, rec>>
  BY StepKeepsContract DEF ContractStep
<1> QED
  BY <1>1, <1>2, IInvHolds, PTL DEF Spec, RecordContract, Contract!Spec

(* What a reader of the store may rely on: a record that says truly how    *)
(* its order ended keeps saying so.                                        *)
TrueEndsStay ==
  [][\A o \in Orders : rec[o] \in Final /\ rec[o] = order[o] => rec'[o] = rec[o]]_vars

THEOREM TrueEndsAlwaysStay == Spec => TrueEndsStay
<1>1. ASSUME TypeOK, ContractStep, NEW o \in Orders, rec[o] \in Final, rec[o] = order[o]
      PROVE  rec'[o] = rec[o]
  <2>1. CASE Contract!Next
    <3>1. rec[o] \notin OpenStatuses
      BY <1>1 DEF OpenStatuses, Final
    <3> QED
      BY <1>1, <2>1, <3>1 DEF Contract!Next, Contract!Happen, Contract!WriteOpen,
         Contract!WriteEnd, Contract!Presume, Contract!Write, TypeOK
  <2> QED
    BY <1>1, <2>1 DEF ContractStep
<1>2. IInv /\ [Next]_vars =>
        [\A o \in Orders : rec[o] \in Final /\ rec[o] = order[o] => rec'[o] = rec[o]]_vars
  BY <1>1, StepKeepsContract DEF IInv
<1> QED
  BY <1>2, IInvHolds, PTL DEF Spec, TrueEndsStay
=============================================================================
