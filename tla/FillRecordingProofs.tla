------------------------ MODULE FillRecordingProofs ------------------------
(* Proofs about FillRecording, for every set of orders of every kind and   *)
(* every number of misses.                                                 *)
EXTENDS FillRecording, TLAPS

(* The statuses the exchange gives an order it took.                       *)
Taken == {"open", "filled", "canceled"}

(* An order's caller works on that order, a task on some order unless it   *)
(* is idle.                                                                *)
AboutOrders ==
  /\ \A o \in Orders : about[o] = o
  /\ \A c \in Callers : stage[c] # "idle" => about[c] \in Orders

(* A caller was answered with the status the exchange has, or with an      *)
(* "open" from before the order was finished.                              *)
AnswersAreTrue ==
  \A c \in Callers : answer[c] # "none" =>
    /\ about[c] \in Orders
    /\ answer[c] = exchange[about[c]] \/ (answer[c] = "open" /\ exchange[about[c]] \in Taken)

(* What a caller knows, by how far it is.                                  *)
StagesAreTrue ==
  \A c \in Callers :
    /\ stage[c] = "answered" => answer[c] # "none"
    /\ stage[c] \in {"polled", "reporting"} => answer[c] \in Taken
    /\ stage[c] \in {"executed", "accepted", "recorded", "closing"} => answer[c] = "filled"
    /\ stage[c] \in {"polling", "canceling", "canceled"} => exchange[about[c]] \in Taken
    /\ stage[c] \in {"hydrating", "claimed", "sent", "answered", "executed", "polling", "canceling",
                     "canceled", "confirming"} => c \in Orders

(* Only orders the exchange took have a record.                            *)
RecordsAreTaken == \A o \in Orders : status[o] # "none" => exchange[o] \in Taken

(* So did the orders the reconciler has yet to poll.                       *)
ListedAreTaken == \A o \in listed : exchange[o] \in Taken

IInv ==
  /\ TypeOK /\ AboutOrders /\ AnswersAreTrue /\ StagesAreTrue /\ RecordsAreTaken
  /\ FillNotForgotten

-----------------------------------------------------------------------------
LEMMA InitIInv == Init => IInv
<1> SUFFICES ASSUME Init PROVE IInv
  OBVIOUS
<1>1. TypeOK
  <2>1. misses \in 0..RemoveAfter - 1
    BY ConstantsAssumption DEF Init
  <2>2. answer \in [Callers -> Statuses] /\ stage \in [Callers -> Stages] /\ stamp \in [Callers -> 0..5]
    BY DEF Init, Statuses, Stages
  <2>3. about \in [Callers -> Orders \cup {"none"}]
    BY DEF Init
  <2>4. exchange \in [Orders -> Statuses] /\ amount \in [Orders -> Nat] /\ held \in Nat
    BY ConstantsAssumption DEF Init, Statuses
  <2>5. fetched \in [Fetchers -> Nat] /\ time \in [Orders -> 0..5]
    BY DEF Init
  <2> QED
    BY <2>1, <2>2, <2>3, <2>4, <2>5 DEF Init, TypeOK, Sources
<1>2. AboutOrders /\ AnswersAreTrue /\ StagesAreTrue /\ RecordsAreTaken /\ FillNotForgotten
  BY ConstantsAssumption DEF Init, AboutOrders, AnswersAreTrue, StagesAreTrue, RecordsAreTaken,
     FillNotForgotten, Callers
<1> QED
  BY <1>1, <1>2 DEF IInv

-----------------------------------------------------------------------------
(* The exchange only moves an order on: what callers were told, and what   *)
(* is on record, stays true.                                               *)
MovesOn(o) ==
  /\ exchange' = [exchange EXCEPT ![o] = exchange'[o]]
  /\ \/ exchange[o] = "none" /\ exchange'[o] \in Statuses
     \/ exchange[o] = "open" /\ exchange'[o] \in {"open", "filled", "canceled"}
     \/ exchange'[o] = exchange[o]

LEMMA MovingOn ==
  ASSUME IInv, NEW o \in Orders, MovesOn(o), UNCHANGED <<store, calls, counted>>
  PROVE  /\ exchange' \in [Orders -> Statuses]
         /\ AboutOrders' /\ AnswersAreTrue' /\ StagesAreTrue' /\ RecordsAreTaken'
         /\ FillNotForgotten'
<1> USE DEF IInv, MovesOn, store, calls
<1>1. exchange' \in [Orders -> Statuses]
  <2>1. exchange'[o] \in Statuses
    BY DEF TypeOK, Statuses, Final
  <2> QED
    BY <2>1 DEF TypeOK
<1>2. \A p \in Orders : exchange[p] \in Taken => exchange'[p] \in Taken
  BY DEF TypeOK, Taken
<1>3. \A p \in Orders : exchange[p] # "none" =>
        exchange'[p] = exchange[p] \/ (exchange[p] = "open" /\ exchange'[p] \in Taken)
  BY DEF TypeOK, Taken
<1>4. AboutOrders' /\ FillNotForgotten'
  BY DEF AboutOrders, FillNotForgotten, Busy
<1>5. AnswersAreTrue'
  BY <1>2, <1>3 DEF AnswersAreTrue
<1>6. StagesAreTrue'
  BY <1>2 DEF StagesAreTrue, AboutOrders, TypeOK
<1>7. RecordsAreTaken'
  BY <1>2 DEF RecordsAreTaken
<1> QED
  BY <1>1, <1>4, <1>5, <1>6, <1>7

LEMMA ExchangeIInv ==
  ASSUME IInv, NEW o \in Orders, Exchange(o)
  PROVE  IInv'
<1> USE DEF Exchange, Elsewhere, position, sync
<1>1. MovesOn(o)
  BY DEF IInv, TypeOK, MovesOn, Arrive, Reject, Fill, Cancel, Statuses, Final
<1>2. UNCHANGED <<store, position, calls, sync, counted>>
  BY DEF Arrive, Reject, Fill, Cancel
<1>3. amount' \in [Orders -> Nat] /\ held' \in Nat
  <2>1. CASE Arrive(o) \/ Reject(o) \/ Cancel(o)
    BY <2>1 DEF Arrive, Reject, Cancel, IInv, TypeOK
  <2>2. CASE Fill(o)
    BY <2>2 DEF Fill, IInv, TypeOK
  <2> QED
    BY <2>1, <2>2
<1>4. exchange' \in [Orders -> Statuses]
  BY <1>1, <1>2, MovingOn
<1>5. TypeOK'
  BY <1>2, <1>3, <1>4 DEF IInv, TypeOK, store, calls
<1> QED
  BY <1>1, <1>2, <1>5, MovingOn DEF IInv

-----------------------------------------------------------------------------
(* A step of one caller: only its own entries change, the exchange at most *)
(* moves on, and a fill that is put on record stays in somebody's hands.   *)
Handling == {"executed", "accepted", "recorded", "closing"}

OwnEntries(c) ==
  /\ stage' = [stage EXCEPT ![c] = stage'[c]] /\ stage'[c] \in Stages
  /\ answer' = [answer EXCEPT ![c] = answer'[c]] /\ answer'[c] \in Statuses
  /\ about' = [about EXCEPT ![c] = about'[c]] /\ about'[c] \in Orders \cup {"none"}

Onward ==
  \A p \in Orders : exchange[p] # "none" =>
    exchange'[p] = exchange[p] \/ (exchange[p] = "open" /\ exchange'[p] \in Taken)

Fits(c) ==
  /\ c \in Orders => about'[c] = c
  /\ stage'[c] # "idle" => about'[c] \in Orders
  /\ answer'[c] # "none" =>
       /\ about'[c] \in Orders
       /\ \/ answer'[c] = exchange'[about'[c]]
          \/ answer'[c] = "open" /\ exchange'[about'[c]] \in Taken
  /\ stage'[c] = "answered" => answer'[c] # "none"
  /\ stage'[c] \in {"polled", "reporting"} => answer'[c] \in Taken
  /\ stage'[c] \in Handling => answer'[c] = "filled"
  /\ stage'[c] \in {"polling", "canceling", "canceled"} => exchange'[about'[c]] \in Taken
  /\ stage'[c] \in {"hydrating", "claimed", "sent", "answered", "executed", "polling", "canceling",
                     "canceled", "confirming"} => c \in Orders

Untouched(p) == status'[p] = status[p] /\ source'[p] = source[p]

KeepsFills(c) ==
  /\ counted \subseteq counted'
  /\ stage[c] \in Handling =>
       about[c] \in counted' \/ (stage'[c] \in Handling /\ about'[c] = about[c])
  /\ \A p \in Orders : ~Untouched(p) =>
       /\ exchange'[p] \in Taken
       /\ status'[p] = "filled" => p \in counted' \/ (about'[c] = p /\ stage'[c] \in Handling)

LEMMA CallerStep ==
  ASSUME IInv, NEW c \in Callers, OwnEntries(c), Onward, Fits(c), KeepsFills(c)
  PROVE  AboutOrders' /\ AnswersAreTrue' /\ StagesAreTrue' /\ RecordsAreTaken' /\ FillNotForgotten'
<1> USE DEF IInv
<1>1. \A d \in Callers : d # c =>
        stage'[d] = stage[d] /\ answer'[d] = answer[d] /\ about'[d] = about[d]
  BY DEF OwnEntries, TypeOK
<1>2. \A p \in Orders : exchange[p] \in Taken => exchange'[p] \in Taken
  BY DEF Onward, Taken
<1>3. AboutOrders'
  BY <1>1 DEF AboutOrders, Fits, Callers
<1>4. AnswersAreTrue'
  <2> SUFFICES ASSUME NEW d \in Callers, answer'[d] # "none"
               PROVE  /\ about'[d] \in Orders
                      /\ \/ answer'[d] = exchange'[about'[d]]
                         \/ answer'[d] = "open" /\ exchange'[about'[d]] \in Taken
    BY DEF AnswersAreTrue
  <2>1. CASE d = c
    BY <2>1 DEF Fits
  <2>2. CASE d # c
    BY <2>2, <1>1, <1>2 DEF AnswersAreTrue, Onward
  <2> QED
    BY <2>1, <2>2
<1>5. StagesAreTrue'
  <2> SUFFICES ASSUME NEW d \in Callers
               PROVE  /\ stage'[d] = "answered" => answer'[d] # "none"
                      /\ stage'[d] \in {"polled", "reporting"} => answer'[d] \in Taken
                      /\ stage'[d] \in Handling => answer'[d] = "filled"
                      /\ stage'[d] \in {"polling", "canceling", "canceled"} => exchange'[about'[d]] \in Taken
                      /\ stage'[d] \in {"hydrating", "claimed", "sent", "answered", "executed", "polling",
                                        "canceling", "canceled", "confirming"} => d \in Orders
    BY DEF StagesAreTrue, Handling
  <2>1. CASE d = c
    BY <2>1 DEF Fits
  <2>2. CASE d # c
    <3>1. stage[d] \in {"polling", "canceling", "canceled"} => about[d] \in Orders
      BY DEF AboutOrders
    <3> QED
      BY <2>2, <3>1, <1>1, <1>2 DEF StagesAreTrue, Handling
  <2> QED
    BY <2>1, <2>2
<1>6. RecordsAreTaken'
  BY <1>2 DEF RecordsAreTaken, KeepsFills, Untouched
<1>7. FillNotForgotten'
  <2> SUFFICES ASSUME NEW o \in Orders, status'[o] = "filled", source'[o] # "exchange_sync"
               PROVE  o \in counted' \/ \E d \in Callers : about'[d] = o /\ stage'[d] \in Handling
    BY DEF FillNotForgotten, Busy, Handling
  <2>1. CASE ~Untouched(o)
    BY <2>1 DEF KeepsFills
  <2>2. CASE Untouched(o) /\ o \in counted
    BY <2>2 DEF KeepsFills
  <2>3. CASE Untouched(o) /\ o \notin counted
    <3>1. PICK d \in Callers : about[d] = o /\ stage[d] \in Handling
      BY <2>3 DEF Untouched, FillNotForgotten, Busy, Handling
    <3>2. CASE d = c
      BY <3>1, <3>2 DEF KeepsFills, Untouched
    <3>3. CASE d # c
      BY <3>1, <3>3, <1>1
    <3> QED
      BY <3>2, <3>3
  <2> QED
    BY <2>1, <2>2, <2>3
<1> QED
  BY <1>3, <1>4, <1>5, <1>6, <1>7

-----------------------------------------------------------------------------
(* What record() does to the store. *)
StoreTypeOK ==
  /\ status \in [Orders -> {"none", "open", "filled", "canceled"}]
  /\ time \in [Orders -> 0..5] /\ source \in [Orders -> Sources]

LEMMA Recording ==
  ASSUME TypeOK, NEW o \in Orders, NEW s \in Taken, NEW t \in 0..5, NEW from,
         Record(o, s, t, from)
  PROVE  /\ StoreTypeOK'
         /\ \A p \in Orders : ~Untouched(p) =>
              p = o /\ status'[p] = s /\ Accepts(o, s, t, from)
<1>1. CASE Accepts(o, s, t, from)
  <2>1. (IF from \in Sources THEN from ELSE "other") \in Sources
    BY DEF Sources
  <2> QED
    BY <1>1, <2>1 DEF Record, StoreTypeOK, TypeOK, Taken, Untouched
<1>2. CASE ~Accepts(o, s, t, from)
  BY <1>2 DEF Record, StoreTypeOK, TypeOK, store, Untouched
<1> QED
  BY <1>1, <1>2

LEMMA Times ==
  ASSUME NEW o, NEW s PROVE Now(o) \in 0..5 /\ EventTime(s) \in 0..5
  BY DEF Now, EventTime

-----------------------------------------------------------------------------
(* The worker and the guard. *)
LEMMA PlacingIInv ==
  ASSUME IInv, NEW o \in Orders,
         Enter(o) \/ Exit(o) \/ Hydrated(o) \/ Guard(o) \/ MarkClosing(o)
  PROVE  IInv'
<1> USE DEF IInv, At, Send, venue, store, position, calls, sync
<1>0. o \in Callers /\ about[o] = o
  BY DEF Callers, AboutOrders
<1>1. /\ OwnEntries(o)
      /\ stage'[o] \in {"sent", "hydrating", "done", "claimed"}
      /\ UNCHANGED <<exchange, held, store, answer, about, stamp, misses, syncing, listed, counted>>
      /\ stage[o] \notin Handling
  BY <1>0 DEF Enter, Exit, Hydrated, Guard, MarkClosing, OwnEntries, TypeOK, Stages, Handling
<1>2. Fits(o)
  BY <1>0, <1>1 DEF Fits, AnswersAreTrue, TypeOK, Handling
<1>3. Onward /\ KeepsFills(o)
  BY <1>1 DEF Onward, KeepsFills, Untouched
<1>4. ToClose \in Nat
  BY DEF ToClose, TypeOK
<1>5. /\ amount' \in [Orders -> Nat] /\ fetched' \in [Fetchers -> Nat]
      /\ side' \in {"long", "short"} /\ size' \in Nat /\ closing' \in BOOLEAN
  <2>1. CASE Enter(o)
    BY <2>1, ConstantsAssumption DEF Enter, TypeOK
  <2>2. CASE Exit(o)
    BY <2>2, <1>4 DEF Exit, TypeOK
  <2>3. CASE Hydrated(o)
    <3>1. o \in Fetchers /\ fetched[o] \in Nat
      BY <2>3 DEF Hydrated, Fetchers, TypeOK
    <3> QED
      BY <2>3, <3>1 DEF Hydrated, Replace, TypeOK
  <2>4. CASE Guard(o)
    BY <2>4, <1>4 DEF Guard, TypeOK
  <2>5. CASE MarkClosing(o)
    BY <2>5 DEF MarkClosing, TypeOK
  <2> QED
    BY <2>1, <2>2, <2>3, <2>4, <2>5
<1>6. TypeOK'
  BY <1>1, <1>5 DEF TypeOK, OwnEntries
<1> QED
  BY <1>0, <1>1, <1>2, <1>3, <1>6, CallerStep

LEMMA AskingIInv ==
  ASSUME IInv, NEW o \in Orders,
         Answered(o) \/ WsResolved(o) \/ Poll(o) \/ GiveUp(o) \/ Confirm(o)
  PROVE  IInv'
<1> USE DEF IInv, At, Ask, venue, store, position, calls, sync
<1>0. o \in Callers /\ about[o] = o /\ exchange[o] \in Statuses
  BY DEF Callers, AboutOrders, TypeOK
<1>1. OwnEntries(o) /\ UNCHANGED <<venue, store, position, about, stamp, sync, counted>>
  BY <1>0 DEF Answered, WsResolved, Poll, GiveUp, Confirm, OwnEntries, TypeOK, Stages
<1>2. /\ stage[o] \in {"sent", "polling", "confirming"}
      /\ stage'[o] \in {"answered", "reporting", "canceling", "done"}
      /\ answer'[o] \in {answer[o], exchange[o]}
      /\ stage'[o] = "answered" => answer'[o] # "none"
      /\ stage'[o] = "reporting" => stage[o] = "polling" /\ answer'[o] = exchange[o]
      /\ stage'[o] = "canceling" => stage[o] = "polling"
  BY <1>0 DEF Answered, WsResolved, Poll, GiveUp, Confirm, TypeOK
<1>3. stage[o] = "polling" => exchange[o] \in Taken
  BY <1>0 DEF StagesAreTrue
<1>4. Fits(o)
  BY <1>0, <1>1, <1>2, <1>3 DEF Fits, AnswersAreTrue, Handling
<1>5. Onward /\ KeepsFills(o)
  BY <1>1, <1>2 DEF Onward, KeepsFills, Untouched, Handling
<1>6. TypeOK'
  BY <1>1 DEF TypeOK, OwnEntries
<1> QED
  BY <1>0, <1>1, <1>4, <1>5, <1>6, CallerStep

LEMMA ExecutedIInv ==
  ASSUME IInv, NEW o \in Orders, Executed(o)
  PROVE  IInv'
<1> USE DEF IInv, At, venue, store, position, calls, sync
<1>0. o \in Callers /\ about[o] = o /\ answer[o] \in Statuses /\ answer[o] # "none"
  BY DEF Callers, AboutOrders, TypeOK, StagesAreTrue, Executed
<1>1. /\ stage[o] = "answered"
      /\ stage'[o] \in {"executed", "polling", "done"}
      /\ stage'[o] = "executed" <=> answer[o] = "filled"
      /\ stage'[o] = "polling" => answer[o] = "open"
      /\ OwnEntries(o)
      /\ UNCHANGED <<venue, answer, about, stamp, sync, counted>>
  BY <1>0 DEF Executed, OwnEntries, TypeOK, Stages
<1>2. answer[o] \in Taken => exchange[o] \in Taken
  BY <1>0 DEF AnswersAreTrue, Taken
<1>3. /\ StoreTypeOK'
      /\ \A p \in Orders : ~Untouched(p) =>
           p = o /\ status'[p] = answer[o] /\ answer[o] \in Taken
  <2>1. CASE answer[o] \in {"rejected", "noposition"}
    BY <2>1 DEF Executed, StoreTypeOK, TypeOK, Untouched
  <2>2. CASE answer[o] \notin {"rejected", "noposition"}
    <3>1. answer[o] \in Taken
      BY <2>2, <1>0 DEF Statuses, Final, Taken
    <3>2. Record(o, answer[o], Now(o), "local")
      BY <2>2 DEF Executed
    <3> QED
      BY <3>1, <3>2, Times, Recording
  <2> QED
    BY <2>1, <2>2
<1>4. Fits(o)
  BY <1>0, <1>1, <1>2 DEF Fits, AnswersAreTrue, Handling, Taken
<1>5. Onward /\ KeepsFills(o)
  BY <1>0, <1>1, <1>2, <1>3 DEF Onward, KeepsFills, Untouched, Handling
<1>6. side' \in {"long", "short"} /\ size' \in Nat /\ closing' \in BOOLEAN
  <2>1. CASE answer[o] = "noposition"
    <3>1. finalize_close
      BY <2>1, Zenon DEF Executed
    <3> QED
      BY <3>1 DEF finalize_close, Replace
  <2>2. CASE answer[o] # "noposition"
    BY <2>2 DEF Executed, TypeOK
  <2> QED
    BY <2>1, <2>2
<1>7. TypeOK'
  BY <1>1, <1>3, <1>6 DEF TypeOK, OwnEntries, StoreTypeOK
<1> QED
  BY <1>0, <1>1, <1>4, <1>5, <1>7, CallerStep

(* A position stays one of long or short with a natural size. *)
PositionTypeOK == side \in {"long", "short"} /\ size \in Nat /\ closing \in BOOLEAN

LEMMA Positions ==
  ASSUME TypeOK
  PROVE  /\ \A d \in {"long", "short"}, n \in Nat : Upsert(d, n) \/ Replace(d, n) => PositionTypeOK'
         /\ finalize_close \/ UNCHANGED position => PositionTypeOK'
<1>1. ASSUME NEW d \in {"long", "short"}, NEW n \in Nat, Upsert(d, n) \/ Replace(d, n)
      PROVE  PositionTypeOK'
  <2>1. CASE Upsert(d, n)
    <3>1. size' \in {size + n, n}
      BY <2>1 DEF Upsert
    <3>2. size' \in Nat
      BY <3>1 DEF TypeOK
    <3> QED
      BY <2>1, <3>2 DEF Upsert, PositionTypeOK
  <2>2. CASE Replace(d, n)
    BY <2>2 DEF Replace, PositionTypeOK
  <2> QED
    BY <1>1, <2>1, <2>2
<1>2. ASSUME finalize_close PROVE PositionTypeOK'
  BY <1>2 DEF finalize_close, Replace, PositionTypeOK
<1>3. ASSUME UNCHANGED position PROVE PositionTypeOK'
  BY <1>3 DEF position, PositionTypeOK, TypeOK
<1> QED
  BY <1>1, <1>2, <1>3

LEMMA SettleIInv ==
  ASSUME IInv, NEW o \in Orders, Settle(o)
  PROVE  IInv'
<1> USE DEF IInv, At, venue, store, position, calls, sync
<1>0. o \in Callers /\ about[o] = o /\ amount[o] \in Nat
  BY DEF Callers, AboutOrders, TypeOK
<1>1. /\ OwnEntries(o) /\ stage[o] = "executed" /\ stage'[o] = "done"
      /\ counted' = counted \cup {o}
      /\ UNCHANGED <<venue, answer, about, stamp, sync>>
  BY <1>0 DEF Settle, OwnEntries, TypeOK, Stages
<1>2. exchange[o] = "filled"
  BY <1>0, <1>1 DEF StagesAreTrue, AnswersAreTrue, Taken
<1>3. /\ StoreTypeOK'
      /\ \A p \in Orders : ~Untouched(p) => p = o
  <2>1. CASE UNCHANGED store
    BY <2>1 DEF StoreTypeOK, TypeOK, Untouched
  <2>2. ASSUME NEW x \in {EventTime("filled"), Now(o)}, Record(o, "filled", x, "exchange_reconcile")
        PROVE  StoreTypeOK' /\ \A p \in Orders : ~Untouched(p) => p = o
    BY <2>2, Times, Recording DEF Taken
  <2> QED
    BY <2>1, <2>2, Zenon DEF Settle, RecordClose
<1>4. PositionTypeOK'
  <2>1. Upsert("long", amount[o]) \/ finalize_close
    BY Zenon DEF Settle
  <2> QED
    BY <1>0, <2>1, Positions
<1>5. Fits(o)
  BY <1>0, <1>1 DEF Fits, AnswersAreTrue, Handling
<1>6. Onward /\ KeepsFills(o)
  BY <1>0, <1>1, <1>2, <1>3 DEF Onward, KeepsFills, Untouched, Handling, Taken
<1>7. TypeOK'
  BY <1>1, <1>3, <1>4 DEF TypeOK, OwnEntries, PositionTypeOK, StoreTypeOK
<1> QED
  BY <1>0, <1>1, <1>5, <1>6, <1>7, CallerStep

LEMMA CancelingIInv ==
  ASSUME IInv, NEW o \in Orders, RequestCancel(o) \/ RecordCancel(o)
  PROVE  IInv'
<1> USE DEF IInv, At, venue, store, position, calls, sync
<1>0. o \in Callers /\ about[o] = o
  BY DEF Callers, AboutOrders
<1>1. /\ OwnEntries(o) /\ stage[o] \in {"canceling", "canceled"}
      /\ stage'[o] \in {"canceled", "confirming"}
      /\ UNCHANGED <<amount, held, position, answer, about, stamp, sync, counted>>
  BY <1>0 DEF RequestCancel, RecordCancel, OwnEntries, TypeOK, Stages
<1>2. exchange[o] \in Taken
  BY <1>0, <1>1 DEF StagesAreTrue
<1>3. /\ exchange' \in [Orders -> Statuses] /\ exchange'[o] \in Taken
      /\ Onward
  BY <1>2 DEF RequestCancel, RecordCancel, TypeOK, Onward, Taken, Statuses, Final
<1>4. /\ StoreTypeOK'
      /\ \A p \in Orders : ~Untouched(p) => p = o /\ status'[p] = "canceled"
  <2>1. CASE RequestCancel(o)
    BY <2>1 DEF RequestCancel, StoreTypeOK, TypeOK, Untouched
  <2>2. CASE RecordCancel(o)
    <3>1. Record(o, "canceled", Now(o), "local")
      BY <2>2 DEF RecordCancel
    <3> QED
      BY <3>1, Times, Recording DEF Taken
  <2> QED
    BY <2>1, <2>2
<1>5. Fits(o)
  BY <1>0, <1>1, <1>3 DEF Fits, AnswersAreTrue, Onward, Handling
<1>6. KeepsFills(o)
  BY <1>1, <1>3, <1>4 DEF KeepsFills, Untouched, Handling
<1>7. TypeOK'
  BY <1>1, <1>3, <1>4 DEF TypeOK, OwnEntries, StoreTypeOK
<1> QED
  BY <1>0, <1>1, <1>3, <1>5, <1>6, <1>7, CallerStep

LEMMA GuardClosedIInv ==
  ASSUME IInv, NEW o \in Orders, GuardClosed(o)
  PROVE  IInv'
<1> USE DEF IInv, At, venue, store, position, calls, sync
<1>0. o \in Callers /\ about[o] = o
  BY DEF Callers, AboutOrders
<1>1. /\ OwnEntries(o) /\ stage[o] = "answered" /\ stage'[o] = "done"
      /\ counted \subseteq counted' /\ counted' \subseteq Orders
      /\ UNCHANGED <<venue, store, answer, about, stamp, sync>>
  BY <1>0 DEF GuardClosed, OwnEntries, TypeOK, Stages
<1>2. PositionTypeOK'
  <2>1. finalize_close \/ UNCHANGED position
    BY Zenon DEF GuardClosed
  <2> QED
    BY <2>1, Positions
<1>3. Fits(o)
  BY <1>0, <1>1 DEF Fits, AnswersAreTrue, Handling
<1>4. Onward /\ KeepsFills(o)
  BY <1>1 DEF Onward, KeepsFills, Untouched, Handling
<1>5. TypeOK'
  BY <1>1, <1>2 DEF TypeOK, OwnEntries, PositionTypeOK
<1> QED
  BY <1>0, <1>1, <1>3, <1>4, <1>5, CallerStep

-----------------------------------------------------------------------------
(* The consumer, the reconciler and record_order_status. *)
LEMMA TasksAreNoOrders ==
  \A c \in Tasks : c \in Callers /\ c \notin Orders
  BY ConstantsAssumption DEF Callers

LEMMA TakingIInv ==
  ASSUME IInv, ListedAreTaken, NEW o \in Orders, Receive(o) \/ Reconcile(o)
  PROVE  IInv'
<1> USE DEF IInv, At, Take, venue, store, position, calls, sync
<1> DEFINE c == IF Receive(o) THEN "consumer" ELSE "reconciler"
<1>0. c \in Tasks /\ c \in Callers /\ c \notin Orders
  BY TasksAreNoOrders DEF Tasks
<1>1. PICK s \in Statuses :
        /\ s \in Taken
        /\ s = exchange[o] \/ s = "open"
        /\ exchange[o] \in Taken
        /\ stage[c] = "idle"
        /\ stage' = [stage EXCEPT ![c] = IF Receive(o) THEN "reporting" ELSE "polled"]
        /\ answer' = [answer EXCEPT ![c] = s] /\ about' = [about EXCEPT ![c] = o]
        /\ UNCHANGED <<venue, store, position, stamp, misses, fetched, syncing, counted>>
        /\ listed' \subseteq Orders
  <2>1. CASE Receive(o)
    <3>1. PICK s \in Updates(o) : Take("consumer", o, s)
      BY <2>1 DEF Receive
    <3>2. s \in Taken /\ (s = exchange[o] \/ s = "open") /\ exchange[o] \in Taken
      BY DEF Updates, Taken
    <3>3. s \in Statuses
      BY <3>2 DEF Taken, Statuses, Final
    <3> QED
      BY <2>1, <3>1, <3>2, <3>3 DEF Receive, TypeOK
  <2>2. CASE ~Receive(o)
    <3>1. PICK due \in IF listed = {} THEN SUBSET Open ELSE {listed} :
            o \in due /\ listed' = due \ {o}
      BY <2>2 DEF Reconcile
    <3>2. o \in listed \cup Open /\ listed' \subseteq Orders
      BY <3>1 DEF Open, TypeOK
    <3>3. exchange[o] \in Taken /\ exchange[o] \in Statuses
      BY <3>2 DEF ListedAreTaken, Open, RecordsAreTaken, TypeOK
    <3> QED
      BY <2>2, <3>2, <3>3 DEF Reconcile
  <2> QED
    BY <2>1, <2>2
<1>2. stage'[c] \in {"reporting", "polled"} /\ answer'[c] = s /\ about'[c] = o
  BY <1>0, <1>1 DEF TypeOK
<1> HIDE DEF c
<1>3. OwnEntries(c)
  BY <1>0, <1>1, <1>2 DEF OwnEntries, Stages
<1>4. Fits(c)
  BY <1>0, <1>1, <1>2 DEF Fits, Handling
<1>5. Onward /\ KeepsFills(c)
  BY <1>0, <1>1 DEF Onward, KeepsFills, Untouched, Handling
<1>6. TypeOK'
  BY <1>1, <1>3 DEF TypeOK, OwnEntries
<1> QED
  BY <1>0, <1>3, <1>4, <1>5, <1>6, CallerStep

(* Where a caller is once it returns from record_order_status.             *)
LEMMA Returning ==
  ASSUME IInv, NEW c \in Callers, Return(c), answer[c] \in Taken,
         UNCHANGED <<exchange, amount, held>>
  PROVE  /\ OwnEntries(c) /\ Fits(c) /\ stage'[c] \notin Handling
         /\ stamp' \in [Callers -> 0..5]
<1> USE DEF IInv, Return, At
<1>1. about[c] \in Orders /\ exchange[about[c]] \in Taken
  BY DEF AnswersAreTrue, Taken
<1>2. CASE c \in Tasks
  <2>1. c \notin Orders
    BY <1>2, TasksAreNoOrders
  <2>2. stage'[c] = "idle" /\ answer'[c] = "none" /\ about'[c] = "none"
    <3>1. stage'[c] = "idle"
      BY <1>2 DEF TypeOK
    <3> QED
      BY <1>2, <3>1 DEF TypeOK
  <2>3. OwnEntries(c)
    BY <2>2 DEF OwnEntries, Stages, Statuses, TypeOK
  <2>4. Fits(c) /\ stage'[c] \notin Handling
    BY <2>1, <2>2 DEF Fits, Handling
  <2> QED
    BY <2>3, <2>4 DEF TypeOK
<1>3. CASE c \notin Tasks
  <2>1. c \in Orders /\ about[c] = c
    BY <1>3 DEF Callers, AboutOrders
  <2>2. /\ stage'[c] = IF answer[c] = "open" THEN "polling" ELSE "done"
        /\ answer'[c] = answer[c] /\ about'[c] = about[c]
    BY <1>3 DEF TypeOK
  <2>3. OwnEntries(c)
    BY <2>2 DEF OwnEntries, Stages, TypeOK
  <2>4. Fits(c) /\ stage'[c] \notin Handling
    BY <1>1, <2>1, <2>2 DEF Fits, Handling, AnswersAreTrue
  <2> QED
    BY <2>3, <2>4 DEF TypeOK
<1> QED
  BY <1>2, <1>3

LEMMA CompareIInv ==
  ASSUME IInv, Compare
  PROVE  IInv'
<1> USE DEF IInv, At, venue, store, position, calls, sync
<1> DEFINE c == "reconciler"
<1>0. c \in Callers /\ c \notin Orders
  BY TasksAreNoOrders DEF Tasks
<1>1. stage[c] = "polled" /\ UNCHANGED <<venue, store, position, sync, counted>>
  BY DEF Compare
<1>2. answer[c] \in Taken /\ about[c] \in Orders
  BY <1>0, <1>1 DEF StagesAreTrue, AboutOrders
<1>3. OwnEntries(c) /\ Fits(c) /\ stage'[c] \notin Handling /\ stamp' \in [Callers -> 0..5]
  <2>1. CASE Return(c)
    BY <2>1, <1>0, <1>1, <1>2, Returning
  <2>2. CASE stage' = [stage EXCEPT ![c] = "reporting"] /\ UNCHANGED <<answer, about, stamp>>
    <3>1. OwnEntries(c) /\ stage'[c] = "reporting" /\ stamp' \in [Callers -> 0..5]
      BY <2>2, <1>0 DEF OwnEntries, TypeOK, Stages
    <3> QED
      BY <2>2, <3>1, <1>0, <1>1, <1>2 DEF Fits, AnswersAreTrue, Handling
  <2> QED
    BY <2>1, <2>2, Zenon DEF Compare
<1>4. Onward /\ KeepsFills(c)
  BY <1>1 DEF Onward, KeepsFills, Untouched, Handling
<1>5. TypeOK'
  BY <1>1, <1>3 DEF TypeOK, OwnEntries
<1> QED
  BY <1>0, <1>3, <1>4, <1>5, CallerStep

LEMMA JudgeIInv ==
  ASSUME IInv, NEW c \in Callers, Judge(c)
  PROVE  IInv'
<1> USE DEF IInv, At, venue, store, position, calls, sync
<1> DEFINE o == about[c]
<1>0. /\ stage[c] = "reporting" /\ answer[c] \in Taken /\ o \in Orders
      /\ exchange[o] \in Taken
      /\ UNCHANGED <<venue, position, sync, counted>>
  BY DEF Judge, StagesAreTrue, AboutOrders, AnswersAreTrue, Taken
<1>1. Timestamp(c) \in 0..5
  BY Times DEF Timestamp
<1>2. CASE answer[c] = "filled" /\ Accepts(o, "filled", Timestamp(c), Source(c))
  <2>1. /\ stage' = [stage EXCEPT ![c] = "accepted"]
        /\ stamp' = [stamp EXCEPT ![c] = Timestamp(c)]
        /\ UNCHANGED <<store, answer, about>>
    BY <1>2, Zenon DEF Judge
  <2>2. OwnEntries(c) /\ stage'[c] = "accepted" /\ stamp' \in [Callers -> 0..5]
    BY <1>1, <2>1 DEF OwnEntries, TypeOK, Stages
  <2>3. Fits(c)
    BY <1>0, <1>2, <2>1, <2>2 DEF Fits, AboutOrders, AnswersAreTrue, Handling
  <2>4. Onward /\ KeepsFills(c)
    BY <1>0, <2>1 DEF Onward, KeepsFills, Untouched, Handling
  <2>5. TypeOK'
    BY <1>0, <2>1, <2>2 DEF TypeOK, OwnEntries
  <2> QED
    BY <2>2, <2>3, <2>4, <2>5, CallerStep
<1>3. CASE ~(answer[c] = "filled" /\ Accepts(o, "filled", Timestamp(c), Source(c)))
  <2>1. Return(c)
    BY <1>3, Zenon DEF Judge
  <2>2. StoreTypeOK' /\ \A p \in Orders : ~Untouched(p) => p = o /\ status'[p] # "filled"
    <3>1. CASE answer[c] = "filled"
      <4>1. UNCHANGED store
        BY <1>3, <3>1, Zenon DEF Judge
      <4> QED
        BY <4>1 DEF StoreTypeOK, TypeOK, Untouched
    <3>2. CASE answer[c] # "filled"
      <4>1. Record(o, answer[c], Timestamp(c), Source(c))
        BY <1>3, <3>2, Zenon DEF Judge
      <4> QED
        BY <4>1, <3>2, <1>0, <1>1, Recording
    <3> QED
      BY <3>1, <3>2
  <2>3. OwnEntries(c) /\ Fits(c) /\ stamp' \in [Callers -> 0..5]
    BY <1>0, <2>1, Returning
  <2>4. Onward /\ KeepsFills(c)
    BY <1>0, <2>2 DEF Onward, KeepsFills, Untouched, Handling
  <2>5. TypeOK'
    BY <1>0, <2>2, <2>3 DEF TypeOK, OwnEntries, StoreTypeOK
  <2> QED
    BY <2>3, <2>4, <2>5, CallerStep
<1> QED
  BY <1>2, <1>3

(* The steps of a caller that has a fill in its hands.                     *)
LEMMA RecordFillIInv ==
  ASSUME IInv, NEW c \in Callers, RecordFill(c)
  PROVE  IInv'
<1> USE DEF IInv, At, venue, store, position, calls, sync
<1> DEFINE o == about[c]
<1>0. /\ stage[c] = "accepted" /\ answer[c] = "filled" /\ o \in Orders
      /\ exchange[o] = "filled" /\ stamp[c] \in 0..5
      /\ stage' = [stage EXCEPT ![c] = "recorded"]
      /\ UNCHANGED <<venue, position, answer, about, stamp, sync, counted>>
      /\ Record(o, "filled", stamp[c], Source(c))
  BY DEF RecordFill, StagesAreTrue, AboutOrders, AnswersAreTrue, TypeOK
<1>1. StoreTypeOK' /\ \A p \in Orders : ~Untouched(p) => p = o
  BY <1>0, Recording DEF Taken
<1>2. OwnEntries(c) /\ stage'[c] = "recorded"
  BY <1>0 DEF OwnEntries, TypeOK, Stages
<1>3. Fits(c)
  BY <1>0, <1>2 DEF Fits, AboutOrders, Handling
<1>4. Onward /\ KeepsFills(c)
  BY <1>0, <1>1, <1>2 DEF Onward, KeepsFills, Untouched, Handling, Taken
<1>5. TypeOK'
  BY <1>0, <1>1, <1>2 DEF TypeOK, OwnEntries, StoreTypeOK
<1> QED
  BY <1>2, <1>3, <1>4, <1>5, CallerStep

LEMMA ApplyIInv ==
  ASSUME IInv, NEW c \in Callers, Apply(c)
  PROVE  IInv'
<1> USE DEF IInv, At, venue, store, position, calls, sync
<1> DEFINE o == about[c]
<1>0. /\ stage[c] = "recorded" /\ answer[c] = "filled" /\ o \in Orders
      /\ exchange[o] = "filled" /\ amount[o] \in Nat
      /\ UNCHANGED <<venue, store, sync>>
  BY DEF Apply, StagesAreTrue, AboutOrders, AnswersAreTrue, TypeOK
<1>1. CASE Visible /\ side # Direction(o)
  <2>1. /\ stage' = [stage EXCEPT ![c] = "closing"]
        /\ UNCHANGED <<position, counted, answer, about, stamp>>
    BY <1>1, Zenon DEF Apply
  <2>2. OwnEntries(c) /\ stage'[c] = "closing"
    BY <2>1 DEF OwnEntries, TypeOK, Stages
  <2>3. Fits(c)
    BY <1>0, <2>1, <2>2 DEF Fits, AboutOrders, Handling
  <2>4. Onward /\ KeepsFills(c)
    BY <1>0, <2>1, <2>2 DEF Onward, KeepsFills, Untouched, Handling
  <2>5. TypeOK'
    BY <1>0, <2>1, <2>2 DEF TypeOK, OwnEntries
  <2> QED
    BY <2>2, <2>3, <2>4, <2>5, CallerStep
<1>2. CASE ~(Visible /\ side # Direction(o))
  <2>1. Return(c) /\ counted' = counted \cup {o}
    BY <1>2, Zenon DEF Apply
  <2>2. PositionTypeOK'
    <3>1. UNCHANGED position \/ Upsert(Direction(o), amount[o])
      BY <1>2, Zenon DEF Apply
    <3>2. Direction(o) \in {"long", "short"}
      BY DEF Direction
    <3> QED
      BY <1>0, <3>1, <3>2, Positions
  <2>3. OwnEntries(c) /\ Fits(c) /\ stamp' \in [Callers -> 0..5]
    BY <1>0, <2>1, Returning DEF Taken
  <2>4. Onward /\ KeepsFills(c)
    BY <1>0, <2>1 DEF Onward, KeepsFills, Untouched
  <2>5. TypeOK'
    BY <1>0, <2>1, <2>2, <2>3 DEF TypeOK, OwnEntries, PositionTypeOK
  <2> QED
    BY <2>3, <2>4, <2>5, CallerStep
<1> QED
  BY <1>1, <1>2

LEMMA CloseIInv ==
  ASSUME IInv, NEW c \in Callers, Close(c)
  PROVE  IInv'
<1> USE DEF IInv, At, venue, store, position, calls, sync
<1> DEFINE o == about[c]
<1>0. /\ stage[c] = "closing" /\ answer[c] = "filled" /\ o \in Orders
      /\ exchange[o] = "filled" /\ stamp[c] \in 0..5
      /\ counted' = counted \cup {o}
      /\ UNCHANGED <<venue, sync>>
  BY DEF Close, StagesAreTrue, AboutOrders, AnswersAreTrue, TypeOK
<1>1. RecordClose(o, stamp[c]) /\ finalize_close /\ Return(c)
  BY Zenon DEF Close
<1>2. StoreTypeOK' /\ \A p \in Orders : ~Untouched(p) => p = o
  <2>1. PICK x \in {EventTime("filled"), stamp[c]} : Record(o, "filled", x, "exchange_reconcile")
    BY <1>1 DEF RecordClose
  <2>2. x \in 0..5
    BY <1>0, Times
  <2> QED
    BY <1>0, <2>1, <2>2, Recording DEF Taken
<1>3. PositionTypeOK'
  BY <1>1, Positions
<1>4. OwnEntries(c) /\ Fits(c) /\ stamp' \in [Callers -> 0..5]
  BY <1>0, <1>1, Returning DEF Taken
<1>5. Onward /\ KeepsFills(c)
  BY <1>0, <1>2 DEF Onward, KeepsFills, Untouched, Taken
<1>6. TypeOK'
  BY <1>0, <1>2, <1>3, <1>4 DEF TypeOK, OwnEntries, PositionTypeOK, StoreTypeOK
<1> QED
  BY <1>4, <1>5, <1>6, CallerStep

-----------------------------------------------------------------------------
LEMMA SyncIInv ==
  ASSUME IInv, Fetch \/ Sync
  PROVE  IInv'
<1> USE DEF IInv, venue, store, position, calls, sync
<1>1. UNCHANGED <<venue, store, calls, listed, counted>>
  BY DEF Fetch, Sync
<1>2. misses' \in 0..RemoveAfter - 1
  <2>1. CASE Fetch
    BY <2>1 DEF Fetch, TypeOK
  <2>2. CASE Sync
    <3>1. misses' \in {0, misses} \/ (misses' = misses + 1 /\ ~RemovalDue)
      BY <2>2 DEF Sync
    <3> QED
      BY <3>1, ConstantsAssumption DEF RemovalDue, TypeOK
  <2> QED
    BY <2>1, <2>2
<1>3. fetched' \in [Fetchers -> Nat] /\ syncing' \in BOOLEAN
  <2>1. \E n \in Nat : fetched' = [fetched EXCEPT !["sync"] = n]
    <3>1. held \in Nat /\ 0 \in Nat
      BY DEF TypeOK
    <3> QED
      BY <3>1 DEF Fetch, Sync
  <2>2. syncing' \in BOOLEAN
    BY DEF Fetch, Sync
  <2> QED
    BY <2>1, <2>2 DEF TypeOK
<1>4. PositionTypeOK'
  <2>1. CASE Fetch
    BY <2>1, Positions DEF Fetch
  <2>2. CASE Sync
    <3>1. fetched["sync"] \in Nat
      BY DEF TypeOK, Fetchers
    <3>2. finalize_close \/ UNCHANGED position \/ Replace("long", fetched["sync"])
      BY <2>2, Zenon DEF Sync
    <3> QED
      BY <3>1, <3>2, Positions
  <2> QED
    BY <2>1, <2>2
<1>5. TypeOK'
  BY <1>1, <1>2, <1>3, <1>4 DEF TypeOK, PositionTypeOK
<1>6. AboutOrders' /\ AnswersAreTrue' /\ StagesAreTrue' /\ RecordsAreTaken' /\ FillNotForgotten'
  BY <1>1 DEF AboutOrders, AnswersAreTrue, StagesAreTrue, RecordsAreTaken, FillNotForgotten, Busy
<1> QED
  BY <1>5, <1>6

LEMMA SyncExecutionsIInv ==
  ASSUME IInv, NEW o \in Orders, SyncExecutions(o)
  PROVE  IInv'
<1> USE DEF IInv, venue, position, calls, sync
<1>1. /\ exchange[o] = "filled" /\ UNCHANGED <<venue, position, calls, sync, counted>>
      /\ Record(o, "filled", EventTime("filled"), "exchange_sync")
  BY DEF SyncExecutions
<1>2. StoreTypeOK' /\ \A p \in Orders : ~Untouched(p) => p = o /\ status'[p] = "filled"
  BY <1>1, Recording, Times DEF Taken
<1>3. ~Untouched(o) => source'[o] = "exchange_sync"
  BY <1>1 DEF Record, store, Untouched, Sources, TypeOK
<1>4. TypeOK'
  BY <1>1, <1>2 DEF TypeOK, StoreTypeOK
<1>5. AboutOrders' /\ AnswersAreTrue' /\ StagesAreTrue'
  BY <1>1 DEF AboutOrders, AnswersAreTrue, StagesAreTrue
<1>6. RecordsAreTaken'
  BY <1>1, <1>2 DEF RecordsAreTaken, Untouched, Taken
<1>7. FillNotForgotten'
  BY <1>1, <1>2, <1>3 DEF FillNotForgotten, Untouched, Busy
<1> QED
  BY <1>4, <1>5, <1>6, <1>7

(* An order the exchange took stays taken, and only open ones are listed.  *)
LEMMA ListedStays ==
  ASSUME IInv, ListedAreTaken, [Next]_vars
  PROVE  ListedAreTaken'
<1> USE DEF venue, store, position, calls, sync
<1> DEFINE Moves == \A p \in Orders : exchange[p] \in Taken => exchange'[p] \in Taken
           Lists == listed' \subseteq listed \cup Open
<1>1. ASSUME NEW o \in Orders, Exchange(o)
      PROVE  Moves /\ Lists
  <2>1. UNCHANGED listed
    BY <1>1 DEF Exchange, Arrive, Reject, Fill, Cancel, Elsewhere
  <2>2. MovesOn(o)
    BY <1>1 DEF IInv, TypeOK, MovesOn, Exchange, Arrive, Reject, Fill, Cancel, Statuses, Final
  <2> QED
    BY <2>1, <2>2 DEF IInv, TypeOK, MovesOn, Taken
<1>2. ASSUME NEW o \in Orders, RequestCancel(o)
      PROVE  Moves /\ Lists
  BY <1>2 DEF RequestCancel, IInv, TypeOK, Taken
<1>3. ASSUME NEW o \in Orders, Reconcile(o)
      PROVE  Moves /\ Lists
  <2>1. PICK due \in IF listed = {} THEN SUBSET Open ELSE {listed} : listed' = due \ {o}
    BY <1>3 DEF Reconcile
  <2>2. UNCHANGED exchange
    BY <1>3 DEF Reconcile, Take
  <2> QED
    BY <2>1, <2>2
<1>4. ASSUME NEW o \in Orders,
             \/ Enter(o) \/ Exit(o) \/ Hydrated(o) \/ Answered(o) \/ Executed(o) \/ Settle(o)
             \/ WsResolved(o) \/ Poll(o) \/ GiveUp(o) \/ RecordCancel(o) \/ Confirm(o)
             \/ PositionGuard(o) \/ Receive(o) \/ SyncExecutions(o)
      PROVE  UNCHANGED <<exchange, listed>>
  BY <1>4 DEF Enter, Exit, Hydrated, Answered, Executed, Settle, WsResolved, Poll, GiveUp,
     RecordCancel, Confirm, PositionGuard, Guard, MarkClosing, GuardClosed, Receive, Take, SyncExecutions
<1>5. ASSUME \/ Compare \/ Fetch \/ Sync \/ UNCHANGED vars
             \/ \E c \in Callers : record_order_status(c)
      PROVE  UNCHANGED <<exchange, listed>>
  BY <1>5 DEF Compare, Fetch, Sync, vars, record_order_status, Judge, RecordFill, Apply, Close
<1>6. Moves /\ Lists
  BY <1>1, <1>2, <1>3, <1>4, <1>5 DEF Next, Worker
<1>7. Open \subseteq {o \in Orders : exchange[o] \in Taken} /\ listed \subseteq Orders
  BY DEF Open, IInv, RecordsAreTaken, TypeOK
<1> QED
  BY <1>6, <1>7 DEF ListedAreTaken

LEMMA StutterIInv ==
  ASSUME IInv, UNCHANGED vars
  PROVE  IInv'
<1> USE DEF IInv, vars, venue, store, position, calls, sync
<1>1. TypeOK'
  BY DEF TypeOK
<1>2. AboutOrders' /\ AnswersAreTrue' /\ StagesAreTrue' /\ RecordsAreTaken' /\ FillNotForgotten'
  BY DEF AboutOrders, AnswersAreTrue, StagesAreTrue, RecordsAreTaken, FillNotForgotten, Busy
<1> QED
  BY <1>1, <1>2

LEMMA NextIInv == IInv /\ ListedAreTaken /\ [Next]_vars => IInv' /\ ListedAreTaken'
<1> SUFFICES ASSUME IInv, ListedAreTaken, [Next]_vars PROVE IInv'
  BY ListedStays
<1>1. ASSUME NEW o \in Orders,
             \/ Exchange(o) \/ Worker(o) \/ PositionGuard(o) \/ Receive(o) \/ Reconcile(o)
             \/ SyncExecutions(o)
      PROVE  IInv'
  BY <1>1, ExchangeIInv, PlacingIInv, AskingIInv, ExecutedIInv, SettleIInv, CancelingIInv,
     GuardClosedIInv, TakingIInv, SyncExecutionsIInv DEF Worker, PositionGuard
<1>2. ASSUME NEW c \in Callers, record_order_status(c)
      PROVE  IInv'
  BY <1>2, JudgeIInv, RecordFillIInv, ApplyIInv, CloseIInv DEF record_order_status
<1> QED
  BY <1>1, <1>2, CompareIInv, SyncIInv, StutterIInv DEF Next

LEMMA InvariantHolds == Spec => []IInv
<1>1. Init => ListedAreTaken
  BY DEF Init, ListedAreTaken
<1> QED
  BY <1>1, InitIInv, NextIInv, PTL DEF Spec

(* TypeOK in every reachable state.                                        *)
THEOREM FillRecordingTypeCorrect == Spec => []TypeOK
<1>1. IInv => TypeOK
  BY DEF IInv
<1> QED
  BY <1>1, InvariantHolds, PTL

(* A fill on record, unless the execution sync was the last to write it,   *)
(* has been taken to the local position, or some task is still on its way  *)
(* there.                                                                  *)
THEOREM RecordedFillsAreApplied == Spec => []FillNotForgotten
<1>1. IInv => FillNotForgotten
  BY DEF IInv
<1> QED
  BY <1>1, InvariantHolds, PTL

-----------------------------------------------------------------------------
(* The store's contract: every step is one of OrderRecord's, or changes    *)
(* neither the exchange's statuses nor the records.                        *)
ContractStep == [Contract!Next]_<<exchange, status>>

LEMMA ExchangeKeepsContract ==
  ASSUME IInv, NEW o \in Orders, MovesOn(o), UNCHANGED status
  PROVE  ContractStep
<1>1. CASE UNCHANGED exchange
  BY <1>1 DEF ContractStep
<1>2. CASE exchange' # exchange
  <2>1. /\ exchange[o] = "none" \/ (exchange[o] \in {"open"} /\ exchange'[o] \in Final)
        /\ exchange'[o] \in {"open"} \cup Final
        /\ exchange' = [exchange EXCEPT ![o] = exchange'[o]]
    BY <1>2 DEF MovesOn, IInv, TypeOK, Statuses, Final
  <2>2. Contract!Happen(o, exchange'[o])
    BY <2>1 DEF Contract!Happen
  <2> QED
    BY <2>1, <2>2 DEF ContractStep, Contract!Next
<1> QED
  BY <1>1, <1>2

(* What may be put on record: the status the exchange has, "open" of an    *)
(* order it took and, unless it is a polled answer, "canceled".            *)
LEMMA RecordKeepsContract ==
  ASSUME IInv, NEW o \in Orders, NEW s \in Taken, NEW t, NEW from,
         Record(o, s, t, from), UNCHANGED exchange,
         exchange[o] # "none",
         s \in {"open", exchange[o]} \/ (s = "canceled" /\ from # "rest")
  PROVE  ContractStep
<1>1. CASE ~Accepts(o, s, t, from)
  BY <1>1 DEF Record, store, ContractStep
<1>2. CASE Accepts(o, s, t, from) /\ status[o] = s
  <2>1. status' = status
    BY <1>2 DEF Record, IInv, TypeOK
  <2> QED
    BY <2>1 DEF ContractStep
<1>3. CASE Accepts(o, s, t, from) /\ status[o] # s
  <2>1. status' = [status EXCEPT ![o] = s]
    BY <1>3 DEF Record
  <2>2. status[o] \in Final => from = "rest" /\ s \in Final
    BY <1>3 DEF Accepts, ValidTransition, Final
  <2>3. s \in {"open"} \cup Final
    BY DEF Taken, Final
  <2>4. CASE s = "open"
    BY <2>1, <2>2, <2>4 DEF Contract!WriteOpen, Contract!Write, Contract!Next, ContractStep, Final
  <2>5. CASE s # "open" /\ s = exchange[o]
    BY <2>1, <2>3, <2>5 DEF Contract!WriteEnd, Contract!Write, Contract!Next, ContractStep
  <2>6. CASE s = "canceled" /\ from # "rest"
    BY <2>1, <2>2, <2>3, <2>6 DEF Contract!Presume, Contract!Write, Contract!Next, ContractStep
  <2> QED
    BY <2>4, <2>5, <2>6
<1> QED
  BY <1>1, <1>2, <1>3

LEMMA WorkerKeepsContract ==
  ASSUME IInv, NEW o \in Orders, Worker(o)
  PROVE  ContractStep
<1> USE DEF IInv
<1>0. o \in Callers /\ about[o] = o
  BY DEF Callers, AboutOrders
<1>1. CASE Executed(o)
  <2>1. UNCHANGED exchange /\ stage[o] = "answered"
    BY <1>1 DEF Executed, venue
  <2>2. CASE answer[o] \in {"rejected", "noposition"}
    BY <2>1, <2>2, <1>1 DEF Executed, store, ContractStep
  <2>3. CASE answer[o] \notin {"rejected", "noposition"}
    <3>1. /\ answer[o] \in Taken
          /\ answer[o] = exchange[o] \/ (answer[o] = "open" /\ exchange[o] \in Taken)
      BY <1>0, <2>1, <2>3 DEF StagesAreTrue, AnswersAreTrue, TypeOK, Statuses, Final, Taken
    <3>2. Record(o, answer[o], Now(o), "local")
      BY <2>3, <1>1, Zenon DEF Executed
    <3>3. exchange[o] # "none" /\ answer[o] \in {"open", exchange[o]}
      BY <3>1 DEF Taken
    <3> QED
      BY <2>1, <3>1, <3>2, <3>3, RecordKeepsContract
  <2> QED
    BY <2>2, <2>3
<1>2. CASE Settle(o)
  <2>1. UNCHANGED exchange /\ exchange[o] = "filled"
    BY <1>0, <1>2 DEF Settle, venue, StagesAreTrue, AnswersAreTrue
  <2>2. UNCHANGED store \/ RecordClose(o, Now(o))
    BY <1>2, Zenon DEF Settle
  <2>3. ASSUME NEW x, Record(o, "filled", x, "exchange_reconcile")
        PROVE  ContractStep
    BY <2>1, <2>3, RecordKeepsContract DEF Taken
  <2> QED
    BY <2>1, <2>2, <2>3 DEF RecordClose, store, ContractStep
<1>3. CASE RecordCancel(o)
  <2>1. UNCHANGED exchange /\ Record(o, "canceled", Now(o), "local")
    BY <1>3 DEF RecordCancel, venue
  <2>2. exchange[o] \in Taken
    BY <1>0, <1>3 DEF RecordCancel, StagesAreTrue
  <2> QED
    BY <2>1, <2>2, RecordKeepsContract DEF Taken
<1>4. CASE RequestCancel(o)
  <2>1. MovesOn(o)
    BY <1>4 DEF RequestCancel, MovesOn, TypeOK
  <2> QED
    BY <1>4, <2>1, ExchangeKeepsContract DEF RequestCancel, store
<1>5. CASE \/ Enter(o) \/ Exit(o) \/ Hydrated(o) \/ Answered(o) \/ WsResolved(o) \/ Poll(o)
           \/ GiveUp(o) \/ Confirm(o)
  BY <1>5 DEF Enter, Exit, Hydrated, Answered, WsResolved, Poll, GiveUp, Confirm, venue, store,
     ContractStep
<1> QED
  BY <1>1, <1>2, <1>3, <1>4, <1>5 DEF Worker

LEMMA ReportKeepsContract ==
  ASSUME IInv, NEW c \in Callers, record_order_status(c)
  PROVE  ContractStep
<1> USE DEF IInv
<1> DEFINE o == about[c]
<1>1. /\ o \in Orders /\ answer[c] \in Taken /\ exchange[o] # "none"
      /\ answer[c] \in {"open", exchange[o]}
  BY DEF record_order_status, Judge, RecordFill, Apply, Close, StagesAreTrue, AboutOrders,
     AnswersAreTrue, TypeOK, Taken
<1>2. UNCHANGED exchange
  BY DEF record_order_status, Judge, RecordFill, Apply, Close, venue
<1>3. CASE Judge(c)
  <2>1. UNCHANGED store \/ Record(o, answer[c], Timestamp(c), Source(c))
    BY <1>3, Zenon DEF Judge
  <2>2. CASE UNCHANGED store
    BY <1>2, <2>2 DEF store, ContractStep
  <2>3. CASE Record(o, answer[c], Timestamp(c), Source(c))
    BY <1>1, <1>2, <2>3, RecordKeepsContract
  <2> QED
    BY <2>1, <2>2, <2>3
<1>4. CASE RecordFill(c)
  <2>1. Record(o, "filled", stamp[c], Source(c)) /\ answer[c] = "filled"
    BY <1>4 DEF RecordFill, StagesAreTrue
  <2> QED
    BY <1>1, <1>2, <2>1, RecordKeepsContract
<1>5. CASE Apply(c)
  BY <1>2, <1>5 DEF Apply, store, ContractStep
<1>6. CASE Close(c)
  <2>1. PICK x : Record(o, "filled", x, "exchange_reconcile")
    BY <1>6 DEF Close, RecordClose
  <2>2. answer[c] = "filled"
    BY <1>6 DEF Close, StagesAreTrue
  <2> QED
    BY <1>1, <1>2, <2>1, <2>2, RecordKeepsContract
<1> QED
  BY <1>3, <1>4, <1>5, <1>6 DEF record_order_status

LEMMA StepKeepsContract ==
  ASSUME IInv, [Next]_vars
  PROVE  ContractStep
<1>1. ASSUME NEW o \in Orders, Exchange(o)
      PROVE  ContractStep
  <2>1. MovesOn(o)
    BY <1>1 DEF Exchange, IInv, TypeOK, MovesOn, Arrive, Reject, Fill, Cancel, Statuses, Final
  <2>2. UNCHANGED status
    BY <1>1 DEF Exchange, Arrive, Reject, Fill, Cancel, Elsewhere, store
  <2> QED
    BY <2>1, <2>2, ExchangeKeepsContract
<1>2. ASSUME \/ \E o \in Orders : PositionGuard(o) \/ Receive(o) \/ Reconcile(o)
             \/ Compare \/ Fetch \/ Sync \/ UNCHANGED vars
      PROVE  UNCHANGED <<exchange, status>>
  BY <1>2 DEF PositionGuard, Guard, MarkClosing, GuardClosed, Receive, Reconcile, Take, Compare,
     Fetch, Sync, vars, venue, store
<1>3. ASSUME NEW o \in Orders, SyncExecutions(o)
      PROVE  ContractStep
  <2>1. exchange[o] = "filled" /\ UNCHANGED exchange
    BY <1>3 DEF SyncExecutions, venue
  <2>2. Record(o, "filled", EventTime("filled"), "exchange_sync")
    BY <1>3 DEF SyncExecutions
  <2> QED
    BY <2>1, <2>2, RecordKeepsContract DEF Taken
<1> QED
  BY <1>1, <1>2, <1>3, WorkerKeepsContract, ReportKeepsContract DEF Next, ContractStep

(* The order store implements OrderRecord for any orders and callers: in   *)
(* whatever order the sources of execution/order_store.py report, no       *)
(* answer reopens an order, and a final status on record changes only into *)
(* the one the exchange has.                                               *)
THEOREM StoreKeepsContract == Spec => RecordContract
<1>1. Init => Contract!Init
  BY DEF Init, Contract!Init
<1>2. IInv /\ [Next]_vars => [Contract!Next]_<<exchange, status>>
  BY StepKeepsContract DEF ContractStep
<1> QED
  BY <1>1, <1>2, InvariantHolds, PTL DEF Spec, RecordContract, Contract!Spec

(* What a reader of the store may rely on: a final status on record        *)
(* changes only into the status the exchange has.                          *)
TerminalStays ==
  [][\A o \in Orders : status[o] \in Final => status'[o] \in {status[o], exchange[o]}]_vars

THEOREM FinalStatusesStay == Spec => TerminalStays
<1>1. ASSUME TypeOK, ContractStep, NEW o \in Orders, status[o] \in Final
      PROVE  status'[o] \in {status[o], exchange[o]}
  <2>1. CASE Contract!Next
    BY <1>1, <2>1 DEF Contract!Next, Contract!Happen, Contract!WriteOpen, Contract!WriteEnd,
       Contract!Presume, Contract!Write, TypeOK
  <2> QED
    BY <1>1, <2>1 DEF ContractStep
<1>2. IInv /\ [Next]_vars =>
        [\A o \in Orders : status[o] \in Final => status'[o] \in {status[o], exchange[o]}]_vars
  BY <1>1, StepKeepsContract DEF IInv
<1> QED
  BY <1>2, InvariantHolds, PTL DEF Spec, TerminalStays
=============================================================================
