------------------------ MODULE OrderLifecycleProofs ------------------------
(* Type correctness and the safety invariants of OrderLifecycle, for every *)
(* set of orders, every quantity and every lot rounding.                   *)
EXTENDS OrderLifecycle, TLAPS

(* What a report says is, and stays, true of the exchange. *)
ReportIsTrue(m) ==
  /\ m.kind = "ack" => exStatus[m.order] # "unknown"
  /\ m.kind = "reject" => exStatus[m.order] = "closed" /\ exSize[m.order] = 0
  /\ m.kind = "cancel" => exStatus[m.order] = "closed"
  /\ m.kind = "fill" =>
       /\ 0 < m.cum /\ m.cum <= exCum[m.order]
       /\ m.complete => exStatus[m.order] = "closed" /\ m.cum = exSize[m.order]

ReportsAreTrue == \A m \in wire : ReportIsTrue(m)

ExchangeIsSane ==
  \A c \in Orders :
    /\ exCum[c] <= exSize[c]
    /\ exStatus[c] = "unknown" => exSize[c] = 0 /\ exId[c] = None
    /\ exStatus[c] = "open" => exCum[c] < exSize[c]
    /\ exId[c] \in {None, ExIdOf[c]}

(* The inductive invariant: the wire and the exchange explain the orders. *)
IInv ==
  /\ TypeOK
  /\ ReportsAreTrue
  /\ ExchangeIsSane
  /\ FilledIsReal
  /\ TerminalIsDead
  /\ \A c \in Orders : state[c] = "rejected" => exSize[c] = 0
  /\ IndexesAgree

-----------------------------------------------------------------------------
(* transition() ends in the state asked for or stays where it was, and     *)
(* never leaves a terminal state.                                          *)
LEMMA TransitionFacts ==
  ASSUME NEW s \in OrderState, NEW t \in OrderState
  PROVE  /\ Transition(s, t) \in {s, t}
         /\ s \in TERMINAL_STATES => Transition(s, t) = s
<1>1. s \in TERMINAL_STATES => VALID_TRANSITIONS[s] = {}
  BY DEF VALID_TRANSITIONS, OrderState, TERMINAL_STATES, LIVE_STATES
<1>2. QED
  BY <1>1 DEF Transition, can_transition

(* Find returns the order the report is about, or nothing. *)
LEMMA FindFacts ==
  ASSUME IInv, NEW m \in wire, m.kind \in {"fill", "cancel"}
  PROVE  Find(m) \in {m.order, None} /\ (Find(m) # None => Find(m) \in tracked)
<1>1. m.order \in Orders
  BY DEF IInv, TypeOK, Reports
<1> DEFINE x == ExIdOf[m.order]
           d == byExchangeId[x]
<1>2. x \in ExIds
  BY <1>1, ConstantsAssumption
<1>3. CASE d # None
  <2>1. d \in Orders /\ exId[d] = x
    BY <1>2, <1>3 DEF IInv, IndexesAgree, tracked
  <2>2. exId[d] = ExIdOf[d]
    BY <1>2, <2>1, ConstantsAssumption DEF IInv, ExchangeIsSane
  <2>3. d = m.order
    BY <1>1, <2>1, <2>2, ConstantsAssumption
  <2>4. QED
    BY <2>3 DEF Find
<1>4. CASE d = None
  BY <1>4 DEF Find
<1>5. QED
  BY <1>3, <1>4

LEMMA InitIInv == Init => IInv
<1> SUFFICES ASSUME Init PROVE IInv
  OBVIOUS
<1>1. TypeOK
  BY ConstantsAssumption DEF Init, TypeOK, OrderState, Reports
<1>2. ReportsAreTrue
  BY DEF Init, ReportsAreTrue
<1>3. ExchangeIsSane /\ FilledIsReal
  BY ConstantsAssumption DEF Init, ExchangeIsSane, FilledIsReal
<1>4. TerminalIsDead /\ \A c \in Orders : state[c] = "rejected" => exSize[c] = 0
  BY DEF Init, TerminalIsDead, TERMINAL_STATES
<1>5. IndexesAgree
  BY DEF Init, IndexesAgree, tracked
<1>6. QED
  BY <1>1, <1>2, <1>3, <1>4, <1>5 DEF IInv
-----------------------------------------------------------------------------
(* A step of the exchange only adds true reports and moves forward. *)
LEMMA ExchangeStepIInv == IInv /\ Exchange => IInv'
<1> SUFFICES ASSUME IInv, NEW c \in Orders,
                    \/ \E size \in ExchangeSizes : Accept(c, size)
                    \/ RejectOrder(c)
                    \/ \E keys \in KeySets : Execute(c, keys) \/ CancelOrder(c, keys)
             PROVE  IInv'
  BY DEF Exchange
<1>q. Qty \in Nat /\ ExchangeSizes \subseteq 1..Qty
  BY ConstantsAssumption
<1>u. UNCHANGED local
  BY DEF Accept, RejectOrder, Execute, CancelOrder
<1>t. IndexesAgree'
  BY <1>u DEF local, IInv, IndexesAgree, tracked
<1>1. ASSUME NEW size \in ExchangeSizes, Accept(c, size) PROVE IInv'
  <2>0. size \in 1..Qty
    BY <1>1, <1>q
  <2>1. TypeOK'
    BY <1>1, <1>u, <1>q, <2>0 DEF IInv, TypeOK, Accept, Ack, Reports, local
  <2>2. ASSUME NEW m \in wire PROVE ReportIsTrue(m)'
    <3>1. ReportIsTrue(m) /\ m.order \in Orders
      BY DEF IInv, TypeOK, ReportsAreTrue, Reports
    <3>2. m.kind = "fill" => m.cum \in 1..Qty
      BY DEF IInv, TypeOK, Reports
    <3>3. QED
      BY <1>1, <3>1, <3>2, <1>q, <2>0 DEF IInv, TypeOK, ReportIsTrue, ExchangeIsSane, FilledIsReal, Accept
  <2>3. ReportIsTrue(Ack(c))'
    BY <1>1, <1>q, <2>0 DEF IInv, TypeOK, ReportIsTrue, ExchangeIsSane, FilledIsReal, Accept, Ack
  <2>4. ReportsAreTrue'
    BY <1>1, <2>2, <2>3 DEF ReportsAreTrue, Accept
  <2>5. ExchangeIsSane' /\ FilledIsReal'
    BY <1>1, <1>u, <1>q, <2>0 DEF IInv, TypeOK, ExchangeIsSane, FilledIsReal, Accept, local
  <2>6. TerminalIsDead' /\ (\A e \in Orders : state[e] = "rejected" => exSize[e] = 0)'
    BY <1>1, <1>u DEF IInv, TypeOK, TerminalIsDead, Accept, local, TERMINAL_STATES
  <2>7. QED
    BY <1>t, <2>1, <2>4, <2>5, <2>6 DEF IInv
<1>2. ASSUME RejectOrder(c) PROVE IInv'
  <2>1. TypeOK'
    BY <1>2, <1>u, <1>q DEF IInv, TypeOK, RejectOrder, Reject, Reports, local
  <2>2. ASSUME NEW m \in wire PROVE ReportIsTrue(m)'
    <3>1. ReportIsTrue(m) /\ m.order \in Orders
      BY DEF IInv, TypeOK, ReportsAreTrue, Reports
    <3>2. m.kind = "fill" => m.cum \in 1..Qty
      BY DEF IInv, TypeOK, Reports
    <3>3. QED
      BY <1>2, <3>1, <3>2, <1>q DEF IInv, TypeOK, ReportIsTrue, ExchangeIsSane, FilledIsReal, RejectOrder
  <2>3. ReportIsTrue(Reject(c))'
    BY <1>2, <1>q DEF IInv, TypeOK, ReportIsTrue, ExchangeIsSane, FilledIsReal, RejectOrder, Reject
  <2>4. ReportsAreTrue'
    BY <1>2, <2>2, <2>3 DEF ReportsAreTrue, RejectOrder
  <2>5. ExchangeIsSane' /\ FilledIsReal'
    BY <1>2, <1>u, <1>q DEF IInv, TypeOK, ExchangeIsSane, FilledIsReal, RejectOrder, local
  <2>6. TerminalIsDead' /\ (\A e \in Orders : state[e] = "rejected" => exSize[e] = 0)'
    BY <1>2, <1>u DEF IInv, TypeOK, TerminalIsDead, RejectOrder, local, TERMINAL_STATES
  <2>7. QED
    BY <1>t, <2>1, <2>4, <2>5, <2>6 DEF IInv
<1>3. ASSUME NEW keys \in KeySets, Execute(c, keys) PROVE IInv'
  <2>0. PICK cum \in 1..Qty, complete \in BOOLEAN :
          /\ cum = exCum[c] + 1
          /\ cum <= exSize[c] /\ (complete <=> cum = exSize[c])
          /\ exStatus[c] = "open"
          /\ exCum' = [exCum EXCEPT ![c] = cum]
          /\ exStatus' = [exStatus EXCEPT ![c] = IF complete THEN "closed" ELSE "open"]
          /\ wire' = wire \cup {Fill(c, cum, complete, keys)}
          /\ UNCHANGED <<local, exSize>>
    <3> DEFINE n == exCum[c] + 1
    <3>1. n \in 1..Qty /\ n <= exSize[c] /\ (n = exSize[c]) \in BOOLEAN
      BY <1>3, <1>q DEF IInv, TypeOK, Execute
    <3>2. QED
      BY <1>3, <3>1 DEF Execute
  <2>f. Fill(c, cum, complete, keys) \in Reports
    BY <2>0 DEF Fill, Reports
  <2>1. TypeOK'
    BY <1>u, <1>q, <2>0, <2>f DEF IInv, TypeOK, local
  <2>2. ASSUME NEW m \in wire PROVE ReportIsTrue(m)'
    <3>1. ReportIsTrue(m) /\ m.order \in Orders
      BY DEF IInv, TypeOK, ReportsAreTrue, Reports
    <3>2. m.kind = "fill" => m.cum \in 1..Qty
      BY DEF IInv, TypeOK, Reports
    <3>3. CASE m.order = c
      BY <1>q, <2>0, <3>1, <3>2, <3>3
         DEF IInv, TypeOK, ReportIsTrue, ExchangeIsSane, FilledIsReal
    <3>4. CASE m.order # c
      BY <2>0, <3>1, <3>4 DEF IInv, TypeOK, ReportIsTrue
    <3>5. QED
      BY <3>3, <3>4
  <2>3. ReportIsTrue(Fill(c, cum, complete, keys))'
    BY <1>q, <2>0 DEF IInv, TypeOK, ReportIsTrue, Fill
  <2>4. ReportsAreTrue'
    BY <2>0, <2>2, <2>3 DEF ReportsAreTrue
  <2>5. ExchangeIsSane' /\ FilledIsReal'
    BY <1>q, <1>u, <2>0 DEF IInv, TypeOK, ExchangeIsSane, FilledIsReal, local
  <2>6. TerminalIsDead' /\ (\A e \in Orders : state[e] = "rejected" => exSize[e] = 0)'
    BY <1>u, <2>0 DEF IInv, TypeOK, TerminalIsDead, local, TERMINAL_STATES
  <2>7. QED
    BY <1>t, <2>1, <2>4, <2>5, <2>6 DEF IInv
<1>4. ASSUME NEW keys \in KeySets, CancelOrder(c, keys) PROVE IInv'
  <2>1. TypeOK'
    BY <1>4, <1>u, <1>q DEF IInv, TypeOK, CancelOrder, Cancel, Reports, local
  <2>2. ASSUME NEW m \in wire PROVE ReportIsTrue(m)'
    <3>1. ReportIsTrue(m) /\ m.order \in Orders
      BY DEF IInv, TypeOK, ReportsAreTrue, Reports
    <3>2. m.kind = "fill" => m.cum \in 1..Qty
      BY DEF IInv, TypeOK, Reports
    <3>3. QED
      BY <1>4, <3>1, <3>2, <1>q DEF IInv, TypeOK, ReportIsTrue, ExchangeIsSane, FilledIsReal, CancelOrder
  <2>3. ReportIsTrue(Cancel(c, keys))'
    BY <1>4, <1>q DEF IInv, TypeOK, ReportIsTrue, ExchangeIsSane, FilledIsReal, CancelOrder, Cancel
  <2>4. ReportsAreTrue'
    BY <1>4, <2>2, <2>3 DEF ReportsAreTrue, CancelOrder
  <2>5. ExchangeIsSane' /\ FilledIsReal'
    BY <1>4, <1>u, <1>q DEF IInv, TypeOK, ExchangeIsSane, FilledIsReal, CancelOrder, local
  <2>6. TerminalIsDead' /\ (\A e \in Orders : state[e] = "rejected" => exSize[e] = 0)'
    BY <1>4, <1>u DEF IInv, TypeOK, TerminalIsDead, CancelOrder, local, TERMINAL_STATES
  <2>7. QED
    BY <1>t, <2>1, <2>4, <2>5, <2>6 DEF IInv
<1>5. QED
  BY <1>1, <1>2, <1>3, <1>4

(* The caller: orders become tracked, are sent, and leave after they ended. *)
LEMMA CallerStepIInv == IInv /\ Caller => IInv'
<1> SUFFICES ASSUME IInv, Caller PROVE IInv'
  OBVIOUS
<1> USE ConstantsAssumption
<1>1. ASSUME NEW c \in Orders, Register(c) PROVE IInv'
  <2>1. TypeOK' /\ tracked' = tracked \cup {c}
    BY <1>1 DEF IInv, TypeOK, exchange, Register, OrderState, tracked
  <2>2. ReportsAreTrue' /\ ExchangeIsSane' /\ FilledIsReal'
    BY <1>1 DEF IInv, ReportsAreTrue, ReportIsTrue, exchange, ExchangeIsSane, FilledIsReal, Register
  <2>3. TerminalIsDead' /\ (\A e \in Orders : state[e] = "rejected" => exSize[e] = 0)'
    BY <1>1 DEF IInv, TypeOK, exchange, TerminalIsDead, Register, TERMINAL_STATES
  <2>4. IndexesAgree'
    BY <1>1, <2>1 DEF IInv, TypeOK, IndexesAgree, Register
  <2>5. QED
    BY <2>1, <2>2, <2>3, <2>4 DEF IInv
<1>2. ASSUME NEW c \in Orders, Send(c) \/ RequestCancel(c) PROVE IInv'
  <2>1. PICK t \in {"sent", "cancel_requested"} : state' = [state EXCEPT ![c] = t]
    <3>1. "sent" \in VALID_TRANSITIONS["new"]
      BY DEF OrderState, VALID_TRANSITIONS
    <3>2. QED
      BY <1>2, <3>1 DEF Send, RequestCancel, Transition, can_transition
  <2>2. UNCHANGED <<filled, exId, byExchangeId, byIntent, exchange, wire>> /\ c \in tracked
    BY <1>2 DEF Send, RequestCancel, tracked
  <2>3. TypeOK' /\ tracked' = tracked
    BY <2>1, <2>2 DEF IInv, TypeOK, exchange, OrderState, LIVE_STATES, tracked
  <2>4. ReportsAreTrue' /\ ExchangeIsSane' /\ FilledIsReal'
    BY <2>2 DEF IInv, ReportsAreTrue, ReportIsTrue, exchange, ExchangeIsSane, FilledIsReal
  <2>5. TerminalIsDead' /\ (\A e \in Orders : state[e] = "rejected" => exSize[e] = 0)'
    BY <2>1, <2>2 DEF IInv, TypeOK, exchange, TerminalIsDead, TERMINAL_STATES
  <2>6. IndexesAgree'
    BY <2>2, <2>3 DEF IInv, IndexesAgree
  <2>7. QED
    BY <2>3, <2>4, <2>5, <2>6 DEF IInv
<1>3. ASSUME NEW S \in SUBSET Orders, CleanupTerminal(S) PROVE IInv'
  <2>1. TypeOK' /\ tracked' = tracked \ S
    BY <1>3 DEF IInv, TypeOK, exchange, CleanupTerminal, tracked
  <2>2. ReportsAreTrue' /\ ExchangeIsSane' /\ FilledIsReal'
    BY <1>3 DEF IInv, ReportsAreTrue, ReportIsTrue, exchange, ExchangeIsSane, FilledIsReal, CleanupTerminal
  <2>3. TerminalIsDead' /\ (\A e \in Orders : state[e] = "rejected" => exSize[e] = 0)'
    BY <1>3 DEF IInv, TypeOK, exchange, TerminalIsDead, CleanupTerminal, TERMINAL_STATES
  <2>4. IndexesAgree'
    <3>1. (\A x \in ExIds : byExchangeId[x] # None =>
             byExchangeId[x] \in tracked /\ exId[byExchangeId[x]] = x)'
      BY <1>3, <2>1 DEF IInv, TypeOK, IndexesAgree, CleanupTerminal
    <3>2. ASSUME NEW e \in tracked', exId[e] # None PROVE byExchangeId'[exId[e]] = e
      <4>1. e \in Orders /\ e \in tracked /\ e \notin S /\ exId[e] = ExIdOf[e]
        BY <2>1, <3>2 DEF tracked, IInv, ExchangeIsSane
      <4>2. \A d \in S : exId[d] # exId[e]
        BY <4>1 DEF IInv, ExchangeIsSane
      <4>3. byExchangeId[exId[e]] = e
        BY <3>2, <4>1 DEF IInv, IndexesAgree
      <4>4. QED
        BY <1>3, <4>1, <4>2, <4>3 DEF CleanupTerminal
    <3>3. (\A i \in Intents : byIntent[i] = {e \in tracked : IntentOf[e] = i})'
      BY <1>3, <2>1 DEF IInv, TypeOK, IndexesAgree, CleanupTerminal
    <3>4. exId' = exId
      BY <1>3 DEF CleanupTerminal
    <3>5. QED
      BY <3>1, <3>2, <3>3, <3>4 DEF IndexesAgree
  <2>5. QED
    BY <2>1, <2>2, <2>3, <2>4 DEF IInv
<1>4. QED
  BY <1>1, <1>2, <1>3 DEF Caller

-----------------------------------------------------------------------------
(* The rest of IInv is kept when reports leave the wire and the state and  *)
(* the fill of one order move as a report allows.                          *)
LEMMA ProcessIInv ==
  ASSUME IInv, NEW m \in wire, Process(m), wire' \in {wire, wire \ {m}}, UNCHANGED exchange
  PROVE  IInv'
<1>0. /\ m.order \in Orders /\ ReportIsTrue(m)
      /\ m.kind = "fill" => m.cum \in 1..Qty
  BY DEF IInv, TypeOK, Reports, ReportsAreTrue
<1>x. UNCHANGED exStatus /\ UNCHANGED exCum /\ UNCHANGED exSize
  BY DEF exchange
<1>w. wire' \subseteq wire
  OBVIOUS
<1>r. ReportsAreTrue'
  BY <1>x, <1>w DEF IInv, ReportsAreTrue, ReportIsTrue
<1>q. Qty \in Nat
  BY ConstantsAssumption
<1>s. ASSUME NEW c \in Orders, NEW t \in OrderState, c \in tracked
      PROVE  /\ Transition(state[c], t) \in OrderState
             /\ Transition(state[c], t) \in {state[c], t}
             /\ state[c] \in TERMINAL_STATES => Transition(state[c], t) = state[c]
  <2>1. state[c] \in OrderState
    BY <1>s DEF tracked, IInv, TypeOK
  <2>2. QED
    BY <2>1, TransitionFacts
<1>1. CASE ProcessAck(m)
  <2>1. CASE m.order \notin tracked
    BY <1>1, <2>1, <1>x, <1>w, <1>r
       DEF ProcessAck, IInv, TypeOK, ExchangeIsSane, FilledIsReal, TerminalIsDead,
           IndexesAgree, tracked
  <2>2. CASE m.order \in tracked
    <3> DEFINE c == m.order
               x == ExIdOf[c]
               t == Transition(state[c], "acked")
    <3>0. x \in ExIds /\ x # None
      BY <1>0, ConstantsAssumption
    <3>1. /\ t \in OrderState /\ t \in {state[c], "acked"}
      BY <1>0, <1>s, <2>2 DEF OrderState, LIVE_STATES
    <3>2. /\ state' = [state EXCEPT ![c] = t]
          /\ exId' = [exId EXCEPT ![c] = x]
          /\ byExchangeId' = [byExchangeId EXCEPT ![x] = c]
          /\ UNCHANGED <<filled, byIntent>>
      BY <1>1, <2>2 DEF ProcessAck, SetState
    <3>k. exStatus[c] # "unknown"
      BY <1>0, <1>1 DEF ReportIsTrue, ProcessAck
    <3>c. c \in Orders /\ c \in tracked
      BY <1>0, <2>2
    <3>i. \A d \in Orders : exId[d] # None => exId[d] = ExIdOf[d]
      BY DEF IInv, ExchangeIsSane
    <3>j. \A d \in Orders : ExIdOf[d] = x => d = c
      BY <1>0, ConstantsAssumption
    <3>n. None \notin Orders
      BY ConstantsAssumption
    <3> HIDE DEF t
    <3>3. TypeOK' /\ tracked' = tracked
      BY <3>0, <3>1, <3>2, <3>c, <1>x, <1>w DEF IInv, TypeOK, tracked, OrderState, LIVE_STATES, TERMINAL_STATES
    <3>4. ExchangeIsSane' /\ FilledIsReal'
      BY <3>2, <3>k, <3>c, <1>x DEF IInv, TypeOK, ExchangeIsSane, FilledIsReal
    <3>5. TerminalIsDead' /\ (\A e \in Orders : state[e] = "rejected" => exSize[e] = 0)'
      BY <3>1, <3>2, <3>c, <1>x DEF IInv, TypeOK, TerminalIsDead, TERMINAL_STATES
    <3>6. IndexesAgree'
      <4>1. (\A y \in ExIds : byExchangeId[y] # None =>
               byExchangeId[y] \in tracked /\ exId[byExchangeId[y]] = y)'
        <5> SUFFICES ASSUME NEW y \in ExIds, byExchangeId'[y] # None
                     PROVE  byExchangeId'[y] \in tracked /\ exId'[byExchangeId'[y]] = y
          BY <3>3
        <5>1. CASE y = x
          BY <3>0, <3>2, <3>c, <5>1 DEF IInv, TypeOK
        <5>2. CASE y # x
          <6>1. byExchangeId'[y] = byExchangeId[y]
            BY <3>2, <5>2 DEF IInv, TypeOK
          <6>2. byExchangeId[y] \in tracked /\ exId[byExchangeId[y]] = y
            BY <6>1 DEF IInv, IndexesAgree
          <6>3. byExchangeId[y] # c
            BY <6>1, <6>2, <5>2, <3>i, <3>c, ConstantsAssumption DEF tracked
          <6>4. QED
            BY <3>2, <6>1, <6>2, <6>3 DEF IInv, TypeOK, tracked
        <5>3. QED
          BY <5>1, <5>2
      <4>2. ASSUME NEW d \in tracked, exId'[d] # None PROVE byExchangeId'[exId'[d]] = d
        <5>1. d \in Orders
          BY DEF tracked
        <5>2. CASE d = c
          BY <3>0, <3>2, <3>c, <5>2 DEF IInv, TypeOK
        <5>3. CASE d # c
          <6>1. exId'[d] = exId[d] /\ exId[d] = ExIdOf[d] /\ exId[d] # x
            BY <3>2, <3>i, <3>j, <4>2, <5>1, <5>3 DEF IInv, TypeOK
          <6>2. byExchangeId[exId[d]] = d
            BY <4>2, <6>1 DEF IInv, IndexesAgree
          <6>3. QED
            BY <3>2, <6>1, <6>2 DEF IInv, TypeOK
        <5>4. QED
          BY <5>2, <5>3
      <4>3. (\A i \in Intents : byIntent[i] = {e \in tracked : IntentOf[e] = i})'
        BY <3>2, <3>3 DEF IInv, IndexesAgree
      <4>4. QED
        BY <4>1, <4>2, <4>3, <3>3 DEF IndexesAgree
    <3>7. QED
      BY <1>r, <3>3, <3>4, <3>5, <3>6 DEF IInv
  <2>3. QED
    BY <2>1, <2>2
<1>2. ASSUME NEW c \in tracked, c = m.order,
             NEW t \in {"filled", "partial", "rejected", "canceled"},
             NEW q \in 0..Qty, filled[c] <= q, q <= exCum[c],
             state' = [state EXCEPT ![c] = Transition(@, t)],
             filled' = [filled EXCEPT ![c] = q],
             UNCHANGED <<exId, byExchangeId, byIntent>>,
             t \in TERMINAL_STATES => exStatus[c] = "closed",
             t = "filled" => q = exSize[c],
             t = "rejected" => exSize[c] = 0
      PROVE  IInv'
  <2> DEFINE u == Transition(state[c], t)
  <2>0. c \in Orders
    BY DEF tracked
  <2>1. u \in OrderState /\ u \in {state[c], t}
    BY <1>s, <2>0 DEF OrderState, TERMINAL_STATES, LIVE_STATES
  <2>2. state' = [state EXCEPT ![c] = u]
    BY <1>2
  <2> HIDE DEF u
  <2>3. TypeOK' /\ tracked' = tracked
    BY <1>2, <1>x, <1>w, <2>0, <2>1, <2>2
       DEF IInv, TypeOK, tracked, OrderState, LIVE_STATES, TERMINAL_STATES
  <2>4. ExchangeIsSane' /\ FilledIsReal'
    BY <1>2, <1>x, <2>0 DEF IInv, TypeOK, ExchangeIsSane, FilledIsReal
  <2>5. TerminalIsDead' /\ (\A e \in Orders : state[e] = "rejected" => exSize[e] = 0)'
    <3>1. ASSUME NEW e \in Orders, e # c
          PROVE  state'[e] = state[e] /\ filled'[e] = filled[e]
      BY <1>2, <2>2, <3>1 DEF IInv, TypeOK
    <3>2. state'[c] = u /\ filled'[c] = q
      BY <1>2, <2>0, <2>2 DEF IInv, TypeOK
    <3>3. exCum[c] <= exSize[c] /\ exCum[c] \in Nat /\ exSize[c] \in Nat /\ filled[c] \in Nat
      BY <1>q, <2>0 DEF IInv, TypeOK, ExchangeIsSane
    <3>4. /\ u \in TERMINAL_STATES => exStatus[c] = "closed"
          /\ u = "filled" => q = exSize[c]
          /\ u = "rejected" => q = 0 /\ exSize[c] = 0
      BY <1>2, <1>q, <2>0, <2>1, <3>3 DEF IInv, TerminalIsDead, TERMINAL_STATES
    <3>5. QED
      BY <1>x, <2>0, <3>1, <3>2, <3>4 DEF IInv, TerminalIsDead
  <2>6. IndexesAgree'
    BY <1>2, <2>3 DEF IInv, IndexesAgree
  <2>7. QED
    BY <1>r, <2>3, <2>4, <2>5, <2>6 DEF IInv
<1>3. ASSUME UNCHANGED local PROVE IInv'
  BY <1>3, <1>x, <1>w, <1>r
     DEF local, IInv, TypeOK, ExchangeIsSane, FilledIsReal, TerminalIsDead, IndexesAgree, tracked
<1>4. CASE ProcessFill(m)
  <2> DEFINE t == IF m.complete \/ m.cum >= Qty THEN "filled" ELSE "partial"
  <2>1. CASE Find(m) # None /\ update_fill_ok(Find(m), m.cum)
    <3>0. Find(m) = m.order /\ m.order \in tracked
      BY <1>4, <2>1, FindFacts DEF ProcessFill
    <3>1. /\ state' = [state EXCEPT ![m.order] = Transition(@, t)]
          /\ filled' = [filled EXCEPT ![m.order] = m.cum]
          /\ UNCHANGED <<exId, byExchangeId, byIntent>>
      BY <1>4, <2>1, <3>0 DEF ProcessFill, SetState, FilledAfter
    <3>2. m.cum \in 0..Qty /\ filled[m.order] <= m.cum /\ m.cum <= exCum[m.order]
      BY <1>0, <1>4, <1>q, <2>1, <3>0 DEF ProcessFill, update_fill_ok, ReportIsTrue
    <3>3. t = "filled" => exStatus[m.order] = "closed" /\ m.cum = exSize[m.order]
      <4>1. exCum[m.order] \in 0..Qty /\ exSize[m.order] \in 0..Qty /\ exCum[m.order] <= exSize[m.order]
        BY <1>0 DEF IInv, TypeOK, ExchangeIsSane
      <4>2. CASE m.complete
        BY <1>0, <1>4, <4>2 DEF ReportIsTrue, ProcessFill
      <4>3. CASE ~m.complete /\ m.cum >= Qty
        <5>1. m.cum = exSize[m.order] /\ exCum[m.order] = exSize[m.order] /\ exSize[m.order] > 0
          BY <1>0, <1>4, <1>q, <3>2, <4>1, <4>3 DEF ProcessFill
        <5>2. exStatus[m.order] \in {"unknown", "open", "closed"}
          BY <1>0 DEF IInv, TypeOK
        <5>3. QED
          BY <1>0, <4>1, <5>1, <5>2 DEF IInv, ExchangeIsSane
      <4>4. QED
        BY <4>2, <4>3
    <3>4. t \in {"filled", "partial"} /\ (t \in TERMINAL_STATES => t = "filled")
      BY DEF TERMINAL_STATES
    <3> HIDE DEF t
    <3>5. QED
      BY <1>2, <3>0, <3>1, <3>2, <3>3, <3>4
  <2>2. CASE ~(Find(m) # None /\ update_fill_ok(Find(m), m.cum))
    BY <1>3, <1>4, <2>2 DEF ProcessFill, local
  <2>3. QED
    BY <2>1, <2>2
<1>f. m.order \in tracked => filled[m.order] \in 0..Qty /\ filled[m.order] <= exCum[m.order]
  BY <1>0 DEF IInv, TypeOK, FilledIsReal
<1>5. CASE ProcessReject(m)
  <2>1. CASE m.order \in tracked
    <3> DEFINE t == "rejected"
               q == filled[m.order]
    <3>1. /\ state' = [state EXCEPT ![m.order] = Transition(@, t)]
          /\ filled' = [filled EXCEPT ![m.order] = q]
          /\ UNCHANGED <<exId, byExchangeId, byIntent>>
      BY <1>5, <2>1 DEF ProcessReject, SetState, IInv, TypeOK
    <3>2. exStatus[m.order] = "closed" /\ exSize[m.order] = 0
      BY <1>0, <1>5 DEF ReportIsTrue, ProcessReject
    <3>3. t \in {"filled", "partial", "rejected", "canceled"} /\ t # "filled"
      OBVIOUS
    <3>q. q \in 0..Qty /\ filled[m.order] <= q /\ q <= exCum[m.order]
      BY <1>f, <1>q, <2>1
    <3> HIDE DEF t, q
    <3>4. QED
      BY <1>2, <2>1, <3>1, <3>2, <3>3, <3>q
  <2>2. CASE m.order \notin tracked
    BY <1>3, <1>5, <2>2 DEF ProcessReject, local
  <2>3. QED
    BY <2>1, <2>2
<1>6. CASE ProcessCancel(m)
  <2>1. CASE Find(m) # None
    <3>0. Find(m) = m.order /\ m.order \in tracked
      BY <1>6, <2>1, FindFacts DEF ProcessCancel
    <3> DEFINE t == "canceled"
               q == filled[m.order]
    <3>1. /\ state' = [state EXCEPT ![m.order] = Transition(@, t)]
          /\ filled' = [filled EXCEPT ![m.order] = q]
          /\ UNCHANGED <<exId, byExchangeId, byIntent>>
      BY <1>6, <2>1, <3>0 DEF ProcessCancel, SetState, IInv, TypeOK
    <3>2. exStatus[m.order] = "closed"
      BY <1>0, <1>6 DEF ReportIsTrue, ProcessCancel
    <3>3. t \in {"filled", "partial", "rejected", "canceled"} /\ t # "filled" /\ t # "rejected"
      OBVIOUS
    <3>q. q \in 0..Qty /\ filled[m.order] <= q /\ q <= exCum[m.order]
      BY <1>f, <1>q, <3>0
    <3> HIDE DEF t, q
    <3>4. QED
      BY <1>2, <3>0, <3>1, <3>2, <3>3, <3>q
  <2>2. CASE Find(m) = None
    BY <1>3, <1>6, <2>2 DEF ProcessCancel, local
  <2>3. QED
    BY <2>1, <2>2
<1>7. QED
  BY <1>1, <1>4, <1>5, <1>6 DEF Process

LEMMA StepIInv == IInv /\ [Next]_vars => IInv'
<1> SUFFICES ASSUME IInv, [Next]_vars PROVE IInv'
  OBVIOUS
<1>1. CASE UNCHANGED vars
  BY <1>1 DEF vars, local, exchange, IInv, TypeOK, ReportsAreTrue, ReportIsTrue, ExchangeIsSane,
              FilledIsReal, TerminalIsDead, IndexesAgree, tracked
<1>2. CASE Caller
  BY <1>2, CallerStepIInv
<1>3. CASE Exchange
  BY <1>3, ExchangeStepIInv
<1>4. ASSUME NEW m \in wire, Deliver(m) \/ Redeliver(m) PROVE IInv'
  BY <1>4, ProcessIInv DEF Deliver, Redeliver
<1>5. ASSUME NEW m \in wire, Lose(m) PROVE IInv'
  BY <1>5 DEF Lose, local, exchange, IInv, TypeOK, ReportsAreTrue, ReportIsTrue, ExchangeIsSane,
              FilledIsReal, TerminalIsDead, IndexesAgree, tracked
<1>6. QED
  BY <1>1, <1>2, <1>3, <1>4, <1>5 DEF Next

LEMMA SpecIInv == Spec => []IInv
BY InitIInv, StepIInv, PTL DEF Spec

-----------------------------------------------------------------------------
(* The variables keep their types: in particular the filled quantity of an *)
(* order stays within 0..qty, the docstring's first invariant.             *)
THEOREM TypeCorrect == Spec => []TypeOK
<1>1. IInv => TypeOK
  BY DEF IInv
<1>2. QED
  BY <1>1, SpecIInv, PTL

(* No report, however late or repeated, records a fill the exchange did    *)
(* not make.                                                               *)
THEOREM FillsAreReal == Spec => []FilledIsReal
<1>1. IInv => FilledIsReal
  BY DEF IInv
<1>2. QED
  BY <1>1, SpecIInv, PTL

(* What the manager holds as ended has ended at the exchange. *)
THEOREM TerminalOrdersAreDead == Spec => []TerminalIsDead
<1>1. IInv => TerminalIsDead
  BY DEF IInv
<1>2. QED
  BY <1>1, SpecIInv, PTL

(* The exchange id and intent indexes never lead to a wrong or a forgotten *)
(* order.                                                                  *)
THEOREM IndexesAlwaysAgree == Spec => []IndexesAgree
<1>1. IInv => IndexesAgree
  BY DEF IInv
<1>2. QED
  BY <1>1, SpecIInv, PTL

-----------------------------------------------------------------------------
(* One step neither revives a terminal order nor lowers a fill. *)
LEMMA StepTerminalAndFills ==
  ASSUME IInv, [Next]_vars, NEW c \in tracked
  PROVE  /\ state[c] \in TERMINAL_STATES => state'[c] \in {state[c], "untracked"}
         /\ filled[c] <= filled'[c]
<1>0. c \in Orders /\ state[c] \in OrderState /\ filled[c] \in Nat
  BY ConstantsAssumption DEF tracked, IInv, TypeOK
<1>1. CASE UNCHANGED <<state, filled>>
  BY <1>0, <1>1
<1>2. ASSUME NEW d \in Orders, Register(d) \/ Send(d) \/ RequestCancel(d)
      PROVE  /\ state[c] \in TERMINAL_STATES => state'[c] = state[c]
             /\ filled' = filled
  <2>1. d \in tracked => state[d] \in OrderState
    BY DEF tracked, IInv, TypeOK
  <2>2. CASE Register(d)
    BY <1>0, <2>2 DEF Register, tracked, IInv, TypeOK
  <2>3. CASE Send(d)
    BY <1>0, <2>3 DEF Send, IInv, TypeOK, TERMINAL_STATES
  <2>4. CASE RequestCancel(d)
    <3>1. state[d] \in OrderState \ TERMINAL_STATES
      BY <2>1, <2>4 DEF RequestCancel, can_transition, VALID_TRANSITIONS, OrderState, TERMINAL_STATES
    <3>2. QED
      BY <1>0, <2>4, <3>1 DEF RequestCancel, IInv, TypeOK
  <2>5. QED
    BY <1>2, <2>2, <2>3, <2>4
<1>3. ASSUME NEW S \in SUBSET Orders, CleanupTerminal(S)
      PROVE  state'[c] \in {state[c], "untracked"} /\ filled' = filled
  BY <1>0, <1>3 DEF CleanupTerminal
<1>4. ASSUME NEW d \in Orders, NEW t \in OrderState, SetState(d, t)
      PROVE  state[c] \in TERMINAL_STATES => state'[c] = state[c]
  BY <1>0, <1>4, TransitionFacts DEF SetState, IInv, TypeOK
<1>5. ASSUME NEW m \in wire, Process(m)
      PROVE  /\ state[c] \in TERMINAL_STATES => state'[c] = state[c]
             /\ filled[c] <= filled'[c]
  <2>1. m.order \in Orders /\ {"acked", "filled", "partial", "rejected", "canceled"} \subseteq OrderState
    BY DEF IInv, TypeOK, Reports, OrderState, TERMINAL_STATES, LIVE_STATES
  <2>2. CASE ProcessAck(m)
    BY <1>0, <1>4, <2>1, <2>2 DEF ProcessAck
  <2>3. CASE ProcessFill(m)
    <3> DEFINE t == IF m.complete \/ m.cum >= Qty THEN "filled" ELSE "partial"
    <3>1. CASE Find(m) # None /\ update_fill_ok(Find(m), m.cum)
      <4>1. Find(m) = m.order
        BY <2>3, <3>1, FindFacts DEF ProcessFill
      <4>2. SetState(m.order, t) /\ filled' = [filled EXCEPT ![m.order] = m.cum]
        BY <2>3, <3>1, <4>1 DEF ProcessFill, FilledAfter
      <4>3. t \in OrderState
        BY <2>1
      <4>4. filled[m.order] <= m.cum
        BY <3>1, <4>1 DEF update_fill_ok
      <4> HIDE DEF t
      <4>5. QED
        BY <1>0, <1>4, <2>1, <4>2, <4>3, <4>4 DEF IInv, TypeOK
    <3>2. CASE ~(Find(m) # None /\ update_fill_ok(Find(m), m.cum))
      BY <1>0, <2>3, <3>2 DEF ProcessFill
    <3>3. QED
      BY <3>1, <3>2
  <2>4. CASE ProcessReject(m)
    BY <1>0, <1>4, <2>1, <2>4 DEF ProcessReject
  <2>5. CASE ProcessCancel(m)
    BY <1>0, <1>4, <2>1, <2>5, FindFacts DEF ProcessCancel
  <2>6. QED
    BY <1>5, <2>2, <2>3, <2>4, <2>5 DEF Process
<1>6. CASE Caller
  BY <1>0, <1>2, <1>3, <1>6 DEF Caller
<1>7. CASE Exchange
  BY <1>1, <1>7 DEF Exchange, Accept, RejectOrder, Execute, CancelOrder, local
<1>8. ASSUME NEW m \in wire, Deliver(m) \/ Redeliver(m) \/ Lose(m)
      PROVE  /\ state[c] \in TERMINAL_STATES => state'[c] \in {state[c], "untracked"}
             /\ filled[c] <= filled'[c]
  BY <1>1, <1>5, <1>8 DEF Deliver, Redeliver, Lose, local
<1>9. CASE UNCHANGED vars
  BY <1>1, <1>9 DEF vars, local
<1>10. QED
  BY <1>6, <1>7, <1>8, <1>9 DEF Next

(* "Terminal states remain terminal", and fills never go down. *)
THEOREM TerminalAndFillsNeverRevert == Spec => TerminalAndFillsStay
<1>1. IInv /\ [Next]_vars =>
        [\A c \in tracked :
           /\ state[c] \in TERMINAL_STATES => state'[c] \in {state[c], "untracked"}
           /\ filled[c] <= filled'[c]]_vars
  BY StepTerminalAndFills
<1>2. QED
  BY <1>1, SpecIInv, PTL DEF Spec, TerminalAndFillsStay

-----------------------------------------------------------------------------
(* The manager and the contract of OrderRecord: what must be known beside  *)
(* IInv.  A cancel in flight is of an order that was not filled, only      *)
(* orders that are over were cleaned up, and the manager knows how they    *)
(* ended.                                                                  *)
CancelsAreTrue ==
  \A m \in wire : m.kind = "cancel" =>
    exStatus[m.order] = "closed" /\ exCum[m.order] < exSize[m.order]

UntrackedIsOver == \A c \in Orders : state[c] = "untracked" => exStatus[c] # "open"

EndsAreTrue == \A c \in Orders : state[c] \in TERMINAL_STATES => truth[c] = state[c]

Known == CancelsAreTrue /\ UntrackedIsOver /\ EndsAreTrue

ContractStep == [Contract!Next]_<<truth, record>>

LEMMA TruthMoves ==
  ASSUME NEW c \in Orders, \A d \in Orders : d # c => truth'[d] = truth[d]
  PROVE  truth' = [truth EXCEPT ![c] = truth'[c]]
  BY DEF truth

LEMMA RecordIsFunction ==
  record = [d \in Orders |-> record[d]] /\ record' = [d \in Orders |-> record'[d]]
  BY DEF record, TERMINAL_STATES

LEMMA RecordMoves ==
  ASSUME NEW c \in Orders, \A d \in Orders : d # c => record'[d] = record[d]
  PROVE  record' = [record EXCEPT ![c] = record'[c]]
  BY RecordIsFunction

LEMMA RecordKept ==
  ASSUME \A d \in Orders : record'[d] = record[d]
  PROVE  record' = record
  BY DEF record

(* How an order ended shows in its entry alone. *)
LEMMA TruthAt ==
  ASSUME NEW c \in Orders, exStatus'[c] = exStatus[c], exCum'[c] = exCum[c], exSize'[c] = exSize[c]
  PROVE  truth'[c] = truth[c]
  BY DEF truth

LEMMA RecordAt ==
  ASSUME NEW c \in Orders, state'[c] = state[c], state[c] = "untracked" => truth'[c] = truth[c]
  PROVE  record'[c] = record[c]
  BY DEF record

(* The exchange settles the fate of one order that is not over, and of     *)
(* none that is not tracked.                                               *)
LEMMA ExchangeKeepsContract ==
  ASSUME IInv, Known, Exchange
  PROVE  ContractStep /\ Known'
<1> SUFFICES ASSUME NEW c \in Orders,
                    \/ \E size \in ExchangeSizes : Accept(c, size)
                    \/ RejectOrder(c)
                    \/ \E keys \in KeySets : Execute(c, keys) \/ CancelOrder(c, keys)
             PROVE  ContractStep /\ Known'
  BY DEF Exchange
<1>1. UNCHANGED state
  BY DEF Accept, RejectOrder, Execute, CancelOrder, local
<1>2. ASSUME NEW d \in Orders, d # c
      PROVE  exStatus'[d] = exStatus[d] /\ exCum'[d] = exCum[d] /\ exSize'[d] = exSize[d]
  BY <1>2 DEF Accept, RejectOrder, Execute, CancelOrder, IInv, TypeOK
<1>3. /\ exStatus[c] # "closed"
      /\ state[c] # "untracked"
  BY DEF Accept, RejectOrder, Execute, CancelOrder, Known, UntrackedIsOver
<1>4. /\ truth[c] = "none" \/ (truth[c] = "open" /\ truth'[c] \in TERMINAL_STATES)
         \/ truth'[c] = truth[c]
      /\ truth'[c] \in {"open"} \cup TERMINAL_STATES
  <2>1. CASE exStatus[c] = "unknown"
    <3>1. exStatus'[c] \in {"open", "closed"}
      BY <2>1 DEF Accept, RejectOrder, Execute, CancelOrder, IInv, TypeOK
    <3> QED
      BY <2>1, <3>1 DEF truth, TERMINAL_STATES
  <2>2. CASE exStatus[c] = "open"
    <3>1. exStatus'[c] \in {"open", "closed"}
      BY <2>2 DEF Accept, RejectOrder, Execute, CancelOrder, IInv, TypeOK
    <3> QED
      BY <2>2, <3>1 DEF truth, TERMINAL_STATES
  <2> QED
    BY <1>3, <2>1, <2>2 DEF IInv, TypeOK
<1>5. \A d \in Orders : d # c => truth'[d] = truth[d]
  BY <1>2, TruthAt
<1>6. truth' = [truth EXCEPT ![c] = truth'[c]]
  BY <1>5, TruthMoves
<1>7. record' = record
  BY <1>1, <1>3, <1>5, RecordAt, RecordKept
<1>8. ContractStep
  <2>1. CASE truth'[c] = truth[c]
    <3>1. truth' = truth
      BY <1>5, <2>1 DEF truth
    <3> QED
      BY <1>7, <3>1 DEF ContractStep
  <2>2. CASE truth'[c] # truth[c]
    <3>1. Contract!Happen(c, truth'[c])
      BY <1>4, <1>6, <1>7, <2>2 DEF Contract!Happen
    <3> QED
      BY <1>4, <3>1 DEF Contract!Next, ContractStep
  <2> QED
    BY <2>1, <2>2
<1>9. CancelsAreTrue'
  <2>1. ASSUME NEW m \in wire, m.kind = "cancel"
        PROVE  exStatus'[m.order] = "closed" /\ exCum'[m.order] < exSize'[m.order]
    <3>1. m.order \in Orders /\ exStatus[m.order] = "closed" /\ exCum[m.order] < exSize[m.order]
      BY <2>1 DEF Known, CancelsAreTrue, IInv, TypeOK, Reports
    <3> QED
      BY <1>2, <1>3, <3>1
  <2>2. ASSUME NEW keys \in KeySets, CancelOrder(c, keys)
        PROVE  /\ wire' = wire \cup {Cancel(c, keys)}
               /\ exStatus'[c] = "closed" /\ exCum'[c] < exSize'[c]
    BY <2>2 DEF CancelOrder, IInv, TypeOK, ExchangeIsSane
  <2>3. ASSUME NEW m \in wire' \ wire, m.kind = "cancel"
        PROVE  m.order = c /\ \E keys \in KeySets : CancelOrder(c, keys)
    BY <2>3 DEF Accept, RejectOrder, Execute, CancelOrder, Ack, Reject, Fill, Cancel
  <2> QED
    BY <2>1, <2>2, <2>3 DEF CancelsAreTrue
<1>10. UntrackedIsOver'
  BY <1>1, <1>2, <1>3 DEF Known, UntrackedIsOver
<1>11. EndsAreTrue'
  <2>1. state[c] \notin TERMINAL_STATES
    BY <1>3 DEF IInv, TerminalIsDead
  <2> QED
    BY <1>1, <1>5, <2>1 DEF Known, EndsAreTrue
<1> QED
  BY <1>8, <1>9, <1>10, <1>11 DEF Known

-----------------------------------------------------------------------------
(* Where the exchange does nothing, what has ended stays as it was. *)
LEMMA ExchangeRests ==
  ASSUME IInv, Known, UNCHANGED exchange, wire' \subseteq wire
  PROVE  truth' = truth /\ CancelsAreTrue'
  BY DEF exchange, truth, Known, CancelsAreTrue

LEMMA CallerKeepsContract ==
  ASSUME IInv, Known, Caller
  PROVE  ContractStep /\ Known'
<1>1. UNCHANGED exchange /\ wire' = wire
  BY DEF Caller, Register, Send, RequestCancel, CleanupTerminal
<1>2. truth' = truth /\ CancelsAreTrue' /\ UNCHANGED exStatus
  BY <1>1, ExchangeRests DEF exchange
<1>3. ASSUME NEW c \in Orders, NEW t, state' = [state EXCEPT ![c] = t],
             t # "untracked", t \notin TERMINAL_STATES
      PROVE  UntrackedIsOver' /\ EndsAreTrue'
  BY <1>2, <1>3 DEF IInv, TypeOK, Known, UntrackedIsOver, EndsAreTrue
<1>4. ASSUME NEW c \in Orders, Register(c) \/ Send(c) \/ RequestCancel(c)
      PROVE  record' = record /\ UntrackedIsOver' /\ EndsAreTrue'
  <2>1. \A d \in Orders : d # c => record'[d] = record[d]
    BY <1>2, <1>4, RecordAt DEF Register, Send, RequestCancel, IInv, TypeOK
  <2>2. CASE Register(c)
    <3>1. record[c] = "none" /\ record'[c] = "none"
      <4>1. state[c] = "untracked" /\ state'[c] = "new" /\ exStatus[c] = "unknown"
        BY <2>2 DEF Register, tracked, IInv, TypeOK
      <4>2. truth[c] = "none"
        BY <4>1 DEF truth
      <4> QED
        BY <4>1, <4>2 DEF record, TERMINAL_STATES
    <3> QED
      BY <1>3, <2>1, <2>2, <3>1, RecordKept DEF Register, TERMINAL_STATES
  <2>3. CASE Send(c)
    <3>1. state' = [state EXCEPT ![c] = "sent"] /\ state[c] = "new"
      BY <2>3 DEF Send, Transition, can_transition, VALID_TRANSITIONS, OrderState
    <3>2. record[c] = "none" /\ record'[c] = "none"
      <4>1. state'[c] = "sent"
        BY <3>1 DEF IInv, TypeOK
      <4> QED
        BY <3>1, <4>1 DEF record, TERMINAL_STATES
    <3> QED
      BY <1>3, <2>1, <3>1, <3>2, RecordKept DEF TERMINAL_STATES
  <2>4. CASE RequestCancel(c)
    <3>1. state' = [state EXCEPT ![c] = "cancel_requested"] /\ state[c] \in {"acked", "partial"}
      <4>1. state[c] \in OrderState /\ "cancel_requested" \in VALID_TRANSITIONS[state[c]]
        BY <2>4 DEF RequestCancel, can_transition, tracked, IInv, TypeOK
      <4> QED
        BY <2>4, <4>1 DEF RequestCancel, VALID_TRANSITIONS, OrderState, LIVE_STATES, TERMINAL_STATES
    <3>2. record[c] = "open" /\ record'[c] = "open"
      BY <3>1 DEF record, IInv, TypeOK, TERMINAL_STATES
    <3> QED
      BY <1>3, <2>1, <3>1, <3>2, RecordKept DEF TERMINAL_STATES
  <2> QED
    BY <1>4, <2>2, <2>3, <2>4
<1>5. ASSUME NEW S \in SUBSET Orders, CleanupTerminal(S)
      PROVE  record' = record /\ UntrackedIsOver' /\ EndsAreTrue'
  <2>1. \A c \in Orders : IF c \in S THEN state[c] \in TERMINAL_STATES /\ state'[c] = "untracked"
                                      ELSE state'[c] = state[c]
    BY <1>5 DEF CleanupTerminal
  <2>2. \A c \in S : record[c] = truth[c] /\ record'[c] = truth[c]
    BY <1>2, <2>1 DEF record, Known, EndsAreTrue, TERMINAL_STATES
  <2>3. \A c \in Orders : record'[c] = record[c]
    BY <1>2, <2>1, <2>2, RecordAt
  <2>4. UntrackedIsOver'
    BY <1>2, <2>1 DEF Known, UntrackedIsOver, IInv, TerminalIsDead
  <2>5. EndsAreTrue'
    BY <1>2, <2>1 DEF Known, EndsAreTrue, TERMINAL_STATES
  <2> QED
    BY <2>3, <2>4, <2>5, RecordKept
<1> QED
  BY <1>2, <1>4, <1>5 DEF Caller, Known, ContractStep

-----------------------------------------------------------------------------
(* A report that says "filled" is of an order that was filled. *)
LEMMA FillFacts ==
  ASSUME IInv, NEW m \in wire, m.kind = "fill", m.complete \/ m.cum >= Qty
  PROVE  truth[m.order] = "filled"
<1>1. /\ m.order \in Orders /\ ReportIsTrue(m) /\ m.cum \in 1..Qty /\ Qty \in Nat
  BY ConstantsAssumption DEF IInv, TypeOK, Reports, ReportsAreTrue
<1>2. /\ exCum[m.order] \in 0..Qty /\ exSize[m.order] \in 0..Qty
      /\ exCum[m.order] <= exSize[m.order]
      /\ exStatus[m.order] \in {"unknown", "open", "closed"}
      /\ exStatus[m.order] = "unknown" => exSize[m.order] = 0
      /\ exStatus[m.order] = "open" => exCum[m.order] < exSize[m.order]
  BY <1>1 DEF IInv, TypeOK, ExchangeIsSane
<1>3. /\ 0 < m.cum /\ m.cum <= exCum[m.order]
      /\ m.complete => exStatus[m.order] = "closed" /\ m.cum = exSize[m.order]
  BY <1>1 DEF ReportIsTrue
<1>4. exStatus[m.order] = "closed" /\ exCum[m.order] = exSize[m.order] /\ exSize[m.order] # 0
  BY <1>1, <1>2, <1>3
<1> QED
  BY <1>1, <1>4 DEF truth

(* transition() to a state the exchange confirms. *)
LEMMA SetStateKeepsContract ==
  ASSUME IInv, Known, UNCHANGED exchange, wire' \subseteq wire,
         NEW c \in tracked, NEW t \in {"acked", "partial", "filled", "rejected", "canceled"},
         SetState(c, t), truth[c] # "none", t \in TERMINAL_STATES => truth[c] = t
  PROVE  ContractStep /\ Known'
<1>1. truth' = truth /\ CancelsAreTrue' /\ UNCHANGED exStatus
  BY ExchangeRests DEF exchange
<1>2. c \in Orders /\ state[c] \in OrderState /\ t \in OrderState
  BY DEF tracked, IInv, TypeOK, OrderState, LIVE_STATES, TERMINAL_STATES
<1>3. CASE Transition(state[c], t) = state[c]
  <2>1. state' = state
    BY <1>2, <1>3 DEF SetState, IInv, TypeOK
  <2>2. record' = record
    BY <1>1, <2>1 DEF record
  <2> QED
    BY <1>1, <2>1, <2>2 DEF ContractStep, Known, UntrackedIsOver, EndsAreTrue
<1>4. CASE Transition(state[c], t) # state[c]
  <2>1. state[c] \notin TERMINAL_STATES /\ Transition(state[c], t) = t
    BY <1>2, <1>4, TransitionFacts
  <2>2. state' = [state EXCEPT ![c] = t]
    BY <2>1 DEF SetState
  <2>3. /\ state'[c] = t
        /\ \A d \in Orders : d # c => state'[d] = state[d]
    BY <1>2, <2>2 DEF IInv, TypeOK
  <2>4. \A d \in Orders : d # c => record'[d] = record[d]
    BY <1>1, <2>3, RecordAt
  <2>5. record' = [record EXCEPT ![c] = record'[c]]
    BY <1>2, <2>4, RecordMoves
  <2>6. record[c] \notin TERMINAL_STATES
    BY <1>2, <2>1 DEF record, OrderState, TERMINAL_STATES, LIVE_STATES
  <2>7. record'[c] = IF t \in TERMINAL_STATES THEN t ELSE "open"
    BY <1>2, <2>3 DEF record, TERMINAL_STATES
  <2>8. ContractStep
    <3>1. CASE t \in TERMINAL_STATES
      <4>1. Contract!WriteEnd(c, t)
        BY <1>1, <2>5, <2>7, <3>1 DEF Contract!WriteEnd, Contract!Write
      <4> QED
        BY <1>2, <3>1, <4>1 DEF Contract!Next, ContractStep
    <3>2. CASE t \notin TERMINAL_STATES
      <4>1. Contract!WriteOpen(c, "open")
        BY <1>1, <2>5, <2>6, <2>7, <3>2 DEF Contract!WriteOpen, Contract!Write
      <4> QED
        BY <1>2, <4>1 DEF Contract!Next, ContractStep
    <3> QED
      BY <3>1, <3>2
  <2>9. UntrackedIsOver' /\ EndsAreTrue'
    BY <1>1, <2>3 DEF Known, UntrackedIsOver, EndsAreTrue
  <2> QED
    BY <1>1, <2>8, <2>9 DEF Known
<1> QED
  BY <1>3, <1>4

LEMMA ProcessKeepsContract ==
  ASSUME IInv, Known, NEW m \in wire, Process(m), wire' \subseteq wire, UNCHANGED exchange
  PROVE  ContractStep /\ Known'
<1>0. m.order \in Orders /\ ReportIsTrue(m)
  BY DEF IInv, TypeOK, Reports, ReportsAreTrue
<1>1. CASE UNCHANGED state
  <2>1. truth' = truth /\ CancelsAreTrue' /\ UNCHANGED exStatus
    BY ExchangeRests DEF exchange
  <2>2. record' = record
    BY <1>1, <2>1 DEF record
  <2> QED
    BY <1>1, <2>1, <2>2 DEF ContractStep, Known, UntrackedIsOver, EndsAreTrue
<1>2. CASE ProcessAck(m) /\ m.order \in tracked
  <2>1. truth[m.order] # "none"
    BY <1>0, <1>2 DEF ProcessAck, ReportIsTrue, truth
  <2>2. SetState(m.order, "acked") /\ "acked" \notin TERMINAL_STATES
    BY <1>2 DEF ProcessAck, TERMINAL_STATES
  <2> QED
    BY <1>2, <2>1, <2>2, SetStateKeepsContract
<1>3. CASE ProcessFill(m) /\ Find(m) # None /\ update_fill_ok(Find(m), m.cum)
  <2> DEFINE t == IF m.complete \/ m.cum >= Qty THEN "filled" ELSE "partial"
  <2>1. Find(m) = m.order /\ m.order \in tracked
    BY <1>3, FindFacts DEF ProcessFill
  <2>2. SetState(m.order, t)
    BY <1>3, <2>1 DEF ProcessFill
  <2>3. t \in {"partial", "filled"} /\ (t = "filled" => truth[m.order] = "filled")
    BY <1>3, FillFacts DEF ProcessFill
  <2>4. truth[m.order] # "none"
    <3>1. m.cum <= exCum[m.order] /\ 0 < m.cum /\ m.cum \in 1..Qty
      BY <1>0, <1>3 DEF ReportIsTrue, ProcessFill, IInv, TypeOK, Reports
    <3>2. exCum[m.order] \in 0..Qty /\ exSize[m.order] \in 0..Qty /\ exCum[m.order] <= exSize[m.order]
      BY <1>0 DEF IInv, TypeOK, ExchangeIsSane
    <3>3. exSize[m.order] # 0
      BY <3>1, <3>2, ConstantsAssumption
    <3>4. exStatus[m.order] # "unknown"
      BY <1>0, <3>3 DEF IInv, ExchangeIsSane
    <3> QED
      BY <1>0, <3>4 DEF truth
  <2>5. "partial" \notin TERMINAL_STATES
    BY DEF TERMINAL_STATES
  <2> HIDE DEF t
  <2> QED
    BY <2>1, <2>2, <2>3, <2>4, <2>5, SetStateKeepsContract
<1>4. CASE ProcessReject(m) /\ m.order \in tracked
  <2>1. truth[m.order] = "rejected"
    BY <1>0, <1>4 DEF ProcessReject, ReportIsTrue, truth
  <2>2. SetState(m.order, "rejected")
    BY <1>4 DEF ProcessReject
  <2> QED
    BY <1>4, <2>1, <2>2, SetStateKeepsContract
<1>5. CASE ProcessCancel(m) /\ Find(m) # None
  <2>1. Find(m) = m.order /\ m.order \in tracked
    BY <1>5, FindFacts DEF ProcessCancel
  <2>2. exStatus[m.order] = "closed" /\ exCum[m.order] < exSize[m.order]
    BY <1>5 DEF ProcessCancel, Known, CancelsAreTrue
  <2>3. exCum[m.order] \in 0..Qty /\ exSize[m.order] \in 0..Qty
    BY <1>0 DEF IInv, TypeOK
  <2>4. exSize[m.order] # 0 /\ exCum[m.order] # exSize[m.order]
    BY <2>2, <2>3, ConstantsAssumption
  <2>5. truth[m.order] = "canceled"
    BY <1>0, <2>2, <2>4 DEF truth
  <2>6. SetState(m.order, "canceled")
    BY <1>5, <2>1 DEF ProcessCancel
  <2> QED
    BY <2>1, <2>5, <2>6, SetStateKeepsContract
<1> QED
  BY <1>1, <1>2, <1>3, <1>4, <1>5 DEF Process, ProcessAck, ProcessFill, ProcessReject, ProcessCancel

LEMMA StepKeepsContract ==
  ASSUME IInv, Known, [Next]_vars
  PROVE  ContractStep /\ Known'
<1>1. ASSUME NEW m \in wire, Deliver(m) \/ Redeliver(m)
      PROVE  ContractStep /\ Known'
  BY <1>1, ProcessKeepsContract DEF Deliver, Redeliver
<1>2. CASE (\E m \in wire : Lose(m)) \/ UNCHANGED vars
  <2>1. UNCHANGED exchange /\ UNCHANGED state /\ wire' \subseteq wire
    BY <1>2 DEF Lose, vars, local
  <2>2. truth' = truth /\ CancelsAreTrue' /\ UNCHANGED exStatus
    BY <2>1, ExchangeRests DEF exchange
  <2>3. record' = record
    BY <2>1, <2>2 DEF record
  <2> QED
    BY <2>1, <2>2, <2>3 DEF ContractStep, Known, UntrackedIsOver, EndsAreTrue
<1> QED
  BY <1>1, <1>2, ExchangeKeepsContract, CallerKeepsContract DEF Next

(* The manager implements OrderRecord for any orders, sizes and lot        *)
(* rounding, and presumes no end: with the reports of core/lifecycle.py    *)
(* lost, repeated and reordered, an order held as ended ended that way.    *)
THEOREM ManagerKeepsContract == Spec => RecordContract
<1>1. Init => Contract!Init /\ Known
  <2> SUFFICES ASSUME Init PROVE Contract!Init /\ Known
    OBVIOUS
  <2>1. truth = [c \in Orders |-> "none"]
    BY DEF Init, truth
  <2>2. record = [c \in Orders |-> "none"]
    <3>1. \A c \in Orders : state[c] = "untracked" /\ truth[c] = "none"
      BY <2>1 DEF Init
    <3>2. \A c \in Orders : record[c] = "none"
      BY <3>1 DEF record, TERMINAL_STATES
    <3> QED
      BY <3>2, RecordIsFunction
  <2> QED
    BY <2>1, <2>2 DEF Init, Contract!Init, Known, CancelsAreTrue, UntrackedIsOver, EndsAreTrue,
       TERMINAL_STATES
<1>2. IInv /\ Known /\ [Next]_vars => [Contract!Next]_<<truth, record>> /\ Known'
  BY StepKeepsContract DEF ContractStep
<1> QED
  BY <1>1, <1>2, SpecIInv, PTL DEF Spec, RecordContract, Contract!Spec
-----------------------------------------------------------------------------
(* The part of ClosedIsLearned that needs no fairness.  Over a wire that   *)
(* loses nothing and whose reports name the client order id, all that an   *)
(* order has not learned yet is on the wire, and a report only leaves the  *)
(* wire when its order has learned it.                                     *)
ReportsNameOrders == \A keys \in KeySets : "client" \in keys

Closes(m) == m.kind \in {"reject", "cancel"} \/ (m.kind = "fill" /\ m.complete)

FillToCome(c) ==
  filled[c] < exCum[c] => \E m \in wire : m.kind = "fill" /\ m.order = c /\ m.cum = exCum[c]

EndToCome(c) ==
  exStatus[c] = "closed" /\ state[c] \notin TERMINAL_STATES =>
    \E m \in wire : m.order = c /\ Closes(m)

ToCome == \A c \in tracked : FillToCome(c) /\ EndToCome(c)

Learned(m) ==
  /\ Closes(m) => state'[m.order] \in TERMINAL_STATES
  /\ m.kind = "fill" => m.cum <= filled'[m.order]

LeavesLearned == \A m \in wire \ wire' : m.order \in tracked => Learned(m)

(* Why no report that closes an order is refused: an order that is not     *)
(* sent is unknown to the exchange, and one that was acknowledged or       *)
(* filled was booked there, so it cannot be rejected.                      *)
Acknowledged == {"acked", "partial", "cancel_requested"}

Booked ==
  /\ \A m \in wire : m.kind \in {"ack", "cancel"} => 0 < exSize[m.order]
  /\ \A c \in Orders :
       /\ state[c] = "new" => exStatus[c] = "unknown"
       /\ state[c] \in Acknowledged => 0 < exSize[c]

LEMMA ClosingTransitions ==
  ASSUME NEW s \in OrderState \ {"new"}
  PROVE  /\ Transition(s, "filled") \in TERMINAL_STATES
         /\ Transition(s, "canceled") \in TERMINAL_STATES
         /\ s \notin Acknowledged => Transition(s, "rejected") \in TERMINAL_STATES
<1>1. CASE s \in TERMINAL_STATES
  BY <1>1, TransitionFacts DEF OrderState, TERMINAL_STATES
<1>2. CASE s \in LIVE_STATES
  <2>1. "filled" \in VALID_TRANSITIONS[s] /\ "canceled" \in VALID_TRANSITIONS[s]
    BY <1>2 DEF VALID_TRANSITIONS, OrderState, LIVE_STATES
  <2>2. s = "sent" => "rejected" \in VALID_TRANSITIONS[s]
    BY DEF VALID_TRANSITIONS, OrderState, LIVE_STATES
  <2> QED
    BY <1>2, <2>1, <2>2
    DEF Transition, can_transition, LIVE_STATES, Acknowledged, TERMINAL_STATES
<1> QED
  BY <1>1, <1>2 DEF OrderState

(* A report is about an order the exchange has seen, which was sent.       *)
LEMMA ReportedWasSent ==
  ASSUME IInv, Booked, NEW m \in wire
  PROVE  /\ m.order \in Orders
         /\ state[m.order] # "new"
         /\ m.kind \in {"ack", "fill", "cancel"} => 0 < exSize[m.order]
         /\ m.kind = "reject" => exSize[m.order] = 0
<1>1. m.order \in Orders /\ ReportIsTrue(m) /\ m.kind \in {"ack", "reject", "fill", "cancel"}
  BY DEF IInv, TypeOK, ReportsAreTrue, Reports
<1>2. m.kind = "fill" => m.cum \in Nat /\ 0 < m.cum /\ m.cum <= exCum[m.order]
  BY <1>1, ConstantsAssumption DEF IInv, TypeOK, ReportIsTrue, Reports
<1>3. /\ exCum[m.order] \in Nat /\ exSize[m.order] \in Nat /\ exCum[m.order] <= exSize[m.order]
      /\ exStatus[m.order] = "unknown" => exSize[m.order] = 0
  BY <1>1, ConstantsAssumption DEF IInv, TypeOK, ExchangeIsSane
<1>4. m.kind \in {"ack", "fill", "cancel"} => 0 < exSize[m.order]
  BY <1>2, <1>3 DEF Booked
<1>5. m.kind = "reject" => exStatus[m.order] = "closed" /\ exSize[m.order] = 0
  BY <1>1 DEF ReportIsTrue
<1>6. exStatus[m.order] # "unknown"
  BY <1>1, <1>3, <1>4, <1>5
<1> QED
  BY <1>1, <1>4, <1>5, <1>6 DEF Booked

(* What a report does: it moves its own order, if that is tracked, to      *)
(* where it should be, and no other.                                       *)
LEMMA ReportTeaches ==
  ASSUME IInv, Booked, ReportsNameOrders, NEW m \in wire, Process(m), UNCHANGED exchange
  PROVE  /\ \A d \in Orders : state[d] = "new" \/ state[d] = "untracked" => state'[d] = state[d]
         /\ \A d \in Orders : state'[d] = state[d] \/ (d = m.order /\ state'[d] \in OrderState \ {"new"})
         /\ \A d \in Orders : state'[d] \in Acknowledged => 0 < exSize[d]
         /\ m.order \in tracked => Learned(m)
<1>1. /\ m.order \in Orders /\ state[m.order] # "new"
      /\ m.kind \in {"ack", "fill", "cancel"} => 0 < exSize[m.order]
      /\ m.kind = "reject" => exSize[m.order] = 0
  BY ReportedWasSent
<1> DEFINE c == m.order
<1>2. c \in tracked => state[c] \in OrderState \ {"new"}
  BY <1>1 DEF tracked, IInv, TypeOK
<1>3. ASSUME c \in tracked, NEW t \in OrderState \ {"new"}, SetState(c, t)
      PROVE  /\ state' = [state EXCEPT ![c] = Transition(state[c], t)]
             /\ Transition(state[c], t) \in {state[c], t}
  BY <1>2, <1>3, TransitionFacts DEF SetState
<1>4. \A d \in Orders : state[d] \in Acknowledged => 0 < exSize[d]
  BY DEF Booked
<1>5. ASSUME NEW t \in OrderState \ {"new"}, c \in tracked, SetState(c, t),
             t \in Acknowledged => 0 < exSize[c]
      PROVE  /\ \A d \in Orders : state[d] = "new" \/ state[d] = "untracked" => state'[d] = state[d]
             /\ \A d \in Orders : state'[d] = state[d] \/ (d = c /\ state'[d] \in OrderState \ {"new"})
             /\ \A d \in Orders : state'[d] \in Acknowledged => 0 < exSize[d]
             /\ state'[c] = Transition(state[c], t)
  <2> DEFINE u == Transition(state[c], t)
  <2>1. state' = [state EXCEPT ![c] = u] /\ u \in {state[c], t}
    BY <1>3, <1>5
  <2>2. state[c] # "untracked" /\ u \in OrderState \ {"new"}
    BY <1>2, <1>5, <2>1 DEF tracked
  <2> HIDE DEF u
  <2>3. state'[c] = u /\ \A d \in Orders : d # c => state'[d] = state[d]
    BY <1>1, <2>1 DEF IInv, TypeOK
  <2>4. u \in Acknowledged => 0 < exSize[c]
    BY <1>1, <1>4, <1>5, <2>1
  <2>5. \A d \in Orders : state[d] = "new" \/ state[d] = "untracked" => state'[d] = state[d]
    BY <1>1, <2>2, <2>3
  <2>6. \A d \in Orders : state'[d] = state[d] \/ (d = c /\ state'[d] \in OrderState \ {"new"})
    BY <2>2, <2>3
  <2>7. \A d \in Orders : state'[d] \in Acknowledged => 0 < exSize[d]
    BY <1>4, <2>3, <2>4
  <2> QED
    BY <2>3, <2>5, <2>6, <2>7 DEF u
<1>6. ASSUME UNCHANGED state
      PROVE  /\ \A d \in Orders : state[d] = "new" \/ state[d] = "untracked" => state'[d] = state[d]
             /\ \A d \in Orders : state'[d] = state[d] \/ (d = c /\ state'[d] \in OrderState \ {"new"})
             /\ \A d \in Orders : state'[d] \in Acknowledged => 0 < exSize[d]
  BY <1>4, <1>6
<1>7. m.kind \in {"fill", "cancel"} /\ c \in tracked => Find(m) = c
  BY DEF Find, IInv, TypeOK, Reports, ReportsNameOrders
<1>8. c \notin tracked /\ m.kind \in {"fill", "cancel"} => Find(m) = None
  BY FindFacts
<1>t. {"acked", "filled", "partial", "rejected", "canceled"} \subseteq OrderState \ {"new"}
  BY DEF OrderState, TERMINAL_STATES, LIVE_STATES
<1>9. CASE ProcessAck(m)
  <2>1. m.kind = "ack" /\ ~Closes(m)
    BY <1>9 DEF ProcessAck, Closes
  <2>2. CASE c \in tracked
    <3>1. SetState(c, "acked")
      BY <1>9, <2>2 DEF ProcessAck
    <3> QED
      BY <1>1, <1>5, <1>t, <2>1, <2>2, <3>1 DEF Learned
  <2>3. CASE c \notin tracked
    <3>1. UNCHANGED state
      BY <1>9, <2>3 DEF ProcessAck
    <3> QED
      BY <1>6, <2>3, <3>1
  <2> QED
    BY <2>2, <2>3
<1>10. CASE ProcessFill(m)
  <2>1. m.kind = "fill" /\ ReportIsTrue(m) /\ m.cum \in 1..Qty
    BY <1>10 DEF ProcessFill, IInv, TypeOK, ReportsAreTrue, Reports
  <2> DEFINE t == IF m.complete \/ m.cum >= Qty THEN "filled" ELSE "partial"
  <2>2. CASE c \in tracked /\ update_fill_ok(c, m.cum)
    <3>1. c # None
      BY <1>1, ConstantsAssumption
    <3>2. SetState(c, t) /\ filled' = [filled EXCEPT ![c] = m.cum]
      BY <1>7, <1>10, <2>1, <2>2, <3>1 DEF ProcessFill, FilledAfter
    <3>3. t \in {"filled", "partial"} /\ (Closes(m) => t = "filled")
      BY <2>1 DEF Closes
    <3>4. filled'[c] = m.cum
      BY <1>1, <3>2 DEF IInv, TypeOK
    <3> HIDE DEF t
    <3>5. t \in OrderState \ {"new"}
      BY <1>t, <3>3
    <3>6. /\ \A d \in Orders : state[d] = "new" \/ state[d] = "untracked" => state'[d] = state[d]
          /\ \A d \in Orders : state'[d] = state[d] \/ (d = c /\ state'[d] \in OrderState \ {"new"})
          /\ \A d \in Orders : state'[d] \in Acknowledged => 0 < exSize[d]
          /\ state'[c] = Transition(state[c], t)
      BY <1>1, <1>5, <2>1, <2>2, <3>2, <3>5
    <3>7. Closes(m) => state'[c] \in TERMINAL_STATES
      BY <1>2, <2>2, <3>3, <3>6, ClosingTransitions
    <3>8. m.cum <= filled'[c]
      BY <2>1, <3>4, ConstantsAssumption
    <3> QED
      BY <3>6, <3>7, <3>8 DEF Learned
  <2>3. CASE c \in tracked /\ ~update_fill_ok(c, m.cum)
    <3>1. UNCHANGED <<filled, state>>
      BY <1>7, <1>10, <2>1, <2>3 DEF ProcessFill
    <3>2. /\ filled[c] \in Nat /\ m.cum \in Nat /\ m.cum <= Qty /\ Qty \in Nat
          /\ exCum[c] \in Nat /\ exSize[c] \in Nat
          /\ filled[c] <= exCum[c] /\ exCum[c] <= exSize[c]
      BY <1>1, <2>1, ConstantsAssumption DEF IInv, TypeOK, FilledIsReal, ExchangeIsSane
    <3>3. m.cum < filled[c]
      BY <2>3, <3>2 DEF update_fill_ok
    <3>4. ~m.complete
      <4>1. m.complete => m.cum = exSize[c]
        BY <2>1 DEF ReportIsTrue
      <4> QED
        BY <3>2, <3>3, <4>1
    <3>5. Learned(m)
      BY <2>1, <3>1, <3>2, <3>3, <3>4 DEF Learned, Closes
    <3> QED
      BY <1>6, <3>1, <3>5
  <2>4. CASE c \notin tracked
    <3>1. UNCHANGED state
      BY <1>8, <1>10, <2>1, <2>4 DEF ProcessFill
    <3> QED
      BY <1>6, <2>4, <3>1
  <2> QED
    BY <2>2, <2>3, <2>4
<1>11. CASE ProcessReject(m)
  <2>1. m.kind = "reject"
    BY <1>11 DEF ProcessReject
  <2>2. CASE c \in tracked
    <3>1. SetState(c, "rejected")
      BY <1>11, <2>2 DEF ProcessReject
    <3>2. "rejected" \notin Acknowledged
      BY DEF Acknowledged
    <3>3. state[c] \notin Acknowledged
      BY <1>1, <1>4, <2>1
    <3>4. Transition(state[c], "rejected") \in TERMINAL_STATES
      BY <1>2, <2>2, <3>3, ClosingTransitions
    <3> QED
      BY <1>5, <1>t, <2>1, <2>2, <3>1, <3>2, <3>4 DEF Learned
  <2>3. CASE c \notin tracked
    <3>1. UNCHANGED state
      BY <1>11, <2>3 DEF ProcessReject
    <3> QED
      BY <1>6, <2>3, <3>1
  <2> QED
    BY <2>2, <2>3
<1>12. CASE ProcessCancel(m)
  <2>1. m.kind = "cancel"
    BY <1>12 DEF ProcessCancel
  <2>2. CASE c \in tracked
    <3>0. c # None
      BY <1>1, ConstantsAssumption
    <3>1. SetState(c, "canceled")
      BY <1>7, <1>12, <2>1, <2>2, <3>0 DEF ProcessCancel
    <3>2. "canceled" \notin Acknowledged
      BY DEF Acknowledged
    <3>4. Transition(state[c], "canceled") \in TERMINAL_STATES
      BY <1>2, <2>2, ClosingTransitions
    <3> QED
      BY <1>5, <1>t, <2>1, <2>2, <3>1, <3>2, <3>4 DEF Learned
  <2>3. CASE c \notin tracked
    <3>1. UNCHANGED state
      BY <1>8, <1>12, <2>1, <2>3 DEF ProcessCancel
    <3> QED
      BY <1>6, <2>3, <3>1
  <2> QED
    BY <2>2, <2>3
<1> QED
  BY <1>9, <1>10, <1>11, <1>12 DEF Process

(* A report that is taken leaves or stays; what remains to be learned is   *)
(* still on the wire either way.                                           *)
LEMMA TakingKeepsToCome ==
  ASSUME IInv, Booked, ToCome, ReportsNameOrders, NEW m \in wire, Process(m),
         wire' \in {wire, wire \ {m}}, UNCHANGED exchange
  PROVE  Booked' /\ ToCome' /\ LeavesLearned
<1>1. /\ \A d \in Orders : state[d] = "new" \/ state[d] = "untracked" => state'[d] = state[d]
      /\ \A d \in Orders : state'[d] = state[d] \/ (d = m.order /\ state'[d] \in OrderState \ {"new"})
      /\ \A d \in Orders : state'[d] \in Acknowledged => 0 < exSize[d]
      /\ m.order \in tracked => Learned(m)
  BY ReportTeaches
<1>2. UNCHANGED exStatus /\ UNCHANGED exCum /\ UNCHANGED exSize
  BY DEF exchange
<1>3. wire' \subseteq wire /\ wire \ wire' \subseteq {m}
  OBVIOUS
<1>4. Booked'
  <2>1. \A n \in wire' : n.kind \in {"ack", "cancel"} => 0 < exSize'[n.order]
    BY <1>2, <1>3 DEF Booked
  <2>2. ASSUME NEW d \in Orders
        PROVE  /\ state'[d] = "new" => exStatus'[d] = "unknown"
               /\ state'[d] \in Acknowledged => 0 < exSize'[d]
    BY <1>1, <1>2 DEF Booked
  <2> QED
    BY <2>1, <2>2 DEF Booked
<1>5. LeavesLearned
  BY <1>1, <1>3 DEF LeavesLearned
<1>6. ASSUME NEW c \in tracked' PROVE FillToCome(c)' /\ EndToCome(c)'
  <2>1. c \in Orders /\ c \in tracked
    BY <1>1 DEF tracked, OrderState, LIVE_STATES, TERMINAL_STATES
  <2>2. /\ state[c] \in TERMINAL_STATES => state'[c] \in {state[c], "untracked"}
        /\ filled[c] <= filled'[c]
    <3>1. [Next]_vars
      BY DEF Next, Deliver, Redeliver
    <3> QED
      BY <2>1, <3>1, StepTerminalAndFills
  <2>3. filled[c] \in Nat /\ filled'[c] \in Nat /\ exCum[c] \in Nat
    <3>1. IInv'
      BY ProcessIInv
    <3> QED
      BY <2>1, <3>1, ConstantsAssumption DEF IInv, TypeOK
  <2>4. FillToCome(c)'
    <3> SUFFICES ASSUME filled'[c] < exCum[c]
                 PROVE  \E n \in wire' : n.kind = "fill" /\ n.order = c /\ n.cum = exCum[c]
      BY <1>2 DEF FillToCome
    <3>1. filled[c] < exCum[c]
      BY <2>2, <2>3
    <3>2. PICK n \in wire : n.kind = "fill" /\ n.order = c /\ n.cum = exCum[c]
      BY <2>1, <3>1 DEF ToCome, FillToCome
    <3>3. n \in wire'
      <4> SUFFICES ASSUME n \notin wire' PROVE FALSE
        OBVIOUS
      <4>1. n = m
        BY <1>3
      <4>2. exCum[c] <= filled'[c]
        BY <1>1, <2>1, <3>2, <4>1 DEF Learned
      <4> QED
        BY <2>3, <4>2
    <3> QED
      BY <3>2, <3>3
  <2>5. EndToCome(c)'
    <3> SUFFICES ASSUME exStatus[c] = "closed", state'[c] \notin TERMINAL_STATES
                 PROVE  \E n \in wire' : n.order = c /\ Closes(n)
      BY <1>2 DEF EndToCome, Closes
    <3>1. state'[c] # "untracked"
      BY DEF tracked
    <3>2. state[c] \notin TERMINAL_STATES
      BY <2>2, <3>1
    <3>3. PICK n \in wire : n.order = c /\ Closes(n)
      BY <2>1, <3>2 DEF ToCome, EndToCome
    <3>4. n \in wire'
      BY <1>1, <1>3, <2>1, <3>3 DEF Learned
    <3> QED
      BY <3>3, <3>4
  <2> QED
    BY <2>4, <2>5
<1> QED
  BY <1>4, <1>5, <1>6 DEF ToCome

(* What the exchange does with an order it reports.                        *)
LEMMA ExchangeKeepsToCome ==
  ASSUME IInv, Booked, ToCome, Exchange
  PROVE  Booked' /\ ToCome' /\ wire \subseteq wire'
<1> SUFFICES ASSUME NEW c \in Orders,
                    \/ \E size \in ExchangeSizes : Accept(c, size)
                    \/ RejectOrder(c)
                    \/ \E keys \in KeySets : Execute(c, keys) \/ CancelOrder(c, keys)
             PROVE  Booked' /\ ToCome' /\ wire \subseteq wire'
  BY DEF Exchange
<1>1. UNCHANGED state /\ UNCHANGED filled /\ tracked' = tracked /\ wire \subseteq wire'
  BY DEF Accept, RejectOrder, Execute, CancelOrder, local, tracked
<1>2. ASSUME NEW d \in Orders, d # c
      PROVE  exStatus'[d] = exStatus[d] /\ exCum'[d] = exCum[d] /\ exSize'[d] = exSize[d]
  BY <1>2 DEF Accept, RejectOrder, Execute, CancelOrder, IInv, TypeOK
<1>3. state[c] # "new"
  <2>1. exStatus[c] = "open" \/ state[c] = "sent"
    BY DEF Accept, RejectOrder, Execute, CancelOrder
  <2> QED
    BY <2>1 DEF Booked
<1>4. 0 < exSize[c] => 0 < exSize'[c]
  <2>1. \A size \in ExchangeSizes : 0 < size
    BY ConstantsAssumption
  <2> QED
    BY <2>1 DEF Accept, RejectOrder, Execute, CancelOrder, IInv, TypeOK
<1>5. ASSUME NEW m \in wire' \ wire, m.kind \in {"ack", "cancel"}
      PROVE  m.order = c /\ 0 < exSize'[c]
  <2>1. CASE \E size \in ExchangeSizes : Accept(c, size)
    <3>1. \A size \in ExchangeSizes : 0 < size
      BY ConstantsAssumption
    <3> QED
      BY <1>5, <2>1, <3>1 DEF Accept, Ack, IInv, TypeOK
  <2>2. CASE \E keys \in KeySets : CancelOrder(c, keys)
    <3>1. exCum[c] \in Nat /\ exSize[c] \in Nat /\ exCum[c] < exSize[c]
      BY <2>2, ConstantsAssumption DEF CancelOrder, IInv, TypeOK, ExchangeIsSane
    <3> QED
      BY <1>5, <2>2, <3>1 DEF CancelOrder, Cancel
  <2> QED
    BY <1>5, <2>1, <2>2 DEF RejectOrder, Execute, Reject, Fill
<1>6. Booked'
  <2>1. ASSUME NEW m \in wire', m.kind \in {"ack", "cancel"} PROVE 0 < exSize'[m.order]
    <3>1. CASE m \in wire
      <4>1. m.order \in Orders /\ 0 < exSize[m.order]
        BY <2>1, <3>1 DEF Booked, IInv, TypeOK, Reports
      <4> QED
        BY <1>2, <1>4, <4>1
    <3> QED
      BY <1>5, <2>1, <3>1
  <2>2. ASSUME NEW d \in Orders
        PROVE  /\ state'[d] = "new" => exStatus'[d] = "unknown"
               /\ state'[d] \in Acknowledged => 0 < exSize'[d]
    <3>1. CASE d = c
      <4>1. state[c] \in Acknowledged => 0 < exSize[c]
        BY DEF Booked
      <4> QED
        BY <1>1, <1>3, <1>4, <3>1, <4>1
    <3>2. CASE d # c
      BY <1>1, <1>2, <3>2 DEF Booked
    <3> QED
      BY <3>1, <3>2
  <2> QED
    BY <2>1, <2>2 DEF Booked
<1>7. ASSUME NEW d \in tracked PROVE FillToCome(d)' /\ EndToCome(d)'
  <2>0. d \in Orders /\ FillToCome(d) /\ EndToCome(d)
    BY DEF tracked, ToCome
  <2>1. CASE exStatus'[d] = exStatus[d] /\ exCum'[d] = exCum[d]
    BY <1>1, <2>0, <2>1 DEF FillToCome, EndToCome, Closes
  <2>2. CASE d = c /\ \E size \in ExchangeSizes : Accept(c, size)
    <3>1. exStatus'[c] = "open" /\ exCum' = exCum
      BY <2>2 DEF Accept, IInv, TypeOK
    <3> QED
      BY <1>1, <2>0, <2>2, <3>1 DEF FillToCome, EndToCome
  <2>3. CASE d = c /\ RejectOrder(c)
    <3>1. exCum' = exCum /\ Reject(c) \in wire' /\ Reject(c).order = c /\ Closes(Reject(c))
      BY <2>3 DEF RejectOrder, Reject, Closes
    <3> QED
      BY <1>1, <2>0, <2>3, <3>1 DEF FillToCome, EndToCome, Closes
  <2>4. ASSUME d = c, NEW keys \in KeySets, CancelOrder(c, keys)
        PROVE  FillToCome(d)' /\ EndToCome(d)'
    <3>1. /\ exCum' = exCum /\ Cancel(c, keys) \in wire'
          /\ Cancel(c, keys).order = c /\ Closes(Cancel(c, keys))
      BY <2>4 DEF CancelOrder, Cancel, Closes
    <3> QED
      BY <1>1, <2>0, <2>4, <3>1 DEF FillToCome, EndToCome, Closes
  <2>5. ASSUME d = c, NEW keys \in KeySets, Execute(c, keys)
        PROVE  FillToCome(d)' /\ EndToCome(d)'
    <3> DEFINE f == Fill(c, exCum[c] + 1, exCum[c] + 1 = exSize[c], keys)
    <3>1. f \in wire' /\ exCum'[c] = exCum[c] + 1
      BY <2>5 DEF Execute, IInv, TypeOK
    <3>2. f.kind = "fill" /\ f.order = c /\ f.cum = exCum[c] + 1
      BY DEF Fill
    <3>3. exStatus'[c] = "closed" => f.complete
      BY <2>5 DEF Execute, Fill, IInv, TypeOK
    <3> HIDE DEF f
    <3>4. FillToCome(d)'
      BY <2>5, <3>1, <3>2 DEF FillToCome
    <3>5. EndToCome(d)'
      BY <2>5, <3>1, <3>2, <3>3 DEF EndToCome, Closes
    <3> QED
      BY <3>4, <3>5
  <2> QED
    BY <1>2, <2>0, <2>1, <2>2, <2>3, <2>4, <2>5
<1> QED
  BY <1>1, <1>6, <1>7 DEF ToCome

LEMMA CallerKeepsToCome ==
  ASSUME IInv, Booked, ToCome, Caller
  PROVE  Booked' /\ ToCome' /\ wire' = wire
<1>1. UNCHANGED <<exchange, wire, filled>>
  BY DEF Caller, Register, Send, RequestCancel, CleanupTerminal
<1>2. UNCHANGED exStatus /\ UNCHANGED exCum /\ UNCHANGED exSize
  BY <1>1 DEF exchange
(* It is enough that no order becomes acknowledged or new that was not,    *)
(* and that one that starts to be tracked has nothing to learn.            *)
<1>3. ASSUME NEW d \in Orders, state'[d] # state[d]
      PROVE  /\ state'[d] = "new" => exStatus[d] = "unknown"
             /\ state'[d] \in Acknowledged => state[d] \in Acknowledged
             /\ state'[d] = "untracked" \/ exStatus[d] = "unknown" \/ state[d] \in Acknowledged
             /\ state[d] \in TERMINAL_STATES => state'[d] = "untracked"
  <2>1. ASSUME Register(d) PROVE state'[d] = "new" /\ exStatus[d] = "unknown" /\ state[d] = "untracked"
    BY <2>1 DEF Register, tracked, IInv, TypeOK
  <2>2. ASSUME Send(d) PROVE state'[d] = "sent" /\ exStatus[d] = "unknown" /\ state[d] = "new"
    <3>1. "sent" \in VALID_TRANSITIONS["new"]
      BY DEF VALID_TRANSITIONS, OrderState
    <3> QED
      BY <2>2, <3>1 DEF Send, Transition, can_transition, Booked, IInv, TypeOK
  <2>3. ASSUME RequestCancel(d) PROVE state'[d] = "cancel_requested" /\ state[d] \in {"acked", "partial"}
    <3>1. state[d] \in OrderState /\ "cancel_requested" \in VALID_TRANSITIONS[state[d]]
      BY <2>3 DEF RequestCancel, tracked, IInv, TypeOK, can_transition
    <3>2. state[d] \in {"acked", "partial"}
      BY <3>1 DEF VALID_TRANSITIONS, OrderState, LIVE_STATES, TERMINAL_STATES
    <3> QED
      BY <2>3, <3>2 DEF RequestCancel, IInv, TypeOK
  <2>4. ASSUME NEW S \in SUBSET Orders, CleanupTerminal(S) PROVE state'[d] = "untracked"
    BY <1>3, <2>4 DEF CleanupTerminal
  <2>5. Register(d) \/ Send(d) \/ RequestCancel(d) \/ \E S \in SUBSET Orders : CleanupTerminal(S)
    <3>1. ASSUME NEW e \in Orders, e # d, Register(e) \/ Send(e) \/ RequestCancel(e) PROVE FALSE
      BY <1>3, <3>1 DEF Register, Send, RequestCancel, IInv, TypeOK
    <3> QED
      BY <3>1 DEF Caller
  <2>6. CASE Register(d)
    BY <2>1, <2>6 DEF Acknowledged, TERMINAL_STATES
  <2>7. CASE Send(d)
    BY <2>2, <2>7 DEF Acknowledged, TERMINAL_STATES
  <2>8. CASE RequestCancel(d)
    BY <2>3, <2>8 DEF Acknowledged, TERMINAL_STATES
  <2>9. CASE \E S \in SUBSET Orders : CleanupTerminal(S)
    BY <2>4, <2>9 DEF Acknowledged
  <2> QED
    BY <2>5, <2>6, <2>7, <2>8, <2>9
<1>4. Booked'
  <2>1. \A m \in wire' : m.kind \in {"ack", "cancel"} => 0 < exSize'[m.order]
    BY <1>1, <1>2 DEF Booked
  <2>2. ASSUME NEW d \in Orders
        PROVE  /\ state'[d] = "new" => exStatus'[d] = "unknown"
               /\ state'[d] \in Acknowledged => 0 < exSize'[d]
    BY <1>2, <1>3 DEF Booked
  <2> QED
    BY <2>1, <2>2 DEF Booked
<1>5. ASSUME NEW d \in tracked' PROVE FillToCome(d)' /\ EndToCome(d)'
  <2>1. d \in Orders /\ state'[d] # "untracked"
    BY DEF tracked
  <2>2. CASE exStatus[d] = "unknown"
    <3>1. exCum[d] \in Nat /\ exSize[d] \in Nat /\ exCum[d] <= exSize[d] /\ exSize[d] = 0 /\ filled[d] \in Nat
      BY <2>1, <2>2, ConstantsAssumption DEF IInv, TypeOK, ExchangeIsSane
    <3>2. ~(filled[d] < exCum[d])
      BY <3>1
    <3> QED
      BY <1>1, <1>2, <2>2, <3>2 DEF FillToCome, EndToCome
  <2>3. CASE exStatus[d] # "unknown"
    <3>1. d \in tracked /\ (state[d] \in TERMINAL_STATES => state'[d] = state[d])
      BY <1>3, <2>1, <2>3 DEF tracked, Acknowledged
    <3>2. FillToCome(d) /\ EndToCome(d)
      BY <3>1 DEF ToCome
    <3> QED
      BY <1>1, <1>2, <3>1, <3>2 DEF FillToCome, EndToCome, Closes
  <2> QED
    BY <2>2, <2>3
<1> QED
  BY <1>1, <1>4, <1>5 DEF ToCome

LEMMA StepToCome ==
  ASSUME IInv, Booked, ToCome, ReportsNameOrders, [LosslessNext]_vars
  PROVE  Booked' /\ ToCome' /\ (LeavesLearned \/ UNCHANGED vars)
<1>1. CASE UNCHANGED vars
  BY <1>1 DEF vars, local, exchange, Booked, ToCome, FillToCome, EndToCome, Closes, tracked
<1>2. CASE Caller
  BY <1>2, CallerKeepsToCome DEF LeavesLearned
<1>3. CASE Exchange
  BY <1>3, ExchangeKeepsToCome DEF LeavesLearned
<1>4. ASSUME NEW m \in wire, Deliver(m) \/ Redeliver(m)
      PROVE  Booked' /\ ToCome' /\ LeavesLearned
  <2>1. Process(m) /\ wire' \in {wire, wire \ {m}} /\ UNCHANGED exchange
    BY <1>4 DEF Deliver, Redeliver
  <2> QED
    BY <2>1, TakingKeepsToCome
<1> QED
  BY <1>1, <1>2, <1>3, <1>4 DEF LosslessNext

(* Over a lossless wire nothing an order has not learned is lost, and no   *)
(* report is taken in vain: what is closed at the exchange or was executed *)
(* there is known already or still to be delivered, whatever the order of  *)
(* the reports.  That it is delivered is all ClosedIsLearned asks of       *)
(* fairness.                                                               *)
THEOREM NothingIsSwallowed ==
  ASSUME ReportsNameOrders
  PROVE  LosslessSpec => []ToCome /\ [][LeavesLearned]_vars
<1>1. Init => IInv /\ Booked /\ ToCome
  <2> SUFFICES ASSUME Init PROVE IInv /\ Booked /\ ToCome
    OBVIOUS
  <2>1. Booked
    BY DEF Init, Booked, Acknowledged
  <2>2. ToCome
    BY DEF Init, ToCome, tracked
  <2> QED
    BY <2>1, <2>2, InitIInv
<1>2. ReportsNameOrders /\ IInv /\ Booked /\ ToCome /\ [LosslessNext]_vars
        => IInv' /\ Booked' /\ ToCome' /\ [LeavesLearned]_vars
  <2> SUFFICES ASSUME ReportsNameOrders, IInv, Booked, ToCome, [LosslessNext]_vars
               PROVE  IInv' /\ Booked' /\ ToCome' /\ (LeavesLearned \/ UNCHANGED vars)
    OBVIOUS
  <2>1. [Next]_vars
    BY DEF LosslessNext, Next
  <2>2. IInv'
    BY <2>1, StepIInv
  <2> QED
    BY <2>2, StepToCome
<1>3. ReportsNameOrders
  OBVIOUS
<1>4. IInv /\ Booked /\ ToCome /\ [LosslessNext]_vars
        => IInv' /\ Booked' /\ ToCome' /\ [LeavesLearned]_vars
  BY <1>2, <1>3
<1> QED
  BY <1>1, <1>4, PTL DEF LosslessSpec
=============================================================================
