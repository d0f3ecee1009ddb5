----------------------- MODULE ExecutionIntakeProofs -----------------------
(***************************************************************************)
(* Proofs about ExecutionIntake: its types, and that it implements         *)
(* DecisionExecution for any decisions, bounds and faults.                 *)
(***************************************************************************)
EXTENDS ExecutionIntake, TLAPS

(* Who the handler works for. *)
CurOK ==
  /\ pc \in BeforeClaim \cup Claiming \cup Executing => cur \in Decisions
  /\ pc \in {"idle", "down"} => cur = None

Types == TypeOK /\ CurOK

LEMMA SymbolIn == ASSUME NEW d \in Decisions PROVE Symbol[d] \in Symbols
  BY DEF Symbols

LEMMA InitTypes == Init => Types
  BY ConstantsAssumption DEF Init, Types, TypeOK, CurOK, SourceTypes, HandlerTypes,
     MemoryTypes, ClaimTypes, RowTypes, ExchangeTypes, BeforeClaim, Claiming, Executing,
     Underway, Live, Final, Times, Never

(* Which steps write which variables. *)
LEMMA WritesSource ==
  Next => \/ Read \/ Tick \/ \E d \in Decisions : Publish(d)
          \/ UNCHANGED source
  BY DEF Next, Handler, Startup, World, Tasks, Gate, Refuse, Lookup, Claim, Claimed,
     Record, Send, Answered, Raises, Poll, PollSeesReport, PollGivesUp, Restart, RecoverPoll,
     Recovered, RecoverClaim, RedisLoss, LoseReply, Crash, Serve, Execute, Settle, Close,
     WsReport, ReconcileOrder, ExpireIntent, SyncTrade, HealGhost

LEMMA WritesClaims ==
  Next => \/ Claim \/ Claimed \/ Restart \/ RedisLoss
          \/ \E d \in Decisions : RecoverClaim(d)
          \/ UNCHANGED claims
  BY DEF Next, Handler, Startup, World, Tasks, Read, Gate, Refuse, Lookup,
     Record, Send, Answered, Raises, Poll, PollSeesReport, PollGivesUp, RecoverPoll,
     Recovered, Tick, LoseReply, Crash, Publish, Serve, Execute, Settle, Close,
     WsReport, ReconcileOrder, ExpireIntent, SyncTrade, HealGhost

LEMMA WritesRows ==
  Next => \/ Record \/ Answered \/ Raises \/ Poll \/ PollGivesUp \/ RecoverPoll
          \/ \E d \in Decisions :
               WsReport(d) \/ ReconcileOrder(d) \/ ExpireIntent(d) \/ SyncTrade(d) \/ HealGhost(d)
          \/ UNCHANGED rows
  BY DEF Next, Handler, Startup, World, Tasks, Read, Gate, Refuse, Lookup, Claim, Claimed,
     Send, PollSeesReport, Restart, RecoverClaim,
     Recovered, Tick, RedisLoss, LoseReply, Crash, Publish, Serve, Execute, Settle, Close

LEMMA WritesExchange ==
  Next => \/ Send
          \/ \E d \in Decisions : Serve(d) \/ Execute(d) \/ Settle(d) \/ Close(d)
          \/ UNCHANGED exchange
  BY DEF Next, Handler, Startup, World, Tasks, Read, Gate, Refuse, Lookup, Claim, Claimed,
     Record, Answered, Raises, Poll, PollSeesReport, PollGivesUp, Restart, RecoverPoll,
     Recovered, RecoverClaim, Tick, RedisLoss, LoseReply, Crash, Publish,
     WsReport, ReconcileOrder, ExpireIntent, SyncTrade, HealGhost

LEMMA WritesHandler ==
  Next => \/ Read \/ Gate \/ Refuse \/ Lookup \/ Claim \/ Claimed \/ Record \/ Send
          \/ Answered \/ Raises \/ Poll \/ PollSeesReport \/ PollGivesUp
          \/ Restart \/ RecoverPoll \/ Recovered \/ Crash \/ LoseReply
          \/ \E d \in Decisions : RecoverClaim(d) \/ Serve(d)
          \/ UNCHANGED <<pc, cur, begun, tries, reply>>
  BY DEF Next, Handler, Startup, World, Tasks, Tick, RedisLoss, Publish, Execute, Settle, Close,
     WsReport, ReconcileOrder, ExpireIntent, SyncTrade, HealGhost, worker

LEMMA SourceStep == Types /\ [Next]_vars => SourceTypes'
<1> SUFFICES ASSUME Types, [Next]_vars PROVE SourceTypes'
    OBVIOUS
<1>1. /\ now \in Times
      /\ copies \in [Decisions -> Nat]
      /\ \A e \in Decisions : copies[e] <= MaxCopies[e]
      /\ stamp \in [Decisions -> Times]
      /\ stream \in Seq(Decisions)
  BY DEF Types, TypeOK, SourceTypes
<1>2. CASE Read
  <2>1. stream # <<>> /\ stream' = Tail(stream) /\ UNCHANGED <<now, copies, stamp>>
    BY <1>2 DEF Read
  <2>2. stream' \in Seq(Decisions)
    BY <1>1, <2>1
  <2> QED
    BY <1>1, <2>1, <2>2 DEF SourceTypes
<1>3. CASE Tick
  <2>1. now' = now + 1 /\ now < Horizon /\ UNCHANGED <<copies, stamp, stream>>
    BY <1>3 DEF Tick
  <2>2. now' \in Times
    BY <1>1, <2>1, ConstantsAssumption DEF Times
  <2> QED
    BY <1>1, <2>1, <2>2 DEF SourceTypes
<1>4. ASSUME NEW d \in Decisions, Publish(d) PROVE SourceTypes'
  <2>1. copies' \in [Decisions -> Nat]
    BY <1>1, <1>4 DEF Publish
  <2>2. \A e \in Decisions : copies'[e] <= MaxCopies[e]
    <3>1. MaxCopies[d] \in Nat
      BY ConstantsAssumption
    <3> QED
      BY <1>1, <1>4, <3>1 DEF Publish
  <2>3. stamp' \in [Decisions -> Times]
    BY <1>1, <1>4 DEF Publish
  <2>4. now' \in Times /\ stream' \in Seq(Decisions)
    BY <1>1, <1>4 DEF Publish
  <2> QED
    BY <2>1, <2>2, <2>3, <2>4 DEF SourceTypes
<1>5. CASE UNCHANGED source
  BY <1>1, <1>5 DEF source, SourceTypes
<1> QED
  BY <1>2, <1>3, <1>4, <1>5, WritesSource DEF vars

LEMMA ClaimsStep == Types /\ [Next]_vars => ClaimTypes'
<1> SUFFICES ASSUME Types, [Next]_vars PROVE ClaimTypes'
    OBVIOUS
<1>a. /\ ClaimTypes /\ now \in Nat /\ ClaimTtl \in Nat
      /\ pc \in BeforeClaim \cup Claiming => cur \in Decisions
  BY ConstantsAssumption DEF Types, TypeOK, SourceTypes, CurOK, Times
<1>b. ASSUME NEW d \in Decisions, NEW s \in {"claimed", "duplicate"}, write_audit(d, s)
      PROVE /\ audit' \in [Decisions -> [status : {"none", "claimed", "duplicate"}, until : Nat]]
            /\ granted' \in [Decisions -> Nat]
  BY <1>a, <1>b DEF write_audit, ClaimTypes
<1>c. ASSUME NEW d \in Decisions, SetKey(d) PROVE claim' \in [Decisions -> Nat]
  BY <1>a, <1>c DEF SetKey, ClaimTypes
<1>1. CASE Claim
  <2>1. cur \in Decisions
    BY <1>1, <1>a DEF Claim, BeforeClaim
  <2>2. (claim' = claim \/ SetKey(cur)) /\ audit' = audit /\ granted' = granted
    BY <1>1, Zenon DEF Claim
  <2>3. QED
    BY <1>a, <1>c, <2>1, <2>2 DEF ClaimTypes
<1>2. CASE Claimed
  <2>1. cur \in Decisions
    BY <1>2, <1>a DEF Claimed, Claiming
  <2>2. /\ claim' = claim
        /\ \/ write_audit(cur, IF pc = "claimed" THEN "claimed" ELSE "duplicate")
           \/ audit' = audit /\ granted' = granted
    BY <1>2, Zenon DEF Claimed
  <2>3. (IF pc = "claimed" THEN "claimed" ELSE "duplicate") \in {"claimed", "duplicate"}
    OBVIOUS
  <2>4. QED
    BY <1>a, <1>b, <2>1, <2>2, <2>3 DEF ClaimTypes
<1>3. CASE Restart
  <2>1. claim' = [d \in Decisions |-> Replayed(d)] /\ audit' = audit /\ granted' = granted
    BY <1>3 DEF Restart
  <2>2. \A d \in Decisions : Replayed(d) \in Nat
    BY <1>a DEF Replayed, ClaimTypes
  <2>3. QED
    BY <1>a, <2>1, <2>2 DEF ClaimTypes
<1>4. CASE RedisLoss
  BY <1>4, <1>a DEF RedisLoss, ClaimTypes
<1>5. ASSUME NEW d \in Decisions, RecoverClaim(d) PROVE ClaimTypes'
  <2>1. /\ claim' = claim \/ SetKey(d)
        /\ \/ write_audit(d, "claimed") \/ write_audit(d, "duplicate")
           \/ audit' = audit /\ granted' = granted
    BY <1>5, Zenon DEF RecoverClaim
  <2>2. QED
    BY <1>a, <1>b, <1>c, <2>1 DEF ClaimTypes
<1>6. CASE UNCHANGED claims
  BY <1>6, <1>a DEF claims, ClaimTypes
<1>7. QED
  BY <1>1, <1>2, <1>3, <1>4, <1>5, <1>6, WritesClaims DEF vars

IntentStatuses == {"none", "failed"} \cup Underway \cup Live \cup Final
LedgerStatuses == {"none"} \cup Live \cup Final

IntentTypes == intent \in [Decisions -> IntentStatuses] /\ bornAt \in [Decisions -> Times]

RecordTypes ==
  /\ ledger \in [Decisions -> LedgerStatuses]
  /\ heard \subseteq Decisions /\ presumed \subseteq Decisions

LEMMA RowTypesAre == RowTypes <=> IntentTypes /\ RecordTypes
  BY DEF RowTypes, IntentTypes, RecordTypes, IntentStatuses, LedgerStatuses

LEMMA UpsertTypes ==
  ASSUME NEW d \in Decisions, NEW s \in IntentStatuses, IntentTypes, now \in Times, Upsert(d, s)
  PROVE IntentTypes'
<1>2. intent' = [intent EXCEPT ![d] = s]
  BY DEF Upsert
<1>3. bornAt' = bornAt \/ bornAt' = [bornAt EXCEPT ![d] = now]
  BY DEF Upsert
<1>5. ASSUME NEW S, NEW T, intent \in [Decisions -> S], bornAt \in [Decisions -> T],
             s \in S, now \in T
      PROVE  intent' \in [Decisions -> S] /\ bornAt' \in [Decisions -> T]
  BY <1>2, <1>3, <1>5
<1>4. QED
  BY <1>5 DEF IntentTypes, Times

LEMMA ChangeTypes ==
  ASSUME NEW d \in Decisions, NEW s \in LedgerStatuses, RecordTypes, Change(d, s),
         heard' \subseteq Decisions
  PROVE  RecordTypes'
<1>1. ASSUME NEW S, ledger \in [Decisions -> S], s \in S
      PROVE  ledger' \in [Decisions -> S]
  BY <1>1 DEF Change
<1>2. presumed' \subseteq Decisions
  BY DEF Change, RecordTypes
<1>3. QED
  BY <1>1, <1>2 DEF RecordTypes, LedgerStatuses

LEMMA StoreTypes ==
  ASSUME NEW d \in Decisions, NEW s \in LedgerStatuses, NEW rest, RecordTypes, Store(d, s, rest)
  PROVE  RecordTypes'
<1>1. \/ Change(d, s) /\ heard' = heard \ {d}
      \/ UNCHANGED records
  BY Zenon DEF Store
<1>2. CASE Change(d, s) /\ heard' = heard \ {d}
  BY <1>2, ChangeTypes DEF RecordTypes
<1>3. CASE UNCHANGED records
  BY <1>3 DEF records, RecordTypes, LedgerStatuses
<1>4. QED
  BY <1>1, <1>2, <1>3

LEMMA PresumeTypes ==
  ASSUME NEW d \in Decisions, RecordTypes, Presume(d)
  PROVE  RecordTypes'
  BY DEF Presume, RecordTypes

(* What is told of an order, and what is made of it, are statuses. *)
LEMMA ToldTypes ==
  ASSUME NEW d \in Decisions, order \in [Decisions -> {"none", "open"} \cup Final]
  PROVE  /\ \A s \in Told(d) : s \in LedgerStatuses
         /\ order[d] # "none" => \A s \in Told(d) :
              s \in IntentStatuses /\ IntentStatus(s) \in IntentStatuses
         /\ order[d] \in Final => order[d] \in LedgerStatuses /\ IntentStatus(order[d]) \in IntentStatuses
  BY DEF Told, LedgerStatuses, IntentStatuses, IntentStatus, Live, Final, Underway

LEMMA RowsStep == Types /\ [Next]_vars => RowTypes'
<1> SUFFICES ASSUME Types, [Next]_vars PROVE IntentTypes' /\ RecordTypes'
    BY RowTypesAre DEF RowTypes, IntentTypes, RecordTypes, IntentStatuses, LedgerStatuses
<1>a. /\ IntentTypes /\ RecordTypes /\ now \in Times /\ cur \in Decisions \cup {None}
      /\ pc \in Claiming \cup Executing => cur \in Decisions
      /\ reply \in {"none", "pending", "open", "filled", "rejected"}
      /\ order \in [Decisions -> {"none", "open"} \cup Final]
  BY RowTypesAre DEF Types, TypeOK, SourceTypes, HandlerTypes, ExchangeTypes, CurOK
<1>c. /\ {"created", "submitted", "failed", "filled", "rejected", "canceled"} \subseteq IntentStatuses
      /\ "expired" \in IntentStatuses
      /\ reply \in LedgerStatuses /\ {"filled", "canceled"} \subseteq LedgerStatuses
  BY <1>a DEF IntentStatuses, LedgerStatuses, Underway, Live, Final
<1>i. ASSUME UNCHANGED intents PROVE IntentTypes'
  BY <1>a, <1>i DEF intents, IntentTypes, IntentStatuses, Times
<1>r. ASSUME UNCHANGED records PROVE RecordTypes'
  BY <1>a, <1>r DEF records, RecordTypes, LedgerStatuses
<1>u. ASSUME NEW d \in Decisions, NEW s \in IntentStatuses, Upsert(d, s) PROVE IntentTypes'
  BY <1>a, <1>u, UpsertTypes
<1>s. ASSUME NEW d \in Decisions, NEW s \in LedgerStatuses, NEW rest, Store(d, s, rest)
      PROVE  RecordTypes'
  BY <1>a, <1>s, StoreTypes
<1>1. CASE Record
  <2>1. cur \in Decisions /\ Upsert(cur, "created") /\ UNCHANGED records
    BY <1>1, <1>a DEF Record, Claiming
  <2>2. QED
    BY <1>c, <1>r, <1>u, <2>1
<1>2. CASE Answered \/ Raises
  <2>1. cur \in Decisions
    BY <1>2, <1>a DEF Answered, Raises, Executing
  <2>2. /\ Presume(cur) \/ Store(cur, reply, FALSE) \/ UNCHANGED records
        /\ Upsert(cur, "filled") \/ Upsert(cur, "submitted") \/ Upsert(cur, "failed")
    BY <1>2, Zenon DEF Answered, Raises, RecordReply
  <2>3. RecordTypes'
    BY <1>a, <1>c, <1>r, <1>s, <2>1, <2>2, PresumeTypes
  <2>4. IntentTypes'
    BY <1>c, <1>u, <2>1, <2>2
  <2>5. QED
    BY <2>3, <2>4
<1>3. CASE Poll
  <2>1. cur \in Decisions
    BY <1>3, <1>a DEF Poll, Executing
  <2>2. \/ UNCHANGED rows
        \/ \E status \in Told(cur) \cap Live :
             /\ Store(cur, status, TRUE)
             /\ Upsert(cur, status) \/ UNCHANGED intents
        \/ /\ order[cur] \in Final
           /\ Store(cur, order[cur], TRUE)
           /\ Upsert(cur, IntentStatus(order[cur]))
    BY <1>3, Zenon DEF Poll
  <2>3. CASE UNCHANGED rows
    BY <1>i, <1>r, <2>3 DEF rows
  <2>4. ASSUME NEW status \in Told(cur) \cap Live, Store(cur, status, TRUE),
               Upsert(cur, status) \/ UNCHANGED intents
        PROVE  IntentTypes' /\ RecordTypes'
    <3>1. status \in LedgerStatuses /\ status \in IntentStatuses
      BY <2>4 DEF LedgerStatuses, IntentStatuses
    <3>2. QED
      BY <1>i, <1>u, <1>s, <2>1, <2>4, <3>1
  <2>5. CASE /\ order[cur] \in Final
             /\ Store(cur, order[cur], TRUE)
             /\ Upsert(cur, IntentStatus(order[cur]))
    BY <1>a, <1>u, <1>s, <2>1, <2>5, ToldTypes
  <2>6. QED
    BY <2>2, <2>3, <2>4, <2>5
<1>4. CASE PollGivesUp
  <2>1. cur \in Decisions /\ Upsert(cur, "failed") /\ UNCHANGED records
    BY <1>4, <1>a DEF PollGivesUp, Executing
  <2>2. QED
    BY <1>c, <1>r, <1>u, <2>1
<1>5. CASE RecoverPoll
  <2>1. cur \in Decisions
    BY <1>5, <1>a DEF RecoverPoll
  <2>2. \/ UNCHANGED rows
        \/ Presume(cur) /\ Upsert(cur, "rejected")
        \/ /\ order[cur] # "none"
           /\ \E status \in Told(cur) :
                Store(cur, status, FALSE) /\ Upsert(cur, IntentStatus(status))
    BY <1>5, Zenon DEF RecoverPoll
  <2>3. CASE UNCHANGED rows
    BY <1>i, <1>r, <2>3 DEF rows
  <2>4. CASE Presume(cur) /\ Upsert(cur, "rejected")
    BY <1>a, <1>c, <1>u, <2>1, <2>4, PresumeTypes
  <2>5. ASSUME order[cur] # "none", NEW status \in Told(cur),
               Store(cur, status, FALSE), Upsert(cur, IntentStatus(status))
        PROVE  IntentTypes' /\ RecordTypes'
    <3>1. status \in LedgerStatuses /\ IntentStatus(status) \in IntentStatuses
      BY <1>a, <2>1, <2>5, ToldTypes
    <3>2. QED
      BY <1>u, <1>s, <2>1, <2>5, <3>1
  <2>6. QED
    BY <2>2, <2>3, <2>4, <2>5
<1>6. ASSUME NEW d \in Decisions, WsReport(d) PROVE IntentTypes' /\ RecordTypes'
  <2>1. PICK status \in Told(d) :
          /\ Upsert(d, status)
          /\ \/ Change(d, status) /\ (heard' = heard \cup {d} \/ heard' = heard \ {d})
             \/ UNCHANGED records
    BY <1>6, Zenon DEF WsReport
  <2>2. status \in LedgerStatuses /\ status \in IntentStatuses
    BY <1>6, <1>a, ToldTypes DEF WsReport
  <2>3. heard' = heard \cup {d} \/ heard' = heard \ {d} => heard' \subseteq Decisions
    BY <1>a DEF RecordTypes
  <2>4. RecordTypes'
    BY <1>a, <1>r, <2>1, <2>2, <2>3, ChangeTypes
  <2>5. QED
    BY <1>u, <2>1, <2>2, <2>4
<1>10. ASSUME NEW d \in Decisions, ReconcileOrder(d) PROVE IntentTypes' /\ RecordTypes'
  <2>1. PICK status \in Told(d) : Store(d, status, TRUE) /\ Upsert(d, status)
    BY <1>10, Zenon DEF ReconcileOrder
  <2>2. status \in LedgerStatuses
    BY <1>a, ToldTypes
  <2>3. status # "none" => status \in IntentStatuses
    BY <2>2 DEF LedgerStatuses, IntentStatuses
  <2>4. "none" \in IntentStatuses
    BY DEF IntentStatuses
  <2>5. QED
    BY <1>u, <1>s, <2>1, <2>2, <2>3, <2>4
<1>7. ASSUME NEW d \in Decisions, ExpireIntent(d) PROVE IntentTypes' /\ RecordTypes'
  <2>1. /\ intent' = [intent EXCEPT ![d] = "expired"]
        /\ bornAt' = bornAt /\ UNCHANGED records
    BY <1>7 DEF ExpireIntent
  <2>2. IntentTypes'
    BY <1>a, <1>c, <2>1 DEF IntentTypes, IntentStatuses, Times
  <2>3. QED
    BY <1>r, <2>1, <2>2
<1>8. ASSUME NEW d \in Decisions, SyncTrade(d) PROVE IntentTypes' /\ RecordTypes'
  <2>1. /\ Store(d, "filled", FALSE) \/ UNCHANGED records
        /\ Upsert(d, "filled")
    BY <1>8 DEF SyncTrade
  <2>2. QED
    BY <1>c, <1>r, <1>s, <1>u, <2>1
<1>9. CASE UNCHANGED rows
  BY <1>9, <1>i, <1>r DEF rows
<1>11. CASE UNCHANGED vars
  BY <1>11, <1>9 DEF vars
<1>13. ASSUME NEW d \in Decisions, HealGhost(d) PROVE IntentTypes' /\ RecordTypes'
  <2>1. /\ Store(d, "canceled", FALSE) \/ UNCHANGED records
        /\ Upsert(d, "canceled")
    BY <1>13 DEF HealGhost
  <2>2. QED
    BY <1>c, <1>r, <1>s, <1>u, <2>1
<1>12. QED
  BY <1>1, <1>2, <1>3, <1>4, <1>5, <1>6, <1>7, <1>8, <1>9, <1>10, <1>11, <1>13, WritesRows

LEMMA ExchangeStep == Types /\ [Next]_vars => ExchangeTypes'
<1> SUFFICES ASSUME Types, [Next]_vars PROVE ExchangeTypes'
    OBVIOUS
<1> USE DEF Types, TypeOK, ExchangeTypes, CurOK, Final
<1>1. CASE Send
  BY <1>1 DEF Send, Executing
<1>2. ASSUME NEW d \in Decisions, Serve(d) PROVE ExchangeTypes'
  BY <1>2 DEF Serve, Trade
<1>3. ASSUME NEW d \in Decisions, Settle(d) PROVE ExchangeTypes'
  BY <1>3 DEF Settle, Trade
<1>4. ASSUME NEW d \in Decisions, Close(d) PROVE ExchangeTypes'
  BY <1>4 DEF Close
<1>5. CASE UNCHANGED exchange
  BY <1>5 DEF exchange
<1>6. ASSUME NEW d \in Decisions, Execute(d) PROVE ExchangeTypes'
  BY <1>6 DEF Execute, Trade
<1>7. QED
  BY <1>1, <1>2, <1>3, <1>4, <1>5, <1>6, WritesExchange DEF vars

(* The handler's own state. *)
HandlerOK == HandlerTypes /\ CurOK

LEMMA HandlerStep == Types /\ [Next]_vars => HandlerOK'
<1> SUFFICES ASSUME Types, [Next]_vars PROVE HandlerOK'
    OBVIOUS
<1>a. HandlerTypes /\ CurOK /\ now \in Times /\ now' \in Times /\ stream \in Seq(Decisions)
  BY SourceStep DEF Types, TypeOK, SourceTypes
<1>b. 0 \in Times /\ (\A n \in Nat : n + 1 \in Nat) /\ 0 \in Nat
  BY ConstantsAssumption DEF Times
<1>c. ASSUME UNCHANGED <<pc, cur, begun, tries, reply>> PROVE HandlerOK'
  BY <1>a, <1>c DEF HandlerOK, HandlerTypes, CurOK, BeforeClaim, Claiming, Executing
<1>d. ASSUME Drop, reply' \in {reply, "none"} PROVE HandlerOK'
  BY <1>a, <1>b, <1>d DEF Drop, HandlerOK, HandlerTypes, CurOK, BeforeClaim, Claiming, Executing
<1>e. ASSUME cur \in Decisions, cur' = cur, begun' = begun, tries' \in Nat,
             pc' \in BeforeClaim \cup Claiming \cup Executing,
             reply' \in {"none", "pending", "open", "filled", "rejected"}
      PROVE HandlerOK'
  BY <1>a, <1>e DEF HandlerOK, HandlerTypes, CurOK, BeforeClaim, Claiming, Executing
<1>f. pc \in BeforeClaim \cup Claiming \cup Executing => cur \in Decisions
  BY <1>a DEF CurOK
<1>g. tries \in Nat /\ reply \in {"none", "pending", "open", "filled", "rejected"}
  BY <1>a DEF HandlerTypes
<1>1. CASE Read
  <2>1. Head(stream) \in Decisions
    BY <1>1, <1>a DEF Read
  <2>2. \/ UNCHANGED <<pc, cur, begun>>
        \/ pc' = "gate" /\ cur' = Head(stream) /\ begun' = now
    BY <1>1, Zenon DEF Read
  <2>3. UNCHANGED <<tries, reply>>
    BY <1>1 DEF Read
  <2>4. CASE UNCHANGED <<pc, cur, begun>>
    BY <1>c, <2>3, <2>4
  <2>5. CASE pc' = "gate" /\ cur' = Head(stream) /\ begun' = now
    BY <1>a, <2>1, <2>3, <2>5
       DEF HandlerOK, HandlerTypes, CurOK, BeforeClaim, Claiming, Executing
  <2>6. QED
    BY <2>2, <2>4, <2>5
<1>2. CASE Gate
  <2>1. \/ Drop /\ reply' = reply
        \/ pc' = "lookup" /\ UNCHANGED <<cur, begun, tries, reply>>
    BY <1>2, Zenon DEF Gate
  <2>2. cur \in Decisions
    BY <1>2, <1>f DEF Gate, BeforeClaim
  <2>3. "lookup" \in BeforeClaim
    BY DEF BeforeClaim
  <2>4. QED
    BY <1>d, <1>e, <1>g, <2>1, <2>2, <2>3
<1>3. CASE Refuse
  BY <1>3, <1>d DEF Refuse
<1>4. CASE Lookup
  <2>1. \/ Drop /\ reply' = reply
        \/ pc' = "claim" /\ UNCHANGED <<cur, begun, tries, reply>>
    BY <1>4, Zenon DEF Lookup
  <2>2. cur \in Decisions
    BY <1>4, <1>f DEF Lookup, BeforeClaim
  <2>3. "claim" \in BeforeClaim
    BY DEF BeforeClaim
  <2>4. QED
    BY <1>d, <1>e, <1>g, <2>1, <2>2, <2>3
<1>5. CASE Claim
  <2>1. pc' \in {"refused", "claimed"} /\ UNCHANGED <<cur, begun, tries, reply>>
    BY <1>5, Zenon DEF Claim
  <2>2. cur \in Decisions
    BY <1>5, <1>f DEF Claim, BeforeClaim
  <2>3. pc' \in Claiming
    BY <2>1 DEF Claiming
  <2>4. QED
    BY <1>e, <1>g, <2>1, <2>2, <2>3
<1>6. CASE Claimed
  <2>1. \/ Drop /\ reply' = reply
        \/ pc' = "record" /\ UNCHANGED <<cur, begun, tries, reply>>
    BY <1>6, Zenon DEF Claimed
  <2>2. cur \in Decisions
    BY <1>6, <1>f DEF Claimed, Claiming
  <2>3. "record" \in Claiming
    BY DEF Claiming
  <2>4. QED
    BY <1>d, <1>e, <1>g, <2>1, <2>2, <2>3
<1>7. CASE Record
  <2>1. cur \in Decisions /\ "send" \in Executing
    BY <1>7, <1>f DEF Record, Claiming, Executing
  <2>2. QED
    BY <1>7, <1>e, <1>g, <2>1 DEF Record
<1>8. CASE Send
  <2>1. cur \in Decisions /\ "wait" \in Executing
    BY <1>8, <1>f DEF Send, Executing
  <2>2. QED
    BY <1>8, <1>b, <1>e, <1>g, <2>1 DEF Send, NextTry
<1>9. CASE Answered
  <2>1. cur \in Decisions /\ {"poll", "send"} \subseteq Executing /\ reply' = "none"
    BY <1>9, <1>f DEF Answered, Executing
  <2>2. \/ Finish(TRUE) \/ Finish(FALSE)
        \/ pc' = "poll" /\ tries' = 0 /\ UNCHANGED <<cur, begun, lastOrder, positions>>
        \/ pc' = "send" /\ UNCHANGED <<cur, begun, tries, lastOrder, positions>>
    BY <1>9, Zenon DEF Answered
  <2>3. CASE Finish(TRUE) \/ Finish(FALSE)
    BY <1>d, <2>1, <2>3 DEF Finish
  <2>4. CASE pc' = "poll" /\ tries' = 0 /\ UNCHANGED <<cur, begun, lastOrder, positions>>
    BY <1>b, <1>e, <2>1, <2>4
  <2>5. CASE pc' = "send" /\ UNCHANGED <<cur, begun, tries, lastOrder, positions>>
    BY <1>e, <1>g, <2>1, <2>5
  <2>6. QED
    BY <2>2, <2>3, <2>4, <2>5
<1>10. CASE Poll
  <2>1. cur \in Decisions /\ pc \in Executing /\ reply' = reply
    BY <1>10, <1>f DEF Poll, Executing
  <2>2. \/ Finish(TRUE)
        \/ tries' = NextTry /\ UNCHANGED <<pc, cur, begun, lastOrder, positions>>
    BY <1>10, Zenon DEF Poll
  <2>3. CASE Finish(TRUE)
    BY <1>d, <2>1, <2>3 DEF Finish
  <2>4. CASE tries' = NextTry /\ UNCHANGED <<pc, cur, begun, lastOrder, positions>>
    BY <1>b, <1>e, <1>g, <2>1, <2>4 DEF NextTry
  <2>5. QED
    BY <2>2, <2>3, <2>4
<1>11. CASE PollSeesReport \/ PollGivesUp \/ Raises
  BY <1>11, <1>d DEF PollSeesReport, PollGivesUp, Raises, Finish
<1>12. CASE Restart
  BY <1>12, <1>a DEF Restart, HandlerOK, HandlerTypes, CurOK, BeforeClaim, Claiming, Executing
<1>13. ASSUME NEW d \in Decisions, RecoverClaim(d) PROVE HandlerOK'
  <2>1. pc = "recover" /\ pc' = pc /\ cur' \in {cur, d} /\ UNCHANGED <<begun, tries, reply>>
    BY <1>13, Zenon DEF RecoverClaim
  <2>2. QED
    BY <1>a, <2>1 DEF HandlerOK, HandlerTypes, CurOK, BeforeClaim, Claiming, Executing
<1>14. CASE RecoverPoll
  BY <1>14, <1>a DEF RecoverPoll, HandlerOK, HandlerTypes, CurOK, BeforeClaim, Claiming, Executing
<1>15. CASE Recovered
  BY <1>15, <1>a DEF Recovered, HandlerOK, HandlerTypes, CurOK, BeforeClaim, Claiming, Executing
<1>16. CASE Crash
  BY <1>16, <1>a, <1>b DEF Crash, HandlerOK, HandlerTypes, CurOK, BeforeClaim, Claiming, Executing
<1>17. CASE LoseReply
  <2>1. cur \in Decisions /\ pc' \in Executing /\ UNCHANGED <<cur, begun, tries>>
    BY <1>17, <1>f DEF LoseReply, Executing
  <2>2. QED
    BY <1>17, <1>e, <1>g, <2>1 DEF LoseReply
<1>18. ASSUME NEW d \in Decisions, Serve(d) PROVE HandlerOK'
  <2>1. UNCHANGED <<pc, cur, begun, tries>>
    BY <1>18 DEF Serve
  <2>2. reply' \in {"none", "pending", "open", "filled", "rejected"}
    BY <1>18, <1>g DEF Serve
  <2>3. QED
    BY <1>a, <2>1, <2>2 DEF HandlerOK, HandlerTypes, CurOK, BeforeClaim, Claiming, Executing
<1>19. CASE UNCHANGED <<pc, cur, begun, tries, reply>>
  BY <1>19, <1>c
<1>20. QED
  BY <1>1, <1>2, <1>3, <1>4, <1>5, <1>6, <1>7, <1>8, <1>9, <1>10, <1>11, <1>12, <1>13,
     <1>14, <1>15, <1>16, <1>17, <1>18, <1>19, WritesHandler DEF vars, worker

(* Memory that the handler shares with the other tasks. *)
LEMMA WritesTodo ==
  Next => \/ Crash \/ Restart \/ RecoverPoll \/ \E d \in Decisions : RecoverClaim(d)
          \/ UNCHANGED todo
  BY DEF Next, Handler, Startup, World, Tasks, Read, Gate, Refuse, Lookup, Claim, Claimed,
     Record, Send, Answered, Raises, Poll, PollSeesReport, PollGivesUp, Recovered, Tick, RedisLoss,
     LoseReply, Publish, Serve, Execute, Settle, Close, WsReport, ReconcileOrder, ExpireIntent, SyncTrade, HealGhost, worker

LEMMA WritesPositions ==
  Next => \/ Crash \/ Restart \/ RecoverPoll \/ Answered \/ Raises \/ Poll
          \/ \E d \in Decisions : Close(d) \/ WsReport(d) \/ ReconcileOrder(d)
          \/ UNCHANGED positions
  BY DEF Next, Handler, Startup, World, Tasks, Read, Gate, Refuse, Lookup, Claim, Claimed,
     Record, Send, PollSeesReport, PollGivesUp, Recovered, RecoverClaim, Tick, RedisLoss,
     LoseReply, Publish, Serve, Execute, Settle, ExpireIntent, SyncTrade, HealGhost, worker

LEMMA WritesLastOrder ==
  Next => \/ Crash \/ Gate \/ Answered \/ Raises \/ Poll \/ PollSeesReport \/ PollGivesUp
          \/ UNCHANGED lastOrder
  BY DEF Next, Handler, Startup, World, Tasks, Read, Refuse, Lookup, Claim, Claimed,
     Record, Send, Restart, RecoverPoll, Recovered, RecoverClaim, Tick, RedisLoss,
     LoseReply, Publish, Serve, Execute, Settle, Close, WsReport, ReconcileOrder, ExpireIntent, SyncTrade, HealGhost, worker

LEMMA MemoryStep == Types /\ [Next]_vars => MemoryTypes'
<1> SUFFICES ASSUME Types, [Next]_vars PROVE MemoryTypes'
    OBVIOUS
<1>a. /\ todo \subseteq Decisions /\ positions \subseteq Decisions /\ held \subseteq Decisions
      /\ lastOrder \in [Symbols -> Times \cup {Never}]
      /\ now \in Times /\ cur \in Decisions \cup {None}
      /\ pc \in BeforeClaim \cup Claiming \cup Executing => cur \in Decisions
  BY DEF Types, TypeOK, SourceTypes, HandlerTypes, ExchangeTypes, MemoryTypes, CurOK
<1>1. todo' \subseteq Decisions
  <2>1. ASSUME NEW d \in Decisions, RecoverClaim(d) PROVE todo' \subseteq Decisions
    <3>1. todo' \subseteq todo
      BY <2>1, Zenon DEF RecoverClaim
    <3>2. QED
      BY <1>a, <3>1
  <2>2. CASE Crash \/ Restart \/ RecoverPoll
    BY <1>a, <2>2 DEF Crash, Restart, RecoverPoll
  <2>3. QED
    BY <1>a, <2>1, <2>2, WritesTodo DEF vars, worker
<1>2. positions' \subseteq Decisions
  <2>1. CASE Answered \/ Raises \/ Poll
    <3>1. cur \in Decisions
      BY <1>a, <2>1 DEF Answered, Raises, Poll, Executing
    <3>2. positions' = positions \/ positions' = positions \cup {cur}
      BY <2>1, Zenon DEF Answered, Raises, Poll
    <3>3. QED
      BY <1>a, <3>1, <3>2
  <2>2. CASE RecoverPoll
    <3>1. cur \in Decisions
      BY <1>a, <2>2 DEF RecoverPoll
    <3>2. positions' = positions \/ positions' = positions \cup {cur}
      BY <2>2, Zenon DEF RecoverPoll
    <3>3. QED
      BY <1>a, <3>1, <3>2
  <2>3. ASSUME NEW d \in Decisions, WsReport(d) PROVE positions' \subseteq Decisions
    <3>1. positions' = positions \/ positions' = positions \cup {d}
      BY <2>3, Zenon DEF WsReport
    <3>2. QED
      BY <1>a, <3>1
  <2>7. ASSUME NEW d \in Decisions, ReconcileOrder(d) PROVE positions' \subseteq Decisions
    <3>1. positions' = positions \/ positions' = positions \cup {d}
      BY <2>7, Zenon DEF ReconcileOrder
    <3>2. QED
      BY <1>a, <3>1
  <2>4. ASSUME NEW d \in Decisions, Close(d) PROVE positions' \subseteq Decisions
    BY <1>a, <2>4 DEF Close
  <2>5. CASE Crash \/ Restart
    BY <1>a, <2>5 DEF Crash, Restart
  <2>6. QED
    BY <1>a, <2>1, <2>2, <2>3, <2>4, <2>5, <2>7, WritesPositions DEF vars, worker
<1>3. lastOrder' \in [Symbols -> Times \cup {Never}]
  <2>a. ASSUME cur \in Decisions,
               lastOrder' \in {lastOrder, [lastOrder EXCEPT ![Symbol[cur]] = now]}
        PROVE lastOrder' \in [Symbols -> Times \cup {Never}]
    <3>1. Symbol[cur] \in Symbols
      BY <2>a, SymbolIn
    <3> HIDE DEF Symbols, Times, Never
    <3>2. QED
      BY <1>a, <2>a, <3>1
  <2>1. CASE Gate
    <3>1. cur \in Decisions
      BY <1>a, <2>1 DEF Gate, BeforeClaim
    <3>2. lastOrder' \in {lastOrder, [lastOrder EXCEPT ![Symbol[cur]] = now]}
      BY <2>1, Zenon DEF Gate
    <3>3. QED
      BY <2>a, <3>1, <3>2
  <2>2. CASE Answered \/ Raises \/ Poll \/ PollSeesReport \/ PollGivesUp
    <3>1. cur \in Decisions
      BY <1>a, <2>2 DEF Answered, Raises, Poll, PollSeesReport, PollGivesUp, Executing
    <3>2. Finish(TRUE) \/ Finish(FALSE) \/ lastOrder' = lastOrder
      BY <2>2, Zenon DEF Answered, Raises, Poll, PollSeesReport, PollGivesUp
    <3>3. lastOrder' \in {lastOrder, [lastOrder EXCEPT ![Symbol[cur]] = now]}
      BY <3>2, Zenon DEF Finish
    <3>4. QED
      BY <2>a, <3>1, <3>3
  <2>3. CASE Crash
    BY <2>3 DEF Crash
  <2>4. QED
    BY <1>a, <2>1, <2>2, <2>3, WritesLastOrder DEF vars, worker
<1>4. QED
  BY <1>1, <1>2, <1>3 DEF MemoryTypes

LEMMA GhostStep ==
  Types /\ [Next]_vars => /\ crashes' \in 0 .. MaxCrashes
                         /\ runs' \in [Decisions -> Nat] /\ reliable' \in BOOLEAN
<1> SUFFICES ASSUME Types, [Next]_vars
             PROVE  /\ crashes' \in 0 .. MaxCrashes
                    /\ runs' \in [Decisions -> Nat] /\ reliable' \in BOOLEAN
    OBVIOUS
<1>a. /\ crashes \in 0 .. MaxCrashes /\ runs \in [Decisions -> Nat]
      /\ reliable \in BOOLEAN /\ MaxCrashes \in Nat
      /\ pc = "record" => cur \in Decisions
  BY ConstantsAssumption DEF Types, TypeOK, CurOK, Claiming
<1>1. crashes' = crashes \/ (crashes < MaxCrashes /\ crashes' = crashes + 1)
  BY DEF Next, Handler, Startup, World, Tasks, Read, Gate, Refuse, Lookup, Claim,
     Claimed, Record, Send, Answered, Raises, Poll, PollSeesReport, PollGivesUp, Restart,
     RecoverPoll, Recovered, RecoverClaim, Tick, RedisLoss, LoseReply, Crash, Publish,
     Serve, Execute, Settle, Close, WsReport, ReconcileOrder, ExpireIntent, SyncTrade, HealGhost, vars
<1>2. runs' = runs \/ Record
  BY DEF Next, Handler, Startup, World, Tasks, Read, Gate, Refuse, Lookup, Claim,
     Claimed, Send, Answered, Raises, Poll, PollSeesReport, PollGivesUp, Restart,
     RecoverPoll, Recovered, RecoverClaim, Tick, RedisLoss, LoseReply, Crash, Publish,
     Serve, Execute, Settle, Close, WsReport, ReconcileOrder, ExpireIntent, SyncTrade, HealGhost, vars, ghosts
<1>3. reliable' = reliable \/ Claimed \/ RedisLoss
  BY DEF Next, Handler, Startup, World, Tasks, Read, Gate, Refuse, Lookup, Claim,
     Record, Send, Answered, Raises, Poll, PollSeesReport, PollGivesUp, Restart,
     RecoverPoll, Recovered, RecoverClaim, Tick, LoseReply, Crash, Publish,
     Serve, Execute, Settle, Close, WsReport, ReconcileOrder, ExpireIntent, SyncTrade, HealGhost, vars, ghosts
<1>4. reliable' \in BOOLEAN
  <2>1. CASE Claimed
    <3>1. reliable' = reliable \/ reliable' = (reliable /\ pc = "claimed")
      BY <2>1, Zenon DEF Claimed
    <3>2. QED
      BY <1>a, <3>1
  <2>2. QED
    BY <1>a, <1>3, <2>1 DEF RedisLoss
<1>5. runs' \in [Decisions -> Nat]
  BY <1>a, <1>2 DEF Record
<1>6. QED
  BY <1>a, <1>1, <1>4, <1>5

(* Every variable keeps its type, whatever the bounds and the faults. *)
THEOREM TypeCorrect == Spec => []TypeOK
<1>1. Types /\ [Next]_vars => Types'
  BY SourceStep, ClaimsStep, RowsStep, ExchangeStep, HandlerStep, MemoryStep, GhostStep
     DEF Types, TypeOK, HandlerOK
<1>2. Types => TypeOK
  BY DEF Types
<1>3. QED
  BY InitTypes, <1>1, <1>2, PTL DEF Spec

-----------------------------------------------------------------------------
(* The strengthening.  The age limit and the claim work together: an event *)
(* that passes the limit carries a timestamp so recent that the claim of   *)
(* an earlier execution cannot have lapsed.                                *)

Published ==
  /\ \A d \in Decisions : runs[d] > 0 \/ granted[d] # 0 \/ cur = d => copies[d] > 0
  /\ \A i \in DOMAIN stream : copies[stream[i]] > 0

StampPast == \A d \in Decisions : stamp[d] <= now

Fresh ==
  pc \in BeforeClaim =>
    begun <= now /\ now <= begun + HandlingTime /\ begun - stamp[cur] <= MaxAge

Begun ==
  \A d \in Decisions :
    \/ intent[d] # "none" \/ order[d] # "none" \/ d \in wire \cup traded \cup todo
    \/ cur = d /\ pc \in Executing \cup {"recover"}
    => runs[d] > 0

Outlives(t, d) == t >= stamp[d] + ClaimTtl

Granted == \A d \in Decisions : granted[d] # 0 => Outlives(granted[d], d)

Claimant(d) == cur = d /\ pc \in {"claimed", "record"}

Kept ==
  reliable => \A d \in Decisions : runs[d] > 0 \/ Claimant(d) => Outlives(claim[d], d)

FirstRun == reliable => \A d \in Decisions : Claimant(d) => runs[d] = 0

Protocol == Published /\ StampPast /\ Fresh /\ Begun /\ Granted /\ Kept /\ FirstRun

OnRecord ==
  \A d \in Decisions :
    order[d] # "none" \/ d \in wire \/ (cur = d /\ pc \in Executing) => intent[d] # "none"

ReplyTrue == reply = "filled" => cur \in Decisions /\ pc = "wait" /\ order[cur] = "filled"

FilledTraded == \A d \in Decisions : order[d] = "filled" => d \in traded

FilledIntents == \A d \in Decisions : intent[d] = "filled" => d \in traded

Rows == OnRecord /\ ReplyTrue /\ FilledTraded /\ FilledIntents

(* Which steps move the handler where, and write which single variable. *)
LEMMA WritesCopies ==
  Next => (\E d \in Decisions : Publish(d)) \/ UNCHANGED <<copies, stamp>>
  BY DEF Next, Handler, Startup, World, Tasks, Read, Gate, Refuse, Lookup, Claim,
     Claimed, Record, Send, Answered, Raises, Poll, PollSeesReport, PollGivesUp,
     Restart, RecoverPoll, Recovered, RecoverClaim, Tick, RedisLoss, LoseReply,
     Crash, Serve, Execute, Settle, Close, WsReport, ReconcileOrder, ExpireIntent, SyncTrade, HealGhost, source

LEMMA WritesNow == Next => Tick \/ UNCHANGED now
  BY DEF Next, Handler, Startup, World, Tasks, Read, Gate, Refuse, Lookup, Claim,
     Claimed, Record, Send, Answered, Raises, Poll, PollSeesReport, PollGivesUp,
     Restart, RecoverPoll, Recovered, RecoverClaim, RedisLoss, LoseReply,
     Crash, Publish, Serve, Execute, Settle, Close, WsReport, ReconcileOrder, ExpireIntent, SyncTrade, HealGhost,
     source

LEMMA WritesRuns == Next => Record \/ UNCHANGED runs
  BY DEF Next, Handler, Startup, World, Tasks, Read, Gate, Refuse, Lookup, Claim,
     Claimed, Send, Answered, Raises, Poll, PollSeesReport, PollGivesUp, Restart,
     RecoverPoll, Recovered, RecoverClaim, Tick, RedisLoss, LoseReply, Crash,
     Publish, Serve, Execute, Settle, Close, WsReport, ReconcileOrder, ExpireIntent, SyncTrade, HealGhost, ghosts

LEMMA WritesReliable == Next => Claimed \/ RedisLoss \/ UNCHANGED reliable
  BY DEF Next, Handler, Startup, World, Tasks, Read, Gate, Refuse, Lookup, Claim,
     Record, Send, Answered, Raises, Poll, PollSeesReport, PollGivesUp, Restart,
     RecoverPoll, Recovered, RecoverClaim, Tick, LoseReply, Crash, Publish,
     Serve, Execute, Settle, Close, WsReport, ReconcileOrder, ExpireIntent, SyncTrade, HealGhost, ghosts

LEMMA Takes ==
  Next => \/ Read \/ \E d \in Decisions : RecoverClaim(d)
          \/ cur' \in {cur, None}
<1>1. ASSUME NEW d \in Decisions, Serve(d) PROVE UNCHANGED cur
  BY <1>1 DEF Serve
<1>2. QED
  BY <1>1, WritesHandler, Zenon DEF Gate, Refuse, Lookup, Claim, Claimed, Record, Send,
     Answered, Raises, Poll, PollSeesReport, PollGivesUp, Restart, RecoverPoll, Recovered, Crash,
     LoseReply, Drop, Finish

LEMMA ReachesClaim ==
  Next /\ pc' \in BeforeClaim =>
    Read \/ (pc \in BeforeClaim /\ UNCHANGED <<cur, begun>>)
  BY WritesHandler
     DEF Read, Gate, Refuse, Lookup, Claim, Claimed, Record, Send,
     Answered, Raises, Poll, PollSeesReport, PollGivesUp, Restart, RecoverPoll, Recovered, Crash,
     LoseReply, Drop, Finish, RecoverClaim, Serve, BeforeClaim

LEMMA ReachesRecord ==
  Next /\ pc' \in {"claimed", "record"} =>
    Claim \/ Claimed \/ (pc' = pc /\ UNCHANGED cur)
  BY WritesHandler
     DEF Read, Gate, Refuse, Lookup, Record, Send,
     Answered, Raises, Poll, PollSeesReport, PollGivesUp, Restart, RecoverPoll, Recovered, Crash,
     LoseReply, Drop, Finish, RecoverClaim, Serve

LEMMA ReachesExecution ==
  Next /\ pc' \in Executing =>
    Record \/ (pc \in Executing /\ UNCHANGED cur)
  BY WritesHandler
     DEF Read, Gate, Refuse, Lookup, Claim, Claimed, Send,
     Answered, Raises, Poll, PollSeesReport, PollGivesUp, Restart, RecoverPoll, Recovered, Crash,
     LoseReply, Drop, Finish, RecoverClaim, Serve, Executing

LEMMA ReachesRecovery ==
  Next /\ pc' = "recover" =>
    \/ Restart \/ RecoverPoll \/ (\E d \in Decisions : RecoverClaim(d))
    \/ (pc = "recover" /\ UNCHANGED cur)
  BY WritesHandler
     DEF Read, Gate, Refuse, Lookup, Claim, Claimed, Record, Send,
     Answered, Raises, Poll, PollSeesReport, PollGivesUp, Recovered, Crash,
     LoseReply, Drop, Finish, Serve

(* The types, as the lemmas below use them. *)
Facts ==
  /\ now \in Nat /\ copies \in [Decisions -> Nat] /\ stamp \in [Decisions -> Nat]
  /\ stream \in Seq(Decisions)
  /\ begun \in Nat /\ cur \in Decisions \cup {None}
  /\ pc \in BeforeClaim \cup Claiming \cup Executing => cur \in Decisions
  /\ claim \in [Decisions -> Nat] /\ granted \in [Decisions -> Nat]
  /\ order \in [Decisions -> {"none", "open"} \cup Final]
  /\ runs \in [Decisions -> Nat] /\ reliable \in BOOLEAN
  /\ traded \subseteq Decisions

Bounds ==
  /\ MaxAge \in Nat /\ HandlingTime \in Nat /\ ClaimTtl \in Nat
  /\ MaxAge + HandlingTime < ClaimTtl /\ None \notin Decisions

LEMMA BoundsHold == Bounds
  BY ConstantsAssumption, ClaimOutlivesDecision DEF Bounds

LEMMA FactsHold == Types => Facts
<1> SUFFICES ASSUME Types PROVE Facts
    OBVIOUS
<1>1. Times \subseteq Nat
  BY ConstantsAssumption DEF Times
<1>2. /\ now \in Nat /\ copies \in [Decisions -> Nat] /\ stamp \in [Decisions -> Nat]
      /\ stream \in Seq(Decisions)
  <2>1. now \in Times /\ stamp \in [Decisions -> Times]
    BY DEF Types, TypeOK, SourceTypes
  <2>2. QED
    BY <1>1, <2>1 DEF Types, TypeOK, SourceTypes
<1>3. begun \in Nat /\ cur \in Decisions \cup {None}
  BY <1>1 DEF Types, TypeOK, HandlerTypes
<1>4. claim \in [Decisions -> Nat] /\ granted \in [Decisions -> Nat]
  BY DEF Types, TypeOK, ClaimTypes
<1>5. order \in [Decisions -> {"none", "open"} \cup Final] /\ traded \subseteq Decisions
  BY DEF Types, TypeOK, ExchangeTypes
<1>6. runs \in [Decisions -> Nat] /\ reliable \in BOOLEAN
  BY DEF Types, TypeOK
<1>7. pc \in BeforeClaim \cup Claiming \cup Executing => cur \in Decisions
  BY DEF Types, CurOK
<1>8. QED
  BY <1>2, <1>3, <1>4, <1>5, <1>6, <1>7 DEF Facts

LEMMA ClaimWriters ==
  ASSUME Types, Next, NEW d \in Decisions
  PROVE  /\ granted'[d] = granted[d] \/ (granted'[d] = now + ClaimTtl
                /\ ((Claimed /\ cur = d) \/ RecoverClaim(d)))
         /\ \/ claim'[d] = claim[d]
            \/ ~KeyLives(d) /\ claim'[d] = now + ClaimTtl
            \/ Restart /\ claim'[d] = Replayed(d)
            \/ RedisLoss
<1>a. /\ claim \in [Decisions -> Nat] /\ granted \in [Decisions -> Nat]
      /\ cur \in Decisions \cup {None} /\ now \in Nat /\ ClaimTtl \in Nat
      /\ pc \in BeforeClaim \cup Claiming => cur \in Decisions
  BY FactsHold, BoundsHold DEF Facts, Bounds
<1>b. ASSUME NEW e \in Decisions, SetKey(e)
      PROVE  claim'[d] = claim[d] \/ (~KeyLives(d) /\ claim'[d] = now + ClaimTtl)
  <2>1. ~KeyLives(e) /\ claim' = [claim EXCEPT ![e] = now + ClaimTtl]
    BY <1>b DEF SetKey
  <2>2. CASE e = d
    BY <2>1, <2>2, <1>a
  <2>3. CASE e # d
    BY <2>1, <2>3, <1>a
  <2>4. QED
    BY <2>2, <2>3
<1>c. ASSUME NEW e \in Decisions, NEW s, write_audit(e, s)
      PROVE  granted'[d] = granted[d] \/ (granted'[d] = now + ClaimTtl /\ e = d)
  <2>1. granted' = granted \/ granted' = [granted EXCEPT ![e] = now + ClaimTtl]
    BY <1>c, Zenon DEF write_audit
  <2>2. QED
    BY <2>1, <1>a
<1>1. CASE Claim
  <2>1. cur \in Decisions
    BY <1>1, <1>a DEF Claim, BeforeClaim
  <2>2. (claim' = claim \/ SetKey(cur)) /\ granted' = granted
    BY <1>1, Zenon DEF Claim
  <2>3. QED
    BY <1>b, <2>1, <2>2
<1>2. CASE Claimed
  <2>1. cur \in Decisions
    BY <1>2, <1>a DEF Claimed, Claiming
  <2>2. /\ claim' = claim
        /\ \/ write_audit(cur, IF pc = "claimed" THEN "claimed" ELSE "duplicate")
           \/ granted' = granted
    BY <1>2, Zenon DEF Claimed
  <2>3. QED
    BY <1>2, <1>c, <2>1, <2>2, Zenon
<1>3. CASE Restart
  <2>1. claim'[d] = Replayed(d) /\ granted' = granted
    BY <1>3 DEF Restart
  <2>2. QED
    BY <1>3, <2>1
<1>4. CASE RedisLoss
  BY <1>4 DEF RedisLoss
<1>5. ASSUME NEW e \in Decisions, RecoverClaim(e)
      PROVE  /\ granted'[d] = granted[d] \/ (granted'[d] = now + ClaimTtl /\ e = d)
             /\ \/ claim'[d] = claim[d]
                \/ ~KeyLives(d) /\ claim'[d] = now + ClaimTtl
  <2>1. /\ claim' = claim \/ SetKey(e)
        /\ \/ write_audit(e, "claimed") \/ write_audit(e, "duplicate")
           \/ granted' = granted
    BY <1>5, Zenon DEF RecoverClaim
  <2>2. granted'[d] = granted[d] \/ (granted'[d] = now + ClaimTtl /\ e = d)
    BY <1>c, <2>1, Zenon
  <2>3. QED
    BY <1>b, <2>1, <2>2, Zenon
<1>6. CASE UNCHANGED claims
  BY <1>6 DEF claims
<1>7. QED
  <2>1. CASE \E e \in Decisions : RecoverClaim(e)
    BY <1>5, <2>1, Zenon
  <2>2. QED
    BY <1>1, <1>2, <1>3, <1>4, <1>6, <2>1, WritesClaims, Zenon

LEMMA PublishedStep == Types /\ Types' /\ Protocol /\ Next => Published'
<1> SUFFICES ASSUME Types, Types', Protocol, Next PROVE Published'
    OBVIOUS
<1>a. /\ copies \in [Decisions -> Nat] /\ copies' \in [Decisions -> Nat]
      /\ stream \in Seq(Decisions) /\ None \notin Decisions
      /\ runs \in [Decisions -> Nat]
      /\ pc \in BeforeClaim \cup Claiming => cur \in Decisions
  <2>1. copies' \in [Decisions -> Nat]
    BY DEF Types, TypeOK, SourceTypes
  <2>2. QED
    BY <2>1, FactsHold, BoundsHold DEF Facts, Bounds
<1>b. ASSUME NEW d \in Decisions, copies[d] > 0 PROVE copies'[d] > 0
  <2>1. ASSUME NEW e \in Decisions, Publish(e) PROVE copies'[d] > 0
    <3>1. copies' = [copies EXCEPT ![e] = @ + 1]
      BY <2>1 DEF Publish
    <3>2. QED
      BY <1>a, <1>b, <3>1
  <2>2. QED
    BY <1>b, <2>1, WritesCopies
<1>c. \A d \in Decisions : runs[d] > 0 \/ granted[d] # 0 \/ cur = d => copies[d] > 0
  BY DEF Protocol, Published
<1>1. \A i \in DOMAIN stream' : copies'[stream'[i]] > 0
  <2>a. /\ \A i \in 1 .. Len(stream) : stream[i] \in Decisions /\ copies[stream[i]] > 0
        /\ DOMAIN stream = 1 .. Len(stream)
    BY <1>a DEF Protocol, Published
  <2>1. ASSUME NEW d \in Decisions, Publish(d)
        PROVE  \A i \in DOMAIN stream' : copies'[stream'[i]] > 0
    <3>1. stream' = Append(stream, d) /\ copies'[d] > 0
      BY <1>a, <2>1 DEF Publish
    <3>2. /\ DOMAIN stream' = 1 .. Len(stream) + 1
          /\ \A i \in 1 .. Len(stream) + 1 :
               stream'[i] = IF i = Len(stream) + 1 THEN d ELSE stream[i]
      BY <1>a, <3>1
    <3>3. QED
      BY <1>a, <1>b, <2>a, <3>1, <3>2
  <2>2. CASE Read
    <3>1. stream' = Tail(stream) /\ copies' = copies /\ stream # <<>>
      BY <2>2 DEF Read
    <3>2. /\ DOMAIN stream' = 1 .. Len(stream) - 1
          /\ \A i \in 1 .. Len(stream) - 1 : stream'[i] = stream[i + 1]
      BY <1>a, <3>1
    <3>3. QED
      BY <1>a, <2>a, <3>1, <3>2
  <2>3. CASE Tick \/ UNCHANGED source
    BY <2>3, <2>a DEF Tick, source
  <2>4. QED
    BY <2>1, <2>2, <2>3, WritesSource
<1>2. ASSUME NEW d \in Decisions, runs'[d] > 0 \/ granted'[d] # 0 \/ cur' = d
      PROVE  copies'[d] > 0
  <2>1. CASE runs'[d] > 0
    <3>1. CASE Record
      <4>1. runs' = [runs EXCEPT ![cur] = @ + 1] /\ cur \in Decisions
        BY <1>a, <3>1 DEF Record, Claiming
      <4>2. runs[d] > 0 \/ cur = d
        BY <1>a, <2>1, <4>1
      <4>3. QED
        BY <1>b, <1>c, <4>2
    <3>2. QED
      BY <1>b, <1>c, <2>1, <3>1, WritesRuns
  <2>2. ASSUME RecoverClaim(d) PROVE copies'[d] > 0
    <3>1. d \in todo
      BY <2>2 DEF RecoverClaim
    <3>2. runs[d] > 0
      BY <3>1 DEF Protocol, Begun
    <3>3. QED
      BY <1>b, <1>c, <3>2
  <2>3. CASE granted'[d] # 0
    BY <1>b, <1>c, <2>2, <2>3, ClaimWriters, Zenon
  <2>4. CASE cur' = d
    <3>1. CASE Read
      <4>1. cur' = cur \/ cur' = Head(stream)
        BY <3>1, Zenon DEF Read
      <4>2. stream # <<>> /\ 1 \in DOMAIN stream /\ Head(stream) = stream[1]
        BY <1>a, <3>1 DEF Read
      <4>3. QED
        BY <1>b, <1>c, <2>4, <4>1, <4>2 DEF Protocol, Published
    <3>2. ASSUME NEW e \in Decisions, RecoverClaim(e) PROVE copies'[d] > 0
      <4>1. cur' = cur \/ cur' = e
        BY <3>2, Zenon DEF RecoverClaim
      <4>2. QED
        BY <1>b, <1>c, <2>2, <2>4, <3>2, <4>1
    <3>3. CASE cur' \in {cur, None}
      BY <1>a, <1>b, <1>c, <2>4, <3>3
    <3>4. QED
      BY <3>1, <3>2, <3>3, Takes
  <2>5. QED
    BY <1>2, <2>1, <2>3, <2>4
<1>3. QED
  BY <1>1, <1>2 DEF Published

LEMMA StampPastStep == Types /\ Types' /\ Protocol /\ Next => StampPast'
<1> SUFFICES ASSUME Types, Types', Protocol, Next, NEW d \in Decisions
             PROVE  stamp'[d] <= now'
    BY DEF StampPast
<1>a. /\ now \in Nat /\ now' \in Nat /\ stamp \in [Decisions -> Nat] /\ stamp[d] <= now
  BY ConstantsAssumption
     DEF Types, TypeOK, SourceTypes, Times, Protocol, StampPast
<1>1. now <= now'
  BY <1>a, WritesNow DEF Tick
<1>2. stamp'[d] \in {stamp[d], now}
  BY <1>a, WritesCopies DEF Publish
<1>3. QED
  BY <1>a, <1>1, <1>2

(* The event in hand keeps its timestamp. *)
LEMMA StampStays ==
  ASSUME Types, Next, NEW d \in Decisions, copies[d] > 0
  PROVE  stamp'[d] = stamp[d]
<1>1. stamp \in [Decisions -> Times] /\ copies \in [Decisions -> Nat]
  BY DEF Types, TypeOK, SourceTypes
<1>2. ASSUME NEW e \in Decisions, Publish(e) PROVE stamp'[d] = stamp[d]
  <2>1. stamp' = stamp \/ (copies[e] = 0 /\ stamp' = [stamp EXCEPT ![e] = now])
    BY <1>2 DEF Publish
  <2>2. QED
    BY <1>1, <2>1
<1>3. QED
  BY <1>2, WritesCopies

LEMMA FreshStep == Types /\ Types' /\ Protocol /\ Next => Fresh'
<1> SUFFICES ASSUME Types, Types', Protocol, Next, pc' \in BeforeClaim
             PROVE  begun' <= now' /\ now' <= begun' + HandlingTime
                      /\ begun' - stamp'[cur'] <= MaxAge
    BY DEF Fresh
<1>a. /\ now \in Nat /\ now' \in Nat /\ begun \in Nat /\ HandlingTime \in Nat /\ MaxAge \in Nat
      /\ stream \in Seq(Decisions) /\ stamp \in [Decisions -> Nat]
      /\ pc \in BeforeClaim => cur \in Decisions
  <2>1. now' \in Nat
    BY ConstantsAssumption DEF Types, TypeOK, SourceTypes, Times
  <2>2. QED
    BY <2>1, FactsHold, BoundsHold DEF Facts, Bounds
<1>1. CASE pc \in BeforeClaim /\ UNCHANGED <<cur, begun>>
  <2>1. begun <= now /\ now <= begun + HandlingTime /\ begun - stamp[cur] <= MaxAge
    BY <1>1 DEF Protocol, Fresh
  <2>2. stamp'[cur] = stamp[cur]
    BY <1>a, <1>1, StampStays DEF Protocol, Published
  <2>3. now' = now \/ (now' = now + 1 /\ now < begun + HandlingTime)
    BY <1>1, WritesNow DEF Tick
  <2>4. QED
    BY <1>a, <1>1, <2>1, <2>2, <2>3
<1>2. CASE Read
  <2>1. CASE pc' = pc
    BY <1>2, <2>1 DEF Read, BeforeClaim
  <2>2. CASE pc' # pc
    <3>1. /\ ~TooOld(Head(stream)) /\ cur' = Head(stream)
          /\ begun' = now /\ now' = now /\ stamp' = stamp
      BY <1>2, <2>2, Zenon DEF Read
    <3>2. Head(stream) \in Decisions
      BY <1>2, <1>a DEF Read
    <3>3. QED
      BY <1>a, <3>1, <3>2 DEF TooOld
  <2>3. QED
    BY <2>1, <2>2
<1>3. QED
  BY <1>1, <1>2, ReachesClaim

(* An order the reconciler changes the record of was placed. *)
LEMMA ReconciledIsPlaced ==
  ASSUME NEW d \in Decisions, ReconcileOrder(d) PROVE order[d] # "none"
<1> SUFFICES ASSUME order[d] = "none" PROVE FALSE
    OBVIOUS
<1>1. \E status \in Told(d) : Accepts(d, status, TRUE) /\ ledger[d] \in Live
  BY Zenon DEF ReconcileOrder
<1>2. ~Accepts(d, "none", TRUE) \/ ledger[d] \notin Live
  BY DEF Accepts, Live, Final
<1>3. Told(d) = {"none"}
  BY DEF Told
<1>4. QED
  BY <1>1, <1>2, <1>3

LEMMA BegunStep == Types /\ Protocol /\ Next => Begun'
<1> SUFFICES ASSUME Types, Protocol, Next, NEW d \in Decisions,
                    \/ intent'[d] # "none" \/ order'[d] # "none"
                    \/ d \in wire' \cup traded' \cup todo'
                    \/ cur' = d /\ pc' \in Executing \cup {"recover"}
             PROVE  runs'[d] > 0
    BY DEF Begun
<1>a. /\ runs \in [Decisions -> Nat] /\ cur \in Decisions \cup {None} /\ None \notin Decisions
      /\ pc \in Claiming \cup Executing => cur \in Decisions
      /\ intent \in [Decisions -> IntentStatuses]
      /\ order \in [Decisions -> {"none", "open"} \cup Final]
  BY FactsHold, BoundsHold, RowTypesAre DEF Facts, Bounds, Types, TypeOK, IntentTypes
<1>b. runs[d] > 0 => runs'[d] > 0
  <2>1. CASE Record
    <3>1. cur \in Decisions /\ runs' = [runs EXCEPT ![cur] = @ + 1]
      BY <1>a, <2>1 DEF Record, Claiming
    <3>2. QED
      BY <1>a, <3>1
  <2>2. QED
    BY <2>1, WritesRuns
<1>c. ASSUME Record, cur = d PROVE runs'[d] > 0
  BY <1>a, <1>c DEF Record
<1>d. \/ intent[d] # "none" \/ order[d] # "none" \/ d \in wire \cup traded \cup todo
      \/ cur = d /\ pc \in Executing \cup {"recover"}
      => runs[d] > 0
  BY DEF Protocol, Begun
<1>1. CASE intent'[d] # "none"
  <2>u. ASSUME NEW e, NEW s, Upsert(e, s), e # d PROVE intent'[d] = intent[d]
    BY <1>a, <2>u DEF Upsert
  <2>1. ASSUME Answered \/ Raises \/ Poll \/ PollGivesUp PROVE runs'[d] > 0
    <3>1. pc \in Executing
      BY <2>1 DEF Answered, Raises, Poll, PollGivesUp, Executing
    <3>2. intent' = intent \/ \E s : Upsert(cur, s)
      <4>1. CASE Answered
        BY <4>1, Zenon DEF Answered
      <4>2. CASE Raises
        BY <4>2, Zenon DEF Raises
      <4>3. CASE PollGivesUp
        BY <4>3, Zenon DEF PollGivesUp
      <4>4. CASE Poll
        <5>1. UNCHANGED rows \/ UNCHANGED intents \/ \E s : Upsert(cur, s)
          BY <4>4, Zenon DEF Poll
        <5>2. QED
          BY <5>1 DEF rows, intents
      <4>5. QED
        BY <2>1, <4>1, <4>2, <4>3, <4>4
    <3>3. QED
      BY <1>1, <1>b, <1>d, <2>u, <3>1, <3>2
  <2>2. CASE Record
    <3>1. Upsert(cur, "created")
      BY <2>2 DEF Record
    <3>2. QED
      BY <1>1, <1>b, <1>c, <1>d, <2>2, <2>u, <3>1
  <2>3. CASE RecoverPoll
    <3>1. pc = "recover" /\ (UNCHANGED rows \/ \E s : Upsert(cur, s))
      BY <2>3, Zenon DEF RecoverPoll
    <3>2. intent' = intent \/ \E s : Upsert(cur, s)
      BY <3>1 DEF rows, intents
    <3>3. QED
      BY <1>1, <1>b, <1>d, <2>u, <3>1, <3>2
  <2>4. ASSUME NEW e \in Decisions,
               WsReport(e) \/ ReconcileOrder(e) \/ ExpireIntent(e) \/ SyncTrade(e) \/ HealGhost(e)
        PROVE  runs'[d] > 0
    <3>1. CASE WsReport(e) \/ ReconcileOrder(e)
      <4>1. order[e] # "none"
        BY <3>1, ReconciledIsPlaced DEF WsReport
      <4>2. \E s : Upsert(e, s)
        BY <3>1, Zenon DEF WsReport, ReconcileOrder
      <4>3. QED
        BY <1>1, <1>b, <1>d, <2>u, <4>1, <4>2
    <3>2. CASE ExpireIntent(e)
      <4>1. intent' = [intent EXCEPT ![e] = "expired"] /\ intent[e] \in Pending
        BY <3>2 DEF ExpireIntent
      <4>2. intent[e] # "none"
        BY <4>1 DEF Pending, Underway
      <4>3. QED
        BY <1>1, <1>a, <1>b, <1>d, <4>1, <4>2
    <3>3. CASE SyncTrade(e)
      <4>1. Upsert(e, "filled") /\ e \in traded
        BY <3>3 DEF SyncTrade
      <4>2. QED
        BY <1>1, <1>b, <1>d, <2>u, <4>1
    <3>5. CASE HealGhost(e)
      <4>1. Upsert(e, "canceled") /\ order[e] # "none"
        BY <3>5 DEF HealGhost, Final
      <4>2. QED
        BY <1>1, <1>b, <1>d, <2>u, <4>1
    <3>4. QED
      BY <2>4, <3>1, <3>2, <3>3, <3>5
  <2>5. CASE UNCHANGED rows
    BY <1>1, <1>b, <1>d, <2>5 DEF rows, intents
  <2>6. QED
    BY <2>1, <2>2, <2>3, <2>4, <2>5, WritesRows
<1>2. CASE order'[d] # "none" \/ d \in wire' \cup traded'
  <2>1. CASE Send
    <3>1. /\ order' = order /\ wire' \subseteq wire \cup {cur} /\ pc \in Executing
          /\ traded' = traded
      BY <2>1 DEF Send, Executing
    <3>2. QED
      BY <1>2, <1>b, <1>d, <3>1
  <2>2. ASSUME NEW e \in Decisions, Serve(e) PROVE runs'[d] > 0
    <3>1. e \in wire /\ wire' = wire \ {e} /\ (traded' = traded \/ traded' = traded \cup {e})
      BY <2>2, Zenon DEF Serve, Trade
    <3>2. PICK s : order' = [order EXCEPT ![e] = s]
      BY <2>2 DEF Serve
    <3>3. e # d => order'[d] = order[d]
      BY <1>a, <3>2
    <3>4. QED
      BY <1>2, <1>b, <1>d, <3>1, <3>3
  <2>3. ASSUME NEW e \in Decisions, Settle(e) PROVE runs'[d] > 0
    <3>1. /\ order[e] # "none" /\ wire' = wire
          /\ traded' = traded \/ traded' = traded \cup {e}
      BY <2>3 DEF Settle, Trade
    <3>2. PICK s : order' = [order EXCEPT ![e] = s]
      BY <2>3, Zenon DEF Settle
    <3>3. e # d => order'[d] = order[d]
      BY <1>a, <3>2
    <3>4. QED
      BY <1>2, <1>b, <1>d, <3>1, <3>3
  <2>4. ASSUME NEW e \in Decisions, Close(e) PROVE runs'[d] > 0
    BY <1>2, <1>b, <1>d, <2>4 DEF Close
  <2>5. ASSUME NEW e \in Decisions, Execute(e) PROVE runs'[d] > 0
    <3>1. order[e] # "none" /\ UNCHANGED <<wire, order>> /\ traded' = traded \cup {e}
      BY <2>5 DEF Execute, Trade
    <3>2. QED
      BY <1>2, <1>b, <1>d, <3>1
  <2>6. CASE UNCHANGED exchange
    BY <1>2, <1>b, <1>d, <2>6 DEF exchange
  <2>7. QED
    BY <2>1, <2>2, <2>3, <2>4, <2>5, <2>6, WritesExchange
<1>3. ASSUME NEW e \in Decisions, RecoverClaim(e)
      PROVE  todo' \subseteq todo /\ cur' \in {cur, e} /\ e \in todo /\ pc = "recover"
  BY <1>3, Zenon DEF RecoverClaim
<1>4. CASE d \in todo'
  <2>1. CASE Restart
    <3>1. intent[d] # "none"
      BY <1>4, <2>1 DEF Restart, Pending, Underway
    <3>2. QED
      BY <1>b, <1>d, <3>1
  <2>2. CASE Crash \/ RecoverPoll \/ UNCHANGED todo
    BY <1>4, <1>b, <1>d, <2>2 DEF Crash, RecoverPoll
  <2>3. QED
    BY <1>4, <1>b, <1>d, <1>3, <2>1, <2>2, WritesTodo
<1>5. CASE cur' = d /\ pc' \in Executing
  <2>1. CASE Record
    BY <1>5, <1>c, <2>1 DEF Record
  <2>2. QED
    BY <1>5, <1>b, <1>d, <2>1, ReachesExecution
<1>6. CASE cur' = d /\ pc' = "recover"
  <2>1. CASE Restart
    BY <1>6, <1>a, <2>1 DEF Restart, Types, CurOK
  <2>2. CASE RecoverPoll
    BY <1>6, <1>a, <2>2 DEF RecoverPoll
  <2>3. ASSUME NEW e \in Decisions, RecoverClaim(e) PROVE runs'[d] > 0
    BY <1>6, <1>b, <1>d, <1>3, <2>3
  <2>4. QED
    BY <1>6, <1>b, <1>d, <2>1, <2>2, <2>3, ReachesRecovery
<1>7. QED
  BY <1>1, <1>2, <1>4, <1>5, <1>6

LEMMA GrantedStep == Types /\ Protocol /\ Published' /\ Next => Granted'
<1> SUFFICES ASSUME Types, Protocol, Published', Next, NEW d \in Decisions, granted'[d] # 0
             PROVE  granted'[d] >= stamp'[d] + ClaimTtl
    BY DEF Granted, Outlives
<1>a. /\ now \in Nat /\ stamp \in [Decisions -> Nat] /\ granted \in [Decisions -> Nat]
      /\ ClaimTtl \in Nat /\ stamp[d] <= now
  BY FactsHold, BoundsHold DEF Facts, Bounds, Protocol, StampPast
<1>1. copies[d] > 0
  <2>1. ASSUME RecoverClaim(d) PROVE copies[d] > 0
    <3>1. d \in todo
      BY <2>1 DEF RecoverClaim
    <3>2. QED
      BY <3>1 DEF Protocol, Begun, Published
  <2>2. granted[d] # 0 \/ cur = d => copies[d] > 0
    BY DEF Protocol, Published
  <2>3. QED
    BY <2>1, <2>2, ClaimWriters, Zenon
<1>2. stamp'[d] = stamp[d]
  BY <1>1, StampStays
<1>3. granted'[d] = granted[d] \/ granted'[d] = now + ClaimTtl
  BY ClaimWriters, Zenon
<1>4. granted[d] # 0 => granted[d] >= stamp[d] + ClaimTtl
  BY DEF Protocol, Granted, Outlives
<1>5. QED
  BY <1>a, <1>2, <1>3, <1>4

(* A key that was set while the event was fresh is still there when a copy *)
(* of it gets past the age limit.                                          *)
LEMMA ClaimIsFirst ==
  ASSUME Types, Protocol, reliable, pc = "claim", cur \in Decisions, SetKey(cur)
  PROVE  runs[cur] = 0
<1>1. /\ begun <= now /\ now <= begun + HandlingTime /\ begun - stamp[cur] <= MaxAge
  BY DEF Protocol, Fresh, BeforeClaim
<1>2. claim[cur] <= now
  BY FactsHold DEF SetKey, KeyLives, Facts
<1>3. runs[cur] > 0 => claim[cur] >= stamp[cur] + ClaimTtl
  BY DEF Protocol, Kept, Outlives
<1>4. QED
  BY <1>1, <1>2, <1>3, FactsHold, BoundsHold DEF Facts, Bounds

LEMMA ReliableBefore ==
  ASSUME Types, Next, reliable' PROVE reliable /\ ~RedisLoss
<1>1. CASE Claimed
  <2>1. reliable' = reliable \/ reliable' = (reliable /\ pc = "claimed")
    BY <1>1, Zenon DEF Claimed
  <2>2. ~RedisLoss
    BY DEF RedisLoss
  <2>3. QED
    BY <2>1, <2>2
<1>2. QED
  BY <1>1, WritesReliable DEF RedisLoss

LEMMA FirstRunStep == Types /\ Protocol /\ Next => FirstRun'
<1> SUFFICES ASSUME Types, Protocol, Next, reliable', NEW d \in Decisions, Claimant(d)'
             PROVE  runs'[d] = 0
    BY DEF FirstRun
<1>a. cur' = d /\ pc' \in {"claimed", "record"} /\ reliable
  BY ReliableBefore DEF Claimant
<1>b. runs' = runs
  <2>1. ~Record
    BY <1>a DEF Record
  <2>2. QED
    BY <2>1, WritesRuns
<1>1. CASE Claim
  <2>1. SetKey(cur) /\ pc = "claim" /\ cur' = cur
    BY <1>1, <1>a, Zenon DEF Claim
  <2>2. QED
    BY <1>a, <1>b, <2>1, ClaimIsFirst
<1>2. CASE Claimed
  <2>1. cur' = cur /\ pc = "claimed"
    <3>1. \/ pc = "claimed" /\ pc' = "record" /\ UNCHANGED cur
          \/ Drop
          \/ pc' = "record" /\ UNCHANGED cur /\ reliable' = (reliable /\ pc = "claimed")
      BY <1>2, Zenon DEF Claimed
    <3>2. ~Drop
      BY <1>a DEF Drop
    <3>3. QED
      BY <3>1, <3>2
  <2>2. Claimant(d)
    BY <1>a, <2>1 DEF Claimant
  <2>3. QED
    BY <1>a, <1>b, <2>2 DEF Protocol, FirstRun
<1>3. CASE pc' = pc /\ UNCHANGED cur
  <2>1. Claimant(d)
    BY <1>a, <1>3 DEF Claimant
  <2>2. QED
    BY <1>a, <1>b, <2>1 DEF Protocol, FirstRun
<1>4. QED
  BY <1>1, <1>2, <1>3, <1>a, ReachesRecord

LEMMA KeptStep == Types /\ Protocol /\ Next => Kept'
<1> SUFFICES ASSUME Types, Protocol, Next, reliable', NEW d \in Decisions,
                    runs'[d] > 0 \/ Claimant(d)'
             PROVE  claim'[d] >= stamp'[d] + ClaimTtl
    BY DEF Kept, Outlives
<1>a. /\ now \in Nat /\ stamp \in [Decisions -> Nat] /\ claim \in [Decisions -> Nat]
      /\ granted \in [Decisions -> Nat] /\ runs \in [Decisions -> Nat]
      /\ ClaimTtl \in Nat /\ stamp[d] <= now
      /\ pc \in Claiming \cup BeforeClaim => cur \in Decisions
  BY FactsHold, BoundsHold DEF Facts, Bounds, Protocol, StampPast
<1>b. reliable /\ ~RedisLoss
  BY ReliableBefore
<1>1. runs[d] > 0 \/ Claimant(d) \/ (Claim /\ cur = d /\ SetKey(d))
  <2>1. ASSUME runs'[d] > 0, Record PROVE runs[d] > 0 \/ Claimant(d)
    <3>1. cur \in Decisions /\ runs' = [runs EXCEPT ![cur] = @ + 1] /\ pc = "record"
      BY <1>a, <2>1 DEF Record, Claiming
    <3>2. QED
      BY <1>a, <2>1, <3>1 DEF Claimant
  <2>2. CASE runs'[d] > 0
    BY <2>1, <2>2, WritesRuns
  <2>3. ASSUME Claimant(d)', Claim PROVE cur = d /\ SetKey(d)
    <3>1. SetKey(cur) /\ cur' = cur
      BY <2>3, Zenon DEF Claim, Claimant
    <3>2. QED
      BY <2>3, <3>1 DEF Claimant
  <2>4. ASSUME Claimant(d)', Claimed PROVE Claimant(d)
    <3>1. \/ pc = "claimed" /\ pc' = "record" /\ UNCHANGED cur
          \/ Drop
          \/ pc' = "record" /\ UNCHANGED cur /\ reliable' = (reliable /\ pc = "claimed")
      BY <2>4, Zenon DEF Claimed
    <3>2. ~Drop
      BY <2>4 DEF Drop, Claimant
    <3>3. QED
      BY <2>4, <3>1, <3>2 DEF Claimant
  <2>5. ASSUME Claimant(d)', pc' = pc, UNCHANGED cur PROVE Claimant(d)
    BY <2>5 DEF Claimant
  <2>6. Claimant(d)' => pc' \in {"claimed", "record"}
    BY DEF Claimant
  <2>7. QED
    BY <2>2, <2>3, <2>4, <2>5, <2>6, ReachesRecord
<1>2. copies[d] > 0
  <2>1. runs[d] > 0 \/ cur = d => copies[d] > 0
    BY DEF Protocol, Published
  <2>2. QED
    BY <1>1, <2>1 DEF Claimant
<1>3. stamp'[d] = stamp[d]
  BY <1>2, StampStays
<1>4. CASE Claim /\ cur = d /\ SetKey(d)
  <2>1. claim' = [claim EXCEPT ![d] = now + ClaimTtl]
    BY <1>4 DEF SetKey
  <2>2. QED
    BY <1>a, <1>3, <2>1
<1>5. CASE runs[d] > 0 \/ Claimant(d)
  <2>1. claim[d] >= stamp[d] + ClaimTtl
    BY <1>5, <1>b DEF Protocol, Kept, Outlives
  <2>2. granted[d] # 0 => granted[d] >= stamp[d] + ClaimTtl
    BY DEF Protocol, Granted, Outlives
  <2>3. claim'[d] \in {claim[d], now + ClaimTtl} \/ claim'[d] = Replayed(d)
    BY <1>b, ClaimWriters, Zenon
  <2>4. Replayed(d) = claim[d] \/ (granted[d] > now /\ Replayed(d) = granted[d])
    BY DEF Replayed
  <2>5. QED
    BY <1>a, <1>3, <2>1, <2>2, <2>3, <2>4
<1>6. QED
  BY <1>1, <1>4, <1>5

LEMMA InitProtocol == Init => Protocol
<1> SUFFICES ASSUME Init PROVE Protocol
    OBVIOUS
<1>1. Published /\ StampPast /\ Granted /\ Kept /\ FirstRun
  BY BoundsHold DEF Init, Bounds, Published, StampPast, Granted, Kept, FirstRun, Claimant
<1>2. Fresh
  BY DEF Init, Fresh, BeforeClaim
<1>3. Begun
  BY DEF Init, Begun, Executing
<1>4. QED
  BY <1>1, <1>2, <1>3 DEF Protocol

LEMMA ProtocolStep == Types /\ Protocol /\ [Next]_vars => Types' /\ Protocol'
<1> SUFFICES ASSUME Types, Protocol, [Next]_vars PROVE Types' /\ Protocol'
    OBVIOUS
<1>1. Types'
  BY SourceStep, ClaimsStep, RowsStep, ExchangeStep, HandlerStep, MemoryStep, GhostStep
     DEF Types, TypeOK, HandlerOK
<1>2. CASE Next
  BY <1>1, <1>2, PublishedStep, StampPastStep, FreshStep, BegunStep, GrantedStep,
     KeptStep, FirstRunStep DEF Protocol
<1>3. CASE UNCHANGED vars
  <2>1. Published' /\ StampPast'
    BY <1>3 DEF vars, source, worker, claims, ghosts, Protocol, Published, StampPast
  <2>2. Fresh'
    BY <1>3 DEF vars, source, worker, Protocol, Fresh
  <2>3. Begun'
    BY <1>3 DEF vars, worker, rows, intents, exchange, ghosts, Protocol, Begun
  <2>4. Granted' /\ Kept' /\ FirstRun'
    BY <1>3 DEF vars, source, worker, claims, ghosts, Protocol, Granted, Kept, FirstRun,
       Claimant, Outlives
  <2>5. QED
    BY <1>1, <2>1, <2>2, <2>3, <2>4 DEF Protocol
<1>4. QED
  BY <1>1, <1>2, <1>3

LEMMA ProtocolHolds == Spec => [](Types /\ Protocol)
  BY InitTypes, InitProtocol, ProtocolStep, PTL DEF Spec

-----------------------------------------------------------------------------
(* The refinement. *)

LEMMA FateStays ==
  ASSUME runs' = runs, pc' \in Executing <=> pc \in Executing,
         pc \in Executing => cur' = cur
  PROVE  fate' = fate
<1>1. ASSUME NEW d \in Decisions
      PROVE  (cur' = d /\ pc' \in Executing) <=> (cur = d /\ pc \in Executing)
  OBVIOUS
<1>2. \A d \in Decisions :
        (IF cur' = d /\ pc' \in Executing THEN "executing"
         ELSE IF runs'[d] = 0 THEN "waiting" ELSE "ended")
        = (IF cur = d /\ pc \in Executing THEN "executing"
           ELSE IF runs[d] = 0 THEN "waiting" ELSE "ended")
  BY <1>1
<1>3. QED
  BY <1>2, Zenon DEF fate

(* The steps of the handler that leave the execution. *)
LEMMA LeavesExecution ==
  ASSUME Types, Protocol, Next, pc \in Executing, pc' \notin Executing
  PROVE  \E d \in Decisions : Abstract!End(d)
<1>1. /\ cur \in Decisions /\ runs \in [Decisions -> Nat] /\ runs[cur] > 0
  BY FactsHold DEF Facts, Protocol, Begun
<1>2. runs' = runs
  <2>1. ~Record
    BY DEF Record, Executing
  <2>2. QED
    BY <2>1, WritesRuns
<1>3. UNCHANGED <<order, reliable>>
  <2>1. \A d \in Decisions : ~Serve(d) /\ ~Settle(d) /\ ~Execute(d)
    BY DEF Serve, Settle, Execute, worker, Executing
  <2>2. ~Send /\ ~Claimed /\ ~RedisLoss
    BY DEF Send, Claimed, RedisLoss, worker, Executing
  <2>3. order' = order
    BY <2>1, <2>2, WritesExchange DEF Close, exchange
  <2>4. QED
    BY <2>2, <2>3, WritesReliable
<1>4. fate[cur] = "executing"
  BY <1>1 DEF fate
<1>5. fate' = [fate EXCEPT ![cur] = "ended"]
  <2>1. fate' = [d \in Decisions |-> IF runs[d] = 0 THEN "waiting" ELSE "ended"]
    BY <1>2, Zenon DEF fate
  <2>2. DOMAIN fate = Decisions
    BY DEF fate
  <2>3. \A d \in Decisions :
          (IF runs[d] = 0 THEN "waiting" ELSE "ended")
          = (IF d = cur THEN "ended" ELSE fate[d])
    BY <1>1 DEF fate
  <2>4. [fate EXCEPT ![cur] = "ended"]
          = [d \in Decisions |-> IF d = cur THEN "ended" ELSE fate[d]]
    BY <2>2
  <2>5. QED
    BY <2>1, <2>3, <2>4
<1>6. placed' = placed
  BY <1>3 DEF placed
<1>7. QED
  BY <1>1, <1>3, <1>4, <1>5, <1>6 DEF Abstract!End

LEMMA BeginsExecution ==
  ASSUME Types, Protocol, Record PROVE \E d \in Decisions : Abstract!Begin(d)
<1>1. /\ cur \in Decisions /\ runs \in [Decisions -> Nat] /\ pc = "record"
      /\ pc' = "send" /\ cur' = cur /\ runs' = [runs EXCEPT ![cur] = @ + 1]
      /\ UNCHANGED <<order, reliable>>
  BY FactsHold DEF Facts, Record, Claiming, exchange
<1>2. pc \notin Executing /\ pc' \in Executing
  BY <1>1 DEF Executing
<1>3. \A d \in Decisions : fate[d] = IF runs[d] = 0 THEN "waiting" ELSE "ended"
  BY <1>2 DEF fate
<1>4. fate[cur] = "waiting" \/ (fate[cur] = "ended" /\ ~reliable)
  <2>1. reliable => runs[cur] = 0
    BY <1>1 DEF Protocol, FirstRun, Claimant
  <2>2. QED
    BY <1>1, <1>3, <2>1
<1>5. \A e \in Decisions : fate[e] # "executing"
  BY <1>3
<1>6. fate' = [fate EXCEPT ![cur] = "executing"]
  <2>1. DOMAIN fate = Decisions
    BY DEF fate
  <2>2. fate' = [d \in Decisions |->
                  IF cur' = d /\ pc' \in Executing THEN "executing"
                  ELSE IF runs'[d] = 0 THEN "waiting" ELSE "ended"]
    BY Zenon DEF fate
  <2>3. \A d \in Decisions : d # cur => runs'[d] = runs[d]
    BY <1>1
  <2>4. \A d \in Decisions :
          (IF cur' = d /\ pc' \in Executing THEN "executing"
           ELSE IF runs'[d] = 0 THEN "waiting" ELSE "ended")
          = (IF d = cur THEN "executing" ELSE fate[d])
    BY <1>1, <1>2, <1>3, <2>3
  <2>5. [fate EXCEPT ![cur] = "executing"]
          = [d \in Decisions |-> IF d = cur THEN "executing" ELSE fate[d]]
    BY <2>1
  <2>6. QED
    BY <2>2, <2>4, <2>5
<1>7. placed' = placed
  BY <1>1 DEF placed
<1>8. QED
  BY <1>1, <1>4, <1>5, <1>6, <1>7 DEF Abstract!Begin

LEMMA Places ==
  ASSUME Types, Protocol, NEW d \in Decisions, Serve(d)
  PROVE  Abstract!Place(d) \/ UNCHANGED <<fate, placed, reliable>>
<1>1. /\ order \in [Decisions -> {"none", "open"} \cup Final] /\ runs \in [Decisions -> Nat]
      /\ runs[d] > 0
  BY FactsHold DEF Facts, Serve, Protocol, Begun
<1>2. UNCHANGED <<pc, cur, runs, reliable>>
  BY DEF Serve, ghosts
<1>3. fate' = fate
  BY <1>2, FateStays
<1>4. PICK outcome \in IF order[d] = "none" THEN {"open", "filled", "rejected"} ELSE {"rejected"} :
        order' = [order EXCEPT ![d] = IF outcome = "rejected" THEN @ ELSE outcome]
  BY DEF Serve
<1>5. CASE outcome = "rejected"
  <2>1. order' = order
    BY <1>1, <1>4, <1>5
  <2>2. QED
    BY <1>2, <1>3, <2>1 DEF placed
<1>6. CASE outcome # "rejected"
  <2>1. order[d] = "none" /\ order' = [order EXCEPT ![d] = outcome] /\ outcome # "none"
    BY <1>4, <1>6
  <2>2. placed' = placed \cup {d} /\ d \notin placed
    BY <1>1, <2>1 DEF placed
  <2>3. fate[d] # "waiting"
    BY <1>1 DEF fate
  <2>4. QED
    BY <1>2, <1>3, <2>2, <2>3 DEF Abstract!Place
<1>7. QED
  BY <1>5, <1>6

LEMMA Refines ==
  Types /\ Protocol /\ [Next]_vars => [Abstract!Next]_<<fate, placed, reliable>>
<1> SUFFICES ASSUME Types, Protocol, [Next]_vars
             PROVE  [Abstract!Next]_<<fate, placed, reliable>>
    OBVIOUS
<1>1. CASE UNCHANGED vars
  BY <1>1 DEF vars, worker, exchange, ghosts, fate, placed
<1>2. CASE Record
  BY <1>2, BeginsExecution DEF Abstract!Next
<1>3. CASE Next /\ pc \in Executing /\ pc' \notin Executing
  BY <1>3, LeavesExecution DEF Abstract!Next
<1>4. CASE Next /\ ~Record /\ ~(pc \in Executing /\ pc' \notin Executing)
  <2>1. fate' = fate
    BY <1>4, WritesRuns, ReachesExecution, FateStays
  <2>2. CASE \E d \in Decisions : Serve(d)
    BY <2>2, Places DEF Abstract!Next
  <2>3. CASE \A d \in Decisions : ~Serve(d)
    <3>1. placed' = placed
      <4>1. ASSUME NEW e \in Decisions, Settle(e) PROVE placed' = placed
        <5>1. /\ order \in [Decisions -> {"none", "open"} \cup Final]
              /\ order[e] = "open" /\ \E s \in {"filled", "canceled"} : order' = [order EXCEPT ![e] = s]
          BY <4>1, FactsHold DEF Settle, Facts
        <5>2. QED
          BY <5>1 DEF placed
      <4>2. CASE Send \/ (\E d \in Decisions : Close(d) \/ Execute(d)) \/ UNCHANGED exchange
        BY <4>2 DEF Send, Close, Execute, exchange, placed
      <4>3. QED
        BY <1>4, <2>3, <4>1, <4>2, WritesExchange
    <3>2. reliable' = reliable \/ reliable' = FALSE
      <4>1. CASE Claimed
        <5>1. reliable' = reliable \/ reliable' = (reliable /\ pc = "claimed")
          BY <4>1, Zenon DEF Claimed
        <5>2. QED
          BY <5>1, FactsHold DEF Facts
      <4>2. QED
        BY <1>4, <4>1, WritesReliable DEF RedisLoss
    <3>3. QED
      BY <2>1, <3>1, <3>2 DEF Abstract!Next, Abstract!Forget
  <2>4. QED
    BY <2>2, <2>3
<1>5. QED
  BY <1>1, <1>2, <1>3, <1>4

(* The worker implements DecisionExecution: a decision is executed at most *)
(* once, however often its event arrives and wherever the process stops,   *)
(* while Redis keeps its keys and no refusal is passed over.               *)
THEOREM Exactness == Spec => ExecutesOnce
<1>1. Init => Abstract!Init
  BY DEF Init, Abstract!Init, fate, placed, Executing
<1>2. Types /\ Protocol /\ [Next]_vars => [Abstract!Next]_<<fate, placed, reliable>>
  BY Refines
<1>3. QED
  BY <1>1, <1>2, ProtocolHolds, PTL DEF Spec, ExecutesOnce, Abstract!Spec

-----------------------------------------------------------------------------
(* The rows of order_intents against the orders. *)

LEMMA InitRows == Init => Rows
  BY DEF Init, Rows, OnRecord, ReplyTrue, FilledTraded, FilledIntents, Executing

(* What is told of an order lives, or is how it ended. *)
LEMMA ToldTrue ==
  ASSUME NEW d \in Decisions, order \in [Decisions -> {"none", "open"} \cup Final],
         order[d] # "none", NEW s \in Told(d)
  PROVE  s \in Live \/ (s \in Final /\ s = order[d])
  BY DEF Told, Live

LEMMA IntentWriters ==
  ASSUME Types, Next, NEW d \in Decisions
  PROVE  \/ intent'[d] = intent[d]
         \/ intent'[d] \in {"created", "submitted", "failed", "expired", "rejected", "canceled"}
                            \cup Live
         \/ intent'[d] = "filled" /\ cur = d /\ reply = "filled"
         \/ intent'[d] \in Final /\ intent'[d] = order[d]
         \/ intent'[d] = "filled" /\ d \in traded
<1> DEFINE Goal ==
         \/ intent'[d] = intent[d]
         \/ intent'[d] \in {"created", "submitted", "failed", "expired", "rejected", "canceled"}
                            \cup Live
         \/ intent'[d] = "filled" /\ cur = d /\ reply = "filled"
         \/ intent'[d] \in Final /\ intent'[d] = order[d]
         \/ intent'[d] = "filled" /\ d \in traded
<1> SUFFICES Goal
    BY DEF Goal
<1>a. /\ intent \in [Decisions -> IntentStatuses]
      /\ order \in [Decisions -> {"none", "open"} \cup Final]
      /\ cur \in Decisions \cup {None}
      /\ pc \in Claiming \cup Executing => cur \in Decisions
  BY RowTypesAre, FactsHold DEF Types, TypeOK, IntentTypes, Facts
<1>u. ASSUME NEW e, NEW s, Upsert(e, s)
      PROVE  intent'[d] = IF e = d THEN s ELSE intent[d]
  BY <1>a, <1>u DEF Upsert
<1>i. ASSUME UNCHANGED intents PROVE Goal
  BY <1>i DEF intents
<1>t. ASSUME NEW e \in Decisions, NEW s, Upsert(e, s), s \in Live \/ (s \in Final /\ s = order[e])
      PROVE  Goal
  BY <1>u, <1>t
<1>1. CASE Record \/ PollGivesUp \/ Raises
  BY <1>1, <1>u, Zenon DEF Record, PollGivesUp, Raises
<1>2. CASE Answered
  <2>1. \/ reply = "filled" /\ Upsert(cur, "filled")
        \/ Upsert(cur, "submitted") \/ Upsert(cur, "failed")
    BY <1>2, Zenon DEF Answered
  <2>2. CASE reply = "filled" /\ Upsert(cur, "filled")
    BY <1>2, <1>u, <2>2
  <2>3. CASE Upsert(cur, "submitted")
    BY <1>u, <2>3
  <2>4. CASE Upsert(cur, "failed")
    BY <1>u, <2>4
  <2>5. QED
    BY <2>1, <2>2, <2>3, <2>4
<1>3. CASE Poll
  <2>1. cur \in Decisions
    BY <1>3, <1>a DEF Poll, Executing
  <2>2. \/ UNCHANGED rows
        \/ \E status \in Told(cur) \cap Live :
             Upsert(cur, status) \/ UNCHANGED intents
        \/ order[cur] \in Final /\ Upsert(cur, IntentStatus(order[cur]))
    BY <1>3, Zenon DEF Poll
  <2>3. order[cur] \in Final => IntentStatus(order[cur]) = order[cur]
    BY DEF IntentStatus
  <2>4. QED
    BY <1>i, <1>t, <2>1, <2>2, <2>3 DEF rows
<1>9. CASE RecoverPoll
  <2>1. cur \in Decisions
    BY <1>9, <1>a DEF RecoverPoll
  <2>2. \/ UNCHANGED rows
        \/ Upsert(cur, "rejected")
        \/ /\ order[cur] # "none"
           /\ \E status \in Told(cur) : Upsert(cur, IntentStatus(status))
    BY <1>9, Zenon DEF RecoverPoll
  <2>3. ASSUME order[cur] # "none", NEW status \in Told(cur), Upsert(cur, IntentStatus(status))
        PROVE  Goal
    <3>1. status \in Live \/ (status \in Final /\ status = order[cur])
      BY <1>a, <2>1, <2>3, ToldTrue
    <3>2. \/ IntentStatus(status) = "submitted"
          \/ IntentStatus(status) = status /\ status \in Final
      BY DEF IntentStatus, Final
    <3>3. CASE IntentStatus(status) = "submitted"
      BY <1>u, <2>3, <3>3
    <3>4. CASE IntentStatus(status) = status /\ status \in Final
      BY <1>t, <2>1, <2>3, <3>1, <3>4
    <3>5. QED
      BY <3>2, <3>3, <3>4
  <2>4. CASE Upsert(cur, "rejected")
    BY <1>u, <2>4
  <2>5. QED
    BY <1>i, <2>2, <2>3, <2>4 DEF rows
<1>4. ASSUME NEW e \in Decisions, WsReport(e) PROVE Goal
  <2>1. order[e] # "none" /\ \E status \in Told(e) : Upsert(e, status)
    BY <1>4, Zenon DEF WsReport
  <2>2. QED
    BY <1>a, <1>t, <2>1, ToldTrue
<1>10. ASSUME NEW e \in Decisions, ReconcileOrder(e) PROVE Goal
  <2>1. order[e] # "none" /\ \E status \in Told(e) : Upsert(e, status)
    BY <1>10, ReconciledIsPlaced, Zenon DEF ReconcileOrder
  <2>2. QED
    BY <1>a, <1>10, <1>t, <2>1, ToldTrue
<1>5. ASSUME NEW e \in Decisions, ExpireIntent(e) PROVE Goal
  BY <1>5, <1>a DEF ExpireIntent
<1>6. ASSUME NEW e \in Decisions, SyncTrade(e) PROVE Goal
  <2>1. Upsert(e, "filled") /\ e \in traded
    BY <1>6 DEF SyncTrade
  <2>2. QED
    BY <1>u, <2>1
<1>12. ASSUME NEW e \in Decisions, HealGhost(e) PROVE Goal
  <2>1. Upsert(e, "canceled")
    BY <1>12 DEF HealGhost
  <2>2. QED
    BY <1>u, <2>1
<1>7. CASE UNCHANGED rows
  BY <1>7, <1>i DEF rows
<1> HIDE DEF Goal
<1>8. CASE \E e \in Decisions :
             WsReport(e) \/ ReconcileOrder(e) \/ ExpireIntent(e) \/ SyncTrade(e) \/ HealGhost(e)
  BY <1>4, <1>5, <1>6, <1>8, <1>10, <1>12
<1>11. QED
  BY <1>1, <1>2, <1>3, <1>7, <1>8, <1>9, WritesRows

LEMMA OnRecordStep == Types /\ Rows /\ Next => OnRecord'
<1> SUFFICES ASSUME Types, Rows, Next, NEW d \in Decisions,
                    order'[d] # "none" \/ d \in wire' \/ (cur' = d /\ pc' \in Executing)
             PROVE  intent'[d] # "none"
    BY DEF OnRecord
<1>a. /\ order \in [Decisions -> {"none", "open"} \cup Final] /\ cur \in Decisions \cup {None}
      /\ pc \in Claiming \cup Executing => cur \in Decisions
      /\ intent \in [Decisions -> IntentStatuses]
  BY FactsHold, RowTypesAre DEF Facts, Types, TypeOK, IntentTypes
<1>1. intent[d] # "none" => intent'[d] # "none"
  BY IntentWriters DEF Live, Final
<1>2. \/ order[d] # "none" \/ d \in wire \/ (cur = d /\ pc \in Executing)
      => intent[d] # "none"
  BY DEF Rows, OnRecord
<1>3. ASSUME Record, cur = d PROVE intent'[d] # "none"
  BY <1>3, <1>a DEF Record, Upsert
<1>4. CASE order'[d] # "none" \/ d \in wire'
  <2>1. CASE Send
    <3>1. order' = order /\ wire' \subseteq wire \cup {cur} /\ pc \in Executing
      BY <2>1 DEF Send, Executing
    <3>2. QED
      BY <1>1, <1>2, <1>4, <3>1
  <2>2. ASSUME NEW e \in Decisions, Serve(e) PROVE intent'[d] # "none"
    <3>1. e \in wire /\ wire' \subseteq wire
      BY <2>2, Zenon DEF Serve
    <3>2. PICK s : order' = [order EXCEPT ![e] = s]
      BY <2>2 DEF Serve
    <3>3. e # d => order'[d] = order[d]
      BY <1>a, <3>2
    <3>4. QED
      BY <1>1, <1>2, <1>4, <3>1, <3>3
  <2>3. ASSUME NEW e \in Decisions, Settle(e) PROVE intent'[d] # "none"
    <3>1. order[e] # "none" /\ wire' = wire
      BY <2>3 DEF Settle
    <3>2. PICK s : order' = [order EXCEPT ![e] = s]
      BY <2>3, Zenon DEF Settle
    <3>3. e # d => order'[d] = order[d]
      BY <1>a, <3>2
    <3>4. QED
      BY <1>1, <1>2, <1>4, <3>1, <3>3
  <2>4. CASE (\E e \in Decisions : Close(e) \/ Execute(e)) \/ UNCHANGED exchange
    BY <1>1, <1>2, <1>4, <2>4 DEF Close, Execute, exchange
  <2>5. QED
    BY <2>1, <2>2, <2>3, <2>4, WritesExchange
<1>5. CASE cur' = d /\ pc' \in Executing
  <2>1. CASE Record
    BY <1>3, <1>5, <2>1 DEF Record
  <2>2. QED
    BY <1>1, <1>2, <1>5, <2>1, ReachesExecution
<1>6. QED
  BY <1>4, <1>5

(* An order that ended stays so. *)
LEMMA FinalStays ==
  ASSUME Types, Next, NEW d \in Decisions, order[d] \in {"filled", "canceled"}
  PROVE  order'[d] = order[d]
<1>a. order \in [Decisions -> {"none", "open"} \cup Final]
  BY FactsHold DEF Facts
<1>1. ASSUME NEW e \in Decisions, Serve(e) PROVE order'[d] = order[d]
  <2>1. PICK s \in IF order[e] = "none" THEN {"open", "filled", "rejected"} ELSE {"rejected"} :
          order' = [order EXCEPT ![e] = IF s = "rejected" THEN @ ELSE s]
    BY <1>1 DEF Serve
  <2>2. QED
    BY <1>a, <2>1
<1>2. ASSUME NEW e \in Decisions, Settle(e) PROVE order'[d] = order[d]
  <2>1. order[e] = "open" /\ \E s : order' = [order EXCEPT ![e] = s]
    BY <1>2, Zenon DEF Settle
  <2>2. QED
    BY <1>a, <2>1
<1>3. CASE Send \/ (\E e \in Decisions : Close(e) \/ Execute(e)) \/ UNCHANGED exchange
  BY <1>3 DEF Send, Close, Execute, exchange
<1>4. QED
  BY <1>1, <1>2, <1>3, WritesExchange

(* A trade is never undone, and what is filled has traded. *)
LEMMA TradesStay ==
  ASSUME Types, Rows, Next
  PROVE  traded \subseteq traded' /\ FilledTraded'
<1>a. order \in [Decisions -> {"none", "open"} \cup Final] /\ FilledTraded
  BY FactsHold DEF Facts, Rows
<1>1. ASSUME NEW e \in Decisions, Serve(e) PROVE traded \subseteq traded' /\ FilledTraded'
  <2>1. PICK s \in {"open", "filled", "rejected"} :
          /\ order' = [order EXCEPT ![e] = IF s = "rejected" THEN @ ELSE s]
          /\ IF s = "filled" THEN Trade(e) ELSE UNCHANGED <<traded, held>>
    BY <1>1 DEF Serve
  <2>2. QED
    BY <1>a, <2>1 DEF Trade, FilledTraded
<1>2. ASSUME NEW e \in Decisions, Settle(e) PROVE traded \subseteq traded' /\ FilledTraded'
  <2>1. PICK s \in {"filled", "canceled"} :
          /\ order' = [order EXCEPT ![e] = s]
          /\ IF s = "filled" THEN Trade(e) ELSE UNCHANGED <<traded, held>>
    BY <1>2 DEF Settle
  <2>2. QED
    BY <1>a, <2>1 DEF Trade, FilledTraded
<1>3. CASE Send \/ (\E e \in Decisions : Close(e) \/ Execute(e)) \/ UNCHANGED exchange
  BY <1>3, <1>a DEF Send, Close, Execute, Trade, exchange, FilledTraded
<1>4. QED
  BY <1>1, <1>2, <1>3, WritesExchange

LEMMA ReplyTrueStep == Types /\ Rows /\ Next => ReplyTrue'
<1> SUFFICES ASSUME Types, Rows, Next, reply' = "filled"
             PROVE  cur' \in Decisions /\ pc' = "wait" /\ order'[cur'] = "filled"
    BY DEF ReplyTrue
<1>1. CASE UNCHANGED <<pc, cur, reply>>
  BY <1>1, FinalStays DEF Rows, ReplyTrue
<1>2. ASSUME NEW d \in Decisions, Serve(d)
      PROVE  cur' \in Decisions /\ pc' = "wait" /\ order'[cur'] = "filled"
  <2>1. UNCHANGED <<pc, cur>>
    BY <1>2 DEF Serve
  <2>2. CASE reply' = reply
    BY <1>1, <2>1, <2>2
  <2>3. CASE reply' # reply
    <3>1. PICK outcome \in {"open", "filled", "rejected"} :
            /\ order' = [order EXCEPT ![d] = IF outcome = "rejected" THEN @ ELSE outcome]
            /\ pc = "wait" /\ cur = d
            /\ reply' \in IF outcome = "open" THEN {"open", "pending"} ELSE {outcome}
      BY <1>2, <2>3 DEF Serve
    <3>2. outcome = "filled"
      BY <3>1
    <3>3. order \in [Decisions -> {"none", "open"} \cup Final]
      BY FactsHold DEF Facts
    <3>4. QED
      BY <2>1, <3>1, <3>2, <3>3
  <2>4. QED
    BY <2>2, <2>3
<1>3. CASE pc # "wait"
  <2>1. reply # "filled"
    BY <1>3 DEF Rows, ReplyTrue
  <2>2. \A d \in Decisions : ~Serve(d)
    BY <1>3, <2>1 DEF Serve
  <2>3. reply' = reply \/ reply' # "filled"
    BY <1>3, <2>2, WritesHandler
       DEF Read, Gate, Refuse, Lookup, Claim, Claimed, Record, Send, Answered, Raises, Poll,
       PollSeesReport, PollGivesUp, Restart, RecoverPoll, Recovered, Crash, LoseReply,
       RecoverClaim
  <2>4. QED
    BY <2>1, <2>3
<1>4. CASE pc = "wait" /\ ~UNCHANGED <<pc, cur, begun, tries, reply>> /\ \A d \in Decisions : ~Serve(d)
  <2>1. Answered \/ Raises \/ LoseReply \/ Crash
    BY <1>4, WritesHandler
       DEF Read, Gate, Refuse, Lookup, Claim, Claimed, Record, Send, Poll,
       PollSeesReport, PollGivesUp, Restart, RecoverPoll, Recovered, RecoverClaim
  <2>2. QED
    BY <2>1 DEF Answered, Raises, LoseReply, Crash
<1>5. QED
  BY <1>1, <1>2, <1>3, <1>4

LEMMA FilledIntentsStep == Types /\ Rows /\ Next => FilledIntents'
<1> SUFFICES ASSUME Types, Rows, Next, NEW d \in Decisions, intent'[d] = "filled"
             PROVE  d \in traded'
    BY DEF FilledIntents
<1>1. /\ intent[d] = "filled" => d \in traded
      /\ order[d] = "filled" => d \in traded
      /\ reply = "filled" /\ cur = d => order[d] = "filled"
  BY DEF Rows, FilledIntents, FilledTraded, ReplyTrue
<1>2. d \in traded
  BY <1>1, IntentWriters DEF Live
<1>3. QED
  BY <1>2, TradesStay

LEMMA RowsHold == Spec => []Rows
<1>1. Types /\ Rows /\ [Next]_vars => Rows'
  <2>1. CASE Next
    BY <2>1, OnRecordStep, ReplyTrueStep, TradesStay, FilledIntentsStep DEF Rows
  <2>2. CASE UNCHANGED vars
    BY <2>2 DEF vars, worker, rows, intents, exchange, Rows, OnRecord, ReplyTrue,
                FilledTraded, FilledIntents
  <2>3. QED
    BY <2>1, <2>2
<1>2. QED
  BY InitRows, <1>1, ProtocolHolds, PTL DEF Spec

(* What reached the exchange, or is on its way, can be found at start-up. *)
THEOREM AlwaysOnRecord == Spec => []IntentOnRecord
<1>1. Rows => IntentOnRecord
  BY DEF Rows, OnRecord, IntentOnRecord
<1>2. QED
  BY <1>1, RowsHold, PTL

-----------------------------------------------------------------------------
(* The ledger and the contract of OrderRecord.  An answer that names an    *)
(* order of the exchange is of an order it has.                            *)
ReplyKnown ==
  reply \in {"open", "pending"} => cur \in Decisions /\ pc = "wait" /\ order[cur] # "none"

LedgerStep ==
  /\ [Ledger!Next]_<<order, ledger>>
  /\ \A e \in Decisions : ledger'[e] = "filled" =>
       ledger[e] = "filled" \/ order[e] = "filled" \/ e \in traded

(* An order the exchange has stays there. *)
LEMMA KnownStays ==
  ASSUME Types, Next, NEW d \in Decisions, order[d] # "none"
  PROVE  order'[d] # "none"
<1>a. order \in [Decisions -> {"none", "open"} \cup Final]
  BY FactsHold DEF Facts
<1>1. ASSUME NEW e \in Decisions, Serve(e) PROVE order'[d] # "none"
  <2>1. PICK s \in {"open", "filled", "rejected"} :
          order' = [order EXCEPT ![e] = IF s = "rejected" THEN @ ELSE s]
    BY <1>1 DEF Serve
  <2> QED
    BY <1>a, <2>1
<1>2. ASSUME NEW e \in Decisions, Settle(e) PROVE order'[d] # "none"
  <2>1. PICK s \in {"filled", "canceled"} : order' = [order EXCEPT ![e] = s]
    BY <1>2 DEF Settle
  <2> QED
    BY <1>a, <2>1
<1>3. CASE Send \/ (\E e \in Decisions : Close(e) \/ Execute(e)) \/ UNCHANGED exchange
  BY <1>3 DEF Send, Close, Execute, exchange
<1> QED
  BY <1>1, <1>2, <1>3, WritesExchange

LEMMA ReplyKnownStep == Types /\ ReplyKnown /\ Next => ReplyKnown'
<1> SUFFICES ASSUME Types, ReplyKnown, Next, reply' \in {"open", "pending"}
             PROVE  cur' \in Decisions /\ pc' = "wait" /\ order'[cur'] # "none"
    BY DEF ReplyKnown
<1>1. CASE UNCHANGED <<pc, cur, reply>>
  BY <1>1, KnownStays DEF ReplyKnown
<1>2. ASSUME NEW d \in Decisions, Serve(d)
      PROVE  cur' \in Decisions /\ pc' = "wait" /\ order'[cur'] # "none"
  <2>1. UNCHANGED <<pc, cur>>
    BY <1>2 DEF Serve
  <2>2. CASE reply' = reply
    BY <1>1, <2>1, <2>2
  <2>3. CASE reply' # reply
    <3>1. PICK outcome \in {"open", "filled", "rejected"} :
            /\ order' = [order EXCEPT ![d] = IF outcome = "rejected" THEN @ ELSE outcome]
            /\ pc = "wait" /\ cur = d
            /\ reply' \in IF outcome = "open" THEN {"open", "pending"} ELSE {outcome}
      BY <1>2, <2>3 DEF Serve
    <3>2. outcome = "open"
      BY <3>1
    <3>3. order \in [Decisions -> {"none", "open"} \cup Final]
      BY FactsHold DEF Facts
    <3> QED
      BY <2>1, <3>1, <3>2, <3>3
  <2> QED
    BY <2>2, <2>3
<1>3. CASE pc # "wait"
  <2>1. reply \notin {"open", "pending"}
    BY <1>3 DEF ReplyKnown
  <2>2. \A d \in Decisions : Serve(d) => reply' = reply
    BY <1>3 DEF Serve
  <2>3. reply' = reply \/ reply' \notin {"open", "pending"}
    BY <1>3, <2>2, WritesHandler
       DEF Read, Gate, Refuse, Lookup, Claim, Claimed, Record, Send, Answered, Raises, Poll,
       PollSeesReport, PollGivesUp, Restart, RecoverPoll, Recovered, Crash, LoseReply,
       RecoverClaim
  <2> QED
    BY <2>1, <2>3
<1>4. CASE pc = "wait" /\ ~UNCHANGED <<pc, cur, begun, tries, reply>> /\ \A d \in Decisions : ~Serve(d)
  <2>1. Answered \/ Raises \/ LoseReply \/ Crash
    BY <1>4, WritesHandler
       DEF Read, Gate, Refuse, Lookup, Claim, Claimed, Record, Send, Poll,
       PollSeesReport, PollGivesUp, Restart, RecoverPoll, Recovered, RecoverClaim
  <2> QED
    BY <2>1 DEF Answered, Raises, LoseReply, Crash
<1> QED
  BY <1>1, <1>2, <1>3, <1>4

(* One status that the store accepts: true of the order, the sync loop's   *)
(* filled, or a heal's canceled.                                           *)
LEMMA ChangeKeepsContract ==
  ASSUME Types, NEW d \in Decisions, NEW s, NEW rest \in BOOLEAN,
         Accepts(d, s, rest), Change(d, s), order' = order,
         \/ s \in Live /\ order[d] # "none"
         \/ s \in Final /\ order[d] = s
         \/ s = "filled" /\ ~rest /\ d \in traded
         \/ s = "canceled" /\ ~rest
  PROVE  LedgerStep
<1>1. /\ ledger' = [ledger EXCEPT ![d] = s] /\ ledger \in [Decisions -> LedgerStatuses]
      /\ s \in Live \cup Final
  BY RowTypesAre DEF Change, RecordTypes, Types, TypeOK, Final
<1>2. ledger[d] \notin Final \/ ledger[d] = s \/ (rest /\ s \in Final)
  BY DEF Accepts, Live, Final
<1>3. \A e \in Decisions : ledger'[e] = "filled" =>
        ledger[e] = "filled" \/ order[e] = "filled" \/ e \in traded
  BY <1>1 DEF Live, Final
<1>4. [Ledger!Next]_<<order, ledger>>
  <2>1. Ledger!Write(d, s)
    BY <1>1 DEF Ledger!Write
  <2>2. CASE s \in Live /\ order[d] # "none"
    <3>1. ledger[d] \notin Final
      BY <1>2, <2>2 DEF Live, Final
    <3>2. Ledger!WriteOpen(d, s)
      BY <2>1, <2>2, <3>1 DEF Ledger!WriteOpen
    <3>3. QED
      BY <1>1, <3>2 DEF Ledger!Next
  <2>3. CASE s \in Final /\ order[d] = s
    <3>1. Ledger!WriteEnd(d, s)
      BY <2>1, <2>3 DEF Ledger!WriteEnd
    <3>2. QED
      BY <1>1, <3>1 DEF Ledger!Next
  <2>4. CASE s \in {"filled", "canceled"} /\ ~rest
    <3>1. CASE ledger[d] = s
      BY <1>1, <3>1
    <3>2. CASE ledger[d] \notin Final
      <4>1. Ledger!Presume(d, s)
        BY <2>1, <2>4, <3>2 DEF Ledger!Presume
      <4>2. QED
        BY <1>1, <4>1 DEF Ledger!Next
    <3>3. QED
      BY <1>2, <2>4, <3>1, <3>2
  <2>5. QED
    BY <2>2, <2>3, <2>4
<1>5. QED
  BY <1>3, <1>4 DEF LedgerStep

LEMMA StoreKeepsContract ==
  ASSUME Types, NEW d \in Decisions, NEW s, NEW rest \in BOOLEAN,
         Store(d, s, rest), order' = order,
         \/ s \in Live /\ order[d] # "none"
         \/ s \in Final /\ order[d] = s
         \/ s = "filled" /\ ~rest /\ d \in traded
         \/ s = "canceled" /\ ~rest
  PROVE  LedgerStep
<1>1. (Accepts(d, s, rest) /\ Change(d, s)) \/ ledger' = ledger
  BY Zenon DEF Store, records
<1>2. CASE Accepts(d, s, rest) /\ Change(d, s)
  BY <1>2, ChangeKeepsContract
<1>3. CASE ledger' = ledger
  BY <1>3 DEF LedgerStep
<1>4. QED
  BY <1>1, <1>2, <1>3

(* The exchange opens an order, ends it, or leaves it as it is. *)
LEMMA ExchangeKeepsContract ==
  ASSUME Types, NEW d \in Decisions, Serve(d) \/ Settle(d)
  PROVE  LedgerStep
<1>a. order \in [Decisions -> {"none", "open"} \cup Final]
  BY FactsHold DEF Facts
<1>b. ledger' = ledger
  BY DEF Serve, Settle, rows, records
<1>1. ASSUME NEW s \in {"open"} \cup Final, order' = [order EXCEPT ![d] = s],
             order[d] = "none" \/ (order[d] = "open" /\ s \in Final)
      PROVE  LedgerStep
  BY <1>b, <1>1 DEF Ledger!Happen, Ledger!Next, LedgerStep, Live
<1>2. CASE Serve(d)
  <2>1. PICK s \in IF order[d] = "none" THEN {"open", "filled", "rejected"} ELSE {"rejected"} :
          order' = [order EXCEPT ![d] = IF s = "rejected" THEN @ ELSE s]
    BY <1>2 DEF Serve
  <2>2. CASE s = "rejected"
    <3>1. order' = order
      BY <1>a, <2>1, <2>2
    <3> QED
      BY <1>b, <3>1 DEF LedgerStep
  <2>3. CASE s # "rejected"
    <3>1. order[d] = "none" /\ s \in {"open"} \cup Final /\ order' = [order EXCEPT ![d] = s]
      BY <2>1, <2>3 DEF Final
    <3> QED
      BY <1>1, <3>1
  <2> QED
    BY <2>2, <2>3
<1>3. CASE Settle(d)
  <2>1. order[d] = "open"
    BY <1>3 DEF Settle
  <2>2. PICK s \in {"filled", "canceled"} : order' = [order EXCEPT ![d] = s]
    BY <1>3 DEF Settle
  <2>3. s \in Final
    BY DEF Final
  <2> QED
    BY <1>1, <2>1, <2>2, <2>3
<1> QED
  BY <1>2, <1>3

(* The writers of the store: the handler with an answer, its polls, the    *)
(* reports, the reconciler, the sync loop and the recovery.                *)
LEMMA WritersKeepContract ==
  ASSUME Types, Rows, ReplyKnown,
         \/ Record \/ Answered \/ Raises \/ Poll \/ PollGivesUp \/ RecoverPoll
         \/ \E d \in Decisions :
              WsReport(d) \/ ReconcileOrder(d) \/ ExpireIntent(d) \/ SyncTrade(d) \/ HealGhost(d)
  PROVE  LedgerStep
<1>a. /\ order \in [Decisions -> {"none", "open"} \cup Final]
      /\ reply \in {"none", "pending", "open", "filled", "rejected"}
      /\ cur \in Decisions \cup {None}
      /\ pc \in Executing => cur \in Decisions
  BY FactsHold DEF Facts, Types, TypeOK, HandlerTypes
<1>b. order' = order
  BY DEF Record, Answered, Raises, Poll, PollGivesUp, RecoverPoll, WsReport, ReconcileOrder,
     ExpireIntent, SyncTrade, HealGhost, exchange
<1>c. TRUE \in BOOLEAN /\ FALSE \in BOOLEAN
  OBVIOUS
<1>d. ASSUME ledger' = ledger PROVE LedgerStep
  BY <1>b, <1>d DEF LedgerStep
<1>e. ASSUME NEW d \in Decisions, NEW s \in Told(d), NEW rest \in BOOLEAN, order[d] # "none",
             Store(d, s, rest) \/ (Accepts(d, s, rest) /\ Change(d, s))
      PROVE  LedgerStep
  <2>1. s \in Live \/ (s \in Final /\ s = order[d])
    BY <1>a, <1>e, ToldTrue
  <2>2. \/ s \in Live /\ order[d] # "none"
        \/ s \in Final /\ order[d] = s
    BY <1>e, <2>1
  <2>3. QED
    BY <1>b, <1>e, <2>2, StoreKeepsContract, ChangeKeepsContract
<1>1. CASE Record \/ PollGivesUp \/ \E d \in Decisions : ExpireIntent(d)
  BY <1>1, <1>d DEF Record, PollGivesUp, ExpireIntent, records
<1>2. CASE Answered \/ Raises
  <2>1. cur \in Decisions /\ reply # "none"
    BY <1>2, <1>a DEF Answered, Raises, Executing
  <2>2. \/ Presume(cur) \/ UNCHANGED records
        \/ reply # "rejected" /\ Store(cur, reply, FALSE)
    BY <1>2, Zenon DEF Answered, Raises, RecordReply
  <2>3. CASE Presume(cur) \/ UNCHANGED records
    BY <1>d, <2>3 DEF Presume, records
  <2>4. CASE reply # "rejected" /\ Store(cur, reply, FALSE)
    <3>1. \/ reply \in {"open", "pending"} /\ order[cur] # "none"
          \/ reply = "filled" /\ order[cur] = "filled"
      BY <1>a, <2>1, <2>4 DEF Rows, ReplyTrue, ReplyKnown
    <3>2. \/ reply \in Live /\ order[cur] # "none"
          \/ reply \in Final /\ order[cur] = reply
      BY <3>1 DEF Live, Final
    <3>3. QED
      BY <1>b, <1>c, <2>1, <2>4, <3>2, StoreKeepsContract
  <2>5. QED
    BY <2>2, <2>3, <2>4
<1>3. CASE Poll
  <2>1. cur \in Decisions
    BY <1>3, <1>a DEF Poll, Executing
  <2>2. \/ UNCHANGED rows
        \/ \E status \in Told(cur) \cap Live : Store(cur, status, TRUE)
        \/ order[cur] \in Final /\ Store(cur, order[cur], TRUE)
    BY <1>3, Zenon DEF Poll
  <2>3. CASE UNCHANGED rows
    BY <1>d, <2>3 DEF rows, records
  <2>4. ASSUME NEW status \in Told(cur) \cap Live, Store(cur, status, TRUE) PROVE LedgerStep
    <3>1. order[cur] # "none"
      BY <2>4 DEF Told, Live
    <3>2. QED
      BY <1>c, <1>e, <2>1, <2>4, <3>1
  <2>5. CASE order[cur] \in Final /\ Store(cur, order[cur], TRUE)
    BY <1>b, <1>c, <2>1, <2>5, StoreKeepsContract
  <2>6. QED
    BY <2>2, <2>3, <2>4, <2>5
<1>4. CASE RecoverPoll
  <2>1. cur \in Decisions
    BY <1>4, <1>a DEF RecoverPoll
  <2>2. \/ UNCHANGED rows
        \/ Presume(cur)
        \/ order[cur] # "none" /\ \E status \in Told(cur) : Store(cur, status, FALSE)
    BY <1>4, Zenon DEF RecoverPoll
  <2>3. CASE UNCHANGED rows \/ Presume(cur)
    BY <1>d, <2>3 DEF rows, records, Presume
  <2>4. CASE order[cur] # "none" /\ \E status \in Told(cur) : Store(cur, status, FALSE)
    BY <1>c, <1>e, <2>1, <2>4
  <2>5. QED
    BY <2>2, <2>3, <2>4
<1>5. ASSUME NEW d \in Decisions, WsReport(d) PROVE LedgerStep
  <2>1. /\ order[d] # "none"
        /\ \/ \E status \in Told(d) : Accepts(d, status, FALSE) /\ Change(d, status)
           \/ UNCHANGED records
    BY <1>5, Zenon DEF WsReport
  <2>2. CASE UNCHANGED records
    BY <1>d, <2>2 DEF records
  <2>3. QED
    BY <1>c, <1>e, <2>1, <2>2
<1>7. ASSUME NEW d \in Decisions, ReconcileOrder(d) PROVE LedgerStep
  <2>1. PICK status \in Told(d) :
          ledger[d] \in Live /\ Accepts(d, status, TRUE) /\ Store(d, status, TRUE)
    BY <1>7, Zenon DEF ReconcileOrder
  <2>2. status # "none"
    BY <2>1 DEF Accepts, Live, Final
  <2>3. order[d] # "none"
    BY <2>1, <2>2 DEF Told
  <2>4. QED
    BY <1>c, <1>e, <2>1, <2>3
<1>6. ASSUME NEW d \in Decisions, SyncTrade(d) PROVE LedgerStep
  <2>1. d \in traded /\ (Store(d, "filled", FALSE) \/ UNCHANGED records)
    BY <1>6 DEF SyncTrade
  <2>2. CASE UNCHANGED records
    BY <1>d, <2>2 DEF records
  <2>3. CASE Store(d, "filled", FALSE)
    BY <1>b, <1>c, <2>1, <2>3, StoreKeepsContract
  <2>4. QED
    BY <2>1, <2>2, <2>3
<1>8. ASSUME NEW d \in Decisions, HealGhost(d) PROVE LedgerStep
  <2>1. Store(d, "canceled", FALSE) \/ UNCHANGED records
    BY <1>8 DEF HealGhost
  <2>2. CASE UNCHANGED records
    BY <1>d, <2>2 DEF records
  <2>3. CASE Store(d, "canceled", FALSE)
    BY <1>b, <1>c, <2>3, StoreKeepsContract
  <2>4. QED
    BY <2>1, <2>2, <2>3
<1> QED
  BY <1>1, <1>2, <1>3, <1>4, <1>5, <1>6, <1>7, <1>8

LEMMA RecordsStep == Types /\ Rows /\ ReplyKnown /\ [Next]_vars => LedgerStep
<1> SUFFICES ASSUME Types, Rows, ReplyKnown, [Next]_vars PROVE LedgerStep
    OBVIOUS
<1>1. CASE UNCHANGED vars
  BY <1>1 DEF vars, rows, records, exchange, LedgerStep
<1>2. CASE Next /\ UNCHANGED rows
  <2>1. CASE order' = order
    BY <1>2, <2>1 DEF rows, records, LedgerStep
  <2>2. CASE order' # order
    <3>1. PICK d \in Decisions : Serve(d) \/ Settle(d)
      BY <1>2, <2>2, WritesExchange DEF Send, Close, Execute, exchange
    <3> QED
      BY <3>1, ExchangeKeepsContract
  <2> QED
    BY <2>1, <2>2
<1>3. CASE Next /\ ~UNCHANGED rows
  BY <1>3, WritesRows, WritersKeepContract
<1> QED
  BY <1>1, <1>2, <1>3

LEMMA ReplyKnownHolds == Spec => []ReplyKnown
<1>1. Init => ReplyKnown
  BY DEF Init, ReplyKnown
<1>2. Types /\ ReplyKnown /\ [Next]_vars => ReplyKnown'
  BY ReplyKnownStep DEF vars, worker, exchange, ReplyKnown
<1> QED
  BY <1>1, <1>2, ProtocolHolds, PTL DEF Spec

(* No task, no restart and no fault makes the store reopen an order, or    *)
(* change how one ended but to the truth: for any decisions, bounds and    *)
(* faults the records by order id implement OrderRecord, presuming only    *)
(* that a traded order is filled, and that a missing one is canceled.      *)
THEOREM LedgerKeepsContract == Spec => LedgerContract
<1>1. Init => Ledger!Init
  BY DEF Init, Ledger!Init
<1>2. Types /\ Rows /\ ReplyKnown /\ [Next]_vars => [Ledger!Next]_<<order, ledger>>
  BY RecordsStep DEF LedgerStep
<1> QED
  BY <1>1, <1>2, ProtocolHolds, RowsHold, ReplyKnownHolds, PTL
     DEF Spec, LedgerContract, Ledger!Spec

(* What is filled on record has traded, by the same steps. *)
FilledRecords == \A d \in Decisions : ledger[d] = "filled" => d \in traded

LEMMA FilledRecordsHold == Spec => []FilledRecords
<1>1. Init => FilledRecords
  BY DEF Init, FilledRecords
<1>2. Types /\ Rows /\ ReplyKnown /\ FilledRecords /\ [Next]_vars => FilledRecords'
  <2> SUFFICES ASSUME Types, Rows, ReplyKnown, FilledRecords, [Next]_vars,
                      NEW d \in Decisions, ledger'[d] = "filled"
               PROVE  d \in traded'
    BY DEF FilledRecords
  <2>1. ledger[d] = "filled" \/ order[d] = "filled" \/ d \in traded
    BY RecordsStep DEF LedgerStep
  <2>2. d \in traded
    BY <2>1 DEF FilledRecords, Rows, FilledTraded
  <2> QED
    BY <2>2, TradesStay DEF vars, exchange
<1> QED
  BY <1>1, <1>2, ProtocolHolds, RowsHold, ReplyKnownHolds, PTL DEF Spec

(* Nothing reads filled of an order without a trade, neither the intent    *)
(* nor the record by order id, whoever wrote it last, for any decisions,   *)
(* bounds and faults.                                                      *)
THEOREM NeverFalselyFilled == Spec => []FilledIsTraded
<1>1. Rows /\ FilledRecords => FilledIsTraded
  BY DEF Rows, FilledIntents, FilledRecords, FilledIsTraded
<1>2. QED
  BY <1>1, RowsHold, FilledRecordsHold, PTL

-----------------------------------------------------------------------------
(* Why the worker comes back to its stream: a measure that every step of   *)
(* the handler and of the start-up lowers until it is there.               *)

(* The sends an execution gets, even when no retry is configured. *)
Sends == IF MaxTries = 0 THEN 1 ELSE MaxTries

Stage ==
  CASE pc \in {"down", "gate"} -> 7
    [] pc \in {"recover", "lookup"} -> 6
    [] pc = "claim" -> 5
    [] pc \in {"claimed", "refused"} -> 4
    [] pc = "record" -> 3
    [] pc \in {"send", "wait"} -> 2
    [] pc = "poll" -> 1
    [] OTHER -> 0

(* What is left of a stage: sends and answers, polls, or the recovery of   *)
(* an intent that was claimed for it.                                      *)
Rest ==
  CASE pc = "send" -> 2 * (Sends - tries)
    [] pc = "wait" -> 2 * (Sends - tries) + 1
    [] pc = "poll" -> MaxPolls - tries
    [] pc = "recover" -> IF cur = None THEN 1 ELSE 0
    [] OTHER -> 0

Nearer ==
  \/ Stage' < Stage
  \/ Stage' = Stage /\ todo' \subseteq todo /\ todo' # todo
  \/ Stage' = Stage /\ todo' = todo /\ Rest' < Rest

TriesInBounds ==
  /\ pc \notin Executing => tries = 0
  /\ pc = "send" => tries < Sends
  /\ pc = "wait" => tries <= Sends
  /\ pc = "poll" => tries <= MaxPolls
  /\ pc = "recover" /\ cur # None => cur \in todo

(* The measure is <<Stage, todo, Rest>>. *)
Bounded == Stage \in Nat /\ Rest \in Nat /\ todo \subseteq Decisions

(* Away from the stream, the handler and the start-up come nearer to it;   *)
(* of all else only a crash leads away, and it counts.                     *)
Approach ==
  pc # "idle" =>
    /\ Handler \/ Startup => Nearer
    /\ Nearer \/ crashes < crashes' \/ UNCHANGED <<Stage, todo, Rest>>

LEMMA Numbers ==
  /\ MaxTries \in Nat /\ MaxPolls \in Nat /\ Sends \in Nat /\ 1 <= Sends
  /\ MaxTries <= Sends
  /\ None \notin Decisions
  BY ConstantsAssumption DEF Sends

LEMMA HandlerApproaches ==
  ASSUME Types, TriesInBounds, Handler
  PROVE  TriesInBounds' /\ (pc # "idle" => Nearer)
<1>a. tries \in Nat
  BY DEF Types, TypeOK, HandlerTypes
<1>b. todo' = todo
  BY DEF Handler, Read, Gate, Refuse, Lookup, Claim, Claimed, Record, Send, Answered, Raises,
     Poll, PollSeesReport, PollGivesUp
<1>c. ASSUME Drop, pc \notin {"idle", "down", "recover"} PROVE TriesInBounds' /\ Nearer
  <2>1. /\ pc' = "idle" /\ tries' = 0
        /\ pc \in {"gate", "lookup", "claim", "claimed", "refused", "record", "send", "wait", "poll"}
    BY <1>c DEF Drop, Types, TypeOK, HandlerTypes, BeforeClaim, Claiming, Executing
  <2> QED
    BY <2>1 DEF TriesInBounds, Nearer, Stage, Executing
<1>d. ASSUME pc \in {"gate", "lookup", "claim", "claimed", "refused"},
             tries' = tries,
             \/ pc = "gate" /\ pc' = "lookup"
             \/ pc = "lookup" /\ pc' = "claim"
             \/ pc = "claim" /\ pc' \in {"claimed", "refused"}
             \/ pc \in {"claimed", "refused"} /\ pc' = "record"
      PROVE  TriesInBounds' /\ Nearer
  BY <1>d DEF TriesInBounds, Nearer, Stage, Executing
<1>1. CASE Read
  <2>1. pc = "idle" /\ tries' = tries /\ (pc' = pc \/ pc' = "gate")
    BY <1>1, Zenon DEF Read
  <2> QED
    BY <2>1 DEF TriesInBounds, Executing
<1>2. CASE Gate \/ Refuse \/ Lookup
  <2>1. pc \in {"gate", "lookup", "record"}
    BY <1>2 DEF Gate, Refuse, Lookup
  <2>2. \/ Drop
        \/ pc = "gate" /\ pc' = "lookup" /\ tries' = tries
        \/ pc = "lookup" /\ pc' = "claim" /\ tries' = tries
    BY <1>2, Zenon DEF Gate, Refuse, Lookup
  <2> QED
    BY <1>c, <1>d, <2>1, <2>2
<1>3. CASE Claim \/ Claimed
  <2>1. \/ Drop /\ pc \in {"claimed", "refused"}
        \/ pc = "claim" /\ pc' \in {"claimed", "refused"} /\ tries' = tries
        \/ pc \in {"claimed", "refused"} /\ pc' = "record" /\ tries' = tries
    <3>1. CASE Claim
      BY <3>1 DEF Claim
    <3>2. CASE Claimed
      <4>1. pc \in {"claimed", "refused"} /\ (Drop \/ (pc' = "record" /\ tries' = tries))
        BY <3>2, Zenon DEF Claimed
      <4> QED
        BY <4>1
    <3> QED
      BY <1>3, <3>1, <3>2
  <2> QED
    BY <1>c, <1>d, <2>1
<1>4. CASE Record
  <2>1. pc = "record" /\ pc' = "send" /\ tries' = tries
    BY <1>4 DEF Record
  <2> QED
    BY <2>1, Numbers DEF TriesInBounds, Nearer, Stage, Executing
<1>5. CASE Send
  <2>1. pc = "send" /\ pc' = "wait" /\ tries' = tries + 1
    BY <1>5 DEF Send, NextTry
  <2> QED
    BY <1>a, <1>b, <2>1, Numbers DEF TriesInBounds, Nearer, Stage, Rest, Executing
<1>6. CASE Answered \/ Raises
  <2>1. pc = "wait"
    BY <1>6 DEF Answered, Raises
  <2>2. \/ Finish(TRUE) \/ Finish(FALSE)
        \/ pc' = "poll" /\ tries' = 0
        \/ pc' = "send" /\ tries' = tries /\ tries < MaxTries
    BY <1>6, Zenon DEF Answered, Raises
  <2>3. CASE Finish(TRUE) \/ Finish(FALSE)
    BY <1>c, <2>1, <2>3 DEF Finish
  <2>4. CASE pc' = "poll" /\ tries' = 0
    BY <2>1, <2>4, Numbers DEF TriesInBounds, Nearer, Stage, Executing
  <2>5. CASE pc' = "send" /\ tries' = tries /\ tries < MaxTries
    <3>1. tries < Sends
      BY <1>a, <2>5, Numbers
    <3> QED
      BY <1>a, <1>b, <2>1, <2>5, <3>1, Numbers DEF TriesInBounds, Nearer, Stage, Rest, Executing
  <2> QED
    BY <2>2, <2>3, <2>4, <2>5
<1>7. CASE Poll
  <2>1. pc = "poll" /\ tries < MaxPolls
    BY <1>7 DEF Poll
  <2>2. (pc' = pc /\ tries' = tries + 1) \/ Finish(TRUE)
    BY <1>7, Zenon DEF Poll, NextTry
  <2>3. CASE pc' = pc /\ tries' = tries + 1
    BY <1>a, <1>b, <2>1, <2>3, Numbers DEF TriesInBounds, Nearer, Stage, Rest, Executing
  <2>4. CASE Finish(TRUE)
    BY <1>c, <2>1, <2>4 DEF Finish
  <2> QED
    BY <2>2, <2>3, <2>4
<1>8. CASE PollSeesReport \/ PollGivesUp
  <2>1. pc = "poll" /\ Drop
    BY <1>8 DEF PollSeesReport, PollGivesUp, Finish
  <2> QED
    BY <1>c, <2>1
<1> QED
  BY <1>1, <1>2, <1>3, <1>4, <1>5, <1>6, <1>7, <1>8 DEF Handler

LEMMA StartupApproaches ==
  ASSUME Types, TriesInBounds, Startup
  PROVE  TriesInBounds' /\ Nearer
<1>a. todo \subseteq Decisions /\ None \notin Decisions
  BY Numbers DEF Types, TypeOK, MemoryTypes
<1>1. CASE Restart
  <2>1. pc = "down" /\ pc' = "recover" /\ tries' = tries /\ cur' = cur
    BY <1>1 DEF Restart
  <2>2. cur = None
    BY <2>1 DEF Types, CurOK
  <2> QED
    BY <2>1, <2>2 DEF TriesInBounds, Nearer, Stage, Executing
<1>2. ASSUME NEW d \in Decisions, RecoverClaim(d) PROVE TriesInBounds' /\ Nearer
  <2>1. pc = "recover" /\ pc' = pc /\ tries' = tries /\ cur = None /\ d \in todo
    BY <1>2 DEF RecoverClaim
  <2>2. (todo' = todo \ {d} /\ cur' = cur) \/ (todo' = todo /\ cur' = d)
    BY <1>2, Zenon DEF RecoverClaim
  <2> QED
    BY <1>a, <2>1, <2>2 DEF TriesInBounds, Nearer, Stage, Rest, Executing
<1>3. CASE RecoverPoll
  <2>1. /\ pc = "recover" /\ pc' = pc /\ tries' = tries /\ cur # None /\ cur' = None
        /\ todo' = todo \ {cur}
    BY <1>3 DEF RecoverPoll
  <2>2. cur \in todo
    BY <2>1 DEF TriesInBounds
  <2> QED
    BY <2>1, <2>2 DEF TriesInBounds, Nearer, Stage, Executing
<1>4. CASE Recovered
  <2>1. pc = "recover" /\ pc' = "idle" /\ tries' = tries
    BY <1>4 DEF Recovered
  <2> QED
    BY <2>1 DEF TriesInBounds, Nearer, Stage, Executing
<1> QED
  BY <1>1, <1>2, <1>3, <1>4 DEF Startup

LEMMA EveryStepApproaches ==
  ASSUME Types, TriesInBounds, [Next]_vars
  PROVE  TriesInBounds' /\ [Approach]_vars
<1>1. CASE Handler \/ Startup
  <2>1. Startup => pc # "idle"
    BY DEF Startup, Restart, RecoverPoll, Recovered, RecoverClaim
  <2> QED
    BY <1>1, HandlerApproaches, StartupApproaches DEF Approach
<1>2. CASE Crash
  <2>1. pc' = "down" /\ tries' = 0 /\ crashes' = crashes + 1 /\ crashes \in Nat
    BY <1>2, ConstantsAssumption DEF Crash, Types, TypeOK
  <2>2. TriesInBounds' /\ crashes < crashes'
    BY <2>1 DEF TriesInBounds, Executing
  <2>3. (Handler \/ Startup) /\ pc # "idle" => Nearer
    BY HandlerApproaches, StartupApproaches
  <2> QED
    BY <2>2, <2>3 DEF Approach
<1>3. CASE ~(Handler \/ Startup \/ Crash)
  <2>1. UNCHANGED <<pc, cur, tries, todo>>
    <3>1. Tick \/ RedisLoss \/ LoseReply \/ Tasks \/ UNCHANGED vars
          \/ \E d \in Decisions :
               Publish(d) \/ Serve(d) \/ Execute(d) \/ Settle(d) \/ Close(d)
      BY <1>3 DEF Next, World
    <3> QED
      BY <3>1 DEF Tick, RedisLoss, LoseReply, Tasks, Publish, Serve, Execute, Settle, Close, WsReport, ReconcileOrder,
         ExpireIntent, SyncTrade, HealGhost, vars, worker
  <2>2. TriesInBounds' /\ UNCHANGED <<Stage, todo, Rest>>
    BY <2>1 DEF TriesInBounds, Stage, Rest
  <2> QED
    BY <1>3, <2>2 DEF Approach
<1> QED
  BY <1>1, <1>2, <1>3

(* The worker is away from its stream for a bounded number of steps, for   *)
(* any number of decisions, tries and polls: each step of the handler, and *)
(* of the start-up after a crash, comes nearer to the stream in a          *)
(* well-founded measure, and nothing the exchange, the stores or the other *)
(* tasks do leads away from it.                                            *)
THEOREM HandlingIsBounded == Spec => []Bounded /\ [][Approach]_vars
<1>1. Init => TriesInBounds
  BY Numbers DEF Init, TriesInBounds, Executing
<1>2. Types /\ TriesInBounds /\ [Next]_vars => TriesInBounds' /\ [Approach]_vars
  BY EveryStepApproaches
<1>3. Types /\ TriesInBounds => Bounded
  <2> SUFFICES ASSUME Types, TriesInBounds PROVE Bounded
    OBVIOUS
  <2>1. tries \in Nat /\ todo \subseteq Decisions
    BY DEF Types, TypeOK, HandlerTypes, MemoryTypes
  <2>2. Rest \in Nat
    BY <2>1, Numbers DEF TriesInBounds, Rest
  <2>3. Stage \in Nat
    BY DEF Stage
  <2> QED
    BY <2>1, <2>2, <2>3 DEF Bounded
<1> QED
  BY <1>1, <1>2, <1>3, ProtocolHolds, PTL DEF Spec
=============================================================================
