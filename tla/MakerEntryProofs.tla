--------------------------- MODULE MakerEntryProofs ---------------------------
(***************************************************************************)
(* What holds of MakerEntry for every number of reposts, polls, tries and  *)
(* lots.  The induction needs, besides the properties, that an attempt     *)
(* that was not sent left no trace, that a maker attempt is sent once,     *)
(* that answers are true and fills are whole, and that the root's row      *)
(* stays open as long as the worker is at a maker attempt.                 *)
(***************************************************************************)
EXTENDS MakerEntry, TLAPS

Untouched(o) == o \notin wire /\ order[o] = "none" /\ done[o] = 0

(* What was not sent yet is unknown to the exchange. *)
Fresh ==
  \A o \in Orders : o > at \/ (o = at /\ ~sent) => Untouched(o)

(* The request of a maker attempt is sent once. *)
SentOnce ==
  /\ \A o \in Attempts : o \in wire => order[o] = "none"
  /\ pc = "post" /\ at # Fall => ~sent

(* A fill that is answered was executed, and executed whole. *)
AnswerTrue ==
  /\ pc = "wait" /\ answer = "filled" => order[at] = "filled"
  /\ \A o \in Orders : order[o] = "filled" => done[o] = Size

(* The row and the worker agree on where the entry stands. *)
RowOpen ==
  /\ pc # "done" /\ at # Fall => row \in Pending
  /\ pc \notin {"done", "down"} /\ at = Fall => row = "canceled"
  /\ pc \in {"window", "confirm"} => at # Fall
  /\ pc = "poll" => at = Fall
  /\ fallRow # "none" => at = Fall
  /\ known \in Attempts \cup {NoOrder}
  /\ known # NoOrder => known <= at

(* Only a crash in the first attempt leaves the entry assured. *)
DownFirst == pc = "down" /\ assured => at = 0

IInv ==
  /\ TypeOK
  /\ Fresh
  /\ SentOnce
  /\ AnswerTrue
  /\ RowOpen
  /\ DownFirst
  /\ OneAtATime
  /\ EndedIsOver
  /\ FilledIsFilled

(* The ways out of the confirmation, of which Left is not the whole step.   *)
StillOpen ==
  pc = "confirm" /\ NoNews /\ UNCHANGED <<at, sent, answer, exchange, assured>>

SawFill ==
  /\ pc = "confirm"
  /\ order[at] = "filled"
  /\ Record("filled", at)
  /\ pc' = "done"
  /\ UNCHANGED <<at, tries, sent, answer, exchange, assured>>

Left ==
  /\ pc = "confirm"
  /\ tries' = 0
  /\ assured' \in BOOLEAN
  /\ assured' => assured /\ ((Over(at) /\ order[at] # "filled") \/ ~sent)
  /\ UNCHANGED <<answer, exchange>>

(* A confirmation goes on, ends the entry with a fill, or leaves the order. *)
LEMMA Confirmation ==
  ASSUME TypeOK, ConfirmPoll \/ Unconfirmed
  PROVE  \/ StillOpen
         \/ SawFill
         \/ Left /\ (NextAttempt \/ ToFallback \/ GiveUp)
<1>1. CASE ConfirmPoll
  <2>1. CASE NoNews /\ UNCHANGED <<at, sent, assured>>
    BY <1>1, <2>1 DEF ConfirmPoll, StillOpen
  <2>2. CASE /\ "filled" \in EndTold
             /\ Record("filled", at)
             /\ pc' = "done"
             /\ UNCHANGED <<at, tries, sent, assured>>
    BY <1>1, <2>2 DEF ConfirmPoll, SawFill, EndTold
  <2>3. ASSUME NEW status \in EndTold \ {"filled"}, Leave,
               assured' = (assured /\ Seen(status))
        PROVE  Left /\ (NextAttempt \/ ToFallback \/ GiveUp)
    <3>1. assured' \in BOOLEAN
      BY <2>3 DEF TypeOK, Seen
    <3>2. assured' => assured /\ (status = order[at] \/ ~sent)
      BY <2>3 DEF Seen
    <3>3. status = order[at] => Over(at) /\ order[at] # "filled"
      BY DEF EndTold, Over
    <3>4. pc = "confirm" /\ UNCHANGED <<answer, exchange>>
      BY <1>1, Zenon DEF ConfirmPoll
    <3> QED
      BY <2>3, <3>1, <3>2, <3>3, <3>4 DEF Left, Leave
  <2> QED
    BY <1>1, <2>1, <2>2, <2>3, Zenon DEF ConfirmPoll
<1>2. CASE Unconfirmed
  BY <1>2 DEF Unconfirmed, Left, Leave
<1> QED
  BY <1>1, <1>2

-----------------------------------------------------------------------------
(* Every step keeps the types. *)
LEMMA TypeKept ==
  ASSUME TypeOK, [Next]_vars
  PROVE  TypeOK'
<1>1. CASE \E o \in Orders : Serve(o)
  BY <1>1, ConstantsAssumption DEF Serve, TypeOK, Final, rows
<1>2. CASE \E o \in Orders : Trade(o)
  BY <1>2, ConstantsAssumption DEF Trade, TypeOK, Final, worker, rows
<1>3. CASE \E o \in Orders : ServeCancel(o)
  BY <1>3 DEF ServeCancel, TypeOK, Final, worker, rows
<1>4. CASE LoseReply
  BY <1>4 DEF LoseReply, TypeOK, exchange, rows
<1>5. CASE Post
  <2>1. wire' \subseteq Orders
    BY <1>5 DEF Post, TypeOK
  <2>2. sent' \in BOOLEAN
    BY <1>5, Zenon DEF Post, TypeOK
  <2>3. pc' = "wait" /\ tries' = tries + 1 /\ answer' \in {"none", "rejected"}
    BY <1>5, Zenon DEF Post
  <2>4. UNCHANGED <<at, cancels, order, done, rows, assured>>
    BY <1>5, Zenon DEF Post
  <2> QED
    BY <2>1, <2>2, <2>3, <2>4 DEF TypeOK, rows
<1>6. CASE MakerAnswered
  BY <1>6
  DEF MakerAnswered, Record, AnsweredId, TypeOK, Pending, Final, exchange
<1>7. CASE MakerRaises
  BY <1>7 DEF MakerRaises, TypeOK, exchange, rows
<1>8. CASE WindowPoll
  <2>1. \/ NoNews /\ UNCHANGED assured
        \/ \E status \in EndTold :
             /\ Record(status, IF Over(at) THEN at ELSE NoOrder)
             /\ assured' = (assured /\ Seen(status))
             /\ pc' = "done"
             /\ UNCHANGED tries
    BY <1>8, Zenon DEF WindowPoll
  <2>2. CASE NoNews /\ UNCHANGED assured
    BY <1>8, <2>2 DEF WindowPoll, NoNews, TypeOK, exchange, rows
  <2>3. ASSUME NEW status \in EndTold,
               Record(status, IF Over(at) THEN at ELSE NoOrder),
               assured' = (assured /\ Seen(status)), pc' = "done", UNCHANGED tries
        PROVE  TypeOK'
    <3>1. status \in Final
      BY DEF EndTold
    <3>2. assured' \in BOOLEAN
      BY <2>3 DEF TypeOK, Seen
    <3> QED
      BY <1>8, <2>3, <3>1, <3>2 DEF WindowPoll, Record, TypeOK, exchange
  <2> QED
    BY <2>1, <2>2, <2>3
<1>9. CASE Cancel
  BY <1>9 DEF Cancel, TypeOK, rows
<1>10. CASE ConfirmPoll \/ Unconfirmed
  <2>1. CASE StillOpen
    BY <2>1 DEF StillOpen, NoNews, TypeOK, exchange, rows
  <2>2. CASE SawFill
    BY <2>2 DEF SawFill, Record, TypeOK, Final, exchange
  <2>3. CASE Left /\ NextAttempt
    <3>1. at + 1 \in Orders
      BY <2>3, ConstantsAssumption DEF NextAttempt, TypeOK, Orders, Fall
    <3> QED
      BY <2>3, <3>1 DEF Left, NextAttempt, Move, TypeOK, exchange, rows
  <2>4. CASE Left /\ ToFallback
    <3>1. Fall \in Orders
      BY ConstantsAssumption DEF Orders, Fall
    <3>2. at' = Fall /\ pc' = "post" /\ sent' = FALSE /\ row' = "canceled" /\
          UNCHANGED <<known, fallRow>>
      BY <2>4, Zenon DEF ToFallback, Move
    <3> QED
      BY <2>4, <3>1, <3>2 DEF Left, TypeOK, Final, exchange
  <2>5. CASE Left /\ GiveUp
    BY <2>5 DEF Left, GiveUp, TypeOK, exchange
  <2> QED
    BY <1>10, <2>1, <2>2, <2>3, <2>4, <2>5, Confirmation
<1>11. CASE FallAnswered
  BY <1>11 DEF FallAnswered, FallRecord, TypeOK, Pending, Final, exchange
<1>12. CASE FallRaises
  BY <1>12 DEF FallRaises, FallRecord, TypeOK, exchange
<1>13. CASE FallPoll
  <2>1. \/ NoNews
        \/ tries' = tries + 1 /\ (\E status \in Working : FallRecord(status)) /\ UNCHANGED pc
        \/ /\ Over(at) /\ pc' = "done" /\ UNCHANGED tries
           /\ FallRecord(order[at]) \/ UNCHANGED rows
    BY <1>13, Zenon DEF FallPoll
  <2> QED
    BY <1>13, <2>1 DEF FallPoll, NoNews, Over, FallRecord, TypeOK, exchange, rows
<1>14. CASE FallPollGivesUp
  BY <1>14 DEF FallPollGivesUp, FallRecord, TypeOK, exchange
<1>15. CASE Crash
  BY <1>15 DEF Crash, TypeOK, exchange, rows
<1>16. CASE Recover
  <2>1. /\ pc' = "done" /\ UNCHANGED <<at, tries, answer, sent, exchange>>
        /\ \/ UNCHANGED <<rows, assured>>
           \/ /\ known # NoOrder
              /\ Record(StatusOf(known), known)
              /\ UNCHANGED assured
           \/ /\ Record("rejected", NoOrder)
              /\ assured' = (assured /\ Seen("rejected"))
           \/ /\ FallRecord("rejected") \/ FallRecord(StatusOf(Fall))
              /\ UNCHANGED assured
    BY <1>16 DEF Recover
  <2>2. \A o \in Orders : StatusOf(o) \in Pending \cup Final
    BY DEF StatusOf, Over, Pending
  <2>3. Fall \in Orders
    BY ConstantsAssumption DEF Orders, Fall
  <2>4. (assured /\ Seen("rejected")) \in BOOLEAN
    BY DEF TypeOK, Seen
  <2>5. CASE /\ Record("rejected", NoOrder)
             /\ assured' = (assured /\ Seen("rejected"))
    BY <2>1, <2>4, <2>5 DEF Record, TypeOK, Final, exchange
  <2> QED
    BY <2>1, <2>2, <2>3, <2>5 DEF Record, FallRecord, TypeOK, Final, exchange, rows
<1>17. CASE Tasks
  BY <1>17
  DEF Tasks, FallReport, SyncExecutions, HealGhost, Expire, FallRecord, TypeOK, Final, worker, exchange
<1>18. CASE UNCHANGED vars
  BY <1>18 DEF TypeOK, vars, worker, exchange, rows
<1> QED
  BY <1>1, <1>2, <1>3, <1>4, <1>5, <1>6, <1>7, <1>8, <1>9, <1>10, <1>11, <1>12,
     <1>13, <1>14, <1>15, <1>16, <1>17, <1>18
  DEF Next, Worker, Exchange

(* Only the order that is worked is sent. *)
LEMMA FreshKept ==
  ASSUME TypeOK, Fresh, RowOpen, [Next]_vars
  PROVE  Fresh'
<1>1. CASE \E o \in Orders : Serve(o)
  BY <1>1 DEF Serve, Fresh, Untouched
<1>2. CASE \E o \in Orders : Trade(o)
  BY <1>2 DEF Trade, worker, Fresh, Untouched
<1>3. CASE \E o \in Orders : ServeCancel(o)
  BY <1>3 DEF ServeCancel, worker, Fresh, Untouched
<1>4. CASE Post
  BY <1>4 DEF Post, Orders, Fresh, Untouched
<1>5. CASE ConfirmPoll \/ Unconfirmed
  <2>1. CASE StillOpen
    BY <2>1 DEF StillOpen, exchange, Fresh, Untouched
  <2>2. CASE SawFill
    BY <2>2 DEF SawFill, exchange, Fresh, Untouched
  <2>3. CASE Left /\ NextAttempt
    BY <2>3
    DEF Left, NextAttempt, Move, TypeOK, Attempts, exchange, Fresh, Untouched,
        RowOpen
  <2>4. CASE Left /\ ToFallback
    BY <2>4
    DEF Left, ToFallback, Move, TypeOK, Orders, Fall, exchange, Fresh,
        Untouched, RowOpen
  <2>5. CASE Left /\ GiveUp
    BY <2>5 DEF Left, GiveUp, exchange, Fresh, Untouched
  <2> QED
    BY <1>5, <2>1, <2>2, <2>3, <2>4, <2>5, Confirmation
<1>6. CASE LoseReply \/ MakerAnswered \/ MakerRaises \/ WindowPoll \/ Cancel \/
      FallAnswered \/ FallRaises \/ FallPoll \/ FallPollGivesUp \/ Crash \/
      Recover \/ Tasks
  BY <1>6
  DEF LoseReply, MakerAnswered, MakerRaises, WindowPoll, Cancel, FallAnswered,
      FallRaises, FallPoll, FallPollGivesUp, Crash, Recover, Tasks, FallReport,
      SyncExecutions, HealGhost, Expire, worker,
      exchange, Fresh, Untouched
<1>7. CASE UNCHANGED vars
  BY <1>7 DEF vars, worker, exchange, Fresh, Untouched
<1> QED
  BY <1>1, <1>2, <1>3, <1>4, <1>5, <1>6, <1>7 DEF Next, Worker, Exchange

(* The request of a maker attempt leaves once, so that it is never refused. *)
LEMMA SentOnceKept ==
  ASSUME TypeOK, Fresh, SentOnce, RowOpen, [Next]_vars
  PROVE  SentOnce'
<1>1. CASE \E o \in Orders : Serve(o)
  BY <1>1 DEF Serve, SentOnce
<1>2. CASE \E o \in Orders : Trade(o)
  BY <1>2 DEF Trade, worker, SentOnce
<1>3. CASE \E o \in Orders : ServeCancel(o)
  BY <1>3 DEF ServeCancel, worker, SentOnce
<1>4. CASE Post
  BY <1>4, ConstantsAssumption
  DEF Post, Orders, Attempts, Fall, Fresh, Untouched, SentOnce
<1>5. CASE ConfirmPoll \/ Unconfirmed
  <2>1. CASE StillOpen
    BY <2>1 DEF StillOpen, NoNews, exchange, SentOnce
  <2>2. CASE SawFill
    BY <2>2 DEF SawFill, exchange, SentOnce
  <2>3. CASE Left /\ NextAttempt
    BY <2>3 DEF Left, NextAttempt, Move, exchange, SentOnce
  <2>4. CASE Left /\ ToFallback
    BY <2>4 DEF Left, ToFallback, Move, exchange, SentOnce
  <2>5. CASE Left /\ GiveUp
    BY <2>5 DEF Left, GiveUp, exchange, SentOnce
  <2> QED
    BY <1>5, <2>1, <2>2, <2>3, <2>4, <2>5, Confirmation
<1>6. CASE FallAnswered
  BY <1>6 DEF FallAnswered, exchange, SentOnce
<1>7. CASE LoseReply \/ MakerAnswered \/ MakerRaises \/ WindowPoll \/ Cancel \/
      FallRaises \/ FallPoll \/ FallPollGivesUp \/ Crash \/ Recover \/ Tasks
  BY <1>7
  DEF LoseReply, MakerAnswered, MakerRaises, WindowPoll, Cancel, FallRaises,
      FallPoll, FallPollGivesUp, Crash, Recover, Tasks, FallReport, SyncExecutions, HealGhost,
      Expire, NoNews, worker,
      exchange, SentOnce
<1>8. CASE UNCHANGED vars
  BY <1>8 DEF vars, worker, exchange, SentOnce
<1> QED
  BY <1>1, <1>2, <1>3, <1>4, <1>5, <1>6, <1>7, <1>8 DEF Next, Worker, Exchange

(* A filled order stays filled, and is not answered before. *)
LEMMA AnswerTrueKept ==
  ASSUME TypeOK, AnswerTrue, RowOpen, [Next]_vars
  PROVE  AnswerTrue'
<1>1. CASE \E o \in Orders : Serve(o)
  BY <1>1, ConstantsAssumption DEF Serve, TypeOK, rows, AnswerTrue
<1>2. CASE \E o \in Orders : Trade(o)
  BY <1>2, ConstantsAssumption DEF Trade, TypeOK, worker, rows, AnswerTrue
<1>3. CASE \E o \in Orders : ServeCancel(o)
  BY <1>3 DEF ServeCancel, worker, rows, AnswerTrue
<1>4. CASE LoseReply
  BY <1>4 DEF LoseReply, exchange, rows, AnswerTrue
<1>5. CASE Post
  BY <1>5 DEF Post, rows, AnswerTrue
<1>6. CASE ConfirmPoll \/ Unconfirmed
  <2>1. CASE StillOpen
    BY <2>1 DEF StillOpen, NoNews, exchange, rows, AnswerTrue, RowOpen
  <2>2. CASE SawFill
    BY <2>2 DEF SawFill, Record, exchange, AnswerTrue, RowOpen
  <2>3. CASE Left /\ NextAttempt
    BY <2>3 DEF Left, NextAttempt, Move, exchange, AnswerTrue
  <2>4. CASE Left /\ ToFallback
    BY <2>4 DEF Left, ToFallback, Move, exchange, AnswerTrue
  <2>5. CASE Left /\ GiveUp
    BY <2>5 DEF Left, GiveUp, exchange, AnswerTrue
  <2> QED
    BY <1>6, <2>1, <2>2, <2>3, <2>4, <2>5, Confirmation
<1>7. CASE FallAnswered
  BY <1>7 DEF FallAnswered, FallRecord, exchange, AnswerTrue
<1>8. CASE FallPoll
  BY <1>8 DEF FallPoll, NoNews, exchange, AnswerTrue
<1>9. CASE Recover
  BY <1>9 DEF Recover, exchange, AnswerTrue
<1>10. CASE MakerAnswered \/ MakerRaises \/ WindowPoll \/ Cancel \/ FallRaises
      \/ FallPollGivesUp \/ Crash \/ Tasks
  BY <1>10
  DEF MakerAnswered, MakerRaises, WindowPoll, Cancel, FallRaises,
      FallPollGivesUp, Crash, Tasks, FallReport, SyncExecutions, HealGhost, Expire, NoNews, worker,
      exchange, rows, AnswerTrue
<1>11. CASE UNCHANGED vars
  BY <1>11 DEF vars, worker, exchange, rows, AnswerTrue
<1> QED
  BY <1>1, <1>2, <1>3, <1>4, <1>5, <1>6, <1>7, <1>8, <1>9, <1>10, <1>11
  DEF Next, Worker, Exchange

(* The root's row ends when the worker leaves its last maker attempt. *)
LEMMA RowOpenKept ==
  ASSUME TypeOK, Fresh, RowOpen, [Next]_vars
  PROVE  RowOpen'
<1>1. CASE Post
  BY <1>1 DEF Post, rows, RowOpen
<1>2. CASE MakerAnswered
  BY <1>2, ConstantsAssumption
  DEF MakerAnswered, Record, AnsweredId, TypeOK, Orders, Attempts, Fall,
      Pending, RowOpen
<1>3. CASE WindowPoll
  <2>1. /\ pc = "window" /\ UNCHANGED <<at, fallRow>>
        /\ \/ UNCHANGED <<pc, row, known>>
           \/ pc' = "done" /\ known' \in {known, at}
    BY <1>3 DEF WindowPoll, NoNews, Record, rows
  <2>2. at \in Attempts /\ at <= at
    BY <2>1, ConstantsAssumption DEF TypeOK, Orders, Attempts, Fall, RowOpen
  <2> QED
    BY <2>1, <2>2 DEF RowOpen
<1>4. CASE Cancel
  BY <1>4 DEF Cancel, rows, RowOpen
<1>5. CASE ConfirmPoll \/ Unconfirmed
  <2>1. CASE StillOpen
    BY <2>1 DEF StillOpen, NoNews, rows, RowOpen
  <2>2. CASE SawFill
    BY <2>2, ConstantsAssumption
    DEF SawFill, Record, TypeOK, Orders, Attempts, Fall, RowOpen
  <2>3. CASE Left /\ NextAttempt
    BY <2>3, ConstantsAssumption
    DEF Left, NextAttempt, Move, TypeOK, Orders, Attempts, Fall, rows, RowOpen
  <2>4. CASE Left /\ ToFallback
    BY <2>4, ConstantsAssumption DEF ToFallback, Move, Attempts, Fall, RowOpen
  <2>5. CASE Left /\ GiveUp
    BY <2>5 DEF GiveUp, RowOpen
  <2> QED
    BY <1>5, <2>1, <2>2, <2>3, <2>4, <2>5, Confirmation
<1>6. CASE FallAnswered
  BY <1>6 DEF FallAnswered, FallRecord, RowOpen
<1>7. CASE FallRaises
  BY <1>7 DEF FallRaises, FallRecord, RowOpen
<1>8. CASE FallPoll
  BY <1>8 DEF FallPoll, NoNews, FallRecord, rows, RowOpen
<1>9. CASE FallPollGivesUp
  BY <1>9 DEF FallPollGivesUp, FallRecord, RowOpen
<1>10. CASE Crash
  BY <1>10 DEF Crash, rows, RowOpen
<1>11. CASE Recover
  BY <1>11 DEF Recover, Record, FallRecord, Pending, rows, RowOpen
<1>12. CASE Tasks
  <2>1. done[Fall] > 0 \/ order[Fall] # "none" => at = Fall
    BY ConstantsAssumption DEF Fresh, Untouched, TypeOK, Orders, Fall
  <2> QED
    BY <1>12, <2>1
    DEF Tasks, FallReport, SyncExecutions, HealGhost, Expire, FallRecord, Pending, worker, RowOpen
<1>13. CASE (\E o \in Orders : Serve(o)) \/ (\E o \in Orders : Trade(o)) \/ (\E
      o \in Orders : ServeCancel(o)) \/ LoseReply \/ MakerRaises
  BY <1>13
  DEF Serve, Trade, ServeCancel, LoseReply, MakerRaises, worker, rows, RowOpen
<1>14. CASE UNCHANGED vars
  BY <1>14 DEF vars, worker, rows, RowOpen
<1> QED
  BY <1>1, <1>2, <1>3, <1>4, <1>5, <1>6, <1>7, <1>8, <1>9, <1>10, <1>11, <1>12,
     <1>13, <1>14
  DEF Next, Worker, Exchange

(* A crash in a later attempt takes the assurance away. *)
LEMMA DownFirstKept ==
  ASSUME TypeOK, DownFirst, [Next]_vars
  PROVE  DownFirst'
<1>1. CASE Post
  BY <1>1 DEF Post, DownFirst
<1>2. CASE MakerAnswered
  BY <1>2 DEF MakerAnswered, DownFirst
<1>3. CASE WindowPoll
  BY <1>3 DEF WindowPoll, NoNews, DownFirst
<1>4. CASE Cancel
  BY <1>4 DEF Cancel, DownFirst
<1>5. CASE ConfirmPoll \/ Unconfirmed
  <2>1. CASE StillOpen
    BY <2>1 DEF StillOpen, NoNews, DownFirst
  <2>2. CASE SawFill
    BY <2>2 DEF SawFill, DownFirst
  <2>3. CASE Left /\ NextAttempt
    BY <2>3 DEF NextAttempt, Move, DownFirst
  <2>4. CASE Left /\ ToFallback
    BY <2>4 DEF ToFallback, Move, DownFirst
  <2>5. CASE Left /\ GiveUp
    BY <2>5 DEF GiveUp, DownFirst
  <2> QED
    BY <1>5, <2>1, <2>2, <2>3, <2>4, <2>5, Confirmation
<1>6. CASE Crash
  BY <1>6 DEF Crash, DownFirst
<1>7. CASE Recover
  BY <1>7 DEF Recover, DownFirst
<1>8. CASE (\E o \in Orders : Serve(o)) \/ (\E o \in Orders : Trade(o)) \/ (\E
      o \in Orders : ServeCancel(o)) \/ LoseReply \/ MakerRaises \/
      FallAnswered \/ FallRaises \/ FallPoll \/ FallPollGivesUp \/ Tasks
  BY <1>8
  DEF Serve, Trade, ServeCancel, LoseReply, MakerRaises, FallAnswered,
      FallRaises, FallPoll, FallPollGivesUp, Tasks, FallReport, SyncExecutions, HealGhost,
      Expire, NoNews, worker, DownFirst
<1>9. CASE UNCHANGED vars
  BY <1>9 DEF vars, worker, DownFirst
<1> QED
  BY <1>1, <1>2, <1>3, <1>4, <1>5, <1>6, <1>7, <1>8, <1>9
  DEF Next, Worker, Exchange

(* Neither a poll of the window nor a recovery gives assurance. *)
LEMMA AssuranceFalls == (WindowPoll \/ Recover) /\ assured' => assured
<1>1. ASSUME WindowPoll, assured' PROVE assured
  <2>1. UNCHANGED assured \/ \E status \in EndTold : assured' = (assured /\ Seen(status))
    BY <1>1, Zenon DEF WindowPoll
  <2> QED
    BY <1>1, <2>1
<1>2. ASSUME Recover, assured' PROVE assured
  <2>1. \/ UNCHANGED <<rows, assured>> \/ UNCHANGED assured
        \/ assured' = (assured /\ Seen("rejected"))
    BY <1>2, Zenon DEF Recover
  <2> QED
    BY <1>2, <2>1
<1> QED
  BY <1>1, <1>2

(* An order is left behind when it is over, or was not sent. *)
LEMMA OneAtATimeKept ==
  ASSUME TypeOK, Fresh, SentOnce, OneAtATime, RowOpen, [Next]_vars
  PROVE  OneAtATime'
<1>1. CASE \E o \in Orders : Serve(o)
  BY <1>1 DEF Serve, OneAtATime, Live
<1>2. CASE \E o \in Orders : Trade(o)
  BY <1>2 DEF Trade, worker, OneAtATime, Live
<1>3. CASE \E o \in Orders : ServeCancel(o)
  BY <1>3 DEF ServeCancel, worker, OneAtATime, Live
<1>4. CASE Post
  BY <1>4 DEF Post, OneAtATime, Live
<1>5. CASE ConfirmPoll \/ Unconfirmed
  <2>1. CASE StillOpen
    BY <2>1 DEF StillOpen, exchange, OneAtATime, Live
  <2>2. CASE SawFill
    BY <2>2 DEF SawFill, exchange, OneAtATime, Live
  <2>3. CASE Left /\ NextAttempt
    BY <2>3, ConstantsAssumption
    DEF Left, Over, Orders, Attempts, Fall, Final, exchange, Fresh, Untouched,
        SentOnce, OneAtATime, Live, RowOpen
  <2>4. CASE Left /\ ToFallback
    BY <2>4, ConstantsAssumption
    DEF Left, Over, Orders, Attempts, Fall, Final, exchange, Fresh, Untouched,
        SentOnce, OneAtATime, Live, RowOpen
  <2>5. CASE Left /\ GiveUp
    BY <2>5, ConstantsAssumption
    DEF Left, Over, Orders, Attempts, Fall, Final, exchange, Fresh, Untouched,
        SentOnce, OneAtATime, Live, RowOpen
  <2> QED
    BY <1>5, <2>1, <2>2, <2>3, <2>4, <2>5, Confirmation
<1>6. CASE Crash
  BY <1>6 DEF Crash, exchange, OneAtATime, Live
<1>7. CASE LoseReply \/ MakerAnswered \/ MakerRaises \/ Cancel \/
      FallAnswered \/ FallRaises \/ FallPoll \/ FallPollGivesUp \/ Tasks
  BY <1>7
  DEF LoseReply, MakerAnswered, MakerRaises, Cancel, FallAnswered,
      FallRaises, FallPoll, FallPollGivesUp, Tasks, FallReport, SyncExecutions, HealGhost,
      Expire, worker, exchange, OneAtATime, Live
<1>9. CASE WindowPoll \/ Recover
  <2>1. (assured' => assured) /\ UNCHANGED <<at, exchange>>
    BY <1>9, AssuranceFalls DEF WindowPoll, Recover
  <2> QED
    BY <2>1 DEF exchange, OneAtATime, Live
<1>8. CASE UNCHANGED vars
  BY <1>8 DEF vars, worker, exchange, OneAtATime, Live
<1> QED
  BY <1>1, <1>2, <1>3, <1>4, <1>5, <1>6, <1>7, <1>8, <1>9 DEF Next, Worker, Exchange

(* The row ends when the order that is worked is over: the ones before it *)
(* are, by OneAtATime.                                                    *)
LEMMA EndedIsOverKept ==
  ASSUME IInv, [Next]_vars
  PROVE  EndedIsOver'
<1>1. CASE \E o \in Orders : Serve(o)
  BY <1>1 DEF Serve, rows, IInv, EndedIsOver, Live
<1>2. CASE \E o \in Orders : Trade(o)
  BY <1>2 DEF Trade, rows, IInv, EndedIsOver, Live
<1>3. CASE \E o \in Orders : ServeCancel(o)
  BY <1>3 DEF ServeCancel, rows, IInv, EndedIsOver, Live
<1>4. CASE Post
  BY <1>4, ConstantsAssumption
  DEF Post, Attempts, Fall, Pending, Final, rows, IInv, RowOpen, EndedIsOver,
      Live
<1>5. CASE MakerAnswered
  BY <1>5, ConstantsAssumption
  DEF MakerAnswered, Record, Orders, Attempts, Fall, Final, exchange, IInv,
      SentOnce, AnswerTrue, OneAtATime, EndedIsOver, Live
<1>6. CASE WindowPoll
  <2>1. CASE UNCHANGED <<row, assured>>
    BY <1>6, <2>1 DEF WindowPoll, exchange, IInv, EndedIsOver, Live
  <2>2. ASSUME NEW status \in EndTold, assured' = (assured /\ Seen(status))
        PROVE  EndedIsOver'
    <3>1. at \in Attempts /\ Attempts \subseteq Orders
      BY <1>6, ConstantsAssumption
      DEF WindowPoll, IInv, TypeOK, RowOpen, Orders, Attempts, Fall
    <3>2. assured' => assured /\ (status = order[at] \/ ~sent)
      BY <2>2 DEF Seen
    <3>3. assured' => ~Live(at)
      BY <3>1, <3>2 DEF EndTold, Final, IInv, Fresh, Untouched, SentOnce, Live
    <3>4. assured => \A o \in Attempts \ {at} : ~Live(o)
      BY <3>1 DEF IInv, OneAtATime
    <3> QED
      BY <1>6, <3>2, <3>3, <3>4 DEF WindowPoll, exchange, EndedIsOver, Live
  <2> QED
    BY <1>6, <2>1, <2>2 DEF WindowPoll, NoNews, rows
<1>7. CASE ConfirmPoll \/ Unconfirmed
  <2>1. CASE StillOpen
    BY <2>1 DEF StillOpen, NoNews, exchange, rows, IInv, EndedIsOver, Live
  <2>2. CASE SawFill
    BY <2>2, ConstantsAssumption
    DEF SawFill, Over, Orders, Attempts, Fall, Final, exchange, IInv, SentOnce,
        OneAtATime, EndedIsOver, Live
  <2>3. CASE Left /\ NextAttempt
    BY <2>3, ConstantsAssumption
    DEF Left, Over, Orders, Attempts, Fall, Final, exchange, IInv, Fresh,
        Untouched, SentOnce, OneAtATime, EndedIsOver, Live
  <2>4. CASE Left /\ ToFallback
    BY <2>4, ConstantsAssumption
    DEF Left, Over, Orders, Attempts, Fall, Final, exchange, IInv, Fresh,
        Untouched, SentOnce, OneAtATime, EndedIsOver, Live
  <2>5. CASE Left /\ GiveUp
    BY <2>5, ConstantsAssumption
    DEF Left, Over, Orders, Attempts, Fall, Final, exchange, IInv, Fresh,
        Untouched, SentOnce, OneAtATime, EndedIsOver, Live
  <2> QED
    BY <1>7, <2>1, <2>2, <2>3, <2>4, <2>5, Confirmation DEF IInv
<1>8. CASE Crash
  BY <1>8 DEF Crash, exchange, rows, IInv, EndedIsOver, Live
<1>9. CASE Recover
  <2>a. pc = "down" /\ UNCHANGED exchange /\ (assured' => assured)
    BY <1>9, AssuranceFalls DEF Recover
  <2>b. assured => at = 0 /\ 0 \in Attempts
    BY <2>a, ConstantsAssumption DEF IInv, DownFirst, Attempts
  <2>1. CASE UNCHANGED <<row, assured>>
    BY <2>1, <2>a DEF exchange, IInv, EndedIsOver, Live
  <2>2. CASE known # NoOrder /\ Record(StatusOf(known), known) /\ UNCHANGED assured
    <3>1. assured => known = at
      BY <2>2, <2>b, ConstantsAssumption DEF IInv, RowOpen, Attempts
    <3>2. StatusOf(at) \in Final \cup {"failed"} => order[at] \in Final
      BY DEF StatusOf, Over, Final
    <3>3. assured /\ order[at] \in Final => \A o \in Attempts : ~Live(o)
      BY <2>b, ConstantsAssumption
      DEF Orders, Attempts, Fall, Final, IInv, SentOnce, OneAtATime, Live
    <3> QED
      BY <2>2, <2>a, <3>1, <3>2, <3>3 DEF Record, exchange, EndedIsOver, Live
  <2>3. CASE Record("rejected", NoOrder) /\ assured' = (assured /\ Seen("rejected"))
    <3>1. assured' => assured /\ (order[at] = "rejected" \/ ~sent)
      BY <2>3 DEF Seen
    <3>2. assured' => \A o \in Attempts : ~Live(o)
      BY <2>b, <3>1, ConstantsAssumption
      DEF Orders, Attempts, Fall, IInv, Fresh, Untouched, SentOnce, OneAtATime, Live
    <3> QED
      BY <2>a, <3>2 DEF exchange, EndedIsOver, Live
  <2>4. \/ UNCHANGED <<row, assured>>
        \/ known # NoOrder /\ Record(StatusOf(known), known) /\ UNCHANGED assured
        \/ Record("rejected", NoOrder) /\ assured' = (assured /\ Seen("rejected"))
    BY <1>9 DEF Recover, FallRecord, rows
  <2> QED
    BY <2>1, <2>2, <2>3, <2>4
<1>10. CASE Tasks
  BY <1>10
  DEF Tasks, FallReport, SyncExecutions, HealGhost, Expire, FallRecord, Final, exchange, IInv,
      EndedIsOver, Live
<1>11. CASE LoseReply \/ MakerRaises \/ Cancel \/ FallAnswered \/ FallRaises \/
      FallPoll \/ FallPollGivesUp
  BY <1>11
  DEF LoseReply, MakerRaises, Cancel, FallAnswered, FallRaises, FallPoll,
      FallPollGivesUp, Final, exchange, rows, IInv, RowOpen, EndedIsOver, Live
<1>12. CASE UNCHANGED vars
  BY <1>12 DEF vars, exchange, rows, IInv, EndedIsOver, Live
<1> QED
  BY <1>1, <1>2, <1>3, <1>4, <1>5, <1>6, <1>7, <1>8, <1>9, <1>10, <1>11, <1>12
  DEF Next, Worker, Exchange

(* A row is set to filled by an answer, a poll or a recovery that saw it. *)
LEMMA FilledKept ==
  ASSUME TypeOK, AnswerTrue, RowOpen, FilledIsFilled, [Next]_vars
  PROVE  FilledIsFilled'
<1>1. CASE \E o \in Orders : Serve(o)
  BY <1>1, ConstantsAssumption DEF Serve, TypeOK, rows, FilledIsFilled
<1>2. CASE \E o \in Orders : Trade(o)
  BY <1>2, ConstantsAssumption DEF Trade, TypeOK, rows, FilledIsFilled
<1>3. CASE \E o \in Orders : ServeCancel(o)
  BY <1>3 DEF ServeCancel, rows, FilledIsFilled
<1>4. CASE MakerAnswered
  BY <1>4, ConstantsAssumption
  DEF MakerAnswered, Record, TypeOK, Orders, Attempts, Fall, exchange,
      AnswerTrue, FilledIsFilled
<1>5. CASE WindowPoll
  <2>1. /\ pc = "window" /\ UNCHANGED <<exchange, fallRow>>
        /\ UNCHANGED row \/ row' \in EndTold
    BY <1>5 DEF WindowPoll, NoNews, Record, rows
  <2>2. at \in Attempts
    BY <2>1, ConstantsAssumption DEF TypeOK, RowOpen, Orders, Attempts, Fall
  <2> QED
    BY <2>1, <2>2 DEF EndTold, exchange, FilledIsFilled
<1>6. CASE ConfirmPoll \/ Unconfirmed
  <2>1. CASE StillOpen
    BY <2>1 DEF StillOpen, NoNews, exchange, rows, FilledIsFilled
  <2>2. CASE SawFill
    BY <2>2, ConstantsAssumption
    DEF SawFill, Record, TypeOK, Orders, Attempts, Fall, exchange, RowOpen,
        FilledIsFilled
  <2>3. CASE Left /\ NextAttempt
    BY <2>3 DEF Left, NextAttempt, exchange, rows, FilledIsFilled
  <2>4. CASE Left /\ ToFallback
    BY <2>4 DEF Left, ToFallback, RowOpen, FilledIsFilled
  <2>5. CASE Left /\ GiveUp
    BY <2>5 DEF Left, GiveUp, RowOpen, FilledIsFilled
  <2> QED
    BY <1>6, <2>1, <2>2, <2>3, <2>4, <2>5, Confirmation
<1>f. Fall \in Orders /\ (order[Fall] = "filled" => done[Fall] > 0)
  BY ConstantsAssumption DEF AnswerTrue, Orders, Fall
<1>7. CASE FallAnswered
  BY <1>7, <1>f
  DEF FallAnswered, FallRecord, exchange, AnswerTrue, FilledIsFilled
<1>8. CASE FallPoll
  <2>1. /\ pc = "poll" /\ UNCHANGED <<exchange, row>>
        /\ UNCHANGED fallRow \/ fallRow' \in Working \cup {order[at]}
    BY <1>8 DEF FallPoll, NoNews, FallRecord, rows
  <2> QED
    BY <1>f, <2>1 DEF Working, exchange, RowOpen, FilledIsFilled
<1>9. CASE Recover
  <2>1. /\ UNCHANGED exchange
        /\ \/ UNCHANGED row
           \/ row' = "rejected"
           \/ known # NoOrder /\ row' = StatusOf(known)
        /\ UNCHANGED fallRow \/ fallRow' \in {"rejected", StatusOf(Fall)}
    BY <1>9 DEF Recover, Record, FallRecord, rows
  <2>2. \A o : StatusOf(o) = "filled" => order[o] = "filled"
    BY DEF StatusOf
  <2> QED
    BY <1>f, <2>1, <2>2 DEF exchange, RowOpen, FilledIsFilled
<1>10. CASE Tasks
  BY <1>10, <1>f
  DEF Tasks, FallReport, SyncExecutions, HealGhost, Expire, FallRecord, Working, worker, exchange,
      FilledIsFilled
<1>11. CASE LoseReply \/ Post \/ MakerRaises \/ Cancel \/ FallRaises \/
      FallPollGivesUp \/ Crash
  BY <1>11
  DEF LoseReply, Post, MakerRaises, Cancel, FallRaises, FallPollGivesUp, Crash,
      FallRecord, exchange, rows, FilledIsFilled
<1>12. CASE UNCHANGED vars
  BY <1>12 DEF vars, exchange, rows, FilledIsFilled
<1> QED
  BY <1>1, <1>2, <1>3, <1>4, <1>5, <1>6, <1>7, <1>8, <1>9, <1>10, <1>11, <1>12
  DEF Next, Worker, Exchange

-----------------------------------------------------------------------------
(* The conjunction is inductive. *)
LEMMA IInvHolds == Spec => []IInv
<1>1. Init => IInv
  <2> SUFFICES ASSUME Init PROVE IInv
    OBVIOUS
  <2>1. TypeOK
    <3>1. 0 \in Orders
      BY ConstantsAssumption DEF Orders, Fall
    <3>2. /\ order \in [Orders -> {"none", "open"} \cup Final]
          /\ done \in [Orders -> 0 .. Size]
      BY ConstantsAssumption DEF Init
    <3> QED
      BY <3>1, <3>2 DEF Init, TypeOK, Pending
  <2>2. Fresh /\ SentOnce /\ AnswerTrue /\ RowOpen /\ DownFirst
    BY ConstantsAssumption
    DEF Init, Fresh, Untouched, SentOnce, AnswerTrue, RowOpen, DownFirst, Fall,
        Pending
  <2>3. OneAtATime /\ EndedIsOver /\ FilledIsFilled
    BY ConstantsAssumption
    DEF Init, OneAtATime, EndedIsOver, FilledIsFilled, Live, Final
  <2> QED
    BY <2>1, <2>2, <2>3 DEF IInv
<1>2. IInv /\ [Next]_vars => IInv'
  BY TypeKept, FreshKept, SentOnceKept, AnswerTrueKept, RowOpenKept,
     DownFirstKept, OneAtATimeKept, EndedIsOverKept, FilledKept
  DEF IInv
<1> QED
  BY <1>1, <1>2, PTL DEF Spec

(* Type correctness of the maker entry for any number of reposts, tries,   *)
(* polls and lots (execution_worker.py, _execute_maker_entry).             *)
THEOREM TypeCorrect == Spec => []TypeOK
<1>1. IInv => TypeOK
  BY DEF IInv
<1> QED
  BY <1>1, IInvHolds, PTL

(* For any number of reposts: as long as every order given up was seen to  *)
(* be over, none of them executes again or was filled, whatever requests,  *)
(* cancels and fills cross.                                                *)
THEOREM OneOrderAtATime == Spec => []OneAtATime
<1>1. IInv => OneAtATime
  BY DEF IInv
<1> QED
  BY <1>1, IInvHolds, PTL

(* For any number of reposts: a row of order_intents that says how the     *)
(* entry ended is not written, by worker or recovery, while a maker order  *)
(* of the entry can still execute, as long as every order given up was     *)
(* seen to be over: no answer was lost that a poll made a rejection of.    *)
THEOREM EndedRowsAreOver == Spec => []EndedIsOver
<1>1. IInv => EndedIsOver
  BY DEF IInv
<1> QED
  BY <1>1, IInvHolds, PTL

(* For any sizes and reposts: a root's row that reads filled has a filled  *)
(* attempt behind it, and a fallback's row at least a trade, also after    *)
(* lost answers, late reports, the sync loop and a recovery.               *)
THEOREM FilledRowsAreFilled == Spec => []FilledIsFilled
<1>1. IInv => FilledIsFilled
  BY DEF IInv
<1> QED
  BY <1>1, IInvHolds, PTL

-----------------------------------------------------------------------------
(* Why an entry ends: a measure that every step of the worker lowers.      *)

(* The sends an order gets, even when no retry is configured. *)
Sends == IF MaxTries = 0 THEN 1 ELSE MaxTries

Stage ==
  CASE pc \in {"post", "wait"} -> 5
    [] pc = "window" -> 4
    [] pc = "confirm" -> 3
    [] pc = "poll" -> 2
    [] pc = "down" -> 1
    [] OTHER -> 0

(* What is left of the stage: sends and their answers, or polls. *)
Rest ==
  CASE pc = "post" -> 2 * (Sends - tries)
    [] pc = "wait" -> 2 * (Sends - tries) + 1
    [] pc = "window" -> WindowPolls - tries
    [] pc = "confirm" -> 2 * TerminalPolls - tries
    [] pc = "poll" -> MaxPolls - tries
    [] OTHER -> 0

(* A later order, or a later stage of this one, or less left of the stage. *)
Nearer ==
  \/ at < at'
  \/ at' = at /\ Stage' < Stage
  \/ at' = at /\ Stage' = Stage /\ Rest' < Rest

(* The measure is one of natural numbers: <<Fall - at, Stage, Rest>>. *)
TriesInBounds ==
  /\ pc = "post" => tries < Sends
  /\ pc = "wait" => tries <= Sends
  /\ pc = "window" => tries <= WindowPolls
  /\ pc = "confirm" => tries <= 2 * TerminalPolls
  /\ pc = "poll" => tries <= MaxPolls

Bounded == at <= Fall /\ Stage \in Nat /\ Rest \in Nat

(* Worker, crash and recovery lower it; nothing raises it. *)
Approach ==
  /\ Worker \/ Crash \/ Recover => Nearer
  /\ Nearer \/ UNCHANGED <<at, Stage, Rest>>

LEMMA Numbers ==
  /\ MaxReposts \in Nat /\ WindowPolls \in Nat /\ TerminalPolls \in Nat
  /\ MaxTries \in Nat /\ MaxPolls \in Nat /\ Sends \in Nat /\ 1 <= Sends
  /\ Fall \in Nat /\ Orders \subseteq Nat /\ MaxReposts < Fall
  BY ConstantsAssumption DEF Sends, Fall, Orders

LEMMA StepsApproach ==
  ASSUME IInv, TriesInBounds, Worker \/ Crash \/ Recover
  PROVE  TriesInBounds' /\ Nearer
<1>a. /\ tries \in Nat /\ at \in Nat /\ at <= Fall
      /\ pc \in {"post", "wait", "window", "confirm", "poll", "done", "down"}
  BY Numbers DEF IInv, TypeOK, Orders
<1>c. ASSUME at' = at, pc \notin {"done", "down"}, pc' = "done"
      PROVE  TriesInBounds' /\ Nearer
  BY <1>a, <1>c DEF TriesInBounds, Nearer, Stage
<1>d. ASSUME pc \in {"window", "confirm", "poll"}, pc' = pc, at' = at, tries' = tries + 1,
             \/ pc = "window" /\ tries < WindowPolls
             \/ pc = "confirm" /\ tries < 2 * TerminalPolls
             \/ pc = "poll" /\ tries < MaxPolls
      PROVE  TriesInBounds' /\ Nearer
  BY <1>a, <1>d, Numbers DEF TriesInBounds, Nearer, Stage, Rest
<1>e. ASSUME at < at', pc' = "post", tries' = 0
      PROVE  TriesInBounds' /\ Nearer
  BY <1>e, Numbers DEF TriesInBounds, Nearer
<1>1. CASE Post
  <2>1. pc = "post" /\ pc' = "wait" /\ tries' = tries + 1 /\ at' = at
    BY <1>1, Zenon DEF Post
  <2> QED
    BY <1>a, <2>1, Numbers DEF TriesInBounds, Nearer, Stage, Rest
<1>2. CASE MakerAnswered
  <2>1. pc = "wait" /\ tries' = 0 /\ at' = at /\ pc' \in {"window", "done"}
    BY <1>2, Zenon DEF MakerAnswered
  <2> QED
    BY <1>c, <2>1, Numbers DEF TriesInBounds, Nearer, Stage
<1>3. CASE MakerRaises \/ FallRaises \/ FallPollGivesUp
  <2>1. pc \notin {"done", "down"} /\ pc' = "done" /\ at' = at
    BY <1>3 DEF MakerRaises, FallRaises, FallPollGivesUp
  <2> QED
    BY <1>c, <2>1
<1>4. CASE WindowPoll
  <2>1. /\ pc = "window" /\ tries < WindowPolls /\ at' = at
        /\ (tries' = tries + 1 /\ pc' = pc) \/ pc' = "done"
    BY <1>4, Zenon DEF WindowPoll, NoNews
  <2> QED
    BY <1>c, <1>d, <2>1
<1>5. CASE Cancel
  <2>1. pc = "window" /\ pc' = "confirm" /\ tries' = 0 /\ at' = at
    BY <1>5 DEF Cancel
  <2> QED
    BY <2>1, Numbers DEF TriesInBounds, Nearer, Stage
<1>6. CASE ConfirmPoll \/ Unconfirmed
  <2>1. pc = "confirm" /\ at # Fall
    BY <1>6 DEF ConfirmPoll, Unconfirmed, IInv, RowOpen
  <2>2. \/ tries < 2 * TerminalPolls /\ NoNews /\ at' = at
        \/ pc' = "done" /\ at' = at
        \/ Leave
    BY <1>6, Zenon DEF ConfirmPoll, Unconfirmed
  <2>3. CASE tries < 2 * TerminalPolls /\ NoNews /\ at' = at
    BY <1>d, <2>1, <2>3 DEF NoNews
  <2>4. CASE pc' = "done" /\ at' = at
    BY <1>c, <2>1, <2>4
  <2>5. CASE Leave
    <3>1. tries' = 0 /\ (NextAttempt \/ ToFallback \/ GiveUp)
      BY <2>5 DEF Leave
    <3>2. CASE NextAttempt
      BY <1>a, <1>e, <3>1, <3>2 DEF NextAttempt, Move
    <3>3. CASE ToFallback
      <4>1. at' = Fall /\ pc' = "post"
        BY <3>3, Zenon DEF ToFallback, Move
      <4>2. at < Fall
        BY <1>a, <2>1, Numbers
      <4> QED
        BY <1>e, <3>1, <4>1, <4>2
    <3>4. CASE GiveUp
      BY <1>c, <2>1, <3>4 DEF GiveUp
    <3> QED
      BY <3>1, <3>2, <3>3, <3>4
  <2> QED
    BY <2>2, <2>3, <2>4, <2>5
<1>7. CASE FallAnswered
  <2>1. pc = "wait" /\ at' = at
    BY <1>7 DEF FallAnswered
  <2>2. \/ pc' = "done"
        \/ pc' = "poll" /\ tries' = 0
        \/ pc' = "post" /\ tries' = tries /\ tries < MaxTries
    BY <1>7, Zenon DEF FallAnswered
  <2>3. CASE pc' = "done"
    BY <1>c, <2>1, <2>3
  <2>4. CASE pc' = "poll" /\ tries' = 0
    BY <2>1, <2>4, Numbers DEF TriesInBounds, Nearer, Stage
  <2>5. CASE pc' = "post" /\ tries' = tries /\ tries < MaxTries
    <3>1. tries < Sends
      BY <1>a, <2>5, Numbers DEF Sends
    <3> QED
      BY <1>a, <2>1, <2>5, <3>1, Numbers DEF TriesInBounds, Nearer, Stage, Rest
  <2> QED
    BY <2>2, <2>3, <2>4, <2>5
<1>8. CASE FallPoll
  <2>1. /\ pc = "poll" /\ tries < MaxPolls /\ at' = at
        /\ (tries' = tries + 1 /\ pc' = pc) \/ pc' = "done"
    BY <1>8, Zenon DEF FallPoll, NoNews
  <2> QED
    BY <1>c, <1>d, <2>1
<1>9. CASE Crash
  <2>1. pc \notin {"done", "down"} /\ pc' = "down" /\ at' = at
    BY <1>9 DEF Crash
  <2> QED
    BY <1>a, <2>1 DEF TriesInBounds, Nearer, Stage
<1>10. CASE Recover
  <2>1. pc = "down" /\ pc' = "done" /\ at' = at
    BY <1>10 DEF Recover
  <2> QED
    BY <2>1 DEF TriesInBounds, Nearer, Stage
<1> QED
  BY <1>1, <1>2, <1>3, <1>4, <1>5, <1>6, <1>7, <1>8, <1>9, <1>10 DEF Worker

LEMMA EveryStepApproaches ==
  ASSUME IInv, TriesInBounds, [Next]_vars
  PROVE  TriesInBounds' /\ [Approach]_vars
<1>1. CASE Worker \/ Crash \/ Recover
  BY <1>1, StepsApproach DEF Approach
<1>2. CASE ~(Worker \/ Crash \/ Recover)
  <2>1. UNCHANGED <<pc, at, tries>>
    <3>1. Exchange \/ LoseReply \/ Tasks \/ UNCHANGED vars
      BY <1>2 DEF Next
    <3> QED
      BY <3>1 DEF Exchange, LoseReply, Tasks, FallReport, SyncExecutions, HealGhost, Expire, Serve, Trade, ServeCancel, worker, vars
  <2>2. TriesInBounds' /\ UNCHANGED <<at, Stage, Rest>>
    BY <2>1 DEF TriesInBounds, Stage, Rest
  <2> QED
    BY <1>2, <2>2 DEF Approach
<1> QED
  BY <1>1, <1>2

(* An entry takes a bounded number of steps, for any number of reposts,    *)
(* polls, tries and lots: each step of the worker, the crash and the       *)
(* recovery comes nearer to the end in a measure of natural numbers, and   *)
(* nothing the exchange or the network does leads away from it.            *)
THEOREM EntryIsBounded == Spec => []Bounded /\ [][Approach]_vars
<1>1. Init => TriesInBounds
  BY Numbers DEF Init, TriesInBounds
<1>2. IInv /\ TriesInBounds /\ [Next]_vars => TriesInBounds' /\ [Approach]_vars
  BY EveryStepApproaches
<1>3. IInv /\ TriesInBounds => Bounded
  <2> SUFFICES ASSUME IInv, TriesInBounds PROVE Bounded
    OBVIOUS
  <2>1. tries \in Nat /\ at \in Nat /\ at <= Fall
    BY Numbers DEF IInv, TypeOK, Orders
  <2>2. Rest \in Nat
    BY <2>1, Numbers DEF TriesInBounds, Rest
  <2>3. Stage \in Nat
    BY DEF Stage
  <2> QED
    BY <2>1, <2>2, <2>3 DEF Bounded
<1> QED
  BY <1>1, <1>2, <1>3, IInvHolds, PTL DEF Spec
=============================================================================
