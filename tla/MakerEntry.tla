------------------------------ MODULE MakerEntry ------------------------------
(***************************************************************************)
(* One entry that is worked as a post-only limit order                     *)
(* (execution/execution_worker.py, _execute_maker_entry): up to            *)
(* MaxReposts + 1 attempts, each posted under a client order id of its     *)
(* own, watched for a window, canceled, and asked for its end; then the    *)
(* fallback at market with its retries and polls (_execute_with_retry).    *)
(* All attempts share the root's row of order_intents, the fallback has a  *)
(* row of its own.  What reports, polls and the sync loop write under the  *)
(* client order id of an attempt is a third kind of row, which the entry   *)
(* does not read and this module leaves out.                               *)
(*                                                                         *)
(* Around the worker: requests and cancels that arrive late, answers that  *)
(* are lost (the guard of execution/guards.py makes them rejections, and   *)
(* may refuse any call), fills at any moment, reports, trades and heals of *)
(* the fallback, a crash with the recovery at start-up, and the loop that  *)
(* expires old rows (runtime/app.py).                                      *)
(*                                                                         *)
(* An attempt whose answer gave no order id is asked for by its client     *)
(* order id, and there the client makes a rejection of no answer           *)
(* (execution/adapters.py).  No answer carries a filled size, so that      *)
(* _partial_fill_accepted accepts nothing: a part is never enough.         *)
(*                                                                         *)
(* A post-only refusal reaches the worker as an answer, because the guard  *)
(* and the manager catch what the exchange raises; the branch for a        *)
(* post-only exception is never taken.                                     *)
(***************************************************************************)
EXTENDS Integers

CONSTANTS
  MaxReposts,    (* entry_maker_max_reposts                                *)
  Fallbacks,     (* settings of entry_maker_fallback_to_market             *)
  WindowPolls,   (* polls that fit in entry_maker_fill_window_ms           *)
  TerminalPolls, (* max(2, status_poll_attempts)                           *)
  MaxTries,      (* sends of the fallback, 1 + max_retries                 *)
  MaxPolls,      (* status_poll_attempts                                   *)
  Size           (* size of the entry, in lots                             *)

ASSUME ConstantsAssumption ==
  /\ {MaxReposts, WindowPolls, TerminalPolls, MaxTries, MaxPolls} \subseteq Nat
  /\ Size \in Nat \ {0}
  /\ Fallbacks \subseteq BOOLEAN

(* The client order ids of the entry: root:m0, root:m1, ... and root:f.    *)
Attempts == 0 .. MaxReposts
Fall == MaxReposts + 1
Orders == 0 .. Fall

Pending == {"created", "submitted", "pending"}
Working == {"pending", "open", "partially_filled"}
Final == {"filled", "canceled", "rejected"}

VARIABLES
  pc,       (* where the worker stands                                     *)
  at,       (* the order it works                                          *)
  tries,    (* polls, or sends of the fallback, so far                     *)
  answer,   (* what the last post returned                                 *)
  sent,     (* the request of the current order has left                   *)
  wire,     (* order requests on their way to the exchange                 *)
  cancels,  (* cancel requests on their way                                *)
  order,    (* each order at the exchange                                  *)
  done,     (* lots each order executed                                    *)
  row,      (* order_intents.status of the root                            *)
  known,    (* the order whose id the root's row holds                     *)
  fallRow,  (* order_intents.status of the fallback                        *)
  assured   (* ghost: every order given up was seen to be over             *)

worker == <<pc, at, tries, answer, sent>>
exchange == <<wire, cancels, order, done>>
rows == <<row, known, fallRow>>
vars == <<worker, exchange, rows, assured>>

NoOrder == Fall + 1

TypeOK ==
  /\ pc \in {"post", "wait", "window", "confirm", "poll", "done", "down"}
  /\ at \in Orders
  /\ tries \in Nat
  /\ answer \in {"none", "open", "filled", "rejected"}
  /\ sent \in BOOLEAN
  /\ wire \subseteq Orders
  /\ cancels \subseteq Orders
  /\ order \in [Orders -> {"none", "open"} \cup Final]
  /\ done \in [Orders -> 0 .. Size]
  /\ row \in {"failed", "expired"} \cup Pending \cup Final
  /\ known \in Orders \cup {NoOrder}
  /\ fallRow \in {"none", "failed", "expired"} \cup Pending \cup Working \cup Final
  /\ assured \in BOOLEAN

(* The worker has recorded the intent and calls _execute_with_retry. *)
Init ==
  /\ pc = "post"
  /\ at = 0
  /\ tries = 0
  /\ answer = "none"
  /\ sent = FALSE
  /\ wire = {}
  /\ cancels = {}
  /\ order = [o \in Orders |-> "none"]
  /\ done = [o \in Orders |-> 0]
  /\ row = "created"
  /\ known = NoOrder
  /\ fallRow = "none"
  /\ assured = TRUE

-----------------------------------------------------------------------------
(* The exchange (external). *)

(* A client order id that was used is refused. *)
Serve(o) ==
  /\ o \in wire
  /\ wire' = wire \ {o}
  /\ \E outcome \in IF order[o] = "none" THEN {"open", "filled", "rejected"}
                                         ELSE {"refused"} :
       /\ order' = IF outcome = "refused" THEN order ELSE [order EXCEPT ![o] = outcome]
       /\ done' = IF outcome = "filled" THEN [done EXCEPT ![o] = Size] ELSE done
       /\ answer' = IF pc # "wait" \/ at # o \/ answer # "none" THEN answer
                    ELSE IF outcome = "refused" THEN "rejected"
                    ELSE outcome
  /\ UNCHANGED <<pc, at, tries, sent, cancels, rows, assured>>

(* One more lot is executed. *)
Trade(o) ==
  /\ order[o] = "open"
  /\ done[o] < Size
  /\ done' = [done EXCEPT ![o] = @ + 1]
  /\ order' = IF done[o] + 1 = Size THEN [order EXCEPT ![o] = "filled"] ELSE order
  /\ UNCHANGED <<worker, wire, cancels, rows, assured>>

ServeCancel(o) ==
  /\ o \in cancels
  /\ cancels' = cancels \ {o}
  /\ order' = IF order[o] = "open" THEN [order EXCEPT ![o] = "canceled"] ELSE order
  /\ UNCHANGED <<worker, wire, done, rows, assured>>

(* A timeout or a lost answer, which the guard turns into a rejection. *)
LoseReply ==
  /\ pc = "wait"
  /\ answer \in {"none", "open", "filled"}
  /\ answer' = "rejected"
  /\ UNCHANGED <<pc, at, tries, sent, exchange, rows, assured>>

-----------------------------------------------------------------------------
(* The worker. *)

(* The guard may refuse the call, or the request leaves. *)
Post ==
  /\ pc = "post"
  /\ pc' = "wait"
  /\ tries' = tries + 1
  /\ \/ wire' = wire \cup {at} /\ answer' = "none" /\ sent' = TRUE
     \/ answer' = "rejected" /\ UNCHANGED <<wire, sent>>
  /\ UNCHANGED <<at, cancels, order, done, rows, assured>>

(* write_order_intent keeps an order id where it is given none. *)
Record(status, id) ==
  /\ row' = status
  /\ known' = IF id = NoOrder THEN known ELSE id
  /\ UNCHANGED fallRow

(* Only an order that was taken has an id. *)
AnsweredId == IF answer = "rejected" THEN NoOrder ELSE at

(* A rejection is watched like an order: its request may have arrived. *)
MakerAnswered ==
  /\ pc = "wait"
  /\ at # Fall
  /\ answer # "none"
  /\ tries' = 0
  /\ \/ /\ answer = "filled"
        /\ Record("filled", AnsweredId)
        /\ pc' = "done"
     \/ /\ answer # "filled"
        /\ Record("submitted", AnsweredId)
        /\ pc' = "window"
  /\ UNCHANGED <<at, answer, sent, exchange, assured>>

(* The order store raises after the answer: the entry is given up. *)
MakerRaises ==
  /\ pc = "wait"
  /\ at # Fall
  /\ answer # "none"
  /\ pc' = "done"
  /\ UNCHANGED <<at, tries, answer, sent, exchange, rows, assured>>

(* Mutant: an order that still stands counts as resolved. *)
Standing(o) == order[o] # "none"

Over(o) == order[o] \in Final

(* Mutant: any answer is taken for an end. *)
AnyAnswer == {order[at]}

(* What a poll may call the end of the order: how it ended; and a          *)
(* rejection, where it asks by the client order id.                        *)
EndTold ==
  {status \in Final :
     \/ Over(at) /\ status = order[at]
     \/ answer = "rejected" /\ status = "rejected"}

(* The end that was told is one, or the request did not leave. *)
Seen(status) == status = order[at] \/ ~sent

(* Mutant: a poll without news is not counted. *)
Uncounted == UNCHANGED <<tries, pc, rows>>

NoNews == tries' = tries + 1 /\ UNCHANGED <<pc, rows>>

(* _poll_status_window: any final status ends the entry, with that status. *)
WindowPoll ==
  /\ pc = "window"
  /\ tries < WindowPolls
  /\ \/ NoNews /\ UNCHANGED assured
     \/ \E status \in EndTold :
          /\ Record(status, IF Over(at) THEN at ELSE NoOrder)
          /\ assured' = (assured /\ Seen(status))
          /\ pc' = "done"
          /\ UNCHANGED tries
  /\ UNCHANGED <<at, answer, sent, exchange>>

(* The cancel may be refused by the guard; its result is not looked at. *)
Cancel ==
  /\ pc = "window"
  /\ tries >= WindowPolls
  /\ pc' = "confirm"
  /\ tries' = 0
  /\ cancels' \in {cancels, cancels \cup {at}}
  /\ UNCHANGED <<at, answer, sent, wire, order, done, rows, assured>>

(* On to another order, which has not left yet. *)
Move(o) == at' = o /\ pc' = "post" /\ sent' = FALSE

NextAttempt == at < MaxReposts /\ Move(at + 1) /\ UNCHANGED rows

ToFallback ==
  /\ at >= MaxReposts
  /\ TRUE \in Fallbacks
  /\ Move(Fall)
  /\ row' = "canceled"
  /\ UNCHANGED <<known, fallRow>>

GiveUp ==
  /\ at >= MaxReposts
  /\ FALSE \in Fallbacks
  /\ pc' = "done"
  /\ row' = "failed"
  /\ UNCHANGED <<at, sent, known, fallRow>>

Leave == tries' = 0 /\ (NextAttempt \/ ToFallback \/ GiveUp)

(* _wait_for_terminal_after_cancel, twice with a reconcile between them. *)
ConfirmPoll ==
  /\ pc = "confirm"
  /\ tries < 2 * TerminalPolls
  /\ \/ NoNews /\ UNCHANGED <<at, sent, assured>>
     \/ /\ "filled" \in EndTold
        /\ Record("filled", at)
        /\ pc' = "done"
        /\ UNCHANGED <<at, tries, sent, assured>>
     \/ \E status \in EndTold \ {"filled"} :
          /\ Leave
          /\ assured' = (assured /\ Seen(status))
  /\ UNCHANGED <<answer, exchange>>

(* No end was seen: the attempt is left behind all the same. *)
Unconfirmed ==
  /\ pc = "confirm"
  /\ tries >= 2 * TerminalPolls
  /\ Leave
  /\ assured' = (assured /\ ~sent)
  /\ UNCHANGED <<answer, exchange>>

-----------------------------------------------------------------------------
(* The fallback at market. *)

FallRecord(status) == fallRow' = status /\ UNCHANGED <<row, known>>

FallAnswered ==
  /\ pc = "wait"
  /\ at = Fall
  /\ answer # "none"
  /\ \/ /\ answer = "filled"
        /\ FallRecord("filled")
        /\ pc' = "done"
        /\ UNCHANGED tries
     \/ /\ answer = "open"
        /\ FallRecord("submitted")
        /\ pc' = "poll"
        /\ tries' = 0
     \/ /\ answer = "rejected"
        /\ tries < MaxTries
        /\ FallRecord("submitted")
        /\ pc' = "post"
        /\ UNCHANGED tries
     \/ /\ answer = "rejected"
        /\ tries >= MaxTries
        /\ FallRecord("failed")
        /\ pc' = "done"
        /\ UNCHANGED tries
  /\ UNCHANGED <<at, answer, sent, exchange, assured>>

FallRaises ==
  /\ pc = "wait"
  /\ at = Fall
  /\ answer # "none"
  /\ FallRecord("failed")
  /\ pc' = "done"
  /\ UNCHANGED <<at, tries, answer, sent, exchange, assured>>

(* _poll_status by the order id: no answer, an order that lives, or its    *)
(* end, which a report may have told before.                               *)
FallPoll ==
  /\ pc = "poll"
  /\ tries < MaxPolls
  /\ \/ NoNews
     \/ /\ tries' = tries + 1
        /\ \E status \in Working : FallRecord(status)
        /\ UNCHANGED pc
     \/ /\ Over(at)
        /\ pc' = "done"
        /\ UNCHANGED tries
        /\ FallRecord(order[at]) \/ UNCHANGED rows
  /\ UNCHANGED <<at, answer, sent, exchange, assured>>

FallPollGivesUp ==
  /\ pc = "poll"
  /\ tries >= MaxPolls
  /\ FallRecord("failed")
  /\ pc' = "done"
  /\ UNCHANGED <<at, tries, answer, sent, exchange, assured>>

-----------------------------------------------------------------------------
(* The other tasks of the runtime, on the fallback's row. *)

(* record_order_status: a report or the reconciler, whose status the order *)
(* store accepted; one of an order that lives may come late.               *)
FallReport ==
  /\ pc # "down"
  /\ order[Fall] # "none"
  /\ \E status \in Working \cup (Final \cap {order[Fall]}) : FallRecord(status)
  /\ UNCHANGED <<worker, exchange, assured>>

(* _sync_executions_once: an order with any trade is filled to it. *)
SyncExecutions ==
  /\ pc # "down"
  /\ done[Fall] > 0
  /\ FallRecord("filled")
  /\ UNCHANGED <<worker, exchange, assured>>

(* The heal of the reconciliation worker: an order that is over or, from a *)
(* list that could not be fetched, one that works.                         *)
HealGhost ==
  /\ pc # "down"
  /\ order[Fall] # "none"
  /\ FallRecord("canceled")
  /\ UNCHANGED <<worker, exchange, assured>>

-----------------------------------------------------------------------------
(* The process stops, and starts again. *)

(* From the second attempt on the row may hold the id of an earlier one. *)
Crash ==
  /\ pc \notin {"done", "down"}
  /\ pc' = "down"
  /\ assured' = (assured /\ at = 0)
  /\ UNCHANGED <<at, tries, answer, sent, exchange, rows>>

(* Mutant: an order that is over was filled. *)
FilledIfOver(o) == IF Over(o) THEN "filled" ELSE "submitted"

(* Mutant: an order that was not filled was canceled. *)
CanceledUnlessFilled(o) == IF order[o] = "filled" THEN "filled" ELSE "canceled"

StatusOf(o) == IF Over(o) THEN order[o] ELSE "submitted"

(* _recover_pending_intents asks by the order id of the row, and without   *)
(* one, or an answer, by its client order id: root is the id of no order,  *)
(* root:f that of the fallback, and no answer is a rejection.  An id still *)
(* claimed is skipped, as is one whose call fails.                         *)
Recover ==
  /\ pc = "down"
  /\ pc' = "done"
  /\ \/ UNCHANGED <<rows, assured>>
     \/ /\ row \in Pending
        /\ known # NoOrder
        /\ Record(StatusOf(known), known)
        /\ UNCHANGED assured
     \/ /\ row \in Pending
        /\ Record("rejected", NoOrder)
        /\ assured' = (assured /\ Seen("rejected"))
     \/ /\ fallRow \in Pending
        /\ \E status \in {"rejected"} \cup IF order[Fall] = "none" THEN {} ELSE {StatusOf(Fall)} :
             FallRecord(status)
        /\ UNCHANGED assured
  /\ UNCHANGED <<at, tries, answer, sent, exchange>>

(* _intent_expiry_loop: an entry takes far less than the limit.  No row of *)
(* order_states carries the root's id, and so none keeps its intent; one   *)
(* may keep the fallback's.                                                *)
Expire ==
  /\ pc = "done"
  /\ \/ row \in Pending /\ row' = "expired" /\ UNCHANGED fallRow
     \/ fallRow \in Pending /\ fallRow' = "expired" /\ UNCHANGED row
  /\ UNCHANGED <<worker, exchange, known, assured>>

-----------------------------------------------------------------------------
Worker ==
  \/ Post \/ MakerAnswered \/ MakerRaises \/ WindowPoll \/ Cancel
  \/ ConfirmPoll \/ Unconfirmed
  \/ FallAnswered \/ FallRaises \/ FallPoll \/ FallPollGivesUp

Exchange == \E o \in Orders : Serve(o) \/ Trade(o) \/ ServeCancel(o)

Tasks == FallReport \/ SyncExecutions \/ HealGhost \/ Expire

Next == Worker \/ Exchange \/ LoseReply \/ Crash \/ Recover \/ Tasks

Spec == Init /\ [][Next]_vars

(* The worker's task runs on, a call ends by its timeout, and a process    *)
(* that stopped is started again.                                          *)
FairSpec ==
  /\ Spec
  /\ WF_vars(Worker)
  /\ WF_vars(LoseReply)
  /\ WF_vars(Recover)

-----------------------------------------------------------------------------
Live(o) == o \in wire \/ order[o] = "open"

(* The orders of an entry work one at a time: one that was left behind was *)
(* not filled and executes no more, although requests, cancels and fills   *)
(* cross.  Each must have been seen to be over: an answer that was lost,   *)
(* and a confirmation that gave up, leave that open.  What an attempt left *)
(* behind executed in part stays on top of what the next one executes.     *)
OneAtATime ==
  assured => \A o \in Orders \ {at} : ~Live(o) /\ order[o] # "filled"

(* When the root's row says how the entry ended, none of its maker orders  *)
(* can still execute: the worker, or the recovery after a crash in the     *)
(* first attempt, wrote it after the order's end; again unless an answer   *)
(* was lost, for then the row may read rejected of an order that works.    *)
EndedIsOver ==
  assured /\ row \in Final \cup {"failed"} => \A o \in Attempts : ~Live(o)

(* A root's row that reads filled has an attempt behind it that was filled *)
(* whole, also after lost answers and a recovery by the id of an earlier   *)
(* attempt; a fallback's row that reads filled one that executed a part at *)
(* least, which is all that the sync loop asks for.                        *)
FilledIsFilled ==
  /\ row = "filled" => \E o \in Attempts : order[o] = "filled"
  /\ fallRow = "filled" => done[Fall] > 0

(* An entry ends: attempts, windows, confirmations and retries are bounded. *)
Ends == <>(pc = "done")
=============================================================================
