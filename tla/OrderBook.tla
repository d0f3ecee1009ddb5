------------------------------ MODULE OrderBook ------------------------------
(***************************************************************************)
(* The order book of one Binance symbol on its way into the bot: the       *)
(* websocket provider with its REST snapshots (ingest/orderbook_ws.py),    *)
(* the feed that publishes its updates to a Redis stream                   *)
(* (ingest/orderbook_feed.py), and the worker that builds the book the     *)
(* other workers read (ingest/orderbook_worker.py, market/orderbooks.py).  *)
(*                                                                         *)
(* The provider is drained by a task of its own into a queue, as with      *)
(* several symbols (MultiplexOrderbookProvider); a bot of one symbol calls *)
(* it from the feed, which is one of the schedules.  Levels are left out:  *)
(* a book is the set of update ids it has in it.  So are the clocks: the   *)
(* 30 seconds between snapshots, the sync window of 3, the cooldowns of 5, *)
(* and the stale watchdog, which drops the connection, may be over at any  *)
(* moment.                                                                 *)
(*                                                                         *)
(* _binance_pending_seq of the feed and _pending_snapshot_seq of the       *)
(* worker are no variables: where they are set they equal the last         *)
(* sequence number, and ask of a delta what that asks.                     *)
(***************************************************************************)
EXTENDS Integers, Sequences

CONSTANTS
  Tolerance,   (* the gap the provider passes on: 100 in the code          *)
  MaxHead,     (* bound: the last update id of the venue                   *)
  MaxLag,      (* bound: entries in the socket, the queue and the stream   *)
  MaxRestarts  (* bound: times the process starts again                    *)

ASSUME ConstantsAssumption ==
  /\ {Tolerance, MaxRestarts} \subseteq Nat
  /\ {MaxHead, MaxLag} \subseteq Nat \ {0}

VARIABLES
  head,      (* the venue's last update id                                 *)
  emitted,   (* the last one it has put into a message                     *)
  up,        (* the websocket is connected                                 *)
  wire,      (* messages in the socket                                     *)
  pc,        (* where next_update stands                                   *)
  pending,   (* _pending_snapshot, its sequence number or NoSeq            *)
  snapSeq,   (* _snapshot_seq                                              *)
  lastSeq,   (* _last_seq                                                  *)
  queue,     (* updates the feed has not taken                             *)
  fedSeq,    (* _binance_last_seq                                          *)
  stream,    (* events:orderbook_feed, as far as the worker has not read   *)
  valid,     (* there is a book, and it is valid: the cache has it         *)
  seq,       (* OrderbookState.seq                                         *)
  has,       (* the updates that are in the book                           *)
  restarts,  (* times the process started again                            *)
  published  (* ghost: the feed of this process has published a snapshot   *)

venue == <<head, emitted>>
provider == <<pc, pending, snapSeq, lastSeq>>
feed == <<fedSeq, published>>
book == <<valid, seq, has>>
vars == <<venue, up, wire, provider, queue, feed, stream, book, restarts>>

NoSeq == 0
Seqs == 1 .. MaxHead

(* A snapshot has every update up to its number, a delta those from U to u. *)
Snapshot(s) == [type |-> "snapshot", first |-> 1, last |-> s]
Delta(first, last) == [type |-> "delta", first |-> first, last |-> last]

IsUpdate(u) ==
  /\ u.type \in {"snapshot", "delta"}
  /\ u.first \in 1 .. u.last
  /\ u.last \in 1 .. head
  /\ u.type = "snapshot" <=> u.first = 1

AreUpdates(s) == \A i \in DOMAIN s : IsUpdate(s[i])

TypeOK ==
  /\ head \in Seqs
  /\ emitted \in 1 .. head
  /\ up \in BOOLEAN
  /\ pc \in {"next", "fetch", "recv"}
  /\ {pending, snapSeq, lastSeq, fedSeq, seq} \subseteq {NoSeq} \cup 1 .. head
  /\ AreUpdates(wire) /\ AreUpdates(queue) /\ AreUpdates(stream)
  /\ valid \in BOOLEAN
  /\ has \subseteq 1 .. seq
  /\ restarts \in 0 .. MaxRestarts
  /\ published \in BOOLEAN

Init ==
  /\ head = 1
  /\ emitted = 1
  /\ up = FALSE
  /\ wire = <<>>
  /\ pc = "next"
  /\ pending = NoSeq
  /\ snapSeq = NoSeq
  /\ lastSeq = NoSeq
  /\ queue = <<>>
  /\ fedSeq = NoSeq
  /\ stream = <<>>
  /\ valid = FALSE
  /\ seq = NoSeq
  /\ has = {}
  /\ restarts = 0
  /\ published = FALSE

HasRoom(s) == Len(s) < MaxLag

-----------------------------------------------------------------------------
(* The venue (external). *)

Change ==
  /\ head < MaxHead
  /\ head' = head + 1
  /\ UNCHANGED <<emitted, up, wire, provider, queue, feed, stream, book, restarts>>

(* One message for all changes since the last one; it may get lost. *)
Emit ==
  /\ emitted < head
  /\ HasRoom(wire)
  /\ emitted' = head
  /\ wire' \in {wire} \cup (IF up THEN {Append(wire, Delta(emitted + 1, head))} ELSE {})
  /\ UNCHANGED <<head, up, provider, queue, feed, stream, book, restarts>>

-----------------------------------------------------------------------------
(* The provider: next_update, and the task that drains it. *)

(* Mutant: the number the next update will have. *)
nextUpdateId == head + 1

(* What the REST snapshot calls itself. *)
lastUpdateId == head

(* A request that fails leaves the snapshot that is pending. *)
request_snapshot == pending' \in {pending, lastUpdateId}

ReturnSnapshot ==
  /\ pc = "next"
  /\ pending # NoSeq
  /\ HasRoom(queue)
  /\ queue' = Append(queue, Snapshot(pending))
  /\ pending' = NoSeq
  /\ snapSeq' = pending
  /\ lastSeq' = NoSeq
  /\ UNCHANGED <<venue, up, wire, pc, feed, stream, book, restarts>>

(* A connect that fails changes nothing. *)
Connect ==
  /\ pc = "next"
  /\ pending = NoSeq
  /\ ~up
  /\ up' = TRUE
  /\ wire' = <<>>
  /\ snapSeq' = NoSeq
  /\ lastSeq' = NoSeq
  /\ pc' = "fetch"
  /\ UNCHANGED <<venue, pending, queue, feed, stream, book, restarts>>

Fetch ==
  /\ pc = "fetch"
  /\ pc' = "next"
  /\ request_snapshot
  /\ UNCHANGED <<venue, up, wire, snapSeq, lastSeq, queue, feed, stream, book, restarts>>

(* _maybe_snapshot; what it fetches is returned after the next message. *)
StartRecv ==
  /\ pc = "next"
  /\ pending = NoSeq
  /\ up
  /\ pc' = "recv"
  /\ request_snapshot
  /\ UNCHANGED <<venue, up, wire, snapSeq, lastSeq, queue, feed, stream, book, restarts>>

(* _check_seq_gap *)
Dropped(d) ==
  IF lastSeq # NoSeq THEN d.last <= lastSeq
  ELSE snapSeq # NoSeq /\ d.last < snapSeq

Resync(d) == lastSeq # NoSeq /\ d.first - lastSeq - 1 > Tolerance

(* A delta behind a gap is returned like any other. *)
Recv ==
  /\ pc = "recv"
  /\ wire # <<>>
  /\ HasRoom(queue)
  /\ wire' = Tail(wire)
  /\ pc' = "next"
  /\ LET d == Head(wire) IN
       \/ Dropped(d) /\ UNCHANGED <<queue, pending, lastSeq>>
       \/ /\ ~Dropped(d)
          /\ queue' = Append(queue, d)
          /\ IF Resync(d) THEN request_snapshot /\ UNCHANGED lastSeq
                          ELSE lastSeq' = d.last /\ UNCHANGED pending
  /\ UNCHANGED <<venue, up, snapSeq, feed, stream, book, restarts>>

(* Mutant: a connection that is silent is kept. *)
KeptIfSilent == up' = (wire = <<>>) /\ wire' = <<>>

_reset_connection == up' = FALSE /\ wire' = <<>>

(* A timeout, a lost connection, or the watchdog. *)
RecvFails ==
  /\ pc = "recv"
  /\ pc' = "next"
  /\ _reset_connection
  /\ UNCHANGED <<venue, pending, snapSeq, lastSeq, queue, feed, stream, book, restarts>>

-----------------------------------------------------------------------------
(* The feed. *)

(* The feed looks into events:orderbook_resync before every update.  What  *)
(* the worker asks for there may be lost in a cooldown or a read that      *)
(* fails, and what it asks for another symbol is fetched for all: requests *)
(* come at any moment, and none is bound to come.                          *)
HandleResync ==
  /\ request_snapshot
  /\ UNCHANGED <<venue, up, wire, pc, snapSeq, lastSeq, queue, feed, stream, book, restarts>>

(* Mutant: one update may be missing. *)
FeedMissesTwo(u) == fedSeq # NoSeq /\ u.first > fedSeq + 2

FeedMisses(u) == fedSeq # NoSeq /\ u.first > fedSeq + 1

Publish(u) ==
  /\ HasRoom(stream)
  /\ stream' = Append(stream, u)
  /\ fedSeq' = u.last
  /\ UNCHANGED pending

(* A delta behind a gap is dropped, and may lead to a request. *)
Feed ==
  /\ queue # <<>>
  /\ queue' = Tail(queue)
  /\ LET u == Head(queue) IN
       \/ u.type = "snapshot" /\ Publish(u) /\ published' = TRUE
       \/ /\ u.type = "delta"
          /\ UNCHANGED published
          /\ \/ u.last <= fedSeq /\ UNCHANGED <<stream, fedSeq, pending>>
             \/ u.last > fedSeq /\ FeedMisses(u) /\ request_snapshot /\ UNCHANGED <<stream, fedSeq>>
             \/ u.last > fedSeq /\ ~FeedMisses(u) /\ Publish(u)
  /\ UNCHANGED <<venue, up, wire, pc, snapSeq, lastSeq, book, restarts>>

-----------------------------------------------------------------------------
(* The worker. *)

apply_snapshot(u) == valid' = TRUE /\ seq' = u.last /\ has' = u.first .. u.last

apply_delta(u) == valid' = TRUE /\ seq' = u.last /\ has' = has \cup u.first .. u.last

(* Mutant: a gap is not looked for. *)
NoGap(u) == FALSE

BookMisses(u) == u.first > seq + 1

(* Without a valid book a delta with both sides is taken for a snapshot.   *)
(* What an invalid book holds is never used again.  The worker asks for a  *)
(* snapshot wherever it has no valid book (see HandleResync).              *)
ApplyDelta(u) ==
  \/ ~valid /\ (apply_snapshot(u) \/ UNCHANGED book)
  \/ valid /\ u.last <= seq /\ UNCHANGED book
  \/ /\ valid
     /\ u.last > seq
     /\ IF BookMisses(u)
          THEN valid' = FALSE /\ seq' = NoSeq /\ has' = {}
          ELSE apply_delta(u)

Handle ==
  /\ stream # <<>>
  /\ stream' = Tail(stream)
  /\ LET u == Head(stream) IN
       \/ u.type = "snapshot" /\ apply_snapshot(u)
       \/ u.type = "delta" /\ ApplyDelta(u)
  /\ UNCHANGED <<venue, up, wire, provider, queue, feed, restarts>>

-----------------------------------------------------------------------------
(* The process starts again.  What was read and not handled is never read  *)
(* again; the rest of the stream is.                                       *)
Restart ==
  /\ restarts < MaxRestarts
  /\ restarts' = restarts + 1
  /\ up' = FALSE
  /\ wire' = <<>>
  /\ pc' = "next"
  /\ pending' = NoSeq
  /\ snapSeq' = NoSeq
  /\ lastSeq' = NoSeq
  /\ queue' = <<>>
  /\ fedSeq' = NoSeq
  /\ published' = FALSE
  /\ \E read \in 0 .. Len(stream) : stream' = SubSeq(stream, read + 1, Len(stream))
  /\ valid' = FALSE
  /\ seq' = NoSeq
  /\ has' = {}
  /\ UNCHANGED venue

-----------------------------------------------------------------------------
Drain == ReturnSnapshot \/ Connect \/ Fetch \/ StartRecv \/ Recv \/ RecvFails

Next == Change \/ Emit \/ Drain \/ HandleResync \/ Feed \/ Handle \/ Restart

Spec == Init /\ [][Next]_vars

(* The three loops run on, a silent connection times out, and the REST     *)
(* endpoint does not fail for ever.  Nothing is assumed of the venue's     *)
(* messages or of the requests that gaps lead to.                          *)
LiveSpec ==
  /\ Spec
  /\ WF_vars(Drain)
  /\ WF_vars(Feed)
  /\ WF_vars(Handle)
  /\ SF_vars(Fetch /\ pending' = head)

-----------------------------------------------------------------------------
FromSnapshot == 1 \in has

(* A book that was built on a snapshot has every update up to its sequence *)
(* number in it, also when snapshots are overtaken by deltas, messages get *)
(* lost, or the stream still holds what an earlier process published.      *)
Whole == valid /\ FromSnapshot => has = 1 .. seq

(* A book that was made of nothing but deltas, which has a few levels of   *)
(* the venue's, only comes of a feed that has had no snapshot: after one,  *)
(* the feed lets no gap through that would make the worker start anew.     *)
BlindStartOnly ==
  valid /\ ~FromSnapshot /\ published => \E i \in DOMAIN stream : stream[i].type = "snapshot"

(* Whatever was lost or overtaken, once the venue's book rests, the bot's  *)
(* is the same, and stays so.                                              *)
CatchesUp == <>[](valid /\ has = 1 .. head)
=============================================================================
