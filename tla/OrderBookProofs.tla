-------------------------- MODULE OrderBookProofs --------------------------
(* Proofs about OrderBook, for every tolerance, every number of updates    *)
(* and restarts, and queues of any length.                                 *)
EXTENDS OrderBook, SequenceTheorems, TLAPS

(* The updates there may be when the venue's last one is h.                *)
Updates(h) ==
  {u \in [type : {"snapshot", "delta"}, first : Nat, last : Nat] :
     u.first \in 1 .. u.last /\ u.last \in 1 .. h /\ (u.type = "snapshot" <=> u.first = 1)}

QueuesTyped ==
  wire \in Seq(Updates(head)) /\ queue \in Seq(Updates(head)) /\ stream \in Seq(Updates(head))

(* TypeOK but for the queues.                                              *)
NumbersTyped ==
  /\ head \in Seqs
  /\ emitted \in 1 .. head
  /\ up \in BOOLEAN
  /\ pc \in {"next", "fetch", "recv"}
  /\ {pending, snapSeq, lastSeq, fedSeq, seq} \subseteq {NoSeq} \cup 1 .. head
  /\ valid \in BOOLEAN
  /\ has \subseteq 1 .. seq
  /\ restarts \in 0 .. MaxRestarts
  /\ published \in BOOLEAN

(* The number the worker has when it comes to entry i of the stream, if it *)
(* applies all before it.                                                  *)
Before(i) == IF i = 1 THEN seq ELSE stream[i - 1].last

(* The worker, with a valid book, applies entry i.                         *)
Linked(i) ==
  stream[i].type = "snapshot" \/ (stream[i].first <= Before(i) + 1 /\ Before(i) < stream[i].last)

(* Entry k is a snapshot, or, before the first entry, the book is of one.  *)
IsBase(k) == IF k = 0 THEN valid /\ FromSnapshot ELSE stream[k].type = "snapshot"

FedIsLast == fedSeq = IF stream = <<>> THEN seq ELSE stream[Len(stream)].last

Anchored ==
  \E k \in 0 .. Len(stream) : IsBase(k) /\ \A i \in k + 1 .. Len(stream) : Linked(i)

(* Once this process has published a snapshot, the worker's book or one in *)
(* the stream is whole, and from there no entry is missing.                *)
FedFromSnapshot == published => fedSeq # NoSeq /\ FedIsLast /\ Anchored

IInv == NumbersTyped /\ QueuesTyped /\ Whole /\ FedFromSnapshot

-----------------------------------------------------------------------------
(* Updates in queues. *)

LEMMA UpdateFacts ==
  ASSUME NEW h \in Nat, NEW u \in Updates(h)
  PROVE  /\ u.type \in {"snapshot", "delta"} /\ u.first \in Nat /\ u.last \in Nat
         /\ 1 <= u.first /\ u.first <= u.last /\ u.last <= h
         /\ u.type = "snapshot" <=> u.first = 1
         /\ u.last \in 1 .. h
  BY DEF Updates

LEMMA Appended ==
  ASSUME NEW h, NEW s \in Seq(Updates(h)), NEW u \in Updates(h)
  PROVE  /\ Append(s, u) \in Seq(Updates(h))
         /\ Append(s, u) # <<>>
         /\ Len(s) \in Nat
         /\ Len(Append(s, u)) = Len(s) + 1
         /\ \A i \in 1 .. Len(s) : Append(s, u)[i] = s[i]
         /\ Append(s, u)[Len(s) + 1] = u
  BY AppendProperties, LenProperties

LEMMA Taken ==
  ASSUME NEW h, NEW s \in Seq(Updates(h)), s # <<>>
  PROVE  /\ Head(s) \in Updates(h)
         /\ Head(s) = s[1]
         /\ Len(s) \in Nat \ {0}
         /\ Tail(s) \in Seq(Updates(h))
         /\ Len(Tail(s)) = Len(s) - 1
         /\ \A i \in 1 .. Len(Tail(s)) : Tail(s)[i] = s[i + 1]
  BY HeadTailProperties, EmptySeq

LEMMA MoreUpdates ==
  ASSUME NEW h \in Nat, NEW s \in Seq(Updates(h))
  PROVE  s \in Seq(Updates(h + 1))
<1>1. Updates(h) \subseteq Updates(h + 1)
  BY DEF Updates
<1> QED
  BY <1>1, SeqMonotonic

LEMMA SnapshotsAndDeltas ==
  ASSUME NEW h \in Nat
  PROVE  /\ \A s \in 1 .. h : Snapshot(s) \in Updates(h)
         /\ \A e \in 1 .. h : e < h => Delta(e + 1, h) \in Updates(h)
  BY DEF Snapshot, Delta, Updates

LEMMA TypesFollow == NumbersTyped /\ QueuesTyped => TypeOK
<1> SUFFICES ASSUME NumbersTyped, QueuesTyped PROVE TypeOK
  OBVIOUS
<1>1. ASSUME NEW s \in Seq(Updates(head)) PROVE AreUpdates(s)
  <2>1. \A i \in DOMAIN s : s[i] \in Updates(head)
    BY LenProperties, ElementOfSeq
  <2> QED
    BY <2>1 DEF AreUpdates, IsUpdate, Updates
<1> QED
  BY <1>1 DEF NumbersTyped, QueuesTyped, TypeOK

LEMMA InitIInv == Init => IInv
<1> SUFFICES ASSUME Init PROVE IInv
  OBVIOUS
<1>1. 1 \in 1 .. MaxHead /\ 0 \in 0 .. MaxRestarts /\ 1 \in 1 .. 1
  BY ConstantsAssumption
<1>2. NumbersTyped
  BY <1>1 DEF Init, NumbersTyped, Seqs, NoSeq
<1>3. QueuesTyped
  BY EmptySeq DEF Init, QueuesTyped
<1> QED
  BY <1>2, <1>3 DEF Init, IInv, Whole, FedFromSnapshot

-----------------------------------------------------------------------------
(* The provider: neither the feed's state, nor the stream, nor the book.   *)

LEMMA ElsewhereKept ==
  ASSUME Whole, FedFromSnapshot, UNCHANGED <<feed, stream, book>>
  PROVE  Whole' /\ FedFromSnapshot'
  BY DEF feed, book, Whole, FromSnapshot, FedFromSnapshot, FedIsLast, Anchored, IsBase, Linked,
     Before

(* What the numbers are, in facts that arithmetic can use.                 *)
LEMMA NumberFacts ==
  ASSUME NumbersTyped
  PROVE  /\ head \in Nat /\ 1 <= head /\ head <= MaxHead /\ MaxHead \in Nat
         /\ emitted \in Nat /\ 1 <= emitted /\ emitted <= head
         /\ pending \in 0 .. head /\ snapSeq \in 0 .. head /\ lastSeq \in 0 .. head
         /\ fedSeq \in 0 .. head /\ seq \in 0 .. head
  BY ConstantsAssumption DEF NumbersTyped, Seqs, NoSeq

LEMMA ChangeIInv == IInv /\ Change => IInv'
<1> SUFFICES ASSUME IInv, Change PROVE IInv'
  OBVIOUS
<1>1. NumbersTyped'
  BY NumberFacts DEF IInv, NumbersTyped, Change, provider, feed, book, Seqs, NoSeq
<1>2. QueuesTyped'
  BY NumberFacts, MoreUpdates DEF IInv, QueuesTyped, Change
<1> QED
  BY <1>1, <1>2, ElsewhereKept DEF IInv, Change

LEMMA EmitIInv == IInv /\ Emit => IInv'
<1> SUFFICES ASSUME IInv, Emit PROVE IInv'
  OBVIOUS
<1>1. NumbersTyped'
  BY NumberFacts DEF IInv, NumbersTyped, Emit, provider, feed, book, Seqs, NoSeq
<1>2. wire' = wire \/ wire' = Append(wire, Delta(emitted + 1, head))
  BY DEF Emit
<1>3. Delta(emitted + 1, head) \in Updates(head)
  BY NumberFacts, SnapshotsAndDeltas DEF IInv, Emit
<1>4. Append(wire, Delta(emitted + 1, head)) \in Seq(Updates(head))
  BY <1>3, Appended, Zenon DEF IInv, QueuesTyped
<1>5. QueuesTyped'
  BY <1>2, <1>4 DEF IInv, QueuesTyped, Emit
<1> QED
  BY <1>1, <1>5, ElsewhereKept DEF IInv, Emit

LEMMA Requested == NumbersTyped /\ request_snapshot => pending' \in {NoSeq} \cup 1 .. head
  BY NumberFacts DEF NumbersTyped, request_snapshot, lastUpdateId

LEMMA DrainIInv == IInv /\ Drain => IInv'
<1> SUFFICES ASSUME IInv, Drain PROVE IInv'
  OBVIOUS
<1>1. CASE ReturnSnapshot
  <2>1. NumbersTyped'
    BY <1>1 DEF IInv, NumbersTyped, ReturnSnapshot, venue, feed, book, NoSeq
  <2>2. Snapshot(pending) \in Updates(head)
    BY <1>1, NumberFacts, SnapshotsAndDeltas DEF IInv, ReturnSnapshot, NoSeq
  <2>3. QueuesTyped'
    BY <1>1, <2>2, Appended DEF IInv, QueuesTyped, ReturnSnapshot, venue
  <2> QED
    BY <1>1, <2>1, <2>3, ElsewhereKept DEF IInv, ReturnSnapshot
<1>2. CASE Connect
  <2>1. NumbersTyped'
    BY <1>2 DEF IInv, NumbersTyped, Connect, venue, feed, book
  <2>2. QueuesTyped'
    BY <1>2, EmptySeq DEF IInv, QueuesTyped, Connect, venue
  <2> QED
    BY <1>2, <2>1, <2>2, ElsewhereKept DEF IInv, Connect
<1>3. CASE Fetch
  <2>1. NumbersTyped'
    BY <1>3, Requested DEF IInv, NumbersTyped, Fetch, venue, feed, book
  <2>2. QueuesTyped'
    BY <1>3 DEF IInv, QueuesTyped, Fetch, venue
  <2> QED
    BY <1>3, <2>1, <2>2, ElsewhereKept DEF IInv, Fetch
<1>4. CASE StartRecv
  <2>1. NumbersTyped'
    BY <1>4, Requested DEF IInv, NumbersTyped, StartRecv, venue, feed, book
  <2>2. QueuesTyped'
    BY <1>4 DEF IInv, QueuesTyped, StartRecv, venue
  <2> QED
    BY <1>4, <2>1, <2>2, ElsewhereKept DEF IInv, StartRecv
<1>5. CASE Recv
  <2> DEFINE d == Head(wire)
  <2>1. d \in Updates(head) /\ Tail(wire) \in Seq(Updates(head))
    BY <1>5, Taken DEF IInv, QueuesTyped, Recv
  <2>2. d.last \in 1 .. head
    BY <2>1, NumberFacts, UpdateFacts DEF IInv
  <2>3. \/ UNCHANGED <<queue, pending, lastSeq>>
        \/ queue' = Append(queue, d) /\ request_snapshot /\ UNCHANGED lastSeq
        \/ queue' = Append(queue, d) /\ lastSeq' = d.last /\ UNCHANGED pending
    BY <1>5 DEF Recv
  <2> HIDE DEF d
  <2>4. /\ wire' = Tail(wire) /\ pc' = "next"
        /\ UNCHANGED <<head, emitted, up, snapSeq, fedSeq, published, stream, valid, seq, has, restarts>>
    BY <1>5 DEF Recv, venue, feed, book
  <2>5. /\ pending' \in {NoSeq} \cup 1 .. head
        /\ lastSeq' \in {NoSeq} \cup 1 .. head
    BY <2>2, <2>3, Requested DEF IInv, NumbersTyped
  <2>6. NumbersTyped'
    BY <2>4, <2>5 DEF IInv, NumbersTyped
  <2>7. queue' \in Seq(Updates(head))
    <3>1. Append(queue, d) \in Seq(Updates(head))
      BY <2>1, Appended, Zenon DEF IInv, QueuesTyped
    <3> QED
      BY <2>3, <3>1 DEF IInv, QueuesTyped
  <2>8. QueuesTyped'
    BY <2>1, <2>4, <2>7 DEF IInv, QueuesTyped
  <2> QED
    BY <1>5, <2>6, <2>8, ElsewhereKept DEF IInv, Recv
<1>6. CASE RecvFails
  <2>1. NumbersTyped'
    BY <1>6 DEF IInv, NumbersTyped, RecvFails, _reset_connection, venue, feed, book
  <2>2. QueuesTyped'
    BY <1>6, EmptySeq DEF IInv, QueuesTyped, RecvFails, _reset_connection, venue
  <2> QED
    BY <1>6, <2>1, <2>2, ElsewhereKept DEF IInv, RecvFails
<1> QED
  BY <1>1, <1>2, <1>3, <1>4, <1>5, <1>6 DEF Drain

LEMMA HandleResyncIInv == IInv /\ HandleResync => IInv'
<1> SUFFICES ASSUME IInv, HandleResync PROVE IInv'
  OBVIOUS
<1>1. NumbersTyped'
  BY Requested DEF IInv, NumbersTyped, HandleResync, venue, feed, book
<1>2. QueuesTyped'
  BY DEF IInv, QueuesTyped, HandleResync, venue
<1> QED
  BY <1>1, <1>2, ElsewhereKept DEF IInv, HandleResync

-----------------------------------------------------------------------------
(* The feed. *)

LEMMA FeedIInv == IInv /\ Feed => IInv'
<1> SUFFICES ASSUME IInv, Feed PROVE IInv'
  OBVIOUS
<1> DEFINE u == Head(queue)
<1>1. /\ u \in Updates(head)
      /\ Tail(queue) \in Seq(Updates(head))
      /\ stream \in Seq(Updates(head)) /\ wire \in Seq(Updates(head))
  BY Taken DEF IInv, QueuesTyped, Feed
<1>2. /\ u.type \in {"snapshot", "delta"} /\ u.first \in Nat /\ u.last \in Nat
      /\ 1 <= u.first /\ u.first <= u.last /\ u.last \in 1 .. head
  BY <1>1, NumberFacts, UpdateFacts DEF IInv
<1>3. \/ /\ u.type = "snapshot"
         /\ stream' = Append(stream, u) /\ fedSeq' = u.last /\ UNCHANGED pending /\ published' = TRUE
      \/ /\ UNCHANGED <<published, stream, fedSeq>>
         /\ UNCHANGED pending \/ request_snapshot
      \/ /\ u.last > fedSeq /\ ~FeedMisses(u)
         /\ stream' = Append(stream, u) /\ fedSeq' = u.last /\ UNCHANGED pending /\ UNCHANGED published
  BY DEF Feed, Publish
<1> HIDE DEF u
<1>4. /\ queue' = Tail(queue)
      /\ UNCHANGED <<head, emitted, up, wire, pc, snapSeq, lastSeq, valid, seq, has, restarts>>
  BY DEF Feed, venue, book
<1>5. /\ pending' \in {NoSeq} \cup 1 .. head
      /\ fedSeq' \in {NoSeq} \cup 1 .. head
      /\ published' \in BOOLEAN
  BY <1>2, <1>3, Requested DEF IInv, NumbersTyped
<1>6. NumbersTyped'
  BY <1>4, <1>5 DEF IInv, NumbersTyped
<1>7. stream' \in Seq(Updates(head))
  <2>1. Append(stream, u) \in Seq(Updates(head))
    BY <1>1, Appended, Zenon
  <2> QED
    BY <1>1, <1>3, <2>1
<1>8. QueuesTyped'
  BY <1>1, <1>4, <1>7 DEF QueuesTyped
<1>9. Whole'
  BY <1>4 DEF IInv, Whole, FromSnapshot
<1>10. FedFromSnapshot'
  <2>1. CASE UNCHANGED <<published, stream, fedSeq>>
    BY <2>1, <1>4 DEF IInv, FedFromSnapshot, FedIsLast, Anchored, IsBase, Linked, Before, FromSnapshot
  <2>0. PICK n \in Nat : n = Len(stream)
    BY <1>1, LenProperties, Zenon
  <2>2. ASSUME stream' = Append(stream, u)
        PROVE  /\ Len(stream') = n + 1 /\ stream' # <<>>
               /\ \A i \in 1 .. n : stream'[i] = stream[i]
               /\ stream'[n + 1] = u
    BY <2>2, <2>0, <1>1, Appended
  <2>3. ASSUME stream' = Append(stream, u), fedSeq' = u.last PROVE fedSeq' # NoSeq /\ FedIsLast'
    <3>1. stream'[Len(stream')] = u
      BY <2>2, <2>3
    <3> QED
      BY <1>2, <2>2, <2>3, <3>1 DEF FedIsLast, NoSeq
  <2>4. ASSUME u.type = "snapshot", stream' = Append(stream, u) PROVE Anchored'
    <3>1. n + 1 \in 0 .. Len(stream') /\ n + 1 # 0
      BY <2>2, <2>4
    <3>2. IsBase(n + 1)'
      BY <2>2, <2>4, <3>1 DEF IsBase
    <3>3. n + 1 + 1 .. Len(stream') = {}
      BY <2>2, <2>4
    <3> QED
      BY <3>1, <3>2, <3>3 DEF Anchored
  <2>5. ASSUME Anchored, FedIsLast, fedSeq # NoSeq, u.last > fedSeq, ~FeedMisses(u),
               stream' = Append(stream, u)
        PROVE  Anchored'
    <3>1. PICK k \in 0 .. Len(stream) : IsBase(k) /\ \A i \in k + 1 .. Len(stream) : Linked(i)
      BY <2>5 DEF Anchored
    <3>2. k \in 0 .. n /\ k \in 0 .. Len(stream') /\ (k # 0 => k \in 1 .. n)
      BY <2>0, <2>2, <2>5, <3>1
    <3>3. IsBase(k)'
      BY <1>4, <2>2, <2>5, <3>1, <3>2 DEF IsBase, FromSnapshot
    <3>4. ASSUME NEW i \in k + 1 .. Len(stream') PROVE Linked(i)'
      <4>1. i \in 1 .. n + 1 /\ n + 1 - 1 = n
        BY <2>2, <2>5, <3>2
      <4>2. CASE i \in 1 .. n
        <5>1. i \in k + 1 .. n /\ (i # 1 => i - 1 \in 1 .. n)
          BY <2>2, <2>5, <3>2, <3>4, <4>2
        <5>2. Linked(i)
          BY <2>0, <3>1, <5>1
        <5>3. stream'[i] = stream[i] /\ Before(i)' = Before(i)
          BY <1>4, <2>2, <2>5, <4>2, <5>1 DEF Before
        <5> QED
          BY <5>2, <5>3 DEF Linked
      <4>3. CASE i = n + 1
        <5>1. stream'[i] = u
          BY <2>2, <2>5, <4>3
        <5>2. Before(i)' = fedSeq
          <6>1. CASE stream = <<>>
            <7>1. n = 0
              BY <2>0, <6>1, EmptySeq
            <7> QED
              BY <1>4, <2>5, <4>3, <6>1, <7>1 DEF Before, FedIsLast
          <6>2. CASE stream # <<>>
            <7>1. n \in 1 .. n /\ n + 1 # 1
              BY <1>1, <2>0, <2>2, <2>5, <6>2, Taken
            <7>2. stream'[n] = stream[n] /\ fedSeq = stream[n].last
              BY <2>2, <2>5, <6>2, <7>1 DEF FedIsLast
            <7> QED
              BY <4>1, <4>3, <7>1, <7>2 DEF Before
          <6> QED
            BY <6>1, <6>2
        <5>3. u.first <= fedSeq + 1 /\ fedSeq < u.last
          BY <1>2, <2>5, NumberFacts DEF IInv, FeedMisses
        <5> QED
          BY <5>1, <5>2, <5>3 DEF Linked
      <4> QED
        BY <2>2, <4>1, <4>2, <4>3, <2>5
    <3> QED
      BY <3>2, <3>3, <3>4 DEF Anchored
  <2>6. CASE published' = TRUE /\ u.type = "snapshot" /\ stream' = Append(stream, u) /\ fedSeq' = u.last
    BY <2>3, <2>4, <2>6 DEF FedFromSnapshot
  <2>7. CASE /\ UNCHANGED published /\ u.last > fedSeq /\ ~FeedMisses(u)
             /\ stream' = Append(stream, u) /\ fedSeq' = u.last
    BY <2>3, <2>5, <2>7 DEF IInv, FedFromSnapshot
  <2> QED
    BY <1>3, <2>1, <2>6, <2>7
<1> QED
  BY <1>6, <1>8, <1>9, <1>10 DEF IInv

-----------------------------------------------------------------------------
(* The worker. *)

(* What is left of the stream when its first entry is taken: the entries   *)
(* move up, and so do the numbers before them.                             *)
LEMMA MovedUp ==
  ASSUME NEW n \in Nat \ {0}, n = Len(stream), Len(stream') = n - 1,
         \A i \in 1 .. n - 1 : stream'[i] = stream[i + 1],
         NEW i \in 1 .. n - 1, i # 1 \/ seq' = stream[1].last
  PROVE  Before(i)' = Before(i + 1) /\ (Linked(i + 1) => Linked(i)')
<1>1. i + 1 # 1 /\ (i + 1) - 1 = i /\ (i # 1 => i - 1 \in 1 .. n - 1 /\ (i - 1) + 1 = i)
  OBVIOUS
<1>2. Before(i)' = Before(i + 1)
  BY <1>1 DEF Before
<1> QED
  BY <1>2 DEF Linked

LEMMA HandleIInv == IInv /\ Handle => IInv'
<1> SUFFICES ASSUME IInv, Handle PROVE IInv'
  OBVIOUS
<1> DEFINE u == Head(stream)
<1>1. /\ u \in Updates(head)
      /\ u = stream[1]
      /\ Tail(stream) \in Seq(Updates(head))
      /\ queue \in Seq(Updates(head)) /\ wire \in Seq(Updates(head))
  BY Taken DEF IInv, QueuesTyped, Handle
<1>2. /\ u.type \in {"snapshot", "delta"} /\ u.first \in Nat /\ u.last \in Nat
      /\ 1 <= u.first /\ u.first <= u.last /\ u.last \in 1 .. head
      /\ u.type = "snapshot" <=> u.first = 1
  BY <1>1, NumberFacts, UpdateFacts DEF IInv
<1>3. \/ /\ u.type = "snapshot"
         /\ valid' = TRUE /\ seq' = u.last /\ has' = u.first .. u.last
      \/ /\ u.type = "delta" /\ ~valid
         /\ valid' = TRUE /\ seq' = u.last /\ has' = u.first .. u.last
      \/ /\ u.type = "delta" /\ (~valid \/ u.last <= seq)
         /\ UNCHANGED <<valid, seq, has>>
      \/ /\ u.type = "delta" /\ u.first > seq + 1
         /\ valid' = FALSE /\ seq' = NoSeq /\ has' = {}
      \/ /\ u.type = "delta" /\ valid /\ u.last > seq /\ ~(u.first > seq + 1)
         /\ valid' = TRUE /\ seq' = u.last /\ has' = has \cup u.first .. u.last
  BY DEF Handle, ApplyDelta, apply_snapshot, apply_delta, BookMisses, book
<1>4. /\ stream' = Tail(stream) /\ stream # <<>>
      /\ UNCHANGED <<head, emitted, up, wire, pc, pending, snapSeq, lastSeq, queue, fedSeq,
                     published, restarts>>
  BY DEF Handle, venue, provider, feed
<1> HIDE DEF u
<1>5. NumbersTyped'
  <2>1. valid' \in BOOLEAN /\ seq' \in {NoSeq} \cup 1 .. head /\ has' \subseteq 1 .. seq'
    <3>1. /\ seq \in 0 .. head /\ head \in Nat /\ has \subseteq 1 .. seq /\ valid \in BOOLEAN
          /\ u.first .. u.last \subseteq 1 .. u.last
      BY <1>2, NumberFacts DEF IInv, NumbersTyped
    <3>2. CASE valid' = TRUE /\ seq' = u.last /\ has' = u.first .. u.last
      BY <1>2, <3>1, <3>2
    <3>3. CASE UNCHANGED <<valid, seq, has>>
      BY <3>1, <3>3 DEF NoSeq
    <3>4. CASE valid' = FALSE /\ seq' = NoSeq /\ has' = {}
      BY <3>4
    <3>5. CASE u.last > seq /\ valid' = TRUE /\ seq' = u.last /\ has' = has \cup u.first .. u.last
      <4>1. 1 .. seq \subseteq 1 .. u.last
        BY <1>2, <3>1, <3>5
      <4> QED
        BY <1>2, <3>1, <3>5, <4>1
    <3> QED
      BY <1>3, <3>2, <3>3, <3>4, <3>5
  <2> QED
    BY <1>4, <2>1 DEF IInv, NumbersTyped
<1>6. QueuesTyped'
  BY <1>1, <1>4 DEF QueuesTyped
<1>7. Whole'
  <2> SUFFICES valid' /\ 1 \in has' => has' = 1 .. seq'
    BY DEF Whole, FromSnapshot
  <2>1. seq \in Nat /\ (valid /\ 1 \in has => has = 1 .. seq)
    BY NumberFacts DEF IInv, Whole, FromSnapshot
  <2>2. CASE u.type = "snapshot" /\ seq' = u.last /\ has' = u.first .. u.last
    BY <1>2, <2>2
  <2>3. CASE u.type = "delta" /\ has' = u.first .. u.last
    BY <1>2, <2>3
  <2>4. CASE UNCHANGED <<valid, seq, has>>
    BY <2>1, <2>4
  <2>5. CASE has' = {}
    BY <2>5
  <2>6. CASE /\ u.type = "delta" /\ valid /\ u.last > seq /\ ~(u.first > seq + 1)
             /\ seq' = u.last /\ has' = has \cup u.first .. u.last
    <3>1. ASSUME 1 \in has' PROVE has' = 1 .. seq'
      <4>1. 1 \in has
        BY <1>2, <2>6, <3>1
      <4>2. has = 1 .. seq
        BY <2>1, <2>6, <4>1
      <4> QED
        BY <1>2, <2>1, <2>6, <4>2
    <3> QED
      BY <3>1
  <2> QED
    BY <1>3, <2>2, <2>3, <2>4, <2>5, <2>6
<1>8. FedFromSnapshot'
  <2> SUFFICES ASSUME published PROVE fedSeq # NoSeq /\ FedIsLast' /\ Anchored'
    BY <1>4 DEF FedFromSnapshot
  <2>1. fedSeq # NoSeq /\ FedIsLast /\ Anchored
    BY DEF IInv, FedFromSnapshot
  <2>2. PICK n \in Nat \ {0} : n = Len(stream)
    BY <1>4, Taken DEF IInv, QueuesTyped
  <2>3. Len(stream') = n - 1 /\ \A i \in 1 .. n - 1 : stream'[i] = stream[i + 1]
    BY <1>4, <2>2, Taken DEF IInv, QueuesTyped
  <2>4. PICK k \in 0 .. n : IsBase(k) /\ \A i \in k + 1 .. n : Linked(i)
    BY <2>1, <2>2 DEF Anchored
  <2>5. CASE k \in {0, 1}
    <3>1. valid' /\ 1 \in has' /\ seq' = u.last
      <4>1. CASE u.type = "snapshot"
        BY <1>2, <1>3, <4>1
      <4>2. CASE u.type # "snapshot"
        <5>1. k = 0
          BY <1>1, <2>4, <2>5, <4>2 DEF IsBase
        <5>2. valid /\ 1 \in has
          BY <2>4, <5>1 DEF IsBase, FromSnapshot
        <5>3. Linked(1)
          BY <2>4, <5>1
        <5>4. u.first <= seq + 1 /\ seq < u.last
          BY <1>1, <4>2, <5>3 DEF Linked, Before
        <5>5. seq \in Nat
          BY NumberFacts DEF IInv
        <5>6. /\ u.type = "delta" /\ ~(u.last <= seq) /\ ~(u.first > seq + 1) /\ u.type # "snapshot"
          BY <1>2, <4>2, <5>4, <5>5
        <5> QED
          BY <1>3, <5>2, <5>6, Zenon
      <4> QED
        BY <4>1, <4>2
    <3>2. Anchored'
      <4>1. ASSUME NEW i \in 1 .. n - 1 PROVE Linked(i)'
        <5>1. i + 1 \in k + 1 .. n
          BY <2>5
        <5>2. Linked(i + 1)
          BY <2>4, <5>1
        <5> QED
          BY <1>1, <2>2, <2>3, <3>1, <5>2, MovedUp
      <4>2. 0 \in 0 .. Len(stream') /\ 0 + 1 .. Len(stream') = 1 .. n - 1
        BY <2>3
      <4>3. IsBase(0)'
        BY <3>1 DEF IsBase, FromSnapshot
      <4> QED
        BY <4>1, <4>2, <4>3 DEF Anchored
    <3>3. FedIsLast'
      <4>1. fedSeq = stream[n].last
        BY <1>4, <2>1, <2>2 DEF FedIsLast
      <4>2. CASE n = 1
        <5>1. stream' = <<>>
          BY <1>1, <1>4, <2>3, <4>2, EmptySeq
        <5> QED
          BY <1>1, <1>4, <3>1, <4>1, <4>2, <5>1 DEF FedIsLast
      <4>3. CASE n # 1
        <5>1. n - 1 \in 1 .. n - 1 /\ (n - 1) + 1 = n /\ n - 1 # 0
          BY <4>3
        <5>2. stream' # <<>>
          BY <2>3, <5>1, EmptySeq
        <5>3. stream'[Len(stream')] = stream[n]
          BY <2>3, <5>1
        <5> QED
          BY <1>4, <4>1, <5>2, <5>3 DEF FedIsLast
      <4> QED
        BY <4>2, <4>3
    <3> QED
      BY <2>1, <3>2, <3>3
  <2>6. CASE k \notin {0, 1}
    <3>1. /\ k - 1 \in 0 .. n - 1 /\ k - 1 \in 1 .. n - 1 /\ k - 1 # 0 /\ (k - 1) + 1 = k
          /\ n - 1 \in 1 .. n - 1 /\ (n - 1) + 1 = n /\ n - 1 # 0
      BY <2>6
    <3>2. IsBase(k - 1)'
      <4>1. stream'[k - 1] = stream[k]
        BY <2>3, <3>1
      <4>2. stream[k].type = "snapshot"
        BY <2>4, <2>6 DEF IsBase
      <4> QED
        BY <3>1, <4>1, <4>2 DEF IsBase
    <3>3. ASSUME NEW i \in (k - 1) + 1 .. n - 1 PROVE Linked(i)'
      <4>1. i \in 1 .. n - 1 /\ i # 1 /\ i + 1 \in k + 1 .. n
        BY <2>6, <3>1
      <4>2. Linked(i + 1)
        BY <2>4, <4>1
      <4> QED
        BY <2>2, <2>3, <4>1, <4>2, MovedUp
    <3>4. Anchored'
      BY <2>3, <3>1, <3>2, <3>3 DEF Anchored
    <3>5. FedIsLast'
      <4>1. fedSeq = stream[n].last
        BY <1>4, <2>1, <2>2 DEF FedIsLast
      <4>2. stream' # <<>>
        BY <2>3, <3>1, EmptySeq
      <4>3. stream'[Len(stream')] = stream[n]
        BY <2>3, <3>1
      <4> QED
        BY <1>4, <4>1, <4>2, <4>3 DEF FedIsLast
    <3> QED
      BY <2>1, <3>4, <3>5
  <2> QED
    BY <2>5, <2>6
<1> QED
  BY <1>5, <1>6, <1>7, <1>8 DEF IInv

-----------------------------------------------------------------------------
LEMMA RestartIInv == IInv /\ Restart => IInv'
<1> SUFFICES ASSUME IInv, Restart PROVE IInv'
  OBVIOUS
<1>1. restarts' \in 0 .. MaxRestarts
  BY ConstantsAssumption DEF IInv, NumbersTyped, Restart
<1>2. NumbersTyped'
  BY <1>1 DEF IInv, NumbersTyped, Restart, venue
<1>3. stream' \in Seq(Updates(head))
  <2>1. PICK read \in 0 .. Len(stream) : stream' = SubSeq(stream, read + 1, Len(stream))
    BY DEF Restart
  <2>2. Len(stream) \in Nat /\ \A i \in 1 .. Len(stream) : stream[i] \in Updates(head)
    BY LenProperties, ElementOfSeq DEF IInv, QueuesTyped
  <2>3. read + 1 \in Int /\ Len(stream) \in Int /\ \A i \in read + 1 .. Len(stream) : i \in 1 .. Len(stream)
    BY <2>2
  <2> QED
    BY <2>1, <2>2, <2>3, SubSeqProperties
<1>4. QueuesTyped'
  BY <1>3, EmptySeq DEF QueuesTyped, Restart, venue
<1>5. Whole' /\ FedFromSnapshot'
  BY DEF Restart, Whole, FedFromSnapshot
<1> QED
  BY <1>2, <1>4, <1>5 DEF IInv

LEMMA StepIInv == IInv /\ [Next]_vars => IInv'
<1> SUFFICES ASSUME IInv, [Next]_vars PROVE IInv'
  OBVIOUS
<1>1. CASE UNCHANGED vars
  <2>1. UNCHANGED <<head, emitted, up, wire, pc, pending, snapSeq, lastSeq, queue, restarts>>
        /\ UNCHANGED <<feed, stream, book>> /\ UNCHANGED <<fedSeq, published, valid, seq, has>>
    BY <1>1 DEF vars, venue, provider, feed, book
  <2>2. NumbersTyped' /\ QueuesTyped'
    BY <2>1 DEF IInv, NumbersTyped, QueuesTyped
  <2> QED
    BY <2>1, <2>2, ElsewhereKept DEF IInv
<1> QED
  BY <1>1, ChangeIInv, EmitIInv, DrainIInv, HandleResyncIInv, FeedIInv, HandleIInv, RestartIInv
  DEF Next

LEMMA SpecIInv == Spec => []IInv
  BY InitIInv, StepIInv, PTL DEF Spec

-----------------------------------------------------------------------------
(* Every number, queue and book on the way from the venue to the workers   *)
(* is well typed, and no update is from beyond the venue's last one.       *)
THEOREM OrderBookTypeCorrect == Spec => []TypeOK
<1>1. IInv => TypeOK
  BY TypesFollow DEF IInv
<1> QED
  BY <1>1, SpecIInv, PTL

(* A book built on a snapshot never lacks an update, whatever tolerance    *)
(* the provider has for gaps and whatever is lost, overtaken or left over. *)
THEOREM BooksAreWhole == Spec => []Whole
<1>1. IInv => Whole
  BY DEF IInv
<1> QED
  BY <1>1, SpecIInv, PTL

(* After the feed's first snapshot the worker only starts blindly, from a  *)
(* delta, as long as a snapshot is still to come in the stream.            *)
THEOREM BlindBooksEnd == Spec => []BlindStartOnly
<1>1. IInv => BlindStartOnly
  <2> SUFFICES ASSUME IInv, valid, ~FromSnapshot, published
               PROVE  \E i \in DOMAIN stream : stream[i].type = "snapshot"
    BY DEF BlindStartOnly
  <2>1. PICK k \in 0 .. Len(stream) : IsBase(k)
    BY DEF IInv, FedFromSnapshot, Anchored
  <2>2. k # 0 /\ stream[k].type = "snapshot"
    BY <2>1 DEF IsBase
  <2>3. Len(stream) \in Nat /\ DOMAIN stream = 1 .. Len(stream)
    BY LenProperties DEF IInv, QueuesTyped
  <2>4. k \in DOMAIN stream
    BY <2>2, <2>3
  <2> QED
    BY <2>2, <2>4
<1> QED
  BY <1>1, SpecIInv, PTL
=============================================================================
