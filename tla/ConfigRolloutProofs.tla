------------------------ MODULE ConfigRolloutProofs ------------------------
(* Proofs about ConfigRollout, for every set of bots, handlers, updates    *)
(* and exchanges and every bound on the versions.                          *)
EXTENDS ConfigRollout, TLAPS

(* What a handler is about to insert or to publish is a config. *)
RequestsAreConfigs == \A h \in Handlers : doing[h] # "idle" => request[h] \in Configs

IInv == TypeOK /\ RequestsAreConfigs /\ PublishedIsStored /\ NothingForgotten

-----------------------------------------------------------------------------
(* The elements of the sequences the actions build. *)
LEMMA AppendElements ==
  ASSUME NEW S, NEW s \in Seq(S), NEW e \in S
  PROVE  /\ Append(s, e) \in Seq(S)
         /\ Elements(Append(s, e)) = Elements(s) \cup {e}
<1>1. Append(s, e) \in Seq(S) /\ Len(Append(s, e)) = Len(s) + 1
  OBVIOUS
<1>2. \A i \in 1..Len(s) : Append(s, e)[i] = s[i]
  OBVIOUS
<1>3. Append(s, e)[Len(s) + 1] = e
  OBVIOUS
<1>4. Elements(Append(s, e)) \subseteq Elements(s) \cup {e}
  BY <1>1, <1>2, <1>3 DEF Elements
<1>5. Elements(s) \subseteq Elements(Append(s, e))
  BY <1>1, <1>2 DEF Elements
<1>6. e \in Elements(Append(s, e))
  BY <1>1, <1>3 DEF Elements
<1> QED
  BY <1>1, <1>4, <1>5, <1>6

LEMMA TailElements ==
  ASSUME NEW S, NEW s \in Seq(S), s # <<>>
  PROVE  /\ Head(s) \in Elements(s) /\ Head(s) \in S
         /\ Tail(s) \in Seq(S)
         /\ Elements(Tail(s)) \subseteq Elements(s)
<1>1. Len(s) \in Nat \ {0} /\ Head(s) = s[1]
  OBVIOUS
<1>2. Tail(s) \in Seq(S) /\ Len(Tail(s)) = Len(s) - 1
  OBVIOUS
<1>3. \A i \in 1..Len(Tail(s)) : Tail(s)[i] = s[i + 1]
  OBVIOUS
<1> QED
  BY <1>1, <1>2, <1>3 DEF Elements

LEMMA ConcatElements ==
  ASSUME NEW S, NEW s \in Seq(S), NEW t \in Seq(S)
  PROVE  s \o t \in Seq(S) /\ Elements(s \o t) = Elements(s) \cup Elements(t)
<1>1. s \o t \in Seq(S) /\ Len(s \o t) = Len(s) + Len(t)
  OBVIOUS
<1>2. \A i \in 1..Len(s) : (s \o t)[i] = s[i]
  OBVIOUS
<1>3. \A i \in 1..Len(t) : (s \o t)[Len(s) + i] = t[i]
  OBVIOUS
<1>4. \A i \in 1..Len(s \o t) :
        i \in 1..Len(s) \/ \E j \in 1..Len(t) : i = Len(s) + j
  <2> SUFFICES ASSUME NEW i \in 1..Len(s \o t), i \notin 1..Len(s)
               PROVE  \E j \in 1..Len(t) : i = Len(s) + j
    OBVIOUS
  <2>1. i - Len(s) \in 1..Len(t) /\ i = Len(s) + (i - Len(s))
    BY <1>1
  <2> QED
    BY <2>1
<1>5. \A j \in 1..Len(t) : Len(s) + j \in 1..Len(s \o t)
  BY <1>1
<1>6. \A i \in 1..Len(s) : i \in 1..Len(s \o t)
  BY <1>1
<1>7. Elements(s \o t) \subseteq Elements(s) \cup Elements(t)
  BY <1>1, <1>2, <1>3, <1>4 DEF Elements
<1>8. Elements(s) \subseteq Elements(s \o t)
  BY <1>1, <1>2, <1>6 DEF Elements
<1>9. Elements(t) \subseteq Elements(s \o t)
  <2> SUFFICES ASSUME NEW j \in 1..Len(t) PROVE t[j] \in Elements(s \o t)
    BY DEF Elements
  <2>1. Len(s) + j \in DOMAIN (s \o t) /\ (s \o t)[Len(s) + j] = t[j]
    BY <1>1, <1>3, <1>5
  <2> QED
    BY <2>1 DEF Elements
<1> QED
  BY <1>1, <1>7, <1>8, <1>9

LEMMA EmptyElements == Elements(<<>>) = {}
  BY DEF Elements

LEMMA OneElement ==
  ASSUME NEW S, NEW e \in S
  PROVE  <<e>> \in Seq(S) /\ Elements(<<e>>) = {e} /\ <<e>>[Len(<<e>>)] = e
  BY DEF Elements

LEMMA LastIsElement ==
  ASSUME NEW S, NEW s \in Seq(S), s # <<>>
  PROVE  s[Len(s)] \in Elements(s) /\ s[Len(s)] \in S
  BY DEF Elements

-----------------------------------------------------------------------------
LEMMA InitIInv == Init => IInv
<1> SUFFICES ASSUME Init PROVE IInv
  OBVIOUS
<1>1. \A b \in Bots : Initially(b) \in Configs
  BY ConstantsAssumption DEF Initially, Configs
<1>2. TypeOK
  BY <1>1, ConstantsAssumption DEF Init, TypeOK
<1>3. RequestsAreConfigs
  BY DEF Init, RequestsAreConfigs
<1>4. OneRowPerVersion
  BY DEF Init, OneRowPerVersion, Initially
<1>5. Published \subseteq stored
  BY EmptyElements DEF Init, Published
<1>6. NothingForgotten
  BY DEF Init, NothingForgotten
<1> QED
  BY <1>2, <1>3, <1>4, <1>5, <1>6 DEF IInv, PublishedIsStored

(* What Published says, part by part. *)
LEMMA PublishedParts ==
  Published \subseteq stored <=>
    /\ \A h \in Handlers : doing[h] = "publishing" => request[h] \in stored
    /\ Elements(stream) \subseteq stored
    /\ \A b \in Bots : /\ running[b] \in stored
                       /\ Elements(inbox[b]) \subseteq stored
                       /\ Elements(pending[b]) \subseteq stored
                       /\ Elements(repo[b]) \subseteq stored
  BY DEF Published

LEMMA RequestIInv ==
  ASSUME IInv, NEW h \in Handlers, NEW c \in Configs, Request(h, c)
  PROVE  IInv'
<1> USE DEF IInv, Request, runtime, PublishedIsStored
<1>1. TypeOK'
  BY DEF TypeOK
<1>2. RequestsAreConfigs'
  BY DEF TypeOK, RequestsAreConfigs
<1>3. OneRowPerVersion'
  BY DEF OneRowPerVersion
<1>4. (Published \subseteq stored)'
  <2>1. \A g \in Handlers : doing'[g] = "publishing" => doing[g] = "publishing" /\ request'[g] = request[g]
    BY DEF TypeOK
  <2> QED
    BY <2>1 DEF Published
<1>5. NothingForgotten'
  BY DEF NothingForgotten
<1> QED
  BY <1>1, <1>2, <1>3, <1>4, <1>5

LEMMA StoreIInv ==
  ASSUME IInv, NEW h \in Handlers, Store(h)
  PROVE  IInv'
<1> USE DEF IInv, Store, runtime, PublishedIsStored
<1>1. request[h] \in Configs
  BY DEF RequestsAreConfigs
<1>2. TypeOK'
  BY <1>1 DEF TypeOK, upsert
<1>3. RequestsAreConfigs'
  BY DEF TypeOK, RequestsAreConfigs, upsert
<1>4. OneRowPerVersion'
  BY DEF OneRowPerVersion, upsert
<1>5. stored \subseteq stored'
  BY DEF upsert
<1>6. \A g \in Handlers : doing'[g] = "publishing" => request'[g] \in stored'
  <2> SUFFICES ASSUME NEW g \in Handlers, doing'[g] = "publishing"
               PROVE  request'[g] \in stored'
    OBVIOUS
  <2>1. CASE g = h
    BY <2>1 DEF TypeOK, upsert
  <2>2. CASE g # h
    <3>1. doing[g] = "publishing" /\ request'[g] = request[g]
      BY <2>2 DEF TypeOK, upsert
    <3> QED
      BY <3>1, <1>5, PublishedParts
  <2> QED
    BY <2>1, <2>2
<1>7. (Published \subseteq stored)'
  BY <1>5, <1>6, PublishedParts DEF Published
<1>8. NothingForgotten'
  BY DEF NothingForgotten
<1> QED
  BY <1>2, <1>3, <1>4, <1>7, <1>8

LEMMA PublishIInv ==
  ASSUME IInv, NEW h \in Handlers, Publish(h)
  PROVE  IInv'
<1> USE DEF IInv, Publish, runtime, PublishedIsStored
<1>1. request[h] \in Configs /\ request[h] \in stored
  BY PublishedParts DEF RequestsAreConfigs
<1>2. stream' \in Seq(Configs) /\ Elements(stream') \subseteq stored
  <2>1. CASE stream' = Append(stream, request[h])
    BY <2>1, <1>1, AppendElements, PublishedParts DEF TypeOK
  <2>2. CASE stream' = stream
    BY <2>2, PublishedParts DEF TypeOK
  <2> QED
    BY <2>1, <2>2
<1>3. TypeOK'
  BY <1>2 DEF TypeOK
<1>4. RequestsAreConfigs'
  BY DEF TypeOK, RequestsAreConfigs
<1>5. OneRowPerVersion'
  BY DEF OneRowPerVersion
<1>6. \A g \in Handlers : doing'[g] = "publishing" => request'[g] \in stored
  BY PublishedParts DEF TypeOK
<1>7. (Published \subseteq stored)'
  BY <1>2, <1>6, PublishedParts DEF Published
<1>8. NothingForgotten'
  BY DEF NothingForgotten
<1> QED
  BY <1>3, <1>4, <1>5, <1>7, <1>8

-----------------------------------------------------------------------------
(* Steps of a runtime b that leave the API alone keep the invariant when   *)
(* they only move stored configs.                                          *)
LEMMA RuntimeStep ==
  ASSUME IInv, NEW b \in Bots, UNCHANGED api, TypeOK',
         Elements(stream') \subseteq stored,
         \A k \in Bots \ {b} :
           /\ running'[k] = running[k] /\ inbox'[k] = inbox[k]
           /\ pending'[k] = pending[k] /\ repo'[k] = repo[k]
           /\ taken'[k] = taken[k],
         running'[b] \in stored,
         Elements(inbox'[b]) \subseteq stored,
         Elements(pending'[b]) \subseteq stored,
         Elements(repo'[b]) \subseteq stored,
         taken'[b] \subseteq Elements(pending'[b]) \cup Elements(repo'[b])
  PROVE  IInv'
<1> USE DEF IInv, api, PublishedIsStored
<1>1. RequestsAreConfigs'
  BY DEF RequestsAreConfigs
<1>2. OneRowPerVersion'
  BY DEF OneRowPerVersion
<1>3. \A k \in Bots : /\ running'[k] \in stored /\ Elements(inbox'[k]) \subseteq stored
                      /\ Elements(pending'[k]) \subseteq stored
                      /\ Elements(repo'[k]) \subseteq stored
  <2> SUFFICES ASSUME NEW k \in Bots, k # b
               PROVE  /\ running'[k] \in stored /\ Elements(inbox'[k]) \subseteq stored
                      /\ Elements(pending'[k]) \subseteq stored
                      /\ Elements(repo'[k]) \subseteq stored
    OBVIOUS
  <2> QED
    BY PublishedParts
<1>4. \A h \in Handlers : doing'[h] = "publishing" => request'[h] \in stored
  BY PublishedParts
<1>5. (Published \subseteq stored)'
  BY <1>3, <1>4 DEF Published
<1>6. NothingForgotten'
  BY DEF NothingForgotten
<1> QED
  BY <1>1, <1>2, <1>5, <1>6

LEMMA ReadIInv == ASSUME IInv, NEW b \in Bots, Read(b) PROVE IInv'
<1> USE DEF IInv, Read, runtime, PublishedIsStored
<1>1. TypeOK'
  BY DEF TypeOK, api
<1>2. /\ inbox'[b] = stream /\ stream' = <<>>
      /\ \A k \in Bots \ {b} : inbox'[k] = inbox[k]
  BY DEF TypeOK
<1> QED
  BY <1>1, <1>2, EmptyElements, PublishedParts, RuntimeStep DEF NothingForgotten

(* What applying s, an accepted and stored sequence, does to b. *)
LEMMA ApplyFacts ==
  ASSUME IInv, NEW b \in Bots, NEW s \in Seq(Configs), s # <<>>,
         Elements(s) \subseteq stored, Apply(b, s)
  PROVE  /\ running' \in [Bots -> Configs] /\ running'[b] \in stored
         /\ repo' \in [Bots -> Seq(Configs)]
         /\ worker' = worker
         /\ Elements(repo'[b]) = Elements(repo[b]) \cup Elements(s)
         /\ Elements(repo'[b]) \subseteq stored
         /\ \A k \in Bots \ {b} : running'[k] = running[k] /\ repo'[k] = repo[k]
<1> USE DEF IInv, PublishedIsStored
<1>1. s[Len(s)] \in stored /\ s[Len(s)] \in Configs
  BY LastIsElement
<1>2. /\ repo[b] \o s \in Seq(Configs)
      /\ Elements(repo[b] \o s) = Elements(repo[b]) \cup Elements(s)
  BY ConcatElements DEF TypeOK
<1>3. repo'[b] = repo[b] \o s /\ repo' \in [Bots -> Seq(Configs)]
  BY <1>2 DEF Apply, TypeOK
<1>4. running'[b] = s[Len(s)] /\ running' \in [Bots -> Configs]
  BY <1>1 DEF Apply, TypeOK
<1>5. \A k \in Bots \ {b} : running'[k] = running[k] /\ repo'[k] = repo[k]
  BY DEF Apply, TypeOK
<1>6. Elements(repo[b]) \subseteq stored
  BY PublishedParts
<1>7. worker' = worker
  BY DEF Apply
<1> QED
  BY <1>1, <1>2, <1>3, <1>4, <1>5, <1>6, <1>7

LEMMA FlushIInv == ASSUME IInv, NEW b \in Bots, Flush(b) PROVE IInv'
<1> USE DEF IInv, PublishedIsStored
<1>1. pending[b] \in Seq(Configs) /\ pending[b] # <<>> /\ Elements(pending[b]) \subseteq stored
  BY PublishedParts DEF Flush, TypeOK
<1>2. Apply(b, pending[b])
  BY DEF Flush
<1>3. TypeOK'
  BY <1>1, <1>2, ApplyFacts DEF Flush, TypeOK, api
<1>4. /\ pending'[b] = <<>>
      /\ \A k \in Bots \ {b} : pending'[k] = pending[k]
      /\ UNCHANGED <<last, taken, api, stream, inbox>>
  BY DEF Flush, TypeOK
<1>5. taken'[b] \subseteq Elements(pending'[b]) \cup Elements(repo'[b])
  <2>1. Elements(repo'[b]) = Elements(repo[b]) \cup Elements(pending[b])
    BY <1>1, <1>2, ApplyFacts
  <2>2. taken'[b] \subseteq Elements(pending[b]) \cup Elements(repo[b])
    BY <1>4 DEF NothingForgotten
  <2> QED
    BY <2>1, <2>2
<1> QED
  BY <1>1, <1>2, <1>3, <1>4, <1>5, ApplyFacts, EmptyElements, PublishedParts, RuntimeStep

LEMMA HandleIInv == ASSUME IInv, NEW b \in Bots, Handle(b) PROVE IInv'
<1> USE DEF IInv, PublishedIsStored
<1> DEFINE c == Head(inbox[b])
<1>1. /\ c \in Configs /\ c \in stored
      /\ Tail(inbox[b]) \in Seq(Configs) /\ Elements(Tail(inbox[b])) \subseteq stored
  BY TailElements, PublishedParts DEF Handle, TypeOK
<1>2. /\ inbox' \in [Bots -> Seq(Configs)]
      /\ inbox'[b] = Tail(inbox[b])
      /\ \A k \in Bots \ {b} : inbox'[k] = inbox[k]
      /\ UNCHANGED <<api, stream, paused, flat>>
  BY <1>1 DEF Handle, TypeOK
<1>3. c.bot \in Bots /\ c.version \in 0..MaxVersion
  BY <1>1 DEF Configs
<1>4. CASE UNCHANGED runtime
  <2>1. TypeOK'
    BY <1>2, <1>4 DEF TypeOK, api, runtime
  <2> QED
    BY <1>1, <1>2, <1>4, <2>1, PublishedParts, RuntimeStep DEF runtime, NothingForgotten
<1>5. CASE /\ Apply(b, <<c>>)
           /\ last' = [last EXCEPT ![b][c.bot] = c.version]
           /\ taken' = [taken EXCEPT ![b] = @ \cup {c}]
           /\ UNCHANGED pending
  <2> HIDE DEF c
  <2>1. <<c>> \in Seq(Configs) /\ Elements(<<c>>) = {c} /\ <<c>> # <<>>
    BY <1>1, OneElement
  <2>2. /\ running' \in [Bots -> Configs] /\ running'[b] \in stored
        /\ repo' \in [Bots -> Seq(Configs)] /\ worker' = worker
        /\ Elements(repo'[b]) = Elements(repo[b]) \cup {c}
        /\ Elements(repo'[b]) \subseteq stored
        /\ \A k \in Bots \ {b} : running'[k] = running[k] /\ repo'[k] = repo[k]
    BY <1>1, <1>5, <2>1, ApplyFacts
  <2>3. last' \in [Bots -> [Bots -> 0..MaxVersion]]
    BY <1>3, <1>5 DEF TypeOK
  <2>4. /\ taken' \in [Bots -> SUBSET Configs] /\ taken'[b] = taken[b] \cup {c}
        /\ \A k \in Bots \ {b} : taken'[k] = taken[k]
    BY <1>1, <1>5 DEF TypeOK
  <2>5. TypeOK'
    BY <1>2, <1>5, <2>2, <2>3, <2>4 DEF TypeOK, api
  <2>6. taken'[b] \subseteq Elements(pending'[b]) \cup Elements(repo'[b])
    BY <1>5, <2>2, <2>4 DEF NothingForgotten
  <2> QED
    BY <1>1, <1>2, <1>5, <2>2, <2>4, <2>5, <2>6, PublishedParts, RuntimeStep
<1>6. CASE /\ pending' = [pending EXCEPT ![b] = Append(@, c)]
           /\ taken' = [taken EXCEPT ![b] = @ \cup {c}]
           /\ UNCHANGED <<last, repo, running, worker>>
  <2> HIDE DEF c
  <2>1. /\ Append(pending[b], c) \in Seq(Configs)
        /\ Elements(Append(pending[b], c)) = Elements(pending[b]) \cup {c}
    BY <1>1, AppendElements DEF TypeOK
  <2>2. /\ pending' \in [Bots -> Seq(Configs)] /\ pending'[b] = Append(pending[b], c)
        /\ \A k \in Bots \ {b} : pending'[k] = pending[k]
    BY <1>6, <2>1 DEF TypeOK
  <2>3. /\ taken' \in [Bots -> SUBSET Configs] /\ taken'[b] = taken[b] \cup {c}
        /\ \A k \in Bots \ {b} : taken'[k] = taken[k]
    BY <1>1, <1>6 DEF TypeOK
  <2>4. TypeOK'
    BY <1>2, <1>6, <2>2, <2>3 DEF TypeOK, api
  <2>5. taken'[b] \subseteq Elements(pending'[b]) \cup Elements(repo'[b])
    BY <1>6, <2>1, <2>2, <2>3 DEF NothingForgotten
  <2>6. Elements(pending'[b]) \subseteq stored
    BY <1>1, <2>1, <2>2, PublishedParts
  <2> QED
    BY <1>1, <1>2, <1>6, <2>2, <2>3, <2>4, <2>5, <2>6, PublishedParts, RuntimeStep
<1> QED
  BY <1>4, <1>5, <1>6 DEF Handle

LEMMA RestartIInv == ASSUME IInv, NEW b \in Bots, Restart(b) PROVE IInv'
<1> USE DEF IInv, PublishedIsStored
<1>1. PICK c \in stored : /\ running' = [running EXCEPT ![b] = c]
                          /\ worker' = [worker EXCEPT ![b] = c.exchange]
  BY DEF Restart
<1>2. c \in Configs /\ c.exchange \in Exchanges
  BY DEF TypeOK, Configs
<1>3. TypeOK'
  BY <1>1, <1>2, ConstantsAssumption DEF Restart, TypeOK, api
<1>4. /\ running'[b] = c /\ inbox'[b] = <<>> /\ pending'[b] = <<>> /\ repo'[b] = <<>>
      /\ taken'[b] = {} /\ UNCHANGED <<api, stream>>
  BY <1>1 DEF Restart, TypeOK
<1>5. \A k \in Bots \ {b} :
        /\ running'[k] = running[k] /\ inbox'[k] = inbox[k]
        /\ pending'[k] = pending[k] /\ repo'[k] = repo[k]
        /\ taken'[k] = taken[k]
  BY <1>1 DEF Restart, TypeOK
<1> QED
  BY <1>3, <1>4, <1>5, EmptyElements, PublishedParts, RuntimeStep

LEMMA SwitchesIInv == ASSUME IInv, NEW b \in Bots, Pause(b) \/ Trade(b) PROVE IInv'
<1> USE DEF IInv, PublishedIsStored
<1>1. TypeOK' /\ UNCHANGED <<api, stream, inbox, runtime>>
  BY DEF Pause, Trade, TypeOK, api, runtime
<1> QED
  BY <1>1, PublishedParts, RuntimeStep DEF runtime, NothingForgotten

LEMMA APIIInv == IInv /\ API => IInv'
<1> SUFFICES ASSUME IInv, NEW h \in Handlers,
                    \/ \E c \in Updates : Update(h, c)
                    \/ \E c \in stored : Rollback(h, c)
                    \/ Store(h) \/ Publish(h)
             PROVE  IInv'
  BY DEF API
<1>1. CASE \E c \in Updates : Update(h, c)
  BY <1>1, RequestIInv, ConstantsAssumption DEF Update
<1>2. CASE \E c \in stored : Rollback(h, c)
  <2>1. PICK c \in stored, next \in 1..MaxVersion : Request(h, [c EXCEPT !.version = next])
    BY <1>2 DEF Rollback
  <2>2. [c EXCEPT !.version = next] \in Configs
    BY DEF IInv, TypeOK, Configs
  <2> QED
    BY <2>1, <2>2, RequestIInv
<1> QED
  BY <1>1, <1>2, StoreIInv, PublishIInv

LEMMA NextIInv == IInv /\ [Next]_vars => IInv'
<1> SUFFICES ASSUME IInv, [Next]_vars PROVE IInv'
  OBVIOUS
<1>1. CASE UNCHANGED vars
  BY <1>1 DEF vars, api, runtime, IInv, TypeOK, RequestsAreConfigs, PublishedIsStored,
     OneRowPerVersion, Published, NothingForgotten
<1>2. CASE API
  BY <1>2, APIIInv
<1>3. ASSUME NEW b \in Bots, Runtime(b) \/ Pause(b) \/ Trade(b) \/ Restart(b) PROVE IInv'
  BY <1>3, ReadIInv, HandleIInv, FlushIInv, RestartIInv, SwitchesIInv DEF Runtime
<1> QED
  BY <1>1, <1>2, <1>3 DEF Next

LEMMA InvariantHolds == Spec => []IInv
  BY InitIInv, NextIInv, PTL DEF Spec

(* TypeOK in every reachable state. *)
THEOREM ConfigRolloutTypeCorrect == Spec => []TypeOK
<1>1. IInv => TypeOK
  BY DEF IInv
<1> QED
  BY <1>1, InvariantHolds, PTL

(* What is published, waits or runs is a row of bot_configs, and racing    *)
(* updates and rollbacks never give a version two rows.                    *)
THEOREM OnlyStoredConfigsTravel == Spec => []PublishedIsStored
<1>1. IInv => PublishedIsStored
  BY DEF IInv
<1> QED
  BY <1>1, InvariantHolds, PTL

(* A config a watcher accepted waits or has been applied. *)
THEOREM AcceptedConfigsAreKept == Spec => []NothingForgotten
<1>1. IInv => NothingForgotten
  BY DEF IInv
<1> QED
  BY <1>1, InvariantHolds, PTL
=============================================================================
