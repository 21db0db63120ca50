------------------------ MODULE FirestoreWritesProofs ------------------------
(***************************************************************************)
(* Proofs about FirestoreWrites, for any accounts, any number of writes,   *)
(* failures, logins and deaths, and a pipeline of any length.              *)
(***************************************************************************)
EXTENDS FirestoreWrites, SequenceTheorems, FiniteSetTheorems,
        WellFoundedInduction, TLAPS

-----------------------------------------------------------------------------
(* Queues and their fronts.                                                *)

(* Ids and writes grow along a queue. *)
Ascending(q) ==
  \A i, j \in 1 .. Len(q) : i < j => q[i].id < q[j].id /\ q[i].write < q[j].write

Prefix(p, q) == Len(p) <= Len(q) /\ \A i \in 1 .. Len(p) : p[i] = q[i]

Lesser(m, n) == IF m < n THEN m ELSE n

LEMMA NextIndex ==
  ASSUME NEW m \in Nat, NEW n \in Nat, m < n
  PROVE  m + 1 \in 1 .. n
OBVIOUS

LEMMA BatchFields ==
  ASSUME NEW b \in Batch
  PROVE  /\ b.id \in 1 .. MaxWrites /\ b.id \in Nat
         /\ b.write \in 1 .. MaxWrites /\ b.write \in Nat
BY FirestoreWritesAssumption DEF Batch, Write

LEMMA BatchesOf ==
  ASSUME NEW q \in Seq(Batch)
  PROVE  /\ Len(q) \in Nat
         /\ DOMAIN q = 1 .. Len(q)
         /\ \A i \in 1 .. Len(q) : q[i] \in Batch
         /\ \A i \in 1 .. Len(q) : /\ q[i].id \in 1 .. MaxWrites
                                   /\ q[i].id \in Nat
                                   /\ q[i].write \in 1 .. MaxWrites
                                   /\ q[i].write \in Nat
<1>1. Len(q) \in Nat /\ DOMAIN q = 1 .. Len(q)
  BY LenProperties
<1>2. \A i \in 1 .. Len(q) : q[i] \in Batch
  BY ElementOfSeq
<1> QED BY <1>1, <1>2, BatchFields

(* A set of natural numbers that has an element has a least one. *)
LEMMA LeastElement ==
  ASSUME NEW T, T \subseteq Nat, T # {}
  PROVE  \E n \in T : \A k \in T : n <= k
<1> PICK m \in T : TRUE OBVIOUS
<1> DEFINE E == {1 .. n : n \in {k \in T : k <= m}}
<1>1. IsFiniteSet(1 .. m)
  BY FS_Interval
<1>2. E \subseteq FiniteSubsetsOf(1 .. m)
  <2>1. E \subseteq SUBSET (1 .. m) OBVIOUS
  <2>2. FiniteSubsetsOf(1 .. m) = SUBSET (1 .. m)
    BY <1>1, FS_FiniteSubsetsOfFinite
  <2> QED BY <2>1, <2>2
<1>3. IsWellFoundedOn(StrictSubsetOrdering(1 .. m), FiniteSubsetsOf(1 .. m))
  BY FS_StrictSubsetOrderingWellFounded
<1>4. E # {} OBVIOUS
<1>5. PICK A \in E : \A B \in E : ~ (<<B, A>> \in StrictSubsetOrdering(1 .. m))
  <2> HIDE DEF E
  <2> QED BY <1>2, <1>3, <1>4, WFMin
<1>6. PICK n \in T : n <= m /\ A = 1 .. n
  BY <1>5
<1>7. ASSUME NEW k \in T, k < n PROVE FALSE
  <2>1. 1 .. k \in E
    BY <1>6, <1>7
  <2>2. <<1 .. k, 1 .. n>> \in StrictSubsetOrdering(1 .. m)
    BY <1>6, <1>7 DEF StrictSubsetOrdering
  <2> QED BY <1>5, <1>6, <2>1, <2>2
<1> QED BY <1>6, <1>7

(* A launch or a login finds an id above all that are in use, and no higher *)
(* than it has to be.                                                       *)
LEMMA NextIdIsFree ==
  ASSUME NEW queues \in [User -> Seq(Batch)]
  PROVE  LET n == LoadNextBatchId(queues)
         IN  /\ n \in 1 .. MaxWrites + 1
             /\ \A u \in User : \A i \in 1 .. Len(queues[u]) : queues[u][i].id < n
             /\ n # 1 => \E u \in User : \E i \in 1 .. Len(queues[u]) :
                            queues[u][i].id = n - 1
<1> DEFINE Above(n) == \A u \in User : \A i \in 1 .. Len(queues[u]) :
                         queues[u][i].id < n
           T == {n \in 1 .. MaxWrites + 1 : Above(n)}
           Good(n) == /\ Above(n)
                      /\ n # 1 => \E u \in User : \E i \in 1 .. Len(queues[u]) :
                                     queues[u][i].id = n - 1
<1>0. MaxWrites \in Nat
  BY FirestoreWritesAssumption
<1>1. \A u \in User : \A i \in 1 .. Len(queues[u]) :
        queues[u][i] \in Batch /\ queues[u][i].id \in 1 .. MaxWrites
  BY BatchesOf
<1>2. MaxWrites + 1 \in T
  BY <1>0, <1>1
<1>3. PICK n \in T : \A k \in T : n <= k
  <2>1. T \subseteq Nat BY <1>0
  <2> HIDE DEF T
  <2> QED BY <1>2, <2>1, LeastElement
<1>4. Good(n)
  <2> SUFFICES ASSUME n # 1
               PROVE  \E u \in User : \E i \in 1 .. Len(queues[u]) :
                         queues[u][i].id = n - 1
    BY <1>3
  <2>1. n - 1 \in 1 .. MaxWrites + 1 /\ n - 1 \notin T
    BY <1>0, <1>3
  <2>2. PICK u \in User : \E i \in 1 .. Len(queues[u]) : ~ (queues[u][i].id < n - 1)
    BY <2>1
  <2>3. PICK i \in 1 .. Len(queues[u]) : ~ (queues[u][i].id < n - 1)
    BY <2>2
  <2>4. queues[u][i].id < n
    BY <1>3
  <2>5. queues[u][i].id \in Int /\ n \in Int
    BY <1>0, <1>1
  <2>6. queues[u][i].id = n - 1
    BY <2>3, <2>4, <2>5
  <2> QED BY <2>6
<1>5. LoadNextBatchId(queues) = CHOOSE k \in 1 .. MaxWrites + 1 : Good(k)
  <2>1. \A u \in User : DOMAIN queues[u] = 1 .. Len(queues[u])
    BY LenProperties
  <2> QED BY <2>1 DEF LoadNextBatchId
<1>6. LoadNextBatchId(queues) \in 1 .. MaxWrites + 1 /\ Good(LoadNextBatchId(queues))
  <2>1. n \in 1 .. MaxWrites + 1 BY <1>3
  <2> HIDE DEF Good
  <2> QED BY <1>4, <1>5, <2>1
<1> QED BY <1>6

(* The pipeline tells how much of its queue it has taken. *)
LEMMA RetrievedIsLength ==
  ASSUME NEW q \in Seq(Batch), Ascending(q), NEW p \in Seq(Batch), Prefix(p, q)
  PROVE  Retrieved(q, p) = Len(p)
<1> DEFINE Taken(n) == \A i \in DOMAIN q :
                         i <= n <=> p # <<>> /\ q[i].id <= p[Len(p)].id
<1>1. /\ Len(q) \in Nat /\ Len(p) \in 0 .. Len(q)
      /\ DOMAIN q = 1 .. Len(q)
      /\ \A i \in 1 .. Len(q) : q[i].id \in Int
  BY BatchesOf DEF Prefix
<1>2. p # <<>> => Len(p) >= 1 /\ p[Len(p)] = q[Len(p)]
  BY <1>1, EmptySeq DEF Prefix
<1>3. p = <<>> => Len(p) = 0
  BY EmptySeq
<1>4. Taken(Len(p))
  BY <1>1, <1>2, <1>3 DEF Ascending
<1>5. ASSUME NEW n \in 0 .. Len(q), Taken(n)
      PROVE  n = Len(p)
  <2>1. ASSUME n < Len(p) PROVE FALSE
    BY <1>1, <1>4, <1>5, <2>1
  <2>2. ASSUME Len(p) < n PROVE FALSE
    BY <1>1, <1>4, <1>5, <2>2
  <2> QED BY <1>1, <2>1, <2>2
<1>6. Retrieved(q, p) = CHOOSE n \in 0 .. Len(q) : Taken(n)
  BY DEF Retrieved
<1> HIDE DEF Taken
<1> QED BY <1>1, <1>4, <1>5, <1>6

(* What FillWritePipeline adds makes the pipeline the front of its queue. *)
LEMMA FilledIsFront ==
  ASSUME NEW q \in Seq(Batch), Ascending(q),
         NEW p \in Seq(Batch), Prefix(p, q), Len(p) <= kMaxPendingWrites
  PROVE  /\ Added(q, p) \in Seq(Batch)
         /\ p \o Added(q, p) \in Seq(Batch)
         /\ Len(p \o Added(q, p)) = Lesser(Len(q), kMaxPendingWrites)
         /\ Prefix(p \o Added(q, p), q)
<1> DEFINE last == Lesser(Len(q), kMaxPendingWrites)
           added == SubSeq(q, Len(p) + 1, last)
<1>1. /\ Len(q) \in Nat /\ Len(p) \in 0 .. Len(q)
      /\ kMaxPendingWrites \in Nat \ {0}
      /\ \A i \in 1 .. Len(q) : q[i] \in Batch
  BY LenProperties, ElementOfSeq, FirestoreWritesAssumption DEF Prefix
<1>2. Added(q, p) = added
  BY <1>1, RetrievedIsLength DEF Added, Lesser
<1>3. last \in Len(p) .. Len(q)
  BY <1>1 DEF Lesser
<1>4. /\ added \in Seq(Batch)
      /\ Len(added) = last - Len(p)
      /\ \A i \in 1 .. last - Len(p) : added[i] = q[Len(p) + i]
  <2>1. \A i \in Len(p) + 1 .. last : q[i] \in Batch
    BY <1>1, <1>3
  <2>2. Len(p) + 1 \in Int /\ last \in Int
    BY <1>1, <1>3
  <2> HIDE DEF last
  <2>3. /\ added \in Seq(Batch)
        /\ Len(added) = IF Len(p) + 1 <= last THEN last - (Len(p) + 1) + 1 ELSE 0
        /\ \A i \in 1 .. last - (Len(p) + 1) + 1 : added[i] = q[Len(p) + 1 + i - 1]
    BY <2>1, <2>2, SubSeqProperties
  <2> QED BY <1>1, <1>3, <2>3
<1> HIDE DEF added, last
<1>5. /\ p \o added \in Seq(Batch)
      /\ Len(p \o added) = Len(p) + Len(added)
      /\ \A i \in 1 .. Len(p) + Len(added) : (p \o added)[i] =
            IF i <= Len(p) THEN p[i] ELSE added[i - Len(p)]
  BY <1>4, ConcatProperties
<1>6. Len(p \o added) = last
  BY <1>1, <1>3, <1>4, <1>5
<1>7. ASSUME NEW i \in 1 .. last PROVE (p \o added)[i] = q[i]
  <2>1. CASE i <= Len(p)
    BY <1>1, <1>3, <1>4, <1>5, <2>1 DEF Prefix
  <2>2. CASE i > Len(p)
    <3>1. i - Len(p) \in 1 .. last - Len(p)
      BY <1>1, <1>3, <2>2
    <3>2. added[i - Len(p)] = q[i]
      BY <1>1, <1>3, <1>4, <3>1
    <3>3. (p \o added)[i] = added[i - Len(p)]
      BY <1>1, <1>3, <1>4, <1>5, <2>2
    <3> QED BY <3>2, <3>3
  <2>3. i <= Len(p) \/ i > Len(p)
    BY <1>1, <1>3
  <2> QED BY <2>1, <2>2, <2>3
<1> QED BY <1>1, <1>2, <1>3, <1>4, <1>5, <1>6, <1>7 DEF Prefix, last

(* The batch that leaves a queue is its head. *)
LEMMA RemoveHead ==
  ASSUME NEW q \in Seq(Batch), q # <<>>, Ascending(q)
  PROVE  RemoveMutationBatch(q, q[1]) = Tail(q)
<1>1. /\ Len(q) \in Nat \ {0}
      /\ DOMAIN q = 1 .. Len(q)
      /\ \A i \in 1 .. Len(q) : q[i] \in Batch /\ q[i].id \in Int
  BY BatchesOf, EmptySeq
<1>2. (CHOOSE i \in DOMAIN q : q[i].id = q[1].id) = 1
  BY <1>1 DEF Ascending
<1>3. SubSeq(q, 1, 0) = <<>>
  BY SubSeqEmpty
<1>4. SubSeq(q, 2, Len(q)) = Tail(q) /\ Tail(q) \in Seq(Batch)
  BY TailIsSubSeq, HeadTailProperties
<1>5. RemoveMutationBatch(q, q[1]) = SubSeq(q, 1, 1 - 1) \o SubSeq(q, 1 + 1, Len(q))
  BY <1>2 DEF RemoveMutationBatch
<1>6. 1 - 1 = 0 /\ 1 + 1 = 2
  OBVIOUS
<1> QED BY <1>3, <1>4, <1>5, <1>6, ConcatEmptySeq

LEMMA TailOf ==
  ASSUME NEW q \in Seq(Batch), q # <<>>
  PROVE  /\ Len(q) \in Nat \ {0}
         /\ Head(q) = q[1] /\ q[1] \in Batch
         /\ Tail(q) \in Seq(Batch)
         /\ Len(Tail(q)) = Len(q) - 1
         /\ \A i \in 1 .. Len(q) - 1 : Tail(q)[i] = q[i + 1]
<1>1. Len(q) \in Nat \ {0}
  BY BatchesOf, EmptySeq
<1>2. /\ Head(q) \in Batch
      /\ Tail(q) \in Seq(Batch)
      /\ Len(Tail(q)) = Len(q) - 1
      /\ \A i \in 1 .. Len(Tail(q)) : Tail(q)[i] = q[i + 1]
  BY HeadTailProperties
<1>3. Head(q) = q[1]
  BY <1>1
<1> QED BY <1>1, <1>2, <1>3

LEMMA TailAscending ==
  ASSUME NEW q \in Seq(Batch), q # <<>>, Ascending(q)
  PROVE  Ascending(Tail(q))
BY TailOf DEF Ascending

(* A batch with a new id and a new write goes to the end of its queue.     *)
LEMMA AppendAscending ==
  ASSUME NEW q \in Seq(Batch), Ascending(q), NEW b \in Batch,
         \A i \in 1 .. Len(q) : q[i].id < b.id /\ q[i].write < b.write
  PROVE  /\ Append(q, b) \in Seq(Batch)
         /\ Len(Append(q, b)) = Len(q) + 1
         /\ Append(q, b)[Len(q) + 1] = b
         /\ \A i \in 1 .. Len(q) : Append(q, b)[i] = q[i]
         /\ Ascending(Append(q, b))
<1>1. Len(q) \in Nat
  BY BatchesOf
<1>2. /\ Append(q, b) \in Seq(Batch)
      /\ Len(Append(q, b)) = Len(q) + 1
      /\ Append(q, b)[Len(q) + 1] = b
      /\ \A i \in 1 .. Len(q) : Append(q, b)[i] = q[i]
  BY AppendProperties
<1>3. ASSUME NEW i \in 1 .. Len(q) + 1, NEW j \in 1 .. Len(q) + 1, i < j
      PROVE  /\ Append(q, b)[i].id < Append(q, b)[j].id
             /\ Append(q, b)[i].write < Append(q, b)[j].write
  <2>1. i \in 1 .. Len(q)
    BY <1>1, <1>3
  <2>2. CASE j = Len(q) + 1
    BY <1>2, <2>1, <2>2
  <2>3. CASE j \in 1 .. Len(q)
    BY <1>2, <1>3, <2>1, <2>3 DEF Ascending
  <2> QED BY <1>1, <2>2, <2>3
<1> QED BY <1>2, <1>3 DEF Ascending

-----------------------------------------------------------------------------
(* The inductive invariant.                                                *)

(* The queues, their ids and the callbacks. *)
IdsInUse ==
  \A u \in User : \A i \in 1 .. Len(batches[u]) :
    /\ batches[u][i].id < nextBatchId
    /\ batches[u][i].write <= Len(writer)
    /\ writer[batches[u][i].write] = u

QueuesInv ==
  /\ batches \in [User -> Seq(Batch)]
  /\ user \in User
  /\ nextBatchId \in 1 .. MaxWrites + 1
  /\ callbacks \in [User -> SUBSET Batch]
  /\ writer \in Seq(User) /\ Len(writer) <= MaxWrites
  /\ launched \in 0 .. MaxWrites
  /\ \A u \in User : Ascending(batches[u])
  /\ IdsInUse
  /\ nextBatchId <= Len(writer) + 1
  /\ launched <= Len(writer)
  /\ CallbacksRight

(* The pipeline and its stream. *)
StreamInv ==
  /\ pipeline \in Seq(Batch) /\ Len(pipeline) <= kMaxPendingWrites
  /\ state \in StreamState
  /\ handshakeComplete \in BOOLEAN
  /\ idle \in BOOLEAN
  /\ sent \in Seq(Batch)
  /\ served \in Nat
  /\ refusing \in BOOLEAN
  /\ PipelineIsQueue
  /\ RequestsMatch
  /\ StreamNeeded
  /\ IsStarted(state) /\ ~handshakeComplete => pipeline # <<>>
  /\ idle => handshakeComplete
  /\ refusing => sent[served + 1].write \in refused

HistoryTyped ==
  /\ applied \in [Write -> Nat]
  /\ refused \subseteq Write
  /\ unheard \subseteq Write
  /\ told \in Seq([write : Write, outcome : {"accepted", "rejected"}])
  /\ faults \in [breaks : Nat, logins : Nat, kills : Nat]

WritesInv == QueuesInv /\ StreamInv /\ HistoryTyped

LEMMA InvImpliesTypes ==
  WritesInv => TypeOK
BY DEF WritesInv, QueuesInv, StreamInv, HistoryTyped, TypeOK

(* The pipeline is the queue's front. *)
LEMMA PipelineIsFront ==
  ASSUME QueuesInv, StreamInv
  PROVE  /\ Prefix(pipeline, batches[user])
         /\ Len(pipeline) = Lesser(Len(batches[user]), kMaxPendingWrites)
         /\ batches[user] \in Seq(Batch) /\ Ascending(batches[user])
<1>1. batches[user] \in Seq(Batch) /\ Ascending(batches[user])
  BY DEF QueuesInv
<1>2. DOMAIN pipeline = 1 .. Len(pipeline) /\ Len(batches[user]) \in Nat
  BY <1>1, BatchesOf DEF StreamInv
<1>3. kMaxPendingWrites \in Nat
  BY FirestoreWritesAssumption
<1> QED
  BY <1>1, <1>2, <1>3 DEF StreamInv, PipelineIsQueue, Prefix, Lesser

(***************************************************************************)
(* FillWritePipeline, called with a pipeline that is some front of the     *)
(* queue, leaves the invariant of the stream.                              *)
(***************************************************************************)
LEMMA FillKeepsStream ==
  ASSUME NEW q \in Seq(Batch), Ascending(q), batches'[user'] = q,
         NEW p \in Seq(Batch), Prefix(p, q), Len(p) <= kMaxPendingWrites,
         NEW s \in StreamState, NEW hs \in BOOLEAN, NEW running \in BOOLEAN,
         NEW onWire, onWire = IF hs THEN p ELSE <<>>,
         hs => s = "Open",
         running => hs /\ p = <<>>,
         IsStarted(s) => hs \/ q # <<>>,
         FillWritePipeline(q, p, s, hs, running, onWire),
         served' \in Nat, refusing' \in BOOLEAN,
         served' <= IF hs THEN Len(p) ELSE 0,
         refusing' => /\ hs /\ served' < Len(p)
                      /\ p[served' + 1].write \in refused'
  PROVE  StreamInv'
<1> DEFINE filled == p \o Added(q, p)
<1>1. /\ Added(q, p) \in Seq(Batch)
      /\ filled \in Seq(Batch)
      /\ Len(filled) = Lesser(Len(q), kMaxPendingWrites)
      /\ Prefix(filled, q)
  BY FilledIsFront
<1>2. /\ Len(q) \in Nat /\ Len(p) \in Nat /\ Len(filled) \in Nat
      /\ kMaxPendingWrites \in Nat \ {0}
      /\ DOMAIN filled = 1 .. Len(filled)
  BY <1>1, BatchesOf, FirestoreWritesAssumption
<1>3. Len(filled) <= kMaxPendingWrites /\ Len(p) <= Len(filled)
  BY <1>1, <1>2 DEF Lesser, Prefix
<1>4. \A i \in 1 .. Len(p) : filled[i] = p[i]
  BY <1>1, <1>2, <1>3 DEF Prefix
<1>5. filled = <<>> <=> q = <<>>
  <2>1. Len(filled) = 0 <=> Len(q) = 0
    BY <1>1, <1>2 DEF Lesser
  <2> QED BY <1>1, <1>2, <2>1, EmptySeq
<1>6. p # <<>> => filled # <<>>
  BY <1>1, <1>2, <1>3, EmptySeq
<1>7. filled = <<>> => p = <<>> /\ Added(q, p) = <<>>
  BY <1>1, <1>6, ConcatProperties, EmptySeq, BatchesOf
<1>8. /\ pipeline' = filled
      /\ sent' = IF s = "Open" /\ hs THEN onWire \o Added(q, p) ELSE onWire
      /\ idle' = \/ filled = <<>> /\ s = "Open"
                 \/ running /\ ~(s = "Open" /\ hs /\ Added(q, p) # <<>>)
      /\ state' = IF filled # <<>> /\ ~IsStarted(s) THEN Started(s) ELSE s
      /\ handshakeComplete' = hs
  BY DEF FillWritePipeline
<1>9. p = <<>> /\ Added(q, p) = <<>> => filled = <<>>
  BY ConcatEmptySeq
<1> HIDE DEF filled
<1>10. sent' = IF handshakeComplete' THEN pipeline' ELSE <<>>
  BY <1>8 DEF filled
<1>11. state' \in StreamState /\ (filled # <<>> => IsStarted(state'))
  BY <1>8 DEF Started, StreamState, IsStarted
<1>12. idle' \in BOOLEAN /\ (idle' => filled = <<>> /\ s = "Open" /\ hs)
  <2>1. filled = <<>> /\ s = "Open" => hs
    BY <1>5 DEF IsStarted
  <2>2. running /\ ~(s = "Open" /\ hs /\ Added(q, p) # <<>>) =>
          filled = <<>> /\ s = "Open" /\ hs
    BY <1>9
  <2> QED BY <1>8, <2>1, <2>2
<1>13. hs => state' = "Open"
  BY <1>8 DEF IsStarted
<1>14. idle' => state' = "Open"
  BY <1>12, <1>13
<1>15. IsStarted(state') /\ ~hs => filled # <<>>
  BY <1>5, <1>8 DEF Started, IsStarted
<1>16. PipelineIsQueue'
  BY <1>1, <1>2, <1>8 DEF PipelineIsQueue, Lesser, Prefix
<1>17. sent' \in Seq(Batch)
  <2>1. <<>> \in Seq(Batch)
    BY EmptySeq
  <2> QED BY <1>1, <1>8, <1>10, <2>1 DEF filled
<1>18. Len(<<>>) = 0
  OBVIOUS
<1>19. RequestsMatch'
  <2>1. CASE hs
    <3>1. served' <= Len(p) /\ (refusing' => served' < Len(p))
      BY <2>1
    <3>2. served' <= Len(filled) /\ (refusing' => served' < Len(filled))
      BY <1>2, <1>3, <3>1
    <3>3. sent' = filled
      BY <1>8, <1>10, <2>1
    <3> QED BY <1>10, <3>2, <3>3 DEF RequestsMatch
  <2>2. CASE ~hs
    <3>1. served' <= 0 /\ ~refusing'
      BY <2>2
    <3>2. sent' = <<>>
      BY <1>8, <1>10, <2>2
    <3> QED BY <1>10, <1>18, <3>1, <3>2 DEF RequestsMatch
  <2> QED BY <2>1, <2>2
<1>20. refusing' => sent'[served' + 1].write \in refused'
  <2> SUFFICES ASSUME refusing' PROVE sent'[served' + 1].write \in refused'
    OBVIOUS
  <2>1. hs /\ served' < Len(p) /\ p[served' + 1].write \in refused'
    OBVIOUS
  <2>2. served' + 1 \in 1 .. Len(p)
    BY <1>2, <2>1, NextIndex
  <2>3. sent' = filled
    BY <1>8, <1>10, <2>1
  <2> QED BY <1>4, <2>1, <2>2, <2>3
<1>21. StreamNeeded'
  BY <1>8, <1>11, <1>12, <1>13, <1>14 DEF StreamNeeded
<1>22. handshakeComplete' \in BOOLEAN /\ pipeline' \in Seq(Batch)
       /\ Len(pipeline') <= kMaxPendingWrites
  BY <1>1, <1>3, <1>8 DEF filled
<1>23. (idle => handshakeComplete)'
       /\ (IsStarted(state) /\ ~handshakeComplete => pipeline # <<>>)'
  BY <1>8, <1>12, <1>15
<1> QED
  BY <1>11, <1>12, <1>16, <1>17, <1>19, <1>20, <1>21, <1>22, <1>23
     DEF StreamInv

(* The same, for a stream that has been stopped. *)
LEMMA FillStoppedStream ==
  ASSUME NEW q \in Seq(Batch), Ascending(q), batches'[user'] = q,
         NEW p \in Seq(Batch), Prefix(p, q), Len(p) <= kMaxPendingWrites,
         NEW s \in StreamState, ~IsStarted(s),
         FillWritePipeline(q, p, s, FALSE, FALSE, <<>>),
         served' = 0, refusing' = FALSE
  PROVE  StreamInv'
<1> DEFINE hs == FALSE
           running == FALSE
           onWire == <<>>
<1>1. FillWritePipeline(q, p, s, hs, running, onWire)
  OBVIOUS
<1>2. /\ hs \in BOOLEAN /\ running \in BOOLEAN
      /\ onWire = IF hs THEN p ELSE <<>>
      /\ ~hs /\ ~running
  OBVIOUS
<1>3. served' \in Nat
  OBVIOUS
<1>5. refusing' \in BOOLEAN /\ ~refusing'
  OBVIOUS
<1>4. served' <= IF hs THEN Len(p) ELSE 0
  OBVIOUS
<1> HIDE DEF hs, running, onWire
<1> QED BY <1>1, <1>2, <1>3, <1>4, <1>5, FillKeepsStream

-----------------------------------------------------------------------------
(* What the handlers do to the queues.                                     *)

(* The first batch of the pipeline is the first of the queue, and the only *)
(* callback that NotifyUser finds for it is its own.                       *)
LEMMA HeadOfPipeline ==
  ASSUME QueuesInv, StreamInv, pipeline # <<>>
  PROVE  /\ batches[user] # <<>>
         /\ Head(pipeline) = batches[user][1]
         /\ Head(pipeline) \in Batch
         /\ RemoveMutationBatch(batches[user], Head(pipeline)) = Tail(batches[user])
         /\ {c \in callbacks[user] : c.id = Head(pipeline).id} =
              IF Head(pipeline).write > launched THEN {Head(pipeline)} ELSE {}
<1> DEFINE q == batches[user]
<1>1. /\ q \in Seq(Batch) /\ Ascending(q) /\ Prefix(pipeline, q)
      /\ pipeline \in Seq(Batch)
  BY PipelineIsFront DEF StreamInv
<1>2. Len(pipeline) \in Nat \ {0} /\ Len(pipeline) <= Len(q) /\ Len(q) \in Nat
  BY <1>1, BatchesOf, TailOf DEF Prefix
<1>3. q # <<>>
  BY <1>2, EmptySeq
<1>4. Head(pipeline) = pipeline[1] /\ pipeline[1] = q[1] /\ q[1] \in Batch
  BY <1>1, <1>2, <1>3, TailOf DEF Prefix
<1>5. RemoveMutationBatch(q, Head(pipeline)) = Tail(q)
  BY <1>1, <1>3, <1>4, RemoveHead
<1>6. callbacks[user] = {b \in {q[i] : i \in 1 .. Len(q)} : b.write > launched}
  BY <1>1, BatchesOf DEF QueuesInv, CallbacksRight
<1>7. \A i \in 1 .. Len(q) : q[i].id = q[1].id => i = 1
  BY <1>1, <1>2, BatchesOf DEF Ascending
<1>8. {c \in callbacks[user] : c.id = q[1].id} =
        IF q[1].write > launched THEN {q[1]} ELSE {}
  BY <1>2, <1>6, <1>7
<1> QED BY <1>3, <1>4, <1>5, <1>8

(* The head of the queue leaves it with its callback. *)
LEMMA HeadLeaves ==
  ASSUME QueuesInv, StreamInv, pipeline # <<>>,
         batches' = [batches EXCEPT ![user] =
                       RemoveMutationBatch(@, Head(pipeline))],
         callbacks' = [callbacks EXCEPT ![user] =
                         @ \ {c \in callbacks[user] : c.id = Head(pipeline).id}],
         UNCHANGED <<user, nextBatchId, writer, launched>>
  PROVE  QueuesInv'
<1> DEFINE q == batches[user]
           t == Tail(q)
<1>1. q \in Seq(Batch) /\ Ascending(q) /\ q # <<>> /\ user \in User
  BY HeadOfPipeline DEF QueuesInv
<1>2. /\ t \in Seq(Batch) /\ Ascending(t) /\ Len(t) = Len(q) - 1
      /\ Len(q) \in Nat \ {0}
      /\ \A i \in 1 .. Len(q) - 1 : t[i] = q[i + 1]
  BY <1>1, TailOf, TailAscending
<1>3. batches' = [batches EXCEPT ![user] = t]
  BY HeadOfPipeline DEF QueuesInv
<1>4. /\ batches' \in [User -> Seq(Batch)]
      /\ \A u \in User : Ascending(batches'[u])
  BY <1>2, <1>3 DEF QueuesInv
<1>5. IdsInUse'
  <2> SUFFICES ASSUME NEW u \in User, NEW i \in 1 .. Len(batches'[u])
               PROVE  /\ batches'[u][i].id < nextBatchId
                      /\ batches'[u][i].write <= Len(writer)
                      /\ writer[batches'[u][i].write] = u
    BY DEF IdsInUse
  <2>1. CASE u = user
    <3>1. batches'[u] = t
      BY <1>1, <1>3, <2>1 DEF QueuesInv
    <3>2. i + 1 \in 1 .. Len(q) /\ t[i] = q[i + 1]
      <4>1. i \in 1 .. Len(q) - 1
        BY <1>2, <3>1
      <4> HIDE DEF q, t
      <4> QED BY <1>2, <4>1
    <3>3. /\ q[i + 1].id < nextBatchId
          /\ q[i + 1].write <= Len(writer)
          /\ writer[q[i + 1].write] = user
      BY <1>1, <3>2 DEF QueuesInv, IdsInUse
    <3> QED BY <2>1, <3>1, <3>2, <3>3
  <2>2. CASE u # user
    BY <1>3, <2>2 DEF QueuesInv, IdsInUse
  <2> QED BY <2>1, <2>2
<1>6. callbacks' \in [User -> SUBSET Batch]
  BY DEF QueuesInv
<1>7. CallbacksRight'
  <2> SUFFICES ASSUME NEW u \in User
               PROVE  callbacks'[u] =
                        {b \in {batches'[u][i] : i \in DOMAIN batches'[u]} :
                           b.write > launched}
    BY DEF CallbacksRight
  <2>1. CASE u = user
    <3>1. batches'[u] = t /\ DOMAIN t = 1 .. Len(q) - 1
      BY <1>1, <1>2, <1>3, <2>1, BatchesOf DEF QueuesInv
    <3>2. callbacks[u] = {b \in {q[i] : i \in 1 .. Len(q)} : b.write > launched}
      BY <1>1, <2>1, BatchesOf DEF QueuesInv, CallbacksRight
    <3>3. callbacks'[u] = {c \in callbacks[u] : c.id # q[1].id}
      BY <2>1, HeadOfPipeline DEF QueuesInv
    <3>4. \A i \in 1 .. Len(q) : q[i].id # q[1].id <=> i # 1
      BY <1>1, <1>2, BatchesOf DEF Ascending
    <3>5. {b \in {q[i] : i \in 1 .. Len(q)} : b.id # q[1].id} =
            {q[i] : i \in (1 .. Len(q)) \ {1}}
      BY <3>4
    <3>6. {q[i] : i \in (1 .. Len(q)) \ {1}} = {t[i] : i \in 1 .. Len(q) - 1}
      <4>1. \A i \in (1 .. Len(q)) \ {1} : i - 1 \in 1 .. Len(q) - 1 /\ q[i] = t[i - 1]
        BY <1>2
      <4>2. \A i \in 1 .. Len(q) - 1 : i + 1 \in (1 .. Len(q)) \ {1} /\ t[i] = q[i + 1]
        BY <1>2
      <4> HIDE DEF q, t
      <4> QED BY <4>1, <4>2
    <3> DEFINE Q == {q[i] : i \in 1 .. Len(q)}
               T == {t[i] : i \in 1 .. Len(q) - 1}
    <3>7. T = {b \in Q : b.id # q[1].id}
      BY <3>5, <3>6
    <3>8. callbacks'[u] = {c \in {b \in Q : b.write > launched} : c.id # q[1].id}
      BY <3>2, <3>3
    <3>9. {batches'[u][i] : i \in DOMAIN batches'[u]} = T
      BY <3>1
    <3> HIDE DEF Q, T
    <3>10. callbacks'[u] = {b \in T : b.write > launched}
      BY <3>7, <3>8
    <3> QED BY <3>9, <3>10
  <2>2. CASE u # user
    BY <1>3, <2>2 DEF QueuesInv, CallbacksRight
  <2> QED BY <2>1, <2>2
<1> QED BY <1>4, <1>5, <1>6, <1>7 DEF QueuesInv

(* The ids that are given again are free. *)
LEMMA NewIds ==
  ASSUME QueuesInv,
         NEW queues \in [User -> Seq(Batch)],
         \A u \in User : \A i \in 1 .. Len(queues[u]) :
           queues[u][i].id < nextBatchId
  PROVE  /\ LoadNextBatchId(queues) \in 1 .. MaxWrites + 1
         /\ \A u \in User : \A i \in 1 .. Len(queues[u]) :
              queues[u][i].id < LoadNextBatchId(queues)
         /\ LoadNextBatchId(queues) <= Len(writer) + 1
<1> DEFINE n == LoadNextBatchId(queues)
<1>1. /\ n \in 1 .. MaxWrites + 1
      /\ \A u \in User : \A i \in 1 .. Len(queues[u]) : queues[u][i].id < n
      /\ n # 1 => \E u \in User : \E i \in 1 .. Len(queues[u]) :
                     queues[u][i].id = n - 1
  BY NextIdIsFree
<1>2. Len(writer) \in Nat /\ nextBatchId \in Nat /\ nextBatchId <= Len(writer) + 1
  BY LenProperties DEF QueuesInv
<1>3. n - 1 < nextBatchId \/ n = 1
  BY <1>1
<1>4. n \in Int
  BY <1>1, FirestoreWritesAssumption
<1> HIDE DEF n
<1>5. n <= Len(writer) + 1
  BY <1>2, <1>3, <1>4
<1> QED BY <1>1, <1>5 DEF n

(* A launch, from queues that are what is on disk or a part of it. *)
LEMMA LaunchKeeps ==
  ASSUME QueuesInv, NEW queues, Launch(queues),
         queues \in [User -> Seq(Batch)],
         \A u \in User : Ascending(queues[u]),
         \A u \in User : \A i \in 1 .. Len(queues[u]) :
            /\ queues[u][i].id < nextBatchId
            /\ queues[u][i].write <= Len(writer)
            /\ writer[queues[u][i].write] = u,
         UNCHANGED <<user, writer>>, served' = 0, refusing' = FALSE
  PROVE  QueuesInv' /\ StreamInv'
<1>1. /\ batches' = queues
      /\ nextBatchId' = LoadNextBatchId(queues)
      /\ callbacks' = [u \in User |-> {}]
      /\ launched' = Len(writer)
      /\ FillWritePipeline(queues[user], <<>>, "Initial", FALSE, FALSE, <<>>)
  BY DEF Launch
<1>2. /\ nextBatchId' \in 1 .. MaxWrites + 1
      /\ nextBatchId' <= Len(writer) + 1
      /\ \A u \in User : \A i \in 1 .. Len(queues[u]) : queues[u][i].id < nextBatchId'
  BY <1>1, NewIds
<1>3. IdsInUse'
  BY <1>1, <1>2 DEF IdsInUse
<1>4. Len(writer) \in 0 .. MaxWrites /\ Len(writer) <= Len(writer)
  BY LenProperties, FirestoreWritesAssumption DEF QueuesInv
<1>5. CallbacksRight'
  <2> SUFFICES ASSUME NEW u \in User
               PROVE  {b \in {queues[u][i] : i \in DOMAIN queues[u]} :
                         b.write > Len(writer)} = {}
    BY <1>1 DEF CallbacksRight
  <2>1. \A i \in DOMAIN queues[u] :
          queues[u][i].write <= Len(writer) /\ queues[u][i].write \in Nat
    BY BatchesOf
  <2> QED BY <1>4, <2>1
<1>6. callbacks' \in [User -> SUBSET Batch]
  BY <1>1
<1>7. QueuesInv'
  BY <1>1, <1>2, <1>3, <1>4, <1>5, <1>6 DEF QueuesInv
<1>8. /\ queues[user] \in Seq(Batch) /\ Ascending(queues[user])
      /\ batches'[user'] = queues[user]
      /\ <<>> \in Seq(Batch) /\ Len(<<>>) = 0
  BY <1>1, EmptySeq DEF QueuesInv
<1>9. Prefix(<<>>, queues[user]) /\ Len(<<>>) <= kMaxPendingWrites
  BY <1>8, BatchesOf, FirestoreWritesAssumption DEF Prefix
<1>10. StreamInv'
  <2>1. "Initial" \in StreamState /\ ~IsStarted("Initial")
    BY DEF StreamState, IsStarted
  <2> QED BY <1>1, <1>8, <1>9, <2>1, FillStoppedStream
<1> QED BY <1>7, <1>10

-----------------------------------------------------------------------------
(* Each handler keeps the invariant.                                       *)

LEMMA WriteKeeps ==
  ASSUME WritesInv, WriteMutations
  PROVE  QueuesInv' /\ StreamInv'
<1> DEFINE b == [id |-> nextBatchId, write |-> Len(writer) + 1]
           q == batches[user]
<1>1. QueuesInv /\ StreamInv
  BY DEF WritesInv
<1>2. /\ Len(writer) < MaxWrites
      /\ writer' = Append(writer, user)
      /\ batches' = [batches EXCEPT ![user] = Append(@, b)]
      /\ nextBatchId' = nextBatchId + 1
      /\ RegisterCallback(b)
      /\ FillWritePipeline(batches'[user], pipeline, state, handshakeComplete,
                           idle, sent)
      /\ UNCHANGED <<user, served, refusing, refused, launched>>
  BY DEF WriteMutations
<1>3. /\ Len(writer) \in Nat /\ MaxWrites \in Nat
      /\ nextBatchId \in Nat \ {0} /\ nextBatchId <= Len(writer) + 1
      /\ user \in User
  BY <1>1, LenProperties, FirestoreWritesAssumption DEF QueuesInv
<1>4. b \in Batch /\ b.id = nextBatchId /\ b.write = Len(writer) + 1
  BY <1>2, <1>3 DEF Batch, Write
<1>5. /\ writer' \in Seq(User) /\ Len(writer') = Len(writer) + 1
      /\ \A w \in 1 .. Len(writer) : writer'[w] = writer[w]
      /\ writer'[Len(writer) + 1] = user
  BY <1>1, <1>2, <1>3, AppendProperties DEF QueuesInv
<1>6. /\ q \in Seq(Batch) /\ Ascending(q) /\ Prefix(pipeline, q)
      /\ pipeline \in Seq(Batch) /\ Len(pipeline) \in Nat /\ Len(q) \in Nat
      /\ \A i \in 1 .. Len(q) : q[i].id < nextBatchId /\ q[i].write <= Len(writer)
  BY <1>1, <1>3, PipelineIsFront, BatchesOf DEF StreamInv, QueuesInv, IdsInUse
<1> HIDE DEF b
<1>7. /\ Append(q, b) \in Seq(Batch)
      /\ Len(Append(q, b)) = Len(q) + 1
      /\ Append(q, b)[Len(q) + 1] = b
      /\ \A i \in 1 .. Len(q) : Append(q, b)[i] = q[i]
      /\ Ascending(Append(q, b))
  <2>1. \A i \in 1 .. Len(q) : q[i].id < b.id /\ q[i].write < b.write
    BY <1>3, <1>4, <1>6, BatchesOf
  <2> QED BY <1>4, <1>6, <2>1, AppendAscending
<1>8. /\ batches' \in [User -> Seq(Batch)]
      /\ batches'[user] = Append(q, b)
      /\ \A u \in User : u # user => batches'[u] = batches[u]
      /\ \A u \in User : Ascending(batches'[u])
  BY <1>1, <1>2, <1>3, <1>7 DEF QueuesInv
<1> HIDE DEF q
<1>9. IdsInUse'
  <2> SUFFICES ASSUME NEW u \in User, NEW i \in 1 .. Len(batches'[u])
               PROVE  /\ batches'[u][i].id < nextBatchId'
                      /\ batches'[u][i].write <= Len(writer')
                      /\ writer'[batches'[u][i].write] = u
    BY DEF IdsInUse
  <2>1. CASE u = user /\ i = Len(q) + 1
    BY <1>2, <1>3, <1>4, <1>5, <1>7, <1>8, <2>1
  <2>2. CASE ~(u = user /\ i = Len(q) + 1)
    <3>1. i \in 1 .. Len(batches[u]) /\ batches'[u][i] = batches[u][i]
      BY <1>6, <1>7, <1>8, <2>2 DEF q
    <3>2. /\ batches[u][i].id < nextBatchId
          /\ batches[u][i].write <= Len(writer)
          /\ writer[batches[u][i].write] = u
          /\ batches[u][i].id \in Nat
          /\ batches[u][i].write \in 1 .. MaxWrites
      BY <1>1, <3>1, BatchesOf DEF QueuesInv, IdsInUse
    <3>3. batches[u][i].write \in 1 .. Len(writer)
      BY <1>3, <3>2
    <3> QED BY <1>2, <1>3, <1>5, <3>1, <3>2, <3>3
  <2> QED BY <2>1, <2>2
<1>10. \A c \in callbacks[user] : c.id # b.id
  <2>1. callbacks[user] \subseteq {q[i] : i \in 1 .. Len(q)}
    BY <1>1, <1>3, <1>6, BatchesOf DEF QueuesInv, CallbacksRight, q
  <2> QED BY <1>3, <1>4, <1>6, <2>1, BatchesOf
<1>11. callbacks' = [callbacks EXCEPT ![user] = @ \cup {b}]
  BY <1>2, <1>10 DEF RegisterCallback
<1>12. callbacks' \in [User -> SUBSET Batch]
  BY <1>1, <1>4, <1>11 DEF QueuesInv
<1>13. CallbacksRight'
  <2> SUFFICES ASSUME NEW u \in User
               PROVE  callbacks'[u] =
                        {c \in {batches'[u][i] : i \in DOMAIN batches'[u]} :
                           c.write > launched}
    BY <1>2 DEF CallbacksRight
  <2>1. CASE u = user
    <3>1. batches'[u] = Append(q, b) /\ DOMAIN Append(q, b) = 1 .. Len(q) + 1
      BY <1>7, <1>8, <2>1, BatchesOf
    <3>2. callbacks[u] = {c \in {q[i] : i \in 1 .. Len(q)} : c.write > launched}
      BY <1>1, <1>3, <1>6, <2>1, BatchesOf DEF QueuesInv, CallbacksRight, q
    <3>3. callbacks'[u] = callbacks[u] \cup {b}
      BY <1>1, <1>3, <1>11, <2>1 DEF QueuesInv
    <3>4. {Append(q, b)[i] : i \in 1 .. Len(q) + 1} =
            {q[i] : i \in 1 .. Len(q)} \cup {b}
      <4>1. \A i \in 1 .. Len(q) + 1 : i = Len(q) + 1 \/ i \in 1 .. Len(q)
        BY <1>6
      <4>2. Len(q) + 1 \in 1 .. Len(q) + 1
            /\ \A i \in 1 .. Len(q) : i \in 1 .. Len(q) + 1
        BY <1>6
      <4> QED BY <1>7, <4>1, <4>2
    <3>5. b.write > launched
      BY <1>1, <1>3, <1>4 DEF QueuesInv
    <3> QED BY <3>1, <3>2, <3>3, <3>4, <3>5
  <2>2. CASE u # user
    BY <1>1, <1>8, <1>11, <2>2 DEF QueuesInv, CallbacksRight
  <2> QED BY <2>1, <2>2
<1>14. QueuesInv'
  <2>1. /\ nextBatchId' \in 1 .. MaxWrites + 1
        /\ nextBatchId' <= Len(writer') + 1
        /\ Len(writer') <= MaxWrites
    BY <1>2, <1>3, <1>5
  <2>2. launched' \in 0 .. MaxWrites /\ launched' <= Len(writer')
    BY <1>1, <1>2, <1>3, <1>5 DEF QueuesInv
  <2>3. user' \in User
    BY <1>2, <1>3
  <2> QED
    BY <1>5, <1>8, <1>9, <1>12, <1>13, <2>1, <2>2, <2>3 DEF QueuesInv
<1>15. StreamInv'
  <2>1. Prefix(pipeline, Append(q, b))
    BY <1>6, <1>7 DEF Prefix
  <2>2. Append(q, b) # <<>>
    BY <1>6, <1>7, EmptySeq
  <2>3. /\ batches'[user'] = Append(q, b)
        /\ FillWritePipeline(Append(q, b), pipeline, state, handshakeComplete,
                             idle, sent)
    BY <1>2, <1>8
  <2>4. /\ Len(pipeline) <= kMaxPendingWrites
        /\ state \in StreamState
        /\ handshakeComplete \in BOOLEAN
        /\ idle \in BOOLEAN
        /\ sent = IF handshakeComplete THEN pipeline ELSE <<>>
        /\ handshakeComplete => state = "Open"
        /\ idle => handshakeComplete /\ pipeline = <<>>
    BY <1>1 DEF StreamInv, RequestsMatch, StreamNeeded
  <2>5. served' \in Nat /\ refusing' \in BOOLEAN
    BY <1>1, <1>2 DEF StreamInv
  <2>6. served' <= IF handshakeComplete THEN Len(pipeline) ELSE 0
    BY <1>1, <1>2, <2>4 DEF StreamInv, RequestsMatch
  <2>7. refusing' => /\ handshakeComplete /\ served' < Len(pipeline)
                     /\ pipeline[served' + 1].write \in refused'
    BY <1>1, <1>2, <2>4 DEF StreamInv, RequestsMatch
  <2> QED
    BY <1>6, <1>7, <2>1, <2>2, <2>3, <2>4, <2>5, <2>6, <2>7, FillKeepsStream
<1> QED BY <1>14, <1>15

LEMMA CredentialChangeKeeps ==
  ASSUME WritesInv, NEW u \in User, HandleCredentialChange(u)
  PROVE  QueuesInv' /\ StreamInv'
<1>1. QueuesInv /\ StreamInv
  BY DEF WritesInv
<1>2. /\ user' = u
      /\ nextBatchId' = IF u = user THEN nextBatchId ELSE LoadNextBatchId(batches)
      /\ served' = 0
      /\ refusing' = FALSE
      /\ FillWritePipeline(batches[u], <<>>, StoppedStream, FALSE, FALSE, <<>>)
      /\ UNCHANGED <<batches, callbacks, writer, launched>>
  BY DEF HandleCredentialChange, Disconnect
<1>3. /\ nextBatchId' \in 1 .. MaxWrites + 1
      /\ nextBatchId' <= Len(writer) + 1
      /\ \A v \in User : \A i \in 1 .. Len(batches[v]) :
           batches[v][i].id < nextBatchId'
  <2>1. CASE u = user
    BY <1>1, <1>2, <2>1 DEF QueuesInv, IdsInUse
  <2>2. CASE u # user
    <3>1. /\ batches \in [User -> Seq(Batch)]
          /\ \A v \in User : \A i \in 1 .. Len(batches[v]) :
               batches[v][i].id < nextBatchId
      BY <1>1 DEF QueuesInv, IdsInUse
    <3> QED BY <1>1, <1>2, <2>2, <3>1, NewIds
  <2> QED BY <2>1, <2>2
<1>4. IdsInUse'
  BY <1>1, <1>2, <1>3 DEF QueuesInv, IdsInUse
<1>5. CallbacksRight'
  BY <1>1, <1>2 DEF QueuesInv, CallbacksRight
<1>6. QueuesInv'
  BY <1>1, <1>2, <1>3, <1>4, <1>5 DEF QueuesInv
<1>7. StoppedStream \in StreamState /\ ~IsStarted(StoppedStream)
  BY <1>1 DEF StreamInv, StoppedStream, StreamState, IsStarted
<1>8. /\ batches[u] \in Seq(Batch) /\ Ascending(batches[u])
      /\ batches'[user'] = batches[u]
      /\ <<>> \in Seq(Batch) /\ Len(<<>>) = 0
  BY <1>1, <1>2, EmptySeq DEF QueuesInv
<1>9. Prefix(<<>>, batches[u]) /\ Len(<<>>) <= kMaxPendingWrites
  BY <1>8, BatchesOf, FirestoreWritesAssumption DEF Prefix
<1>10. StreamInv'
  BY <1>2, <1>7, <1>8, <1>9, FillStoppedStream
<1> QED BY <1>6, <1>10

(* A death that changes nothing on disk. *)
LEMMA KillKeeps ==
  ASSUME WritesInv, Launch(batches), Disconnect, UNCHANGED <<user, writer>>
  PROVE  QueuesInv' /\ StreamInv'
<1>1. /\ QueuesInv
      /\ batches \in [User -> Seq(Batch)]
      /\ \A u \in User : Ascending(batches[u])
      /\ \A u \in User : \A i \in 1 .. Len(batches[u]) :
            /\ batches[u][i].id < nextBatchId
            /\ batches[u][i].write <= Len(writer)
            /\ writer[batches[u][i].write] = u
  BY DEF WritesInv, QueuesInv, IdsInUse
<1>2. served' = 0 /\ refusing' = FALSE
  BY DEF Disconnect
<1> QED BY <1>1, <1>2, LaunchKeeps

(* The front of the queue without its head is the front of the rest. *)
LEMMA TailOfPipeline ==
  ASSUME QueuesInv, StreamInv, pipeline # <<>>
  PROVE  /\ batches[user] \in Seq(Batch) /\ batches[user] # <<>>
         /\ Tail(batches[user]) \in Seq(Batch)
         /\ Ascending(Tail(batches[user]))
         /\ Tail(pipeline) \in Seq(Batch)
         /\ Len(pipeline) \in Nat \ {0}
         /\ Len(Tail(pipeline)) = Len(pipeline) - 1
         /\ Len(Tail(pipeline)) <= kMaxPendingWrites
         /\ Prefix(Tail(pipeline), Tail(batches[user]))
         /\ \A i \in 1 .. Len(pipeline) - 1 : Tail(pipeline)[i] = pipeline[i + 1]
<1> DEFINE q == batches[user]
           p == pipeline
<1>1. /\ q \in Seq(Batch) /\ Ascending(q) /\ Prefix(p, q) /\ q # <<>>
      /\ p \in Seq(Batch) /\ Len(p) <= kMaxPendingWrites /\ p # <<>>
  BY PipelineIsFront, HeadOfPipeline DEF StreamInv
<1> HIDE DEF q, p
<1>2. Tail(q) \in Seq(Batch) /\ Ascending(Tail(q)) /\ Tail(p) \in Seq(Batch)
  BY <1>1, TailOf, TailAscending
<1>3. /\ Len(q) \in Nat /\ Len(p) \in Nat \ {0}
      /\ Len(Tail(q)) = Len(q) - 1
      /\ Len(Tail(p)) = Len(p) - 1
      /\ \A i \in 1 .. Len(q) - 1 : Tail(q)[i] = q[i + 1]
      /\ \A i \in 1 .. Len(p) - 1 : Tail(p)[i] = p[i + 1]
  BY <1>1, TailOf
<1>4. Prefix(Tail(p), Tail(q))
  <2>1. Len(p) <= Len(q) /\ \A i \in 1 .. Len(p) : p[i] = q[i]
    BY <1>1 DEF Prefix
  <2>2. ASSUME NEW i \in 1 .. Len(p) - 1
        PROVE  Tail(p)[i] = Tail(q)[i]
    <3>1. i + 1 \in 1 .. Len(p) /\ i \in 1 .. Len(q) - 1
      BY <1>3, <2>1
    <3> QED BY <1>3, <2>1, <3>1
  <2> QED BY <1>3, <2>1, <2>2 DEF Prefix
<1>5. Len(Tail(p)) <= kMaxPendingWrites
  BY <1>1, <1>3, FirestoreWritesAssumption
<1> QED BY <1>1, <1>2, <1>3, <1>4, <1>5 DEF q, p

(* An answer finds the handshake over and the pipeline on the stream. *)
LEMMA AnswerFindsPipeline ==
  ASSUME QueuesInv, StreamInv, served > 0 \/ refusing
  PROVE  /\ handshakeComplete /\ state = "Open"
         /\ sent = pipeline /\ pipeline # <<>>
         /\ served <= Len(pipeline)
<1>1. /\ sent = IF handshakeComplete THEN pipeline ELSE <<>>
      /\ served <= Len(sent)
      /\ refusing => served < Len(sent)
      /\ served \in Nat
      /\ handshakeComplete => state = "Open"
  BY DEF StreamInv, RequestsMatch, StreamNeeded
<1>2. Len(<<>>) = 0
  OBVIOUS
<1>3. sent # <<>>
  BY <1>1, <1>2
<1> QED BY <1>1, <1>3

LEMMA ResultKeeps ==
  ASSUME WritesInv, OnWriteStreamMutationResult
  PROVE  QueuesInv' /\ StreamInv'
<1> DEFINE b == Head(pipeline)
           q == batches[user]
<1>1. QueuesInv /\ StreamInv
  BY DEF WritesInv
<1>2. /\ served > 0
      /\ served' = served - 1
      /\ NotifyUser(b, "accepted")
      /\ batches' = [batches EXCEPT ![user] = RemoveMutationBatch(@, b)]
      /\ FillWritePipeline(batches'[user], Tail(pipeline), state,
                           handshakeComplete, idle, Tail(sent))
      /\ UNCHANGED <<user, nextBatchId, refusing, writer, refused, launched>>
  BY DEF OnWriteStreamMutationResult
<1>3. /\ handshakeComplete /\ state = "Open"
      /\ sent = pipeline /\ pipeline # <<>>
      /\ served <= Len(pipeline)
  BY <1>1, <1>2, AnswerFindsPipeline
<1>4. callbacks' = [callbacks EXCEPT ![user] =
                      @ \ {c \in callbacks[user] : c.id = Head(pipeline).id}]
  BY <1>2 DEF NotifyUser
<1>5. QueuesInv'
  BY <1>1, <1>2, <1>3, <1>4, HeadLeaves
<1>6. batches'[user'] = Tail(q) /\ batches'[user] = Tail(q)
  BY <1>1, <1>2, <1>3, HeadOfPipeline DEF QueuesInv
<1>7. /\ Tail(q) \in Seq(Batch) /\ Ascending(Tail(q))
      /\ Tail(pipeline) \in Seq(Batch)
      /\ Len(pipeline) \in Nat \ {0}
      /\ Len(Tail(pipeline)) = Len(pipeline) - 1
      /\ Len(Tail(pipeline)) <= kMaxPendingWrites
      /\ Prefix(Tail(pipeline), Tail(q))
      /\ \A i \in 1 .. Len(pipeline) - 1 : Tail(pipeline)[i] = pipeline[i + 1]
  BY <1>1, <1>3, TailOfPipeline
<1>8. StreamInv'
  <2>1. /\ FillWritePipeline(Tail(q), Tail(pipeline), state, handshakeComplete,
                             idle, Tail(sent))
        /\ Tail(sent) = IF handshakeComplete THEN Tail(pipeline) ELSE <<>>
    BY <1>2, <1>3, <1>6
  <2>2. /\ state \in StreamState /\ handshakeComplete \in BOOLEAN
        /\ idle \in BOOLEAN /\ ~idle
    BY <1>1, <1>3 DEF StreamInv, StreamNeeded
  <2>3. served \in Nat /\ served' \in Nat /\ served' = served - 1
    BY <1>1, <1>2 DEF StreamInv
  <2>4. served' <= IF handshakeComplete THEN Len(Tail(pipeline)) ELSE 0
    BY <1>3, <1>7, <2>3
  <2>5. ASSUME refusing'
        PROVE  /\ served' < Len(Tail(pipeline))
               /\ Tail(pipeline)[served' + 1].write \in refused'
    <3>1. served < Len(pipeline) /\ pipeline[served + 1].write \in refused
      BY <1>1, <1>2, <1>3, <2>5 DEF StreamInv, RequestsMatch
    <3>2. served \in 1 .. Len(pipeline) - 1 /\ served' + 1 = served
      BY <1>2, <1>7, <2>3, <3>1
    <3>3. served' < Len(Tail(pipeline))
      BY <1>7, <2>3, <3>1
    <3> QED BY <1>2, <1>7, <3>1, <3>2, <3>3
  <2>6. refusing' \in BOOLEAN
    BY <1>1, <1>2 DEF StreamInv
  <2> QED
    BY <1>3, <1>6, <1>7, <2>1, <2>2, <2>3, <2>4, <2>5, <2>6, FillKeepsStream
<1> QED BY <1>5, <1>8

LEMMA RefusedCloseKeeps ==
  ASSUME WritesInv, OnWriteStreamCloseRefused
  PROVE  QueuesInv' /\ StreamInv'
<1> DEFINE b == Head(pipeline)
           q == batches[user]
<1>1. QueuesInv /\ StreamInv
  BY DEF WritesInv
<1>2. /\ refusing
      /\ NotifyUser(b, "rejected")
      /\ batches' = [batches EXCEPT ![user] = RemoveMutationBatch(@, b)]
      /\ FillWritePipeline(batches'[user], Tail(pipeline), "Initial", FALSE,
                           FALSE, <<>>)
      /\ served' = 0 /\ refusing' = FALSE
      /\ UNCHANGED <<user, nextBatchId, writer, launched>>
  BY DEF OnWriteStreamCloseRefused, RejectFirst, Disconnect
<1>3. pipeline # <<>>
  BY <1>1, <1>2, AnswerFindsPipeline
<1>4. callbacks' = [callbacks EXCEPT ![user] =
                      @ \ {c \in callbacks[user] : c.id = Head(pipeline).id}]
  BY <1>2 DEF NotifyUser
<1>5. QueuesInv'
  BY <1>1, <1>2, <1>3, <1>4, HeadLeaves
<1>6. batches'[user'] = Tail(q) /\ batches'[user] = Tail(q)
  BY <1>1, <1>2, <1>3, HeadOfPipeline DEF QueuesInv
<1>7. /\ Tail(q) \in Seq(Batch) /\ Ascending(Tail(q))
      /\ Tail(pipeline) \in Seq(Batch)
      /\ Len(Tail(pipeline)) <= kMaxPendingWrites
      /\ Prefix(Tail(pipeline), Tail(q))
  BY <1>1, <1>3, TailOfPipeline
<1>8. /\ "Initial" \in StreamState /\ ~IsStarted("Initial")
      /\ FillWritePipeline(Tail(q), Tail(pipeline), "Initial", FALSE, FALSE, <<>>)
  BY <1>2, <1>6 DEF StreamState, IsStarted
<1>9. StreamInv'
  BY <1>2, <1>6, <1>7, <1>8, FillStoppedStream
<1> QED BY <1>5, <1>9

LEMMA KillWhileRejectingKeeps ==
  ASSUME WritesInv, KillWhileRejecting
  PROVE  QueuesInv' /\ StreamInv'
<1> DEFINE q == batches[user]
           queues == [batches EXCEPT ![user] = RemoveMutationBatch(@, Head(pipeline))]
<1>1. QueuesInv /\ StreamInv
  BY DEF WritesInv
<1>2. /\ refusing
      /\ Launch(queues)
      /\ served' = 0 /\ refusing' = FALSE
      /\ UNCHANGED <<user, writer>>
  BY DEF KillWhileRejecting, Disconnect
<1>3. pipeline # <<>>
  BY <1>1, <1>2, AnswerFindsPipeline
<1>4. queues = [batches EXCEPT ![user] = Tail(q)]
  BY <1>1, <1>3, HeadOfPipeline DEF QueuesInv
<1>5. q \in Seq(Batch) /\ q # <<>> /\ Tail(q) \in Seq(Batch) /\ Ascending(Tail(q))
  BY <1>1, <1>3, TailOfPipeline
<1>6. /\ queues \in [User -> Seq(Batch)]
      /\ \A u \in User : Ascending(queues[u])
  BY <1>1, <1>4, <1>5 DEF QueuesInv
<1>7. ASSUME NEW u \in User, NEW i \in 1 .. Len(queues[u])
      PROVE  \E j \in 1 .. Len(batches[u]) : queues[u][i] = batches[u][j]
  <2>1. CASE u = user
    <3>1. queues[u] = Tail(q)
      BY <1>1, <1>4, <2>1 DEF QueuesInv
    <3> HIDE DEF queues
    <3>2. /\ Len(q) \in Nat \ {0} /\ Len(Tail(q)) = Len(q) - 1
          /\ \A j \in 1 .. Len(q) - 1 : Tail(q)[j] = q[j + 1]
      BY <1>5, TailOf
    <3> HIDE DEF q
    <3>3. i \in 1 .. Len(q) - 1
      BY <3>1, <3>2
    <3>4. i + 1 \in 1 .. Len(q) /\ queues[u][i] = q[i + 1]
      BY <3>1, <3>2, <3>3
    <3> QED BY <2>1, <3>4 DEF q
  <2>2. CASE u # user
    BY <1>1, <1>4, <2>2 DEF QueuesInv
  <2> QED BY <2>1, <2>2
<1> HIDE DEF queues
<1>8. \A u \in User : \A i \in 1 .. Len(queues[u]) :
        /\ queues[u][i].id < nextBatchId
        /\ queues[u][i].write <= Len(writer)
        /\ writer[queues[u][i].write] = u
  <2> SUFFICES ASSUME NEW u \in User, NEW i \in 1 .. Len(queues[u])
               PROVE  /\ queues[u][i].id < nextBatchId
                      /\ queues[u][i].write <= Len(writer)
                      /\ writer[queues[u][i].write] = u
    OBVIOUS
  <2>1. PICK j \in 1 .. Len(batches[u]) : queues[u][i] = batches[u][j]
    BY <1>7
  <2> QED BY <1>1, <2>1 DEF QueuesInv, IdsInUse
<1> QED BY <1>1, <1>2, <1>6, <1>8, LaunchKeeps

(***************************************************************************)
(* The handlers that leave the queues alone, and those of the server.      *)
(***************************************************************************)
LEMMA StreamStepsKeep ==
  ASSUME WritesInv,
         \/ BackoffElapsed
         \/ OnStreamStart
         \/ OnWriteStreamHandshakeComplete
         \/ Apply
         \/ Refuse
         \/ OnWriteStreamCloseFailed
         \/ IdleTimeout
         \/ UNCHANGED vars
  PROVE  QueuesInv' /\ StreamInv'
<1>1. QueuesInv /\ StreamInv
  BY DEF WritesInv
<1>2. UNCHANGED <<clientVars, writer, launched>>
  BY DEF BackoffElapsed, OnStreamStart, OnWriteStreamHandshakeComplete, Apply,
         Refuse, OnWriteStreamCloseFailed, IdleTimeout, vars, historyVars
<1>3. QueuesInv'
  BY <1>1, <1>2 DEF QueuesInv, IdsInUse, CallbacksRight, clientVars
<1>4. PipelineIsQueue'
  BY <1>1, <1>2 DEF StreamInv, PipelineIsQueue, clientVars
<1>5. pipeline' \in Seq(Batch) /\ Len(pipeline') <= kMaxPendingWrites
      /\ pipeline' = pipeline
  BY <1>1, <1>2 DEF StreamInv, clientVars
<1>6. <<>> \in Seq(Batch) /\ Len(<<>>) = 0 /\ Len(pipeline) \in Nat
  BY <1>1, BatchesOf, EmptySeq DEF StreamInv
<1>7. CASE BackoffElapsed
  BY <1>1, <1>3, <1>4, <1>5, <1>7
     DEF BackoffElapsed, StreamInv, StreamState, RequestsMatch, StreamNeeded,
         IsStarted, historyVars
<1>8. CASE OnStreamStart
  BY <1>1, <1>3, <1>4, <1>5, <1>8
     DEF OnStreamStart, StreamInv, StreamState, RequestsMatch, StreamNeeded,
         IsStarted, historyVars
<1>9. CASE OnWriteStreamHandshakeComplete
  <2>1. sent = <<>> /\ served = 0 /\ ~refusing
    BY <1>1, <1>6, <1>9 DEF OnWriteStreamHandshakeComplete, StreamInv, RequestsMatch
  <2>2. sent' = pipeline
    BY <1>1, <1>9, <2>1, ConcatEmptySeq
       DEF OnWriteStreamHandshakeComplete, StreamInv
  <2>3. /\ handshakeComplete' = TRUE /\ state' = "Open" /\ served' = 0
        /\ ~refusing' /\ refusing' \in BOOLEAN
        /\ ~idle' /\ idle' \in BOOLEAN
    BY <1>1, <1>9, <2>1 DEF OnWriteStreamHandshakeComplete, StreamInv
  <2>4. RequestsMatch'
    BY <1>5, <1>6, <2>2, <2>3 DEF RequestsMatch
  <2>5. StreamNeeded'
    BY <2>3 DEF StreamNeeded, IsStarted
  <2>6. state' \in StreamState /\ handshakeComplete' \in BOOLEAN
        /\ sent' \in Seq(Batch) /\ served' \in Nat
    BY <1>1, <2>2, <2>3 DEF StreamInv, StreamState
  <2> QED BY <1>3, <1>4, <1>5, <2>3, <2>4, <2>5, <2>6 DEF StreamInv
<1>10. CASE Apply
  <2>1. sent' = sent /\ served' = served + 1 /\ served < Len(sent) /\ ~refusing'
        /\ UNCHANGED <<state, handshakeComplete, idle, refusing, pipeline>>
    BY <1>10 DEF Apply, clientVars
  <2>2. RequestsMatch'
    BY <1>1, <2>1, BatchesOf DEF StreamInv, RequestsMatch
  <2>3. StreamNeeded'
    BY <1>1, <2>1 DEF StreamInv, StreamNeeded
  <2> QED BY <1>1, <1>3, <1>4, <1>5, <2>1, <2>2, <2>3 DEF StreamInv
<1>11. CASE Refuse
  <2>1. /\ refusing' = TRUE
        /\ served < Len(sent)
        /\ refused' = refused \cup {sent[served + 1].write}
        /\ UNCHANGED <<state, handshakeComplete, idle, sent, served, pipeline>>
    BY <1>11 DEF Refuse, clientVars
  <2>2. RequestsMatch'
    BY <1>1, <2>1 DEF StreamInv, RequestsMatch
  <2>3. StreamNeeded'
    BY <1>1, <2>1 DEF StreamInv, StreamNeeded
  <2> QED BY <1>1, <1>3, <1>4, <1>5, <2>1, <2>2, <2>3 DEF StreamInv
<1>12. CASE OnWriteStreamCloseFailed
  <2>1. /\ state' = IF pipeline # <<>> THEN Started("Error") ELSE "Error"
        /\ handshakeComplete' = FALSE
        /\ idle' = FALSE
        /\ sent' = <<>>
        /\ served' = 0
        /\ refusing' = FALSE
    BY <1>12 DEF OnWriteStreamCloseFailed, Disconnect
  <2>2. state' \in StreamState /\ (IsStarted(state') <=> pipeline # <<>>)
    BY <2>1 DEF Started, StreamState, IsStarted
  <2>3. RequestsMatch'
    BY <1>6, <2>1 DEF RequestsMatch
  <2>4. StreamNeeded'
    BY <1>5, <2>1, <2>2 DEF StreamNeeded
  <2> QED BY <1>3, <1>4, <1>5, <1>6, <2>1, <2>2, <2>3, <2>4 DEF StreamInv
<1>13. CASE IdleTimeout
  <2>1. /\ idle
        /\ state' = "Initial"
        /\ handshakeComplete' = FALSE
        /\ idle' = FALSE
        /\ sent' = <<>>
        /\ served' = 0
        /\ refusing' = FALSE
    BY <1>13 DEF IdleTimeout, Disconnect
  <2>2. state' \in StreamState /\ ~IsStarted(state') /\ pipeline = <<>>
    BY <1>1, <2>1 DEF StreamInv, StreamNeeded, StreamState, IsStarted
  <2>3. RequestsMatch'
    BY <1>6, <2>1 DEF RequestsMatch
  <2>4. StreamNeeded'
    BY <1>5, <2>1, <2>2 DEF StreamNeeded
  <2> QED BY <1>3, <1>4, <1>5, <1>6, <2>1, <2>2, <2>3, <2>4 DEF StreamInv
<1>14. CASE UNCHANGED vars
  BY <1>1, <1>3, <1>4, <1>5, <1>14
     DEF vars, streamVars, historyVars, StreamInv, RequestsMatch, StreamNeeded
<1> QED BY <1>7, <1>8, <1>9, <1>10, <1>11, <1>12, <1>13, <1>14

(***************************************************************************)
(* What the application and the server note down keeps its type.           *)
(***************************************************************************)
Telling == [write : Write, outcome : {"accepted", "rejected"}]

LEMMA NotifyTyped ==
  ASSUME WritesInv, NEW b, NEW outcome \in {"accepted", "rejected"},
         NotifyUser(b, outcome)
  PROVE  told' \in Seq(Telling)
<1> DEFINE found == {c \in callbacks[user] : c.id = b.id}
           it == CHOOSE c \in found : TRUE
<1>1. told \in Seq(Telling) /\ callbacks[user] \subseteq Batch
  BY DEF WritesInv, HistoryTyped, QueuesInv, Telling
<1>2. CASE found = {}
  BY <1>1, <1>2 DEF NotifyUser
<1>3. CASE found # {}
  <2>1. it \in found
    BY <1>3
  <2>2. it \in Batch
    BY <1>1, <2>1
  <2>3. [write |-> it.write, outcome |-> outcome] \in Telling
    BY <2>2 DEF Batch, Telling
  <2>4. told' = Append(told, [write |-> it.write, outcome |-> outcome])
    BY <1>3 DEF NotifyUser
  <2> QED BY <1>1, <2>3, <2>4, AppendProperties
<1> QED BY <1>2, <1>3

LEMMA HistoryKeepsType ==
  ASSUME WritesInv, [Next]_vars
  PROVE  HistoryTyped'
<1>1. QueuesInv /\ StreamInv /\ HistoryTyped
  BY DEF WritesInv
<1>2. /\ served \in Nat /\ sent \in Seq(Batch)
      /\ \A i \in 1 .. Len(sent) : sent[i] \in Batch /\ sent[i].write \in Write
      /\ served <= Len(sent)
  BY <1>1, BatchesOf DEF StreamInv, RequestsMatch, Batch
<1>3. applied' \in [Write -> Nat]
  <2>1. CASE Apply
    <3>1. sent[served + 1].write \in Write
      BY <1>2, <2>1, BatchesOf, NextIndex DEF Apply
    <3> QED BY <1>1, <2>1, <3>1 DEF Apply, HistoryTyped
  <2>2. CASE ~Apply
    <3>1. applied' = applied
      BY <2>2 DEF Next, WriteMutations, HandleCredentialChange, Kill, BackoffElapsed,
         OnStreamStart, OnWriteStreamHandshakeComplete, Refuse,
         OnWriteStreamMutationResult, KillWhileAcknowledging,
         OnWriteStreamCloseRefused, KillWhileRejecting, OnWriteStreamCloseFailed,
         IdleTimeout, vars, historyVars
    <3> QED BY <1>1, <3>1 DEF HistoryTyped
  <2> QED BY <2>1, <2>2
<1>4. refused' \subseteq Write
  <2>1. CASE Refuse
    <3>1. sent[served + 1].write \in Write
      BY <1>2, <2>1, BatchesOf, NextIndex DEF Refuse
    <3> QED BY <1>1, <2>1, <3>1 DEF Refuse, HistoryTyped
  <2>2. CASE ~Refuse
    <3>1. refused' = refused
      BY <2>2 DEF Next, WriteMutations, HandleCredentialChange, Kill, BackoffElapsed,
         OnStreamStart, OnWriteStreamHandshakeComplete, Apply,
         OnWriteStreamMutationResult, KillWhileAcknowledging,
         OnWriteStreamCloseRefused, KillWhileRejecting, OnWriteStreamCloseFailed,
         IdleTimeout, vars, historyVars
    <3> QED BY <1>1, <3>1 DEF HistoryTyped
  <2> QED BY <2>1, <2>2
<1>5. unheard' \subseteq Write
  <2>1. Unanswered \subseteq Write
    BY <1>2, BatchesOf DEF Unanswered
  <2>2. unheard' = unheard \/ Disconnect
    BY DEF Next, WriteMutations, HandleCredentialChange, Kill, BackoffElapsed,
         OnStreamStart, OnWriteStreamHandshakeComplete, Apply, Refuse,
         OnWriteStreamMutationResult, KillWhileAcknowledging,
         OnWriteStreamCloseRefused, KillWhileRejecting, OnWriteStreamCloseFailed,
         IdleTimeout, vars, historyVars
  <2> QED BY <1>1, <2>1, <2>2 DEF HistoryTyped, Disconnect
<1>6. told' \in Seq(Telling)
  <2>1. CASE OnWriteStreamMutationResult
    BY <2>1, NotifyTyped DEF OnWriteStreamMutationResult
  <2>2. CASE OnWriteStreamCloseRefused
    BY <2>2, NotifyTyped DEF OnWriteStreamCloseRefused, RejectFirst
  <2>3. CASE KillWhileAcknowledging
    <3>1. PICK c \in callbacks[user] :
            told' = Append(told, [write |-> c.write, outcome |-> "accepted"])
      BY <2>3 DEF KillWhileAcknowledging
    <3>2. c \in Batch
      BY <1>1 DEF QueuesInv
    <3>3. [write |-> c.write, outcome |-> "accepted"] \in Telling
      BY <3>2 DEF Batch, Telling
    <3> QED BY <1>1, <3>1, <3>3, AppendProperties DEF HistoryTyped, Telling
  <2>4. CASE ~(\/ OnWriteStreamMutationResult
               \/ OnWriteStreamCloseRefused
               \/ KillWhileAcknowledging)
    <3>1. told' = told
      BY <2>4 DEF Next, WriteMutations, HandleCredentialChange, Kill,
         BackoffElapsed, OnStreamStart, OnWriteStreamHandshakeComplete, Apply,
         Refuse, KillWhileRejecting, OnWriteStreamCloseFailed, IdleTimeout,
         vars, historyVars
    <3> QED BY <1>1, <3>1 DEF HistoryTyped, Telling
  <2> QED BY <2>1, <2>2, <2>3, <2>4
<1>7. faults' \in [breaks : Nat, logins : Nat, kills : Nat]
  <2>1. \/ faults' = faults
        \/ faults' = [faults EXCEPT !.breaks = @ + 1]
        \/ faults' = [faults EXCEPT !.logins = @ + 1]
        \/ faults' = [faults EXCEPT !.kills = @ + 1]
    BY DEF Next, WriteMutations, HandleCredentialChange, Kill, BackoffElapsed,
         OnStreamStart, OnWriteStreamHandshakeComplete, Apply, Refuse,
         OnWriteStreamMutationResult, KillWhileAcknowledging,
         OnWriteStreamCloseRefused, KillWhileRejecting, OnWriteStreamCloseFailed,
         IdleTimeout, vars, historyVars
  <2> QED BY <1>1, <2>1 DEF HistoryTyped
<1> QED BY <1>3, <1>4, <1>5, <1>6, <1>7 DEF HistoryTyped, Telling

-----------------------------------------------------------------------------
(* The theorems.                                                           *)

LEMMA InitInv ==
  ASSUME Init
  PROVE  WritesInv
<1>1. /\ <<>> \in Seq(Batch) /\ <<>> \in Seq(User) /\ <<>> \in Seq(Telling)
      /\ Len(<<>>) = 0
      /\ DOMAIN <<>> = {}
  BY EmptySeq
<1>2. MaxWrites \in Nat /\ kMaxPendingWrites \in Nat \ {0}
  BY FirestoreWritesAssumption
<1>3. QueuesInv
  <2>1. \A u \in User : batches[u] = <<>> /\ callbacks[u] = {}
    BY DEF Init
  <2>2. IdsInUse /\ CallbacksRight /\ \A u \in User : Ascending(batches[u])
    BY <1>1, <2>1 DEF IdsInUse, CallbacksRight, Ascending
  <2>3. /\ batches \in [User -> Seq(Batch)]
        /\ callbacks \in [User -> SUBSET Batch]
    BY <1>1 DEF Init
  <2> QED BY <1>1, <1>2, <2>2, <2>3 DEF Init, QueuesInv
<1>4. StreamInv
  <2>1. PipelineIsQueue
    BY <1>1, <1>2 DEF Init, PipelineIsQueue
  <2>2. RequestsMatch /\ StreamNeeded
    BY <1>1 DEF Init, RequestsMatch, StreamNeeded
  <2>3. /\ pipeline \in Seq(Batch) /\ Len(pipeline) <= kMaxPendingWrites
        /\ sent \in Seq(Batch) /\ served \in Nat
    BY <1>1, <1>2 DEF Init
  <2>4. /\ state \in StreamState /\ ~IsStarted(state)
        /\ handshakeComplete \in BOOLEAN
        /\ idle \in BOOLEAN /\ ~idle
        /\ refusing \in BOOLEAN /\ ~refusing
    BY DEF Init, StreamState, IsStarted
  <2> QED BY <2>1, <2>2, <2>3, <2>4 DEF StreamInv
<1>5. HistoryTyped
  BY <1>1 DEF Init, HistoryTyped, Telling
<1> QED BY <1>3, <1>4, <1>5 DEF WritesInv

LEMMA NextInv ==
  ASSUME WritesInv, [Next]_vars
  PROVE  WritesInv'
<1>1. QueuesInv' /\ StreamInv'
  <2>1. CASE WriteMutations
    BY <2>1, WriteKeeps
  <2>2. CASE \E u \in User : HandleCredentialChange(u)
    BY <2>2, CredentialChangeKeeps
  <2>3. CASE Kill
    BY <2>3, KillKeeps DEF Kill
  <2>4. CASE OnWriteStreamMutationResult
    BY <2>4, ResultKeeps
  <2>5. CASE KillWhileAcknowledging
    BY <2>5, KillKeeps DEF KillWhileAcknowledging
  <2>6. CASE OnWriteStreamCloseRefused
    BY <2>6, RefusedCloseKeeps
  <2>7. CASE KillWhileRejecting
    BY <2>7, KillWhileRejectingKeeps
  <2>8. CASE \/ BackoffElapsed
             \/ OnStreamStart
             \/ OnWriteStreamHandshakeComplete
             \/ Apply
             \/ Refuse
             \/ OnWriteStreamCloseFailed
             \/ IdleTimeout
             \/ UNCHANGED vars
    BY <2>8, StreamStepsKeep
  <2> QED
    BY <2>1, <2>2, <2>3, <2>4, <2>5, <2>6, <2>7, <2>8 DEF Next
<1> QED BY <1>1, HistoryKeepsType DEF WritesInv

LEMMA WritesInvHolds == Spec => []WritesInv
<1>1. Init => WritesInv
  BY InitInv
<1>2. WritesInv /\ [Next]_vars => WritesInv'
  BY NextInv
<1> QED BY <1>1, <1>2, PTL DEF Spec

(* Every variable keeps its type, and the pipeline its length.             *)
THEOREM WritesTypeCorrect == Spec => []TypeOK
BY WritesInvHolds, InvImpliesTypes, PTL

(* The pipeline of RemoteStore is the front of the current user's queue.   *)
THEOREM PipelineIsTheQueue == Spec => []PipelineIsQueue
<1>1. WritesInv => PipelineIsQueue
  BY DEF WritesInv, StreamInv
<1> QED BY <1>1, WritesInvHolds, PTL

(* A result of the server is about the first batch of the pipeline.        *)
THEOREM RequestsMatchPipeline == Spec => []RequestsMatch
<1>1. WritesInv => RequestsMatch
  BY DEF WritesInv, StreamInv
<1> QED BY <1>1, WritesInvHolds, PTL

(* None of the stream's assertions fails, and it runs when it is needed.   *)
THEOREM StreamIsNeeded == Spec => []StreamNeeded
<1>1. WritesInv => StreamNeeded
  BY DEF WritesInv, StreamInv
<1> QED BY <1>1, WritesInvHolds, PTL

(* The callbacks are those of the queued writes of this process, though    *)
(* logins and launches give ids again.                                     *)
THEOREM CallbacksAreRight == Spec => []CallbacksRight
<1>1. WritesInv => CallbacksRight
  BY DEF WritesInv, QueuesInv
<1> QED BY <1>1, WritesInvHolds, PTL
=============================================================================
