------------------------ MODULE FirestoreReadsProofs ------------------------
(***************************************************************************)
(* Proofs about FirestoreReads: the types, the agreement of the records of *)
(* what is listened to, the online state, one answer for every get, and    *)
(* what the watch stream may say of a target.                              *)
(***************************************************************************)
EXTENDS FirestoreReads, SequenceTheorems, FiniteSetTheorems, TLAPS

-----------------------------------------------------------------------------
(* Sequences: the sequence of a finite set, and counting.                  *)

LEMMA SetInOrder ==
  ASSUME NEW S, IsFiniteSet(S)
  PROVE  /\ SetToSeq(S) \in Seq(S)
         /\ Len(SetToSeq(S)) = Cardinality(S)
         /\ Cardinality(S) \in Nat
         /\ DOMAIN SetToSeq(S) = 1 .. Cardinality(S)
         /\ \A i, j \in 1 .. Cardinality(S) :
              SetToSeq(S)[i] = SetToSeq(S)[j] => i = j
         /\ \A x \in S : \E i \in 1 .. Cardinality(S) : SetToSeq(S)[i] = x
  <1> DEFINE n == Cardinality(S)
             s == SetToSeq(S)
  <1>1. n \in Nat /\ ExistsBijection(1 .. n, S)
    BY FS_CardinalityType
  <1>2. \E f \in [1 .. n -> S] : IsInjective(f)
    BY <1>1 DEF ExistsBijection, Bijection, Injection
  <1>3. s \in [1 .. n -> S] /\ IsInjective(s)
    BY <1>2 DEF SetToSeq
  <1>4. s \in Injection(1 .. n, S)
    BY <1>3 DEF Injection
  <1>5. IsFiniteSet(1 .. n) /\ Cardinality(1 .. n) = n
    BY <1>1, FS_Interval
  <1>6. s \in Surjection(1 .. n, S)
    BY <1>4, <1>5, FS_Injection
  <1>7. s \in Seq(S) /\ Len(s) = n
    BY <1>1, <1>3
  <1>8. \A x \in S : \E i \in 1 .. n : s[i] = x
    BY <1>6 DEF Surjection
  <1> QED
    BY <1>1, <1>3, <1>7, <1>8 DEF IsInjective

Positions(s, X) == {i \in DOMAIN s : s[i] \in X}
Number(s, X) == Cardinality(Positions(s, X))

LEMMA SequenceOfFunction ==
  ASSUME NEW M, NEW n \in Nat, NEW f \in [1 .. n -> M]
  PROVE  f \in Seq(M) /\ Len(f) = n /\ DOMAIN f = 1 .. n
  OBVIOUS

LEMMA AppendTypes ==
  ASSUME NEW M, NEW s \in Seq(M), NEW x \in M
  PROVE  Append(s, x) \in Seq(M)
  OBVIOUS

LEMMA JoinedPlaces ==
  ASSUME NEW M, NEW s \in Seq(M), NEW t \in Seq(M)
  PROVE  /\ s \o t \in Seq(M) /\ Len(s \o t) = Len(s) + Len(t)
         /\ Len(s) \in Nat /\ Len(t) \in Nat
         /\ DOMAIN s = 1 .. Len(s) /\ DOMAIN t = 1 .. Len(t)
         /\ DOMAIN (s \o t) = 1 .. Len(s) + Len(t)
         /\ \A i \in 1 .. Len(s) + Len(t) :
              (s \o t)[i] = IF i <= Len(s) THEN s[i] ELSE t[i - Len(s)]
  BY ConcatProperties, LenProperties

LEMMA FinitelyMany ==
  ASSUME NEW M, NEW s \in Seq(M), NEW X
  PROVE  /\ IsFiniteSet(Positions(s, X))
         /\ Number(s, X) \in Nat
         /\ Number(s, X) = 0 <=> Positions(s, X) = {}
  <1>1. Positions(s, X) \in SUBSET (1 .. Len(s)) /\ Len(s) \in Nat
    BY LenProperties DEF Positions
  <1>2. IsFiniteSet(1 .. Len(s))
    BY <1>1, FS_Interval
  <1>3. IsFiniteSet(Positions(s, X))
    BY <1>1, <1>2, FS_Subset
  <1> QED
    BY <1>3, FS_CardinalityType, FS_EmptySet DEF Number

LEMMA NumberAppend ==
  ASSUME NEW M, NEW s \in Seq(M), NEW x \in M, NEW X
  PROVE  /\ Append(s, x) \in Seq(M)
         /\ Len(Append(s, x)) = Len(s) + 1
         /\ \A i \in DOMAIN s : Append(s, x)[i] = s[i]
         /\ Append(s, x)[Len(s) + 1] = x
         /\ Positions(Append(s, x), X)
              = Positions(s, X) \cup {i \in {Len(s) + 1} : x \in X}
         /\ Number(Append(s, x), X) = Number(s, X) + (IF x \in X THEN 1 ELSE 0)
  <1>1. /\ Append(s, x) \in Seq(M) /\ Len(Append(s, x)) = Len(s) + 1
        /\ \A i \in 1 .. Len(s) : Append(s, x)[i] = s[i]
        /\ Append(s, x)[Len(s) + 1] = x
        /\ Len(s) \in Nat /\ DOMAIN s = 1 .. Len(s)
        /\ DOMAIN Append(s, x) = 1 .. Len(s) + 1
    OBVIOUS
  <1>2. Positions(Append(s, x), X)
          = Positions(s, X) \cup {i \in {Len(s) + 1} : x \in X}
    BY <1>1 DEF Positions
  <1>3. Len(s) + 1 \notin Positions(s, X)
    BY <1>1 DEF Positions
  <1>4. CASE x \in X
    <2>1. Positions(Append(s, x), X) = Positions(s, X) \cup {Len(s) + 1}
      BY <1>2, <1>4
    <2>2. Number(Append(s, x), X) = Number(s, X) + 1
      BY <1>3, <2>1, FinitelyMany, FS_AddElement DEF Number
    <2> QED BY <1>1, <1>2, <1>4, <2>2
  <1>5. CASE x \notin X
    <2>1. Positions(Append(s, x), X) = Positions(s, X)
      BY <1>2, <1>5
    <2>2. Number(Append(s, x), X) = Number(s, X) /\ Number(s, X) \in Nat
      BY <2>1, FinitelyMany DEF Number
    <2> QED BY <1>1, <1>2, <1>5, <2>2
  <1> QED BY <1>4, <1>5

LEMMA OtherAppended ==
  ASSUME NEW M, NEW s \in Seq(M), NEW x \in M, NEW X, x \notin X
  PROVE  /\ Positions(Append(s, x), X) = Positions(s, X)
         /\ Number(Append(s, x), X) = Number(s, X)
         /\ \A i \in DOMAIN s : Append(s, x)[i] = s[i]
  <1>1. Positions(Append(s, x), X) = Positions(s, X) \cup {i \in {Len(s) + 1} : x \in X}
    BY NumberAppend
  <1>2. Positions(Append(s, x), X) = Positions(s, X)
    BY <1>1
  <1> QED BY <1>2, NumberAppend DEF Number

LEMMA NumberTail ==
  ASSUME NEW M, NEW s \in Seq(M), s # <<>>, NEW X
  PROVE  /\ Head(s) \in M /\ Tail(s) \in Seq(M)
         /\ Len(s) \in Nat \ {0} /\ Head(s) = s[1] /\ Len(Tail(s)) = Len(s) - 1
         /\ \A i \in 1 .. Len(Tail(s)) : Tail(s)[i] = s[i + 1]
         /\ \A i : i \in Positions(Tail(s), X) <=> i \in Nat \ {0} /\ i + 1 \in Positions(s, X)
         /\ Number(s, X) = Number(Tail(s), X) + (IF Head(s) \in X THEN 1 ELSE 0)
  <1> DEFINE t == Tail(s)
  <1>1. /\ Head(s) \in M /\ t \in Seq(M) /\ Len(t) = Len(s) - 1
        /\ \A i \in 1 .. Len(t) : t[i] = s[i + 1]
        /\ Len(s) \in Nat \ {0} /\ Head(s) = s[1]
        /\ DOMAIN s = 1 .. Len(s) /\ DOMAIN t = 1 .. Len(t)
    BY HeadTailProperties, EmptySeq
  <1>2. \A i : i \in Positions(t, X) <=> i \in Nat \ {0} /\ i + 1 \in Positions(s, X)
    BY <1>1 DEF Positions
  <1> DEFINE rest == Positions(s, X) \ {1}
             f == [i \in Positions(t, X) |-> i + 1]
  <1>3. Positions(t, X) \subseteq Nat \ {0} /\ Positions(s, X) \subseteq Nat \ {0}
    BY <1>1 DEF Positions
  <1>4. f \in [Positions(t, X) -> rest]
    BY <1>2, <1>3
  <1>5. \A i \in rest : i - 1 \in Positions(t, X) /\ f[i - 1] = i
    <2> TAKE i \in rest
    <2>1. i \in Nat \ {0, 1} /\ i \in Positions(s, X)
      BY <1>3
    <2>2. i - 1 \in Nat \ {0} /\ (i - 1) + 1 = i
      BY <2>1
    <2>3. i - 1 \in Positions(t, X)
      BY <1>2, <2>1, <2>2
    <2> QED BY <2>2, <2>3
  <1>6. \A i, j \in Positions(t, X) : f[i] = f[j] => i = j
    BY <1>3
  <1>7. f \in Bijection(Positions(t, X), rest)
    BY <1>4, <1>5, <1>6 DEF Bijection, Injection, Surjection, IsInjective
  <1>8. Cardinality(rest) = Number(t, X)
    BY <1>1, <1>7, FinitelyMany, FS_Bijection DEF Number, ExistsBijection
  <1>9. Cardinality(rest) = IF 1 \in Positions(s, X) THEN Number(s, X) - 1 ELSE Number(s, X)
    BY FinitelyMany, FS_RemoveElement DEF Number
  <1>10. 1 \in Positions(s, X) <=> Head(s) \in X
    BY <1>1 DEF Positions
  <1>11. Number(s, X) \in Nat /\ Number(t, X) \in Nat
    BY <1>1, FinitelyMany
  <1> QED BY <1>1, <1>2, <1>8, <1>9, <1>10, <1>11

-----------------------------------------------------------------------------
(* Types.                                                                  *)

Task == [op : {"add", "remove"}, get : Get]
Event == [get : Get, source : {"server", "cache", "error"}]
View == {"none", "local", "current"}
Request == [op : {"watch", "unwatch"}, query : Query, turn : Nat]
AboutTarget == [kind : {"added", "removed", "refused", "current", "document"},
                query : Query, turn : Nat]
OfSnapshot == [kind : {"snapshot"}, query : {"all"}, turn : {0}]
Response == AboutTarget \cup OfSnapshot

(* TypeOK, and the types of what is on the wire. *)
Typed ==
  /\ TypeOK
  /\ toServer \in Seq(Request)
  /\ fromServer \in Seq(Response)
  /\ watches \in Nat

LEMMA FiniteSubset ==
  ASSUME NEW S \in SUBSET Get
  PROVE  IsFiniteSet(S)
  BY FirestoreReadsAssumption, FS_Subset

LEMMA NotifiedTypes ==
  ASSUME NEW S \in SUBSET Get, NEW vs
  PROVE  /\ Notified(S, vs) \in Seq(Event)
         /\ \A i \in DOMAIN Notified(S, vs) :
              /\ Notified(S, vs)[i].get \in S
              /\ Notified(S, vs)[i].source # "error"
  <1> DEFINE e(g) == [get |-> g, source |-> Source(vs[QueryOf[g]])]
             T == {e(g) : g \in S}
             f == [g \in S |-> e(g)]
  <1>1. \A g \in S : e(g) \in Event /\ e(g).get = g /\ e(g).source # "error"
    BY DEF Source, Event
  <1>2. f \in Surjection(S, T)
    BY DEF Surjection
  <1>3. IsFiniteSet(T)
    BY <1>2, FiniteSubset, FS_Surjection
  <1>4. Notified(S, vs) = SetToSeq(T)
    BY DEF Notified
  <1>5. Notified(S, vs) \in Seq(T)
    BY <1>3, <1>4, SetInOrder
  <1>6. T \subseteq Event
    BY <1>1
  <1>7. Notified(S, vs) \in Seq(Event)
    BY <1>5, <1>6, SeqMonotonic
  <1>8. \A i \in DOMAIN Notified(S, vs) : Notified(S, vs)[i] \in T
    BY <1>5, ElementOfSeq, LenProperties
  <1>9. \A x \in T : x.get \in S /\ x.source # "error"
    BY <1>1
  <1> QED BY <1>7, <1>8, <1>9

LEMMA ErrorsTypes ==
  ASSUME NEW S \in SUBSET Get
  PROVE  LET es == SetToSeq({[get |-> g, source |-> "error"] : g \in S})
         IN  /\ es \in Seq(Event)
             /\ \A i \in DOMAIN es : es[i].get \in S
             /\ \A i, j \in DOMAIN es : es[i].get = es[j].get => i = j
  <1> DEFINE e(g) == [get |-> g, source |-> "error"]
             T == {e(g) : g \in S}
             f == [g \in S |-> e(g)]
             es == SetToSeq(T)
  <1>1. \A g \in S : e(g) \in Event /\ e(g).get = g
    BY DEF Event
  <1>2. f \in Surjection(S, T)
    BY DEF Surjection
  <1>3. IsFiniteSet(T)
    BY <1>2, FiniteSubset, FS_Surjection
  <1>4. es \in Seq(T)
    BY <1>3, SetInOrder
  <1>5. T \subseteq Event
    BY <1>1
  <1>6. es \in Seq(Event)
    BY <1>4, <1>5, SeqMonotonic
  <1>7. \A i \in DOMAIN es : es[i] \in T
    BY <1>4, ElementOfSeq, LenProperties
  <1>8. \A x \in T : x.get \in S /\ x = e(x.get)
    BY <1>1
  <1> HIDE DEF T
  <1>9. \A i, j \in DOMAIN es : es[i] = es[j] => i = j
    BY <1>3, SetInOrder
  <1>10. \A i \in DOMAIN es : es[i].get \in S /\ es[i] = e(es[i].get)
    BY <1>7, <1>8
  <1> HIDE DEF es, e
  <1>11. \A i, j \in DOMAIN es : es[i].get = es[j].get => i = j
    BY <1>9, <1>10
  <1>12. /\ es \in Seq(Event)
         /\ \A i \in DOMAIN es : es[i].get \in S
         /\ \A i, j \in DOMAIN es : es[i].get = es[j].get => i = j
    BY <1>6, <1>10, <1>11
  <1> QED BY <1>12 DEF es, T, e

LEMMA RequestsTypes ==
  ASSUME NEW S \in SUBSET Query, NEW n \in Nat
  PROVE  /\ WatchRequests(S, n) \in Seq(Request)
         /\ Len(WatchRequests(S, n)) \in Nat
         /\ DOMAIN WatchRequests(S, n) = 1 .. Len(WatchRequests(S, n))
         /\ \A i \in DOMAIN WatchRequests(S, n) :
              /\ WatchRequests(S, n)[i].op = "watch"
              /\ WatchRequests(S, n)[i].query \in S
              /\ WatchRequests(S, n)[i].turn = n + i
         /\ \A i, j \in DOMAIN WatchRequests(S, n) :
              WatchRequests(S, n)[i].query = WatchRequests(S, n)[j].query => i = j
         /\ \A q \in S :
              \E i \in DOMAIN WatchRequests(S, n) : WatchRequests(S, n)[i].query = q
  <1> DEFINE order == SetToSeq(S)
             k == Cardinality(S)
             r == [i \in 1 .. k |-> [op |-> "watch", query |-> order[i], turn |-> n + i]]
  <1>1. IsFiniteSet(S)
    BY FirestoreReadsAssumption, FS_Subset
  <1>2. /\ order \in Seq(S) /\ k \in Nat /\ DOMAIN order = 1 .. k
        /\ \A i, j \in 1 .. k : order[i] = order[j] => i = j
        /\ \A q \in S : \E i \in 1 .. k : order[i] = q
    BY <1>1, SetInOrder
  <1>3. WatchRequests(S, n) = r
    BY <1>2 DEF WatchRequests
  <1>4. \A i \in 1 .. k : order[i] \in S
    BY <1>1, <1>2, SetInOrder, ElementOfSeq
  <1>5. \A i \in 1 .. k : r[i] \in Request
    BY <1>4 DEF Request
  <1>6. r \in [1 .. k -> Request]
    BY <1>5
  <1> HIDE DEF order, k
  <1>7. r \in Seq(Request) /\ Len(r) = k
    BY <1>2, <1>6, SequenceOfFunction
  <1>8. /\ \A i \in 1 .. k : r[i].op = "watch" /\ r[i].query = order[i] /\ r[i].turn = n + i
        /\ DOMAIN r = 1 .. k
    OBVIOUS
  <1> HIDE DEF r
  <1>9. \A i, j \in 1 .. k : r[i].query = r[j].query => i = j
    BY <1>2, <1>8
  <1>10. \A q \in S : \E i \in 1 .. k : r[i].query = q
    BY <1>2, <1>8
  <1>11. \A i \in 1 .. k : r[i].op = "watch" /\ r[i].query \in S /\ r[i].turn = n + i
    BY <1>4, <1>8
  <1> QED BY <1>2, <1>3, <1>7, <1>8, <1>9, <1>10, <1>11

Listening(g) == \E q \in Query : g \in listeners[q]

(* Snapshots are events for listeners, and none of them is an error. *)
Snapshots(es) ==
  /\ es \in Seq(Event)
  /\ \A i \in DOMAIN es : Listening(es[i].get) /\ es[i].source # "error"

LEMMA RaisedTypes ==
  ASSUME Typed, NEW vs, NEW changed, NEW o,
         RaiseEvents(listeners, vs, changed, o)
  PROVE  /\ raised' \subseteq Get
         /\ events' \in Seq(Event)
         /\ \E es : Snapshots(es) /\ events' = events \o es
  <1> DEFINE all == UNION {listeners[q] : q \in Query}
             first == {g \in all \ raised : ShouldRaiseInitialEvent(vs[QueryOf[g]], o)}
             later == {g \in all \cap raised : QueryOf[g] \in changed}
             es == Notified(first \cup later, vs)
  <1>1. raised' = raised \cup first /\ events' = events \o es
    BY DEF RaiseEvents
  <1>2. \A g \in all : g \in Get /\ Listening(g)
    BY DEF Typed, TypeOK, Listening
  <1>3. first \cup later \in SUBSET all
    OBVIOUS
  <1> HIDE DEF all
  <1>4. first \cup later \in SUBSET Get
    BY <1>2, <1>3
  <1>5. /\ es \in Seq(Event)
        /\ \A i \in DOMAIN es : es[i].get \in first \cup later /\ es[i].source # "error"
    BY <1>4, NotifiedTypes
  <1>6. Snapshots(es)
    BY <1>2, <1>3, <1>5 DEF Snapshots
  <1>7. events \in Seq(Event) /\ raised \subseteq Get
    BY DEF Typed, TypeOK, Event
  <1>8. events' \in Seq(Event)
    BY <1>1, <1>5, <1>7, ConcatProperties
  <1> QED BY <1>1, <1>4, <1>6, <1>7, <1>8

LEMMA BroadcastTypes ==
  ASSUME Typed, NEW o \in {"Unknown", "Online", "Offline"}, SetAndBroadcast(o)
  PROVE  /\ raised' \subseteq Get
         /\ events' \in Seq(Event)
         /\ \E es : Snapshots(es) /\ events' = events \o es
         /\ view' \in [Query -> View]
         /\ \A q \in Query : view'[q] = "none" <=> view[q] = "none"
         /\ listeners' = listeners
         /\ online' = o
  <1> DEFINE vs == WithOnlineState(view, o)
             changed == {q \in Query : vs[q] # view[q]}
  <1>1. /\ online' = o /\ view' = vs /\ listeners' = listeners
        /\ RaiseEvents(listeners, vs, changed, o)
    BY DEF SetAndBroadcast
  <1>2. view \in [Query -> View]
    BY DEF Typed, TypeOK, View
  <1>3. vs \in [Query -> View] /\ \A q \in Query : vs[q] = "none" <=> view[q] = "none"
    BY <1>2 DEF WithOnlineState, View
  <1>4. /\ raised' \subseteq Get
        /\ events' \in Seq(Event)
        /\ \E es : Snapshots(es) /\ events' = events \o es
    BY <1>1, RaisedTypes
  <1> QED BY <1>1, <1>3, <1>4

(* Requests for the targets in S: one more is outstanding for each. *)
LEMMA SendTypes ==
  ASSUME Typed, NEW S \in SUBSET Query, SendWatchRequests(S)
  PROVE  /\ toServer' \in Seq(Request)
         /\ toServer' = toServer \o WatchRequests(S, watches)
         /\ watches' \in Nat /\ watches' >= watches
         /\ target' = Requested(target, S)
         /\ target' \in [Query -> [outstanding : Nat, pending : BOOLEAN, current : Nat]]
         /\ lastWatch' \in [Query -> 0 .. watches']
         /\ \A q \in Query \ S : lastWatch'[q] = lastWatch[q]
         /\ \A i \in DOMAIN WatchRequests(S, watches) :
              lastWatch'[WatchRequests(S, watches)[i].query] = watches + i
         /\ idle' = (idle /\ S = {})
         /\ idle' \in BOOLEAN
  <1> DEFINE rs == WatchRequests(S, watches)
             last(q) == (CHOOSE r \in Range(rs) : r.query = q).turn
  <1>1. watches \in Nat /\ toServer \in Seq(Request) /\ idle \in BOOLEAN
        /\ target \in [Query -> [outstanding : Nat, pending : BOOLEAN, current : Nat]]
        /\ lastWatch \in [Query -> 0 .. watches]
    BY DEF Typed, TypeOK
  <1>2. /\ toServer' = toServer \o rs
        /\ target' = Requested(target, S)
        /\ watches' = watches + Len(rs)
        /\ lastWatch' = [q \in Query |-> IF q \in S THEN last(q) ELSE lastWatch[q]]
        /\ idle' = (idle /\ S = {})
    BY DEF SendWatchRequests
  <1>3. /\ rs \in Seq(Request) /\ Len(rs) \in Nat /\ DOMAIN rs = 1 .. Len(rs)
        /\ \A i \in DOMAIN rs : rs[i].query \in S /\ rs[i].turn = watches + i
        /\ \A i, j \in DOMAIN rs : rs[i].query = rs[j].query => i = j
        /\ \A q \in S : \E i \in DOMAIN rs : rs[i].query = q
    BY <1>1, RequestsTypes
  <1> HIDE DEF rs
  <1>4. toServer' \in Seq(Request)
    BY <1>1, <1>2, <1>3, ConcatProperties
  <1>5. watches' \in Nat /\ watches' >= watches
    BY <1>1, <1>2, <1>3
  <1>6. \A i \in DOMAIN rs : last(rs[i].query) = watches + i
    <2> TAKE i \in DOMAIN rs
    <2>1. rs[i] \in Range(rs)
      BY DEF Range
    <2>2. \A r \in Range(rs) : r.query = rs[i].query => r = rs[i]
      BY <1>3 DEF Range
    <2>3. (CHOOSE r \in Range(rs) : r.query = rs[i].query) = rs[i]
      BY <2>1, <2>2
    <2> QED BY <1>3, <2>3
  <1> HIDE DEF last
  <1>7. \A q \in S : last(q) \in 0 .. watches'
    <2> TAKE q \in S
    <2>1. PICK i \in DOMAIN rs : rs[i].query = q
      BY <1>3
    <2>2. last(q) = watches + i
      BY <1>6, <2>1
    <2> QED BY <1>1, <1>2, <1>3, <2>2
  <1>8. lastWatch' \in [Query -> 0 .. watches']
    BY <1>1, <1>2, <1>5, <1>7
  <1>9. target' \in [Query -> [outstanding : Nat, pending : BOOLEAN, current : Nat]]
    <2> DEFINE T == [outstanding : Nat, pending : BOOLEAN, current : Nat]
    <2>1. \A q \in Query : [target[q] EXCEPT !.outstanding = @ + 1] \in T
      BY <1>1
    <2> QED BY <1>1, <1>2, <2>1 DEF Requested
  <1>10. /\ \A q \in Query \ S : lastWatch'[q] = lastWatch[q]
         /\ \A i \in DOMAIN rs : lastWatch'[rs[i].query] = watches + i
    BY <1>2, <1>3, <1>6
  <1> QED BY <1>1, <1>2, <1>4, <1>5, <1>8, <1>9, <1>10 DEF rs

(* A response was asked for. *)
Owed ==
  fromServer # <<>> /\ Head(fromServer).kind \in {"added", "removed"} =>
    target[Head(fromServer).query].outstanding # 0

LEMMA InitTyped == Init => Typed
  <1> SUFFICES ASSUME Init PROVE Typed
    OBVIOUS
  <1>1. \A S : <<>> \in Seq(S)
    BY EmptySeq
  <1>2. /\ tasks \in Seq([op : {"add", "remove"}, get : Get])
        /\ events \in Seq([get : Get, source : {"server", "cache", "error"}])
        /\ toServer \in Seq(Request) /\ fromServer \in Seq(Response)
    BY <1>1 DEF Init
  <1>3. answers \in [Get -> Seq({"server", "cache", "error"})]
    BY <1>1 DEF Init
  <1>4. /\ begun \subseteq Get /\ muted \subseteq Get /\ raised \subseteq Get
        /\ listeners \in [Query -> SUBSET Get]
        /\ view \in [Query -> {"none", "local", "current"}]
        /\ targets \subseteq Query /\ complete \subseteq Query
        /\ idle \in BOOLEAN /\ timer \in BOOLEAN /\ heard \in BOOLEAN
        /\ online \in {"Unknown", "Online", "Offline"}
        /\ state \in StreamState
    BY DEF Init, StreamState
  <1>5. /\ target \in [Query -> [outstanding : Nat, pending : BOOLEAN, current : Nat]]
        /\ failures \in 0 .. kMaxWatchStreamFailures
        /\ serving \in [Query -> Nat] /\ watches \in Nat
        /\ lastWatch \in [Query -> 0 .. watches]
    BY DEF Init, NoTarget, kMaxWatchStreamFailures
  <1> QED BY <1>2, <1>3, <1>4, <1>5 DEF Typed, TypeOK

Target == [outstanding : Nat, pending : BOOLEAN, current : Nat]

LEMMA NewConnectionTypes ==
  ASSUME Typed, NewConnection
  PROVE  /\ toServer' = <<>> /\ fromServer' = <<>> /\ complete' = {} /\ heard' = FALSE
         /\ toServer' \in Seq(Request) /\ fromServer' \in Seq(Response)
         /\ serving' \in [Query -> Nat]
         /\ target' \in [Query -> Target]
  BY DEF NewConnection, NoTarget, Target

(* What a task of the application leaves behind. *)
LEMMA AddTypes ==
  ASSUME Typed, AddQueryListener
  PROVE  Typed'
  <1> DEFINE g == Head(tasks).get
             q == QueryOf[g]
             first == listeners[q] = {}
             starting == first /\ ~IsStarted(state)
             vs == [view EXCEPT ![q] = IF first THEN "local" ELSE @]
             now == {h \in {g} : ShouldRaiseInitialEvent(vs[q], online)}
  <1>1. /\ tasks # <<>> /\ tasks' = Tail(tasks)
        /\ listeners' = [listeners EXCEPT ![q] = @ \cup {g}]
        /\ view' = vs
        /\ raised' = raised \cup now
        /\ events' = events \o Notified(now, vs)
        /\ targets' = targets \cup {q}
        /\ state' = IF starting THEN Started(state) ELSE state
        /\ online' = IF starting THEN StateAtStart ELSE online
        /\ timer' = (timer \/ (starting /\ failures = 0))
        /\ IF first /\ state = "Open"
           THEN SendWatchRequests({q})
           ELSE UNCHANGED <<toServer, target, watches, lastWatch, idle>>
        /\ UNCHANGED <<appVars, failures, heard, fromServer, serving, complete, faults>>
    BY DEF AddQueryListener
  <1>2. tasks \in Seq(Task) /\ events \in Seq(Event)
    BY DEF Typed, TypeOK, Task, Event
  <1>3. Tail(tasks) \in Seq(Task) /\ Head(tasks) \in Task
    BY <1>1, <1>2, HeadTailProperties
  <1>4. g \in Get /\ q \in Query
    BY <1>3, FirestoreReadsAssumption DEF Task
  <1>5. events' \in Seq(Event)
    <2>1. now \in SUBSET Get
      BY <1>4
    <2>2. Notified(now, vs) \in Seq(Event)
      BY <2>1, NotifiedTypes
    <2> QED BY <1>1, <1>2, <2>2, ConcatProperties
  <1>6. raised' \subseteq Get
    BY <1>1, <1>4 DEF Typed, TypeOK
  <1>7. listeners' \in [Query -> SUBSET Get] /\ view' \in [Query -> View] /\ targets' \subseteq Query
    BY <1>1, <1>4 DEF Typed, TypeOK, View
  <1>8. /\ toServer' \in Seq(Request) /\ watches' \in Nat
        /\ target' \in [Query -> Target]
        /\ lastWatch' \in [Query -> 0 .. watches']
        /\ idle' \in BOOLEAN
    <2>1. CASE first /\ state = "Open"
      BY <1>1, <1>4, <2>1, SendTypes DEF Target
    <2>2. CASE ~(first /\ state = "Open")
      BY <1>1, <2>2 DEF Typed, TypeOK, Target
    <2> QED BY <2>1, <2>2
  <1>9. state' \in StreamState /\ online' \in {"Unknown", "Online", "Offline"} /\ timer' \in BOOLEAN
    BY <1>1 DEF Typed, TypeOK, StreamState, Started, StateAtStart
  <1> QED
    BY <1>1, <1>3, <1>5, <1>6, <1>7, <1>8, <1>9
    DEF Typed, TypeOK, appVars, Task, Event, View, Target

LEMMA RemoveTypes ==
  ASSUME Typed, RemoveQueryListener
  PROVE  Typed'
  <1> DEFINE g == Head(tasks).get
             q == QueryOf[g]
  <1>1. /\ tasks # <<>> /\ tasks' = Tail(tasks)
        /\ UNCHANGED <<appVars, heard, fromServer, serving, complete, watchVars, faults>>
        /\ ForgetListener(q, g) \/ StopListening(q, g)
    BY DEF RemoveQueryListener
  <1>2. tasks \in Seq(Task)
    BY DEF Typed, TypeOK, Task
  <1>3. Tail(tasks) \in Seq(Task) /\ g \in Get /\ q \in Query
    <2>1. Tail(tasks) \in Seq(Task) /\ Head(tasks) \in Task
      BY <1>1, <1>2, HeadTailProperties
    <2> QED BY <2>1, FirestoreReadsAssumption DEF Task
  <1>4. CASE ForgetListener(q, g)
    BY <1>1, <1>3, <1>4 DEF Typed, TypeOK, Task, ForgetListener, appVars, watchVars, onlineVars
  <1>5. CASE StopListening(q, g)
    <2>1. /\ listeners' \in [Query -> SUBSET Get]
          /\ view' \in [Query -> View]
          /\ targets' \subseteq Query
          /\ UNCHANGED <<raised, events, state>>
      BY <1>3, <1>5 DEF StopListening, Typed, TypeOK, View
    <2>2. /\ toServer' \in Seq(Request)
          /\ target' \in [Query -> Target]
          /\ online' \in {"Unknown", "Online", "Offline"}
          /\ timer' \in BOOLEAN /\ idle' \in BOOLEAN
          /\ failures' \in 0 .. kMaxWatchStreamFailures
      <3>1. CASE state = "Open"
        <4>1. /\ toServer' = Append(toServer, [op |-> "unwatch", query |-> q, turn |-> 0])
              /\ target' = Requested(target, {q})
              /\ idle' = (targets = {q}) /\ UNCHANGED onlineVars
          BY <1>5, <3>1 DEF StopListening
        <4>2. [op |-> "unwatch", query |-> q, turn |-> 0] \in Request
          BY <1>3 DEF Request
        <4>3. toServer' \in Seq(Request)
          BY <4>1, <4>2, AppendTypes DEF Typed
        <4>4. target \in [Query -> Target]
          BY DEF Typed, TypeOK, Target
        <4>5. target' \in [Query -> Target]
          <5>1. \A p \in Query : [target[p] EXCEPT !.outstanding = @ + 1] \in Target
            BY <4>4 DEF Target
          <5> QED BY <4>1, <4>4, <5>1 DEF Requested
        <4>6. /\ online \in {"Unknown", "Online", "Offline"} /\ timer \in BOOLEAN
              /\ failures \in 0 .. kMaxWatchStreamFailures
          BY DEF Typed, TypeOK
        <4> HIDE DEF q
        <4> QED BY <4>1, <4>3, <4>5, <4>6 DEF onlineVars
      <3>2. CASE state # "Open"
        <4>1. /\ online \in {"Unknown", "Online", "Offline"} /\ timer \in BOOLEAN
              /\ failures \in 0 .. kMaxWatchStreamFailures /\ idle \in BOOLEAN
              /\ toServer \in Seq(Request) /\ target \in [Query -> Target]
          BY DEF Typed, TypeOK, Target
        <4>2. /\ UNCHANGED <<toServer, target, idle>>
              /\ UNCHANGED onlineVars \/ (online' = "Unknown" /\ timer' = FALSE /\ failures' = 0)
          BY <1>5, <3>2 DEF StopListening
        <4>3. failures' \in 0 .. kMaxWatchStreamFailures
          BY <4>1, <4>2 DEF onlineVars, kMaxWatchStreamFailures
        <4>4. /\ toServer' \in Seq(Request) /\ target' \in [Query -> Target]
              /\ online' \in {"Unknown", "Online", "Offline"}
              /\ timer' \in BOOLEAN /\ idle' \in BOOLEAN
          BY <4>1, <4>2 DEF onlineVars
        <4> QED BY <4>3, <4>4
      <3> QED BY <3>1, <3>2
    <2> QED BY <1>1, <1>3, <2>1, <2>2
      DEF Typed, TypeOK, Task, View, Target, appVars, watchVars
  <1> QED BY <1>1, <1>4, <1>5

(* The application's own step. *)
LEMMA OnEventTypes ==
  ASSUME Typed, OnEvent
  PROVE  Typed'
  <1> DEFINE e == Head(events)
             S == {"server", "cache", "error"}
  <1>1. events \in Seq(Event) /\ tasks \in Seq(Task) /\ answers \in [Get -> Seq(S)]
    BY DEF Typed, TypeOK, Event, Task
  <1>2. /\ events # <<>> /\ events' = Tail(events)
        /\ UNCHANGED <<begun, viewVars, targets, state, idle, target, onlineVars,
                       heard, wireVars, watchVars, faults>>
    BY DEF OnEvent
  <1>3. e \in Event /\ events' \in Seq(Event)
    BY <1>1, <1>2, HeadTailProperties
  <1>4. /\ tasks' = tasks \/ tasks' = Append(tasks, [op |-> "remove", get |-> e.get])
        /\ answers' = answers \/ answers' = [answers EXCEPT ![e.get] = Append(@, e.source)]
        /\ muted' = muted \/ muted' = muted \cup {e.get}
    BY DEF OnEvent
  <1>5. e.get \in Get /\ e.source \in S /\ [op |-> "remove", get |-> e.get] \in Task
    BY <1>3 DEF Event, Task
  <1>6. tasks' \in Seq(Task)
    BY <1>1, <1>4, <1>5, AppendTypes
  <1>7. answers' \in [Get -> Seq(S)]
    <2>1. answers[e.get] \in Seq(S)
      BY <1>1, <1>5
    <2>2. Append(answers[e.get], e.source) \in Seq(S)
      BY <1>5, <2>1, AppendTypes
    <2> QED BY <1>1, <1>4, <1>5, <2>2
  <1>8. muted' \subseteq Get
    BY <1>4, <1>5 DEF Typed, TypeOK
  <1> QED BY <1>2, <1>3, <1>6, <1>7, <1>8
    DEF Typed, TypeOK, Event, Task, viewVars, onlineVars, wireVars, watchVars

LEMMA GetDocumentsTypes ==
  ASSUME Typed, NEW g \in Get, GetDocuments(g)
  PROVE  Typed'
  <1>1. tasks \in Seq(Task) /\ [op |-> "add", get |-> g] \in Task
    BY DEF Typed, TypeOK, Task
  <1>2. tasks' \in Seq(Task)
    BY <1>1, AppendTypes DEF GetDocuments
  <1>3. begun' \subseteq Get
    BY DEF GetDocuments, Typed, TypeOK
  <1> QED BY <1>2, <1>3
    DEF GetDocuments, Typed, TypeOK, Task, viewVars, onlineVars, wireVars, watchVars

LEMMA LocalChangeTypes ==
  ASSUME Typed, NEW q \in Query, LocalChange(q)
  PROVE  Typed'
  <1>1. /\ RaiseEvents(listeners, view, {q}, online)
        /\ UNCHANGED <<appVars, tasks, listeners, view, targets, state, idle, target,
                       onlineVars, heard, wireVars, watchVars>>
    BY DEF LocalChange
  <1>2. raised' \subseteq Get /\ events' \in Seq(Event)
    BY <1>1, RaisedTypes
  <1> QED BY <1>1, <1>2
    DEF Typed, TypeOK, Event, appVars, onlineVars, wireVars, watchVars

LEMMA OpenTypes ==
  ASSUME Typed, OnWatchStreamOpen
  PROVE  Typed'
  <1>1. /\ state' = "Open"
        /\ SendWatchRequests(targets)
        /\ UNCHANGED <<appVars, tasks, events, viewVars, targets, onlineVars, heard,
                       fromServer, serving, complete, faults>>
    BY DEF OnWatchStreamOpen
  <1>2. targets \in SUBSET Query
    BY DEF Typed, TypeOK
  <1>3. /\ toServer' \in Seq(Request) /\ watches' \in Nat
        /\ target' \in [Query -> Target]
        /\ lastWatch' \in [Query -> 0 .. watches']
        /\ idle' \in BOOLEAN
    BY <1>1, <1>2, SendTypes DEF Target
  <1>4. state' \in StreamState
    BY <1>1 DEF StreamState
  <1> QED BY <1>1, <1>3, <1>4
    DEF Typed, TypeOK, Target, appVars, viewVars, onlineVars

(* The stream ends, and the online state becomes o. *)
LEMMA EndTypes ==
  ASSUME Typed, NEW o \in {"Unknown", "Online", "Offline"},
         NewConnection, SetAndBroadcast(o),
         timer' \in BOOLEAN, failures' \in 0 .. kMaxWatchStreamFailures,
         state' \in StreamState, idle' = FALSE,
         UNCHANGED <<appVars, tasks, targets, watchVars>>
  PROVE  Typed'
  <1>1. /\ heard' = FALSE /\ complete' = {}
        /\ toServer' \in Seq(Request) /\ fromServer' \in Seq(Response)
        /\ serving' \in [Query -> Nat]
        /\ target' \in [Query -> Target]
    BY NewConnectionTypes
  <1>2. /\ raised' \subseteq Get /\ events' \in Seq(Event)
        /\ view' \in [Query -> View]
        /\ listeners' = listeners /\ online' = o
    BY BroadcastTypes
  <1> QED BY <1>1, <1>2
    DEF Typed, TypeOK, Target, Event, View, appVars, watchVars

LEMMA CloseTypes ==
  ASSUME Typed, OnWatchStreamClose
  PROVE  Typed'
  <1>1. /\ idle' = FALSE /\ NewConnection
        /\ UNCHANGED <<appVars, tasks, targets, watchVars>>
        /\ \/ state' = Started("Error") /\ HandleWatchStreamFailure
           \/ state' = "Error" /\ UpdateState("Unknown")
    BY DEF OnWatchStreamClose
  <1>2. state' \in StreamState
    BY <1>1 DEF StreamState, Started
  <1>3. /\ online \in {"Unknown", "Online", "Offline"}
        /\ failures \in 0 .. kMaxWatchStreamFailures
    BY DEF Typed, TypeOK
  <1>4. timer \in BOOLEAN
    BY DEF Typed, TypeOK
  <1>5. CASE UpdateState("Unknown")
    <2>1. /\ timer' = FALSE /\ failures' \in 0 .. kMaxWatchStreamFailures
          /\ SetAndBroadcast("Unknown")
      BY <1>5 DEF UpdateState, kMaxWatchStreamFailures
    <2> QED BY <1>1, <1>2, <2>1, EndTypes
  <1>6. CASE HandleWatchStreamFailure
    <2>1. CASE online = "Online"
      <3>1. SetAndBroadcast("Unknown") /\ timer' = TRUE /\ failures' = failures
        BY <1>6, <2>1 DEF HandleWatchStreamFailure
      <3> QED BY <1>1, <1>2, <1>3, <3>1, EndTypes
    <2>2. CASE online # "Online"
      <3>1. /\ failures' = kMaxWatchStreamFailures
            /\ timer' = (timer /\ ~(failures + 1 >= kMaxWatchStreamFailures))
            /\ SetAndBroadcast(IF failures + 1 >= kMaxWatchStreamFailures
                               THEN "Offline" ELSE online)
        BY <1>6, <2>2 DEF HandleWatchStreamFailure
      <3>2. failures' \in 0 .. kMaxWatchStreamFailures
        BY <3>1 DEF kMaxWatchStreamFailures
      <3>3. timer' \in BOOLEAN
        BY <3>1
      <3>4. SetAndBroadcast("Offline")
        BY <1>3, <3>1 DEF kMaxWatchStreamFailures
      <3> QED BY <1>1, <1>2, <3>2, <3>3, <3>4, EndTypes
    <2> QED BY <2>1, <2>2
  <1> QED BY <1>1, <1>5, <1>6

LEMMA IdleTypes ==
  ASSUME Typed, IdleTimeout
  PROVE  Typed'
  <1>1. /\ idle' = FALSE /\ state' = "Initial" /\ NewConnection
        /\ timer' = FALSE /\ failures' = 0 /\ SetAndBroadcast("Unknown")
        /\ UNCHANGED <<appVars, tasks, targets, watchVars>>
    BY DEF IdleTimeout, UpdateState
  <1>2. state' \in StreamState
    BY <1>1 DEF StreamState
  <1>3. failures' \in 0 .. kMaxWatchStreamFailures
    BY <1>1 DEF kMaxWatchStreamFailures
  <1> QED BY <1>1, <1>2, <1>3, EndTypes

LEMMA CredentialTypes ==
  ASSUME Typed, HandleCredentialChange
  PROVE  Typed'
  <1>1. /\ idle' = FALSE /\ NewConnection /\ SetAndBroadcast("Unknown")
        /\ failures' = 0 /\ timer' = (targets # {})
        /\ UNCHANGED <<appVars, tasks, targets, watchVars>>
    BY DEF HandleCredentialChange
  <1>2. state' \in StreamState
    BY DEF HandleCredentialChange, StreamState, Started, Typed, TypeOK
  <1>3. failures' \in 0 .. kMaxWatchStreamFailures
    BY <1>1 DEF kMaxWatchStreamFailures
  <1>4. timer' \in BOOLEAN
    BY <1>1
  <1> QED BY <1>1, <1>2, <1>3, <1>4, EndTypes

LEMMA OnlineTimeoutTypes ==
  ASSUME Typed, OnlineStateTimeout
  PROVE  Typed'
  <1>1. /\ timer' = FALSE /\ SetAndBroadcast("Offline")
        /\ UNCHANGED <<appVars, tasks, targets, state, idle, target, failures, heard,
                       wireVars, watchVars, faults>>
    BY DEF OnlineStateTimeout
  <1>2. /\ raised' \subseteq Get /\ events' \in Seq(Event)
        /\ view' \in [Query -> View]
        /\ listeners' = listeners /\ online' = "Offline"
    BY <1>1, BroadcastTypes
  <1> QED BY <1>1, <1>2
    DEF Typed, TypeOK, Event, View, appVars, wireVars, watchVars

LEMMA BackoffTypes ==
  ASSUME Typed, BackoffElapsed
  PROVE  Typed'
  BY DEF BackoffElapsed, StreamState, Typed, TypeOK, appVars, viewVars, onlineVars,
         wireVars, watchVars

-----------------------------------------------------------------------------
(* Types of what goes over the wire.                                       *)

(* What the server sends at once: about a target, then perhaps a snapshot. *)
LEMMA SentTypes ==
  ASSUME Typed, NEW m \in AboutTarget, NEW done
  PROVE  /\ fromServer \o <<m>> \o Snapshot(done) \in Seq(Response)
         /\ \/ fromServer \o <<m>> \o Snapshot(done) = Append(fromServer, m)
            \/ fromServer \o <<m>> \o Snapshot(done)
                 = Append(Append(fromServer, m), [kind |-> "snapshot", query |-> "all", turn |-> 0])
  <1> DEFINE s == [kind |-> "snapshot", query |-> "all", turn |-> 0]
  <1>1. fromServer \in Seq(Response) /\ m \in Response /\ s \in Response
    BY DEF Typed, Response, OfSnapshot
  <1>2. Snapshot(done) = <<>> \/ Snapshot(done) = <<s>>
    BY DEF Snapshot
  <1>3. fromServer \o <<m>> = Append(fromServer, m) /\ Append(fromServer, m) \in Seq(Response)
    BY <1>1
  <1>4. CASE Snapshot(done) = <<>>
    <2>1. fromServer \o <<m>> \o Snapshot(done) = Append(fromServer, m)
      BY <1>3, <1>4, ConcatEmptySeq
    <2> QED BY <1>3, <2>1
  <1>5. CASE Snapshot(done) = <<s>>
    <2>1. Append(fromServer, m) \o <<s>> = Append(Append(fromServer, m), s)
      BY <1>1, <1>3
    <2>2. Append(Append(fromServer, m), s) \in Seq(Response)
      BY <1>1, <1>3, AppendTypes
    <2> QED BY <1>3, <1>5, <2>1, <2>2
  <1> QED BY <1>2, <1>4, <1>5

LEMMA ServerTypes ==
  ASSUME Typed,
         \/ ServerHears
         \/ \E q \in Query : ServerCompletes(q) \/ ServerChanges(q)
  PROVE  Typed'
  <1>1. /\ UNCHANGED <<appVars, tasks, events, viewVars, targets, state, idle, target,
                       onlineVars, heard, watchVars>>
    BY DEF ServerHears, ServerCompletes, ServerChanges
  <1>2. toServer \in Seq(Request) /\ fromServer \in Seq(Response)
        /\ serving \in [Query -> Nat] /\ complete \subseteq Query
    BY DEF Typed, TypeOK
  <1>3. ASSUME ServerHears
        PROVE  /\ toServer' \in Seq(Request) /\ fromServer' \in Seq(Response)
               /\ serving' \in [Query -> Nat] /\ complete' \subseteq Query
    <2> DEFINE r == Head(toServer)
               reply(kind) == [kind |-> kind, query |-> r.query, turn |-> r.turn]
    <2>1. toServer # <<>> /\ toServer' = Tail(toServer) /\ complete' = complete \ {r.query}
      BY <1>3 DEF ServerHears
    <2>2. toServer' \in Seq(Request) /\ r \in Request
      BY <1>2, <2>1, HeadTailProperties
    <2>3. \A k \in {"added", "removed", "refused"} : reply(k) \in Response
      <3>1. r.query \in Query /\ r.turn \in Nat
        BY <2>2 DEF Request
      <3> QED BY <3>1 DEF Response, AboutTarget
    <2>4. /\ serving' = serving \/ serving' = [serving EXCEPT ![r.query] = r.turn]
             \/ serving' = [serving EXCEPT ![r.query] = 0]
          /\ fromServer' = fromServer
             \/ \E k \in {"added", "removed", "refused"} : fromServer' = Append(fromServer, reply(k))
      BY <1>3 DEF ServerHears
    <2> HIDE DEF reply
    <2>5. fromServer' \in Seq(Response)
      <3>1. \A k \in {"added", "removed", "refused"} : Append(fromServer, reply(k)) \in Seq(Response)
        BY <1>2, <2>3, AppendTypes
      <3> QED BY <1>2, <2>4, <3>1
    <2>6. serving' \in [Query -> Nat]
      <3>1. r.turn \in Nat
        BY <2>2 DEF Request
      <3>2. \/ serving' = serving \/ serving' = [serving EXCEPT ![r.query] = r.turn]
            \/ serving' = [serving EXCEPT ![r.query] = 0]
        BY <2>4
      <3> QED BY <1>2, <3>1, <3>2
    <2> QED BY <1>2, <2>1, <2>2, <2>5, <2>6
  <1>4. ASSUME NEW q \in Query, ServerCompletes(q) \/ ServerChanges(q)
        PROVE  /\ toServer' \in Seq(Request) /\ fromServer' \in Seq(Response)
               /\ serving' \in [Query -> Nat] /\ complete' \subseteq Query
    <2>1. Message("current", q) \in AboutTarget /\ Message("document", q) \in AboutTarget
      BY <1>2 DEF Message, AboutTarget
    <2>2. /\ UNCHANGED <<toServer, serving>>
          /\ complete' = complete \/ complete' = complete \cup {q}
          /\ \/ fromServer' = fromServer \o <<Message("current", q)>> \o Snapshot(complete')
             \/ fromServer' = fromServer \o <<Message("document", q)>> \o Snapshot(complete)
      BY <1>4 DEF ServerCompletes, ServerChanges
    <2>3. fromServer' \in Seq(Response)
      BY <2>1, <2>2, SentTypes
    <2> QED BY <1>2, <2>2, <2>3
  <1>5. /\ toServer' \in Seq(Request) /\ fromServer' \in Seq(Response)
        /\ serving' \in [Query -> Nat] /\ complete' \subseteq Query
    BY <1>3, <1>4
  <1> QED BY <1>1, <1>5
    DEF Typed, TypeOK, appVars, viewVars, onlineVars, watchVars

LEMMA TargetAfterTypes ==
  ASSUME target \in [Query -> Target], NEW m \in AboutTarget,
         m.kind \in {"added", "removed"} => target[m.query].outstanding # 0
  PROVE  TargetAfter(m) \in Target
  <1> DEFINE t == target[m.query]
  <1>1. t \in Target /\ m.query \in Query /\ m.turn \in Nat
        /\ m.kind \in {"added", "removed", "refused", "current", "document"}
    BY DEF AboutTarget
  <1>2. CASE m.kind \in {"added", "removed"}
    <2>1. Responded(t) \in Target
      BY <1>1, <1>2 DEF Responded, Target
    <2>2. [Responded(t) EXCEPT !.pending = FALSE] \in Target /\ NoTarget \in Target
      BY <2>1 DEF Target, NoTarget
    <2>3. TargetAfter(m) \in {Responded(t), [Responded(t) EXCEPT !.pending = FALSE], NoTarget}
      BY <1>2 DEF TargetAfter
    <2> QED BY <2>1, <2>2, <2>3
  <1>3. CASE m.kind \notin {"added", "removed"}
    <2>1. /\ [t EXCEPT !.pending = TRUE, !.current = m.turn] \in Target
          /\ [t EXCEPT !.pending = TRUE] \in Target
      BY <1>1 DEF Target
    <2>2. TargetAfter(m) \in {t, [t EXCEPT !.pending = TRUE],
                              [t EXCEPT !.pending = TRUE, !.current = m.turn]}
      BY <1>3 DEF TargetAfter
    <2> QED BY <1>1, <2>1, <2>2
  <1> QED BY <1>2, <1>3

LEMMA HeardTypes ==
  ASSUME Typed, Owed, OnWatchStreamChange
  PROVE  Typed'
  <1> DEFINE m == Head(fromServer)
  <1>1. /\ fromServer # <<>> /\ fromServer' = Tail(fromServer)
        /\ online' = "Online" /\ timer' = FALSE /\ failures' = 0 /\ heard' = TRUE
        /\ TargetChange(m) \/ TargetError(m) \/ RaiseWatchSnapshot(m)
        /\ UNCHANGED <<appVars, tasks, state, idle, toServer, serving, complete,
                       watchVars, faults>>
    BY DEF OnWatchStreamChange
  <1>2. /\ fromServer \in Seq(Response) /\ target \in [Query -> Target]
        /\ events \in Seq(Event) /\ raised \subseteq Get
        /\ view \in [Query -> View] /\ listeners \in [Query -> SUBSET Get]
        /\ targets \subseteq Query
    BY DEF Typed, TypeOK, Target, Event, View
  <1>3. fromServer' \in Seq(Response) /\ m \in Response
    BY <1>1, <1>2, HeadTailProperties
  <1>4. m.kind # "snapshot" => m \in AboutTarget
    BY <1>3 DEF Response, OfSnapshot
  <1>5. failures' \in 0 .. kMaxWatchStreamFailures
    BY <1>1 DEF kMaxWatchStreamFailures
  <1>6. /\ target' \in [Query -> Target] /\ events' \in Seq(Event)
        /\ raised' \subseteq Get /\ view' \in [Query -> View]
        /\ listeners' \in [Query -> SUBSET Get] /\ targets' \subseteq Query
    <2>1. CASE TargetChange(m)
      <3>1. TargetAfter(m) \in Target
        BY <1>1, <1>2, <1>4, <2>1, TargetAfterTypes DEF TargetChange, Owed
      <3> QED BY <1>2, <2>1, <3>1 DEF TargetChange
    <2>2. CASE TargetError(m)
      <3>1. m.query \in Query
        BY <1>4, <2>2 DEF TargetError, AboutTarget
      <3> DEFINE es == SetToSeq({[get |-> g, source |-> "error"] : g \in listeners[m.query]})
      <3>2. listeners[m.query] \in SUBSET Get
        BY <1>2, <3>1
      <3>3. es \in Seq(Event)
        BY <3>2, ErrorsTypes
      <3>4. /\ events' = events \/ events' = events \o es
            /\ raised' = raised
            /\ targets' = targets \/ targets' = targets \ {m.query}
            /\ target' = target \/ target' = [target EXCEPT ![m.query] = NoTarget]
            /\ view' = view \/ view' = [view EXCEPT ![m.query] = "none"]
            /\ listeners' = listeners \/ listeners' = [listeners EXCEPT ![m.query] = {}]
        BY <2>2 DEF TargetError, viewVars
      <3> HIDE DEF es
      <3>5. events' \in Seq(Event)
        <4>1. events \o es \in Seq(Event)
          BY <1>2, <3>3, ConcatProperties
        <4> QED BY <1>2, <3>4, <4>1
      <3>6. target' \in [Query -> Target]
        <4>1. NoTarget \in Target
          BY DEF Target, NoTarget
        <4> QED BY <1>2, <3>4, <4>1
      <3>7. view' \in [Query -> View]
        BY <1>2, <3>4 DEF View
      <3> QED BY <1>2, <3>4, <3>5, <3>6, <3>7
    <2>3. CASE RaiseWatchSnapshot(m)
      <3> DEFINE vs == [q \in Query |->
                         IF q \in Changed
                         THEN IF target[q].current # 0 THEN "current" ELSE "local"
                         ELSE view[q]]
      <3>1. /\ target' = [q \in Query |-> [target[q] EXCEPT !.pending = @ /\ q \notin Changed]]
            /\ view' = vs /\ RaiseEvents(listeners, vs, Changed, "Online")
            /\ UNCHANGED <<listeners, targets>>
        BY <2>3 DEF RaiseWatchSnapshot
      <3>2. raised' \subseteq Get /\ events' \in Seq(Event)
        BY <3>1, RaisedTypes
      <3>3. view' \in [Query -> View]
        BY <1>2, <3>1 DEF View
      <3>4. \A q \in Query : [target[q] EXCEPT !.pending = @ /\ q \notin Changed] \in Target
        BY <1>2 DEF Target
      <3>5. target' \in [Query -> Target]
        BY <3>1, <3>4
      <3> QED BY <1>2, <3>1, <3>2, <3>3, <3>5
    <2> QED BY <1>1, <2>1, <2>2, <2>3
  <1> QED BY <1>1, <1>3, <1>5, <1>6
    DEF Typed, TypeOK, Target, Event, View, appVars, watchVars

LEMMA TypesKept ==
  ASSUME Typed, Owed, [Next]_vars
  PROVE  Typed'
  <1>1. CASE Next
    BY <1>1, Typed, Owed, GetDocumentsTypes, OnEventTypes, AddTypes, RemoveTypes,
       LocalChangeTypes, BackoffTypes, OpenTypes, CloseTypes, IdleTypes,
       OnlineTimeoutTypes, CredentialTypes, ServerTypes, HeardTypes
    DEF Next
  <1>2. CASE UNCHANGED vars
    BY <1>2 DEF vars, Typed, TypeOK, appVars, viewVars, onlineVars, wireVars, watchVars
  <1> QED BY <1>1, <1>2

-----------------------------------------------------------------------------
(* The records of what is listened to.                                     *)

(* Who listens, and which views there are, stays; the stream goes on. *)
LEMMA SameRecords ==
  ASSUME Typed, RecordsAgree,
         UNCHANGED <<listeners, targets>>,
         \A q \in Query : view'[q] = "none" <=> view[q] = "none",
         targets # {} => IsStarted(state'),
         idle' => targets = {} /\ state' = "Open"
  PROVE  RecordsAgree'
  BY DEF RecordsAgree

LEMMA AddAgrees ==
  ASSUME Typed, RecordsAgree, AddQueryListener
  PROVE  RecordsAgree'
  <1> DEFINE g == Head(tasks).get
             q == QueryOf[g]
             first == listeners[q] = {}
             starting == first /\ ~IsStarted(state)
  <1>1. /\ tasks # <<>>
        /\ listeners' = [listeners EXCEPT ![q] = @ \cup {g}]
        /\ view' = [view EXCEPT ![q] = IF first THEN "local" ELSE @]
        /\ targets' = targets \cup {q}
        /\ state' = IF starting THEN Started(state) ELSE state
        /\ IF first /\ state = "Open"
           THEN SendWatchRequests({q})
           ELSE UNCHANGED <<toServer, target, watches, lastWatch, idle>>
    BY DEF AddQueryListener
  <1>2. g \in Get /\ q \in Query
    <2>1. tasks \in Seq(Task)
      BY DEF Typed, TypeOK, Task
    <2>2. Head(tasks) \in Task
      BY <1>1, <2>1, HeadTailProperties
    <2> QED BY <2>2, FirestoreReadsAssumption DEF Task
  <1>3. /\ listeners \in [Query -> SUBSET Get] /\ view \in [Query -> View]
        /\ targets \subseteq Query /\ state \in StreamState
    BY DEF Typed, TypeOK, View
  <1>4. targets' = {p \in Query : listeners'[p] # {}}
    BY <1>1, <1>2, <1>3 DEF RecordsAgree
  <1>5. targets' = {p \in Query : view'[p] # "none"}
    BY <1>1, <1>2, <1>3 DEF RecordsAgree
  <1>6. IsStarted(state')
    BY <1>1, <1>2, <1>3 DEF RecordsAgree, IsStarted, Started
  <1>7. idle' => targets' = {} /\ state' = "Open"
    <2>1. CASE first /\ state = "Open"
      <3>1. idle' = (idle /\ {q} = {})
        BY <1>1, <2>1 DEF SendWatchRequests
      <3> QED BY <3>1
    <2>2. CASE ~(first /\ state = "Open")
      <3>1. idle' = idle
        BY <1>1, <2>2
      <3>2. idle => first /\ state = "Open"
        BY <1>2, <1>3 DEF RecordsAgree
      <3> QED BY <2>2, <3>1, <3>2
    <2> QED BY <2>1, <2>2
  <1> QED BY <1>4, <1>5, <1>6, <1>7 DEF RecordsAgree

LEMMA RemoveAgrees ==
  ASSUME Typed, RecordsAgree, RemoveQueryListener
  PROVE  RecordsAgree'
  <1> DEFINE g == Head(tasks).get
             q == QueryOf[g]
  <1>1. q \in Query
    <2>1. tasks \in Seq(Task) /\ tasks # <<>>
      BY DEF Typed, TypeOK, Task, RemoveQueryListener
    <2>2. Head(tasks) \in Task
      BY <2>1, HeadTailProperties
    <2> QED BY <2>2, FirestoreReadsAssumption DEF Task
  <1>2. ForgetListener(q, g) \/ StopListening(q, g)
    BY DEF RemoveQueryListener
  <1>3. /\ listeners \in [Query -> SUBSET Get] /\ view \in [Query -> View]
        /\ targets \subseteq Query
    BY DEF Typed, TypeOK, View
  <1> HIDE DEF q, g
  <1>4. CASE ForgetListener(q, g)
    BY <1>1, <1>3, <1>4 DEF ForgetListener, RecordsAgree
  <1>5. CASE StopListening(q, g)
    <2>1. /\ listeners[q] = {g}
          /\ listeners' = [listeners EXCEPT ![q] = {}]
          /\ view' = [view EXCEPT ![q] = "none"]
          /\ targets' = targets \ {q} /\ state' = state
      BY <1>5 DEF StopListening
    <2>4. idle' => idle \/ (state = "Open" /\ targets = {q})
      BY <1>5 DEF StopListening
    <2>2. targets' = {p \in Query : listeners'[p] # {}}
      BY <1>1, <1>3, <2>1 DEF RecordsAgree
    <2>3. targets' = {p \in Query : view'[p] # "none"}
      BY <1>1, <1>3, <2>1 DEF RecordsAgree
    <2> QED BY <2>1, <2>2, <2>3, <2>4 DEF RecordsAgree
  <1> QED BY <1>2, <1>4, <1>5

LEMMA HeardAgrees ==
  ASSUME Typed, RecordsAgree, OnWatchStreamChange
  PROVE  RecordsAgree'
  <1> DEFINE m == Head(fromServer)
  <1>1. /\ TargetChange(m) \/ TargetError(m) \/ RaiseWatchSnapshot(m)
        /\ UNCHANGED <<state, idle>>
    BY DEF OnWatchStreamChange
  <1>2. /\ listeners \in [Query -> SUBSET Get] /\ view \in [Query -> View]
        /\ targets \subseteq Query
    BY DEF Typed, TypeOK, View
  <1> HIDE DEF m
  <1>3. CASE TargetChange(m)
    BY <1>1, <1>3, SameRecords DEF TargetChange, RecordsAgree
  <1>4. CASE TargetError(m)
    <2>1. CASE m.query \notin targets
      BY <1>1, <1>4, <2>1, SameRecords DEF TargetError, RecordsAgree, viewVars
    <2>2. CASE m.query \in targets
      <3>1. /\ targets' = targets \ {m.query}
            /\ view' = [view EXCEPT ![m.query] = "none"]
            /\ listeners' = [listeners EXCEPT ![m.query] = {}]
        BY <1>4, <2>2 DEF TargetError
      <3>2. targets' = {p \in Query : listeners'[p] # {}}
        BY <1>2, <2>2, <3>1 DEF RecordsAgree
      <3>3. targets' = {p \in Query : view'[p] # "none"}
        BY <1>2, <2>2, <3>1 DEF RecordsAgree
      <3> QED BY <1>1, <3>1, <3>2, <3>3 DEF RecordsAgree
    <2> QED BY <2>1, <2>2
  <1>5. CASE RaiseWatchSnapshot(m)
    <2>1. /\ UNCHANGED <<listeners, targets>>
          /\ view' = [q \in Query |->
               IF q \in Changed
               THEN IF target[q].current # 0 THEN "current" ELSE "local"
               ELSE view[q]]
      BY <1>5 DEF RaiseWatchSnapshot
    <2>2. \A q \in Changed : q \in targets
      BY DEF Changed, IsActiveTarget
    <2>3. \A q \in Query : view'[q] = "none" <=> view[q] = "none"
      BY <2>1, <2>2 DEF RecordsAgree
    <2> QED BY <1>1, <2>1, <2>3, SameRecords DEF RecordsAgree
  <1> QED BY <1>1, <1>3, <1>4, <1>5

LEMMA RecordsKept ==
  ASSUME Typed, RecordsAgree, [Next]_vars
  PROVE  RecordsAgree'
  <1>1. CASE \E g \in Get : GetDocuments(g)
    BY <1>1, SameRecords DEF GetDocuments, viewVars, RecordsAgree
  <1>2. CASE OnEvent
    BY <1>2, SameRecords DEF OnEvent, viewVars, RecordsAgree
  <1>3. CASE \E q \in Query : LocalChange(q)
    BY <1>3, SameRecords DEF LocalChange, RecordsAgree
  <1>4. CASE BackoffElapsed
    BY <1>4, SameRecords DEF BackoffElapsed, viewVars, RecordsAgree, IsStarted
  <1>5. CASE OnWatchStreamOpen
    <2>1. /\ state = "Starting" /\ state' = "Open"
          /\ UNCHANGED <<viewVars, targets>>
          /\ idle' = (idle /\ targets = {})
      BY <1>5 DEF OnWatchStreamOpen, SendWatchRequests
    <2> QED BY <2>1, SameRecords DEF viewVars, RecordsAgree, IsStarted
  <1>6. CASE OnWatchStreamClose
    <2>1. /\ targets' = targets /\ idle' = FALSE
          /\ \/ state' = Started("Error")
             \/ targets = {}
          /\ \E o \in {"Unknown", "Online", "Offline"} : SetAndBroadcast(o)
      <3>1. online \in {"Unknown", "Online", "Offline"}
        BY DEF Typed, TypeOK
      <3>2. CASE targets # {} /\ HandleWatchStreamFailure
        BY <1>6, <3>1, <3>2 DEF OnWatchStreamClose, HandleWatchStreamFailure
      <3>3. CASE targets = {} /\ UpdateState("Unknown")
        BY <1>6, <3>3 DEF OnWatchStreamClose, UpdateState
      <3> QED BY <1>6, <3>2, <3>3 DEF OnWatchStreamClose
    <2>2. /\ listeners' = listeners
          /\ \A q \in Query : view'[q] = "none" <=> view[q] = "none"
      BY <2>1, BroadcastTypes
    <2> QED BY <2>1, <2>2, SameRecords DEF IsStarted, Started
  <1>7. CASE IdleTimeout
    <2>1. idle /\ targets' = targets /\ idle' = FALSE /\ SetAndBroadcast("Unknown")
      BY <1>7 DEF IdleTimeout, UpdateState
    <2>2. /\ listeners' = listeners
          /\ \A q \in Query : view'[q] = "none" <=> view[q] = "none"
      BY <2>1, BroadcastTypes
    <2>3. targets = {}
      BY <2>1 DEF RecordsAgree
    <2> QED BY <2>1, <2>2, <2>3, SameRecords
  <1>8. CASE OnlineStateTimeout
    <2>1. UNCHANGED <<targets, state, idle>> /\ SetAndBroadcast("Offline")
      BY <1>8 DEF OnlineStateTimeout
    <2>2. /\ listeners' = listeners
          /\ \A q \in Query : view'[q] = "none" <=> view[q] = "none"
      BY <2>1, BroadcastTypes
    <2> QED BY <2>1, <2>2, SameRecords DEF RecordsAgree
  <1>9. CASE HandleCredentialChange
    <2>1. targets' = targets /\ idle' = FALSE /\ SetAndBroadcast("Unknown")
      BY <1>9 DEF HandleCredentialChange
    <2>2. /\ listeners' = listeners
          /\ \A q \in Query : view'[q] = "none" <=> view[q] = "none"
      BY <2>1, BroadcastTypes
    <2>3. targets # {} => IsStarted(state')
      BY <1>9 DEF HandleCredentialChange, IsStarted, Started
    <2> QED BY <2>1, <2>2, <2>3, SameRecords
  <1>10. CASE \/ ServerHears
              \/ \E q \in Query : ServerCompletes(q) \/ ServerChanges(q)
    <2>1. UNCHANGED <<viewVars, targets, state, idle>>
      BY <1>10 DEF ServerHears, ServerCompletes, ServerChanges
    <2> QED BY <2>1, SameRecords DEF viewVars, RecordsAgree
  <1>11. CASE UNCHANGED vars
    BY <1>11 DEF vars, viewVars, RecordsAgree
  <1> QED BY <1>1, <1>2, <1>3, <1>4, <1>5, <1>6, <1>7, <1>8, <1>9, <1>10, <1>11,
             AddAgrees, RemoveAgrees, HeardAgrees DEF Next

-----------------------------------------------------------------------------
(* The online state.                                                       *)

(* Nothing is on the wire of a stream that is not open. *)
Quiet ==
  state # "Open" =>
    /\ toServer = <<>> /\ fromServer = <<>> /\ ~heard
    /\ serving = [q \in Query |-> 0] /\ complete = {}
    /\ target = [q \in Query |-> NoTarget]

(***************************************************************************)
(* OfflineIsSilent, which is not kept by itself: that the timer is off on  *)
(* a stream that has been heard needs that such a stream is open and       *)
(* online.                                                                 *)
(***************************************************************************)
OnlineInv ==
  /\ OfflineIsSilent
  /\ heard => online = "Online"
  /\ Quiet

(* A stream ends: nothing is heard on the next one yet. *)
LEMMA EndIsQuiet ==
  ASSUME NewConnection
  PROVE  Quiet' /\ heard' = FALSE
  BY DEF NewConnection, Quiet

(* Neither the tracker nor the stream is touched. *)
LEMMA SameOnline ==
  ASSUME OnlineInv, UNCHANGED <<onlineVars, heard, state, targets>>, Quiet'
  PROVE  OnlineInv'
  BY DEF OnlineInv, OfflineIsSilent, onlineVars

LEMMA AddIsSilent ==
  ASSUME Typed, RecordsAgree, OnlineInv, AddQueryListener
  PROVE  OnlineInv'
  <1> DEFINE g == Head(tasks).get
             q == QueryOf[g]
             first == listeners[q] = {}
             starting == first /\ ~IsStarted(state)
  <1>1. /\ targets' = targets \cup {q}
        /\ state' = IF starting THEN Started(state) ELSE state
        /\ online' = IF starting THEN StateAtStart ELSE online
        /\ timer' = (timer \/ (starting /\ failures = 0))
        /\ IF first /\ state = "Open"
           THEN SendWatchRequests({q})
           ELSE UNCHANGED <<toServer, target, watches, lastWatch, idle>>
        /\ UNCHANGED <<failures, heard, fromServer, serving, complete>>
    BY DEF AddQueryListener
  <1> HIDE DEF first, q
  <1>2. CASE starting
    <2>1. state # "Open" /\ state' # "Open" /\ IsStarted(state')
      BY <1>1, <1>2 DEF IsStarted, Started
    <2>2. ~heard /\ ~heard'
      BY <1>1, <2>1 DEF OnlineInv, Quiet
    <2>3. UNCHANGED <<toServer, target>>
      BY <1>1, <2>1
    <2>4. Quiet'
      BY <1>1, <2>1, <2>2, <2>3 DEF OnlineInv, Quiet
    <2>5. timer => failures = 0
      BY DEF OnlineInv, OfflineIsSilent
    <2>6. timer' => online' = "Unknown" /\ failures' = 0
      BY <1>1, <1>2, <2>5 DEF StateAtStart
    <2>7. failures' # 0 => online' = "Offline"
      BY <1>1, <1>2 DEF OnlineInv, OfflineIsSilent, StateAtStart
    <2> QED BY <2>1, <2>2, <2>4, <2>6, <2>7 DEF OnlineInv, OfflineIsSilent
  <1>3. CASE ~starting
    <2>1. UNCHANGED <<online, state, heard, failures>> /\ (timer' <=> timer)
      BY <1>1, <1>3
    <2>2. state # "Open" => UNCHANGED <<toServer, fromServer, serving, complete, target>>
      BY <1>1
    <2>3. Quiet'
      BY <2>1, <2>2 DEF OnlineInv, Quiet
    <2> QED BY <2>1, <2>3 DEF OnlineInv, OfflineIsSilent
  <1> QED BY <1>2, <1>3

LEMMA RemoveIsSilent ==
  ASSUME Typed, RecordsAgree, OnlineInv, RemoveQueryListener
  PROVE  OnlineInv'
  <1> DEFINE g == Head(tasks).get
             q == QueryOf[g]
  <1>1. /\ ForgetListener(q, g) \/ StopListening(q, g)
        /\ UNCHANGED <<heard, fromServer, serving, complete>>
    BY DEF RemoveQueryListener
  <1> HIDE DEF g, q
  <1>2. CASE ForgetListener(q, g)
    <2>1. /\ UNCHANGED <<onlineVars, heard, state, targets>>
          /\ UNCHANGED <<toServer, fromServer, serving, complete, target>>
      BY <1>1, <1>2 DEF ForgetListener
    <2>2. Quiet'
      BY <2>1 DEF OnlineInv, Quiet
    <2> QED BY <2>1, <2>2, SameOnline
  <1>3. CASE StopListening(q, g)
    <2>1. state' = state /\ targets' = targets \ {q}
      BY <1>3 DEF StopListening
    <2>2. CASE state = "Open"
      <3>1. UNCHANGED onlineVars /\ Quiet'
        BY <1>3, <2>1, <2>2 DEF StopListening, Quiet
      <3> QED BY <1>1, <2>1, <3>1 DEF OnlineInv, OfflineIsSilent, onlineVars
    <2>3. CASE state # "Open"
      <3>1. /\ UNCHANGED <<toServer, target>>
            /\ \/ online' = "Unknown" /\ timer' = FALSE /\ failures' = 0
               \/ UNCHANGED onlineVars
        BY <1>3, <2>3 DEF StopListening
      <3>2. Quiet' /\ ~heard'
        BY <1>1, <2>1, <2>3, <3>1 DEF OnlineInv, Quiet
      <3>3. CASE UNCHANGED onlineVars
        BY <2>1, <3>2, <3>3 DEF OnlineInv, OfflineIsSilent, onlineVars
      <3>4. CASE online' = "Unknown" /\ timer' = FALSE /\ failures' = 0
        BY <3>2, <3>4 DEF OnlineInv, OfflineIsSilent
      <3> QED BY <3>1, <3>3, <3>4
    <2> QED BY <2>2, <2>3
  <1> QED BY <1>1, <1>2, <1>3

LEMMA CloseIsSilent ==
  ASSUME Typed, RecordsAgree, OnlineInv, OnWatchStreamClose
  PROVE  OnlineInv'
  <1>1. Quiet' /\ heard' = FALSE
    BY EndIsQuiet DEF OnWatchStreamClose
  <1>2. CASE targets = {} /\ UpdateState("Unknown")
    <2>1. timer' = FALSE /\ failures' = 0 /\ online' = "Unknown"
      BY <1>2 DEF UpdateState, SetAndBroadcast
    <2> QED BY <1>1, <2>1 DEF OnlineInv, OfflineIsSilent
  <1>3. CASE state' = Started("Error") /\ HandleWatchStreamFailure
    <2>1. IsStarted(state')
      BY <1>3 DEF Started, IsStarted
    <2>2. CASE online = "Online"
      <3>1. timer' = TRUE /\ failures' = failures /\ online' = "Unknown"
        BY <1>3, <2>2 DEF HandleWatchStreamFailure, SetAndBroadcast
      <3>2. failures = 0
        BY <2>2 DEF OnlineInv, OfflineIsSilent
      <3> QED BY <1>1, <2>1, <3>1, <3>2 DEF OnlineInv, OfflineIsSilent
    <2>3. CASE online # "Online"
      <3>1. failures \in 0 .. kMaxWatchStreamFailures
        BY DEF Typed, TypeOK
      <3>2. failures + 1 >= kMaxWatchStreamFailures
        BY <3>1 DEF kMaxWatchStreamFailures
      <3>3. timer' = FALSE /\ online' = "Offline"
        BY <1>3, <2>3, <3>2 DEF HandleWatchStreamFailure, SetAndBroadcast
      <3> QED BY <1>1, <3>3 DEF OnlineInv, OfflineIsSilent
    <2> QED BY <2>2, <2>3
  <1> QED BY <1>2, <1>3 DEF OnWatchStreamClose

LEMMA OnlineKept ==
  ASSUME Typed, RecordsAgree, OnlineInv, [Next]_vars
  PROVE  OnlineInv'
  <1>1. CASE \/ \E g \in Get : GetDocuments(g)
             \/ OnEvent
             \/ \E q \in Query : LocalChange(q)
             \/ UNCHANGED vars
    <2>1. UNCHANGED <<onlineVars, heard, state, targets, wireVars, target>>
      BY <1>1 DEF GetDocuments, OnEvent, LocalChange, vars
    <2>2. Quiet'
      BY <2>1 DEF OnlineInv, Quiet, wireVars
    <2> QED BY <2>1, <2>2, SameOnline
  <1>2. CASE BackoffElapsed
    <2>1. /\ state' = "Starting" /\ state = "Backoff"
          /\ UNCHANGED <<onlineVars, heard, targets, wireVars, target>>
      BY <1>2 DEF BackoffElapsed
    <2>2. Quiet'
      BY <2>1 DEF OnlineInv, Quiet, wireVars
    <2> QED BY <2>1, <2>2 DEF OnlineInv, OfflineIsSilent, IsStarted, onlineVars
  <1>3. CASE OnWatchStreamOpen
    <2>1. state = "Starting" /\ state' = "Open" /\ UNCHANGED <<onlineVars, heard, targets>>
      BY <1>3 DEF OnWatchStreamOpen
    <2> QED BY <2>1 DEF OnlineInv, OfflineIsSilent, IsStarted, onlineVars, Quiet
  <1>4. CASE IdleTimeout
    <2>1. /\ NewConnection /\ timer' = FALSE /\ failures' = 0 /\ online' = "Unknown"
      BY <1>4 DEF IdleTimeout, UpdateState, SetAndBroadcast
    <2> QED BY <2>1, EndIsQuiet DEF OnlineInv, OfflineIsSilent
  <1>5. CASE OnlineStateTimeout
    <2>1. /\ timer /\ timer' = FALSE /\ online' = "Offline"
          /\ UNCHANGED <<targets, state, target, heard, wireVars>>
      BY <1>5 DEF OnlineStateTimeout, SetAndBroadcast
    <2>2. ~heard'
      BY <2>1 DEF OnlineInv, OfflineIsSilent
    <2>3. Quiet'
      BY <2>1 DEF OnlineInv, Quiet, wireVars
    <2> QED BY <2>1, <2>2, <2>3 DEF OnlineInv, OfflineIsSilent
  <1>6. CASE HandleCredentialChange
    <2>1. /\ NewConnection /\ timer' = (targets # {}) /\ failures' = 0 /\ online' = "Unknown"
          /\ targets # {} => IsStarted(state')
      BY <1>6 DEF HandleCredentialChange, SetAndBroadcast, IsStarted, Started
    <2> QED BY <2>1, EndIsQuiet DEF OnlineInv, OfflineIsSilent
  <1>7. CASE \/ ServerHears
             \/ \E q \in Query : ServerCompletes(q) \/ ServerChanges(q)
    <2>1. UNCHANGED <<onlineVars, heard, state, targets, target>>
      BY <1>7 DEF ServerHears, ServerCompletes, ServerChanges
    <2>2. state = "Open"
      <3> SUFFICES ASSUME state # "Open" PROVE FALSE
        OBVIOUS
      <3>1. toServer = <<>> /\ serving = [q \in Query |-> 0] /\ complete = {}
        BY DEF OnlineInv, Quiet
      <3> QED BY <1>7, <3>1 DEF ServerHears, ServerCompletes, ServerChanges
    <2>3. Quiet'
      BY <2>1, <2>2 DEF Quiet
    <2> QED BY <2>1, <2>3, SameOnline
  <1>8. CASE OnWatchStreamChange
    <2>1. /\ fromServer # <<>> /\ online' = "Online" /\ timer' = FALSE /\ failures' = 0
          /\ state' = state
      BY <1>8 DEF OnWatchStreamChange
    <2>2. state' = "Open"
      BY <2>1 DEF OnlineInv, Quiet
    <2> QED BY <2>1, <2>2 DEF OnlineInv, OfflineIsSilent, Quiet
  <1> QED BY <1>1, <1>2, <1>3, <1>4, <1>5, <1>6, <1>7, <1>8,
             AddIsSilent, RemoveIsSilent, CloseIsSilent DEF Next

-----------------------------------------------------------------------------
(* One answer for every get.                                               *)

(* The tasks that add the listener of g, and the events for it, by place. *)
Asked(g) == {i \in DOMAIN tasks : tasks[i].op = "add" /\ tasks[i].get = g}
EventsOf(g) == {i \in DOMAIN events : events[i].get = g}

(* The listener of g has been removed, or has never been added. *)
Fresh(g) == ~Listening(g) /\ EventsOf(g) = {} /\ answers[g] = <<>>
Closed(g) == g \in begun /\ ~Listening(g) /\ Asked(g) = {}

(***************************************************************************)
(* A get is added once, before anything else happens to it; an error is    *)
(* its last event; and it is muted, or beyond further events, once it has  *)
(* an answer.                                                              *)
(***************************************************************************)
AnswersOf(g) ==
  /\ g \notin begun => Fresh(g) /\ Asked(g) = {}
  /\ \A i \in Asked(g) : Fresh(g) /\ Asked(g) = {i}
  /\ \A i \in EventsOf(g) : events[i].source = "error" =>
       Closed(g) /\ \A j \in EventsOf(g) : j <= i
  /\ answers[g] # <<>> /\ g \notin muted => Closed(g) /\ EventsOf(g) = {}
  /\ Len(answers[g]) <= 1

AnswersInv ==
  /\ \A q \in Query : \A g \in listeners[q] : QueryOf[g] = q
  /\ \A g \in Get : AnswersOf(g)

LEMMA InitAnswers == Init => AnswersInv
  BY DEF Init, AnswersInv, AnswersOf, Asked, EventsOf, Fresh, Closed, Listening

LEMMA SnapshotsAdded ==
  ASSUME Typed, NEW es, Snapshots(es), events' = events \o es, NEW g
  PROVE  /\ \A i \in EventsOf(g)' : events'[i].source = "error" =>
              i \in EventsOf(g) /\ events[i].source = "error"
         /\ ~Listening(g) => EventsOf(g)' = EventsOf(g)
  <1>1. events \in Seq(Event) /\ es \in Seq(Event)
    BY DEF Typed, TypeOK, Event, Snapshots
  <1>2. /\ Len(events) \in Nat /\ Len(es) \in Nat
        /\ DOMAIN events = 1 .. Len(events) /\ DOMAIN es = 1 .. Len(es)
        /\ events' \in Seq(Event) /\ Len(events') = Len(events) + Len(es)
        /\ DOMAIN events' = 1 .. Len(events) + Len(es)
        /\ \A i \in 1 .. Len(events) + Len(es) :
             events'[i] = IF i <= Len(events) THEN events[i] ELSE es[i - Len(events)]
    BY <1>1, ConcatProperties, LenProperties
  <1>3. \A i \in DOMAIN events' \ DOMAIN events :
          Listening(events'[i].get) /\ events'[i].source # "error"
    <2> TAKE i \in DOMAIN events' \ DOMAIN events
    <2>1. events'[i] = es[i - Len(events)] /\ i - Len(events) \in DOMAIN es
      BY <1>2
    <2> QED BY <2>1 DEF Snapshots
  <1>4. \A i \in DOMAIN events : i \in DOMAIN events' /\ events'[i] = events[i]
    BY <1>2
  <1> QED BY <1>3, <1>4 DEF EventsOf

(* More snapshots for those who listen. *)
LEMMA SnapshotsHarmless ==
  ASSUME Typed, NEW g \in Get, AnswersOf(g),
         NEW es, Snapshots(es), events' = events \o es,
         UNCHANGED <<tasks, listeners, begun, muted, answers>>
  PROVE  AnswersOf(g)'
  <1>1. /\ Asked(g)' = Asked(g)
        /\ Listening(g)' <=> Listening(g)
    BY DEF Asked, Listening
  <1>2. CASE Listening(g)
    <2>1. \A i \in EventsOf(g)' : events'[i].source # "error"
      BY <1>2, SnapshotsAdded DEF AnswersOf, Closed
    <2> QED BY <1>1, <1>2, <2>1 DEF AnswersOf, Fresh, Closed
  <1>3. CASE ~Listening(g)
    <2>1. EventsOf(g)' = EventsOf(g)
      BY <1>3, SnapshotsAdded
    <2>2. \A i \in EventsOf(g) : events'[i].source = "error" => events[i].source = "error"
      BY <2>1, SnapshotsAdded
    <2> QED BY <1>1, <2>1, <2>2 DEF AnswersOf, Fresh, Closed
  <1> QED BY <1>2, <1>3

LEMMA SameAnswers ==
  ASSUME AnswersInv, UNCHANGED <<tasks, events, listeners, begun, muted, answers>>
  PROVE  AnswersInv'
  BY DEF AnswersInv, AnswersOf, Asked, EventsOf, Fresh, Closed, Listening

LEMMA MoreSnapshots ==
  ASSUME Typed, AnswersInv, NEW es, Snapshots(es), events' = events \o es,
         UNCHANGED <<tasks, listeners, begun, muted, answers>>
  PROVE  AnswersInv'
  BY SnapshotsHarmless DEF AnswersInv

LEMMA GetIsNew ==
  ASSUME Typed, AnswersInv, NEW h \in Get, GetDocuments(h)
  PROVE  AnswersInv'
  <1>1. /\ h \notin begun /\ begun' = begun \cup {h}
        /\ tasks' = Append(tasks, [op |-> "add", get |-> h])
        /\ UNCHANGED <<muted, answers, events, listeners>>
    BY DEF GetDocuments, viewVars
  <1>2. tasks \in Seq(Task) /\ [op |-> "add", get |-> h] \in Task
    BY DEF Typed, TypeOK, Task
  <1>3. /\ Len(tasks) \in Nat /\ DOMAIN tasks = 1 .. Len(tasks)
        /\ DOMAIN tasks' = 1 .. Len(tasks) + 1
        /\ \A i \in 1 .. Len(tasks) : tasks'[i] = tasks[i]
        /\ tasks'[Len(tasks) + 1] = [op |-> "add", get |-> h]
    BY <1>1, <1>2
  <1>4. Asked(h)' = Asked(h) \cup {Len(tasks) + 1}
    BY <1>3 DEF Asked
  <1>5. \A g \in Get \ {h} : Asked(g)' = Asked(g)
    BY <1>3 DEF Asked
  <1>6. \A g \in Get : EventsOf(g)' = EventsOf(g) /\ (Listening(g)' <=> Listening(g))
    BY <1>1 DEF EventsOf, Listening
  <1>7. AnswersOf(h)'
    BY <1>1, <1>4, <1>6 DEF AnswersInv, AnswersOf, Fresh, Closed
  <1>8. ASSUME NEW g \in Get \ {h} PROVE AnswersOf(g)'
    BY <1>1, <1>5, <1>6 DEF AnswersInv, AnswersOf, Fresh, Closed
  <1> QED BY <1>1, <1>7, <1>8 DEF AnswersInv

LEMMA TaskTaken ==
  ASSUME Typed, tasks # <<>>, tasks' = Tail(tasks), NEW g
  PROVE  /\ Head(tasks) \in Task
         /\ \A i : i \in Asked(g)' <=> i \in Nat \ {0} /\ i + 1 \in Asked(g)
         /\ 1 \in Asked(g) <=> Head(tasks).op = "add" /\ Head(tasks).get = g
         /\ \A i \in Asked(g) : i \in Nat \ {0}
  <1>1. tasks \in Seq(Task)
    BY DEF Typed, TypeOK, Task
  <1>2. /\ Head(tasks) \in Task /\ Head(tasks) = tasks[1]
        /\ Len(tasks) \in Nat \ {0} /\ DOMAIN tasks = 1 .. Len(tasks)
        /\ DOMAIN tasks' = 1 .. Len(tasks) - 1
        /\ \A i \in 1 .. Len(tasks) - 1 : tasks'[i] = tasks[i + 1]
    BY <1>1, HeadTailProperties, EmptySeq
  <1>3. \A i : i \in Asked(g)' <=> i \in Nat \ {0} /\ i + 1 \in Asked(g)
    BY <1>2 DEF Asked
  <1>4. 1 \in Asked(g) <=> Head(tasks).op = "add" /\ Head(tasks).get = g
    BY <1>2 DEF Asked
  <1> QED BY <1>2, <1>3, <1>4 DEF Asked

(* A task for another get, or of another kind, changes nothing for g. *)
LEMMA OtherTask ==
  ASSUME Typed, NEW g \in Get, AnswersOf(g),
         tasks # <<>>, tasks' = Tail(tasks),
         ~(Head(tasks).op = "add" /\ Head(tasks).get = g),
         Listening(g)' => Listening(g),
         EventsOf(g)' = EventsOf(g), \A i \in EventsOf(g) : events'[i] = events[i],
         UNCHANGED <<begun, muted, answers>>
  PROVE  AnswersOf(g)'
  <1>1. /\ \A i : i \in Asked(g)' <=> i \in Nat \ {0} /\ i + 1 \in Asked(g)
        /\ 1 \notin Asked(g)
        /\ \A i \in Asked(g) : i \in Nat \ {0}
    BY TaskTaken
  <1>2. Asked(g) = {} => Asked(g)' = {}
    BY <1>1
  <1>3. \A i \in Asked(g)' : Fresh(g) /\ Asked(g)' = {i}
    <2> TAKE i \in Asked(g)'
    <2>1. i \in Nat /\ i + 1 \in Asked(g)
      BY <1>1
    <2>2. Fresh(g) /\ Asked(g) = {i + 1}
      BY <2>1 DEF AnswersOf
    <2>3. \A j \in Asked(g)' : j \in Nat /\ j + 1 \in Asked(g)
      BY <1>1
    <2>4. \A j \in Asked(g)' : j = i
      BY <2>1, <2>2, <2>3
    <2> QED BY <2>2, <2>4
  <1> QED BY <1>2, <1>3 DEF AnswersOf, Fresh, Closed

LEMMA AddedOnce ==
  ASSUME Typed, AnswersInv, AddQueryListener
  PROVE  AnswersInv'
  <1>02. tasks # <<>> /\ Head(tasks).op = "add" /\ tasks' = Tail(tasks)
    BY DEF AddQueryListener
  <1>01. Head(tasks).get \in Get
    BY <1>02, TaskTaken DEF Task
  <1> PICK h \in Get : h = Head(tasks).get
    BY <1>01
  <1> PICK q \in Query : q = QueryOf[h]
    BY FirestoreReadsAssumption
  <1> DEFINE vs == [view EXCEPT ![q] = IF listeners[q] = {} THEN "local" ELSE @]
             now == {k \in {h} : ShouldRaiseInitialEvent(vs[q], online)}
             es == Notified(now, vs)
  <1>1. /\ tasks # <<>> /\ Head(tasks).op = "add" /\ tasks' = Tail(tasks)
        /\ Head(tasks).get = h /\ QueryOf[h] = q
        /\ listeners' = [listeners EXCEPT ![q] = @ \cup {h}]
        /\ events' = events \o es
        /\ UNCHANGED <<begun, muted, answers>>
    BY DEF AddQueryListener, appVars
  <1>2. h \in Get /\ q \in Query
    OBVIOUS
  <1>3. now \in SUBSET Get
    BY <1>2
  <1>4. /\ es \in Seq(Event)
        /\ \A i \in DOMAIN es : es[i].get = h /\ es[i].source # "error"
    BY <1>3, NotifiedTypes
  <1> HIDE DEF es
  <1>5. events \in Seq(Event) /\ listeners \in [Query -> SUBSET Get]
    BY DEF Typed, TypeOK, Event
  <1>6. /\ Len(events) \in Nat /\ Len(es) \in Nat
        /\ DOMAIN events = 1 .. Len(events) /\ DOMAIN es = 1 .. Len(es)
        /\ events' \in Seq(Event) /\ Len(events') = Len(events) + Len(es)
        /\ DOMAIN events' = 1 .. Len(events) + Len(es)
        /\ \A i \in 1 .. Len(events) + Len(es) :
             events'[i] = IF i <= Len(events) THEN events[i] ELSE es[i - Len(events)]
    BY <1>1, <1>4, <1>5, ConcatProperties, LenProperties
  <1>7. \A i \in DOMAIN events' \ DOMAIN events :
          events'[i].get = h /\ events'[i].source # "error"
    <2> TAKE i \in DOMAIN events' \ DOMAIN events
    <2>1. events'[i] = es[i - Len(events)] /\ i - Len(events) \in DOMAIN es
      BY <1>6
    <2> QED BY <1>4, <2>1
  <1>8. \A i \in DOMAIN events : i \in DOMAIN events' /\ events'[i] = events[i]
    BY <1>6
  <1> HIDE DEF now, vs
  <1>9. ASSUME NEW g \in Get, g # h PROVE AnswersOf(g)'
    <2>1. EventsOf(g)' = EventsOf(g) /\ \A i \in EventsOf(g) : events'[i] = events[i]
      BY <1>7, <1>8, <1>9 DEF EventsOf
    <2>2. Listening(g)' => Listening(g)
      BY <1>1, <1>2, <1>5, <1>9 DEF Listening
    <2> QED BY <1>1, <1>9, <2>1, <2>2, OtherTask DEF AnswersInv
  <1>10. AnswersOf(h)'
    <2>1. 1 \in Asked(h) /\ AnswersOf(h)
      BY <1>1, <1>2, TaskTaken DEF AnswersInv
    <2>2. Asked(h) = {1} /\ Fresh(h) /\ h \in begun
      BY <2>1 DEF AnswersOf
    <2>3. Asked(h)' = {}
      <3>1. \A i : i \in Asked(h)' => i \in Nat \ {0} /\ i + 1 \in Asked(h)
        BY <1>1, TaskTaken
      <3> QED BY <2>2, <3>1
    <2>4. \A i \in EventsOf(h)' : events'[i].source # "error"
      <3>1. \A i \in DOMAIN events : events[i].get # h
        BY <2>2 DEF EventsOf, Fresh
      <3>2. \A i \in DOMAIN events' : events'[i].get = h => events'[i].source # "error"
        BY <1>7, <1>8, <3>1
      <3> QED BY <3>2 DEF EventsOf
    <2> QED BY <1>1, <2>1, <2>2, <2>3, <2>4 DEF AnswersOf, Fresh
  <1>11. \A p \in Query : \A g \in listeners'[p] : QueryOf[g] = p
    BY <1>1, <1>2, <1>5 DEF AnswersInv
  <1> QED BY <1>9, <1>10, <1>11 DEF AnswersInv

LEMMA RemovedIsSilent ==
  ASSUME Typed, AnswersInv, RemoveQueryListener
  PROVE  AnswersInv'
  <1> DEFINE h == Head(tasks).get
             q == QueryOf[h]
  <1>1. /\ tasks # <<>> /\ Head(tasks).op = "remove" /\ tasks' = Tail(tasks)
        /\ UNCHANGED <<begun, muted, answers>>
        /\ ForgetListener(q, h) \/ StopListening(q, h)
    BY DEF RemoveQueryListener, appVars
  <1>2. /\ events' = events
        /\ listeners' = [listeners EXCEPT ![q] = @ \ {h}]
           \/ listeners' = [listeners EXCEPT ![q] = {}]
    BY <1>1 DEF ForgetListener, StopListening
  <1>3. listeners \in [Query -> SUBSET Get]
    BY DEF Typed, TypeOK
  <1> HIDE DEF q, h
  <1>4. \A p \in Query : listeners'[p] \subseteq listeners[p]
    BY <1>2, <1>3
  <1>5. ASSUME NEW g \in Get PROVE AnswersOf(g)'
    <2>1. Listening(g)' => Listening(g)
      BY <1>4 DEF Listening
    <2>2. EventsOf(g)' = EventsOf(g)
      BY <1>2 DEF EventsOf
    <2> QED BY <1>1, <1>2, <2>1, <2>2, OtherTask DEF AnswersInv
  <1> QED BY <1>4, <1>5 DEF AnswersInv

LEMMA EventTaken ==
  ASSUME Typed, AnswersInv, OnEvent
  PROVE  AnswersInv'
  <1>01. events # <<>> /\ events \in Seq(Event)
    BY DEF OnEvent, Typed, TypeOK, Event
  <1>02. Head(events) \in Event
    BY <1>01, HeadTailProperties
  <1> PICK e \in Event : e = Head(events)
    BY <1>02
  <1> PICK h \in Get : h = e.get
    BY DEF Event
  <1>1. /\ events # <<>> /\ events' = Tail(events)
        /\ UNCHANGED <<begun, listeners>>
        /\ \/ /\ h \in muted
              /\ UNCHANGED <<muted, answers, tasks>>
           \/ /\ h \notin muted
              /\ answers' = [answers EXCEPT ![h] = Append(@, e.source)]
              /\ \/ e.source = "error" /\ UNCHANGED <<muted, tasks>>
                 \/ /\ e.source # "error"
                    /\ muted' = muted \cup {h}
                    /\ tasks' = Append(tasks, [op |-> "remove", get |-> h])
    BY DEF OnEvent, viewVars
  <1>2. events \in Seq(Event) /\ tasks \in Seq(Task)
        /\ answers \in [Get -> Seq({"server", "cache", "error"})]
    BY DEF Typed, TypeOK, Event, Task
  <1>3. /\ e \in Event /\ e = events[1] /\ 1 \in DOMAIN events
        /\ Len(events) \in Nat \ {0} /\ DOMAIN events = 1 .. Len(events)
        /\ DOMAIN events' = 1 .. Len(events) - 1
        /\ \A i \in 1 .. Len(events) - 1 : events'[i] = events[i + 1]
    BY <1>1, <1>2, HeadTailProperties, EmptySeq
  <1>4. h \in Get /\ e.source \in {"server", "cache", "error"}
    BY <1>3 DEF Event
  <1>5. \A g \in Get : \A i : i \in EventsOf(g)' =>
          i \in Nat \ {0} /\ i + 1 \in EventsOf(g) /\ events'[i] = events[i + 1]
    BY <1>3 DEF EventsOf
  <1>6. \A g \in Get : \A i \in EventsOf(g) : i \in Nat \ {0}
    BY <1>3 DEF EventsOf
  <1>7. 1 \in EventsOf(h)
    BY <1>3 DEF EventsOf
  <1>8. \A g \in Get : Asked(g)' = Asked(g) /\ (Listening(g)' <=> Listening(g))
    <2>1. CASE tasks' = tasks
      BY <1>1, <2>1 DEF Asked, Listening
    <2>2. CASE tasks' = Append(tasks, [op |-> "remove", get |-> h])
      <3>1. [op |-> "remove", get |-> h] \in Task
        BY <1>4 DEF Task
      <3>2. /\ Len(tasks) \in Nat /\ DOMAIN tasks = 1 .. Len(tasks)
            /\ DOMAIN tasks' = 1 .. Len(tasks) + 1
            /\ \A i \in 1 .. Len(tasks) : tasks'[i] = tasks[i]
            /\ tasks'[Len(tasks) + 1] = [op |-> "remove", get |-> h]
        BY <1>2, <2>2, <3>1
      <3>3. \A g \in Get : Asked(g)' = Asked(g)
        BY <3>2 DEF Asked
      <3> QED BY <1>1, <3>3 DEF Listening
    <2> QED BY <1>1, <2>1, <2>2
  <1>9. ASSUME NEW g \in Get
        PROVE  /\ g \notin begun => Asked(g) = {} /\ EventsOf(g)' = {} /\ ~Listening(g)
               /\ \A i \in Asked(g) : Asked(g) = {i} /\ EventsOf(g)' = {} /\ ~Listening(g)
               /\ \A i \in EventsOf(g)' : events'[i].source = "error" =>
                    Closed(g) /\ \A j \in EventsOf(g)' : j <= i
    <2>1. AnswersOf(g)
      BY DEF AnswersInv
    <2>2. EventsOf(g) = {} => EventsOf(g)' = {}
      BY <1>5
    <2>3. ASSUME NEW i \in EventsOf(g)', events'[i].source = "error"
          PROVE  Closed(g) /\ \A j \in EventsOf(g)' : j <= i
      <3>1. i \in Nat /\ i + 1 \in EventsOf(g) /\ events[i + 1].source = "error"
        BY <1>5, <2>3
      <3>2. Closed(g) /\ \A j \in EventsOf(g) : j <= i + 1
        BY <2>1, <3>1 DEF AnswersOf
      <3>3. \A j \in EventsOf(g)' : j \in Nat /\ j + 1 \in EventsOf(g)
        BY <1>5
      <3>4. \A j \in EventsOf(g)' : j <= i
        BY <3>1, <3>2, <3>3
      <3> QED BY <3>2, <3>4
    <2> QED BY <2>1, <2>2, <2>3 DEF AnswersOf, Fresh
  <1>10. ASSUME NEW g \in Get, answers'[g] = answers[g], g \in muted' <=> g \in muted
         PROVE  AnswersOf(g)'
    <2>1. AnswersOf(g) /\ (EventsOf(g) = {} => EventsOf(g)' = {})
      BY <1>5 DEF AnswersInv
    <2>2. Asked(g)' = Asked(g) /\ (Listening(g)' <=> Listening(g)) /\ begun' = begun
      BY <1>1, <1>8
    <2>3. Closed(g) => Closed(g)'
      BY <2>2 DEF Closed
    <2>4. EventsOf(g)' = {} /\ ~Listening(g) /\ answers[g] = <<>> => Fresh(g)'
      BY <1>10, <2>2 DEF Fresh
    <2>5. \A i \in EventsOf(g)' : events'[i].source = "error" =>
            Closed(g)' /\ \A j \in EventsOf(g)' : j <= i
      BY <1>9, <2>3
    <2>6. g \notin begun' => Fresh(g)' /\ Asked(g)' = {}
      BY <1>9, <2>1, <2>2, <2>4 DEF AnswersOf, Fresh
    <2>7. \A i \in Asked(g)' : Fresh(g)' /\ Asked(g)' = {i}
      BY <1>9, <2>1, <2>2, <2>4 DEF AnswersOf, Fresh
    <2> QED BY <1>10, <2>1, <2>3, <2>5, <2>6, <2>7 DEF AnswersOf
  <1>11. CASE h \notin muted
    <2>1. AnswersOf(h) /\ answers[h] = <<>> /\ h \in begun /\ Asked(h) = {}
      <3>1. AnswersOf(h)
        BY <1>4 DEF AnswersInv
      <3> QED BY <1>7, <1>11, <3>1 DEF AnswersOf, Fresh
    <2>2. answers'[h] = Append(<<>>, e.source)
      BY <1>1, <1>2, <1>4, <1>11, <2>1
    <2>3. Len(answers'[h]) <= 1 /\ h \in begun' /\ Asked(h)' = {}
      <3>1. Len(Append(<<>>, e.source)) = 1
        OBVIOUS
      <3> QED BY <1>1, <1>4, <1>8, <2>1, <2>2, <3>1
    <2>4. h \notin muted' => Closed(h) /\ EventsOf(h)' = {}
      <3> SUFFICES ASSUME h \notin muted' PROVE Closed(h) /\ EventsOf(h)' = {}
        OBVIOUS
      <3>1. events[1].source = "error"
        BY <1>1, <1>3, <1>11
      <3>2. Closed(h) /\ \A j \in EventsOf(h) : j <= 1
        BY <1>7, <2>1, <3>1 DEF AnswersOf
      <3>3. \A i \in EventsOf(h)' : i \in Nat \ {0} /\ i + 1 \in EventsOf(h)
        BY <1>4, <1>5
      <3>4. \A i \in EventsOf(h)' : i \in Nat \ {0} /\ i + 1 <= 1
        BY <3>2, <3>3
      <3> QED BY <3>2, <3>4
    <2>5. AnswersOf(h)'
      <3>1. Closed(h) => Closed(h)'
        BY <1>1, <1>4, <1>8 DEF Closed
      <3>2. \A i \in EventsOf(h)' : events'[i].source = "error" =>
              Closed(h)' /\ \A j \in EventsOf(h)' : j <= i
        BY <1>4, <1>9, <3>1
      <3> QED BY <2>3, <2>4, <3>1, <3>2 DEF AnswersOf
    <2>6. \A g \in Get \ {h} : answers'[g] = answers[g] /\ (g \in muted' <=> g \in muted)
      BY <1>1, <1>2, <1>11
    <2>7. \A g \in Get : AnswersOf(g)'
      BY <1>10, <2>5, <2>6
    <2> QED BY <1>1, <2>7 DEF AnswersInv
  <1>12. CASE h \in muted
    <2>1. UNCHANGED <<muted, answers>>
      BY <1>1, <1>12
    <2>2. \A g \in Get : AnswersOf(g)'
      BY <1>10, <2>1
    <2> QED BY <1>1, <2>2 DEF AnswersInv
  <1> QED BY <1>11, <1>12

(* An error is the last that the listeners of a query hear. *)
LEMMA ErrorIsLast ==
  ASSUME Typed, AnswersInv, NEW q \in Query,
         listeners' = [listeners EXCEPT ![q] = {}],
         NEW es \in Seq(Event), events' = events \o es,
         \A i \in DOMAIN es : es[i].get \in listeners[q],
         \A i, j \in DOMAIN es : es[i].get = es[j].get => i = j,
         UNCHANGED <<tasks, begun, muted, answers>>
  PROVE  AnswersInv'
  <1>1. listeners \in [Query -> SUBSET Get] /\ events \in Seq(Event)
    BY DEF Typed, TypeOK, Event
  <1>2. listeners[q] \in SUBSET Get
    BY <1>1
  <1>5. /\ Len(events) \in Nat /\ Len(es) \in Nat
        /\ DOMAIN events = 1 .. Len(events) /\ DOMAIN es = 1 .. Len(es)
        /\ DOMAIN events' = 1 .. Len(events) + Len(es)
        /\ \A i \in 1 .. Len(events) + Len(es) :
             events'[i] = IF i <= Len(events) THEN events[i] ELSE es[i - Len(events)]
    BY <1>1, JoinedPlaces
  <1>6. \A i \in DOMAIN events' \ DOMAIN events :
          events'[i].get \in listeners[q] /\ i \in Nat /\ i > Len(events)
    <2> TAKE i \in DOMAIN events' \ DOMAIN events
    <2>1. events'[i] = es[i - Len(events)] /\ i - Len(events) \in DOMAIN es
          /\ i \in Nat /\ i > Len(events)
      BY <1>5
    <2> QED BY <2>1
  <1>7. \A i, j \in DOMAIN events' \ DOMAIN events : events'[i].get = events'[j].get => i = j
    <2> TAKE i, j \in DOMAIN events' \ DOMAIN events
    <2>1. /\ events'[i] = es[i - Len(events)] /\ i - Len(events) \in DOMAIN es
          /\ events'[j] = es[j - Len(events)] /\ j - Len(events) \in DOMAIN es
          /\ i \in Nat /\ j \in Nat
      BY <1>5
    <2>2. events'[i].get = events'[j].get => i - Len(events) = j - Len(events)
      BY <2>1
    <2> QED BY <1>5, <2>1, <2>2
  <1>8. \A i \in DOMAIN events : i \in DOMAIN events' /\ events'[i] = events[i]
    BY <1>5
  <1>9. \A p \in Query : \A g \in listeners'[p] : g \in listeners[p] /\ QueryOf[g] = p
    BY <1>1 DEF AnswersInv
  <1>10. ASSUME NEW g \in Get, g \notin listeners[q] PROVE AnswersOf(g)'
    <2>1. EventsOf(g)' = EventsOf(g) /\ \A i \in EventsOf(g) : events'[i] = events[i]
      BY <1>6, <1>8, <1>10 DEF EventsOf
    <2>2. (Listening(g)' <=> Listening(g)) /\ Asked(g)' = Asked(g)
      BY <1>1, <1>10 DEF Listening, Asked
    <2> QED BY <2>1, <2>2 DEF AnswersInv, AnswersOf, Fresh, Closed
  <1>11. ASSUME NEW g \in listeners[q] PROVE AnswersOf(g)'
    <2>1. g \in Get /\ AnswersOf(g) /\ Listening(g) /\ QueryOf[g] = q
      BY <1>2 DEF AnswersInv, Listening
    <2>2. g \in begun /\ Asked(g) = {} /\ (answers[g] # <<>> => g \in muted)
      BY <2>1 DEF AnswersOf, Fresh, Closed
    <2>3. ~Listening(g)'
      BY <1>1, <1>9, <2>1 DEF Listening
    <2>4. Closed(g)'
      BY <2>2, <2>3 DEF Closed, Asked
    <2>5. \A i \in EventsOf(g) : events[i].source # "error"
      BY <2>1 DEF AnswersOf, Closed
    <2>6. ASSUME NEW i \in EventsOf(g)', events'[i].source = "error"
          PROVE  \A j \in EventsOf(g)' : j <= i
      <3>1. i \in DOMAIN events' \ DOMAIN events /\ events'[i].get = g
        BY <1>8, <2>5, <2>6 DEF EventsOf
      <3>2. i \in Nat /\ i > Len(events)
        BY <1>6, <3>1
      <3> TAKE j \in EventsOf(g)'
      <3>3. j \in DOMAIN events' /\ events'[j].get = g
        BY DEF EventsOf
      <3>4. CASE j \in DOMAIN events
        BY <1>5, <3>2, <3>4
      <3>5. CASE j \notin DOMAIN events
        <4>1. i = j
          BY <1>7, <3>1, <3>3, <3>5
        <4> QED BY <3>2, <4>1
      <3> QED BY <3>4, <3>5
    <2>7. Asked(g)' = {} /\ g \in begun'
      BY <2>2 DEF Asked
    <2> QED BY <2>1, <2>2, <2>4, <2>6, <2>7 DEF AnswersOf
  <1> QED BY <1>9, <1>10, <1>11 DEF AnswersInv

LEMMA HeardAnswers ==
  ASSUME Typed, AnswersInv, OnWatchStreamChange
  PROVE  AnswersInv'
  <1> DEFINE m == Head(fromServer)
  <1>1. /\ TargetChange(m) \/ TargetError(m) \/ RaiseWatchSnapshot(m)
        /\ UNCHANGED <<begun, muted, answers, tasks>>
    BY DEF OnWatchStreamChange, appVars
  <1>2. CASE TargetChange(m)
    BY <1>1, <1>2, SameAnswers DEF TargetChange
  <1>3. CASE RaiseWatchSnapshot(m)
    <2> DEFINE vs == [q \in Query |->
                       IF q \in Changed
                       THEN IF target[q].current # 0 THEN "current" ELSE "local"
                       ELSE view[q]]
    <2>1. RaiseEvents(listeners, vs, Changed, "Online") /\ listeners' = listeners
      BY <1>3 DEF RaiseWatchSnapshot
    <2>2. \E es : Snapshots(es) /\ events' = events \o es
      BY <2>1, RaisedTypes
    <2> QED BY <1>1, <2>1, <2>2, MoreSnapshots
  <1>4. CASE TargetError(m) /\ m.query \notin targets
    BY <1>1, <1>4, SameAnswers DEF TargetError, viewVars
  <1>5. CASE TargetError(m) /\ m.query \in targets
    <2>1. m.query \in Query
      BY <1>5 DEF Typed, TypeOK
    <2>2. /\ listeners' = [listeners EXCEPT ![m.query] = {}]
          /\ events' = events \o SetToSeq({[get |-> g, source |-> "error"] :
                                             g \in listeners[m.query]})
      BY <1>5 DEF TargetError
    <2>3. listeners[m.query] \in SUBSET Get
      BY <2>1 DEF Typed, TypeOK
    <2> DEFINE es == SetToSeq({[get |-> g, source |-> "error"] : g \in listeners[m.query]})
    <2>4. /\ es \in Seq(Event)
          /\ \A i \in DOMAIN es : es[i].get \in listeners[m.query]
          /\ \A i, j \in DOMAIN es : es[i].get = es[j].get => i = j
      BY <2>3, ErrorsTypes
    <2>5. events' = events \o es
      BY <2>2
    <2> HIDE DEF es, m
    <2> QED BY <1>1, <2>1, <2>2, <2>4, <2>5, ErrorIsLast
  <1> QED BY <1>1, <1>2, <1>3, <1>4, <1>5

LEMMA AnswersKept ==
  ASSUME Typed, AnswersInv, [Next]_vars
  PROVE  AnswersInv'
  <1>1. CASE \E q \in Query : LocalChange(q)
    <2>1. \E q \in Query : RaiseEvents(listeners, view, {q}, online)
      BY <1>1 DEF LocalChange
    <2>2. UNCHANGED <<tasks, listeners, begun, muted, answers>>
      BY <1>1 DEF LocalChange, appVars
    <2>3. \E es : Snapshots(es) /\ events' = events \o es
      BY <2>1, RaisedTypes
    <2> QED BY <2>2, <2>3, MoreSnapshots
  <1>2. CASE \/ BackoffElapsed \/ OnWatchStreamOpen \/ ServerHears
             \/ \E q \in Query : ServerCompletes(q) \/ ServerChanges(q)
             \/ UNCHANGED vars
    <2>1. UNCHANGED <<tasks, events, listeners, begun, muted, answers>>
      BY <1>2 DEF BackoffElapsed, OnWatchStreamOpen, ServerHears, ServerCompletes,
                  ServerChanges, vars, appVars, viewVars
    <2> QED BY <2>1, SameAnswers
  <1>3. CASE OnWatchStreamClose \/ IdleTimeout \/ OnlineStateTimeout \/ HandleCredentialChange
    <2>1. online \in {"Unknown", "Online", "Offline"}
      BY DEF Typed, TypeOK
    <2>2. \E o \in {"Unknown", "Online", "Offline"} : SetAndBroadcast(o)
      <3>1. CASE OnWatchStreamClose
        BY <2>1, <3>1 DEF OnWatchStreamClose, HandleWatchStreamFailure, UpdateState
      <3>2. CASE IdleTimeout \/ OnlineStateTimeout \/ HandleCredentialChange
        BY <3>2 DEF IdleTimeout, OnlineStateTimeout, HandleCredentialChange, UpdateState
      <3> QED BY <1>3, <3>1, <3>2
    <2>3. UNCHANGED <<tasks, begun, muted, answers>>
      BY <1>3 DEF OnWatchStreamClose, IdleTimeout, OnlineStateTimeout,
                  HandleCredentialChange, appVars
    <2>4. /\ \E es : Snapshots(es) /\ events' = events \o es
          /\ listeners' = listeners
      BY <2>2, BroadcastTypes
    <2> QED BY <2>3, <2>4, MoreSnapshots
  <1> QED BY <1>1, <1>2, <1>3, GetIsNew, EventTaken, AddedOnce, RemovedIsSilent,
             HeardAnswers DEF Next

-----------------------------------------------------------------------------
(* What is on the wire.                                                    *)

(* Requests for q on their way, and responses to them. *)
Requests(q) == {r \in Request : r.query = q}
Replies(q) == {m \in Response : m.kind \in {"added", "removed"} /\ m.query = q}
Asking(q) == Positions(toServer, Requests(q))
Replied(q) == Positions(fromServer, Replies(q))

(* What the server says of the documents of q. *)
Said(q) == {i \in DOMAIN fromServer :
              fromServer[i].kind \in {"current", "document"} /\ fromServer[i].query = q}

(* No response to a request for q comes after message i. *)
Recent(q, i) == \A j \in Replied(q) : j <= i

(* Before message i the phone will know that all of q has been sent. *)
Confirmed(q, i) ==
  \/ \E j \in Said(q) : j < i /\ fromServer[j].kind = "current" /\ Recent(q, j)
  \/ Replied(q) = {} /\ target[q].current = serving[q]

(* Once what is on its way has arrived, q is an active target. *)
Settling(q) ==
  q \in targets /\ target[q].outstanding <= Number(fromServer, Replies(q))

(* As many responses are outstanding as may still come. *)
Counted(q) ==
  target[q].outstanding >=
    Number(toServer, Requests(q)) + Number(fromServer, Replies(q))

(* The last request for a target is the one that is served, or will be. *)
Newest(q) ==
  q \in targets /\ state = "Open" =>
    /\ Asking(q) = {} => serving[q] = lastWatch[q]
    /\ \A i \in Asking(q) : (\A j \in Asking(q) : j <= i) =>
         toServer[i].op = "watch" /\ toServer[i].turn = lastWatch[q]

(* What is said after the last response is about the request served. *)
SaidOfServed(q) ==
  \A i \in Said(q) : Recent(q, i) => fromServer[i].turn = serving[q]

(* A change of a document comes after all of them have been sent. *)
SaidInOrder(q) ==
  /\ \A i \in Said(q) :
       fromServer[i].kind = "document" /\ Recent(q, i) /\ Settling(q) => Confirmed(q, i)
  /\ q \in complete /\ Settling(q) => Confirmed(q, Len(fromServer) + 1)

CurrentIsLast(q) ==
  q \in targets /\ target[q].outstanding = 0 /\ target[q].pending =>
    target[q].current \in {0, lastWatch[q]}

WireOf(q) ==
  Counted(q) /\ Newest(q) /\ SaidOfServed(q) /\ SaidInOrder(q) /\ CurrentIsLast(q)

(* A refused target is never served, and nothing is said of it. *)
RefusedOf(q) ==
  /\ serving[q] = 0 /\ q \notin complete /\ ~target[q].pending
  /\ Replied(q) = {} /\ Said(q) = {}

WireInv ==
  /\ \A q \in Query \ Refused : WireOf(q)
  /\ \A q \in Refused : RefusedOf(q)
  /\ \A i \in DOMAIN fromServer :
       fromServer[i].kind = "refused" => fromServer[i].query \in Refused

LEMMA PlacesJoined ==
  ASSUME NEW M, NEW s \in Seq(M), NEW t \in Seq(M), NEW X
  PROVE  \A k : k \in Positions(s \o t, X) <=>
           \/ k \in Positions(s, X)
           \/ k \in Nat /\ k > Len(s) /\ k - Len(s) \in DOMAIN t /\ t[k - Len(s)] \in X
  <1>1. /\ s \o t \in Seq(M) /\ Len(s \o t) = Len(s) + Len(t)
        /\ Len(s) \in Nat /\ Len(t) \in Nat
        /\ DOMAIN s = 1 .. Len(s) /\ DOMAIN t = 1 .. Len(t)
        /\ DOMAIN (s \o t) = 1 .. Len(s) + Len(t)
        /\ \A i \in 1 .. Len(s) + Len(t) :
             (s \o t)[i] = IF i <= Len(s) THEN s[i] ELSE t[i - Len(s)]
    BY JoinedPlaces
  <1> TAKE k
  <1>2. CASE k \in 1 .. Len(s)
    BY <1>1, <1>2 DEF Positions
  <1>3. CASE k \in Nat /\ k > Len(s)
    BY <1>1, <1>3 DEF Positions
  <1>4. CASE k \notin Nat \ {0}
    BY <1>1, <1>4 DEF Positions
  <1> QED BY <1>1, <1>2, <1>3, <1>4

LEMMA NoneJoined ==
  ASSUME NEW M, NEW s \in Seq(M), NEW t \in Seq(M), NEW X,
         \A j \in DOMAIN t : t[j] \notin X
  PROVE  /\ Positions(s \o t, X) = Positions(s, X)
         /\ Number(s \o t, X) = Number(s, X)
  <1>1. \A k : k \in Positions(s \o t, X) <=>
          \/ k \in Positions(s, X)
          \/ k \in Nat /\ k > Len(s) /\ k - Len(s) \in DOMAIN t /\ t[k - Len(s)] \in X
    BY PlacesJoined
  <1>2. Positions(s \o t, X) = Positions(s, X)
    BY <1>1
  <1> QED BY <1>2 DEF Number

LEMMA OneJoined ==
  ASSUME NEW M, NEW s \in Seq(M), NEW t \in Seq(M), NEW X,
         NEW i \in DOMAIN t, \A j \in DOMAIN t : t[j] \in X <=> j = i
  PROVE  /\ Positions(s \o t, X) = Positions(s, X) \cup {Len(s) + i}
         /\ Number(s \o t, X) = Number(s, X) + 1
  <1>1. Len(s) \in Nat /\ DOMAIN s = 1 .. Len(s) /\ DOMAIN t = 1 .. Len(t) /\ Len(t) \in Nat
    BY LenProperties
  <1>2. i \in Nat \ {0} /\ Len(s) + i > Len(s) /\ (Len(s) + i) - Len(s) = i
    BY <1>1
  <1>3. \A k : k \in Nat /\ k > Len(s) /\ k - Len(s) = i <=> k = Len(s) + i
    BY <1>1, <1>2
  <1>4. Positions(s \o t, X) = Positions(s, X) \cup {Len(s) + i}
    BY PlacesJoined, <1>2, <1>3
  <1>5. Len(s) + i \notin Positions(s, X)
    BY <1>1, <1>2 DEF Positions
  <1> QED BY <1>4, <1>5, FinitelyMany, FS_AddElement DEF Number

LEMMA NoneInEmpty ==
  ASSUME NEW X
  PROVE  Positions(<<>>, X) = {} /\ Number(<<>>, X) = 0
  <1>1. Positions(<<>>, X) = {}
    BY DEF Positions
  <1> QED BY <1>1, FS_EmptySet DEF Number

LEMMA InitWire == Init => WireInv
  <1> SUFFICES ASSUME Init PROVE WireInv
    OBVIOUS
  <1>1. /\ toServer = <<>> /\ fromServer = <<>> /\ targets = {} /\ complete = {}
        /\ target = [q \in Query |-> NoTarget] /\ serving = [q \in Query |-> 0]
    BY DEF Init
  <1>2. \A q \in Query : target[q].outstanding = 0 /\ target[q].pending = FALSE
    BY <1>1 DEF NoTarget
  <1>3. \A q \in Query : /\ Asking(q) = {} /\ Replied(q) = {} /\ Said(q) = {}
                         /\ Number(toServer, Requests(q)) = 0
                         /\ Number(fromServer, Replies(q)) = 0
    BY <1>1, NoneInEmpty DEF Asking, Replied, Said
  <1>4. \A q \in Query \ Refused : WireOf(q)
    BY <1>1, <1>2, <1>3 DEF WireOf, Counted, Newest, SaidOfServed, SaidInOrder, CurrentIsLast
  <1>5. \A q \in Refused : RefusedOf(q)
    BY <1>1, <1>2, <1>3, FirestoreReadsAssumption DEF RefusedOf
  <1> QED BY <1>1, <1>4, <1>5 DEF WireInv

(* Nothing on the wire changes, and no target is added. *)
LEMMA SameWire ==
  ASSUME WireInv,
         UNCHANGED <<toServer, fromServer, serving, complete, target, lastWatch>>,
         \A q \in targets' : q \in targets,
         state' = "Open" => state = "Open"
  PROVE  WireInv'
  <1>1. \A q : /\ Asking(q)' = Asking(q) /\ Replied(q)' = Replied(q) /\ Said(q)' = Said(q)
               /\ \A i : Recent(q, i)' <=> Recent(q, i)
               /\ \A i : Confirmed(q, i)' <=> Confirmed(q, i)
               /\ Settling(q)' => Settling(q)
    BY DEF Asking, Replied, Said, Recent, Confirmed, Settling
  <1>2. ASSUME NEW q \in Query \ Refused PROVE WireOf(q)'
    <2>1. WireOf(q)
      BY DEF WireInv
    <2>2. Counted(q)'
      BY <2>1 DEF WireOf, Counted
    <2>3. Newest(q)'
      BY <1>1, <2>1 DEF WireOf, Newest
    <2>4. SaidOfServed(q)'
      BY <1>1, <2>1 DEF WireOf, SaidOfServed
    <2>5. SaidInOrder(q)'
      BY <1>1, <2>1 DEF WireOf, SaidInOrder
    <2>6. CurrentIsLast(q)'
      BY <2>1 DEF WireOf, CurrentIsLast
    <2> QED BY <2>2, <2>3, <2>4, <2>5, <2>6 DEF WireOf
  <1>3. \A q \in Refused : RefusedOf(q)'
    BY <1>1 DEF WireInv, RefusedOf
  <1> QED BY <1>2, <1>3 DEF WireInv

LEMMA EndIsEmpty ==
  ASSUME NewConnection, state' # "Open"
  PROVE  WireInv'
  <1>1. /\ toServer' = <<>> /\ fromServer' = <<>> /\ complete' = {}
        /\ target' = [q \in Query |-> NoTarget] /\ serving' = [q \in Query |-> 0]
    BY DEF NewConnection
  <1>2. \A q \in Query : target'[q].outstanding = 0 /\ target'[q].pending = FALSE
    BY <1>1 DEF NoTarget
  <1>3. \A q \in Query : /\ Asking(q)' = {} /\ Replied(q)' = {} /\ Said(q)' = {}
                         /\ Number(toServer', Requests(q)) = 0
                         /\ Number(fromServer', Replies(q)) = 0
    BY <1>1, NoneInEmpty DEF Asking, Replied, Said
  <1>4. \A q \in Query \ Refused : WireOf(q)'
    BY <1>1, <1>2, <1>3 DEF WireOf, Counted, Newest, SaidOfServed, SaidInOrder, CurrentIsLast
  <1>5. \A q \in Refused : RefusedOf(q)'
    BY <1>1, <1>2, <1>3, FirestoreReadsAssumption DEF RefusedOf
  <1> QED BY <1>1, <1>4, <1>5 DEF WireInv

(* What a batch of watch requests does to one target. *)
LEMMA WatchSent ==
  ASSUME Typed, NEW S \in SUBSET Query, SendWatchRequests(S), NEW q \in Query
  PROVE  /\ q \notin S =>
              /\ Asking(q)' = Asking(q) /\ target'[q] = target[q]
              /\ Number(toServer', Requests(q)) = Number(toServer, Requests(q))
              /\ lastWatch'[q] = lastWatch[q]
         /\ q \in S =>
              /\ \E k \in Nat :
                   /\ Asking(q)' = Asking(q) \cup {k} /\ \A i \in Asking(q) : i < k
                   /\ toServer'[k].op = "watch" /\ toServer'[k].turn = lastWatch'[q]
              /\ Number(toServer', Requests(q)) = Number(toServer, Requests(q)) + 1
              /\ target'[q].outstanding = target[q].outstanding + 1
         /\ target'[q].pending = target[q].pending /\ target'[q].current = target[q].current
         /\ \A i \in Asking(q) : toServer'[i] = toServer[i]
  <1> DEFINE rs == WatchRequests(S, watches)
             X == Requests(q)
  <1>1. /\ toServer' = toServer \o rs
        /\ target' = Requested(target, S)
        /\ \A p \in Query \ S : lastWatch'[p] = lastWatch[p]
        /\ \A i \in DOMAIN rs : lastWatch'[rs[i].query] = watches + i
    BY SendTypes
  <1>2. watches \in Nat /\ toServer \in Seq(Request) /\ target \in [Query -> Target]
    BY DEF Typed, TypeOK, Target
  <1>3. /\ rs \in Seq(Request) /\ DOMAIN rs = 1 .. Len(rs) /\ Len(rs) \in Nat
        /\ \A i \in DOMAIN rs : rs[i].op = "watch" /\ rs[i].query \in S /\ rs[i].turn = watches + i
        /\ \A i, j \in DOMAIN rs : rs[i].query = rs[j].query => i = j
        /\ \A p \in S : \E i \in DOMAIN rs : rs[i].query = p
    BY <1>2, RequestsTypes
  <1>4. \A i \in DOMAIN rs : rs[i] \in X <=> rs[i].query = q
    BY <1>3, ElementOfSeq DEF Requests
  <1> HIDE DEF rs, X
  <1>5. /\ Len(toServer) \in Nat /\ DOMAIN toServer = 1 .. Len(toServer)
        /\ \A i \in 1 .. Len(toServer) + Len(rs) :
             (toServer \o rs)[i] = IF i <= Len(toServer) THEN toServer[i] ELSE rs[i - Len(toServer)]
    BY <1>2, <1>3, JoinedPlaces
  <1>6. \A i \in Asking(q) : i \in 1 .. Len(toServer) /\ toServer'[i] = toServer[i]
    <2>1. \A i \in 1 .. Len(toServer) : toServer'[i] = toServer[i]
      BY <1>1, <1>3, <1>5
    <2> QED BY <1>5, <2>1 DEF Asking, Positions
  <1>7. /\ target'[q].pending = target[q].pending /\ target'[q].current = target[q].current
        /\ q \notin S => target'[q] = target[q]
        /\ q \in S => target'[q].outstanding = target[q].outstanding + 1
    BY <1>1, <1>2 DEF Requested, Target
  <1>8. ASSUME q \notin S
        PROVE  /\ Asking(q)' = Asking(q)
               /\ Number(toServer', X) = Number(toServer, X)
               /\ lastWatch'[q] = lastWatch[q]
    <2>1. \A j \in DOMAIN rs : rs[j] \notin X
      BY <1>3, <1>4, <1>8
    <2>2. /\ Positions(toServer \o rs, X) = Positions(toServer, X)
          /\ Number(toServer \o rs, X) = Number(toServer, X)
      BY <1>2, <1>3, <2>1, NoneJoined
    <2> QED BY <1>1, <1>8, <2>2 DEF Asking, X
  <1>9. ASSUME q \in S
        PROVE  /\ \E k \in Nat :
                    /\ Asking(q)' = Asking(q) \cup {k} /\ \A i \in Asking(q) : i < k
                    /\ toServer'[k].op = "watch" /\ toServer'[k].turn = lastWatch'[q]
               /\ Number(toServer', X) = Number(toServer, X) + 1
    <2>1. PICK n \in DOMAIN rs : rs[n].query = q
      BY <1>3, <1>9
    <2>2. \A j \in DOMAIN rs : rs[j] \in X <=> j = n
      BY <1>3, <1>4, <2>1
    <2> DEFINE k == Len(toServer) + n
    <2>3. /\ Positions(toServer \o rs, X) = Positions(toServer, X) \cup {k}
          /\ Number(toServer \o rs, X) = Number(toServer, X) + 1
      <3>1. toServer \in Seq(Request) /\ rs \in Seq(Request)
        BY <1>2, <1>3
      <3> QED BY <2>2, <3>1, OneJoined
    <2>4. k \in Nat /\ k > Len(toServer) /\ k <= Len(toServer) + Len(rs) /\ k - Len(toServer) = n
      BY <1>3, <1>5
    <2>5. toServer'[k] = rs[n]
      BY <1>1, <1>5, <2>4
    <2>6. toServer'[k].op = "watch" /\ toServer'[k].turn = lastWatch'[q]
      BY <1>1, <1>3, <2>1, <2>5
    <2>7. \A i \in Asking(q) : i < k
      BY <1>5, <1>6, <2>4
    <2>8. Asking(q)' = Asking(q) \cup {k}
      BY <1>1, <2>3 DEF Asking, X
    <2> QED BY <1>1, <2>3, <2>4, <2>6, <2>7, <2>8
  <1> QED BY <1>6, <1>7, <1>8, <1>9 DEF X

(* A target whose watch request is on its way. *)
LEMMA WatchedOf ==
  ASSUME Typed, NEW q \in Query \ Refused, WireOf(q),
         NEW S \in SUBSET Query, SendWatchRequests(S), q \in S,
         UNCHANGED <<fromServer, serving, complete>>
  PROVE  WireOf(q)'
  <1>1. PICK k \in Nat :
          /\ Asking(q)' = Asking(q) \cup {k} /\ \A i \in Asking(q) : i < k
          /\ toServer'[k].op = "watch" /\ toServer'[k].turn = lastWatch'[q]
    BY WatchSent
  <1>2. /\ Number(toServer', Requests(q)) = Number(toServer, Requests(q)) + 1
        /\ target'[q].outstanding = target[q].outstanding + 1
    BY WatchSent
  <1>3. /\ toServer \in Seq(Request) /\ fromServer \in Seq(Response)
        /\ target[q].outstanding \in Nat
    BY DEF Typed, TypeOK
  <1>4. Number(toServer, Requests(q)) \in Nat /\ Number(fromServer, Replies(q)) \in Nat
    BY <1>3, FinitelyMany
  <1>5. Counted(q) /\ SaidOfServed(q)
    BY DEF WireOf
  <1>6. Counted(q)'
    BY <1>2, <1>3, <1>4, <1>5 DEF Counted
  <1>7. \A i \in Asking(q) : i \in Nat
    BY <1>3, LenProperties DEF Asking, Positions
  <1>8. Newest(q)'
    BY <1>1, <1>7 DEF Newest
  <1>9. SaidOfServed(q)'
    BY <1>5 DEF SaidOfServed, Said, Recent, Replied
  <1>10. ~Settling(q)'
    BY <1>2, <1>3, <1>4, <1>5 DEF Settling, Counted
  <1>11. SaidInOrder(q)'
    BY <1>10 DEF SaidInOrder
  <1>12. CurrentIsLast(q)'
    BY <1>2, <1>3 DEF CurrentIsLast
  <1> QED BY <1>6, <1>8, <1>9, <1>11, <1>12 DEF WireOf

(* A target for which nothing is sent. *)
LEMMA UnwatchedOf ==
  ASSUME Typed, NEW q \in Query \ Refused, WireOf(q),
         Asking(q)' = Asking(q), target'[q] = target[q],
         \A i \in Asking(q) : toServer'[i] = toServer[i],
         Number(toServer', Requests(q)) = Number(toServer, Requests(q)),
         lastWatch'[q] = lastWatch[q],
         q \in targets' => q \in targets, state' = "Open" => state = "Open",
         UNCHANGED <<fromServer, serving, complete>>
  PROVE  WireOf(q)'
  <1>1. /\ Replied(q)' = Replied(q) /\ Said(q)' = Said(q)
        /\ \A i : Recent(q, i)' <=> Recent(q, i)
        /\ \A i : Confirmed(q, i)' <=> Confirmed(q, i)
        /\ Settling(q)' => Settling(q)
    BY DEF Replied, Said, Recent, Confirmed, Settling
  <1>2. Counted(q)'
    BY DEF WireOf, Counted
  <1>3. Newest(q)'
    BY <1>1 DEF WireOf, Newest
  <1>4. SaidOfServed(q)'
    BY <1>1 DEF WireOf, SaidOfServed
  <1>5. SaidInOrder(q)'
    BY <1>1 DEF WireOf, SaidInOrder
  <1>6. CurrentIsLast(q)'
    BY DEF WireOf, CurrentIsLast
  <1> QED BY <1>2, <1>3, <1>4, <1>5, <1>6 DEF WireOf

LEMMA RequestsHarmless ==
  ASSUME Typed, WireInv, NEW S \in SUBSET Query, SendWatchRequests(S),
         \A q \in targets' : q \in S \/ q \in targets,
         \A q \in Query \ S : state' = "Open" /\ q \in targets' => state = "Open",
         UNCHANGED <<fromServer, serving, complete>>
  PROVE  WireInv'
  <1>1. ASSUME NEW q \in Query \ Refused PROVE WireOf(q)'
    <2>1. WireOf(q)
      BY DEF WireInv
    <2>2. CASE q \in S
      BY <2>1, <2>2, WatchedOf
    <2>3. CASE q \notin S
      <3>1. /\ Asking(q)' = Asking(q) /\ target'[q] = target[q]
            /\ \A i \in Asking(q) : toServer'[i] = toServer[i]
            /\ Number(toServer', Requests(q)) = Number(toServer, Requests(q))
            /\ lastWatch'[q] = lastWatch[q]
        BY <2>3, WatchSent
      <3>2. q \in targets' => q \in targets
        BY <2>3
      <3>3. CASE state' = "Open" => state = "Open"
        BY <2>1, <3>1, <3>2, <3>3, UnwatchedOf
      <3>4. CASE q \notin targets'
        <4>1. /\ Replied(q)' = Replied(q) /\ Said(q)' = Said(q)
              /\ \A i : Recent(q, i)' <=> Recent(q, i)
          BY DEF Replied, Said, Recent
        <4>2. Counted(q)'
          BY <2>1, <3>1 DEF WireOf, Counted
        <4>3. SaidOfServed(q)'
          BY <2>1, <4>1 DEF WireOf, SaidOfServed
        <4> QED BY <3>4, <4>2, <4>3
          DEF WireOf, Newest, SaidInOrder, Settling, CurrentIsLast
      <3> QED BY <2>3, <3>3, <3>4
    <2> QED BY <2>2, <2>3
  <1>2. ASSUME NEW q \in Refused PROVE RefusedOf(q)'
    <2>1. q \in Query
      BY FirestoreReadsAssumption
    <2>2. target'[q].pending = target[q].pending
      BY <2>1, WatchSent
    <2> QED BY <2>2 DEF WireInv, RefusedOf, Replied, Said
  <1> QED BY <1>1, <1>2 DEF WireInv

LEMMA AddOnWire ==
  ASSUME Typed, RecordsAgree, OnlineInv, WireInv, AddQueryListener
  PROVE  WireInv'
  <1>1. tasks # <<>> /\ tasks' = Tail(tasks)
    BY DEF AddQueryListener
  <1>2. Head(tasks).get \in Get
    BY <1>1, TaskTaken DEF Task
  <1> PICK p \in Query : p = QueryOf[Head(tasks).get]
    BY <1>2, FirestoreReadsAssumption
  <1> DEFINE first == listeners[p] = {}
             starting == first /\ ~IsStarted(state)
  <1>3. /\ targets' = targets \cup {p}
        /\ state' = IF starting THEN Started(state) ELSE state
        /\ IF first /\ state = "Open"
           THEN SendWatchRequests({p})
           ELSE UNCHANGED <<toServer, target, watches, lastWatch, idle>>
        /\ UNCHANGED <<fromServer, serving, complete>>
    BY DEF AddQueryListener
  <1>4. state' = "Open" => state = "Open"
    BY <1>3 DEF Started
  <1>5. first <=> p \notin targets
    BY DEF RecordsAgree
  <1> HIDE DEF first
  <1>6. CASE first /\ state = "Open"
    BY <1>3, <1>4, <1>6, RequestsHarmless
  <1>7. CASE ~first
    <2>1. UNCHANGED <<toServer, target, lastWatch, targets>>
      BY <1>3, <1>5, <1>7
    <2> QED BY <1>3, <1>4, <2>1, SameWire
  <1>8. CASE first /\ state # "Open"
    <2>1. UNCHANGED <<toServer, target, lastWatch>>
      BY <1>3, <1>8
    <2>2. toServer' = <<>> /\ fromServer' = <<>> /\ state' # "Open"
          /\ serving' = [q \in Query |-> 0] /\ complete' = {}
          /\ target' = [q \in Query |-> NoTarget]
      BY <1>3, <1>4, <1>8, <2>1 DEF OnlineInv, Quiet
    <2>3. \A q \in Query : target'[q].outstanding = 0 /\ target'[q].pending = FALSE
      BY <2>2 DEF NoTarget
    <2>4. \A q \in Query : /\ Asking(q)' = {} /\ Replied(q)' = {} /\ Said(q)' = {}
                           /\ Number(toServer', Requests(q)) = 0
                           /\ Number(fromServer', Replies(q)) = 0
      BY <2>2, NoneInEmpty DEF Asking, Replied, Said
    <2>5. \A q \in Query \ Refused : WireOf(q)'
      BY <2>2, <2>3, <2>4
      DEF WireOf, Counted, Newest, SaidOfServed, SaidInOrder, CurrentIsLast
    <2>6. \A q \in Refused : RefusedOf(q)'
      BY <2>2, <2>3, <2>4, FirestoreReadsAssumption DEF RefusedOf
    <2> QED BY <2>2, <2>5, <2>6 DEF WireInv
  <1> QED BY <1>6, <1>7, <1>8

LEMMA RemoveOnWire ==
  ASSUME Typed, WireInv, RemoveQueryListener
  PROVE  WireInv'
  <1>1. tasks # <<>> /\ tasks' = Tail(tasks)
    BY DEF RemoveQueryListener
  <1>2. Head(tasks).get \in Get
    BY <1>1, TaskTaken DEF Task
  <1> PICK g \in Get : g = Head(tasks).get
    BY <1>2
  <1> PICK p \in Query : p = QueryOf[g]
    BY FirestoreReadsAssumption
  <1>3. /\ ForgetListener(p, g) \/ StopListening(p, g)
        /\ UNCHANGED <<fromServer, serving, complete, lastWatch>>
    BY DEF RemoveQueryListener, watchVars
  <1>4. CASE \/ ForgetListener(p, g)
             \/ StopListening(p, g) /\ state # "Open"
    <2>1. UNCHANGED <<toServer, target, state>> /\ \A q \in targets' : q \in targets
      BY <1>4 DEF ForgetListener, StopListening
    <2> QED BY <1>3, <2>1, SameWire
  <1>5. CASE StopListening(p, g) /\ state = "Open"
    <2> DEFINE r == [op |-> "unwatch", query |-> p, turn |-> 0]
    <2>1. /\ toServer' = Append(toServer, r) /\ target' = Requested(target, {p})
          /\ targets' = targets \ {p} /\ state' = state
      BY <1>5 DEF StopListening
    <2>2. /\ toServer \in Seq(Request) /\ r \in Request /\ target \in [Query -> Target]
          /\ fromServer \in Seq(Response)
      BY DEF Typed, TypeOK, Request, Target
    <2>3. \A q \in Query : r \in Requests(q) <=> q = p
      BY <2>2 DEF Requests
    <2>4. ASSUME NEW q \in Query \ Refused, q # p PROVE WireOf(q)'
      <3>1. /\ Positions(Append(toServer, r), Requests(q)) = Positions(toServer, Requests(q))
            /\ Number(Append(toServer, r), Requests(q)) = Number(toServer, Requests(q))
            /\ \A i \in DOMAIN toServer : Append(toServer, r)[i] = toServer[i]
        <4>1. r \notin Requests(q)
          BY <2>3, <2>4
        <4> QED BY <2>2, <4>1, OtherAppended
      <3>2. /\ Asking(q)' = Asking(q)
            /\ Number(toServer', Requests(q)) = Number(toServer, Requests(q))
            /\ \A i \in Asking(q) : toServer'[i] = toServer[i]
        BY <2>1, <3>1 DEF Asking, Positions
      <3>3. target'[q] = target[q]
        BY <2>1, <2>4 DEF Requested
      <3>4. WireOf(q)
        BY DEF WireInv
      <3> QED BY <1>3, <2>1, <3>2, <3>3, <3>4, UnwatchedOf
    <2>5. ASSUME p \notin Refused PROVE WireOf(p)'
      <3>1. WireOf(p) /\ p \notin targets'
        BY <2>1, <2>5 DEF WireInv
      <3>2. Number(toServer', Requests(p)) = Number(toServer, Requests(p)) + 1
        BY <2>1, <2>2, <2>3, NumberAppend
      <3>3. target'[p].outstanding = target[p].outstanding + 1 /\ target[p].outstanding \in Nat
        BY <2>1, <2>2 DEF Requested, Target
      <3>4. Number(toServer, Requests(p)) \in Nat /\ Number(fromServer, Replies(p)) \in Nat
        BY <2>2, FinitelyMany
      <3>5. Counted(p)'
        BY <1>3, <3>1, <3>2, <3>3, <3>4 DEF WireOf, Counted
      <3>6. SaidOfServed(p)'
        BY <1>3, <3>1 DEF WireOf, SaidOfServed, Said, Recent, Replied
      <3> QED BY <3>1, <3>5, <3>6 DEF WireOf, Newest, SaidInOrder, Settling, CurrentIsLast
    <2>6. ASSUME NEW q \in Refused PROVE RefusedOf(q)'
      <3>1. q \in Query
        BY FirestoreReadsAssumption
      <3>2. target'[q].pending = target[q].pending
        BY <2>1, <2>2, <3>1 DEF Requested, Target
      <3> QED BY <1>3, <3>2 DEF WireInv, RefusedOf, Replied, Said
    <2> QED BY <1>3, <2>4, <2>5, <2>6 DEF WireInv
  <1> QED BY <1>3, <1>4, <1>5

-----------------------------------------------------------------------------
(* What the server does to the wire.                                       *)

Says(m, q) == m.kind \in {"current", "document"} /\ m.query = q

(* A message, and perhaps a snapshot, is sent. *)
LEMMA SentPlaces ==
  ASSUME Typed, NEW m \in AboutTarget, NEW done, NEW q,
         \/ fromServer' = Append(fromServer, m)
         \/ fromServer' = fromServer \o <<m>> \o Snapshot(done)
  PROVE  /\ Len(fromServer) \in Nat /\ Len(fromServer') \in Nat
         /\ Len(fromServer') >= Len(fromServer) + 1
         /\ \A i \in DOMAIN fromServer : i \in Nat /\ i <= Len(fromServer) /\ fromServer'[i] = fromServer[i]
         /\ fromServer'[Len(fromServer) + 1] = m
         /\ \A i \in DOMAIN fromServer' :
              \/ i \in DOMAIN fromServer
              \/ i = Len(fromServer) + 1
              \/ fromServer'[i].kind = "snapshot"
         /\ Said(q)' = Said(q) \cup {i \in {Len(fromServer) + 1} : Says(m, q)}
         /\ Replied(q)' = Replied(q) \cup {i \in {Len(fromServer) + 1} : m \in Replies(q)}
         /\ Number(fromServer', Replies(q))
              = Number(fromServer, Replies(q)) + (IF m \in Replies(q) THEN 1 ELSE 0)
         /\ Number(fromServer, Replies(q)) \in Nat
  <1> DEFINE s == [kind |-> "snapshot", query |-> "all", turn |-> 0]
             n == Len(fromServer) + 1
             f == Append(fromServer, m)
  <1>1. fromServer \in Seq(Response) /\ m \in Response /\ s \in Response
    BY DEF Typed, Response, OfSnapshot
  <1>2. s \notin Replies(q)
    BY DEF Replies
  <1>3. /\ f \in Seq(Response) /\ Len(f) = n /\ Len(fromServer) \in Nat
        /\ DOMAIN fromServer = 1 .. Len(fromServer) /\ DOMAIN f = 1 .. n
        /\ \A i \in DOMAIN fromServer : f[i] = fromServer[i]
        /\ f[n] = m
        /\ Positions(f, Replies(q)) = Replied(q) \cup {i \in {n} : m \in Replies(q)}
        /\ Number(f, Replies(q))
             = Number(fromServer, Replies(q)) + (IF m \in Replies(q) THEN 1 ELSE 0)
        /\ Number(fromServer, Replies(q)) \in Nat
    BY <1>1, NumberAppend, LenProperties, FinitelyMany DEF Replied
  <1>4. fromServer' = f \/ fromServer' = Append(f, s)
    BY SentTypes
  <1> HIDE DEF f, s
  <1>5. CASE fromServer' = f
    <2>1. Said(q)' = Said(q) \cup {i \in {n} : Says(m, q)}
      BY <1>3, <1>5 DEF Said, Says
    <2> QED BY <1>3, <1>5, <2>1 DEF Replied
  <1>6. CASE fromServer' = Append(f, s)
    <2>1. /\ Positions(Append(f, s), Replies(q)) = Positions(f, Replies(q))
          /\ Number(Append(f, s), Replies(q)) = Number(f, Replies(q))
      BY <1>1, <1>2, <1>3, OtherAppended
    <2>2. /\ Len(fromServer') = n + 1 /\ DOMAIN fromServer' = 1 .. n + 1
          /\ \A i \in 1 .. n : fromServer'[i] = f[i]
          /\ fromServer'[n + 1] = s
      BY <1>1, <1>3, <1>6
    <2>3. s.kind = "snapshot"
      BY DEF s
    <2>4. Said(q)' = Said(q) \cup {i \in {n} : Says(m, q)}
      BY <1>3, <2>2, <2>3 DEF Said, Says
    <2>5. \A i \in DOMAIN fromServer' :
            i \in DOMAIN fromServer \/ i = n \/ fromServer'[i].kind = "snapshot"
      BY <1>3, <2>2, <2>3
    <2>6. \A i \in DOMAIN fromServer : i \in Nat /\ i <= Len(fromServer) /\ fromServer'[i] = fromServer[i]
      BY <1>3, <2>2
    <2>7. fromServer'[n] = m
      BY <1>3, <2>2
    <2>8. Replied(q)' = Replied(q) \cup {i \in {n} : m \in Replies(q)}
      BY <1>3, <1>6, <2>1 DEF Replied
    <2> QED BY <1>3, <1>6, <2>1, <2>2, <2>4, <2>5, <2>6, <2>7, <2>8
  <1> QED BY <1>4, <1>5, <1>6

(* The server takes a request for another target. *)
LEMMA OthersAsked ==
  ASSUME Typed, NEW q \in Query, toServer # <<>>, toServer' = Tail(toServer),
         Head(toServer).query # q, Newest(q),
         UNCHANGED <<targets, state, lastWatch>>, serving'[q] = serving[q]
  PROVE  /\ Newest(q)'
         /\ Number(toServer', Requests(q)) = Number(toServer, Requests(q))
  <1>1. toServer \in Seq(Request)
    BY DEF Typed
  <1>2. Head(toServer) \notin Requests(q)
    BY DEF Requests
  <1>3. /\ Number(toServer, Requests(q)) = Number(Tail(toServer), Requests(q))
        /\ Number(Tail(toServer), Requests(q)) \in Nat
        /\ \A i : i \in Positions(Tail(toServer), Requests(q)) <=>
             i \in Nat \ {0} /\ i + 1 \in Asking(q)
        /\ \A i \in 1 .. Len(Tail(toServer)) : Tail(toServer)[i] = toServer[i + 1]
        /\ Head(toServer) = toServer[1]
        /\ Tail(toServer) \in Seq(Request)
    <2>1. Tail(toServer) \in Seq(Request)
      BY <1>1, HeadTailProperties
    <2>2. Number(Tail(toServer), Requests(q)) \in Nat
      BY <2>1, FinitelyMany
    <2> QED BY <1>1, <1>2, <2>2, NumberTail DEF Asking
  <1>4. \A i \in Asking(q) : i \in Nat \ {0, 1}
    BY <1>1, <1>2, <1>3, LenProperties DEF Asking, Positions
  <1>5. \A i : i \in Asking(q)' <=> i \in Nat \ {0} /\ i + 1 \in Asking(q)
    BY <1>3 DEF Asking
  <1>6. Asking(q)' = {} => Asking(q) = {}
    <2> SUFFICES ASSUME NEW i \in Asking(q) PROVE Asking(q)' # {}
      OBVIOUS
    <2>1. i - 1 \in Nat \ {0} /\ (i - 1) + 1 = i
      BY <1>4
    <2>2. i - 1 \in Asking(q)'
      BY <1>5, <2>1
    <2> QED BY <2>2
  <1>7. ASSUME NEW i \in Asking(q)', \A j \in Asking(q)' : j <= i
        PROVE  /\ i + 1 \in Asking(q) /\ \A j \in Asking(q) : j <= i + 1
               /\ toServer'[i] = toServer[i + 1]
    <2>1. i \in Nat \ {0} /\ i + 1 \in Asking(q)
      BY <1>5
    <2>2. \A j \in Asking(q) : j <= i + 1
      <3> TAKE j \in Asking(q)
      <3>1. j - 1 \in Nat \ {0} /\ (j - 1) + 1 = j
        BY <1>4
      <3>2. j - 1 \in Asking(q)'
        BY <1>5, <3>1
      <3>3. j - 1 <= i
        BY <1>7, <3>2
      <3> QED BY <2>1, <3>1, <3>3
    <2>3. i \in 1 .. Len(Tail(toServer))
      BY <1>3, <1>7, LenProperties DEF Asking, Positions
    <2> QED BY <1>3, <2>1, <2>2, <2>3
  <1>8. Newest(q)'
    BY <1>6, <1>7 DEF Newest
  <1> QED BY <1>3, <1>8

(* Nothing is said of q, or to it. *)
LEMMA OthersOf ==
  ASSUME Typed, NEW q \in Query \ Refused, WireOf(q), Newest(q)',
         Number(toServer', Requests(q)) <= Number(toServer, Requests(q)),
         toServer' \in Seq(Request),
         Said(q)' = Said(q), Replied(q)' = Replied(q),
         Number(fromServer', Replies(q)) = Number(fromServer, Replies(q)),
         Len(fromServer') \in Nat, Len(fromServer') >= Len(fromServer),
         \A i \in Said(q) : fromServer'[i] = fromServer[i],
         q \in complete' => q \in complete, serving'[q] = serving[q],
         UNCHANGED <<target, targets, lastWatch>>
  PROVE  WireOf(q)'
  <1>1. /\ toServer \in Seq(Request) /\ fromServer \in Seq(Response)
        /\ target[q].outstanding \in Nat
    BY DEF Typed, TypeOK
  <1>2. /\ Number(toServer, Requests(q)) \in Nat /\ Number(toServer', Requests(q)) \in Nat
        /\ Number(fromServer, Replies(q)) \in Nat /\ Len(fromServer) \in Nat
    BY <1>1, FinitelyMany, LenProperties
  <1>3. Counted(q)'
    BY <1>1, <1>2 DEF WireOf, Counted
  <1>4. \A i : Recent(q, i)' <=> Recent(q, i)
    BY DEF Recent
  <1>5. Settling(q)' => Settling(q)
    BY DEF Settling
  <1>6. \A i : Confirmed(q, i) => Confirmed(q, i)'
    BY <1>4 DEF Confirmed
  <1>7. \A i \in Said(q) : i \in Nat /\ i <= Len(fromServer)
    BY <1>1, LenProperties DEF Said
  <1>8. Confirmed(q, Len(fromServer) + 1) => Confirmed(q, Len(fromServer) + 1)'
    <2>1. \A i \in Said(q) : i < Len(fromServer') + 1
      BY <1>2, <1>7
    <2> QED BY <1>4, <2>1 DEF Confirmed
  <1>9. SaidOfServed(q)'
    BY <1>4 DEF WireOf, SaidOfServed
  <1>10. SaidInOrder(q)'
    BY <1>4, <1>5, <1>6, <1>8 DEF WireOf, SaidInOrder
  <1>11. CurrentIsLast(q)'
    BY DEF WireOf, CurrentIsLast
  <1> QED BY <1>3, <1>9, <1>10, <1>11 DEF WireOf

(* The server takes the request for q at the head. *)
LEMMA Taken ==
  ASSUME Typed, NEW q \in Query, toServer # <<>>, toServer' = Tail(toServer),
         Head(toServer).query = q, Newest(q),
         UNCHANGED <<targets, state, lastWatch>>,
         Head(toServer).op = "watch" => serving'[q] = Head(toServer).turn
  PROVE  /\ Newest(q)'
         /\ Number(toServer', Requests(q)) + 1 = Number(toServer, Requests(q))
         /\ Number(toServer', Requests(q)) \in Nat
  <1>1. toServer \in Seq(Request)
    BY DEF Typed
  <1>2. /\ Head(toServer) \in Request /\ Tail(toServer) \in Seq(Request)
        /\ Head(toServer) = toServer[1]
        /\ Len(toServer) \in Nat \ {0}
    BY <1>1, NumberTail
  <1>3. Head(toServer) \in Requests(q)
    BY <1>2 DEF Requests
  <1>4. /\ Number(toServer, Requests(q)) = Number(Tail(toServer), Requests(q)) + 1
        /\ Number(Tail(toServer), Requests(q)) \in Nat
        /\ \A i : i \in Positions(Tail(toServer), Requests(q)) <=>
             i \in Nat \ {0} /\ i + 1 \in Asking(q)
        /\ \A i \in 1 .. Len(Tail(toServer)) : Tail(toServer)[i] = toServer[i + 1]
    <2>1. Number(Tail(toServer), Requests(q)) \in Nat
      BY <1>2, FinitelyMany
    <2> QED BY <1>1, <1>3, <2>1, NumberTail DEF Asking
  <1>5. \A i \in Asking(q) : i \in Nat \ {0}
    BY <1>1, LenProperties DEF Asking, Positions
  <1>6. \A i : i \in Asking(q)' <=> i \in Nat \ {0} /\ i + 1 \in Asking(q)
    BY <1>4 DEF Asking
  <1>7. 1 \in Asking(q)
    BY <1>1, <1>2, <1>3, LenProperties DEF Asking, Positions
  <1>8. ASSUME q \in targets, state = "Open", Asking(q)' = {}
        PROVE  serving'[q] = lastWatch[q]
    <2>1. \A j \in Asking(q) : j <= 1
      <3> TAKE j \in Asking(q)
      <3>1. CASE j # 1
        <4>1. j - 1 \in Nat \ {0} /\ (j - 1) + 1 = j
          BY <1>5, <3>1
        <4>2. j - 1 \in Asking(q)'
          BY <1>6, <4>1
        <4> QED BY <1>8, <4>2
      <3> QED BY <3>1
    <2>2. toServer[1].op = "watch" /\ toServer[1].turn = lastWatch[q]
      BY <1>7, <1>8, <2>1 DEF Newest
    <2> QED BY <1>2, <2>2
  <1>9. ASSUME NEW i \in Asking(q)', \A j \in Asking(q)' : j <= i
        PROVE  /\ i + 1 \in Asking(q) /\ \A j \in Asking(q) : j <= i + 1
               /\ toServer'[i] = toServer[i + 1]
    <2>1. i \in Nat \ {0} /\ i + 1 \in Asking(q)
      BY <1>6
    <2>2. \A j \in Asking(q) : j <= i + 1
      <3> TAKE j \in Asking(q)
      <3>1. CASE j # 1
        <4>1. j - 1 \in Nat \ {0} /\ (j - 1) + 1 = j
          BY <1>5, <3>1
        <4>2. j - 1 \in Asking(q)'
          BY <1>6, <4>1
        <4>3. j - 1 <= i
          BY <1>9, <4>2
        <4> QED BY <2>1, <4>1, <4>3
      <3> QED BY <2>1, <3>1
    <2>3. i \in 1 .. Len(Tail(toServer))
      BY <1>2, <1>9, LenProperties DEF Asking, Positions
    <2> QED BY <1>4, <2>1, <2>2, <2>3
  <1>10. Newest(q)'
    BY <1>8, <1>9 DEF Newest
  <1> QED BY <1>4, <1>10

LEMMA HearsOnWire ==
  ASSUME Typed, WireInv, ServerHears
  PROVE  WireInv'
  <1>1. toServer \in Seq(Request) /\ fromServer \in Seq(Response) /\ toServer # <<>>
        /\ serving \in [Query -> Nat]
    BY DEF Typed, TypeOK, ServerHears
  <1>2. Head(toServer) \in Request
    BY <1>1, HeadTailProperties
  <1> PICK r \in Request : r = Head(toServer)
    BY <1>2
  <1> PICK p \in Query : p = r.query
    BY DEF Request
  <1> DEFINE reply(kind) == [kind |-> kind, query |-> p, turn |-> r.turn]
  <1>3. /\ toServer' = Tail(toServer) /\ complete' = complete \ {p}
        /\ UNCHANGED <<target, targets, state, lastWatch>>
        /\ \/ /\ r.op = "watch" /\ p \notin Refused
              /\ serving' = [serving EXCEPT ![p] = r.turn]
              /\ fromServer' = Append(fromServer, reply("added"))
           \/ /\ r.op = "watch" /\ p \in Refused
              /\ serving' = serving
              /\ fromServer' = Append(fromServer, reply("refused"))
           \/ /\ r.op = "unwatch"
              /\ serving' = [serving EXCEPT ![p] = 0]
              /\ fromServer' = IF serving[p] = 0 THEN fromServer
                               ELSE Append(fromServer, reply("removed"))
    BY DEF ServerHears, watchVars
  <1>4. toServer' \in Seq(Request)
    BY <1>1, <1>3, HeadTailProperties
  <1>5. \A k \in {"added", "removed", "refused"} :
          /\ reply(k) \in AboutTarget /\ reply(k).kind = k /\ reply(k).query = p
          /\ \A q \in Query : ~Says(reply(k), q)
          /\ \A q \in Query : reply(k) \in Replies(q) <=> q = p /\ k # "refused"
    BY DEF AboutTarget, Request, Says, Replies, Response
  <1> HIDE DEF reply
  <1>6. \/ serving[p] = 0 /\ serving' = serving /\ fromServer' = fromServer /\ r.op = "unwatch"
        \/ p \in Refused /\ serving' = serving /\ fromServer' = Append(fromServer, reply("refused"))
        \/ p \notin Refused /\ fromServer' = Append(fromServer, reply("added"))
        \/ serving[p] # 0 /\ fromServer' = Append(fromServer, reply("removed"))
    BY <1>1, <1>3
  <1>7. ASSUME NEW q \in Query
        PROVE  /\ Said(q)' = Said(q)
               /\ q # p \/ p \in Refused \/ fromServer' = fromServer =>
                    /\ Replied(q)' = Replied(q) \/ (p \in Refused /\ serving[p] # 0)
                    /\ Number(fromServer', Replies(q)) = Number(fromServer, Replies(q))
                       \/ (p \in Refused /\ serving[p] # 0)
               /\ fromServer' # fromServer /\ q = p /\ p \notin Refused =>
                    /\ Replied(q)' = Replied(q) \cup {Len(fromServer) + 1}
                    /\ Number(fromServer', Replies(q)) = Number(fromServer, Replies(q)) + 1
               /\ Number(fromServer, Replies(q)) \in Nat
               /\ Len(fromServer') \in Nat /\ Len(fromServer') >= Len(fromServer)
               /\ Len(fromServer) \in Nat
               /\ \A i \in DOMAIN fromServer : i \in Nat /\ i <= Len(fromServer) /\ fromServer'[i] = fromServer[i]
    <2>1. CASE fromServer' = fromServer
      <3>1. Number(fromServer, Replies(q)) \in Nat
        BY <1>1, FinitelyMany
      <3> QED BY <1>1, <2>1, <3>1, LenProperties DEF Said, Replied
    <2>2. ASSUME NEW k \in {"added", "removed", "refused"},
                 fromServer' = Append(fromServer, reply(k)),
                 k = "refused" => p \in Refused,
                 k # "refused" => p \notin Refused \/ serving[p] # 0
          PROVE  <1>7!2
      <3>1. /\ Len(fromServer) \in Nat /\ Len(fromServer') \in Nat
            /\ Len(fromServer') >= Len(fromServer) + 1
            /\ \A i \in DOMAIN fromServer : i \in Nat /\ i <= Len(fromServer) /\ fromServer'[i] = fromServer[i]
            /\ Said(q)' = Said(q) \cup {i \in {Len(fromServer) + 1} : Says(reply(k), q)}
            /\ Replied(q)' = Replied(q) \cup {i \in {Len(fromServer) + 1} : reply(k) \in Replies(q)}
            /\ Number(fromServer', Replies(q))
                 = Number(fromServer, Replies(q)) + (IF reply(k) \in Replies(q) THEN 1 ELSE 0)
            /\ Number(fromServer, Replies(q)) \in Nat
        BY <1>5, <2>2, SentPlaces
      <3>2. Said(q)' = Said(q)
        BY <1>5, <3>1
      <3> QED BY <1>5, <2>2, <3>1, <3>2
    <2> QED BY <1>6, <2>1, <2>2
  <1>8. \A q \in Refused : RefusedOf(q) /\ q \in Query
    BY FirestoreReadsAssumption DEF WireInv
  <1>9. p \in Refused => serving[p] = 0
    BY <1>8 DEF RefusedOf
  <1>10. \A q \in Query : q # p \/ p \in Refused \/ fromServer' = fromServer =>
           serving'[q] = serving[q]
    BY <1>1, <1>3, <1>6, <1>9
  <1>11. ASSUME NEW q \in Query \ Refused, q # p \/ fromServer' = fromServer
         PROVE  WireOf(q)'
    <2>1. WireOf(q) /\ Newest(q)
      BY DEF WireInv, WireOf
    <2>2. serving'[q] = serving[q]
      BY <1>10, <1>11
    <2>3. toServer # <<>> /\ toServer' = Tail(toServer) /\ Head(toServer) = r
          /\ UNCHANGED <<targets, state, lastWatch>>
      BY <1>1, <1>3
    <2>4. Newest(q)' /\ Number(toServer', Requests(q)) <= Number(toServer, Requests(q))
      <3>1. CASE q # p
        <4>1. Newest(q)' /\ Number(toServer', Requests(q)) = Number(toServer, Requests(q))
          BY <2>1, <2>2, <2>3, <3>1, OthersAsked
        <4>2. Number(toServer, Requests(q)) \in Nat
          BY <1>1, FinitelyMany
        <4> QED BY <4>1, <4>2
      <3>2. CASE q = p
        <4>1. r.op = "unwatch"
          BY <1>1, <1>3, <1>11, <3>2, NumberAppend
        <4>2. /\ Newest(q)' /\ Number(toServer', Requests(q)) + 1 = Number(toServer, Requests(q))
              /\ Number(toServer', Requests(q)) \in Nat
          BY <2>1, <2>3, <3>2, <4>1, Taken
        <4> QED BY <4>2
      <3> QED BY <3>1, <3>2
    <2>5. /\ Said(q)' = Said(q) /\ Replied(q)' = Replied(q)
          /\ Number(fromServer', Replies(q)) = Number(fromServer, Replies(q))
          /\ Len(fromServer') \in Nat /\ Len(fromServer') >= Len(fromServer)
          /\ \A i \in DOMAIN fromServer : fromServer'[i] = fromServer[i]
      BY <1>7, <1>9, <1>11
    <2>6. \A i \in Said(q) : fromServer'[i] = fromServer[i]
      BY <2>5 DEF Said
    <2>7. q \in complete' => q \in complete
      BY <1>3
    <2> QED BY <1>3, <1>4, <2>1, <2>2, <2>4, <2>5, <2>6, <2>7, OthersOf
  <1>12. ASSUME p \notin Refused, fromServer' # fromServer
         PROVE  WireOf(p)'
    <2>1. WireOf(p) /\ Newest(p)
      BY <1>12 DEF WireInv, WireOf
    <2>2. r.op = "watch" => serving'[p] = r.turn
      BY <1>1, <1>3, <1>12
    <2>3. /\ Newest(p)' /\ Number(toServer', Requests(p)) + 1 = Number(toServer, Requests(p))
          /\ Number(toServer', Requests(p)) \in Nat
      BY <1>1, <1>3, <2>1, <2>2, Taken
    <2>4. /\ Said(p)' = Said(p) /\ Len(fromServer) \in Nat
          /\ Replied(p)' = Replied(p) \cup {Len(fromServer) + 1}
          /\ Number(fromServer', Replies(p)) = Number(fromServer, Replies(p)) + 1
          /\ Number(fromServer, Replies(p)) \in Nat
          /\ \A i \in DOMAIN fromServer : i \in Nat /\ i <= Len(fromServer)
      BY <1>7, <1>12
    <2>5. target[p].outstanding \in Nat
      BY DEF Typed, TypeOK
    <2>6. Counted(p)'
      BY <1>3, <2>1, <2>3, <2>4, <2>5 DEF WireOf, Counted
    <2>7. \A i \in Said(p)' : ~Recent(p, i)'
      <3> TAKE i \in Said(p)'
      <3>1. i \in Nat /\ i <= Len(fromServer)
        BY <2>4 DEF Said
      <3>2. ~(Len(fromServer) + 1 <= i)
        BY <2>4, <3>1
      <3> QED BY <2>4, <3>2 DEF Recent
    <2>8. SaidOfServed(p)' /\ SaidInOrder(p)'
      BY <1>3, <2>7 DEF SaidOfServed, SaidInOrder
    <2>9. CurrentIsLast(p)'
      BY <1>3, <2>1 DEF WireOf, CurrentIsLast
    <2> QED BY <2>3, <2>6, <2>8, <2>9 DEF WireOf
  <1>13. ASSUME NEW q \in Refused PROVE RefusedOf(q)'
    <2>1. RefusedOf(q) /\ q \in Query
      BY <1>8
    <2>2. serving'[q] = serving[q] \/ serving'[q] = 0
      BY <1>1, <1>3, <2>1
    <2>3. Said(q)' = Said(q) /\ Replied(q)' = Replied(q)
      BY <1>7, <1>9, <1>13, <2>1
    <2>4. q \in complete' => q \in complete
      BY <1>3
    <2> QED BY <1>3, <2>1, <2>2, <2>3, <2>4 DEF RefusedOf
  <1>14. ASSUME NEW i \in DOMAIN fromServer', fromServer'[i].kind = "refused"
         PROVE  fromServer'[i].query \in Refused
    <2>1. CASE fromServer' = fromServer
      BY <1>14, <2>1 DEF WireInv
    <2>2. ASSUME NEW k \in {"added", "removed", "refused"},
                 fromServer' = Append(fromServer, reply(k)),
                 k = "refused" => p \in Refused
          PROVE  fromServer'[i].query \in Refused
      <3>1. /\ \A j \in DOMAIN fromServer : fromServer'[j] = fromServer[j]
            /\ fromServer'[Len(fromServer) + 1] = reply(k)
            /\ \A j \in DOMAIN fromServer' :
                 \/ j \in DOMAIN fromServer
                 \/ j = Len(fromServer) + 1
                 \/ fromServer'[j].kind = "snapshot"
        BY <1>5, <2>2, SentPlaces
      <3>2. CASE i \in DOMAIN fromServer
        BY <1>14, <3>1, <3>2 DEF WireInv
      <3>3. CASE i = Len(fromServer) + 1
        BY <1>5, <1>14, <2>2, <3>1, <3>3
      <3> QED BY <1>14, <3>1, <3>2, <3>3
    <2> QED BY <1>6, <2>1, <2>2
  <1> QED BY <1>11, <1>12, <1>13, <1>14 DEF WireInv

(* The server says something of a target. *)
LEMMA SaysOnWire ==
  ASSUME Typed, WireInv, NEW p \in Query, ServerCompletes(p) \/ ServerChanges(p)
  PROVE  WireInv'
  <1> PICK k \in {"current", "document"} :
        \/ k = "current" /\ ServerCompletes(p)
        \/ k = "document" /\ ServerChanges(p)
    OBVIOUS
  <1> PICK m : m = Message(k, p)
    OBVIOUS
  <1>1. /\ m \in AboutTarget /\ m.kind = k /\ m.turn = serving[p]
        /\ \A q : Says(m, q) <=> q = p
        /\ \A q : m \notin Replies(q)
    BY DEF Message, AboutTarget, Says, Replies, Typed, TypeOK
  <1>2. /\ fromServer' = fromServer \o <<m>> \o Snapshot(complete')
        /\ UNCHANGED <<toServer, target, targets, state, lastWatch, serving>>
        /\ complete' = complete \cup {p}
        /\ k = "document" => p \in complete
        /\ k = "current" => serving[p] # 0
    BY DEF ServerCompletes, ServerChanges, watchVars
  <1>3. p \notin Refused
    BY <1>2 DEF WireInv, RefusedOf
  <1> PICK n : n = Len(fromServer) + 1
    OBVIOUS
  <1>4. ASSUME NEW q
        PROVE  /\ Len(fromServer) \in Nat /\ Len(fromServer') \in Nat
               /\ n \in Nat /\ Len(fromServer') >= n /\ Len(fromServer') >= Len(fromServer)
               /\ \A i \in DOMAIN fromServer :
                    i \in Nat /\ i <= Len(fromServer) /\ i < n /\ fromServer'[i] = fromServer[i]
               /\ fromServer'[n] = m
               /\ \A i \in DOMAIN fromServer' :
                    i \in DOMAIN fromServer \/ i = n \/ fromServer'[i].kind = "snapshot"
               /\ Said(q)' = Said(q) \cup {i \in {n} : q = p}
               /\ Replied(q)' = Replied(q)
               /\ Number(fromServer', Replies(q)) = Number(fromServer, Replies(q))
    <2>1. /\ Len(fromServer) \in Nat /\ Len(fromServer') \in Nat
          /\ Len(fromServer') >= Len(fromServer) + 1
          /\ \A i \in DOMAIN fromServer : i \in Nat /\ i <= Len(fromServer) /\ fromServer'[i] = fromServer[i]
          /\ fromServer'[Len(fromServer) + 1] = m
          /\ \A i \in DOMAIN fromServer' :
               \/ i \in DOMAIN fromServer
               \/ i = Len(fromServer) + 1
               \/ fromServer'[i].kind = "snapshot"
          /\ Said(q)' = Said(q) \cup {i \in {Len(fromServer) + 1} : Says(m, q)}
          /\ Replied(q)' = Replied(q) \cup {i \in {Len(fromServer) + 1} : m \in Replies(q)}
          /\ Number(fromServer', Replies(q))
               = Number(fromServer, Replies(q)) + (IF m \in Replies(q) THEN 1 ELSE 0)
          /\ Number(fromServer, Replies(q)) \in Nat
      BY <1>1, <1>2, SentPlaces
    <2>2. Number(fromServer', Replies(q)) = Number(fromServer, Replies(q))
      BY <1>1, <2>1
    <2>3. Replied(q)' = Replied(q)
      BY <1>1, <2>1
    <2>4. Said(q)' = Said(q) \cup {i \in {n} : q = p}
      BY <1>1, <2>1
    <2> QED BY <2>1, <2>2, <2>3, <2>4
  <1>5. ASSUME NEW q \in Query \ Refused, q # p PROVE WireOf(q)'
    <2>1. WireOf(q)
      BY DEF WireInv
    <2>2. Newest(q)'
      BY <1>2, <2>1 DEF WireOf, Newest, Asking
    <2>3. /\ toServer' \in Seq(Request)
          /\ Number(toServer', Requests(q)) <= Number(toServer, Requests(q))
      <3>1. toServer \in Seq(Request)
        BY DEF Typed
      <3>2. Number(toServer, Requests(q)) \in Nat
        BY <3>1, FinitelyMany
      <3>3. Number(toServer', Requests(q)) = Number(toServer, Requests(q))
        BY <1>2
      <3> QED BY <1>2, <3>1, <3>2, <3>3
    <2>4. /\ Said(q)' = Said(q) /\ Replied(q)' = Replied(q)
          /\ Number(fromServer', Replies(q)) = Number(fromServer, Replies(q))
          /\ Len(fromServer') \in Nat /\ Len(fromServer') >= Len(fromServer)
          /\ \A i \in Said(q) : fromServer'[i] = fromServer[i]
      BY <1>4, <1>5 DEF Said
    <2>5. q \in complete' => q \in complete
      BY <1>2, <1>5
    <2> QED BY <1>2, <2>1, <2>2, <2>3, <2>4, <2>5, OthersOf
  <1>6. WireOf(p)'
    <2>1. WireOf(p)
      BY <1>3 DEF WireInv
    <2>2. /\ Said(p)' = Said(p) \cup {n} /\ Replied(p)' = Replied(p)
          /\ Number(fromServer', Replies(p)) = Number(fromServer, Replies(p))
          /\ \A i : Recent(p, i)' <=> Recent(p, i)
      BY <1>4 DEF Recent
    <2>3. /\ n \in Nat /\ Len(fromServer') \in Nat /\ n < Len(fromServer') + 1
          /\ fromServer'[n] = m
          /\ \A i \in Said(p) : i < n /\ i < Len(fromServer') + 1 /\ fromServer'[i] = fromServer[i]
      BY <1>4 DEF Said
    <2>4. Recent(p, n)
      BY <1>4 DEF Recent, Replied, Positions
    <2>5. Counted(p)'
      BY <1>2, <2>1, <2>2 DEF WireOf, Counted
    <2>6. Newest(p)'
      BY <1>2, <2>1 DEF WireOf, Newest, Asking
    <2>7. SaidOfServed(p)'
      BY <1>1, <1>2, <2>1, <2>2, <2>3 DEF WireOf, SaidOfServed
    <2>8. Settling(p)' => Settling(p)
      BY <1>2, <2>2 DEF Settling
    <2>9. \A i : Confirmed(p, i) => Confirmed(p, i)'
      BY <1>2, <2>2, <2>3 DEF Confirmed
    <2>10. Confirmed(p, n) => Confirmed(p, Len(fromServer) + 1)'
      BY <1>2, <2>2, <2>3 DEF Confirmed
    <2>11. p \in complete /\ Settling(p) => Confirmed(p, n)
      BY <2>1 DEF WireOf, SaidInOrder
    <2>12. ASSUME NEW i \in Said(p)', fromServer'[i].kind = "document",
                  Recent(p, i)', Settling(p)'
           PROVE  Confirmed(p, i)'
      <3>1. CASE i = n
        BY <1>1, <1>2, <2>3, <2>8, <2>9, <2>11, <2>12, <3>1
      <3>2. CASE i \in Said(p)
        BY <2>1, <2>2, <2>3, <2>8, <2>9, <2>12, <3>2 DEF WireOf, SaidInOrder
      <3> QED BY <2>2, <3>1, <3>2
    <2>13. ASSUME Settling(p)' PROVE Confirmed(p, Len(fromServer) + 1)'
      <3>1. CASE k = "current"
        BY <1>1, <2>2, <2>3, <2>4, <3>1 DEF Confirmed
      <3>2. CASE k = "document"
        BY <1>2, <2>8, <2>10, <2>11, <2>13, <3>2
      <3> QED BY <3>1, <3>2
    <2>14. SaidInOrder(p)'
      BY <2>12, <2>13 DEF SaidInOrder
    <2>15. CurrentIsLast(p)'
      BY <1>2, <2>1 DEF WireOf, CurrentIsLast
    <2> QED BY <2>5, <2>6, <2>7, <2>14, <2>15 DEF WireOf
  <1>7. ASSUME NEW q \in Refused PROVE RefusedOf(q)'
    <2>1. q # p /\ RefusedOf(q)
      BY <1>3 DEF WireInv
    <2>2. Said(q)' = Said(q) /\ Replied(q)' = Replied(q)
      BY <1>4, <2>1
    <2> QED BY <1>2, <2>1, <2>2 DEF RefusedOf
  <1>8. ASSUME NEW i \in DOMAIN fromServer', fromServer'[i].kind = "refused"
        PROVE  fromServer'[i].query \in Refused
    <2>1. i # n /\ fromServer'[i].kind # "snapshot"
      BY <1>1, <1>4, <1>8
    <2>2. i \in DOMAIN fromServer /\ fromServer'[i] = fromServer[i]
      BY <1>4, <2>1
    <2> QED BY <1>8, <2>2 DEF WireInv
  <1> QED BY <1>5, <1>6, <1>7, <1>8 DEF WireInv

-----------------------------------------------------------------------------
(* What the phone hears.                                                   *)

(* The message at the head is taken. *)
LEMMA HeardPlaces ==
  ASSUME Typed, NEW q, fromServer # <<>>, fromServer' = Tail(fromServer),
         NEW m, m = Head(fromServer)
  PROVE  /\ m \in Response
         /\ \A i \in Said(q) : i \in Nat \ {0}
         /\ \A i \in Replied(q) : i \in Nat \ {0}
         /\ \A i : i \in Replied(q)' <=> i \in Nat \ {0} /\ i + 1 \in Replied(q)
         /\ \A i : i \in Said(q)' <=> i \in Nat \ {0} /\ i + 1 \in Said(q)
         /\ \A i \in Said(q)' : fromServer'[i] = fromServer[i + 1]
         /\ 1 \in Said(q) <=> Says(m, q)
         /\ 1 \in Replied(q) <=> m \in Replies(q)
         /\ fromServer[1] = m
         /\ Len(fromServer) \in Nat /\ Len(fromServer) = Len(fromServer') + 1
         /\ Len(fromServer') \in Nat
         /\ Number(fromServer, Replies(q))
              = Number(fromServer', Replies(q)) + (IF m \in Replies(q) THEN 1 ELSE 0)
         /\ Number(fromServer', Replies(q)) \in Nat
         /\ Number(fromServer, Replies(q)) \in Nat
         /\ Number(fromServer, Replies(q)) = 0 <=> Replied(q) = {}
  <1>1. fromServer \in Seq(Response)
    BY DEF Typed
  <1>2. /\ m \in Response /\ Tail(fromServer) \in Seq(Response)
        /\ Len(fromServer) \in Nat \ {0} /\ m = fromServer[1]
        /\ Len(Tail(fromServer)) = Len(fromServer) - 1
        /\ \A i \in 1 .. Len(Tail(fromServer)) : Tail(fromServer)[i] = fromServer[i + 1]
    BY <1>1, NumberTail
  <1>3. /\ \A i : i \in Positions(Tail(fromServer), Replies(q)) <=>
             i \in Nat \ {0} /\ i + 1 \in Positions(fromServer, Replies(q))
        /\ Number(fromServer, Replies(q))
             = Number(Tail(fromServer), Replies(q)) + (IF m \in Replies(q) THEN 1 ELSE 0)
    BY <1>1, NumberTail
  <1>4. /\ DOMAIN fromServer = 1 .. Len(fromServer)
        /\ DOMAIN fromServer' = 1 .. Len(fromServer')
    BY <1>1, <1>2, LenProperties
  <1>5. /\ Number(fromServer, Replies(q)) \in Nat
        /\ Number(fromServer, Replies(q)) = 0 <=> Replied(q) = {}
    BY <1>1, FinitelyMany DEF Replied
  <1>6. Number(fromServer', Replies(q)) \in Nat
    BY <1>2, FinitelyMany
  <1>7. /\ \A i \in Said(q) : i \in Nat \ {0}
        /\ \A i \in Replied(q) : i \in Nat \ {0}
        /\ 1 \in Said(q) <=> Says(m, q)
        /\ 1 \in Replied(q) <=> m \in Replies(q)
    BY <1>2, <1>4 DEF Said, Replied, Positions, Says
  <1>8. \A i : i \in Said(q)' <=> i \in Nat \ {0} /\ i + 1 \in Said(q)
    BY <1>2, <1>4 DEF Said
  <1>9. \A i \in Said(q)' : fromServer'[i] = fromServer[i + 1]
    BY <1>2, <1>4 DEF Said
  <1>10. \A i : i \in Replied(q)' <=> i \in Nat \ {0} /\ i + 1 \in Replied(q)
    BY <1>3 DEF Replied
  <1>11. Number(fromServer, Replies(q))
           = Number(fromServer', Replies(q)) + (IF m \in Replies(q) THEN 1 ELSE 0)
    BY <1>3
  <1>12. /\ Len(fromServer) \in Nat /\ Len(fromServer) = Len(fromServer') + 1
         /\ Len(fromServer') \in Nat
    BY <1>2
  <1> QED BY <1>2, <1>5, <1>6, <1>7, <1>8, <1>9, <1>10, <1>11, <1>12

LEMMA HeardRecent ==
  ASSUME Typed, NEW q, fromServer # <<>>, fromServer' = Tail(fromServer),
         NEW i \in Nat \ {0}
  PROVE  Recent(q, i)' <=> Recent(q, i + 1)
  <1>1. /\ \A j \in Replied(q) : j \in Nat \ {0}
        /\ \A j : j \in Replied(q)' <=> j \in Nat \ {0} /\ j + 1 \in Replied(q)
    BY HeardPlaces
  <1>2. ASSUME Recent(q, i)', NEW j \in Replied(q) PROVE j <= i + 1
    <2>1. CASE j # 1
      <3>1. j - 1 \in Nat \ {0} /\ (j - 1) + 1 = j
        BY <1>1, <2>1
      <3>2. j - 1 \in Replied(q)'
        BY <1>1, <3>1
      <3>3. j - 1 <= i
        BY <1>2, <3>2 DEF Recent
      <3> QED BY <3>1, <3>3
    <2> QED BY <2>1
  <1>3. ASSUME Recent(q, i + 1), NEW j \in Replied(q)' PROVE j <= i
    <2>1. j \in Nat \ {0} /\ j + 1 <= i + 1
      BY <1>1, <1>3 DEF Recent
    <2> QED BY <2>1
  <1>4. Recent(q, i)' <=> \A j \in Replied(q)' : j <= i
    BY DEF Recent
  <1> QED BY <1>2, <1>3, <1>4 DEF Recent

(* What every message leaves as it was. *)
LEMMA HeardKeeps ==
  ASSUME Typed, NEW q \in Query, WireOf(q), fromServer # <<>>, fromServer' = Tail(fromServer),
         UNCHANGED <<toServer, serving, complete, state, lastWatch>>,
         q \in targets' => q \in targets
  PROVE  Newest(q)' /\ SaidOfServed(q)'
  <1>1. Newest(q)'
    BY DEF WireOf, Newest, Asking
  <1>2. ASSUME NEW i \in Said(q)', Recent(q, i)' PROVE fromServer'[i].turn = serving'[q]
    <2>1. i \in Nat \ {0} /\ i + 1 \in Said(q) /\ fromServer'[i] = fromServer[i + 1]
      BY HeardPlaces
    <2>2. Recent(q, i + 1)
      BY <1>2, <2>1, HeardRecent
    <2> QED BY <2>1, <2>2 DEF WireOf, SaidOfServed
  <1> QED BY <1>1, <1>2 DEF SaidOfServed

(* What is said stays in order, if what was confirmed still is. *)
LEMMA HeardInOrder ==
  ASSUME Typed, NEW q \in Query, WireOf(q), fromServer # <<>>, fromServer' = Tail(fromServer),
         complete' = complete, Settling(q)' => Settling(q),
         \A i \in Nat \ {0} : Settling(q)' /\ Confirmed(q, i + 1) => Confirmed(q, i)'
  PROVE  SaidInOrder(q)'
  <1>1. /\ \A i : i \in Said(q)' <=> i \in Nat \ {0} /\ i + 1 \in Said(q)
        /\ \A i \in Said(q)' : fromServer'[i] = fromServer[i + 1]
        /\ Len(fromServer) = Len(fromServer') + 1 /\ Len(fromServer') \in Nat
    BY HeardPlaces
  <1>2. ASSUME NEW i \in Said(q)', fromServer'[i].kind = "document",
               Recent(q, i)', Settling(q)'
        PROVE  Confirmed(q, i)'
    <2>1. i \in Nat \ {0} /\ i + 1 \in Said(q) /\ fromServer'[i] = fromServer[i + 1]
      BY <1>1
    <2>2. Recent(q, i + 1)
      BY <1>2, <2>1, HeardRecent
    <2>3. Confirmed(q, i + 1)
      BY <1>2, <2>1, <2>2 DEF WireOf, SaidInOrder
    <2> QED BY <1>2, <2>1, <2>3
  <1>3. ASSUME q \in complete', Settling(q)' PROVE Confirmed(q, Len(fromServer) + 1)'
    <2> PICK n : n = Len(fromServer')
      OBVIOUS
    <2>1. Confirmed(q, Len(fromServer) + 1)
      BY <1>3 DEF WireOf, SaidInOrder
    <2>2. n + 1 \in Nat \ {0} /\ (n + 1) + 1 = Len(fromServer) + 1
      BY <1>1
    <2>3. Confirmed(q, n + 1)'
      BY <1>3, <2>1, <2>2
    <2> QED BY <2>3
  <1> QED BY <1>2, <1>3 DEF SaidInOrder

(* A response to a request for q. *)
LEMMA ReplyHeard ==
  ASSUME Typed, NEW q \in Query, WireOf(q), fromServer # <<>>, fromServer' = Tail(fromServer),
         UNCHANGED <<toServer, serving, complete, state, lastWatch>>,
         q \in targets' => q \in targets,
         Head(fromServer) \in Replies(q),
         target'[q].outstanding = target[q].outstanding - 1,
         target'[q].pending => target'[q].outstanding # 0
  PROVE  WireOf(q)'
  <1> PICK m : m = Head(fromServer)
    OBVIOUS
  <1>1. /\ \A i \in Said(q) : i \in Nat \ {0}
        /\ \A i \in Replied(q) : i \in Nat \ {0}
        /\ \A i : i \in Said(q)' <=> i \in Nat \ {0} /\ i + 1 \in Said(q)
        /\ \A i \in Said(q)' : fromServer'[i] = fromServer[i + 1]
        /\ 1 \in Said(q) <=> Says(m, q)
        /\ 1 \in Replied(q)
    BY HeardPlaces
  <1>2. /\ Number(fromServer, Replies(q)) = Number(fromServer', Replies(q)) + 1
        /\ Number(fromServer', Replies(q)) \in Nat
    BY HeardPlaces
  <1>3. 1 \notin Said(q)
    BY <1>1 DEF Says, Replies
  <1>4. target[q].outstanding \in Nat /\ Number(toServer, Requests(q)) \in Nat
    BY FinitelyMany DEF Typed, TypeOK
  <1>5. Counted(q)'
    BY <1>2, <1>4 DEF WireOf, Counted
  <1>6. Settling(q)' => Settling(q)
    BY <1>2, <1>4 DEF Settling
  <1>7. ASSUME NEW i \in Nat \ {0}, Confirmed(q, i + 1) PROVE Confirmed(q, i)'
    <2>1. PICK j \in Said(q) : j < i + 1 /\ fromServer[j].kind = "current" /\ Recent(q, j)
      BY <1>1, <1>7 DEF Confirmed
    <2>2. j - 1 \in Nat \ {0} /\ (j - 1) + 1 = j
      BY <1>1, <1>3
    <2> PICK k : k = j - 1
      OBVIOUS
    <2>3. k \in Said(q)' /\ fromServer'[k] = fromServer[j]
      BY <1>1, <2>2
    <2>4. Recent(q, k)'
      BY <2>1, <2>2, HeardRecent
    <2>5. k < i
      BY <2>1, <2>2
    <2> QED BY <2>1, <2>3, <2>4, <2>5 DEF Confirmed
  <1>8. SaidInOrder(q)'
    BY <1>6, <1>7, HeardInOrder
  <1>9. CurrentIsLast(q)'
    BY DEF CurrentIsLast
  <1> QED BY <1>5, <1>8, <1>9, HeardKeeps DEF WireOf

(* What the server says of an active target. *)
LEMMA SayingHeard ==
  ASSUME Typed, NEW q \in Query, WireOf(q), fromServer # <<>>, fromServer' = Tail(fromServer),
         UNCHANGED <<toServer, serving, complete, state, lastWatch>>,
         q \in targets' => q \in targets,
         Says(Head(fromServer), q), IsActiveTarget(q), state = "Open",
         target'[q].outstanding = target[q].outstanding,
         target'[q].current = IF Head(fromServer).kind = "current"
                              THEN Head(fromServer).turn ELSE target[q].current
  PROVE  WireOf(q)'
  <1> PICK m : m = Head(fromServer)
    OBVIOUS
  <1>1. /\ \A i \in Said(q) : i \in Nat \ {0}
        /\ \A i : i \in Replied(q)' <=> i \in Nat \ {0} /\ i + 1 \in Replied(q)
        /\ 1 \in Said(q) /\ fromServer[1] = m
    BY HeardPlaces
  <1>2. /\ Number(fromServer, Replies(q))
             = Number(fromServer', Replies(q)) + (IF m \in Replies(q) THEN 1 ELSE 0)
        /\ Number(fromServer, Replies(q)) \in Nat
        /\ Number(fromServer, Replies(q)) = 0 <=> Replied(q) = {}
    BY HeardPlaces
  <1>3. m \notin Replies(q)
    BY DEF Says, Replies
  <1>4. /\ Number(toServer, Requests(q)) \in Nat
        /\ Number(toServer, Requests(q)) = 0 <=> Asking(q) = {}
    BY FinitelyMany DEF Typed, Asking
  <1>5. target[q].outstanding = 0 /\ q \in targets
    BY DEF IsActiveTarget
  <1>6. Number(toServer, Requests(q)) = 0 /\ Number(fromServer, Replies(q)) = 0
    BY <1>2, <1>4, <1>5 DEF WireOf, Counted
  <1>7. Asking(q) = {} /\ Replied(q) = {}
    BY <1>2, <1>4, <1>6
  <1>8. serving[q] = lastWatch[q]
    BY <1>5, <1>7 DEF WireOf, Newest
  <1>9. target'[q].current = serving[q]
    <2>1. Recent(q, 1) /\ Settling(q)
      BY <1>5, <1>6, <1>7 DEF Recent, Settling
    <2>2. CASE m.kind = "current"
      BY <1>1, <2>1, <2>2 DEF WireOf, SaidOfServed
    <2>3. CASE m.kind = "document"
      <3>1. Confirmed(q, 1)
        BY <1>1, <2>1, <2>3 DEF WireOf, SaidInOrder
      <3>2. \A j \in Said(q) : ~(j < 1)
        BY <1>1
      <3> QED BY <2>3, <3>1, <3>2 DEF Confirmed
    <2> QED BY <2>2, <2>3 DEF Says
  <1>10. Replied(q)' = {}
    BY <1>1, <1>7
  <1>11. Counted(q)'
    <2>1. Number(fromServer', Replies(q)) = Number(fromServer, Replies(q))
      <3>1. Number(fromServer', Replies(q)) \in Nat
        BY HeardPlaces
      <3> QED BY <1>2, <1>3, <3>1
    <2> QED BY <2>1 DEF WireOf, Counted
  <1>12. SaidInOrder(q)'
    BY <1>9, <1>10 DEF SaidInOrder, Confirmed
  <1>13. CurrentIsLast(q)'
    BY <1>8, <1>9 DEF CurrentIsLast
  <1> QED BY <1>11, <1>12, <1>13, HeardKeeps DEF WireOf

(* Any other message. *)
LEMMA OtherHeard ==
  ASSUME Typed, NEW q \in Query, WireOf(q), fromServer # <<>>, fromServer' = Tail(fromServer),
         UNCHANGED <<toServer, serving, complete, state, lastWatch>>,
         q \in targets' => q \in targets,
         Head(fromServer) \notin Replies(q),
         Says(Head(fromServer), q) => ~IsActiveTarget(q),
         target'[q].outstanding = target[q].outstanding,
         target'[q].current = target[q].current,
         target'[q].pending => target[q].pending
  PROVE  WireOf(q)'
  <1> PICK m : m = Head(fromServer)
    OBVIOUS
  <1>1. /\ \A i \in Said(q) : i \in Nat \ {0}
        /\ \A i \in Replied(q) : i \in Nat \ {0}
        /\ \A i : i \in Replied(q)' <=> i \in Nat \ {0} /\ i + 1 \in Replied(q)
        /\ \A i : i \in Said(q)' <=> i \in Nat \ {0} /\ i + 1 \in Said(q)
        /\ \A i \in Said(q)' : fromServer'[i] = fromServer[i + 1]
        /\ 1 \in Said(q) <=> Says(m, q)
        /\ 1 \notin Replied(q)
    BY HeardPlaces
  <1>2. /\ Number(fromServer, Replies(q)) = Number(fromServer', Replies(q))
        /\ Number(fromServer, Replies(q)) \in Nat
        /\ Number(fromServer, Replies(q)) = 0 <=> Replied(q) = {}
    <2>1. /\ Number(fromServer, Replies(q))
               = Number(fromServer', Replies(q)) + (IF m \in Replies(q) THEN 1 ELSE 0)
          /\ Number(fromServer', Replies(q)) \in Nat
          /\ Number(fromServer, Replies(q)) \in Nat
          /\ Number(fromServer, Replies(q)) = 0 <=> Replied(q) = {}
      BY HeardPlaces
    <2>2. m \notin Replies(q)
      OBVIOUS
    <2>3. Number(fromServer, Replies(q)) = Number(fromServer', Replies(q))
      BY <2>1, <2>2
    <2> QED BY <2>1, <2>3
  <1>3. Counted(q)'
    BY <1>2 DEF WireOf, Counted
  <1>4. Settling(q)' => Settling(q)
    BY <1>2 DEF Settling
  <1>5. ASSUME NEW i \in Nat \ {0}, Settling(q)', Confirmed(q, i + 1) PROVE Confirmed(q, i)'
    <2>1. CASE Replied(q) = {} /\ target[q].current = serving[q]
      <3>1. Replied(q)' = {}
        BY <1>1, <2>1
      <3> QED BY <2>1, <3>1 DEF Confirmed
    <2>2. ASSUME NEW j \in Said(q), j < i + 1, fromServer[j].kind = "current", Recent(q, j)
          PROVE  Confirmed(q, i)'
      <3>1. j # 1
        <4> SUFFICES ASSUME j = 1 PROVE FALSE
          OBVIOUS
        <4>1. Replied(q) = {}
          <5> SUFFICES ASSUME NEW k \in Replied(q) PROVE FALSE
            OBVIOUS
          <5>1. k <= 1 /\ k \in Nat \ {0} /\ k # 1
            BY <1>1, <2>2 DEF Recent
          <5> QED BY <5>1
        <4>2. target[q].outstanding \in Nat
          BY DEF Typed, TypeOK
        <4>3. q \in targets /\ target[q].outstanding <= 0
          BY <1>2, <1>4, <1>5, <4>1 DEF Settling
        <4>4. target[q].outstanding = 0
          BY <4>2, <4>3
        <4> QED BY <1>1, <4>3, <4>4 DEF IsActiveTarget
      <3>2. j - 1 \in Nat \ {0} /\ (j - 1) + 1 = j
        BY <1>1, <3>1
      <3> PICK k : k = j - 1
        OBVIOUS
      <3>3. k \in Said(q)' /\ fromServer'[k] = fromServer[j]
        BY <1>1, <3>2
      <3>4. Recent(q, k)'
        BY <2>2, <3>2, HeardRecent
      <3>5. k < i
        BY <2>2, <3>2
      <3> QED BY <2>2, <3>3, <3>4, <3>5 DEF Confirmed
    <2> QED BY <1>5, <2>1, <2>2 DEF Confirmed
  <1>6. SaidInOrder(q)'
    BY <1>4, <1>5, HeardInOrder
  <1>7. CurrentIsLast(q)'
    BY DEF WireOf, CurrentIsLast
  <1> QED BY <1>3, <1>6, <1>7, HeardKeeps DEF WireOf

LEMMA HeardOnWire ==
  ASSUME Typed, OnlineInv, WireInv, OnWatchStreamChange
  PROVE  WireInv'
  <1> PICK m : m = Head(fromServer)
    OBVIOUS
  <1>1. /\ fromServer # <<>> /\ fromServer' = Tail(fromServer)
        /\ TargetChange(m) \/ TargetError(m) \/ RaiseWatchSnapshot(m)
        /\ UNCHANGED <<toServer, serving, complete, state, lastWatch>>
    BY DEF OnWatchStreamChange, watchVars
  <1>2. state = "Open"
    BY <1>1 DEF OnlineInv, Quiet
  <1>3. m \in Response /\ (m.kind # "snapshot" => m.query \in Query)
    BY <1>1, HeardPlaces DEF Response, AboutTarget, OfSnapshot
  <1>4. /\ target \in [Query -> Target]
        /\ \A q \in Query : target[q] \in Target
    BY DEF Typed, TypeOK, Target
  <1>5. \A q \in targets' : q \in targets
    BY <1>1 DEF TargetChange, TargetError, RaiseWatchSnapshot
  <1>6. m.kind = "refused" => m.query \in Refused
    <2>1. fromServer[1] = m /\ 1 \in DOMAIN fromServer
      BY <1>1, NumberTail, LenProperties DEF Typed
    <2> QED BY <2>1 DEF WireInv
  <1>7. ASSUME RaiseWatchSnapshot(m), NEW q \in Query
        PROVE  /\ target'[q].outstanding = target[q].outstanding
               /\ target'[q].current = target[q].current
               /\ target'[q].pending => target[q].pending
    <2>1. target'[q] = [target[q] EXCEPT !.pending = target[q].pending /\ q \notin Changed]
      BY <1>7 DEF RaiseWatchSnapshot
    <2>2. target'[q].pending <=> target[q].pending /\ q \notin Changed
      BY <1>4, <2>1, Zenon DEF Target
    <2>3. /\ target'[q].outstanding = target[q].outstanding
          /\ target'[q].current = target[q].current
      BY <1>4, <2>1 DEF Target
    <2> QED BY <2>2, <2>3
  <1>8. ASSUME NEW q \in Query \ Refused PROVE WireOf(q)'
    <2>1. WireOf(q)
      BY DEF WireInv
    <2> PICK t \in Target : t = target[q]
      BY <1>4
    <2>2. CASE m \in Replies(q)
      <3>1. TargetChange(m) /\ m.kind \in {"added", "removed"} /\ m.query = q
        BY <1>1, <2>2 DEF Replies, TargetError, RaiseWatchSnapshot
      <3>2. target'[q] = TargetAfter(m)
        BY <1>4, <3>1 DEF TargetChange
      <3>3. TargetAfter(m) =
              IF Responded(t).outstanding = 0
              THEN IF m.kind = "added" THEN [Responded(t) EXCEPT !.pending = FALSE] ELSE NoTarget
              ELSE Responded(t)
        BY <3>1 DEF TargetAfter
      <3>4. /\ Responded(t) = [outstanding |-> t.outstanding - 1, pending |-> t.pending,
                               current |-> t.current]
            /\ Responded(t).outstanding = t.outstanding - 1
        BY DEF Responded, Target
      <3>5. target'[q].outstanding = target[q].outstanding - 1
        BY <3>2, <3>3, <3>4 DEF NoTarget
      <3>6. CASE Responded(t).outstanding = 0
        <4>1. target'[q] = [Responded(t) EXCEPT !.pending = FALSE] \/ target'[q] = NoTarget
          BY <3>2, <3>3, <3>6
        <4>2. target'[q].pending = FALSE
          BY <3>4, <4>1 DEF NoTarget
        <4> QED BY <1>1, <1>5, <2>1, <2>2, <3>5, <4>2, ReplyHeard
      <3>7. CASE Responded(t).outstanding # 0
        <4>1. target'[q].outstanding # 0
          BY <3>2, <3>3, <3>7
        <4> QED BY <1>1, <1>5, <2>1, <2>2, <3>5, <4>1, ReplyHeard
      <3> QED BY <3>6, <3>7
    <2>3. CASE Says(m, q) /\ IsActiveTarget(q)
      <3>1. TargetChange(m) /\ m.kind \in {"current", "document"} /\ m.query = q
        BY <1>1, <2>3 DEF Says, TargetError, RaiseWatchSnapshot
      <3>2. target'[q] = TargetAfter(m)
        BY <1>4, <3>1 DEF TargetChange
      <3>3. TargetAfter(m) = IF m.kind = "current"
                             THEN [t EXCEPT !.pending = TRUE, !.current = m.turn]
                             ELSE [t EXCEPT !.pending = TRUE]
        BY <2>3, <3>1 DEF TargetAfter
      <3>4. /\ target'[q].outstanding = target[q].outstanding
            /\ target'[q].current = IF m.kind = "current" THEN m.turn ELSE target[q].current
        BY <3>2, <3>3 DEF Target
      <3> QED BY <1>1, <1>2, <1>5, <2>1, <2>3, <3>4, SayingHeard
    <2>4. CASE m \notin Replies(q) /\ (Says(m, q) => ~IsActiveTarget(q))
      <3>1. \/ target'[q] = target[q]
            \/ RaiseWatchSnapshot(m)
        <4>1. CASE TargetChange(m) /\ m.query = q
          <5>1. m.kind \in {"current", "document"} /\ ~IsActiveTarget(m.query)
            BY <1>3, <2>4, <4>1 DEF TargetChange, Replies, Says
          <5>2. TargetAfter(m) = t
            BY <4>1, <5>1 DEF TargetAfter
          <5> QED BY <1>4, <4>1, <5>2 DEF TargetChange
        <4>2. CASE TargetChange(m) /\ m.query # q
          BY <1>4, <4>2 DEF TargetChange
        <4>3. CASE TargetError(m)
          BY <1>4, <1>6, <1>8, <4>3 DEF TargetError
        <4> QED BY <1>1, <4>1, <4>2, <4>3
      <3>2. /\ target'[q].outstanding = target[q].outstanding
            /\ target'[q].current = target[q].current
            /\ target'[q].pending => target[q].pending
        BY <1>7, <3>1
      <3> QED BY <1>1, <1>5, <2>1, <2>4, <3>2, OtherHeard
    <2> QED BY <2>2, <2>3, <2>4
  <1>9. ASSUME NEW q \in Refused PROVE RefusedOf(q)'
    <2>1. RefusedOf(q) /\ q \in Query
      BY FirestoreReadsAssumption DEF WireInv
    <2>2. /\ \A i : i \in Replied(q)' <=> i \in Nat \ {0} /\ i + 1 \in Replied(q)
          /\ \A i : i \in Said(q)' <=> i \in Nat \ {0} /\ i + 1 \in Said(q)
          /\ 1 \in Said(q) <=> Says(m, q)
          /\ 1 \in Replied(q) <=> m \in Replies(q)
      BY <1>1, HeardPlaces
    <2>3. ~Says(m, q) /\ m \notin Replies(q) /\ Said(q)' = {} /\ Replied(q)' = {}
      BY <2>1, <2>2 DEF RefusedOf
    <2>4. ~target'[q].pending
      <3>1. CASE TargetChange(m)
        <4>1. m.query # q
          BY <1>3, <2>3, <3>1 DEF TargetChange, Says, Replies
        <4>2. target'[q] = target[q]
          BY <1>4, <2>1, <3>1, <4>1 DEF TargetChange
        <4> QED BY <2>1, <4>2 DEF RefusedOf
      <3>2. CASE TargetError(m)
        <4>1. target'[q] = target[q] \/ target'[q] = NoTarget
          BY <1>4, <2>1, <3>2 DEF TargetError
        <4> QED BY <2>1, <4>1 DEF RefusedOf, NoTarget
      <3>3. CASE RaiseWatchSnapshot(m)
        BY <1>7, <2>1, <3>3 DEF RefusedOf
      <3> QED BY <1>1, <3>1, <3>2, <3>3
    <2> QED BY <1>1, <2>1, <2>3, <2>4 DEF RefusedOf
  <1>10. ASSUME NEW i \in DOMAIN fromServer', fromServer'[i].kind = "refused"
         PROVE  fromServer'[i].query \in Refused
    <2>1. fromServer'[i] = fromServer[i + 1] /\ i + 1 \in DOMAIN fromServer
      <3>1. fromServer \in Seq(Response)
        BY DEF Typed
      <3>2. /\ Tail(fromServer) \in Seq(Response) /\ Len(fromServer) \in Nat \ {0}
            /\ Len(Tail(fromServer)) = Len(fromServer) - 1
            /\ \A j \in 1 .. Len(Tail(fromServer)) : Tail(fromServer)[j] = fromServer[j + 1]
        BY <1>1, <3>1, NumberTail
      <3>3. i \in 1 .. Len(Tail(fromServer)) /\ DOMAIN fromServer = 1 .. Len(fromServer)
        BY <1>1, <3>1, <3>2, LenProperties
      <3> QED BY <1>1, <3>2, <3>3
    <2> QED BY <1>10, <2>1 DEF WireInv
  <1> QED BY <1>8, <1>9, <1>10 DEF WireInv

LEMMA WireKept ==
  ASSUME Typed, RecordsAgree, OnlineInv, WireInv, [Next]_vars
  PROVE  WireInv'
  <1>1. CASE \/ \E g \in Get : GetDocuments(g)
             \/ OnEvent
             \/ \E q \in Query : LocalChange(q)
             \/ BackoffElapsed
             \/ OnlineStateTimeout
             \/ UNCHANGED vars
    <2>1. /\ UNCHANGED <<wireVars, target, targets, watchVars>>
          /\ state' = "Open" => state = "Open"
      BY <1>1 DEF GetDocuments, OnEvent, LocalChange, BackoffElapsed, OnlineStateTimeout, vars
    <2>2. /\ UNCHANGED <<toServer, fromServer, serving, complete, target, lastWatch>>
          /\ \A q \in targets' : q \in targets
      BY <2>1 DEF wireVars, watchVars
    <2> QED BY <2>1, <2>2, SameWire
  <1>2. CASE OnWatchStreamOpen
    <2>1. /\ SendWatchRequests(targets) /\ targets' = targets
          /\ UNCHANGED <<fromServer, serving, complete>>
      BY <1>2 DEF OnWatchStreamOpen
    <2>2. targets \in SUBSET Query
      BY DEF Typed, TypeOK
    <2> QED BY <2>1, <2>2, RequestsHarmless
  <1>3. CASE OnWatchStreamClose \/ IdleTimeout \/ HandleCredentialChange
    <2>1. NewConnection
      BY <1>3 DEF OnWatchStreamClose, IdleTimeout, HandleCredentialChange
    <2>2. state' # "Open"
      BY <1>3 DEF OnWatchStreamClose, IdleTimeout, HandleCredentialChange, Started, IsStarted
    <2> QED BY <2>1, <2>2, EndIsEmpty
  <1> QED BY <1>1, <1>2, <1>3, AddOnWire, RemoveOnWire, HearsOnWire, SaysOnWire,
             HeardOnWire DEF Next

(* A response on its way was asked for, so none is counted below zero. *)
LEMMA RepliesOwed ==
  ASSUME Typed, WireInv
  PROVE  Owed
  <1> SUFFICES ASSUME fromServer # <<>>, Head(fromServer).kind \in {"added", "removed"}
               PROVE  target[Head(fromServer).query].outstanding # 0
    BY DEF Owed
  <1>1. fromServer \in Seq(Response)
    BY DEF Typed
  <1> PICK m \in Response : m = Head(fromServer)
    BY <1>1, NumberTail
  <1> PICK q \in Query : q = m.query
    BY DEF Response, AboutTarget, OfSnapshot
  <1>2. m = fromServer[1] /\ 1 \in DOMAIN fromServer
    BY <1>1, NumberTail, LenProperties
  <1>3. 1 \in Replied(q)
    BY <1>2 DEF Replied, Positions, Replies
  <1>4. q \notin Refused
    BY <1>3 DEF WireInv, RefusedOf
  <1>5. Number(fromServer, Replies(q)) \in Nat \ {0}
    BY <1>1, <1>3, FinitelyMany DEF Replied
  <1>6. Number(toServer, Requests(q)) \in Nat
    BY FinitelyMany DEF Typed
  <1>7. Counted(q)
    BY <1>4 DEF WireInv, WireOf
  <1>8. target[q].outstanding \in Nat
    BY DEF Typed, TypeOK
  <1> QED BY <1>5, <1>6, <1>7, <1>8 DEF Counted

-----------------------------------------------------------------------------
(* The inductive invariant, and what follows from it.                      *)

ReadsInv == Typed /\ RecordsAgree /\ OnlineInv /\ AnswersInv /\ WireInv

LEMMA InitReads == Init => ReadsInv
  <1>1. Init => RecordsAgree /\ OnlineInv
    BY DEF Init, RecordsAgree, OnlineInv, OfflineIsSilent, Quiet
  <1> QED BY <1>1, InitTyped, InitAnswers, InitWire DEF ReadsInv

LEMMA NextReads ==
  ASSUME ReadsInv, [Next]_vars
  PROVE  ReadsInv'
  <1>1. Typed'
    BY RepliesOwed, TypesKept DEF ReadsInv
  <1>2. RecordsAgree' /\ OnlineInv'
    BY RecordsKept, OnlineKept DEF ReadsInv
  <1>3. AnswersInv'
    BY AnswersKept DEF ReadsInv
  <1>4. WireInv'
    BY WireKept DEF ReadsInv
  <1> QED BY <1>1, <1>2, <1>3, <1>4 DEF ReadsInv

LEMMA ReadsInvHolds == Spec => []ReadsInv
  <1>1. Init => ReadsInv
    BY InitReads
  <1>2. ReadsInv /\ [Next]_vars => ReadsInv'
    BY NextReads
  <1> QED BY <1>1, <1>2, PTL DEF Spec

(***************************************************************************)
(* Every variable keeps its type; the aggregator's count of outstanding    *)
(* requests, which every response lowers, is never negative.               *)
(***************************************************************************)
THEOREM ReadsTypeCorrect == Spec => []TypeOK
  <1>1. ReadsInv => TypeOK
    BY DEF ReadsInv, Typed
  <1> QED BY <1>1, ReadsInvHolds, PTL

(***************************************************************************)
(* Whatever gets overlap and whatever becomes of the stream: EventManager, *)
(* SyncEngine and RemoteStore agree on the queries that are listened to,   *)
(* the assertions of Listen and StopListening hold, and the stream runs    *)
(* whenever it has a target.                                               *)
(***************************************************************************)
THEOREM RecordsAlwaysAgree == Spec => []RecordsAgree
  <1>1. ReadsInv => RecordsAgree
    BY DEF ReadsInv
  <1> QED BY <1>1, ReadsInvHolds, PTL

(***************************************************************************)
(* The timer of the OnlineStateTracker runs only while nothing is known,   *)
(* and a phone that has heard from the server on its stream is not         *)
(* offline.                                                                *)
(***************************************************************************)
THEOREM OfflineAlwaysSilent == Spec => []OfflineIsSilent
  <1>1. ReadsInv => OfflineIsSilent
    BY DEF ReadsInv, OnlineInv
  <1> QED BY <1>1, ReadsInvHolds, PTL

(***************************************************************************)
(* No completion handler of getDocuments is called twice, for any number   *)
(* of gets, queries, failures and changes.                                 *)
(***************************************************************************)
THEOREM AlwaysAnsweredOnce == Spec => []AnsweredOnce
  <1>1. ReadsInv => AnsweredOnce
    BY DEF ReadsInv, AnswersInv, AnswersOf, AnsweredOnce
  <1> QED BY <1>1, ReadsInvHolds, PTL

(***************************************************************************)
(* A target that becomes current does so on the word of the server about   *)
(* its last watch request: the count of outstanding requests keeps out     *)
(* what is still on the wire for an earlier get of the same query.         *)
(***************************************************************************)
THEOREM AlwaysCurrentOfLastWatch == Spec => []CurrentIsOfLastWatch
  <1>1. ReadsInv => CurrentIsOfLastWatch
    <2> SUFFICES ASSUME ReadsInv, NEW q \in Changed
                 PROVE  target[q].current \in {0, lastWatch[q]}
      BY DEF CurrentIsOfLastWatch
    <2>1. q \in Query /\ q \in targets /\ target[q].outstanding = 0 /\ target[q].pending
      BY DEF Changed, IsActiveTarget
    <2>2. q \notin Refused
      BY <2>1 DEF ReadsInv, WireInv, RefusedOf
    <2>3. CurrentIsLast(q)
      BY <2>1, <2>2 DEF ReadsInv, WireInv, WireOf
    <2> QED BY <2>1, <2>3 DEF CurrentIsLast
  <1> QED BY <1>1, ReadsInvHolds, PTL
=============================================================================
