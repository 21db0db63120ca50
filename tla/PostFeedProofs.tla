--------------------------- MODULE PostFeedProofs ---------------------------
(***************************************************************************)
(* Proofs about PostFeed, for every set of posts, every bound and every    *)
(* assignment of commits to seconds: its types; that the stored last       *)
(* update date keeps its promise; what the list that is shown may lack     *)
(* and may show too much; and that the clean-up spares living posts.       *)
(***************************************************************************)
EXTENDS PostFeed, FiniteSetTheorems, SequenceTheorems, TLAPS

USE DEF NoRow, Statuses, Phases

-----------------------------------------------------------------------------
(* Type correctness.                                                       *)

(* The dates the app can meet: none, or the second of a commit. *)
LEMMA ZeroIsADate == 0 \in Dates /\ 0 \in Commits
BY FirestoreAssumption DEF Dates, Commits

LEMMA SecondIsADate ==
  ASSUME NEW docs \in [PostId -> Commits], NEW p \in PostId
  PROVE  Second[docs[p]] \in Dates
BY FirestoreAssumption DEF Dates, Commits

(* Starting a refresh keeps the types of what it changes. *)
LEMMA reloadDataType ==
  ASSUME TypeOK, reloadData
  PROVE  /\ postReads' \in Seq(Dates)
         /\ favReading' \in BOOLEAN
         /\ postSet' \subseteq PostId
         /\ favoritePostSet' \subseteq PostId
         /\ answers' \in Nat
         /\ refreshing' \in BOOLEAN
BY ZeroIsADate DEF TypeOK, reloadData, CaptureDateAndRead, getAllPosts,
       getLastUpdateDate

(* The end of the process resets what is in memory. *)
LEMMA DieType ==
  ASSUME TypeOK, NEW cause \in Statuses, Die(cause)
  PROVE  TypeOK'
<1>1. FirestoreTypeOK'
  BY DEF TypeOK, Die, FirestoreTypeOK, firestoreVars, serverVars
<1>2. /\ snap' \in [PostId -> Commits]
      /\ data' \in [PostId -> Commits]
      /\ lud' \in Dates
  BY ZeroIsADate DEF Die, NoDocuments, NoRows
<1>3. /\ rows' \in [PostId -> Commits]
      /\ lastUpdateDate' \in Dates
      /\ stale' \in BOOLEAN
  BY DEF TypeOK, Die, sqlVars
<1>4. postReads' \in Seq(Dates) /\ status' \in Statuses
  BY DEF Die
<1>5. QED BY <1>1, <1>2, <1>3, <1>4 DEF TypeOK, Die

(* The server's part of a commit keeps its types. *)
LEMMA CommitType ==
  ASSUME FirestoreTypeOK, NEW p \in PostId, Commit(p)
  PROVE  /\ clock' \in Commits
         /\ clock + 1 \in Commits
         /\ cloud' \in [PostId -> Commits]
         /\ favs' \subseteq PostId
         /\ published' \subseteq PostId
         /\ refused' \subseteq PostId
<1>1. clock' \in Commits /\ clock + 1 \in Commits
  BY FirestoreAssumption DEF FirestoreTypeOK, Commit, Commits
<1>2. QED BY <1>1 DEF FirestoreTypeOK, Commit

LEMMA HeadType ==
  ASSUME queue \in Seq(Mutation), queue # <<>>
  PROVE  /\ Head(queue).id \in PostId
         /\ Tail(queue) \in Seq(Mutation)
<1>1. Head(queue) \in Mutation /\ Tail(queue) \in Seq(Mutation)
  BY HeadTailProperties
<1>2. QED BY <1>1 DEF Mutation

LEMMA AcceptType ==
  ASSUME FirestoreTypeOK, queue # <<>>, queue' = Tail(queue), untold' \in Nat,
         LET p == Head(queue).id
         IN  AcceptPut(p) \/ AcceptDelete(p) \/ AcceptStar(p) \/ AcceptUnstar(p)
               \/ Refuse(p)
  PROVE  FirestoreTypeOK'
<1> DEFINE p == Head(queue).id
<1>1. p \in PostId /\ queue' \in Seq(Mutation)
  BY HeadType DEF FirestoreTypeOK
<1>2. CASE AcceptPut(p)
  BY <1>1, <1>2, CommitType DEF AcceptPut, FirestoreTypeOK
<1>3. CASE AcceptDelete(p)
  BY <1>1, <1>3, ZeroIsADate DEF AcceptDelete, Erase, FirestoreTypeOK
<1>4. CASE AcceptStar(p)
  BY <1>1, <1>4 DEF AcceptStar, FirestoreTypeOK
<1>5. CASE AcceptUnstar(p)
  BY <1>1, <1>5 DEF AcceptUnstar, FirestoreTypeOK
<1>6. CASE Refuse(p)
  BY <1>1, <1>6 DEF Refuse, FirestoreTypeOK
<1>7. QED BY <1>2, <1>3, <1>4, <1>5, <1>6

(* The clean-up queues one well-formed mutation for each orphan. *)
LEMMA CleanupType ==
  ASSUME TypeOK, NEW order \in Bijection(1 .. Cardinality(Orphans), Orphans)
  PROVE  [i \in 1 .. Cardinality(Orphans) |->
            [op |-> "unstar", id |-> order[i]]] \in Seq(Mutation)
<1>1. Cardinality(Orphans) \in Nat
  <2>1. IsFiniteSet(Orphans)
    BY FS_Subset, FirestoreAssumption DEF TypeOK, Orphans
  <2>2. QED BY <2>1, FS_CardinalityType
<1>2. order \in [1 .. Cardinality(Orphans) -> PostId]
  BY DEF Bijection, Injection, TypeOK, Orphans
<1>3. \A i \in 1 .. Cardinality(Orphans) :
        [op |-> "unstar", id |-> order[i]] \in Mutation
  BY <1>2 DEF Mutation, Ops
<1>4. QED BY <1>1, <1>3, IsASeq

LEMMA EnqueueType ==
  ASSUME FirestoreTypeOK, NEW mutations \in Seq(Mutation), Enqueue(mutations),
         UNCHANGED <<serverVars, lastSeen>>
  PROVE  FirestoreTypeOK'
<1>1. queue' \in Seq(Mutation)
  BY ConcatProperties DEF FirestoreTypeOK, Enqueue
<1>2. QED BY <1>1 DEF FirestoreTypeOK, Enqueue, serverVars

(* Each write of the user queues one or two well-formed mutations. *)
LEMMA UserMutations ==
  ASSUME NEW p \in PostId, NEW op \in Ops, NEW op2 \in Ops
  PROVE  /\ <<[op |-> op, id |-> p]>> \in Seq(Mutation)
         /\ <<[op |-> op, id |-> p], [op |-> op2, id |-> p]>> \in Seq(Mutation)
BY DEF Mutation

LEMMA UserWritesType ==
  ASSUME TypeOK, NEW mutations \in Seq(Mutation), UserWrites(mutations),
         rows' \in [PostId -> Commits]
  PROVE  TypeOK'
<1>1. FirestoreTypeOK'
  BY EnqueueType DEF UserWrites, TypeOK
<1>2. QED BY <1>1 DEF TypeOK, UserWrites, setVars, handlerVars, screenVars

LEMMA deleteType ==
  ASSUME NEW table \in [PostId -> Commits], NEW p \in PostId,
         NEW table2 \in delete(table, p)
  PROVE  table2 \in [PostId -> Commits]
BY ZeroIsADate DEF delete

LEMMA SweepType ==
  ASSUME NEW table \in [PostId -> Commits], NEW ids,
         NEW table2 \in Swept(table, ids)
  PROVE  /\ table2 \in [PostId -> Commits]
         /\ Listed(table, ids) \in [PostId -> Commits]
BY ZeroIsADate DEF Swept, Listed

(* Acknowledge and AcknowledgeNobody keep the types of the app's state. *)
LEMMA AcknowledgeType ==
  ASSUME TypeOK, Acknowledge \/ AcknowledgeNobody
  PROVE  TypeOK'
<1> DEFINE p == Head(queue).id
<1>1. FirestoreTypeOK'
  <2>1. untold' \in Nat
    BY DEF Acknowledge, AcknowledgeNobody, TypeOK, FirestoreTypeOK
  <2>2. QED BY <2>1, AcceptType DEF Acknowledge, AcknowledgeNobody, TypeOK
<1>2. p \in PostId
  BY HeadType DEF Acknowledge, AcknowledgeNobody, TypeOK, FirestoreTypeOK
<1>3. CASE UNCHANGED <<sqlVars, appVars>>
  BY <1>1, <1>3 DEF TypeOK, sqlVars, appVars, setVars, handlerVars, screenVars
<1>4. CASE UNCHANGED lastUpdateDate /\ NothingShown
  BY <1>1, <1>4
     DEF NothingShown, TypeOK, appVars, setVars, handlerVars, screenVars
<1>5. CASE UNCHANGED lastUpdateDate /\ PostDataEvent
  BY <1>1, <1>5, reloadDataType DEF PostDataEvent, TypeOK, handlerVars
<1>6. CASE UNCHANGED lastUpdateDate /\ PostDeleted(p)
  <2>1. rows' \in [PostId -> Commits]
    BY <1>2, <1>6, deleteType DEF PostDeleted, TypeOK
  <2>2. QED BY <1>1, <1>6, <2>1 DEF PostDeleted, TypeOK, handlerVars, screenVars
<1>7. QED BY <1>3, <1>4, <1>5, <1>6 DEF Acknowledge, AcknowledgeNobody

(* A refresh's answer arrives in well-typed documents. *)
LEMMA PostsArriveType ==
  ASSUME TypeOK, NEW docs \in [PostId -> Commits], postReads # <<>>,
         PostsArrive(docs)
  PROVE  TypeOK'
<1>1. FirestoreTypeOK'
  BY DEF PostsArrive, TypeOK, FirestoreTypeOK, serverVars
<1>2. snap' \in [PostId -> Commits]
  BY ZeroIsADate DEF PostsArrive, PostsView
<1>3. lud' \in Dates /\ postReads' \in Seq(Dates)
  BY HeadTailProperties DEF PostsArrive, TypeOK
<1>4. /\ todo' \subseteq PostId
      /\ postSet' \subseteq PostId
      /\ phase' \in Phases
      /\ answers' \in Nat
      /\ stale' \in BOOLEAN
  BY DEF PostsArrive, TypeOK
<1>5. QED BY <1>1, <1>2, <1>3, <1>4 DEF PostsArrive, TypeOK, sqlVars, screenVars

LEMMA MergePostType ==
  ASSUME TypeOK, NEW p \in PostId, MergePost(p)
  PROVE  TypeOK'
<1>1. FirestoreTypeOK'
  BY DEF MergePost, TypeOK, FirestoreTypeOK, firestoreVars, serverVars
<1>2. rows' \in [PostId -> Commits]
  BY DEF MergePost, TypeOK, addPost
<1>3. lud' \in Dates
  BY SecondIsADate DEF MergePost, TypeOK
<1>4. QED BY <1>1, <1>2, <1>3 DEF MergePost, TypeOK, setVars, screenVars

LEMMA ShowFeedType ==
  ASSUME TypeOK, ShowFeed
  PROVE  TypeOK'
<1>1. FirestoreTypeOK'
  BY CleanupType, EnqueueType DEF ShowFeed, TypeOK
<1>2. rows' \in [PostId -> Commits] /\ data' \in [PostId -> Commits]
  BY SweepType DEF ShowFeed, TypeOK
<1>3. snap' \in [PostId -> Commits] /\ lud' \in Dates
  BY ZeroIsADate DEF ShowFeed, NoDocuments
<1>4. QED BY <1>1, <1>2, <1>3 DEF ShowFeed, TypeOK, setVars, EndRefreshing

LEMMA StoreLastUpdateType ==
  ASSUME TypeOK, StoreLastUpdate
  PROVE  TypeOK'
<1>1. FirestoreTypeOK'
  BY DEF StoreLastUpdate, TypeOK, FirestoreTypeOK, firestoreVars, serverVars
<1>2. QED
  BY <1>1 DEF StoreLastUpdate, TypeOK, setLastUpdate, setVars, screenVars

LEMMA ElsewhereType ==
  ASSUME TypeOK, Elsewhere
  PROVE  TypeOK'
<1>1. FirestoreTypeOK'
  <2>1. PICK p \in PostId : RemotePut(p) \/ RemoteDelete(p)
    BY DEF Elsewhere
  <2>2. CASE RemotePut(p)
    BY <2>2, CommitType DEF RemotePut, TypeOK, FirestoreTypeOK
  <2>3. CASE RemoteDelete(p)
    BY <2>3, ZeroIsADate DEF RemoteDelete, Erase, TypeOK, FirestoreTypeOK
  <2>4. QED BY <2>1, <2>2, <2>3
<1>2. QED
  BY <1>1 DEF Elsewhere, TypeOK, sqlVars, appVars, setVars, handlerVars,
              screenVars

(* Steps that leave Firestore and SQLite alone, but for a refresh begun. *)
LEMMA ReadType ==
  ASSUME TypeOK,
         Launch \/ Pull \/ OpenFavorites \/ AnswerFavourites \/ FailFavourites
  PROVE  TypeOK'
<1>1. FirestoreTypeOK'
  BY DEF Launch, Pull, OpenFavorites, AnswerFavourites, FailFavourites,
         FavouritesArrive, TypeOK, FirestoreTypeOK, firestoreVars, serverVars
<1>2. CASE Launch \/ Pull
  BY <1>1, <1>2, reloadDataType DEF Launch, Pull, TypeOK, sqlVars, handlerVars
<1>3. FavouritesView \subseteq PostId
  BY DEF FavouritesView, UnstampedFavourites, TypeOK, FirestoreTypeOK
<1>4. CASE OpenFavorites \/ AnswerFavourites \/ FailFavourites
  BY <1>1, <1>3, <1>4
     DEF OpenFavorites, AnswerFavourites, FailFavourites, FavouritesArrive,
         TypeOK, sqlVars, setVars, handlerVars, screenVars
<1>5. QED BY <1>2, <1>4

LEMMA AnswerMyPostsType ==
  ASSUME TypeOK, AnswerMyPosts
  PROVE  TypeOK'
<1>1. PICK docs \in [PostId -> Commits] : MyPostsArrive(docs)
  BY DEF AnswerMyPosts, Sources, TypeOK, FirestoreTypeOK
<1>2. FirestoreTypeOK'
  BY <1>1 DEF MyPostsArrive, TypeOK, FirestoreTypeOK, serverVars
<1>3. myPosts' \subseteq PostId
  BY <1>1, FirestoreAssumption DEF MyPostsArrive
<1>4. QED
  BY <1>1, <1>2, <1>3 DEF MyPostsArrive, TypeOK, sqlVars, setVars, handlerVars

(* Every variable keeps its type. *)
THEOREM TypeCorrect == Spec => []TypeOK
<1>1. Init => TypeOK
  <2>1. Init => FirestoreTypeOK
    BY ZeroIsADate DEF Init, FirestoreInit, FirestoreTypeOK, NoDocuments
  <2>2. Init => postReads \in Seq(Dates)
    BY DEF Init
  <2>3. Init => /\ rows \in [PostId -> Commits]
                /\ snap \in [PostId -> Commits]
                /\ data \in [PostId -> Commits]
                /\ lastUpdateDate \in Dates
                /\ lud \in Dates
    BY ZeroIsADate DEF Init, NoDocuments, NoRows
  <2>4. Init => status \in Statuses /\ phase \in Phases
    BY DEF Init
  <2>5. Init => /\ postSet \subseteq PostId
                /\ favoritePostSet \subseteq PostId
                /\ todo \subseteq PostId
                /\ myPosts \subseteq PostId
                /\ answers \in Nat
    BY DEF Init
  <2>6. Init => /\ favReading \in BOOLEAN
                /\ refreshing \in BOOLEAN
                /\ stale \in BOOLEAN
    BY Zenon DEF Init
  <2>7. QED BY <2>1, <2>2, <2>3, <2>4, <2>5, <2>6 DEF TypeOK
<1>2. TypeOK /\ [Next]_vars => TypeOK'
  <2> SUFFICES ASSUME TypeOK, [Next]_vars PROVE TypeOK'
    OBVIOUS
  <2>1. CASE \/ Launch \/ Pull
             \/ OpenFavorites \/ AnswerFavourites \/ FailFavourites
    BY <2>1, ReadType
  <2>2. CASE \/ Kill \/ FailPosts
             \/ AnswerUnstampedPosts \/ AnswerUnstampedFavourites
             \/ AnswerUnstampedMyPosts
    BY <2>2, DieType
       DEF Kill, FailPosts, AnswerUnstampedPosts, AnswerUnstampedFavourites,
           AnswerUnstampedMyPosts
  <2>3. CASE AnswerPosts
    BY <2>3, PostsArriveType DEF AnswerPosts, Sources, TypeOK, FirestoreTypeOK
  <2>4. CASE \E p \in PostId : MergePost(p)
    BY <2>4, MergePostType
  <2>5. CASE StoreLastUpdate
    BY <2>5, StoreLastUpdateType
  <2>6. CASE ShowFeed
    BY <2>6, ShowFeedType
  <2>7. ASSUME NEW p \in PostId,
               \/ AddPost(p) \/ UpdateMyPost(p) \/ DeleteMyPost(p)
               \/ Star(p) \/ Unstar(p)
        PROVE  TypeOK'
    <3>1. rows' \in [PostId -> Commits]
      BY <2>7, deleteType
         DEF AddPost, UpdateMyPost, DeleteMyPost, Star, Unstar, TypeOK
    <3>2. \E mutations \in Seq(Mutation) : UserWrites(mutations)
      BY <2>7, UserMutations
         DEF AddPost, UpdateMyPost, DeleteMyPost, Star, Unstar, Ops
    <3>3. QED BY <3>1, <3>2, UserWritesType
  <2>8. CASE Acknowledge \/ AcknowledgeNobody
    BY <2>8, AcknowledgeType
  <2>9. CASE Elsewhere
    BY <2>9, ElsewhereType
  <2>10. CASE AnswerMyPosts
    BY <2>10, AnswerMyPostsType
  <2>11. CASE UNCHANGED vars
    BY <2>11
       DEF vars, TypeOK, FirestoreTypeOK, firestoreVars, serverVars, sqlVars,
           appVars, setVars, handlerVars, screenVars
  <2>12. QED
    BY <2>1, <2>2, <2>3, <2>4, <2>5, <2>6, <2>7, <2>8, <2>9, <2>10, <2>11
       DEF Next
<1>3. QED BY <1>1, <1>2, PTL DEF Spec

-----------------------------------------------------------------------------
(***************************************************************************)
(* The stored last update date keeps its promise: every step of PostFeed   *)
(* preserves WatermarkInv, which implies WatermarkSound.                   *)
(***************************************************************************)

(* Commits and seconds.                                                    *)

LEMMA SecondIsNat ==
  ASSUME NEW n \in Commits
  PROVE  Second[n] \in Nat
BY FirestoreAssumption

LEMMA SecondsOrdered ==
  ASSUME NEW m \in Commits, NEW n \in Commits, m <= n
  PROVE  /\ m \in Nat /\ n \in Nat
         /\ Second[m] \in Nat /\ Second[n] \in Nat
         /\ Second[m] <= Second[n]
         /\ Second[m] = 0 <=> m = 0
BY FirestoreAssumption DEF Commits

(* Later in the same second is crowded. *)
LEMMA SameSecondCrowded ==
  ASSUME NEW m \in Commits, NEW n \in Commits, m # 0, m < n, Second[m] = Second[n]
  PROVE  Crowded(n)
<1>1. m \in 1 .. (n - 1)
  BY FirestoreAssumption DEF Commits
<1>2. QED BY <1>1 DEF Crowded

(* A commit is in a second after all dates so far, or shares it. *)
LEMMA NextCommitLater ==
  ASSUME TypeOK, clock + 1 \in Commits, NEW w \in Dates, w <= Second[clock]
  PROVE  w < Second[clock + 1] \/ Crowded(clock + 1)
<1>1. /\ clock \in Commits
      /\ clock \in Nat
      /\ clock < clock + 1
  BY FirestoreAssumption DEF TypeOK, FirestoreTypeOK, Commits
<1>2. /\ Second[clock] <= Second[clock + 1]
      /\ Second[clock] \in Nat /\ Second[clock + 1] \in Nat
      /\ Second[clock] = 0 <=> clock = 0
      /\ Second[clock + 1] = 0 <=> clock + 1 = 0
  BY <1>1, SecondsOrdered
<1>3. w \in Nat
  BY FirestoreAssumption DEF Dates, Commits
<1>4. CASE Second[clock] = Second[clock + 1]
  BY <1>1, <1>2, <1>4, SameSecondCrowded
<1>5. CASE Second[clock] # Second[clock + 1]
  BY <1>2, <1>3, <1>5
<1>6. QED BY <1>4, <1>5

-----------------------------------------------------------------------------
(* The queue: what is being deleted stays so until the server answers.     *)

LEMMA EnqueueKeepsDeleting ==
  ASSUME queue \in Seq(Mutation), NEW mutations \in Seq(Mutation),
         Enqueue(mutations), NEW p \in PostId, Deleting(p)
  PROVE  Deleting(p)'
<1>1. PICK i \in DOMAIN queue : queue[i] = [op |-> "delete", id |-> p]
  BY DEF Deleting, Queued
<1>2. i \in DOMAIN queue' /\ queue'[i] = queue[i]
  BY <1>1 DEF Enqueue
<1>3. QED BY <1>1, <1>2 DEF Deleting, Queued

LEMMA TailKeepsDeleting ==
  ASSUME queue \in Seq(Mutation), queue # <<>>, queue' = Tail(queue),
         NEW p \in PostId, Deleting(p), Head(queue) # [op |-> "delete", id |-> p]
  PROVE  Deleting(p)'
<1>1. PICK i \in DOMAIN queue : queue[i] = [op |-> "delete", id |-> p]
  BY DEF Deleting, Queued
<1>2. /\ i \in 1 .. Len(queue)
      /\ i # 1
      /\ Len(queue) \in Nat
  BY <1>1
<1>3. i - 1 \in DOMAIN queue' /\ queue'[i - 1] = queue[i]
  BY <1>2
<1>4. QED BY <1>1, <1>3 DEF Deleting, Queued

-----------------------------------------------------------------------------
(***************************************************************************)
(* What a step may do to the posts without breaking the promise of any     *)
(* date so far: leave a post alone, give it the next commit, or touch the  *)
(* row of one that is after every date.                                    *)
(***************************************************************************)
Harmless(p) ==
  cloud'[p] # 0 /\ ~Excused(p)' =>
    \/ cloud'[p] = cloud[p] /\ ~Excused(p) /\ rows'[p] = rows[p]
    \/ cloud'[p] = clock + 1 /\ clock' = clock + 1
    \/ cloud'[p] = cloud[p] /\ \A w \in Watermarks : w < Second[cloud[p]]

LEMMA WatermarksTyped ==
  ASSUME TypeOK, NEW w \in Watermarks
  PROVE  w \in Dates /\ w \in Nat
<1>1. w \in Dates
  BY DEF TypeOK, Watermarks
<1>2. QED BY <1>1, FirestoreAssumption DEF Dates, Commits

LEMMA HarmlessKeepsDates ==
  ASSUME TypeOK, TypeOK', WatermarkInv, clock <= clock', ~stale,
         \A p \in PostId : Harmless(p),
         NEW w, w \in Watermarks \/ w = 0
  PROVE  w <= Second[clock'] /\ Sound(w)'
<1>1. w \in Nat /\ w \in Dates
  BY WatermarksTyped, ZeroIsADate
<1>2. clock \in Commits /\ clock' \in Commits
  BY DEF TypeOK, FirestoreTypeOK
<1>3. Second[clock] <= Second[clock'] /\ Second[clock] \in Nat /\ Second[clock'] \in Nat
  BY <1>2, SecondsOrdered
<1>4. w <= Second[clock]
  BY <1>1, <1>3 DEF WatermarkInv
<1>5. w <= Second[clock']
  BY <1>1, <1>3, <1>4
<1>6. ASSUME NEW p \in PostId, cloud'[p] # 0, Second[cloud'[p]] <= w, ~Excused(p)'
      PROVE  rows'[p] = cloud'[p]
  <2>1. cloud'[p] \in Commits
    BY DEF TypeOK, FirestoreTypeOK
  <2>2. Second[cloud'[p]] \in Nat /\ Second[cloud'[p]] # 0
    BY <1>6, <2>1, SecondsOrdered, FirestoreAssumption
  <2>3. w \in Watermarks
    BY <1>1, <1>6, <2>2
  <2>4. CASE cloud'[p] = cloud[p] /\ ~Excused(p) /\ rows'[p] = rows[p]
    BY <1>6, <2>3, <2>4 DEF WatermarkInv, Sound
  <2>5. CASE cloud'[p] = clock + 1 /\ clock' = clock + 1
    <3>1. w < Second[clock + 1] \/ Crowded(clock + 1)
      BY <1>1, <1>2, <1>4, <2>5, NextCommitLater
    <3>2. ~Crowded(cloud'[p])
      BY <1>6 DEF Excused, Crowded
    <3>3. QED BY <1>1, <1>6, <2>2, <2>5, <3>1, <3>2
  <2>6. CASE cloud'[p] = cloud[p] /\ \A v \in Watermarks : v < Second[cloud[p]]
    BY <1>1, <1>6, <2>2, <2>3, <2>6
  <2>7. QED BY <1>6, <2>4, <2>5, <2>6 DEF Harmless
<1>7. Sound(w)'
  BY <1>6 DEF Sound
<1>8. QED BY <1>5, <1>7

(* A step that ends in an idle main thread needs only that much. *)
LEMMA IdleAfterwards ==
  ASSUME TypeOK, TypeOK', WatermarkInv, clock <= clock', Numbered(cloud)',
         \A p \in PostId : Harmless(p),
         Watermarks' \subseteq Watermarks \cup {0}, UNCHANGED stale,
         phase' = "idle", snap' = NoDocuments, todo' = {}, lud' = 0
  PROVE  WatermarkInv'
<1>1. ~stale' => \A w \in Watermarks' : w <= Second[clock'] /\ Sound(w)'
  BY HarmlessKeepsDates
<1>2. ~stale' => \A w \in Watermarks' : (w <= Second[clock] /\ Sound(w))'
  BY <1>1
<1>3. QED BY <1>2 DEF WatermarkInv

(* A step of the server, which may come while a handler runs. *)
LEMMA WhileMerging ==
  ASSUME TypeOK, TypeOK', WatermarkInv, clock <= clock', Numbered(cloud)',
         \A p \in PostId : Harmless(p),
         UNCHANGED <<lastUpdateDate, status, stale, phase, lud, snap, todo,
                     postReads, postSet>>,
         \A p \in PostId : Newcomer(p)' =>
           \/ Newcomer(p) /\ cloud'[p] = cloud[p]
           \/ cloud'[p] = clock + 1 /\ clock' = clock + 1
  PROVE  WatermarkInv'
<1>1. Watermarks' = Watermarks
  BY DEF Watermarks
<1>2. /\ clock \in Nat /\ clock \in Commits /\ clock' \in Commits /\ clock' \in Nat
      /\ snap \in [PostId -> Nat]
  <2>1. clock \in Commits /\ clock' \in Commits /\ snap \in [PostId -> Commits]
    BY DEF TypeOK, FirestoreTypeOK
  <2>2. QED BY <2>1, FirestoreAssumption DEF Commits
<1>3. ~stale' => \A w \in Watermarks' : (w <= Second[clock] /\ Sound(w))'
  BY <1>1, HarmlessKeepsDates
<1>4. ASSUME ~stale', phase' # "idle"
      PROVE  (Numbered(snap) /\ AnswerTracked /\ NewcomersLater)'
  <2>1. /\ Numbered(snap) /\ AnswerTracked /\ NewcomersLater
        /\ \A w \in Watermarks : w <= Second[clock]
    BY <1>4 DEF WatermarkInv
  <2>2. Numbered(snap)'
    BY <1>2, <2>1 DEF Numbered
  <2>3. AnswerTracked'
    BY <2>1 DEF AnswerTracked
  <2>4. ASSUME NEW q \in PostId, Newcomer(q)'
        PROVE  /\ \A x \in PostId : snap[x] < cloud'[q]
               /\ \A w \in Watermarks : w < Second[cloud'[q]] \/ Crowded(cloud'[q])
    <3>1. CASE Newcomer(q) /\ cloud'[q] = cloud[q]
      BY <2>1, <3>1 DEF NewcomersLater, Crowded
    <3>2. CASE cloud'[q] = clock + 1 /\ clock' = clock + 1
      <4>1. \A x \in PostId : snap[x] < cloud'[q]
        BY <1>2, <2>1, <3>2 DEF Numbered
      <4>2. ASSUME NEW w \in Watermarks
            PROVE  w < Second[cloud'[q]] \/ Crowded(cloud'[q])
        BY <1>2, <2>1, <3>2, NextCommitLater, WatermarksTyped
      <4>3. QED BY <4>1, <4>2
    <3>3. QED BY <2>4, <3>1, <3>2
  <2>5. NewcomersLater'
    BY <1>1, <2>4 DEF NewcomersLater, Crowded
  <2>6. QED BY <2>2, <2>3, <2>5
<1>5. QED BY <1>3, <1>4 DEF WatermarkInv

(* Where nothing that Excused and Sound speak of changes. *)
LEMMA QuietIsHarmless ==
  ASSUME UNCHANGED <<cloud, refused, stale, rows>>,
         NEW p \in PostId, Deleting(p) => Deleting(p)'
  PROVE  Harmless(p)
BY DEF Harmless, Excused, Crowded

LEMMA SameQueueSameDeleting ==
  ASSUME UNCHANGED queue, NEW p \in PostId
  PROVE  Deleting(p)' <=> Deleting(p)
BY DEF Deleting, Queued

LEMMA NumberedKept ==
  ASSUME UNCHANGED <<cloud, clock>>, WatermarkInv
  PROVE  Numbered(cloud)'
BY DEF WatermarkInv, Numbered

(* A new commit has a number of its own. *)
LEMMA CommitNumbered ==
  ASSUME TypeOK, WatermarkInv, NEW p \in PostId, Commit(p)
  PROVE  Numbered(cloud)'
<1>1. clock \in Nat /\ cloud \in [PostId -> Nat]
  BY FirestoreAssumption DEF TypeOK, FirestoreTypeOK, Commits
<1>2. \A q \in PostId : cloud'[q] = IF q = p THEN clock + 1 ELSE cloud[q]
  BY <1>1 DEF Commit
<1>3. QED BY <1>1, <1>2 DEF WatermarkInv, Numbered, Commit

LEMMA EraseNumbered ==
  ASSUME TypeOK, WatermarkInv, NEW p \in PostId, Erase(p)
  PROVE  Numbered(cloud)'
<1>1. clock \in Nat /\ cloud \in [PostId -> Nat]
  BY FirestoreAssumption DEF TypeOK, FirestoreTypeOK, Commits
<1>2. \A q \in PostId : cloud'[q] = IF q = p THEN 0 ELSE cloud[q]
  BY <1>1 DEF Erase
<1>3. QED BY <1>1, <1>2 DEF WatermarkInv, Numbered, Erase

-----------------------------------------------------------------------------
(* The steps that begin a refresh, or touch favourites only.               *)

LEMMA reloadDataWatermarks ==
  ASSUME TypeOK, reloadData, UNCHANGED <<lastUpdateDate, lud>>
  PROVE  Watermarks' \subseteq Watermarks \cup {0}
<1>1. PICK date \in {0, lastUpdateDate} : postReads' = Append(postReads, date)
  BY DEF reloadData, CaptureDateAndRead, getAllPosts,
       getLastUpdateDate
<1>2. postReads \in Seq(Dates)
  BY DEF TypeOK
<1>3. \A i \in DOMAIN postReads' : postReads'[i] = date \/
        (i \in DOMAIN postReads /\ postReads'[i] = postReads[i])
  BY <1>1, <1>2
<1>4. QED BY <1>1, <1>3 DEF Watermarks

LEMMA ReadWatermark ==
  ASSUME TypeOK, TypeOK', WatermarkInv,
         Launch \/ Pull \/ OpenFavorites \/ AnswerFavourites \/ FailFavourites
  PROVE  WatermarkInv'
<1>1. UNCHANGED <<firestoreVars, sqlVars, stale, handlerVars>>
  BY DEF Launch, Pull, OpenFavorites, AnswerFavourites, FailFavourites,
         FavouritesArrive
<1>2. UNCHANGED <<cloud, clock, refused, queue, rows, lastUpdateDate, stale,
                  phase, lud, snap, todo>>
  BY <1>1 DEF firestoreVars, serverVars, sqlVars, handlerVars
<1>3. phase = "idle"
  BY DEF Launch, Pull, OpenFavorites, AnswerFavourites, FailFavourites,
         FavouritesArrive, Idle, WatermarkInv
<1>4. Watermarks' \subseteq Watermarks \cup {0}
  <2>1. CASE reloadData
    BY <1>2, <2>1, reloadDataWatermarks
  <2>2. CASE UNCHANGED postReads
    BY <1>2, <2>2 DEF Watermarks
  <2>3. QED
    BY <2>1, <2>2
       DEF Launch, Pull, OpenFavorites, AnswerFavourites, FailFavourites,
           FavouritesArrive
<1>5. \A p \in PostId : Harmless(p)
  BY <1>2, QuietIsHarmless, SameQueueSameDeleting
<1>6. Numbered(cloud)' /\ clock <= clock'
  BY <1>2, NumberedKept, FirestoreAssumption DEF TypeOK, FirestoreTypeOK, Commits
<1>7. QED BY <1>2, <1>3, <1>4, <1>5, <1>6, IdleAfterwards DEF WatermarkInv

(* The list of the user's posts and the SDK's cache matter to no date. *)
LEMMA MyPostsWatermark ==
  ASSUME TypeOK, TypeOK', WatermarkInv, AnswerMyPosts
  PROVE  WatermarkInv'
<1>1. /\ UNCHANGED <<cloud, clock, refused, queue, rows, lastUpdateDate, stale,
                     phase, lud, snap, todo, postReads>>
      /\ phase = "idle"
  BY DEF AnswerMyPosts, MyPostsArrive, Idle, serverVars, sqlVars, handlerVars
<1>2. Watermarks' \subseteq Watermarks \cup {0}
  BY <1>1 DEF Watermarks
<1>3. \A p \in PostId : Harmless(p)
  BY <1>1, QuietIsHarmless, SameQueueSameDeleting
<1>4. Numbered(cloud)' /\ clock <= clock'
  BY <1>1, NumberedKept, FirestoreAssumption
     DEF TypeOK, FirestoreTypeOK, Commits
<1>5. QED BY <1>1, <1>2, <1>3, <1>4, IdleAfterwards DEF WatermarkInv

(* The end of the process: the dates in memory are forgotten. *)
LEMMA DieWatermark ==
  ASSUME TypeOK, TypeOK', WatermarkInv, NEW cause, Die(cause)
  PROVE  WatermarkInv'
<1>1. UNCHANGED <<cloud, clock, refused, queue, rows, lastUpdateDate, stale>>
  BY DEF Die, firestoreVars, serverVars, sqlVars
<1>2. Watermarks' \subseteq Watermarks \cup {0}
  <2>1. Watermarks' = {lastUpdateDate, 0}
    BY <1>1 DEF Die, Watermarks
  <2>2. QED BY <2>1 DEF Watermarks
<1>3. \A p \in PostId : Harmless(p)
  BY <1>1, QuietIsHarmless, SameQueueSameDeleting
<1>4. Numbered(cloud)' /\ clock <= clock'
  BY <1>1, NumberedKept, FirestoreAssumption DEF TypeOK, FirestoreTypeOK, Commits
<1>5. QED BY <1>2, <1>3, <1>4, IdleAfterwards DEF Die

-----------------------------------------------------------------------------
(* The user's writes and the server's answers.                             *)

LEMMA UserWatermark ==
  ASSUME TypeOK, TypeOK', WatermarkInv, NEW p \in PostId,
         \/ AddPost(p) \/ UpdateMyPost(p) \/ DeleteMyPost(p)
         \/ Star(p) \/ Unstar(p)
  PROVE  WatermarkInv'
<1>1. PICK mutations \in Seq(Mutation) : UserWrites(mutations)
  BY UserMutations DEF AddPost, UpdateMyPost, DeleteMyPost, Star, Unstar, Ops
<1>2. UNCHANGED <<cloud, clock, refused, lastUpdateDate, stale, phase, lud,
                  snap, todo, postReads, status>>
  BY <1>1 DEF UserWrites, serverVars, appVars, handlerVars
<1>3. phase = "idle" /\ Enqueue(mutations) /\ queue \in Seq(Mutation)
  BY <1>1 DEF UserWrites, Idle, TypeOK, FirestoreTypeOK
<1>4. \A q \in PostId : Deleting(q) => Deleting(q)'
  BY <1>3, EnqueueKeepsDeleting
<1>5. \A q \in PostId : Harmless(q)
  <2>1. CASE UNCHANGED rows
    BY <1>2, <1>4, <2>1, QuietIsHarmless
  <2>2. CASE DeleteMyPost(p)
    <3>1. Deleting(p)'
      <4>1. queue' = queue \o <<[op |-> "delete", id |-> p], [op |-> "unstar", id |-> p]>>
        BY <2>2 DEF DeleteMyPost, UserWrites, Enqueue
      <4>2. Len(queue) + 1 \in DOMAIN queue'
            /\ queue'[Len(queue) + 1] = [op |-> "delete", id |-> p]
        BY <1>3, <4>1
      <4>3. QED BY <4>2 DEF Deleting, Queued
    <3>2. \A q \in PostId : q # p => rows'[q] = rows[q]
      BY <2>2 DEF DeleteMyPost, delete, TypeOK
    <3>3. Harmless(p)
      BY <3>1 DEF Harmless, Excused
    <3>4. ASSUME NEW q \in PostId, q # p PROVE Harmless(q)
      BY <1>2, <1>4, <3>2, <3>4 DEF Harmless, Excused, Crowded
    <3>5. QED BY <3>3, <3>4
  <2>3. QED BY <2>1, <2>2 DEF AddPost, UpdateMyPost, Star, Unstar
<1>6. Watermarks' \subseteq Watermarks \cup {0}
  BY <1>2 DEF Watermarks
<1>7. Numbered(cloud)' /\ clock <= clock'
  BY <1>2, NumberedKept, FirestoreAssumption DEF TypeOK, FirestoreTypeOK, Commits
<1>8. QED BY <1>2, <1>3, <1>5, <1>6, <1>7, IdleAfterwards DEF WatermarkInv

(***************************************************************************)
(* The oldest write leaves the queue.  A delete that leaves it has either  *)
(* erased its post or makes it one whose deletion was refused.             *)
(***************************************************************************)
LEMMA AcceptHarmless ==
  ASSUME TypeOK, WatermarkInv, queue # <<>>, queue' = Tail(queue),
         UNCHANGED stale, NEW p, p = Head(queue).id,
         \/ AcceptPut(p) \/ AcceptDelete(p)
         \/ AcceptStar(p) \/ AcceptUnstar(p) \/ Refuse(p),
         UNCHANGED rows \/ (AcceptDelete(p) /\ rows' \in delete(rows, p))
  PROVE  /\ \A q \in PostId : Harmless(q)
         /\ Numbered(cloud)'
         /\ clock <= clock'
<1>1. p \in PostId /\ queue \in Seq(Mutation)
  BY HeadType DEF TypeOK, FirestoreTypeOK
<1>2. /\ clock \in Nat
      /\ cloud \in [PostId -> Nat]
      /\ rows \in [PostId -> Nat]
  BY FirestoreAssumption DEF TypeOK, FirestoreTypeOK, Commits
<1>3. ASSUME NEW q \in PostId, Deleting(q), q # p \/ Head(queue).op # "delete"
      PROVE  Deleting(q)'
  <2>1. Head(queue) # [op |-> "delete", id |-> q]
    BY <1>3
  <2>2. QED BY <1>1, <1>3, <2>1, TailKeepsDeleting
<1>4. CASE AcceptPut(p)
  <2>1. Commit(p) /\ UNCHANGED rows
    BY <1>4 DEF AcceptPut, AcceptDelete
  <2>2. ASSUME NEW q \in PostId PROVE Harmless(q)
    <3>1. CASE q = p
      BY <1>2, <2>1, <3>1 DEF Harmless, Commit
    <3>2. CASE q # p
      BY <1>2, <1>3, <2>1, <3>2 DEF Harmless, Commit, Excused, Crowded
    <3>3. QED BY <3>1, <3>2
  <2>3. Numbered(cloud)'
    BY <1>1, <2>1, CommitNumbered
  <2>4. clock <= clock'
    BY <1>2, <2>1 DEF Commit
  <2>5. QED BY <2>2, <2>3, <2>4
<1>5. CASE AcceptDelete(p)
  <2>1. Erase(p)
    BY <1>5 DEF AcceptDelete
  <2>2. \A q \in PostId : q # p => rows'[q] = rows[q]
    BY <1>1, <1>2 DEF delete
  <2>3. ASSUME NEW q \in PostId PROVE Harmless(q)
    <3>1. CASE q = p
      BY <1>2, <2>1, <2>2, <3>1 DEF Harmless, Erase
    <3>2. CASE q # p
      BY <1>2, <1>3, <2>1, <2>2, <3>2 DEF Harmless, Erase, Excused, Crowded
    <3>3. QED BY <3>1, <3>2
  <2>4. Numbered(cloud)'
    BY <1>1, <2>1, EraseNumbered
  <2>5. clock <= clock'
    BY <1>2, <2>1 DEF Erase
  <2>6. QED BY <2>3, <2>4, <2>5
<1>6. CASE AcceptStar(p) \/ AcceptUnstar(p)
  <2>1. UNCHANGED <<cloud, clock, refused, rows>> /\ Head(queue).op # "delete"
    BY <1>6 DEF AcceptStar, AcceptUnstar, AcceptDelete
  <2>2. QED BY <1>2, <1>3, <2>1, QuietIsHarmless, NumberedKept
<1>7. CASE Refuse(p) /\ ~AcceptDelete(p)
  <2>1. /\ UNCHANGED <<cloud, clock, rows>>
        /\ refused' = IF Head(queue).op = "delete" /\ cloud[p] # 0
                      THEN refused \cup {p} ELSE refused
    BY <1>7 DEF Refuse
  <2>2. ASSUME NEW q \in PostId PROVE Harmless(q)
    <3>1. CASE q = p /\ Head(queue).op = "delete"
      BY <2>1, <3>1 DEF Harmless, Excused
    <3>2. CASE q # p \/ Head(queue).op # "delete"
      BY <1>3, <2>1, <3>2 DEF Harmless, Excused, Crowded
    <3>3. QED BY <3>1, <3>2
  <2>3. QED BY <1>2, <2>1, <2>2, NumberedKept
<1>8. QED BY <1>4, <1>5, <1>6, <1>7

LEMMA AcknowledgeWatermark ==
  ASSUME TypeOK, TypeOK', WatermarkInv, Acknowledge
  PROVE  WatermarkInv'
<1> DEFINE p == Head(queue).id
<1>1. /\ queue # <<>>
      /\ queue' = Tail(queue)
      /\ phase = "idle"
      /\ \/ AcceptPut(p) \/ AcceptDelete(p)
         \/ AcceptStar(p) \/ AcceptUnstar(p) \/ Refuse(p)
  BY DEF Acknowledge, Idle, WatermarkInv
<1>2. /\ UNCHANGED <<lastUpdateDate, stale, phase, lud, snap, todo>>
      /\ reloadData \/ UNCHANGED postReads
      /\ UNCHANGED rows \/ (AcceptDelete(p) /\ rows' \in delete(rows, p))
  BY DEF Acknowledge, NothingShown, PostDataEvent, PostDeleted,
         appVars, sqlVars, handlerVars
<1>3. /\ \A q \in PostId : Harmless(q)
      /\ Numbered(cloud)'
      /\ clock <= clock'
  BY <1>1, <1>2, AcceptHarmless
<1>4. Watermarks' \subseteq Watermarks \cup {0}
  <2>1. CASE reloadData
    BY <1>2, <2>1, reloadDataWatermarks
  <2>2. CASE UNCHANGED postReads
    BY <1>2, <2>2 DEF Watermarks
  <2>3. QED BY <1>2, <2>1, <2>2
<1>5. QED BY <1>1, <1>2, <1>3, <1>4, IdleAfterwards DEF WatermarkInv

(* The same on the server, at any moment, and the app hears nothing. *)
LEMMA AcknowledgeNobodyWatermark ==
  ASSUME TypeOK, TypeOK', WatermarkInv, AcknowledgeNobody
  PROVE  WatermarkInv'
<1> DEFINE p == Head(queue).id
<1>1. /\ queue # <<>>
      /\ queue' = Tail(queue)
      /\ \/ AcceptPut(p) \/ AcceptDelete(p)
         \/ AcceptStar(p) \/ AcceptUnstar(p) \/ Refuse(p)
  BY DEF AcknowledgeNobody
<1>2. UNCHANGED <<rows, lastUpdateDate, status, stale, phase, lud, snap, todo,
                  postReads, postSet>>
  BY DEF AcknowledgeNobody, appVars, sqlVars, setVars, handlerVars
<1>3. /\ \A q \in PostId : Harmless(q)
      /\ Numbered(cloud)'
      /\ clock <= clock'
  BY <1>1, <1>2, AcceptHarmless
<1>4. ASSUME NEW q \in PostId, Newcomer(q)'
      PROVE  \/ Newcomer(q) /\ cloud'[q] = cloud[q]
             \/ cloud'[q] = clock + 1 /\ clock' = clock + 1
  <2>1. /\ p \in PostId /\ queue \in Seq(Mutation)
        /\ cloud \in [PostId -> Commits]
    BY <1>1, HeadType DEF TypeOK, FirestoreTypeOK
  <2>2. cloud'[q] # 0 /\ cloud'[q] # snap[q] /\ ~Deleting(q)' /\ q \notin refused'
    BY <1>2, <1>4 DEF Newcomer
  <2>3. CASE q = p /\ AcceptPut(p)
    BY <2>1, <2>3 DEF AcceptPut, Commit
  <2>4. CASE q = p /\ AcceptDelete(p)
    BY <2>1, <2>2, <2>4 DEF AcceptDelete, Erase
  <2>5. CASE q = p /\ Refuse(p) /\ Head(queue).op = "delete"
    BY <2>2, <2>5 DEF Refuse
  <2>6. CASE q # p \/ Head(queue).op # "delete"
    <3>1. Head(queue) # [op |-> "delete", id |-> q]
      BY <2>6
    <3>2. ~Deleting(q)
      BY <1>1, <2>1, <2>2, <3>1, TailKeepsDeleting
    <3>3. CASE cloud'[q] = cloud[q] /\ (q \in refused => q \in refused')
      BY <1>2, <2>2, <3>2, <3>3 DEF Newcomer
    <3>4. \/ q = p /\ AcceptPut(p)
          \/ cloud'[q] = cloud[q] /\ (q \in refused => q \in refused')
      BY <1>1, <2>1, <2>6
         DEF AcceptPut, AcceptDelete, AcceptStar, AcceptUnstar, Refuse, Commit, Erase
    <3>5. QED BY <2>3, <3>3, <3>4
  <2>7. QED
    BY <1>1, <2>3, <2>4, <2>5, <2>6 DEF AcceptPut, AcceptStar, AcceptUnstar
<1>5. QED BY <1>2, <1>3, <1>4, WhileMerging

-----------------------------------------------------------------------------
(* The handler of an answer.                                               *)

LEMMA AnswerWatermark ==
  ASSUME TypeOK, TypeOK', WatermarkInv, AnswerPosts
  PROVE  WatermarkInv'
<1>1. PICK docs : PostsArrive(docs) /\ postReads # <<>>
  BY DEF AnswerPosts
<1>2. /\ UNCHANGED <<cloud, clock, refused, queue, rows, lastUpdateDate, status>>
      /\ status = "running" /\ phase' = "merge"
  BY <1>1 DEF PostsArrive, AnswerPosts, Idle, serverVars, sqlVars
<1>3. Watermarks' \subseteq Watermarks
  <2>1. postReads \in Seq(Dates)
    BY DEF TypeOK
  <2>2. lud' = postReads[1] /\ 1 \in DOMAIN postReads
    BY <1>1, <2>1 DEF PostsArrive
  <2>3. \A i \in DOMAIN postReads' : /\ i + 1 \in DOMAIN postReads
                                     /\ postReads'[i] = postReads[i + 1]
    BY <1>1, <2>1 DEF PostsArrive
  <2>4. QED BY <1>2, <2>2, <2>3 DEF Watermarks
<1>4. \A q \in PostId : Harmless(q)
  BY <1>1, <1>2, SameQueueSameDeleting
     DEF Harmless, Excused, Crowded, PostsArrive
<1>5. clock <= clock'
  BY <1>2, FirestoreAssumption DEF TypeOK, FirestoreTypeOK, Commits
<1>6. ~stale' => \A w \in Watermarks' : (w <= Second[clock] /\ Sound(w))'
  BY <1>1, <1>3, <1>4, <1>5, HarmlessKeepsDates DEF PostsArrive
<1>7. \A q \in todo' : snap'[q] # 0
  BY <1>1 DEF PostsArrive
<1>8. ASSUME ~stale'
      PROVE  (Numbered(snap) /\ AnswerTracked /\ NewcomersLater)'
  <2>1. /\ snap' = PostsView(cloud)
        /\ todo' = {q \in PostId : snap'[q] # 0}
        /\ todo' \subseteq postSet'
    BY <1>1, <1>8 DEF PostsArrive
  <2>2. \A q \in PostId : snap'[q] = IF Deleting(q) THEN 0 ELSE cloud[q]
    BY <2>1 DEF PostsView
  <2>3. Numbered(snap)'
    <3>1. clock \in Nat /\ cloud \in [PostId -> Nat]
      BY FirestoreAssumption DEF TypeOK, FirestoreTypeOK, Commits
    <3>2. Numbered(cloud)
      BY DEF WatermarkInv
    <3>3. QED BY <1>2, <2>2, <3>1, <3>2 DEF Numbered
  <2>4. AnswerTracked'
    BY <2>1 DEF AnswerTracked
  <2>5. NewcomersLater'
    BY <1>2, <2>2, SameQueueSameDeleting DEF NewcomersLater, Newcomer
  <2>6. QED BY <2>3, <2>4, <2>5
<1>9. Numbered(cloud)'
  BY <1>2, NumberedKept
<1>10. QED BY <1>2, <1>6, <1>7, <1>8, <1>9 DEF WatermarkInv

LEMMA StoreWatermark ==
  ASSUME TypeOK, TypeOK', WatermarkInv, StoreLastUpdate
  PROVE  WatermarkInv'
<1>1. /\ UNCHANGED <<cloud, clock, refused, queue, rows, status, stale, lud,
                     snap, todo, postReads, postSet>>
      /\ lastUpdateDate' \in {lastUpdateDate, lud}
      /\ phase = "merge" /\ phase' = "show" /\ todo = {}
  BY DEF StoreLastUpdate, setLastUpdate, firestoreVars, serverVars, setVars
<1>2. Watermarks' \subseteq Watermarks
  BY <1>1 DEF Watermarks
<1>3. \A q \in PostId : Harmless(q)
  BY <1>1, QuietIsHarmless, SameQueueSameDeleting
<1>4. clock <= clock'
  BY <1>1, FirestoreAssumption DEF TypeOK, FirestoreTypeOK, Commits
<1>5. ~stale' => \A w \in Watermarks' : (w <= Second[clock] /\ Sound(w))'
  BY <1>1, <1>2, <1>3, <1>4, HarmlessKeepsDates
<1>6. Numbered(cloud)'
  BY <1>1, NumberedKept
<1>7. ASSUME ~stale'
      PROVE  (Numbered(snap) /\ AnswerTracked /\ NewcomersLater)'
  <2>1. Numbered(snap) /\ AnswerTracked /\ NewcomersLater
    BY <1>1, <1>7 DEF WatermarkInv
  <2>2. Numbered(snap)' /\ AnswerTracked'
    BY <1>1, <2>1 DEF Numbered, AnswerTracked
  <2>3. NewcomersLater'
    BY <1>1, <1>2, <2>1, SameQueueSameDeleting DEF NewcomersLater, Newcomer, Crowded
  <2>4. QED BY <2>2, <2>3
<1>8. QED BY <1>1, <1>5, <1>6, <1>7 DEF WatermarkInv

(***************************************************************************)
(* One post of the answer is merged.  Those before it are behind lud, so   *)
(* whatever has a second up to its own is it, or was merged before, or     *)
(* shares the second; and it does not overwrite anything newer that a date *)
(* has passed.                                                             *)
(***************************************************************************)
LEMMA MergeWatermark ==
  ASSUME TypeOK, TypeOK', WatermarkInv, NEW p \in PostId, MergePost(p)
  PROVE  WatermarkInv'
<1>1. /\ UNCHANGED <<cloud, clock, refused, queue, lastUpdateDate, status, stale,
                     snap, postReads, postSet, phase>>
      /\ phase = "merge"
      /\ p \in todo /\ snap[p] # 0
      /\ \A q \in todo : snap[p] <= snap[q]
      /\ todo' = todo \ {p}
  BY DEF MergePost, NextInAnswer, firestoreVars, serverVars, setVars, WatermarkInv
<1>2. /\ clock \in Commits
      /\ cloud \in [PostId -> Commits]
      /\ snap \in [PostId -> Commits]
      /\ rows \in [PostId -> Commits]
      /\ todo \subseteq PostId
      /\ lud \in Nat
  BY FirestoreAssumption DEF TypeOK, FirestoreTypeOK, Dates, Commits
<1>3. Numbered(cloud)'
  BY <1>1, NumberedKept
<1>4. ASSUME ~stale'
      PROVE  /\ \A w \in Watermarks' : (w <= Second[clock] /\ Sound(w))'
             /\ (Numbered(snap) /\ AnswerTracked /\ NewcomersLater)'
  <2>1. Numbered(snap) /\ AnswerTracked /\ NewcomersLater
    BY <1>1, <1>4 DEF WatermarkInv
  <2>2. Second[snap[p]] \in Nat /\ Second[clock] \in Nat /\ Second[snap[p]] <= Second[clock]
    BY <1>2, <2>1, SecondsOrdered DEF Numbered
  <2>3. lud' = IF Newer(p) THEN Second[snap[p]] ELSE lud
    BY DEF MergePost
  <2>4. \A q \in PostId : rows'[q] = IF q = p /\ Newer(p) THEN snap[p] ELSE rows[q]
    BY <1>2 DEF MergePost, addPost
  <2>5. lud <= lud' /\ Second[snap[p]] <= lud' /\ lud' \in Nat
    BY <1>2, <2>2, <2>3 DEF Newer
  <2>6. AnswerTracked'
    <3>1. ASSUME NEW q \in PostId, snap[q] # 0
          PROVE  q \in postSet /\ (q \in todo' \/ Second[snap[q]] <= lud')
      <4>1. Second[snap[q]] \in Nat
        BY <1>2, SecondIsNat
      <4>2. QED BY <1>1, <1>2, <2>1, <2>5, <3>1, <4>1 DEF AnswerTracked
    <3>2. QED BY <1>1, <3>1 DEF AnswerTracked
  <2>7. NewcomersLater'
    <3>1. ASSUME NEW q \in PostId, Newcomer(q), NEW w \in Watermarks'
          PROVE  w < Second[cloud[q]] \/ Crowded(cloud[q])
      <4>1. snap[p] < cloud[q]
        BY <2>1, <3>1 DEF NewcomersLater
      <4>2. /\ Second[snap[p]] <= Second[cloud[q]]
            /\ Second[cloud[q]] \in Nat
        BY <1>2, <4>1, SecondsOrdered DEF Commits
      <4>3. Second[snap[p]] = Second[cloud[q]] => Crowded(cloud[q])
        BY <1>1, <1>2, <4>1, SameSecondCrowded
      <4>4. w \in Watermarks \/ w = Second[snap[p]]
        BY <1>1, <2>3 DEF Watermarks
      <4>5. QED BY <2>1, <2>2, <3>1, <4>2, <4>3, <4>4 DEF NewcomersLater
    <3>2. \A q \in PostId : Newcomer(q)' <=> Newcomer(q)
      BY <1>1, SameQueueSameDeleting DEF Newcomer
    <3>3. QED BY <1>1, <2>1, <3>1, <3>2 DEF NewcomersLater, Crowded
  <2>8. ASSUME NEW w \in Watermarks'
        PROVE  w <= Second[clock'] /\ Sound(w)'
    <3>1. w \in Watermarks \/ (w = Second[snap[p]] /\ Newer(p))
      BY <1>1, <2>3 DEF Watermarks
    <3>2. w <= Second[clock']
      BY <1>1, <1>4, <2>2, <3>1 DEF WatermarkInv
    <3>3. w \in Nat
      BY <2>2, <3>1, WatermarksTyped
    <3>4. ASSUME NEW q \in PostId, cloud[q] # 0, Second[cloud[q]] <= w, ~Excused(q)
          PROVE  rows'[q] = cloud[q]
      <4>1. ~Crowded(cloud[q]) /\ ~Deleting(q) /\ q \notin refused
        BY <3>4 DEF Excused
      <4>2. Second[cloud[q]] \in Nat
        BY <1>2, SecondIsNat
      <4>3. ~Newcomer(q)
        <5>1. w \in Watermarks'
          OBVIOUS
        <5>2. Newcomer(q) => w < Second[cloud[q]]
          BY <1>1, <2>7, <4>1, <5>1, SameQueueSameDeleting
             DEF NewcomersLater, Newcomer, Crowded
        <5>3. QED BY <3>3, <3>4, <4>2, <5>2
      <4>4. cloud[q] = snap[q]
        BY <3>4, <4>1, <4>3 DEF Newcomer
      <4>5. CASE q = p /\ Newer(p)
        BY <2>4, <4>4, <4>5
      <4>6. CASE ~(q = p /\ Newer(p)) /\ w \in Watermarks
        BY <1>4, <1>1, <2>4, <3>4, <4>6 DEF WatermarkInv, Sound
      <4>7. CASE q # p /\ Newer(p) /\ w = Second[snap[p]]
        <5>1. CASE Second[cloud[q]] <= lud
          <6>1. lud \in Watermarks
            BY DEF Watermarks
          <6>2. QED
            BY <1>1, <1>4, <2>4, <3>4, <4>7, <5>1, <6>1 DEF WatermarkInv, Sound
        <5>2. CASE ~(Second[cloud[q]] <= lud)
          <6>1. q \in todo
            BY <2>1, <3>4, <4>4, <5>2 DEF AnswerTracked
          <6>2. snap[p] < snap[q]
            BY <1>1, <1>2, <2>1, <4>7, <6>1 DEF Numbered, Commits
          <6>3. Second[snap[p]] = Second[snap[q]]
            <7>1. Second[snap[p]] <= Second[snap[q]]
              BY <1>2, <6>2, SecondsOrdered DEF Commits
            <7>2. Second[snap[q]] <= Second[snap[p]] /\ Second[snap[q]] \in Nat
              BY <3>4, <4>2, <4>4, <4>7
            <7> QED BY <2>2, <7>1, <7>2
          <6>4. QED BY <1>1, <1>2, <4>1, <4>4, <6>2, <6>3, SameSecondCrowded
        <5>3. QED BY <5>1, <5>2
      <4>8. QED BY <3>1, <4>5, <4>6, <4>7
    <3>5. Sound(w)'
      BY <1>1, <3>4, SameQueueSameDeleting DEF Sound, Excused, Crowded
    <3>6. QED BY <3>2, <3>5
  <2>9. Numbered(snap)'
    BY <1>1, <2>1 DEF Numbered
  <2>10. QED BY <2>6, <2>7, <2>8, <2>9
<1>5. QED BY <1>1, <1>3, <1>4 DEF WatermarkInv

(***************************************************************************)
(* The list is shown and rows without their id in postSet are deleted: as  *)
(* the answer's posts are all in postSet, only a newcomer's row can go.    *)
(***************************************************************************)
LEMMA ShowWatermark ==
  ASSUME TypeOK, TypeOK', WatermarkInv, ShowFeed
  PROVE  WatermarkInv'
<1>1. /\ UNCHANGED <<cloud, clock, refused, lastUpdateDate, status, stale,
                     postReads, todo>>
      /\ phase = "show" /\ phase' = "idle"
      /\ lud' = 0 /\ snap' = NoDocuments
      /\ rows' \in Swept(rows, postSet)
  BY DEF ShowFeed, serverVars
<1>2. Watermarks' \subseteq Watermarks \cup {0}
  BY <1>1 DEF Watermarks
<1>3. \A q \in PostId : Deleting(q) => Deleting(q)'
  BY CleanupType, EnqueueKeepsDeleting DEF ShowFeed, TypeOK, FirestoreTypeOK
<1>4. \A q \in PostId : q \in postSet => rows'[q] = rows[q]
  BY <1>1 DEF Swept, TypeOK
<1>5. Numbered(cloud)' /\ clock <= clock'
  BY <1>1, NumberedKept, FirestoreAssumption DEF TypeOK, FirestoreTypeOK, Commits
<1>6. ASSUME NEW q \in PostId PROVE Harmless(q)
  <2>1. CASE stale
    BY <1>1, <2>1 DEF Harmless, Excused
  <2>2. CASE ~stale
    <3>1. AnswerTracked /\ NewcomersLater
      BY <1>1, <2>2 DEF WatermarkInv
    <3>2. SUFFICES ASSUME cloud[q] # 0, ~Excused(q)' PROVE
            \/ ~Excused(q) /\ rows'[q] = rows[q]
            \/ \A w \in Watermarks : w < Second[cloud[q]]
      BY <1>1 DEF Harmless
    <3>3. ~Excused(q) /\ ~Deleting(q) /\ ~Crowded(cloud[q]) /\ q \notin refused
      BY <1>1, <1>3, <3>2 DEF Excused, Crowded
    <3>4. CASE Newcomer(q)
      BY <3>1, <3>3, <3>4 DEF NewcomersLater
    <3>5. CASE ~Newcomer(q)
      BY <1>4, <3>1, <3>2, <3>3, <3>5 DEF Newcomer, AnswerTracked
    <3>6. QED BY <3>4, <3>5
  <2>3. QED BY <2>1, <2>2
<1>7. todo' = {}
  BY <1>1 DEF WatermarkInv
<1>8. QED BY <1>1, <1>2, <1>5, <1>6, <1>7, IdleAfterwards

(* What others do, at any moment. *)
LEMMA ElsewhereWatermark ==
  ASSUME TypeOK, TypeOK', WatermarkInv, Elsewhere
  PROVE  WatermarkInv'
<1>1. PICK p \in PostId : RemotePut(p) \/ RemoteDelete(p)
  BY DEF Elsewhere
<1>2. UNCHANGED <<queue, rows, lastUpdateDate, status, stale, phase, lud, snap,
                  todo, postReads, postSet>>
  BY <1>1 DEF Elsewhere, RemotePut, RemoteDelete, sqlVars, appVars, setVars, handlerVars
<1>4. /\ clock \in Nat /\ clock \in Commits /\ clock' \in Commits
      /\ cloud \in [PostId -> Nat]
      /\ snap \in [PostId -> Nat]
  <2>1. /\ clock \in Commits /\ clock' \in Commits
        /\ cloud \in [PostId -> Commits]
        /\ snap \in [PostId -> Commits]
    BY DEF TypeOK, FirestoreTypeOK
  <2>2. QED BY <2>1, FirestoreAssumption DEF Commits
<1>5. \/ Commit(p) /\ clock' = clock + 1
      \/ Erase(p) /\ clock' = clock
  BY <1>1 DEF RemotePut, RemoteDelete, Commit, Erase
<1>6. \A q \in PostId :
        \/ cloud'[q] = cloud[q] /\ (q \in refused' <=> q \in refused)
        \/ cloud'[q] = clock + 1 /\ clock' = clock + 1
        \/ cloud'[q] = 0
  BY <1>4, <1>5 DEF Commit, Erase
<1>7. \A q \in PostId : Harmless(q)
  BY <1>2, <1>6, SameQueueSameDeleting DEF Harmless, Excused, Crowded
<1>8. clock <= clock'
  BY <1>4, <1>5
<1>9. Numbered(cloud)'
  BY <1>1, CommitNumbered, EraseNumbered DEF RemotePut, RemoteDelete
<1>10. ASSUME NEW q \in PostId, Newcomer(q)'
       PROVE  \/ Newcomer(q) /\ cloud'[q] = cloud[q]
              \/ cloud'[q] = clock + 1 /\ clock' = clock + 1
  BY <1>2, <1>6, <1>10, SameQueueSameDeleting DEF Newcomer
<1>11. QED BY <1>2, <1>7, <1>8, <1>9, <1>10, WhileMerging

-----------------------------------------------------------------------------
LEMMA WatermarkInit == Init => WatermarkInv
<1> SUFFICES ASSUME Init PROVE WatermarkInv
  OBVIOUS
<1>1. \A p \in PostId : cloud[p] = 0
  BY DEF Init, FirestoreInit, NoDocuments
<1>2. Watermarks = {0} /\ clock = 0 /\ 0 <= Second[0]
  BY FirestoreAssumption DEF Init, FirestoreInit, Watermarks, Commits
<1>3. \A w \in Watermarks : Sound(w)
  BY <1>1 DEF Sound
<1>4. Numbered(cloud)
  BY <1>1, <1>2 DEF Numbered
<1>5. phase = "idle" /\ snap = NoDocuments /\ todo = {} /\ lud = 0
  BY DEF Init
<1>6. QED BY <1>2, <1>3, <1>4, <1>5 DEF WatermarkInv

LEMMA WatermarkStep ==
  ASSUME TypeOK, TypeOK', WatermarkInv, [Next]_vars
  PROVE  WatermarkInv'
<1>1. CASE Launch \/ Pull \/ OpenFavorites \/ AnswerFavourites \/ FailFavourites
  BY <1>1, ReadWatermark
<1>2. CASE \/ Kill \/ FailPosts
           \/ AnswerUnstampedPosts \/ AnswerUnstampedFavourites
           \/ AnswerUnstampedMyPosts
  BY <1>2, DieWatermark
     DEF Kill, FailPosts, AnswerUnstampedPosts, AnswerUnstampedFavourites,
         AnswerUnstampedMyPosts
<1>3. CASE AnswerPosts
  BY <1>3, AnswerWatermark
<1>4. CASE \E p \in PostId : MergePost(p)
  BY <1>4, MergeWatermark
<1>5. CASE StoreLastUpdate
  BY <1>5, StoreWatermark
<1>6. CASE ShowFeed
  BY <1>6, ShowWatermark
<1>7. CASE \E p \in PostId :
             \/ AddPost(p) \/ UpdateMyPost(p) \/ DeleteMyPost(p)
             \/ Star(p) \/ Unstar(p)
  BY <1>7, UserWatermark
<1>8. CASE Acknowledge \/ AcknowledgeNobody
  BY <1>8, AcknowledgeWatermark, AcknowledgeNobodyWatermark
<1>9. CASE Elsewhere
  BY <1>9, ElsewhereWatermark
<1>10. CASE AnswerMyPosts
  BY <1>10, MyPostsWatermark
<1>11. CASE UNCHANGED vars
  <2>1. UNCHANGED <<cloud, clock, refused, queue, rows, lastUpdateDate, status,
                    stale, phase, lud, snap, todo, postReads, postSet>>
    BY <1>11 DEF vars, firestoreVars, serverVars, sqlVars, appVars, setVars, handlerVars
  <2>2. \A p \in PostId : Deleting(p)' <=> Deleting(p)
    BY <2>1, SameQueueSameDeleting
  <2>3. Watermarks' = Watermarks
    BY <2>1 DEF Watermarks
  <2>4. \A w : Sound(w)' <=> Sound(w)
    BY <2>1, <2>2 DEF Sound, Excused, Crowded
  <2>5. /\ Numbered(cloud)' <=> Numbered(cloud)
        /\ Numbered(snap)' <=> Numbered(snap)
        /\ AnswerTracked' <=> AnswerTracked
    BY <2>1 DEF Numbered, AnswerTracked
  <2>6. NewcomersLater' <=> NewcomersLater
    BY <2>1, <2>2, <2>3 DEF NewcomersLater, Newcomer, Crowded
  <2>7. QED BY <2>1, <2>3, <2>4, <2>5, <2>6 DEF WatermarkInv
<1>12. QED
  BY <1>1, <1>2, <1>3, <1>4, <1>5, <1>6, <1>7, <1>8, <1>9, <1>10, <1>11
     DEF Next

(***************************************************************************)
(* What is known of every date the app carries, and of an answer from the  *)
(* server while it is merged, holds in every reachable state.              *)
(***************************************************************************)
THEOREM WatermarkInvariant == Spec => []WatermarkInv
<1>1. TypeOK /\ TypeOK' /\ WatermarkInv /\ [Next]_vars => WatermarkInv'
  BY WatermarkStep
<1>2. QED BY <1>1, WatermarkInit, TypeCorrect, PTL DEF Spec

(***************************************************************************)
(* The date in SQLite keeps its promise in every reachable state.          *)
(***************************************************************************)
THEOREM WatermarkIsSound == Spec => []WatermarkSound
<1>1. WatermarkInv => WatermarkSound
  BY DEF WatermarkInv, WatermarkSound, Watermarks, Sound, Excused
<1>2. QED BY <1>1, WatermarkInvariant, PTL

-----------------------------------------------------------------------------
(***************************************************************************)
(* The list that is shown.                                                 *)
(***************************************************************************)

(* Only reloadData's callback gives the table a list. *)
LEMMA ShownByShowFeed ==
  ASSUME WatermarkInv, [Next]_vars, ListShown
  PROVE  ShowFeed
<1>1. phase = "show" /\ phase' = "idle" /\ status' = "running" /\ status = "running"
  BY DEF ListShown, WatermarkInv
<1>2. ~Idle /\ phase' # phase
  BY <1>1 DEF Idle
<1>3. CASE \/ Kill \/ FailPosts \/ AnswerUnstampedPosts
           \/ AnswerUnstampedFavourites \/ AnswerUnstampedMyPosts
  BY <1>1, <1>3 DEF Kill, FailPosts, AnswerUnstampedPosts,
                    AnswerUnstampedFavourites, AnswerUnstampedMyPosts, Die
<1>4. CASE AcknowledgeNobody \/ Elsewhere \/ UNCHANGED vars
  BY <1>2, <1>4 DEF AcknowledgeNobody, Elsewhere, vars, appVars, handlerVars
<1>5. CASE \/ Launch \/ (\E p \in PostId : MergePost(p)) \/ StoreLastUpdate
  BY <1>1, <1>5 DEF Launch, MergePost, StoreLastUpdate
<1>6. CASE \/ Pull \/ AnswerPosts \/ OpenFavorites \/ AnswerFavourites
           \/ FailFavourites \/ AnswerMyPosts \/ Acknowledge
           \/ \E p \in PostId : \/ AddPost(p) \/ UpdateMyPost(p) \/ DeleteMyPost(p)
                                \/ Star(p) \/ Unstar(p)
  BY <1>2, <1>6 DEF Pull, AnswerPosts, OpenFavorites, AnswerFavourites,
     FailFavourites, FavouritesArrive, AnswerMyPosts, Acknowledge, AddPost,
     UpdateMyPost, DeleteMyPost, Star, Unstar, UserWrites
<1>7. QED BY <1>3, <1>4, <1>5, <1>6 DEF Next

(***************************************************************************)
(* Which ids postSet may hold: none before the first answer since it was   *)
(* emptied, those of the answer while the first one is merged.             *)
(***************************************************************************)
IdsOfAnswers ==
  /\ answers = 0 => postSet = {}
  /\ phase # "idle" /\ answers <= 1 => \A p \in postSet : snap[p] # 0

LEMMA IdsOfAnswersKept ==
  ASSUME TypeOK, WatermarkInv, IdsOfAnswers, [Next]_vars
  PROVE  IdsOfAnswers'
<1>1. CASE answers' = 0 /\ postSet' = {}
  BY <1>1 DEF IdsOfAnswers
<1>2. CASE AnswerPosts
  <2>1. PICK docs : PostsArrive(docs)
    BY <1>2 DEF AnswerPosts
  <2>2. /\ answers' = answers + 1 /\ answers \in Nat
        /\ postSet' = postSet \cup {p \in PostId : snap'[p] # 0}
    BY <2>1 DEF PostsArrive, TypeOK
  <2>3. QED BY <2>2 DEF IdsOfAnswers
<1>3. CASE /\ UNCHANGED answers
           /\ \A p \in postSet' : p \in postSet
           /\ phase' = "idle" \/ UNCHANGED <<phase, snap>>
  BY <1>3 DEF IdsOfAnswers
<1>4. CASE \/ OpenFavorites \/ AnswerFavourites \/ FailFavourites \/ AnswerMyPosts
           \/ StoreLastUpdate \/ ShowFeed \/ AcknowledgeNobody \/ Elsewhere
           \/ UNCHANGED vars
  <2>1. UNCHANGED <<answers, postSet>> /\ (phase' = "idle" \/ UNCHANGED snap)
    BY <1>4 DEF OpenFavorites, AnswerFavourites, FailFavourites, FavouritesArrive,
       AnswerMyPosts, MyPostsArrive, StoreLastUpdate, ShowFeed, AcknowledgeNobody,
       Elsewhere, vars, appVars, setVars, handlerVars
  <2>2. phase' = "idle" \/ phase # "idle"
    BY <1>4 DEF OpenFavorites, AnswerFavourites, FailFavourites, FavouritesArrive,
       AnswerMyPosts, MyPostsArrive, Idle, StoreLastUpdate, ShowFeed,
       AcknowledgeNobody, Elsewhere, vars, appVars, handlerVars
  <2>3. QED BY <2>1, <2>2 DEF IdsOfAnswers
<1>5. CASE \E p \in PostId : \/ MergePost(p)
                             \/ AddPost(p) \/ UpdateMyPost(p) \/ DeleteMyPost(p)
                             \/ Star(p) \/ Unstar(p)
  BY <1>3, <1>5 DEF MergePost, AddPost, UpdateMyPost, DeleteMyPost, Star, Unstar,
     UserWrites, setVars, handlerVars
<1>6. CASE \/ Kill \/ FailPosts \/ AnswerUnstampedPosts
           \/ AnswerUnstampedFavourites \/ AnswerUnstampedMyPosts
  BY <1>1, <1>6 DEF Kill, FailPosts, AnswerUnstampedPosts,
     AnswerUnstampedFavourites, AnswerUnstampedMyPosts, Die
<1>7. CASE Launch \/ Pull
  BY <1>1, <1>7 DEF Launch, Pull, reloadData, CaptureDateAndRead, getAllPosts
<1>8. CASE Acknowledge
  <2>1. phase = "idle"
    BY <1>8 DEF Acknowledge, Idle
  <2>2. CASE PostDataEvent
    BY <1>1, <2>2 DEF PostDataEvent, reloadData, CaptureDateAndRead, getAllPosts
  <2>3. CASE NothingShown \/ PostDeleted(Head(queue).id)
    <3>1. /\ UNCHANGED <<answers, phase, snap>>
          /\ \A p \in postSet' : p \in postSet
      BY <2>3 DEF NothingShown, PostDeleted, appVars, setVars, handlerVars
    <3>2. QED BY <1>3, <3>1
  <2>4. QED BY <1>8, <2>2, <2>3 DEF Acknowledge
<1>9. QED BY <1>2, <1>4, <1>5, <1>6, <1>7, <1>8 DEF Next

LEMMA IdsOfAnswersHold == Spec => []IdsOfAnswers
<1>1. Init => IdsOfAnswers
  BY DEF Init, IdsOfAnswers
<1>2. TypeOK /\ WatermarkInv /\ IdsOfAnswers /\ [Next]_vars => IdsOfAnswers'
  BY IdsOfAnswersKept
<1>3. QED BY <1>1, <1>2, TypeCorrect, WatermarkInvariant, PTL DEF Spec

(***************************************************************************)
(* A post that the answer lacks is listed only when another answer has     *)
(* been merged since getAllPosts last emptied postSet.                     *)
(***************************************************************************)
THEOREM GhostsOnlyByOverlap == Spec => GhostsNeedOverlap
<1> DEFINE Ghosts == \A p \in PostId : data'[p] # NoRow /\ snap[p] = 0 => answers > 1
<1>1. TypeOK /\ WatermarkInv /\ IdsOfAnswers /\ [Next]_vars => [ListShown => Ghosts]_vars
  <2> SUFFICES ASSUME TypeOK, WatermarkInv, IdsOfAnswers, [Next]_vars, ListShown,
                      NEW p \in PostId, data'[p] # NoRow, snap[p] = 0
               PROVE  answers > 1
    OBVIOUS
  <2>1. ShowFeed
    BY ShownByShowFeed
  <2>2. data' = Listed(rows, postSet) /\ phase = "show" /\ answers \in Nat
        /\ rows \in [PostId -> Commits]
    BY <2>1 DEF ShowFeed, TypeOK
  <2>3. p \in postSet
    BY <2>2 DEF Listed
  <2>4. QED BY <2>2, <2>3 DEF IdsOfAnswers
<1>2. QED
  BY <1>1, TypeCorrect, WatermarkInvariant, IdsOfAnswersHold, PTL
  DEF Spec, GhostsNeedOverlap

-----------------------------------------------------------------------------
(* The queue, write by write.                                              *)

LEMMA QueuedTail ==
  ASSUME queue \in Seq(Mutation), queue # <<>>, queue' = Tail(queue)
  PROVE  /\ \A op, p : Queued(op, p)' => Queued(op, p)
         /\ Queued(Head(queue).op, Head(queue).id)
<1>1. /\ Len(queue) \in Nat /\ DOMAIN queue = 1 .. Len(queue) /\ 1 \in DOMAIN queue
      /\ Head(queue) = queue[1] /\ queue[1] \in Mutation
      /\ \A i \in DOMAIN queue' : i + 1 \in DOMAIN queue /\ queue'[i] = queue[i + 1]
  OBVIOUS
<1>2. queue[1] = [op |-> queue[1].op, id |-> queue[1].id]
  BY <1>1 DEF Mutation
<1>3. QED BY <1>1, <1>2 DEF Queued

LEMMA QueuedJoined ==
  ASSUME queue \in Seq(Mutation), NEW mutations \in Seq(Mutation), Enqueue(mutations)
  PROVE  \A op, p : Queued(op, p)' <=>
           \/ Queued(op, p)
           \/ \E n \in DOMAIN mutations : mutations[n] = [op |-> op, id |-> p]
<1>1. /\ Len(queue) \in Nat /\ DOMAIN queue = 1 .. Len(queue)
      /\ Len(mutations) \in Nat /\ DOMAIN mutations = 1 .. Len(mutations)
      /\ DOMAIN queue' = 1 .. Len(queue) + Len(mutations)
      /\ \A i \in 1 .. Len(queue) + Len(mutations) :
           queue'[i] = IF i <= Len(queue) THEN queue[i] ELSE mutations[i - Len(queue)]
  BY ConcatProperties, LenProperties DEF Enqueue
<1>2. \A i \in DOMAIN queue : i \in DOMAIN queue' /\ queue'[i] = queue[i]
  BY <1>1
<1>3. \A n \in DOMAIN mutations : Len(queue) + n \in DOMAIN queue'
                                  /\ queue'[Len(queue) + n] = mutations[n]
  BY <1>1
<1>4. \A i \in DOMAIN queue' :
        \/ i \in DOMAIN queue /\ queue'[i] = queue[i]
        \/ i - Len(queue) \in DOMAIN mutations /\ queue'[i] = mutations[i - Len(queue)]
  BY <1>1
<1>5. QED BY <1>2, <1>3, <1>4 DEF Queued

(* What the clean-up enqueues. *)
LEMMA CleanupEnqueues ==
  ASSUME TypeOK, ShowFeed
  PROVE  \E mutations \in Seq(Mutation) :
           /\ Enqueue(mutations)
           /\ \A n \in DOMAIN mutations : mutations[n].op = "unstar"
           /\ \A m, n \in DOMAIN mutations : mutations[m].id = mutations[n].id => m = n
<1>1. PICK order \in Bijection(1 .. Cardinality(Orphans), Orphans) :
        Enqueue([i \in 1 .. Cardinality(Orphans) |-> [op |-> "unstar", id |-> order[i]]])
  BY DEF ShowFeed
<1> DEFINE ms == [i \in 1 .. Cardinality(Orphans) |-> [op |-> "unstar", id |-> order[i]]]
<1>2. ms \in Seq(Mutation) /\ DOMAIN ms = 1 .. Cardinality(Orphans)
  BY CleanupType
<1>3. \A m, n \in 1 .. Cardinality(Orphans) : order[m] = order[n] => m = n
  BY DEF Bijection, Injection, IsInjective
<1>4. /\ \A n \in DOMAIN ms : ms[n].op = "unstar"
      /\ \A m, n \in DOMAIN ms : ms[m].id = ms[n].id => m = n
  BY <1>2, <1>3
<1>5. QED BY <1>1, <1>2, <1>4

(* What the main thread may do without becoming idle. *)
LEMMA HandlerSteps ==
  ASSUME WatermarkInv, [Next]_vars, phase' # "idle"
  PROVE  \/ AnswerPosts
         \/ \E p \in PostId : MergePost(p)
         \/ StoreLastUpdate \/ AcknowledgeNobody \/ Elsewhere
         \/ UNCHANGED vars
<1>1. CASE \/ Kill \/ FailPosts \/ AnswerUnstampedPosts \/ ShowFeed
           \/ AnswerUnstampedFavourites \/ AnswerUnstampedMyPosts
  BY <1>1 DEF Kill, FailPosts, AnswerUnstampedPosts, ShowFeed,
              AnswerUnstampedFavourites, AnswerUnstampedMyPosts, Die
<1>2. CASE Launch \/ Pull
  BY <1>2 DEF Launch, Pull, Idle, WatermarkInv, handlerVars
<1>3. CASE \/ OpenFavorites \/ AnswerFavourites \/ FailFavourites \/ AnswerMyPosts
           \/ Acknowledge
           \/ \E p \in PostId : \/ AddPost(p) \/ UpdateMyPost(p) \/ DeleteMyPost(p)
                                \/ Star(p) \/ Unstar(p)
  <2>1. phase = "idle"
    BY <1>3 DEF OpenFavorites, AnswerFavourites, FailFavourites, FavouritesArrive,
       AnswerMyPosts, Acknowledge, AddPost, UpdateMyPost, DeleteMyPost, Star,
       Unstar, UserWrites, Idle
  <2>2. phase' = phase
    BY <1>3 DEF OpenFavorites, AnswerFavourites, FailFavourites, FavouritesArrive,
       AnswerMyPosts, MyPostsArrive, Acknowledge, PostDataEvent, PostDeleted,
       NothingShown, AddPost, UpdateMyPost, DeleteMyPost, Star,
       Unstar, UserWrites, appVars, handlerVars
  <2>3. QED BY <2>1, <2>2
<1>4. QED BY <1>1, <1>2, <1>3 DEF Next

-----------------------------------------------------------------------------
(* Deletes, and refusals of deletes, are of the user's own posts.          *)

OnlyMine ==
  /\ myPosts \subseteq Mine
  /\ refused \subseteq Mine
  /\ \A p \in PostId : Deleting(p) => p \in Mine

(* Each write of the user, as what it enqueues and why it may. *)
LEMMA UserEnqueues ==
  ASSUME TypeOK, NEW p \in PostId,
         \/ AddPost(p) \/ UpdateMyPost(p) \/ DeleteMyPost(p)
         \/ Star(p) \/ Unstar(p)
  PROVE  \E mutations \in Seq(Mutation) :
           /\ UserWrites(mutations)
           /\ \A n \in DOMAIN mutations : mutations[n].id = p
           /\ \/ /\ mutations = <<[op |-> "add", id |-> p]>>
                 /\ p \in Mine \ published /\ ~Queued("add", p)
              \/ mutations = <<[op |-> "update", id |-> p]>> /\ p \in myPosts
              \/ /\ mutations = <<[op |-> "delete", id |-> p],
                                  [op |-> "unstar", id |-> p]>>
                 /\ p \in myPosts
              \/ mutations = <<[op |-> "star", id |-> p]>> /\ data[p] # NoRow
              \/ mutations = <<[op |-> "unstar", id |-> p]>>
<1>1. \A op \in Ops : /\ <<[op |-> op, id |-> p]>> \in Seq(Mutation)
                      /\ \A n \in DOMAIN <<[op |-> op, id |-> p]>> :
                           <<[op |-> op, id |-> p]>>[n].id = p
  BY UserMutations
<1> DEFINE both == <<[op |-> "delete", id |-> p], [op |-> "unstar", id |-> p]>>
<1>2. both \in Seq(Mutation) /\ \A n \in DOMAIN both : both[n].id = p
  <2>1. "delete" \in Ops /\ "unstar" \in Ops
    BY DEF Ops
  <2>2. both \in Seq(Mutation)
    BY <2>1, UserMutations
  <2>3. QED BY <2>2
<1>3. CASE AddPost(p)
  BY <1>1, <1>3 DEF AddPost, Ops
<1>4. CASE UpdateMyPost(p)
  BY <1>1, <1>4 DEF UpdateMyPost, Ops
<1>5. CASE DeleteMyPost(p)
  BY <1>2, <1>5 DEF DeleteMyPost
<1>6. CASE Star(p)
  BY <1>1, <1>6 DEF Star, Ops
<1>7. CASE Unstar(p)
  BY <1>1, <1>7 DEF Unstar, Ops
<1>8. QED BY <1>3, <1>4, <1>5, <1>6, <1>7

(* The steps that change neither the queue nor the server. *)
LEMMA QuietSteps ==
  ASSUME \/ Launch \/ Pull \/ Kill \/ AnswerPosts \/ AnswerUnstampedPosts
         \/ FailPosts \/ (\E p \in PostId : MergePost(p)) \/ StoreLastUpdate
         \/ OpenFavorites \/ AnswerFavourites \/ AnswerUnstampedFavourites
         \/ FailFavourites \/ AnswerMyPosts \/ AnswerUnstampedMyPosts
         \/ UNCHANGED vars
  PROVE  UNCHANGED <<cloud, favs, clock, published, refused, queue>>
<1>1. CASE \/ Launch \/ Pull \/ (\E p \in PostId : MergePost(p)) \/ StoreLastUpdate
           \/ OpenFavorites \/ AnswerFavourites \/ FailFavourites
           \/ UNCHANGED vars
  BY <1>1 DEF Launch, Pull, MergePost, StoreLastUpdate, OpenFavorites,
     AnswerFavourites, FailFavourites, FavouritesArrive, vars, firestoreVars,
     serverVars
<1>2. CASE \/ Kill \/ AnswerUnstampedPosts \/ FailPosts
           \/ AnswerUnstampedFavourites \/ AnswerUnstampedMyPosts
  BY <1>2 DEF Kill, AnswerUnstampedPosts, FailPosts, AnswerUnstampedFavourites,
     AnswerUnstampedMyPosts, Die, serverVars
<1>3. CASE AnswerPosts \/ AnswerMyPosts
  BY <1>3 DEF AnswerPosts, PostsArrive, AnswerMyPosts, MyPostsArrive, serverVars
<1>4. QED BY <1>1, <1>2, <1>3

LEMMA OnlyMineKept ==
  ASSUME TypeOK, OnlyMine, [Next]_vars
  PROVE  OnlyMine'
<1>1. queue \in Seq(Mutation)
  BY DEF TypeOK, FirestoreTypeOK
<1>2. CASE \/ Launch \/ Pull \/ Kill \/ AnswerPosts \/ AnswerUnstampedPosts
           \/ FailPosts \/ (\E p \in PostId : MergePost(p)) \/ StoreLastUpdate
           \/ OpenFavorites \/ AnswerFavourites \/ AnswerUnstampedFavourites
           \/ FailFavourites \/ AnswerMyPosts \/ AnswerUnstampedMyPosts
           \/ UNCHANGED vars
  <2>1. UNCHANGED <<refused, queue>>
    BY <1>2, QuietSteps
  <2>2. CASE AnswerMyPosts
    BY <2>1, <2>2, SameQueueSameDeleting DEF OnlyMine, AnswerMyPosts, MyPostsArrive
  <2>3. CASE \/ Kill \/ AnswerUnstampedPosts \/ FailPosts
             \/ AnswerUnstampedFavourites \/ AnswerUnstampedMyPosts
    <3>1. myPosts' = {}
      BY <2>3 DEF Kill, AnswerUnstampedPosts, FailPosts,
         AnswerUnstampedFavourites, AnswerUnstampedMyPosts, Die
    <3>2. QED BY <2>1, <3>1, SameQueueSameDeleting DEF OnlyMine
  <2>4. CASE \/ Launch \/ Pull \/ AnswerPosts
             \/ (\E p \in PostId : MergePost(p)) \/ StoreLastUpdate
             \/ OpenFavorites \/ AnswerFavourites \/ FailFavourites
             \/ UNCHANGED vars
    <3>1. UNCHANGED myPosts
      BY <2>4 DEF Launch, Pull, AnswerPosts, PostsArrive, MergePost,
         StoreLastUpdate, OpenFavorites, AnswerFavourites, FailFavourites,
         FavouritesArrive, vars, appVars, screenVars
    <3>2. QED BY <2>1, <3>1, SameQueueSameDeleting DEF OnlyMine
  <2>5. QED BY <1>2, <2>2, <2>3, <2>4
<1>3. CASE ShowFeed
  <2>1. PICK mutations \in Seq(Mutation) :
          /\ Enqueue(mutations)
          /\ \A n \in DOMAIN mutations : mutations[n].op = "unstar"
    BY <1>3, CleanupEnqueues
  <2>2. \A p \in PostId : Deleting(p)' => Deleting(p)
    BY <1>1, <2>1, QueuedJoined DEF Deleting
  <2>3. QED BY <1>3, <2>2 DEF OnlyMine, ShowFeed, serverVars
<1>4. CASE \E p \in PostId :
             \/ AddPost(p) \/ UpdateMyPost(p) \/ DeleteMyPost(p)
             \/ Star(p) \/ Unstar(p)
  <2>1. PICK p \in PostId, mutations \in Seq(Mutation) :
          /\ UserWrites(mutations)
          /\ \A n \in DOMAIN mutations :
               mutations[n].op = "delete" => mutations[n].id \in myPosts
    BY <1>4, UserEnqueues
  <2>2. \A q \in PostId : Deleting(q)' => Deleting(q) \/ q \in myPosts
    BY <1>1, <2>1, QueuedJoined DEF Deleting, UserWrites
  <2>3. QED BY <2>1, <2>2 DEF OnlyMine, UserWrites, serverVars, screenVars
<1>5. CASE Acknowledge \/ AcknowledgeNobody
  <2> DEFINE p == Head(queue).id
  <2>1. /\ queue # <<>> /\ queue' = Tail(queue) /\ UNCHANGED myPosts
        /\ \/ AcceptPut(p) \/ AcceptDelete(p) \/ AcceptStar(p)
           \/ AcceptUnstar(p) \/ Refuse(p)
    BY <1>5 DEF Acknowledge, AcknowledgeNobody, PostDataEvent, PostDeleted,
       NothingShown, appVars, screenVars
  <2>2. /\ \A op, q : Queued(op, q)' => Queued(op, q)
        /\ Queued(Head(queue).op, p)
        /\ p \in PostId
    BY <1>1, <2>1, QueuedTail, HeadType
  <2>3. \A q \in refused' : q \in refused \/ (q = p /\ Head(queue).op = "delete")
    BY <2>1 DEF AcceptPut, Commit, AcceptDelete, Erase, AcceptStar, AcceptUnstar, Refuse
  <2>4. QED BY <2>1, <2>2, <2>3 DEF OnlyMine, Deleting
<1>6. CASE Elsewhere
  <2>1. PICK p \in PostId : RemotePut(p) \/ RemoteDelete(p)
    BY <1>6 DEF Elsewhere
  <2>2. UNCHANGED <<queue, myPosts>> /\ refused' \subseteq refused
    BY <1>6, <2>1 DEF Elsewhere, appVars, screenVars, RemotePut, RemoteDelete,
       Commit, Erase
  <2>3. QED BY <2>2, SameQueueSameDeleting DEF OnlyMine
<1>7. QED BY <1>2, <1>3, <1>4, <1>5, <1>6 DEF Next

LEMMA OnlyMineHolds == Spec => []OnlyMine
<1>1. Init => OnlyMine
  BY DEF Init, FirestoreInit, OnlyMine, Deleting, Queued
<1>2. TypeOK /\ OnlyMine /\ [Next]_vars => OnlyMine'
  BY OnlyMineKept
<1>3. QED BY <1>1, <1>2, TypeCorrect, PTL DEF Spec

-----------------------------------------------------------------------------
(***************************************************************************)
(* What is known of the posts of an answer until they are shown: no write  *)
(* of theirs waits, since the SDK would have shown its effect or the cast  *)
(* of the timestamp failed; and, unless the answer is excused, their rows  *)
(* are up to date or still to be written.                                  *)
(***************************************************************************)
AnswerSettled ==
  phase # "idle" =>
    \A p \in PostId : \A op \in {"add", "update", "delete"} :
      snap[p] # 0 => ~Queued(op, p)

Copied(p) == rows[p] = snap[p] \/ (p \in todo /\ Newer(p))

AnswerCopied ==
  phase # "idle" /\ ~stale =>
    \A p \in PostId :
      snap[p] # 0 /\ p \notin refused /\ ~Crowded(snap[p]) => Copied(p)

LEMMA AnswerSettledKept ==
  ASSUME TypeOK, WatermarkInv, AnswerSettled, [Next]_vars
  PROVE  AnswerSettled'
<1> SUFFICES ASSUME phase' # "idle"
             PROVE  \A p \in PostId : \A op \in {"add", "update", "delete"} :
                      snap'[p] # 0 => ~Queued(op, p)'
  BY DEF AnswerSettled
<1>1. CASE AnswerPosts
  <2>1. PICK docs : PostsArrive(docs) /\ Unstamped(docs) = {}
    BY <1>1 DEF AnswerPosts
  <2>2. UNCHANGED queue /\ snap' = PostsView(docs)
    BY <2>1 DEF PostsArrive
  <2>3. ASSUME NEW p \in PostId, snap'[p] # 0
        PROVE  ~Queued("add", p) /\ ~Queued("update", p) /\ ~Queued("delete", p)
    BY <2>1, <2>2, <2>3 DEF PostsView, Unstamped, Deleting
  <2>4. QED BY <2>2, <2>3 DEF Queued
<1>2. CASE \/ \E p \in PostId : MergePost(p)
           \/ StoreLastUpdate \/ AcknowledgeNobody \/ Elsewhere
           \/ UNCHANGED vars
  <2>1. UNCHANGED snap /\ phase # "idle"
    BY <1>2 DEF MergePost, StoreLastUpdate, AcknowledgeNobody, Elsewhere, appVars,
       handlerVars, vars
  <2>2. \A op, p : Queued(op, p)' => Queued(op, p)
    <3>1. CASE AcknowledgeNobody
      BY <3>1, QueuedTail DEF AcknowledgeNobody, TypeOK, FirestoreTypeOK
    <3>2. CASE UNCHANGED queue
      BY <3>2 DEF Queued
    <3>3. QED
      BY <1>2, <3>1, <3>2 DEF MergePost, StoreLastUpdate, Elsewhere, RemotePut,
         RemoteDelete, vars, firestoreVars
  <2>3. QED BY <2>1, <2>2 DEF AnswerSettled
<1>3. QED BY <1>1, <1>2, HandlerSteps

LEMMA AnswerCopiedKept ==
  ASSUME TypeOK, WatermarkInv, OnlyMine, AnswerSettled, AnswerCopied, [Next]_vars
  PROVE  AnswerCopied'
<1> SUFFICES ASSUME phase' # "idle", ~stale', NEW p \in PostId,
                    snap'[p] # 0, p \notin refused', ~Crowded(snap'[p])
             PROVE  Copied(p)'
  BY DEF AnswerCopied, Crowded
<1>1. CASE AnswerPosts
  <2>1. PICK docs : PostsArrive(docs) /\ postReads # <<>>
    BY <1>1 DEF AnswerPosts
  <2>2. /\ docs = cloud /\ ~stale
        /\ snap' = PostsView(docs) /\ UNCHANGED <<rows, refused>>
        /\ todo' = {q \in PostId : snap'[q] # 0} /\ lud' = Head(postReads)
    BY <2>1 DEF PostsArrive, serverVars, sqlVars
  <2>3. snap'[p] = cloud[p] /\ cloud[p] # 0 /\ ~Deleting(p)
    BY <2>2 DEF PostsView
  <2>4. lud' \in Watermarks /\ lud' \in Nat
    <3>1. postReads \in Seq(Dates)
      BY DEF TypeOK
    <3>2. 1 \in DOMAIN postReads /\ lud' = postReads[1]
      BY <2>1, <2>2, <3>1
    <3>3. lud' \in Watermarks
      BY <3>2 DEF Watermarks
    <3>4. QED BY <3>3, WatermarksTyped
  <2>5. Second[cloud[p]] \in Nat
    BY SecondIsNat DEF TypeOK, FirestoreTypeOK
  <2>6. CASE Second[cloud[p]] > lud'
    BY <2>2, <2>3, <2>6 DEF Copied, Newer
  <2>7. CASE Second[cloud[p]] <= lud'
    <3>1. Sound(lud')
      BY <2>2, <2>4 DEF WatermarkInv
    <3>2. ~Excused(p)
      BY <2>2, <2>3 DEF Excused
    <3>3. rows[p] = cloud[p]
      BY <2>3, <2>7, <3>1, <3>2 DEF Sound
    <3>4. QED BY <2>2, <2>3, <3>3 DEF Copied
  <2>8. QED BY <2>4, <2>5, <2>6, <2>7
<1>2. ASSUME NEW q \in PostId, MergePost(q)
      PROVE  Copied(p)'
  <2>1. /\ UNCHANGED <<snap, refused, stale, phase>>
        /\ phase = "merge" /\ q \in todo /\ todo' = todo \ {q}
        /\ \A x \in todo : snap[q] <= snap[x]
        /\ rows' = IF Newer(q) THEN addPost(rows, q, snap[q]) ELSE rows
        /\ lud' = IF Newer(q) THEN Second[snap[q]] ELSE lud
    BY <1>2 DEF MergePost, NextInAnswer, firestoreVars, serverVars
  <2>2. Copied(p)
    BY <2>1 DEF AnswerCopied, Crowded
  <2>3. /\ rows \in [PostId -> Commits] /\ snap \in [PostId -> Commits]
        /\ snap[p] \in Commits /\ snap[q] \in Commits
        /\ todo \subseteq PostId
    BY DEF TypeOK
  <2>4. snap[p] \in Nat /\ snap[q] \in Nat
        /\ Second[snap[p]] \in Nat /\ Second[snap[q]] \in Nat
    BY <2>3, SecondIsNat, FirestoreAssumption DEF Commits
  <2>5. CASE p = q
    <3>1. CASE Newer(q)
      <4>1. rows'[p] = snap[p]
        BY <2>1, <2>3, <2>5, <3>1 DEF addPost
      <4>2. QED BY <2>1, <4>1 DEF Copied
    <3>2. CASE ~Newer(q)
      <4>1. rows' = rows /\ rows[p] = snap[p]
        BY <2>1, <2>2, <2>5, <3>2 DEF Copied
      <4>2. QED BY <2>1, <4>1 DEF Copied
    <3>3. QED BY <3>1, <3>2
  <2>6. CASE p # q
    <3>1. rows'[p] = rows[p]
      BY <2>1, <2>3, <2>6 DEF addPost
    <3>2. CASE rows[p] = snap[p]
      BY <2>1, <3>1, <3>2 DEF Copied
    <3>3. CASE p \in todo /\ Newer(p)
      <4>1. snap[q] # 0 /\ snap[q] # snap[p] /\ snap[q] <= snap[p]
        BY <2>1, <2>6, <3>3 DEF WatermarkInv, Numbered
      <4>2. snap[q] < snap[p]
        BY <2>4, <4>1
      <4>3. Second[snap[q]] <= Second[snap[p]]
        BY <2>3, <4>1, SecondsOrdered
      <4>4. Second[snap[q]] # Second[snap[p]]
        BY <2>1, <2>3, <4>1, <4>2, SameSecondCrowded DEF Crowded
      <4>5. Second[snap[q]] < Second[snap[p]]
        BY <2>4, <4>3, <4>4
      <4>6. Second[snap[p]] > lud'
        BY <2>1, <3>3, <4>5 DEF Newer
      <4>7. p \in todo'
        BY <2>1, <2>6, <3>3
      <4>8. QED BY <2>1, <4>6, <4>7 DEF Copied, Newer
    <3>4. QED BY <2>2, <3>2, <3>3 DEF Copied
  <2>7. QED BY <2>5, <2>6
<1>3. CASE StoreLastUpdate
  <2>1. UNCHANGED <<snap, refused, stale, todo, rows, lud>> /\ phase # "idle"
    BY <1>3 DEF StoreLastUpdate, firestoreVars, serverVars
  <2>2. QED BY <2>1 DEF AnswerCopied, Copied, Newer, Crowded
<1>4. CASE AcknowledgeNobody \/ Elsewhere \/ UNCHANGED vars
  <2>1. UNCHANGED <<snap, stale, todo, rows, lud, phase>>
    BY <1>4 DEF AcknowledgeNobody, Elsewhere, vars, sqlVars, appVars, handlerVars
  <2>2. p \notin refused
    <3>1. CASE AcknowledgeNobody
      <4> DEFINE h == Head(queue).id
      <4>1. /\ queue \in Seq(Mutation) /\ queue # <<>> /\ queue' = Tail(queue)
            /\ \/ AcceptPut(h) \/ AcceptDelete(h) \/ AcceptStar(h)
               \/ AcceptUnstar(h) \/ Refuse(h)
        BY <3>1 DEF AcknowledgeNobody, TypeOK, FirestoreTypeOK
      <4>2. Queued(Head(queue).op, h)
        BY <4>1, QueuedTail
      <4>3. CASE AcceptPut(h) \/ AcceptDelete(h)
        <5>1. Head(queue).op \in {"add", "update", "delete"} /\ refused' = refused \ {h}
          BY <4>3 DEF AcceptPut, AcceptDelete, Commit, Erase
        <5>2. p # h
          BY <2>1, <4>2, <5>1 DEF AnswerSettled
        <5>3. QED BY <5>1, <5>2
      <4>4. CASE AcceptStar(h) \/ AcceptUnstar(h) \/ Refuse(h)
        BY <4>4 DEF AcceptStar, AcceptUnstar, Refuse
      <4>5. QED BY <4>1, <4>3, <4>4
    <3>2. CASE Elsewhere
      <4>1. PICK h \in PostId : RemotePut(h) \/ RemoteDelete(h)
        BY <3>2 DEF Elsewhere
      <4>2. h \notin Mine /\ refused' = refused \ {h}
        BY <4>1 DEF RemotePut, RemoteDelete, Commit, Erase
      <4>3. QED BY <4>2 DEF OnlyMine
    <3>3. CASE UNCHANGED vars
      BY <3>3 DEF vars, firestoreVars, serverVars
    <3>4. QED BY <1>4, <3>1, <3>2, <3>3
  <2>3. QED BY <2>1, <2>2 DEF AnswerCopied, Copied, Newer, Crowded
<1>5. QED BY <1>1, <1>2, <1>3, <1>4, HandlerSteps

LEMMA AnswerHolds == Spec => [](AnswerSettled /\ AnswerCopied)
<1>1. Init => AnswerSettled /\ AnswerCopied
  BY DEF Init, AnswerSettled, AnswerCopied
<1>2. TypeOK /\ WatermarkInv /\ OnlyMine /\ AnswerSettled /\ AnswerCopied /\ [Next]_vars
      => AnswerSettled' /\ AnswerCopied'
  BY AnswerSettledKept, AnswerCopiedKept
<1>3. QED
  BY <1>1, <1>2, TypeCorrect, WatermarkInvariant, OnlyMineHolds, PTL DEF Spec

(***************************************************************************)
(* A post of the answer is missing or old in the list only if an answer    *)
(* ever came from a cache that was behind, the server refused to delete    *)
(* the post, or an earlier commit of the same second used up the date.     *)
(***************************************************************************)
THEOREM FeedIsExplained == Spec => FeedExplained
<1> DEFINE Explained ==
      \A p \in PostId :
        snap[p] # 0 /\ ~stale /\ p \notin refused /\ ~Crowded(snap[p])
        => data'[p] = snap[p]
<1>1. TypeOK /\ WatermarkInv /\ AnswerCopied /\ [Next]_vars
      => [ListShown => Explained]_vars
  <2> SUFFICES ASSUME TypeOK, WatermarkInv, AnswerCopied, [Next]_vars, ListShown,
                      NEW p \in PostId, snap[p] # 0, ~stale, p \notin refused,
                      ~Crowded(snap[p])
               PROVE  data'[p] = snap[p]
    OBVIOUS
  <2>1. ShowFeed
    BY ShownByShowFeed
  <2>2. /\ data' = Listed(rows, postSet) /\ phase = "show"
        /\ rows \in [PostId -> Commits]
    BY <2>1 DEF ShowFeed, TypeOK
  <2>3. rows[p] = snap[p]
    BY <2>2 DEF AnswerCopied, Copied, WatermarkInv
  <2>4. p \in postSet
    BY <2>2 DEF WatermarkInv, AnswerTracked
  <2>5. QED BY <2>2, <2>3, <2>4 DEF Listed
<1>2. QED
  BY <1>1, TypeCorrect, WatermarkInvariant, AnswerHolds, PTL
  DEF Spec, FeedExplained

-----------------------------------------------------------------------------
(* When there is no excuse, the list is complete.                          *)

NoExcuse == ~stale /\ refused = {}

LEMMA NoExcuseKept ==
  ASSUME "delete" \notin Refusable, ~FallBackToCache, TypeOK, NoExcuse, [Next]_vars
  PROVE  NoExcuse'
<1>1. refused' = {}
  <2>1. CASE \/ Launch \/ Pull \/ Kill \/ AnswerPosts \/ AnswerUnstampedPosts
             \/ FailPosts \/ (\E p \in PostId : MergePost(p)) \/ StoreLastUpdate
             \/ OpenFavorites \/ AnswerFavourites \/ AnswerUnstampedFavourites
             \/ FailFavourites \/ AnswerMyPosts \/ AnswerUnstampedMyPosts
             \/ UNCHANGED vars
    BY <2>1, QuietSteps DEF NoExcuse
  <2>2. CASE \/ ShowFeed
             \/ \E p \in PostId : \/ AddPost(p) \/ UpdateMyPost(p) \/ DeleteMyPost(p)
                                  \/ Star(p) \/ Unstar(p)
    BY <2>2 DEF NoExcuse, ShowFeed, AddPost, UpdateMyPost, DeleteMyPost, Star,
       Unstar, UserWrites, serverVars
  <2>3. CASE Acknowledge \/ AcknowledgeNobody
    BY <2>3 DEF NoExcuse, Acknowledge, AcknowledgeNobody, AcceptPut, Commit,
       AcceptDelete, Erase, AcceptStar, AcceptUnstar, Refuse
  <2>4. CASE Elsewhere
    BY <2>4 DEF NoExcuse, Elsewhere, RemotePut, RemoteDelete, Commit, Erase
  <2>5. QED BY <2>1, <2>2, <2>3, <2>4 DEF Next
<1>2. ~stale'
  <2>1. CASE AnswerPosts
    BY <2>1 DEF NoExcuse, AnswerPosts, PostsArrive, Sources
  <2>2. CASE \/ Kill \/ AnswerUnstampedPosts \/ FailPosts
             \/ AnswerUnstampedFavourites \/ AnswerUnstampedMyPosts
    BY <2>2 DEF NoExcuse, Kill, AnswerUnstampedPosts, FailPosts,
       AnswerUnstampedFavourites, AnswerUnstampedMyPosts, Die
  <2>3. CASE \/ Launch \/ Pull \/ (\E p \in PostId : MergePost(p))
             \/ StoreLastUpdate \/ ShowFeed \/ OpenFavorites
             \/ AnswerFavourites \/ FailFavourites \/ AnswerMyPosts
    BY <2>3 DEF NoExcuse, Launch, Pull, MergePost, StoreLastUpdate, ShowFeed,
       OpenFavorites, AnswerFavourites, FailFavourites, FavouritesArrive,
       AnswerMyPosts, MyPostsArrive
  <2>4. CASE \E p \in PostId : \/ AddPost(p) \/ UpdateMyPost(p) \/ DeleteMyPost(p)
                               \/ Star(p) \/ Unstar(p)
    BY <2>4 DEF NoExcuse, AddPost, UpdateMyPost, DeleteMyPost, Star, Unstar,
       UserWrites
  <2>5. CASE \/ Acknowledge \/ AcknowledgeNobody \/ Elsewhere \/ UNCHANGED vars
    BY <2>5 DEF NoExcuse, Acknowledge, PostDataEvent, PostDeleted, NothingShown,
       AcknowledgeNobody, Elsewhere, vars, appVars
  <2>6. QED BY <2>1, <2>2, <2>3, <2>4, <2>5 DEF Next
<1>3. QED BY <1>1, <1>2 DEF NoExcuse

(***************************************************************************)
(* Model.getAllPosts keeps its claim, the complete list, when the server   *)
(* refuses no delete, no answer comes from the SDK's cache and no two      *)
(* commits share a second; FeedSameSecond shows that the last is needed.   *)
(***************************************************************************)
THEOREM FeedIsComplete ==
  ASSUME "delete" \notin Refusable, ~FallBackToCache,
         \A m, n \in Commits : Second[m] = Second[n] => m = n
  PROVE  Spec => FeedComplete
<1> DEFINE Complete == \A p \in PostId : snap[p] # 0 => data'[p] = snap[p]
<1> DEFINE Explained ==
      \A p \in PostId :
        snap[p] # 0 /\ ~stale /\ p \notin refused /\ ~Crowded(snap[p])
        => data'[p] = snap[p]
<1>1. Init => NoExcuse
  BY DEF Init, FirestoreInit, NoExcuse
<1>2. TypeOK /\ NoExcuse /\ [Next]_vars => NoExcuse'
  BY NoExcuseKept
<1>3. TypeOK /\ NoExcuse /\ [ListShown => Explained]_vars => [ListShown => Complete]_vars
  <2> SUFFICES ASSUME TypeOK, NoExcuse, Explained, NEW p \in PostId, snap[p] # 0
               PROVE  data'[p] = snap[p]
    OBVIOUS
  <2>1. ~Crowded(snap[p])
    <3>1. snap[p] \in Commits /\ MaxCommits \in Nat
      BY FirestoreAssumption DEF TypeOK
    <3>2. \A m \in 1 .. (snap[p] - 1) : m \in Commits /\ m # snap[p]
      BY <3>1 DEF Commits
    <3>3. QED BY <3>1, <3>2 DEF Crowded
  <2>2. QED BY <2>1 DEF NoExcuse
<1>4. QED
  BY <1>1, <1>2, <1>3, TypeCorrect, FeedIsExplained, PTL
  DEF Spec, FeedExplained, FeedComplete

-----------------------------------------------------------------------------
(***************************************************************************)
(* The clean-up spares living posts.  What it rests on: the SDK's cache    *)
(* has every living post the app has met, so that an answer from the cache *)
(* lacks none of them; and the writes of an ended process, answered while  *)
(* a handler runs, cannot bring back a post whose favourite was read.      *)
(***************************************************************************)

(* A post the server has, or the cache keeps, has been published. *)
DocsPublished ==
  \A p \in PostId : cloud[p] # 0 \/ lastSeen[p] # 0 => p \in published

(* A post is added once, and by its author. *)
AddsNew ==
  \A i \in DOMAIN queue :
    queue[i].op = "add" =>
      /\ queue[i].id \in Mine
      /\ queue[i].id \notin published
      /\ \A j \in DOMAIN queue : queue[j] = queue[i] => j = i

(* Once published, in the cache as long as it is on the server. *)
Known(p) == p \in published /\ (cloud[p] # 0 => lastSeen[p] # 0)

(* The app shows the post, has its id, or has written its favourite. *)
Met(p) ==
  \/ p \in postSet
  \/ p \in favoritePostSet
  \/ p \in favs
  \/ data[p] # NoRow
  \/ Queued("star", p)

MetKnown == \A p \in PostId : Met(p) => Known(p)

(* What a step of the server, or an answer, does to documents. *)
LEMMA DocsKept ==
  ASSUME TypeOK, DocsPublished, AddsNew, [Next]_vars
  PROVE  /\ DocsPublished'
         /\ \A p \in PostId : Known(p) => Known(p)'
<1>1. /\ clock \in Nat
      /\ cloud \in [PostId -> Commits] /\ lastSeen \in [PostId -> Commits]
      /\ queue \in Seq(Mutation)
  BY FirestoreAssumption DEF TypeOK, FirestoreTypeOK, Commits
<1>2. CASE UNCHANGED <<cloud, published, lastSeen>>
  BY <1>2 DEF DocsPublished, Known
<1>3. CASE AnswerPosts \/ AnswerMyPosts
  <2>1. PICK docs \in Sources : PostsArrive(docs) \/ MyPostsArrive(docs)
    BY <1>3 DEF AnswerPosts, AnswerMyPosts
  <2>2. lastSeen' = docs /\ UNCHANGED <<cloud, published>>
        /\ (docs = cloud \/ docs = lastSeen)
    BY <2>1 DEF PostsArrive, MyPostsArrive, Sources, serverVars
  <2>3. QED BY <2>2 DEF DocsPublished, Known
<1>4. CASE Acknowledge \/ AcknowledgeNobody
  <2> DEFINE h == Head(queue).id
  <2>1. /\ h \in PostId
        /\ \/ AcceptPut(h) \/ AcceptDelete(h)
           \/ AcceptStar(h) \/ AcceptUnstar(h) \/ Refuse(h)
    BY <1>1, <1>4, HeadType DEF Acknowledge, AcknowledgeNobody
  <2>2. CASE AcceptPut(h)
    <3>1. /\ published' = published \cup {h}
          /\ \A q \in PostId : /\ cloud'[q] = IF q = h THEN clock + 1 ELSE cloud[q]
                               /\ lastSeen'[q] = IF q = h THEN clock + 1 ELSE lastSeen[q]
      BY <1>1, <2>2 DEF AcceptPut, Commit
    <3>2. clock + 1 # 0
      BY <1>1
    <3>3. QED BY <2>1, <3>1, <3>2 DEF DocsPublished, Known
  <2>3. CASE AcceptDelete(h)
    <3>1. /\ published' = published
          /\ \A q \in PostId : /\ cloud'[q] = IF q = h THEN 0 ELSE cloud[q]
                               /\ lastSeen'[q] = IF q = h THEN 0 ELSE lastSeen[q]
      BY <1>1, <2>3 DEF AcceptDelete, Erase
    <3>2. QED BY <3>1 DEF DocsPublished, Known
  <2>4. CASE AcceptStar(h) \/ AcceptUnstar(h) \/ Refuse(h)
    BY <1>2, <2>4 DEF AcceptStar, AcceptUnstar, Refuse
  <2>5. QED BY <2>1, <2>2, <2>3, <2>4
<1>5. CASE Elsewhere
  <2>1. PICK h \in PostId : RemotePut(h) \/ RemoteDelete(h)
    BY <1>5 DEF Elsewhere
  <2>2. CASE RemotePut(h)
    <3>1. /\ published' = published \cup {h} /\ UNCHANGED lastSeen
          /\ h \in published => cloud[h] # 0
          /\ \A q \in PostId : cloud'[q] = IF q = h THEN clock + 1 ELSE cloud[q]
      BY <1>1, <2>2 DEF RemotePut, Commit
    <3>2. QED BY <2>1, <3>1 DEF DocsPublished, Known
  <2>3. CASE RemoteDelete(h)
    <3>1. /\ UNCHANGED <<published, lastSeen>>
          /\ \A q \in PostId : cloud'[q] = IF q = h THEN 0 ELSE cloud[q]
      BY <1>1, <2>3 DEF RemoteDelete, Erase
    <3>2. QED BY <3>1 DEF DocsPublished, Known
  <2>4. QED BY <2>1, <2>2, <2>3
<1>6. CASE \/ Launch \/ Pull \/ (\E p \in PostId : MergePost(p)) \/ StoreLastUpdate
           \/ ShowFeed \/ OpenFavorites \/ AnswerFavourites \/ FailFavourites
           \/ UNCHANGED vars
  BY <1>2, <1>6 DEF Launch, Pull, MergePost, StoreLastUpdate, ShowFeed,
     OpenFavorites, AnswerFavourites, FailFavourites, FavouritesArrive, vars,
     firestoreVars, serverVars
<1>7. CASE \E p \in PostId : \/ AddPost(p) \/ UpdateMyPost(p) \/ DeleteMyPost(p)
                             \/ Star(p) \/ Unstar(p)
  BY <1>2, <1>7 DEF AddPost, UpdateMyPost, DeleteMyPost, Star, Unstar, UserWrites,
     serverVars
<1>8. CASE \/ Kill \/ AnswerUnstampedPosts \/ FailPosts
           \/ AnswerUnstampedFavourites \/ AnswerUnstampedMyPosts
  BY <1>2, <1>8 DEF Kill, AnswerUnstampedPosts, FailPosts,
     AnswerUnstampedFavourites, AnswerUnstampedMyPosts, Die, serverVars
<1>9. QED BY <1>3, <1>4, <1>5, <1>6, <1>7, <1>8 DEF Next

(* A post is met first in an answer. *)
LEMMA MetBefore ==
  ASSUME TypeOK, [Next]_vars, NEW p \in PostId, Met(p)'
  PROVE  Met(p) \/ (AnswerPosts /\ snap'[p] # 0)
<1>1. queue \in Seq(Mutation)
  BY DEF TypeOK, FirestoreTypeOK
<1>2. CASE /\ postSet' \subseteq postSet /\ favoritePostSet' \subseteq favoritePostSet
           /\ favs' \subseteq favs /\ (data'[p] # NoRow => data[p] # NoRow)
           /\ Queued("star", p)' => Queued("star", p)
  BY <1>2 DEF Met
<1>3. UNCHANGED queue => (Queued("star", p)' <=> Queued("star", p))
  BY DEF Queued
<1>4. CASE Launch \/ Pull
  BY <1>2, <1>3, <1>4 DEF Launch, Pull, reloadData, CaptureDateAndRead,
     getAllPosts, firestoreVars, serverVars
<1>5. CASE \/ Kill \/ AnswerUnstampedPosts \/ FailPosts
           \/ AnswerUnstampedFavourites \/ AnswerUnstampedMyPosts
  BY <1>2, <1>3, <1>5 DEF Kill, AnswerUnstampedPosts, FailPosts,
     AnswerUnstampedFavourites, AnswerUnstampedMyPosts, Die, NoRows, serverVars
<1>6. CASE AnswerPosts
  <2>1. PICK docs : PostsArrive(docs)
    BY <1>6 DEF AnswerPosts
  <2>2. /\ UNCHANGED <<favoritePostSet, favs, data, queue>>
        /\ postSet' = postSet \cup {q \in PostId : snap'[q] # 0}
    BY <2>1 DEF PostsArrive, serverVars, screenVars
  <2>3. QED BY <1>3, <1>6, <2>2 DEF Met
<1>7. CASE \/ (\E q \in PostId : MergePost(q)) \/ StoreLastUpdate
           \/ OpenFavorites \/ AnswerMyPosts \/ UNCHANGED vars
  BY <1>2, <1>3, <1>7 DEF MergePost, StoreLastUpdate, OpenFavorites, AnswerMyPosts,
     MyPostsArrive, vars, firestoreVars, serverVars, appVars, setVars, screenVars
<1>8. CASE ShowFeed
  <2>1. PICK mutations \in Seq(Mutation) :
          /\ Enqueue(mutations)
          /\ \A n \in DOMAIN mutations : mutations[n].op = "unstar"
    BY <1>8, CleanupEnqueues
  <2>2. Queued("star", p)' => Queued("star", p)
    BY <1>1, <2>1, QueuedJoined
  <2>3. /\ UNCHANGED <<postSet, favoritePostSet, favs>>
        /\ data'[p] # NoRow => p \in postSet
    BY <1>8 DEF ShowFeed, Listed, serverVars, setVars, TypeOK
  <2>4. QED BY <2>2, <2>3 DEF Met
<1>9. CASE AnswerFavourites \/ FailFavourites
  <2>1. UNCHANGED <<postSet, favs, data, queue>>
    BY <1>9 DEF AnswerFavourites, FailFavourites, FavouritesArrive, firestoreVars,
       serverVars, screenVars
  <2>2. p \in favoritePostSet' => p \in favoritePostSet \/ p \in favs
    BY <1>9 DEF AnswerFavourites, FailFavourites, FavouritesArrive, FavouritesView
  <2>3. QED BY <1>3, <2>1, <2>2 DEF Met
<1>10. ASSUME NEW q \in PostId,
              \/ AddPost(q) \/ UpdateMyPost(q) \/ DeleteMyPost(q)
              \/ Star(q) \/ Unstar(q)
       PROVE  Met(p)
  <2>1. PICK mutations \in Seq(Mutation) :
          /\ UserWrites(mutations)
          /\ \A n \in DOMAIN mutations :
               mutations[n].op = "star" => mutations[n].id = q /\ data[q] # NoRow
    BY <1>10, UserEnqueues
  <2>2. Queued("star", p)' => Queued("star", p) \/ data[p] # NoRow
    BY <1>1, <2>1, QueuedJoined DEF UserWrites
  <2>3. UNCHANGED <<postSet, favoritePostSet, favs, data>>
    BY <2>1 DEF UserWrites, serverVars, setVars, screenVars
  <2>4. QED BY <2>2, <2>3 DEF Met
<1>11. CASE Acknowledge \/ AcknowledgeNobody
  <2> DEFINE h == Head(queue).id
  <2>1. /\ queue # <<>> /\ queue' = Tail(queue)
        /\ \/ AcceptPut(h) \/ AcceptDelete(h)
           \/ AcceptStar(h) \/ AcceptUnstar(h) \/ Refuse(h)
    BY <1>11 DEF Acknowledge, AcknowledgeNobody
  <2>2. /\ postSet' \subseteq postSet /\ favoritePostSet' \subseteq favoritePostSet
        /\ UNCHANGED data
    BY <1>11 DEF Acknowledge, AcknowledgeNobody, PostDataEvent, reloadData,
       CaptureDateAndRead, getAllPosts, PostDeleted, NothingShown, appVars,
       setVars, screenVars
  <2>3. /\ \A op, q : Queued(op, q)' => Queued(op, q)
        /\ Queued(Head(queue).op, h)
    BY <1>1, <2>1, QueuedTail
  <2>4. p \in favs' => p \in favs \/ Queued("star", p)
    BY <2>1, <2>3 DEF AcceptPut, Commit, AcceptDelete, Erase, AcceptStar,
       AcceptUnstar, Refuse
  <2>5. QED BY <2>2, <2>3, <2>4 DEF Met
<1>12. CASE Elsewhere
  BY <1>2, <1>3, <1>12 DEF Elsewhere, RemotePut, RemoteDelete, Commit, Erase,
     appVars, setVars, screenVars
<1>13. QED
  BY <1>4, <1>5, <1>6, <1>7, <1>8, <1>9, <1>10, <1>11, <1>12 DEF Next

LEMMA MetKnownKept ==
  ASSUME TypeOK, DocsPublished, AddsNew, MetKnown, [Next]_vars
  PROVE  MetKnown'
<1> SUFFICES ASSUME NEW p \in PostId, Met(p)' PROVE Known(p)'
  BY DEF MetKnown
<1>1. CASE Met(p)
  BY <1>1, DocsKept DEF MetKnown
<1>2. CASE AnswerPosts /\ snap'[p] # 0
  <2>1. PICK docs \in Sources : PostsArrive(docs)
    BY <1>2 DEF AnswerPosts
  <2>2. /\ lastSeen' = docs /\ UNCHANGED <<cloud, published>>
        /\ docs[p] # 0 /\ (docs = cloud \/ docs = lastSeen)
    BY <1>2, <2>1 DEF PostsArrive, PostsView, Sources, serverVars
  <2>3. QED BY <2>2 DEF Known, DocsPublished
<1>3. QED BY <1>1, <1>2, MetBefore

-----------------------------------------------------------------------------
(* Positions in the queue.                                                 *)

LEMMA TailPositions ==
  ASSUME queue \in Seq(Mutation), queue # <<>>, queue' = Tail(queue)
  PROVE  /\ DOMAIN queue \subseteq Nat \ {0} /\ DOMAIN queue' \subseteq Nat \ {0}
         /\ Len(queue) \in Nat /\ Len(queue') + 1 = Len(queue)
         /\ \A i \in DOMAIN queue' : i + 1 \in DOMAIN queue /\ queue'[i] = queue[i + 1]
         /\ \A i \in DOMAIN queue : i > 1 => i - 1 \in DOMAIN queue'
         /\ 1 \in DOMAIN queue /\ Head(queue) = queue[1]
OBVIOUS

LEMMA JoinedPositions ==
  ASSUME queue \in Seq(Mutation), NEW mutations \in Seq(Mutation), Enqueue(mutations)
  PROVE  /\ DOMAIN queue \subseteq Nat /\ DOMAIN mutations \subseteq Nat \ {0}
         /\ Len(queue) \in Nat /\ DOMAIN queue = 1 .. Len(queue)
         /\ Len(queue') \in Nat /\ Len(queue) <= Len(queue')
         /\ DOMAIN queue' \subseteq Nat
         /\ \A i \in DOMAIN queue : i \in DOMAIN queue' /\ queue'[i] = queue[i]
         /\ \A n \in DOMAIN mutations : /\ Len(queue) + n \in DOMAIN queue'
                                        /\ queue'[Len(queue) + n] = mutations[n]
         /\ \A i \in DOMAIN queue' :
              \/ i \in DOMAIN queue
              \/ \E n \in DOMAIN mutations : i = Len(queue) + n
<1>1. /\ Len(queue) \in Nat /\ DOMAIN queue = 1 .. Len(queue)
      /\ Len(mutations) \in Nat /\ DOMAIN mutations = 1 .. Len(mutations)
      /\ DOMAIN queue' = 1 .. Len(queue) + Len(mutations)
      /\ Len(queue') = Len(queue) + Len(mutations)
      /\ \A i \in 1 .. Len(queue) + Len(mutations) :
           queue'[i] = IF i <= Len(queue) THEN queue[i] ELSE mutations[i - Len(queue)]
  BY ConcatProperties, LenProperties DEF Enqueue
<1>2. \A i \in DOMAIN queue : i \in DOMAIN queue' /\ queue'[i] = queue[i]
  BY <1>1
<1>3. \A n \in DOMAIN mutations : /\ Len(queue) + n \in DOMAIN queue'
                                  /\ queue'[Len(queue) + n] = mutations[n]
  BY <1>1
<1>4. ASSUME NEW i \in DOMAIN queue', i \notin DOMAIN queue
      PROVE  \E n \in DOMAIN mutations : i = Len(queue) + n
  <2>1. i - Len(queue) \in DOMAIN mutations /\ i = Len(queue) + (i - Len(queue))
    BY <1>1, <1>4
  <2>2. QED BY <2>1
<1>5. QED BY <1>1, <1>2, <1>3, <1>4

-----------------------------------------------------------------------------
(* Adds are of new posts.                                                  *)

LEMMA AddsNewJoined ==
  ASSUME TypeOK, AddsNew, NEW mutations \in Seq(Mutation), Enqueue(mutations),
         UNCHANGED published,
         \A n \in DOMAIN mutations :
           mutations[n].op = "add" =>
             /\ mutations[n].id \in Mine \ published
             /\ ~Queued("add", mutations[n].id)
             /\ \A m \in DOMAIN mutations : m = n
  PROVE  AddsNew'
<1>1. queue \in Seq(Mutation)
  BY DEF TypeOK, FirestoreTypeOK
<1> SUFFICES ASSUME NEW i \in DOMAIN queue', queue'[i].op = "add"
             PROVE  /\ queue'[i].id \in Mine
                    /\ queue'[i].id \notin published
                    /\ \A j \in DOMAIN queue' : queue'[j] = queue'[i] => j = i
  BY DEF AddsNew
<1>2. CASE i \in DOMAIN queue
  <2>1. queue'[i] = queue[i] /\ queue[i] \in Mutation
    BY <1>1, <1>2, JoinedPositions
  <2>2. queue[i] = [op |-> "add", id |-> queue[i].id]
    BY <2>1 DEF Mutation
  <2>3. Queued("add", queue[i].id)
    BY <1>2, <2>2 DEF Queued
  <2>4. ASSUME NEW j \in DOMAIN queue', queue'[j] = queue'[i] PROVE j = i
    <3>1. CASE j \in DOMAIN queue
      BY <1>1, <1>2, <2>1, <2>4, <3>1, JoinedPositions DEF AddsNew
    <3>2. CASE j \notin DOMAIN queue
      <4>1. PICK n \in DOMAIN mutations : j = Len(queue) + n /\ queue'[j] = mutations[n]
        BY <1>1, <3>2, JoinedPositions
      <4>2. QED BY <2>1, <2>3, <2>4, <4>1
    <3>3. QED BY <3>1, <3>2
  <2>5. QED BY <1>2, <2>1, <2>4 DEF AddsNew
<1>3. CASE i \notin DOMAIN queue
  <2>1. PICK n \in DOMAIN mutations : i = Len(queue) + n /\ queue'[i] = mutations[n]
    BY <1>1, <1>3, JoinedPositions
  <2>2. mutations[n] \in Mutation
    OBVIOUS
  <2>3. mutations[n] = [op |-> "add", id |-> mutations[n].id]
    BY <2>1, <2>2 DEF Mutation
  <2>4. ASSUME NEW j \in DOMAIN queue', queue'[j] = queue'[i] PROVE j = i
    <3>1. CASE j \in DOMAIN queue
      <4>1. queue[j] = [op |-> "add", id |-> mutations[n].id]
        BY <1>1, <2>1, <2>3, <2>4, <3>1, JoinedPositions
      <4>2. QED BY <2>1, <3>1, <4>1 DEF Queued
    <3>2. CASE j \notin DOMAIN queue
      <4>1. PICK m \in DOMAIN mutations : j = Len(queue) + m
        BY <1>1, <3>2, JoinedPositions
      <4>2. QED BY <2>1, <4>1
    <3>3. QED BY <3>1, <3>2
  <2>5. QED BY <2>1, <2>4
<1>4. QED BY <1>2, <1>3

LEMMA AddsNewKept ==
  ASSUME TypeOK, DocsPublished, AddsNew, [Next]_vars
  PROVE  AddsNew'
<1>1. queue \in Seq(Mutation)
  BY DEF TypeOK, FirestoreTypeOK
<1>2. CASE \/ Launch \/ Pull \/ Kill \/ AnswerPosts \/ AnswerUnstampedPosts
           \/ FailPosts \/ (\E p \in PostId : MergePost(p)) \/ StoreLastUpdate
           \/ OpenFavorites \/ AnswerFavourites \/ AnswerUnstampedFavourites
           \/ FailFavourites \/ AnswerMyPosts \/ AnswerUnstampedMyPosts
           \/ UNCHANGED vars
  BY <1>2, QuietSteps DEF AddsNew
<1>3. CASE ShowFeed
  <2>1. PICK mutations \in Seq(Mutation) :
          /\ Enqueue(mutations)
          /\ \A n \in DOMAIN mutations : mutations[n].op = "unstar"
    BY <1>3, CleanupEnqueues
  <2>2. UNCHANGED published
    BY <1>3 DEF ShowFeed, serverVars
  <2>3. QED BY <2>1, <2>2, AddsNewJoined
<1>4. ASSUME NEW p \in PostId,
             \/ AddPost(p) \/ UpdateMyPost(p) \/ DeleteMyPost(p)
             \/ Star(p) \/ Unstar(p)
      PROVE  AddsNew'
  <2>1. PICK mutations \in Seq(Mutation) :
          /\ UserWrites(mutations)
          /\ \A n \in DOMAIN mutations :
               mutations[n].op = "add" =>
                 /\ mutations[n].id \in Mine \ published
                 /\ ~Queued("add", mutations[n].id)
                 /\ \A m \in DOMAIN mutations : m = n
    BY <1>4, UserEnqueues
  <2>2. Enqueue(mutations) /\ UNCHANGED published
    BY <2>1 DEF UserWrites, serverVars
  <2>3. QED BY <2>1, <2>2, AddsNewJoined
<1>5. CASE Acknowledge \/ AcknowledgeNobody
  <2> DEFINE h == Head(queue).id
  <2>1. /\ queue # <<>> /\ queue' = Tail(queue)
        /\ \/ AcceptPut(h) \/ AcceptDelete(h)
           \/ AcceptStar(h) \/ AcceptUnstar(h) \/ Refuse(h)
    BY <1>5 DEF Acknowledge, AcknowledgeNobody
  <2>2. /\ 1 \in DOMAIN queue /\ Head(queue) = queue[1] /\ queue[1] \in Mutation
        /\ h \in PostId
        /\ DOMAIN queue' \subseteq Nat \ {0}
        /\ \A i \in DOMAIN queue' : i + 1 \in DOMAIN queue /\ queue'[i] = queue[i + 1]
    BY <1>1, <2>1, TailPositions, HeadType
  <2>3. \A i, j \in DOMAIN queue' : i + 1 # 1 /\ (i + 1 = j + 1 => i = j)
    BY <2>2
  <2>4. CASE AcceptPut(h)
    <3>1. published' = published \cup {h} /\ Head(queue).op \in {"add", "update"}
          /\ (Head(queue).op = "update" => cloud[h] # 0)
      BY <2>4 DEF AcceptPut, Commit
    <3>2. ASSUME NEW i \in DOMAIN queue', queue'[i].op = "add"
          PROVE  queue'[i].id # h
      <4>1. queue[i + 1].op = "add" /\ i + 1 \in DOMAIN queue
            /\ queue[i + 1] \in Mutation /\ i + 1 # 1
        BY <1>1, <2>2, <2>3, <3>2
      <4>2. queue[i + 1].id \notin published
        BY <4>1 DEF AddsNew
      <4>3. CASE queue[1].op = "update"
        BY <2>2, <3>1, <4>2, <4>3 DEF DocsPublished
      <4>4. CASE queue[1].op = "add"
        <5>1. queue[1] # queue[i + 1]
          BY <2>2, <4>1, <4>4 DEF AddsNew
        <5>2. QED BY <2>2, <4>1, <4>4, <5>1 DEF Mutation
      <4>5. QED BY <2>2, <3>1, <4>3, <4>4
    <3>3. QED BY <2>2, <2>3, <3>1, <3>2 DEF AddsNew
  <2>5. CASE AcceptDelete(h) \/ AcceptStar(h) \/ AcceptUnstar(h) \/ Refuse(h)
    <3>1. UNCHANGED published
      BY <2>5 DEF AcceptDelete, Erase, AcceptStar, AcceptUnstar, Refuse
    <3>2. QED BY <2>2, <2>3, <3>1 DEF AddsNew
  <2>6. QED BY <2>1, <2>4, <2>5
<1>6. CASE Elsewhere
  <2>1. PICK h \in PostId : RemotePut(h) \/ RemoteDelete(h)
    BY <1>6 DEF Elsewhere
  <2>2. UNCHANGED queue /\ h \notin Mine /\ published' \subseteq published \cup {h}
    BY <2>1 DEF RemotePut, RemoteDelete, Commit, Erase
  <2>3. QED BY <2>2 DEF AddsNew
<1>7. QED BY <1>2, <1>3, <1>4, <1>5, <1>6 DEF Next

-----------------------------------------------------------------------------
(* A delete in the queue has the unstar of the favourite behind it.        *)

OfFavourite(m, p) == m.id = p /\ m.op \in {"star", "unstar"}

(* Position j of s is its last write of p's favourite. *)
Latest(s, j, p) ==
  /\ OfFavourite(s[j], p)
  /\ \A k \in DOMAIN s : k > j => ~OfFavourite(s[k], p)

DeletesUnstar ==
  \A i \in DOMAIN queue :
    queue[i].op = "delete" =>
      \E j \in DOMAIN queue : j > i /\ Latest(queue, j, queue[i].id)

LEMMA DeletesUnstarJoined ==
  ASSUME TypeOK, DeletesUnstar, NEW mutations \in Seq(Mutation), Enqueue(mutations),
         \A p \in PostId :
           \/ \E m \in DOMAIN mutations : Latest(mutations, m, p)
           \/ \A m \in DOMAIN mutations : ~OfFavourite(mutations[m], p),
         \A n \in DOMAIN mutations :
           mutations[n].op = "delete" =>
             \E m \in DOMAIN mutations : m > n /\ Latest(mutations, m, mutations[n].id)
  PROVE  DeletesUnstar'
<1>1. queue \in Seq(Mutation)
  BY DEF TypeOK, FirestoreTypeOK
<1>2. /\ DOMAIN queue \subseteq Nat /\ DOMAIN mutations \subseteq Nat \ {0}
      /\ Len(queue) \in Nat /\ DOMAIN queue = 1 .. Len(queue)
      /\ DOMAIN queue' \subseteq Nat
      /\ \A i \in DOMAIN queue : i \in DOMAIN queue' /\ queue'[i] = queue[i]
      /\ \A n \in DOMAIN mutations : /\ Len(queue) + n \in DOMAIN queue'
                                     /\ queue'[Len(queue) + n] = mutations[n]
      /\ \A i \in DOMAIN queue' :
           \/ i \in DOMAIN queue
           \/ \E n \in DOMAIN mutations : i = Len(queue) + n
  BY <1>1, JoinedPositions
<1>3. ASSUME NEW p \in PostId, NEW m \in DOMAIN mutations, Latest(mutations, m, p)
      PROVE  Latest(queue', Len(queue) + m, p)
  <2>1. OfFavourite(queue'[Len(queue) + m], p)
    BY <1>2, <1>3 DEF Latest
  <2>2. ASSUME NEW k \in DOMAIN queue', k > Len(queue) + m
        PROVE  ~OfFavourite(queue'[k], p)
    <3>1. k \notin DOMAIN queue
      BY <1>2, <2>2
    <3>2. PICK n \in DOMAIN mutations : k = Len(queue) + n
      BY <1>2, <3>1
    <3>3. n > m
      BY <1>2, <2>2, <3>2
    <3>4. QED BY <1>2, <1>3, <3>2, <3>3 DEF Latest
  <2>3. QED BY <2>1, <2>2 DEF Latest
<1> SUFFICES ASSUME NEW i \in DOMAIN queue', queue'[i].op = "delete"
             PROVE  \E j \in DOMAIN queue' : j > i /\ Latest(queue', j, queue'[i].id)
  BY DEF DeletesUnstar
<1>4. CASE i \in DOMAIN queue
  <2>1. queue'[i] = queue[i] /\ queue[i].id \in PostId
    <3>1. queue[i] \in Mutation
      BY <1>1, <1>4
    <3>2. QED BY <1>2, <1>4, <3>1 DEF Mutation
  <2>2. CASE \E m \in DOMAIN mutations : Latest(mutations, m, queue[i].id)
    <3>1. PICK m \in DOMAIN mutations : Latest(mutations, m, queue[i].id)
      BY <2>2
    <3>2. Latest(queue', Len(queue) + m, queue[i].id)
      BY <1>3, <2>1, <3>1
    <3>3. Len(queue) + m > i /\ Len(queue) + m \in DOMAIN queue'
      BY <1>2, <1>4
    <3>4. QED BY <2>1, <3>2, <3>3
  <2>3. CASE \A m \in DOMAIN mutations : ~OfFavourite(mutations[m], queue[i].id)
    <3>1. PICK j \in DOMAIN queue : j > i /\ Latest(queue, j, queue[i].id)
      BY <1>4, <2>1 DEF DeletesUnstar
    <3>2. j \in DOMAIN queue' /\ OfFavourite(queue'[j], queue[i].id)
      BY <1>2, <3>1 DEF Latest
    <3>3. ASSUME NEW k \in DOMAIN queue', k > j
          PROVE  ~OfFavourite(queue'[k], queue[i].id)
      <4>1. CASE k \in DOMAIN queue
        BY <1>2, <3>1, <3>3, <4>1 DEF Latest
      <4>2. CASE k \notin DOMAIN queue
        BY <1>2, <2>3, <4>2
      <4>3. QED BY <4>1, <4>2
    <3>4. Latest(queue', j, queue[i].id)
      BY <3>2, <3>3 DEF Latest
    <3>5. QED BY <2>1, <3>1, <3>2, <3>4
  <2>4. QED BY <2>1, <2>2, <2>3
<1>5. CASE i \notin DOMAIN queue
  <2>1. PICK n \in DOMAIN mutations : i = Len(queue) + n
    BY <1>2, <1>5
  <2>2. queue'[i] = mutations[n] /\ mutations[n].id \in PostId
    <3>1. mutations[n] \in Mutation
      OBVIOUS
    <3>2. QED BY <1>2, <2>1, <3>1 DEF Mutation
  <2>3. PICK m \in DOMAIN mutations : m > n /\ Latest(mutations, m, mutations[n].id)
    BY <2>2
  <2>4. /\ Latest(queue', Len(queue) + m, queue'[i].id)
        /\ Len(queue) + m \in DOMAIN queue'
    BY <1>2, <1>3, <2>2, <2>3
  <2>5. Len(queue) + m > i
    BY <1>2, <2>1, <2>3
  <2>6. QED BY <2>4, <2>5
<1>6. QED BY <1>4, <1>5

LEMMA DeletesUnstarKept ==
  ASSUME TypeOK, DeletesUnstar, [Next]_vars
  PROVE  DeletesUnstar'
<1>1. queue \in Seq(Mutation)
  BY DEF TypeOK, FirestoreTypeOK
<1>2. CASE UNCHANGED queue
  BY <1>2 DEF DeletesUnstar, Latest
<1>3. CASE ShowFeed
  <2>1. PICK mutations \in Seq(Mutation) :
          /\ Enqueue(mutations)
          /\ \A n \in DOMAIN mutations : mutations[n].op = "unstar"
          /\ \A m, n \in DOMAIN mutations : mutations[m].id = mutations[n].id => m = n
    BY <1>3, CleanupEnqueues
  <2>2. ASSUME NEW p \in PostId, NEW m \in DOMAIN mutations,
               OfFavourite(mutations[m], p)
        PROVE  Latest(mutations, m, p)
    <3>1. m \in Nat /\ \A k \in DOMAIN mutations : k > m => k # m
      BY LenProperties
    <3>2. QED BY <2>1, <2>2, <3>1 DEF Latest, OfFavourite
  <2>3. \A p \in PostId :
          \/ \E m \in DOMAIN mutations : Latest(mutations, m, p)
          \/ \A m \in DOMAIN mutations : ~OfFavourite(mutations[m], p)
    BY <2>2
  <2>4. \A n \in DOMAIN mutations : mutations[n].op # "delete"
    BY <2>1
  <2>5. QED BY <2>1, <2>3, <2>4, DeletesUnstarJoined
<1>4. ASSUME NEW p \in PostId,
             \/ AddPost(p) \/ UpdateMyPost(p) \/ DeleteMyPost(p)
             \/ Star(p) \/ Unstar(p)
      PROVE  DeletesUnstar'
  <2>1. PICK mutations \in Seq(Mutation) :
          /\ UserWrites(mutations)
          /\ \/ mutations = <<[op |-> "add", id |-> p]>>
             \/ mutations = <<[op |-> "update", id |-> p]>>
             \/ mutations = <<[op |-> "delete", id |-> p], [op |-> "unstar", id |-> p]>>
             \/ mutations = <<[op |-> "star", id |-> p]>>
             \/ mutations = <<[op |-> "unstar", id |-> p]>>
    BY <1>4, UserEnqueues
  <2>2. Enqueue(mutations)
    BY <2>1 DEF UserWrites
  <2>3. CASE \/ mutations = <<[op |-> "add", id |-> p]>>
             \/ mutations = <<[op |-> "update", id |-> p]>>
    <3>1. \A n \in DOMAIN mutations : mutations[n].op \in {"add", "update"}
      BY <2>3
    <3>2. QED BY <2>2, <3>1, DeletesUnstarJoined DEF OfFavourite
  <2>4. CASE \/ mutations = <<[op |-> "star", id |-> p]>>
             \/ mutations = <<[op |-> "unstar", id |-> p]>>
    <3>1. /\ DOMAIN mutations = {1} /\ mutations[1].id = p
          /\ mutations[1].op \in {"star", "unstar"}
      BY <2>4
    <3>2. Latest(mutations, 1, p)
      BY <3>1 DEF Latest, OfFavourite
    <3>3. \A q \in PostId : q # p => ~OfFavourite(mutations[1], q)
      BY <3>1 DEF OfFavourite
    <3>4. /\ \A n \in DOMAIN mutations : mutations[n].op # "delete"
          /\ \A q \in PostId :
               \/ \E m \in DOMAIN mutations : Latest(mutations, m, q)
               \/ \A m \in DOMAIN mutations : ~OfFavourite(mutations[m], q)
      BY <3>1, <3>2, <3>3
    <3>5. QED BY <2>2, <3>4, DeletesUnstarJoined
  <2>5. CASE mutations = <<[op |-> "delete", id |-> p], [op |-> "unstar", id |-> p]>>
    <3>1. /\ DOMAIN mutations = {1, 2}
          /\ mutations[1].id = p /\ mutations[2].id = p
          /\ mutations[1].op = "delete" /\ mutations[2].op = "unstar"
      BY <2>5
    <3>2. Latest(mutations, 2, p) /\ 2 \in DOMAIN mutations
      BY <3>1 DEF Latest, OfFavourite
    <3>3. \A q \in PostId : q # p => \A m \in DOMAIN mutations :
                                       ~OfFavourite(mutations[m], q)
      BY <3>1 DEF OfFavourite
    <3>4. \A n \in DOMAIN mutations : mutations[n].op = "delete" => n = 1
      BY <3>1
    <3>5. \A n \in DOMAIN mutations :
            mutations[n].op = "delete" =>
              \E m \in DOMAIN mutations : m > n /\ Latest(mutations, m, mutations[n].id)
      <4>1. 2 > 1
        OBVIOUS
      <4>2. QED BY <3>1, <3>2, <3>4, <4>1
    <3>6. \A q \in PostId :
            \/ \E m \in DOMAIN mutations : Latest(mutations, m, q)
            \/ \A m \in DOMAIN mutations : ~OfFavourite(mutations[m], q)
      BY <3>2, <3>3
    <3>7. QED BY <2>2, <3>5, <3>6, DeletesUnstarJoined
  <2>6. QED BY <2>1, <2>3, <2>4, <2>5
<1>5. CASE Acknowledge \/ AcknowledgeNobody
  <2>1. queue # <<>> /\ queue' = Tail(queue)
    BY <1>5 DEF Acknowledge, AcknowledgeNobody
  <2>2. /\ DOMAIN queue \subseteq Nat \ {0} /\ DOMAIN queue' \subseteq Nat \ {0}
        /\ \A i \in DOMAIN queue' : i + 1 \in DOMAIN queue /\ queue'[i] = queue[i + 1]
        /\ \A i \in DOMAIN queue : i > 1 => i - 1 \in DOMAIN queue'
    BY <1>1, <2>1, TailPositions
  <2>3. ASSUME NEW i \in DOMAIN queue', queue'[i].op = "delete"
        PROVE  \E j \in DOMAIN queue' : j > i /\ Latest(queue', j, queue'[i].id)
    <3>1. PICK j \in DOMAIN queue : j > i + 1 /\ Latest(queue, j, queue[i + 1].id)
      BY <2>2, <2>3 DEF DeletesUnstar
    <3>2. j - 1 \in DOMAIN queue' /\ j - 1 > i /\ (j - 1) + 1 = j
      BY <2>2, <3>1
    <3>3. queue'[j - 1] = queue[j]
      BY <2>2, <3>2
    <3>4. \A k \in DOMAIN queue' : k > j - 1 => k + 1 > j
      BY <2>2
    <3>5. Latest(queue', j - 1, queue'[i].id)
      BY <2>2, <3>1, <3>3, <3>4 DEF Latest
    <3>6. QED BY <3>2, <3>5
  <2>4. QED BY <2>3 DEF DeletesUnstar
<1>6. CASE Elsewhere
  BY <1>2, <1>6 DEF Elsewhere, RemotePut, RemoteDelete
<1>7. QED BY <1>2, <1>3, <1>4, <1>5, <1>6, QuietSteps DEF Next

(* The favourites that are read are not of posts being deleted. *)
LEMMA FavouritesAreKept ==
  ASSUME TypeOK, DeletesUnstar, UnstampedFavourites = {},
         NEW i \in DOMAIN queue, queue[i].op = "delete"
  PROVE  queue[i].id \notin FavouritesView
<1>1. PICK j \in DOMAIN queue : j > i /\ Latest(queue, j, queue[i].id)
  BY DEF DeletesUnstar
<1>2. queue[j] \in Mutation /\ queue[i] \in Mutation
  BY DEF TypeOK, FirestoreTypeOK
<1>3. \/ queue[j] = [op |-> "star", id |-> queue[i].id]
      \/ queue[j] = [op |-> "unstar", id |-> queue[i].id]
  BY <1>1, <1>2 DEF Latest, OfFavourite, Mutation
<1>4. \/ LastFavouriteOp("star", queue[i].id)
      \/ LastFavouriteOp("unstar", queue[i].id)
  BY <1>1, <1>3 DEF Latest, OfFavourite, LastFavouriteOp
<1>5. queue[i].id \in PostId
  BY <1>2 DEF Mutation
<1>6. QED BY <1>4, <1>5 DEF FavouritesView, UnstampedFavourites

-----------------------------------------------------------------------------
(* The writes that nobody is told of, and the clean-up.                    *)

(* A delete queued by a process that has ended is of a post whose          *)
(* favourite no later process has read.                                    *)
UntoldSpared ==
  /\ untold <= Len(queue)
  /\ \A i \in DOMAIN queue :
       i <= untold /\ queue[i].op = "delete" => queue[i].id \notin favoritePostSet

(* What the clean-up will find, from the answer with the posts on. *)
Spared(p) == p \in postSet \/ cloud[p] = 0 \/ Deleting(p)

CleanupSpares ==
  phase # "idle" => \A p \in favoritePostSet : Spared(p)

LEMMA UntoldSparedKept ==
  ASSUME TypeOK, DeletesUnstar, UntoldSpared, [Next]_vars
  PROVE  UntoldSpared'
<1>1. queue \in Seq(Mutation) /\ untold \in Nat /\ Len(queue) \in Nat
      /\ DOMAIN queue = 1 .. Len(queue)
  BY DEF TypeOK, FirestoreTypeOK
<1>2. CASE UNCHANGED <<queue, untold>> /\ favoritePostSet' \subseteq favoritePostSet
  BY <1>2 DEF UntoldSpared
<1>3. CASE Launch \/ Pull
  BY <1>2, <1>3 DEF Launch, Pull, reloadData, CaptureDateAndRead, getAllPosts,
     firestoreVars
<1>4. CASE \/ Kill \/ AnswerUnstampedPosts \/ FailPosts
           \/ AnswerUnstampedFavourites \/ AnswerUnstampedMyPosts
  <2>1. UNCHANGED queue /\ untold' = Len(queue) /\ favoritePostSet' = {}
    BY <1>4 DEF Kill, AnswerUnstampedPosts, FailPosts,
       AnswerUnstampedFavourites, AnswerUnstampedMyPosts, Die
  <2>2. QED BY <1>1, <2>1 DEF UntoldSpared
<1>5. CASE \/ AnswerPosts \/ (\E p \in PostId : MergePost(p)) \/ StoreLastUpdate
           \/ OpenFavorites \/ AnswerMyPosts \/ Elsewhere \/ UNCHANGED vars
  BY <1>2, <1>5 DEF AnswerPosts, PostsArrive, MergePost, StoreLastUpdate,
     OpenFavorites, AnswerMyPosts, MyPostsArrive, Elsewhere, RemotePut,
     RemoteDelete, vars, firestoreVars, appVars, setVars
<1>6. CASE AnswerFavourites \/ FailFavourites
  <2>1. UNCHANGED <<queue, untold>>
    BY <1>6 DEF AnswerFavourites, FailFavourites, FavouritesArrive, firestoreVars
  <2>2. ASSUME NEW i \in DOMAIN queue, i <= untold, queue[i].op = "delete"
        PROVE  queue[i].id \notin favoritePostSet'
    <3>1. queue[i].id \notin favoritePostSet
      BY <2>2 DEF UntoldSpared
    <3>2. CASE AnswerFavourites
      <4>1. favoritePostSet' = favoritePostSet \cup FavouritesView
            /\ UnstampedFavourites = {}
        BY <3>2 DEF AnswerFavourites, FavouritesArrive
      <4>2. QED BY <2>2, <3>1, <4>1, FavouritesAreKept
    <3>3. CASE FailFavourites
      BY <3>1, <3>3 DEF FailFavourites, FavouritesArrive
    <3>4. QED BY <1>6, <3>2, <3>3
  <2>3. QED BY <2>1, <2>2 DEF UntoldSpared
<1>7. ASSUME NEW mutations \in Seq(Mutation), Enqueue(mutations),
             UNCHANGED favoritePostSet
      PROVE  UntoldSpared'
  <2>1. /\ Len(queue') \in Nat /\ Len(queue) <= Len(queue')
        /\ DOMAIN queue' \subseteq Nat
        /\ DOMAIN mutations \subseteq Nat \ {0}
        /\ \A i \in DOMAIN queue : i \in DOMAIN queue' /\ queue'[i] = queue[i]
        /\ \A i \in DOMAIN queue' :
             \/ i \in DOMAIN queue
             \/ \E n \in DOMAIN mutations : i = Len(queue) + n
    BY <1>1, <1>7, JoinedPositions
  <2>2. untold' = untold /\ untold <= Len(queue)
    BY <1>7 DEF Enqueue, UntoldSpared
  <2>3. ASSUME NEW i \in DOMAIN queue', i <= untold
        PROVE  i \in DOMAIN queue
    BY <1>1, <2>1, <2>2, <2>3
  <2>4. QED BY <1>1, <1>7, <2>1, <2>2, <2>3 DEF UntoldSpared
<1>8. CASE ShowFeed
  BY <1>7, <1>8, CleanupEnqueues DEF ShowFeed, setVars
<1>9. ASSUME NEW p \in PostId,
             \/ AddPost(p) \/ UpdateMyPost(p) \/ DeleteMyPost(p)
             \/ Star(p) \/ Unstar(p)
      PROVE  UntoldSpared'
  <2>1. PICK mutations \in Seq(Mutation) : UserWrites(mutations)
    BY <1>9, UserEnqueues
  <2>2. QED BY <1>7, <2>1 DEF UserWrites, setVars
<1>10. CASE Acknowledge
  <2>1. /\ untold = 0 /\ untold' = 0 /\ queue # <<>> /\ queue' = Tail(queue)
    BY <1>10 DEF Acknowledge
  <2>2. /\ DOMAIN queue' \subseteq Nat \ {0} /\ Len(queue') \in Nat
    BY <1>1, <2>1, TailPositions
  <2>3. \A i \in DOMAIN queue' : ~(i <= untold')
    BY <2>1, <2>2
  <2>4. QED BY <2>1, <2>2, <2>3 DEF UntoldSpared
<1>11. CASE AcknowledgeNobody
  <2>1. /\ untold > 0 /\ untold' = untold - 1
        /\ queue # <<>> /\ queue' = Tail(queue)
        /\ UNCHANGED favoritePostSet
    BY <1>11 DEF AcknowledgeNobody, appVars, setVars
  <2>2. /\ DOMAIN queue' \subseteq Nat \ {0} /\ Len(queue') + 1 = Len(queue)
        /\ Len(queue') \in Nat
        /\ \A i \in DOMAIN queue' : i + 1 \in DOMAIN queue /\ queue'[i] = queue[i + 1]
    BY <1>1, <2>1, TailPositions
  <2>3. untold' <= Len(queue')
    BY <1>1, <2>1, <2>2 DEF UntoldSpared
  <2>4. ASSUME NEW i \in DOMAIN queue', i <= untold', queue'[i].op = "delete"
        PROVE  queue'[i].id \notin favoritePostSet
    <3>1. i + 1 <= untold /\ i + 1 \in DOMAIN queue /\ queue'[i] = queue[i + 1]
      BY <1>1, <2>1, <2>2, <2>4
    <3>2. QED BY <2>4, <3>1 DEF UntoldSpared
  <2>5. QED BY <2>1, <2>3, <2>4 DEF UntoldSpared
<1>12. QED
  BY <1>3, <1>4, <1>5, <1>6, <1>8, <1>9, <1>10, <1>11 DEF Next

LEMMA CleanupSparesKept ==
  ASSUME TypeOK, WatermarkInv, DocsPublished, AddsNew, MetKnown, UntoldSpared,
         CleanupSpares, [Next]_vars
  PROVE  CleanupSpares'
<1> SUFFICES ASSUME phase' # "idle", NEW p \in favoritePostSet'
             PROVE  Spared(p)'
  BY DEF CleanupSpares
<1>1. CASE AnswerPosts
  <2>1. PICK docs \in Sources : PostsArrive(docs)
    BY <1>1 DEF AnswerPosts
  <2>2. /\ UNCHANGED <<cloud, queue, favoritePostSet>>
        /\ docs = cloud \/ docs = lastSeen
        /\ snap' = PostsView(docs)
        /\ postSet' = postSet \cup {q \in PostId : snap'[q] # 0}
    BY <2>1 DEF PostsArrive, Sources, serverVars
  <2>3. p \in PostId /\ Known(p)
    BY <2>2 DEF MetKnown, Met, TypeOK
  <2>4. CASE Deleting(p) \/ cloud[p] = 0
    BY <2>2, <2>3, <2>4, SameQueueSameDeleting DEF Spared
  <2>5. CASE ~Deleting(p) /\ cloud[p] # 0
    <3>1. docs[p] # 0
      BY <2>2, <2>3, <2>5 DEF Known
    <3>2. p \in postSet'
      BY <2>2, <2>3, <2>5, <3>1 DEF PostsView
    <3>3. QED BY <3>2 DEF Spared
  <2>6. QED BY <2>4, <2>5
<1>2. CASE (\E q \in PostId : MergePost(q)) \/ StoreLastUpdate \/ UNCHANGED vars
  <2>1. UNCHANGED <<cloud, queue, favoritePostSet, postSet>> /\ phase # "idle"
    BY <1>2 DEF MergePost, StoreLastUpdate, vars, firestoreVars, serverVars,
       appVars, setVars, handlerVars
  <2>2. p \in PostId /\ Spared(p)
    BY <2>1 DEF CleanupSpares, TypeOK
  <2>3. QED BY <2>1, <2>2, SameQueueSameDeleting DEF Spared
<1>3. CASE AcknowledgeNobody
  <2> DEFINE h == Head(queue).id
  <2>1. /\ queue \in Seq(Mutation) /\ queue # <<>> /\ queue' = Tail(queue)
        /\ untold > 0 /\ untold \in Nat
        /\ UNCHANGED <<favoritePostSet, postSet, phase>>
        /\ \/ AcceptPut(h) \/ AcceptDelete(h)
           \/ AcceptStar(h) \/ AcceptUnstar(h) \/ Refuse(h)
    BY <1>3 DEF AcknowledgeNobody, TypeOK, FirestoreTypeOK, appVars, setVars,
       handlerVars
  <2>2. p \in PostId /\ Spared(p) /\ Known(p)
    BY <2>1 DEF CleanupSpares, TypeOK, MetKnown, Met
  <2>3. /\ h \in PostId /\ 1 \in DOMAIN queue /\ Head(queue) = queue[1]
        /\ queue[1] \in Mutation
    BY <2>1, HeadType, TailPositions
  <2>4. p # h \/ queue[1].op # "delete"
    <3>1. 1 <= untold
      BY <2>1
    <3>2. queue[1].op = "delete" => queue[1].id \notin favoritePostSet
      BY <2>3, <3>1 DEF UntoldSpared
    <3>3. QED BY <2>1, <2>3, <3>2
  <2>5. Deleting(p) => Deleting(p)'
    BY <2>1, <2>2, <2>3, <2>4, TailKeepsDeleting
  <2>6. cloud[p] = 0 => cloud'[p] = 0
    <3>1. cloud \in [PostId -> Commits]
      BY DEF TypeOK, FirestoreTypeOK
    <3>2. CASE AcceptPut(h)
      <4>1. /\ Head(queue).op \in {"add", "update"}
            /\ Head(queue).op = "update" => cloud[h] # 0
            /\ cloud' = [cloud EXCEPT ![h] = clock + 1]
        BY <3>2 DEF AcceptPut, Commit
      <4>2. queue[1].op = "add" => h \notin published
        BY <2>3 DEF AddsNew
      <4>3. cloud[p] = 0 => p # h
        BY <2>2, <2>3, <4>1, <4>2 DEF Known
      <4>4. QED BY <3>1, <4>1, <4>3
    <3>3. CASE AcceptDelete(h)
      BY <2>2, <3>1, <3>3 DEF AcceptDelete, Erase
    <3>4. CASE AcceptStar(h) \/ AcceptUnstar(h) \/ Refuse(h)
      BY <3>4 DEF AcceptStar, AcceptUnstar, Refuse
    <3>5. QED BY <2>1, <3>2, <3>3, <3>4
  <2>7. QED BY <2>1, <2>2, <2>5, <2>6 DEF Spared
<1>4. CASE Elsewhere
  <2>1. PICK h \in PostId : RemotePut(h) \/ RemoteDelete(h)
    BY <1>4 DEF Elsewhere
  <2>2. UNCHANGED <<queue, favoritePostSet, postSet, phase>>
    BY <1>4, <2>1 DEF Elsewhere, RemotePut, RemoteDelete, appVars, setVars,
       handlerVars
  <2>3. p \in PostId /\ Spared(p) /\ Known(p)
    BY <2>2 DEF CleanupSpares, TypeOK, MetKnown, Met
  <2>4. cloud \in [PostId -> Commits]
    BY DEF TypeOK, FirestoreTypeOK
  <2>5. cloud[p] = 0 => cloud'[p] = 0
    BY <2>1, <2>3, <2>4 DEF RemotePut, RemoteDelete, Commit, Erase, Known
  <2>6. QED BY <2>2, <2>3, <2>5, SameQueueSameDeleting DEF Spared
<1>5. QED BY <1>1, <1>2, <1>3, <1>4, HandlerSteps

CleanupInv ==
  /\ DocsPublished
  /\ AddsNew
  /\ MetKnown
  /\ DeletesUnstar
  /\ UntoldSpared
  /\ CleanupSpares

LEMMA CleanupInvariant == Spec => []CleanupInv
<1>1. Init => CleanupInv
  BY DEF Init, FirestoreInit, NoDocuments, NoRows, CleanupInv, DocsPublished,
     AddsNew, MetKnown, Met, Known, Queued, DeletesUnstar, UntoldSpared,
     CleanupSpares
<1>2. TypeOK /\ WatermarkInv /\ CleanupInv /\ [Next]_vars => CleanupInv'
  BY DocsKept, AddsNewKept, MetKnownKept, DeletesUnstarKept, UntoldSparedKept,
     CleanupSparesKept DEF CleanupInv
<1>3. QED BY <1>1, <1>2, TypeCorrect, WatermarkInvariant, PTL DEF Spec

(***************************************************************************)
(* The clean-up of reloadData deletes only favourites of posts that are    *)
(* gone from the server, or that this user has asked to delete.            *)
(***************************************************************************)
THEOREM CleanupIsSafe == Spec => CleanupSafe
<1> DEFINE Safe == \A p \in Orphans : cloud[p] = 0 \/ Deleting(p)
<1>1. WatermarkInv /\ CleanupInv /\ [Next]_vars => [ListShown => Safe]_vars
  <2> SUFFICES ASSUME CleanupInv, ListShown, NEW p \in Orphans
               PROVE  cloud[p] = 0 \/ Deleting(p)
    OBVIOUS
  <2>1. phase # "idle" /\ p \in favoritePostSet /\ p \notin postSet
    BY DEF ListShown, Orphans
  <2>2. QED BY <2>1 DEF CleanupInv, CleanupSpares, Spared
<1>2. QED
  BY <1>1, WatermarkInvariant, CleanupInvariant, PTL DEF Spec, CleanupSafe
=============================================================================
