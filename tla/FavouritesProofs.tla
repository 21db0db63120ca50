-------------------------- MODULE FavouritesProofs --------------------------
(***************************************************************************)
(* Proofs about Favourites and the Session it extends: the types, the      *)
(* account of the home screen and hidden buttons first; then the stars:    *)
(* the server and the queues hold what the taps of an account last showed, *)
(* and the rows of a feed get the colours of that.                         *)
(***************************************************************************)
EXTENDS Favourites, SessionProofs

(* The reads of the posts are home screens'. *)
Signed == TypeOK /\ SessionInv /\ (postReads # <<>> => homes > 0)

(* The types of what is not the session's. *)
StarsTypeOK ==
  /\ posts \subseteq Post
  /\ favs \in [Account -> SUBSET Post]
  /\ queue \in [Account -> Seq(Mutation)]
  /\ untold \in [Account -> Nat]
  /\ postSet \subseteq Post
  /\ favoritePostSet \subseteq Post
  /\ postReads \in Seq(Nat)
  /\ favReads \subseteq Someone
  /\ data \subseteq Post
  /\ postSelected \subseteq Post
  /\ selectedCells \in 0 .. MaxCells
  /\ wish \in [Account -> SUBSET Post]
  /\ excused \subseteq Account \X Post
  /\ sources \subseteq Someone
  /\ touched \subseteq Post

-----------------------------------------------------------------------------
(* Types.                                                                  *)

LEMMA Together ==
  ASSUME SessionKept, StarsTypeOK', postReads' # <<>> => homes' > 0
  PROVE  Signed'
  BY DEF SessionKept, StarsTypeOK, Signed, TypeOK

LEMMA Apart == Signed => SessionTypeOK /\ SessionInv /\ StarsTypeOK /\ Seated
  BY DEF Signed, TypeOK, StarsTypeOK, Seated

LEMMA StayingPut ==
  ASSUME StarsTypeOK, StaysPut
  PROVE  StarsTypeOK' /\ postReads' = postReads
  BY DEF StarsTypeOK, StaysPut, serverVars, setVars, feedVars, wishVars

(* And behind a read of the posts. *)
LEMMA Awaiting ==
  ASSUME Signed, postReads # <<>>
  PROVE  /\ homes \in Nat /\ homes > 0
         /\ userEmail \in Account /\ user = userEmail
  BY DEF Signed, TypeOK, SessionTypeOK, SessionInv, Someone

LEMMA Enqueued ==
  ASSUME StarsTypeOK, NEW ms \in Seq(Mutation), Enqueue(ms)
  PROVE  /\ queue' \in [Account -> Seq(Mutation)]
         /\ \A a \in Account : queue'[a] = IF a = user THEN queue[a] \o ms ELSE queue[a]
  <1>1. queue \in [Account -> Seq(Mutation)] BY DEF StarsTypeOK
  <1>2. \A a \in Account : queue[a] \o ms \in Seq(Mutation) BY <1>1
  <1> QED BY <1>1, <1>2 DEF Enqueue

LEMMA WriteIsMutation ==
  ASSUME SessionTypeOK, NEW op \in Ops, NEW p \in Post
  PROVE  Write(op, p) \in Mutation
  BY DEF Write, Mutation, SessionTypeOK

LEMMA Written ==
  ASSUME SessionTypeOK, NEW p \in Post, NEW op \in Ops
  PROVE  <<Write(op, p)>> \in Seq(Mutation)
  BY WriteIsMutation

LEMMA WrittenTwice ==
  ASSUME SessionTypeOK, NEW p \in Post
  PROVE  <<Write("delete", p), Write("unstar", p)>> \in Seq(Mutation)
  <1>1. Write("delete", p) \in Mutation /\ Write("unstar", p) \in Mutation
    BY WriteIsMutation DEF Ops
  <1> QED BY <1>1

(* The clean-up of a set of favourites, in some order. *)
CleanUp(S, order) == [i \in 1 .. Cardinality(S) |-> Write("unstar", order[i])]

LEMMA CleanUpIsWritten ==
  ASSUME SessionTypeOK, NEW S \in SUBSET Post, IsFiniteSet(Post),
         NEW order \in Bijection(1 .. Cardinality(S), S)
  PROVE  /\ Cardinality(S) \in Nat
         /\ order \in [1 .. Cardinality(S) -> S]
         /\ CleanUp(S, order) \in Seq(Mutation)
  <1>1. Cardinality(S) \in Nat BY FS_Subset, FS_CardinalityType
  <1>2. order \in [1 .. Cardinality(S) -> S] BY DEF Bijection, Injection
  <1>3. \A i \in 1 .. Cardinality(S) : Write("unstar", order[i]) \in Mutation
    BY <1>2, WriteIsMutation DEF Ops
  <1>4. CleanUp(S, order) \in [1 .. Cardinality(S) -> Mutation]
    BY <1>3 DEF CleanUp
  <1> QED BY <1>1, <1>2, <1>4, SeqDef

LEMMA EmptyingTypes ==
  ASSUME StarsTypeOK, NEW screens \in Seq(Nat), NEW email \in Someone,
         getAllPosts(screens, email)
  PROVE  /\ postSet' = {} /\ favoritePostSet' = {} /\ sources' = {} /\ touched' = {}
         /\ postReads' \in Seq(Nat) /\ favReads' \subseteq Someone
  BY DEF StarsTypeOK, getAllPosts, EmptySets

LEMMA MovesKeepTypes ==
  ASSUME SessionAssumption, Signed, UserMoves \/ LeaveHome
  PROVE  Signed'
  <1>0. SessionTypeOK /\ SessionInv /\ StarsTypeOK BY Apart
  <1>1. SessionKept /\ homes' = homes BY MovesKeepSession, Apart DEF UserMoves, LeaveHome
  <1>2. CASE UserMoves
    <2>1. StarsTypeOK' /\ postReads' = postReads BY <1>0, <1>2, StayingPut DEF UserMoves
    <2> QED BY <1>1, <2>1, Together DEF Signed
  <1>3. CASE LeaveHome
    <2>1. StarsTypeOK' /\ postReads' = postReads
      BY <1>0, <1>3, FavouritesAssumption
      DEF LeaveHome, EmptyTable, StarsTypeOK, serverVars, setVars, wishVars, FavouritesAssumption
    <2> QED BY <1>1, <2>1, Together DEF Signed
  <1> QED BY <1>2, <1>3

LEMMA AuthKeepsTypes ==
  ASSUME SessionAssumption, Signed, NEW s \in SignInScreens, AuthAnswers(s)
  PROVE  Signed'
  <1>0. SessionTypeOK /\ SessionInv /\ StarsTypeOK BY Apart
  <1>1. CASE (SignInFails(s) \/ SignInComesLate(s)) /\ StaysPut
    <2>1. SessionKept /\ homes' = homes BY <1>1, AuthKeepsSession, Apart
    <2>2. StarsTypeOK' /\ postReads' = postReads BY <1>0, <1>1, StayingPut
    <2> QED BY <2>1, <2>2, Together DEF Signed
  <1>2. CASE OpenHome(s)
    <2>1. SessionKept /\ homes' > 0 BY <1>2, AuthKeepsSession, Apart DEF OpenHome
    <2>2. homes' \in Nat /\ userEmail' \in Someone BY <2>1 DEF SessionKept, SessionTypeOK
    <2>3. getAllPosts(<<homes'>>, userEmail') BY <1>2 DEF OpenHome
    <2>4. <<homes'>> \in Seq(Nat) BY <2>2
    <2>5. /\ postSet' = {} /\ favoritePostSet' = {} /\ sources' = {} /\ touched' = {}
          /\ postReads' \in Seq(Nat) /\ favReads' \subseteq Someone
      BY <1>0, <2>2, <2>3, <2>4, EmptyingTypes
    <2>6. StarsTypeOK'
      BY <1>0, <1>2, <2>5, FavouritesAssumption
      DEF OpenHome, EmptyTable, StarsTypeOK, serverVars, wishVars, FavouritesAssumption
    <2> QED BY <2>1, <2>6, Together
  <1> QED BY <1>1, <1>2 DEF AuthAnswers

LEMMA RestartKeepsTypes ==
  ASSUME SessionAssumption, Signed, Restart
  PROVE  Signed'
  <1>0. SessionTypeOK /\ SessionInv /\ StarsTypeOK BY Apart
  <1>1. SessionKept BY RestartKeepsSession, Apart DEF Restart
  <1>2. untold' \in [Account -> Nat]
    <2>1. \A a \in Account : Len(queue[a]) \in Nat BY <1>0 DEF StarsTypeOK
    <2> QED BY <2>1 DEF Restart
  <1>3. StarsTypeOK' /\ postReads' = <<>>
    BY <1>0, <1>2, FavouritesAssumption
    DEF Restart, EmptyTable, StarsTypeOK, serverVars, wishVars, FavouritesAssumption
  <1> QED BY <1>1, <1>3, Together

LEMMA FeedKeepsTypes ==
  ASSUME Signed, Pull \/ OpenFavorites
  PROVE  Signed'
  <1>0. SessionTypeOK /\ SessionInv /\ StarsTypeOK BY Apart
  <1>1. SessionKept /\ homes' = homes
    BY SameSession, Apart DEF Pull, OpenFavorites
  <1>2. homes \in Nat /\ homes > 0 /\ userEmail \in Someone
    BY <1>0, AtHome DEF Pull, OpenFavorites, Someone
  <1>3. CASE Pull
    <2>1. <<homes>> \in Seq(Nat) BY <1>2
    <2>2. StarsTypeOK'
      BY <1>0, <1>2, <1>3, <2>1, EmptyingTypes
      DEF Pull, StarsTypeOK, serverVars, feedVars, wishVars
    <2> QED BY <1>1, <1>2, <2>2, Together
  <1>4. CASE OpenFavorites
    <2>1. StarsTypeOK'
      BY <1>0, <1>2, <1>4
      DEF OpenFavorites, StarsTypeOK, serverVars, setVars, feedVars, wishVars
    <2> QED BY <1>1, <1>2, <2>1, Together
  <1> QED BY <1>3, <1>4

LEMMA ViewsArePosts ==
  ASSUME StarsTypeOK
  PROVE  PostsView \subseteq posts /\ posts \subseteq Post
  BY DEF StarsTypeOK, PostsView

LEMMA AnswersKeepTypes ==
  ASSUME FavouritesAssumption, Signed,
         AnswerPosts \/ \E c \in Account : AnswerFavourites(c) \/ FailFavourites(c)
  PROVE  Signed'
  <1>0. SessionTypeOK /\ SessionInv /\ StarsTypeOK BY Apart
  <1>1. SessionKept /\ homes' = homes
    BY SameSession, Apart DEF AnswerPosts, AnswerFavourites, FailFavourites
  <1>2. CASE AnswerPosts
    <2>1. /\ postReads # <<>> /\ postReads' = Tail(postReads)
          /\ postReads \in Seq(Nat)
      BY <1>0, <1>2 DEF AnswerPosts, StarsTypeOK
    <2>2. postReads' \in Seq(Nat) BY <2>1
    <2>3. postSet' \subseteq Post /\ Orphans \subseteq Post
      BY <1>0, <1>2, ViewsArePosts DEF AnswerPosts, StarsTypeOK, Orphans
    <2>4. PICK order \in Bijection(1 .. Cardinality(Orphans), Orphans) :
            Enqueue(CleanUp(Orphans, order))
      BY <1>2 DEF AnswerPosts, CleanUp
    <2>5. queue' \in [Account -> Seq(Mutation)]
      BY <1>0, <2>3, <2>4, FavouritesAssumption, CleanUpIsWritten, Enqueued
      DEF FavouritesAssumption
    <2>6. /\ data' \subseteq Post /\ postSelected' \subseteq Post
          /\ selectedCells' \in 0 .. MaxCells
      BY <1>0, <1>2, <2>3 DEF AnswerPosts, StarsTypeOK, feedVars
    <2>7. UNCHANGED <<serverVars, untold, favoritePostSet, favReads, wishVars, sources, touched>>
      BY <1>2 DEF AnswerPosts
    <2>8. StarsTypeOK'
      BY <1>0, <2>2, <2>3, <2>5, <2>6, <2>7 DEF StarsTypeOK, serverVars, wishVars
    <2> QED BY <1>1, <2>1, <2>8, Together DEF Signed
  <1>3. ASSUME NEW c \in Account, AnswerFavourites(c)
        PROVE  Signed'
    <2>1. FavouritesView(c) \subseteq Post
      BY <1>0 DEF FavouritesView, Unstamped, StarsTypeOK
    <2>2. favoritePostSet' \subseteq Post /\ favReads' \subseteq Someone
          /\ sources' \subseteq Someone
      BY <1>0, <1>3, <2>1 DEF AnswerFavourites, ReadEnds, StarsTypeOK, Someone
    <2>3. StarsTypeOK' /\ postReads' = postReads
      BY <1>0, <1>3, <2>2 DEF AnswerFavourites, StarsTypeOK, serverVars, feedVars, wishVars
    <2> QED BY <1>1, <2>3, Together DEF Signed
  <1>4. ASSUME NEW c \in Account, FailFavourites(c)
        PROVE  Signed'
    <2>1. StarsTypeOK' /\ postReads' = postReads
      BY <1>0, <1>4
      DEF FailFavourites, StarsTypeOK, serverVars, setVars, feedVars, wishVars
    <2> QED BY <1>1, <2>1, Together DEF Signed
  <1> QED BY <1>2, <1>3, <1>4

LEMMA WishedTypes ==
  ASSUME SessionTypeOK, SessionInv, StarsTypeOK, At("home"),
         NEW p \in Post, NEW wanted \in BOOLEAN, Wished(p, wanted)
  PROVE  /\ wish' \in [Account -> SUBSET Post]
         /\ excused' \subseteq Account \X Post
         /\ touched' \subseteq Post
  <1>1. owner \in Account /\ userEmail \in Account BY AtHome
  <1>2. wish' \in [Account -> SUBSET Post] BY <1>1 DEF Wished, StarsTypeOK
  <1>3. excused' \subseteq Account \X Post BY <1>1 DEF Wished, StarsTypeOK
  <1> QED BY <1>2, <1>3 DEF Wished, StarsTypeOK

LEMMA TapsKeepTypes ==
  ASSUME FavouritesAssumption, Signed, NEW p \in Post,
         favoriteCliked(p) \/ DeleteMyPost(p)
  PROVE  Signed'
  <1>0. SessionTypeOK /\ SessionInv /\ StarsTypeOK BY Apart
  <1>1. SessionKept /\ homes' = homes
    BY SameSession, Apart DEF favoriteCliked, DeleteMyPost
  <1>2. CASE favoriteCliked(p)
    <2>1. At("home") /\ (DeleteFavoritePost(p) \/ AddFavoritePost(p))
      BY <1>2 DEF favoriteCliked
    <2>2. /\ wish' \in [Account -> SUBSET Post]
          /\ excused' \subseteq Account \X Post
          /\ touched' \subseteq Post
      BY <1>0, <2>1, WishedTypes DEF DeleteFavoritePost, AddFavoritePost
    <2>3. Enqueue(<<Write("unstar", p)>>) \/ Enqueue(<<Write("star", p)>>)
      BY <2>1 DEF DeleteFavoritePost, AddFavoritePost
    <2>4. queue' \in [Account -> Seq(Mutation)]
      BY <1>0, <2>3, Written, Enqueued DEF Ops
    <2>5. selectedCells' \in 0 .. MaxCells /\ postSelected' \subseteq Post
      <3>1. MaxCells \in Nat /\ selectedCells \in 0 .. MaxCells /\ postSelected \subseteq Post
        BY <1>0 DEF StarsTypeOK, FavouritesAssumption
      <3>2. CASE DeleteFavoritePost(p)
        <4>1. selectedCells > 0 /\ selectedCells' = selectedCells - 1
              /\ postSelected' = postSelected \ {p}
          BY <3>2 DEF DeleteFavoritePost
        <4> QED BY <3>1, <4>1
      <3>3. CASE AddFavoritePost(p)
        <4>1. selectedCells < MaxCells /\ selectedCells' = selectedCells + 1
              /\ postSelected' = postSelected \cup {p}
          BY <3>3 DEF AddFavoritePost
        <4> QED BY <3>1, <4>1
      <3> QED BY <2>1, <3>2, <3>3
    <2>6. UNCHANGED <<serverVars, untold, setVars, postReads, favReads, data, sources>>
      BY <1>2 DEF favoriteCliked
    <2>7. StarsTypeOK'
      BY <1>0, <2>2, <2>4, <2>5, <2>6 DEF StarsTypeOK, serverVars, setVars
    <2> QED BY <1>1, <2>6, <2>7, Together DEF Signed
  <1>3. CASE DeleteMyPost(p)
    <2>1. At("home") /\ Wished(p, FALSE) BY <1>3 DEF DeleteMyPost
    <2>2. /\ wish' \in [Account -> SUBSET Post]
          /\ excused' \subseteq Account \X Post
          /\ touched' \subseteq Post
      BY <1>0, <2>1, WishedTypes
    <2>3. queue' \in [Account -> Seq(Mutation)]
      BY <1>0, <1>3, WrittenTwice, Enqueued DEF DeleteMyPost
    <2>4. UNCHANGED <<serverVars, untold, setVars, postReads, favReads, feedVars, sources>>
      BY <1>3 DEF DeleteMyPost
    <2>5. StarsTypeOK'
      BY <1>0, <2>2, <2>3, <2>4 DEF StarsTypeOK, serverVars, setVars, feedVars
    <2> QED BY <1>1, <2>4, <2>5, Together DEF Signed
  <1> QED BY <1>2, <1>3

LEMMA Erased ==
  ASSUME StarsTypeOK, NEW gone, Erase(gone)
  PROVE  /\ posts' \subseteq Post /\ wish' \in [Account -> SUBSET Post]
         /\ excused' \subseteq Account \X Post
  BY DEF Erase, StarsTypeOK

LEMMA RemoteKeepsTypes ==
  ASSUME Signed, NEW p \in Post, RemoteDelete(p)
  PROVE  Signed'
  <1>0. SessionTypeOK /\ SessionInv /\ StarsTypeOK BY Apart
  <1>1. SessionKept /\ homes' = homes BY SameSession, Apart DEF RemoteDelete
  <1>2. /\ posts' \subseteq Post /\ wish' \in [Account -> SUBSET Post]
        /\ excused' \subseteq Account \X Post
    BY <1>0, Erased DEF RemoteDelete
  <1>3. StarsTypeOK' /\ postReads' = postReads
    BY <1>0, <1>2 DEF RemoteDelete, StarsTypeOK, setVars, feedVars
  <1> QED BY <1>1, <1>3, Together DEF Signed

(* The queue without the write that the server took. *)
LEMMA Dequeued ==
  ASSUME StarsTypeOK, SessionTypeOK, NEW m \in Mutation, Dequeue(m)
  PROVE  /\ user \in Account /\ queue[user] \in Seq(Mutation) /\ queue[user] # <<>>
         /\ m = Head(queue[user]) /\ Tail(queue[user]) \in Seq(Mutation)
         /\ queue' \in [Account -> Seq(Mutation)] /\ untold' \in [Account -> Nat]
         /\ \A a \in Account : queue'[a] = IF a = user THEN Tail(queue[a]) ELSE queue[a]
  <1>1. user \in Account /\ queue[user] # <<>> /\ m = Head(queue[user])
    BY DEF Dequeue, QueueOf, SessionTypeOK, Someone
  <1>2. queue[user] \in Seq(Mutation) /\ Tail(queue[user]) \in Seq(Mutation)
    BY <1>1, HeadTailProperties DEF StarsTypeOK
  <1>3. /\ queue' \in [Account -> Seq(Mutation)]
        /\ \A a \in Account : queue'[a] = IF a = user THEN Tail(queue[a]) ELSE queue[a]
    BY <1>1, <1>2 DEF Dequeue, StarsTypeOK
  <1>4. untold' \in [Account -> Nat]
    BY <1>1 DEF Dequeue, StarsTypeOK
  <1> QED BY <1>1, <1>2, <1>3, <1>4

LEMMA AppliedTypes ==
  ASSUME StarsTypeOK, NEW m \in Mutation, Apply(m)
  PROVE  /\ posts' \subseteq Post /\ favs' \in [Account -> SUBSET Post]
         /\ wish' \in [Account -> SUBSET Post] /\ excused' \subseteq Account \X Post
  <1>1. m.id \in Post BY DEF Mutation
  <1>2. CASE m.op = "star" /\ favs' = [favs EXCEPT ![m.in] = @ \cup {m.id}]
             /\ UNCHANGED <<posts, wishVars>>
    BY <1>1, <1>2 DEF StarsTypeOK, wishVars
  <1>3. CASE m.op = "unstar" /\ favs' = [favs EXCEPT ![m.in] = @ \ {m.id}]
             /\ UNCHANGED <<posts, wishVars>>
    BY <1>1, <1>3 DEF StarsTypeOK, wishVars
  <1>4. CASE Erase({m.id}) /\ UNCHANGED favs
    BY <1>4, Erased DEF StarsTypeOK
  <1> QED BY <1>2, <1>3, <1>4 DEF Apply

LEMMA ToldTypes ==
  ASSUME StarsTypeOK, SessionTypeOK, NEW m \in Mutation, Told(m) \/ NothingShown
  PROVE  /\ postSet' \subseteq Post /\ favoritePostSet' \subseteq Post
         /\ postReads' \in Seq(Nat) /\ favReads' \subseteq Someone
         /\ sources' \subseteq Someone /\ touched' \subseteq Post
         /\ homes > 0 \/ postReads' = postReads
  <1>1. CASE NothingShown
    BY <1>1 DEF NothingShown, StarsTypeOK, setVars
  <1>2. CASE homes # 0 /\ getAllPosts([h \in 1 .. homes |-> h], userEmail)
    <2>1. homes \in Nat /\ userEmail \in Someone BY DEF SessionTypeOK
    <2>2. [h \in 1 .. homes |-> h] \in [1 .. homes -> Nat] BY <2>1
    <2>3. [h \in 1 .. homes |-> h] \in Seq(Nat) BY <2>1, <2>2, SeqDef
    <2>4. /\ postSet' = {} /\ favoritePostSet' = {} /\ sources' = {} /\ touched' = {}
          /\ postReads' \in Seq(Nat) /\ favReads' \subseteq Someone
      BY <1>2, <2>1, <2>3, EmptyingTypes
    <2> QED BY <1>2, <2>1, <2>4
  <1>3. CASE postSet' = postSet \ {m.id}
             /\ UNCHANGED <<favoritePostSet, postReads, favReads, sources, touched>>
    BY <1>3 DEF StarsTypeOK
  <1> QED BY <1>1, <1>2, <1>3 DEF Told, PostDataEvent

LEMMA ServerKeepsTypes ==
  ASSUME Signed, NEW m \in Mutation, Accept(m) \/ Refuse(m)
  PROVE  Signed'
  <1>0. SessionTypeOK /\ SessionInv /\ StarsTypeOK BY Apart
  <1>1. Dequeue(m) BY DEF Accept, Refuse
  <1>2. SessionKept /\ homes' = homes BY <1>1, SameSession, Apart DEF Dequeue
  <1>3. user \in Account /\ queue' \in [Account -> Seq(Mutation)] /\ untold' \in [Account -> Nat]
    BY <1>0, <1>1, Dequeued
  <1>4. UNCHANGED feedVars BY <1>1 DEF Dequeue
  <1>5. CASE Accept(m)
    <2>1. Told(m) \/ NothingShown BY <1>5 DEF Accept
    <2>2. StarsTypeOK' /\ (homes > 0 \/ postReads' = postReads)
      BY <1>0, <1>3, <1>4, <1>5, <2>1, AppliedTypes, ToldTypes DEF Accept, StarsTypeOK, feedVars
    <2> QED BY <1>2, <2>2, Together DEF Signed
  <1>6. CASE Refuse(m)
    <2>1. m.id \in Post BY DEF Mutation
    <2>2. excused' \subseteq Account \X Post /\ touched' \subseteq Post
      BY <1>0, <1>3, <1>6, <2>1 DEF Refuse, StarsTypeOK
    <2>3. StarsTypeOK' /\ postReads' = postReads
      BY <1>0, <1>3, <1>4, <1>6, <2>2 DEF Refuse, StarsTypeOK, serverVars, setVars, feedVars
    <2> QED BY <1>2, <2>3, Together DEF Signed
  <1> QED BY <1>5, <1>6

LEMMA NextKeepsTypes ==
  ASSUME SessionAssumption, FavouritesAssumption, Signed, Next
  PROVE  Signed'
  BY MovesKeepTypes, AuthKeepsTypes, RestartKeepsTypes, FeedKeepsTypes, AnswersKeepTypes,
     TapsKeepTypes, RemoteKeepsTypes, ServerKeepsTypes
  DEF Next, FailPosts, AnswerUnstampedFavourites

LEMMA SignedStutters ==
  ASSUME Signed, UNCHANGED vars
  PROVE  Signed'
  <1>0. StarsTypeOK BY Apart
  <1>1. SessionKept /\ homes' = homes BY SameSession, Apart DEF vars
  <1>2. StarsTypeOK' /\ postReads' = postReads
    BY <1>0 DEF StarsTypeOK, vars, serverVars, setVars, feedVars, wishVars
  <1> QED BY <1>1, <1>2, Together DEF Signed

LEMMA SignedInitially ==
  ASSUME SessionAssumption, FavouritesAssumption, Init
  PROVE  Signed
  <1>1. Seated
    BY SessionStarts, SessionAssumption DEF Init
  <1>2. StarsTypeOK /\ postReads = <<>>
    BY FavouritesAssumption DEF Init, StarsTypeOK, FavouritesAssumption
  <1> QED BY <1>1, <1>2 DEF Signed, TypeOK, Seated, StarsTypeOK

LEMMA AlwaysSigned == Spec => []Signed
  <1>1. Init => Signed BY SignedInitially, SessionAssumption, FavouritesAssumption
  <1>2. Signed /\ [Next]_vars => Signed'
    BY NextKeepsTypes, SignedStutters, SessionAssumption, FavouritesAssumption
  <1> QED BY <1>1, <1>2, PTL DEF Spec

(***************************************************************************)
(* Every variable keeps its type.                                          *)
(***************************************************************************)
THEOREM FavouritesTypeCorrect == Spec => []TypeOK
  <1>1. Signed => TypeOK BY DEF Signed
  <1> QED BY <1>1, AlwaysSigned, PTL
-----------------------------------------------------------------------------
(* The steps as the session sees them.                                     *)

LEMMA StepsOfSession == [Next]_vars => SessionSteps
  BY DEF Next, SessionSteps, vars, UserMoves, LeaveHome, Restart, AuthAnswers, OpenHome,
     Pull, OpenFavorites, AnswerPosts, FailPosts, AnswerFavourites, FailFavourites,
     AnswerUnstampedFavourites, favoriteCliked, DeleteMyPost, RemoteDelete, Accept, Refuse,
     Dequeue

(***************************************************************************)
(* Every read and write of favourites goes to the collection of the        *)
(* account whose sign-in opened the home screen, up to late registrations. *)
(***************************************************************************)
THEOREM HomeBelongsToOwner == Spec => []HomeIsOwners
  <1>1. Init => HomeIsOwners
    BY SessionStarts, SessionAssumption DEF Init, HomeIsOwners
  <1>2. Signed /\ HomeIsOwners /\ [Next]_vars => HomeIsOwners'
    BY OwnerKept, StepsOfSession, Apart
  <1> QED BY <1>1, <1>2, AlwaysSigned, PTL DEF Spec

(***************************************************************************)
(* A visible screen with hidden buttons waits for an answer.               *)
(***************************************************************************)
THEOREM ButtonsComeBack == Spec => []HiddenWhileWaiting
  <1>1. Init => HiddenWhileWaiting
    BY DEF Init, SessionInit, Fresh, HiddenWhileWaiting
  <1>2. Signed /\ HiddenWhileWaiting /\ [Next]_vars => HiddenWhileWaiting'
    BY ButtonsKept, StepsOfSession, Apart, SessionAssumption
  <1> QED BY <1>1, <1>2, AlwaysSigned, PTL DEF Spec

-----------------------------------------------------------------------------
(* Sequences of writes.                                                    *)

(* Some write in q is of document p of collection c. *)
HasOp(q, c, p) == \E i \in DOMAIN q : Mutates(q[i], c, p)

(* Some write in q deletes post p. *)
Deletes(q, p) == \E i \in DOMAIN q : q[i].op = "delete" /\ q[i].id = p

(* Whether p is in collection c, once q has been applied to documents f. *)
After(q, f, c, p) ==
  \/ LastOp(q, "star", c, p)
  \/ p \in f /\ ~LastOp(q, "unstar", c, p)

(* Every document that q writes has a newest write in it. *)
Decided(q) ==
  \A c \in Account, p \in Post :
    HasOp(q, c, p) => LastOp(q, "star", c, p) \/ LastOp(q, "unstar", c, p)

LEMMA Joined ==
  ASSUME NEW q \in Seq(Mutation), NEW t \in Seq(Mutation)
  PROVE  /\ DOMAIN q = 1 .. Len(q) /\ DOMAIN t = 1 .. Len(t)
         /\ Len(q) \in Nat /\ Len(t) \in Nat
         /\ DOMAIN (q \o t) = 1 .. Len(q) + Len(t)
         /\ \A i \in 1 .. Len(q) : (q \o t)[i] = q[i]
         /\ \A i \in 1 .. Len(t) : (q \o t)[Len(q) + i] = t[i]
  <1>1. /\ q \o t \in Seq(Mutation) /\ Len(q \o t) = Len(q) + Len(t)
        /\ \A i \in 1 .. Len(q) + Len(t) :
             (q \o t)[i] = IF i <= Len(q) THEN q[i] ELSE t[i - Len(q)]
    BY ConcatProperties
  <1>2. Len(q) \in Nat /\ Len(t) \in Nat BY LenProperties
  <1>3. \A i \in 1 .. Len(t) : (q \o t)[Len(q) + i] = t[i]
    <2> TAKE i \in 1 .. Len(t)
    <2>1. Len(q) + i \in 1 .. Len(q) + Len(t) /\ ~(Len(q) + i <= Len(q)) /\ (Len(q) + i) - Len(q) = i
      BY <1>2
    <2> QED BY <1>1, <2>1
  <1> QED BY <1>1, <1>2, <1>3, LenProperties

LEMMA Split ==
  ASSUME NEW q \in Seq(Mutation), NEW t \in Seq(Mutation), NEW k \in DOMAIN (q \o t)
  PROVE  \/ k \in DOMAIN q /\ (q \o t)[k] = q[k]
         \/ \E i \in DOMAIN t : k = Len(q) + i /\ (q \o t)[k] = t[i]
  <1>0. k \in 1 .. Len(q) + Len(t) /\ Len(q) \in Nat /\ Len(t) \in Nat BY Joined
  <1>1. CASE k <= Len(q)
    BY <1>0, <1>1, Joined
  <1>2. CASE k > Len(q)
    <2>1. k - Len(q) \in 1 .. Len(t) /\ k = Len(q) + (k - Len(q)) BY <1>0, <1>2
    <2> QED BY <2>1, Joined
  <1> QED BY <1>0, <1>1, <1>2

LEMMA JoinedHas ==
  ASSUME NEW q \in Seq(Mutation), NEW t \in Seq(Mutation), NEW c, NEW p
  PROVE  /\ HasOp(q \o t, c, p) <=> HasOp(q, c, p) \/ HasOp(t, c, p)
         /\ Deletes(q \o t, p) <=> Deletes(q, p) \/ Deletes(t, p)
  <1>1. \A i \in DOMAIN q : i \in DOMAIN (q \o t) /\ (q \o t)[i] = q[i]
    BY Joined
  <1>2. \A i \in DOMAIN t : Len(q) + i \in DOMAIN (q \o t) /\ (q \o t)[Len(q) + i] = t[i]
    BY Joined
  <1>3. HasOp(q \o t, c, p) <=> HasOp(q, c, p) \/ HasOp(t, c, p)
    BY <1>1, <1>2, Split DEF HasOp
  <1>4. Deletes(q \o t, p) <=> Deletes(q, p) \/ Deletes(t, p)
    <2>1. ASSUME Deletes(q \o t, p) PROVE Deletes(q, p) \/ Deletes(t, p)
      <3>1. PICK k \in DOMAIN (q \o t) : (q \o t)[k].op = "delete" /\ (q \o t)[k].id = p
        BY <2>1 DEF Deletes
      <3>2. \/ k \in DOMAIN q /\ (q \o t)[k] = q[k]
            \/ \E i \in DOMAIN t : (q \o t)[k] = t[i]
        BY Split
      <3> QED BY <3>1, <3>2 DEF Deletes
    <2>2. ASSUME Deletes(q, p) PROVE Deletes(q \o t, p)
      BY <1>1, <2>2 DEF Deletes
    <2>3. ASSUME Deletes(t, p) PROVE Deletes(q \o t, p)
      <3>1. PICK i \in DOMAIN t : t[i].op = "delete" /\ t[i].id = p
        BY <2>3 DEF Deletes
      <3> QED BY <1>2, <3>1 DEF Deletes
    <2> QED BY <2>1, <2>2, <2>3
  <1> QED BY <1>3, <1>4

(* The newest write of p is in the second part, if that writes p at all. *)
LEMMA JoinedLast ==
  ASSUME NEW q \in Seq(Mutation), NEW t \in Seq(Mutation), NEW op, NEW c, NEW p
  PROVE  /\ HasOp(t, c, p) => (LastOp(q \o t, op, c, p) <=> LastOp(t, op, c, p))
         /\ ~HasOp(t, c, p) => (LastOp(q \o t, op, c, p) <=> LastOp(q, op, c, p))
  <1> DEFINE r == q \o t
  <1>0. /\ DOMAIN q = 1 .. Len(q) /\ DOMAIN t = 1 .. Len(t)
        /\ Len(q) \in Nat /\ Len(t) \in Nat /\ DOMAIN r = 1 .. Len(q) + Len(t)
        /\ \A i \in 1 .. Len(q) : r[i] = q[i]
        /\ \A i \in 1 .. Len(t) : r[Len(q) + i] = t[i]
    BY Joined
  <1>s. \A k \in DOMAIN r : \/ k \in DOMAIN q /\ r[k] = q[k]
                            \/ \E i \in DOMAIN t : k = Len(q) + i /\ r[k] = t[i]
    BY Split
  <1> HIDE DEF r
  <1>1. ASSUME LastOp(t, op, c, p) PROVE LastOp(r, op, c, p)
    <2>1. PICK i \in DOMAIN t : /\ Mutates(t[i], c, p) /\ t[i].op = op
                                /\ \A j \in DOMAIN t : j > i => ~Mutates(t[j], c, p)
      BY <1>1 DEF LastOp
    <2>2. Len(q) + i \in DOMAIN r /\ r[Len(q) + i] = t[i] BY <1>0
    <2>3. ASSUME NEW k \in DOMAIN r, k > Len(q) + i PROVE ~Mutates(r[k], c, p)
      <3>1. k \notin DOMAIN q BY <1>0, <2>3
      <3>2. PICK j \in DOMAIN t : k = Len(q) + j /\ r[k] = t[j] BY <1>s, <3>1
      <3>3. j > i BY <1>0, <2>3, <3>2
      <3> QED BY <2>1, <3>2, <3>3
    <2> QED BY <2>1, <2>2, <2>3 DEF LastOp
  <1>2. ASSUME HasOp(t, c, p), LastOp(r, op, c, p) PROVE LastOp(t, op, c, p)
    <2>1. PICK k \in DOMAIN r : /\ Mutates(r[k], c, p) /\ r[k].op = op
                                /\ \A j \in DOMAIN r : j > k => ~Mutates(r[j], c, p)
      BY <1>2 DEF LastOp
    <2>2. PICK h \in DOMAIN t : Mutates(t[h], c, p) BY <1>2 DEF HasOp
    <2>3. Len(q) + h \in DOMAIN r /\ r[Len(q) + h] = t[h] BY <1>0
    <2>4. k \notin DOMAIN q
      <3>1. k \in Nat /\ h \in Nat /\ ~(Len(q) + h > k) BY <1>0, <2>1, <2>2, <2>3
      <3> QED BY <1>0, <3>1
    <2>5. PICK i \in DOMAIN t : k = Len(q) + i /\ r[k] = t[i] BY <1>s, <2>4
    <2>6. ASSUME NEW j \in DOMAIN t, j > i PROVE ~Mutates(t[j], c, p)
      <3>1. Len(q) + j \in DOMAIN r /\ Len(q) + j > k /\ r[Len(q) + j] = t[j] BY <1>0, <2>5, <2>6
      <3> QED BY <2>1, <3>1
    <2> QED BY <2>1, <2>5, <2>6 DEF LastOp
  <1>3. ASSUME ~HasOp(t, c, p), LastOp(q, op, c, p) PROVE LastOp(r, op, c, p)
    <2>1. PICK i \in DOMAIN q : /\ Mutates(q[i], c, p) /\ q[i].op = op
                                /\ \A j \in DOMAIN q : j > i => ~Mutates(q[j], c, p)
      BY <1>3 DEF LastOp
    <2>2. i \in DOMAIN r /\ r[i] = q[i] BY <1>0
    <2>3. ASSUME NEW k \in DOMAIN r, k > i PROVE ~Mutates(r[k], c, p)
      BY <1>3, <1>s, <2>1, <2>3 DEF HasOp
    <2> QED BY <2>1, <2>2, <2>3 DEF LastOp
  <1>4. ASSUME ~HasOp(t, c, p), LastOp(r, op, c, p) PROVE LastOp(q, op, c, p)
    <2>1. PICK k \in DOMAIN r : /\ Mutates(r[k], c, p) /\ r[k].op = op
                                /\ \A j \in DOMAIN r : j > k => ~Mutates(r[j], c, p)
      BY <1>4 DEF LastOp
    <2>2. k \in DOMAIN q /\ r[k] = q[k] BY <1>4, <1>s, <2>1 DEF HasOp
    <2>3. ASSUME NEW j \in DOMAIN q, j > k PROVE ~Mutates(q[j], c, p)
      <3>1. j \in DOMAIN r /\ r[j] = q[j] BY <1>0
      <3> QED BY <2>1, <2>3, <3>1
    <2> QED BY <2>1, <2>2, <2>3 DEF LastOp
  <1> QED BY <1>1, <1>2, <1>3, <1>4 DEF r

LEMMA OneWrite ==
  ASSUME NEW m \in Mutation, NEW op, NEW c, NEW p
  PROVE  /\ <<m>> \in Seq(Mutation)
         /\ HasOp(<<m>>, c, p) <=> Mutates(m, c, p)
         /\ LastOp(<<m>>, op, c, p) <=> Mutates(m, c, p) /\ m.op = op
         /\ Deletes(<<m>>, p) <=> m.op = "delete" /\ m.id = p
  <1>1. <<m>> \in Seq(Mutation) /\ DOMAIN <<m>> = {1} /\ <<m>>[1] = m OBVIOUS
  <1> QED BY <1>1 DEF HasOp, LastOp, Deletes

LEMMA AtMostOneLast ==
  ASSUME NEW q \in Seq(Mutation), NEW c, NEW p
  PROVE  /\ ~(LastOp(q, "star", c, p) /\ LastOp(q, "unstar", c, p))
         /\ \A op : LastOp(q, op, c, p) => HasOp(q, c, p)
  <1>1. DOMAIN q \subseteq Nat BY LenProperties
  <1>2. ASSUME LastOp(q, "star", c, p), LastOp(q, "unstar", c, p) PROVE FALSE
    <2>1. PICK i \in DOMAIN q : /\ Mutates(q[i], c, p) /\ q[i].op = "star"
                                /\ \A j \in DOMAIN q : j > i => ~Mutates(q[j], c, p)
      BY <1>2 DEF LastOp
    <2>2. PICK k \in DOMAIN q : /\ Mutates(q[k], c, p) /\ q[k].op = "unstar"
                                /\ \A j \in DOMAIN q : j > k => ~Mutates(q[j], c, p)
      BY <1>2 DEF LastOp
    <2>3. i \in Nat /\ k \in Nat /\ ~(i > k) /\ ~(k > i) BY <1>1, <2>1, <2>2
    <2>4. i = k BY <2>3
    <2> QED BY <2>1, <2>2, <2>4
  <1> QED BY <1>2 DEF LastOp, HasOp

LEMMA HeadAndTail ==
  ASSUME NEW q \in Seq(Mutation), q # <<>>
  PROVE  /\ Head(q) \in Mutation /\ Tail(q) \in Seq(Mutation)
         /\ q = <<Head(q)>> \o Tail(q)
  <1>1. /\ Head(q) \in Mutation /\ Tail(q) \in Seq(Mutation) /\ Len(Tail(q)) = Len(q) - 1
        /\ \A i \in 1 .. Len(Tail(q)) : Tail(q)[i] = q[i + 1]
        /\ Head(q) = q[1] /\ Len(q) \in Nat \ {0}
    BY HeadTailProperties, EmptySeq
  <1>2. <<Head(q)>> \in Seq(Mutation) /\ Len(<<Head(q)>>) = 1 /\ <<Head(q)>>[1] = Head(q)
    BY <1>1
  <1>3. /\ <<Head(q)>> \o Tail(q) \in Seq(Mutation)
        /\ Len(<<Head(q)>> \o Tail(q)) = Len(q)
        /\ \A i \in 1 .. Len(q) :
             (<<Head(q)>> \o Tail(q))[i] = IF i <= 1 THEN <<Head(q)>>[i] ELSE Tail(q)[i - 1]
    BY <1>1, <1>2, ConcatProperties
  <1>4. \A i \in 1 .. Len(q) : (<<Head(q)>> \o Tail(q))[i] = q[i]
    <2> TAKE i \in 1 .. Len(q)
    <2>1. CASE i = 1 BY <1>1, <1>2, <1>3, <2>1
    <2>2. CASE i # 1
      <3>1. i - 1 \in 1 .. Len(Tail(q)) /\ ~(i <= 1) /\ (i - 1) + 1 = i BY <1>1, <2>2
      <3> QED BY <1>1, <1>3, <3>1
    <2> QED BY <2>1, <2>2
  <1> QED BY <1>1, <1>3, <1>4, SeqEqual
-----------------------------------------------------------------------------
(* What writes do to stars.                                                *)

LEMMA SameStars ==
  ASSUME NEW q, NEW f, NEW g, NEW c, NEW p, p \in f <=> p \in g
  PROVE  After(q, f, c, p) <=> After(q, g, c, p)
  BY DEF After

(* Writes that are queued: those of t come last. *)
LEMMA AfterJoined ==
  ASSUME NEW q \in Seq(Mutation), NEW t \in Seq(Mutation), NEW f, NEW c, NEW p
  PROVE  /\ LastOp(t, "star", c, p) => After(q \o t, f, c, p)
         /\ LastOp(t, "unstar", c, p) => ~After(q \o t, f, c, p)
         /\ ~HasOp(t, c, p) => (After(q \o t, f, c, p) <=> After(q, f, c, p))
  <1>1. \A op \in {"star", "unstar"} : LastOp(t, op, c, p) => HasOp(t, c, p)
    BY AtMostOneLast
  <1>2. ~(LastOp(t, "star", c, p) /\ LastOp(t, "unstar", c, p)) BY AtMostOneLast
  <1>3. HasOp(t, c, p) =>
          /\ LastOp(q \o t, "star", c, p) <=> LastOp(t, "star", c, p)
          /\ LastOp(q \o t, "unstar", c, p) <=> LastOp(t, "unstar", c, p)
    BY JoinedLast
  <1>4. ~HasOp(t, c, p) =>
          /\ LastOp(q \o t, "star", c, p) <=> LastOp(q, "star", c, p)
          /\ LastOp(q \o t, "unstar", c, p) <=> LastOp(q, "unstar", c, p)
    BY JoinedLast
  <1> QED BY <1>1, <1>2, <1>3, <1>4 DEF After

LEMMA DecidedJoined ==
  ASSUME NEW q \in Seq(Mutation), NEW t \in Seq(Mutation), Decided(q), Decided(t)
  PROVE  Decided(q \o t)
  <1> SUFFICES ASSUME NEW c \in Account, NEW p \in Post, HasOp(q \o t, c, p)
               PROVE  LastOp(q \o t, "star", c, p) \/ LastOp(q \o t, "unstar", c, p)
    BY DEF Decided
  <1>1. CASE HasOp(t, c, p) BY <1>1, JoinedLast DEF Decided
  <1>2. CASE ~HasOp(t, c, p)
    <2>1. HasOp(q, c, p) BY <1>2, JoinedHas
    <2> QED BY <1>2, <2>1, JoinedLast DEF Decided
  <1> QED BY <1>1, <1>2

LEMMA DecidedTail ==
  ASSUME NEW q \in Seq(Mutation), q # <<>>, Decided(q)
  PROVE  Decided(Tail(q))
  <1> SUFFICES ASSUME NEW c \in Account, NEW p \in Post, HasOp(Tail(q), c, p)
               PROVE  LastOp(Tail(q), "star", c, p) \/ LastOp(Tail(q), "unstar", c, p)
    BY DEF Decided
  <1> DEFINE h == <<Head(q)>>
             t == Tail(q)
  <1>1. h \in Seq(Mutation) /\ t \in Seq(Mutation) /\ q = h \o t
    BY HeadAndTail, OneWrite
  <1>2. HasOp(t, c, p) OBVIOUS
  <1> HIDE DEF h, t
  <1>3. HasOp(h \o t, c, p) BY <1>1, <1>2, JoinedHas
  <1>4. \A op : LastOp(h \o t, op, c, p) <=> LastOp(t, op, c, p) BY <1>1, <1>2, JoinedLast
  <1>5. LastOp(q, "star", c, p) \/ LastOp(q, "unstar", c, p)
    BY <1>1, <1>3 DEF Decided
  <1>6. LastOp(t, "star", c, p) \/ LastOp(t, "unstar", c, p) BY <1>1, <1>4, <1>5
  <1> QED BY <1>6 DEF t

LEMMA DecidedOne ==
  ASSUME NEW m \in Mutation
  PROVE  Decided(<<m>>)
  <1>1. m.op \in Ops BY DEF Mutation
  <1> QED BY <1>1, OneWrite DEF Decided, Ops, Mutates

(* The oldest write, taken from the queue to documents f. *)
LEMMA AfterTaken ==
  ASSUME NEW q \in Seq(Mutation), q # <<>>, Decided(q), NEW f,
         NEW c \in Account, NEW p \in Post
  PROVE  /\ Mutates(Head(q), c, p) /\ Head(q).op = "star" =>
              \A g : p \in g => (After(q, f, c, p) <=> After(Tail(q), g, c, p))
         /\ Mutates(Head(q), c, p) /\ Head(q).op = "unstar" =>
              \A g : p \notin g => (After(q, f, c, p) <=> After(Tail(q), g, c, p))
         /\ ~Mutates(Head(q), c, p) => (After(q, f, c, p) <=> After(Tail(q), f, c, p))
  <1> DEFINE h == <<Head(q)>>
             t == Tail(q)
  <1>1. /\ Head(q) \in Mutation /\ h \in Seq(Mutation) /\ t \in Seq(Mutation) /\ q = h \o t
        /\ HasOp(h, c, p) <=> Mutates(Head(q), c, p)
        /\ \A op : LastOp(h, op, c, p) <=> Mutates(Head(q), c, p) /\ Head(q).op = op
    BY HeadAndTail, OneWrite
  <1>2. Decided(t) BY DecidedTail
  <1> HIDE DEF h, t
  <1>3. HasOp(t, c, p) =>
          /\ LastOp(q, "star", c, p) <=> LastOp(t, "star", c, p)
          /\ LastOp(q, "unstar", c, p) <=> LastOp(t, "unstar", c, p)
          /\ LastOp(t, "star", c, p) \/ LastOp(t, "unstar", c, p)
    BY <1>1, <1>2, JoinedLast DEF Decided
  <1>4. ~HasOp(t, c, p) =>
          /\ LastOp(q, "star", c, p) <=> LastOp(h, "star", c, p)
          /\ LastOp(q, "unstar", c, p) <=> LastOp(h, "unstar", c, p)
          /\ ~LastOp(t, "star", c, p) /\ ~LastOp(t, "unstar", c, p)
    BY <1>1, JoinedLast, AtMostOneLast
  <1>5. ~(LastOp(t, "star", c, p) /\ LastOp(t, "unstar", c, p)) BY <1>1, AtMostOneLast
  <1>6. /\ Mutates(Head(q), c, p) /\ Head(q).op = "star" =>
              \A g : p \in g => (After(q, f, c, p) <=> After(t, g, c, p))
        /\ Mutates(Head(q), c, p) /\ Head(q).op = "unstar" =>
              \A g : p \notin g => (After(q, f, c, p) <=> After(t, g, c, p))
        /\ ~Mutates(Head(q), c, p) => (After(q, f, c, p) <=> After(t, f, c, p))
    <2>1. CASE HasOp(t, c, p)
      BY <2>1, <1>3, <1>5 DEF After
    <2>2. CASE ~HasOp(t, c, p)
      <3>1. /\ LastOp(h, "star", c, p) <=> Mutates(Head(q), c, p) /\ Head(q).op = "star"
            /\ LastOp(h, "unstar", c, p) <=> Mutates(Head(q), c, p) /\ Head(q).op = "unstar"
        BY <1>1
      <3>2. ~(Head(q).op = "star" /\ Head(q).op = "unstar") OBVIOUS
      <3> QED BY <2>2, <1>4, <3>1, <3>2 DEF After
    <2> QED BY <2>1, <2>2
  <1> QED BY <1>6 DEF t

LEMMA TakenDeletes ==
  ASSUME NEW q \in Seq(Mutation), q # <<>>, NEW p
  PROVE  Deletes(q, p) <=> (Head(q).op = "delete" /\ Head(q).id = p) \/ Deletes(Tail(q), p)
  <1>1. /\ Head(q) \in Mutation /\ <<Head(q)>> \in Seq(Mutation) /\ Tail(q) \in Seq(Mutation)
        /\ q = <<Head(q)>> \o Tail(q)
        /\ Deletes(<<Head(q)>>, p) <=> Head(q).op = "delete" /\ Head(q).id = p
    BY HeadAndTail, OneWrite
  <1>2. Deletes(<<Head(q)>> \o Tail(q), p) <=> Deletes(<<Head(q)>>, p) \/ Deletes(Tail(q), p)
    BY <1>1, JoinedHas
  <1> QED BY <1>1, <1>2
-----------------------------------------------------------------------------
(* The queues and the stars.                                               *)

(***************************************************************************)
(* Every account's queue writes into the collection of that account: a     *)
(* write is only made while Post.userEmail is the user of Auth.            *)
(***************************************************************************)
QueuesInv ==
  \A a \in Account :
    Decided(queue[a]) /\ \A i \in DOMAIN queue[a] : queue[a][i].in = a

Follows(a, p) ==
  ~Deletes(queue[a], p) /\ <<a, p>> \notin excused
  => (After(queue[a], favs[a], a, p) <=> p \in wish[a])

StarsInv == QueuesInv /\ \A a \in Account, p \in posts : Follows(a, p)

LEMMA DeletingIs ==
  ASSUME SessionAssumption, NEW a \in Account, NEW p
  PROVE  Deleting(a, p) <=> Deletes(queue[a], p)
  <1>1. a # NoAccount BY DEF SessionAssumption
  <1> QED BY <1>1 DEF Deleting, Deletes, QueueOf

LEMMA FollowingIs ==
  ASSUME SessionAssumption, \A a \in Account, p \in posts : Follows(a, p)
  PROVE  StarsFollowTaps
  <1> SUFFICES ASSUME NEW a \in Account, NEW p \in posts,
                      ~Deleting(a, p), <<a, p>> \notin excused
               PROVE  Starred(a, p) <=> p \in wish[a]
    BY DEF StarsFollowTaps
  <1>1. ~Deletes(queue[a], p) BY DeletingIs
  <1> QED BY <1>1 DEF Follows, Starred, After

LEMMA QueuesGrow ==
  ASSUME StarsTypeOK, QueuesInv, NEW ms \in Seq(Mutation), Enqueue(ms), Decided(ms),
         \A i \in DOMAIN ms : ms[i].in = user
  PROVE  QueuesInv'
  <1> SUFFICES ASSUME NEW a \in Account
               PROVE  Decided(queue'[a]) /\ \A i \in DOMAIN queue'[a] : queue'[a][i].in = a
    BY DEF QueuesInv
  <1>0. Decided(queue'[a]) <=> Decided(queue[a])' BY DEF Decided, HasOp, LastOp, Mutates
  <1>1. CASE a # user BY <1>1, Enqueued DEF QueuesInv
  <1>2. CASE a = user
    <2>1. queue[a] \in Seq(Mutation) /\ queue'[a] = queue[a] \o ms
      BY <1>2, Enqueued DEF StarsTypeOK
    <2>2. Decided(queue'[a]) BY <2>1, DecidedJoined DEF QueuesInv
    <2>3. ASSUME NEW k \in DOMAIN queue'[a] PROVE queue'[a][k].in = a
      <3>1. \/ k \in DOMAIN queue[a] /\ queue'[a][k] = queue[a][k]
            \/ \E i \in DOMAIN ms : queue'[a][k] = ms[i]
        BY <2>1, Split
      <3> QED BY <1>2, <3>1 DEF QueuesInv
    <2> QED BY <2>2, <2>3
  <1> QED BY <1>1, <1>2

(* Stars that the new writes are not about. *)
LEMMA OthersFollow ==
  ASSUME StarsTypeOK, NEW ms \in Seq(Mutation), Enqueue(ms), favs' = favs,
         NEW a \in Account, NEW p, Follows(a, p),
         a = user => ~HasOp(ms, a, p),
         p \in wish'[a] <=> p \in wish[a],
         <<a, p>> \notin excused' => <<a, p>> \notin excused
  PROVE  Follows(a, p)'
  <1>1. CASE a # user
    <2>1. queue'[a] = queue[a] BY <1>1, Enqueued
    <2> QED BY <2>1 DEF Follows, Deletes, After, LastOp, Mutates
  <1>2. CASE a = user
    <2>1. queue[a] \in Seq(Mutation) /\ queue'[a] = queue[a] \o ms
      BY <1>2, Enqueued DEF StarsTypeOK
    <2>2. Deletes(queue[a], p) => Deletes(queue[a] \o ms, p) BY <2>1, JoinedHas
    <2>3. After(queue[a] \o ms, favs[a], a, p) <=> After(queue[a], favs[a], a, p)
      BY <1>2, <2>1, AfterJoined
    <2>4. ~Deletes(queue[a] \o ms, p) /\ <<a, p>> \notin excused'
          => (After(queue[a] \o ms, favs[a], a, p) <=> p \in wish'[a])
      BY <2>2, <2>3 DEF Follows
    <2> QED BY <2>1, <2>4 DEF Follows, Deletes, After, LastOp, Mutates
  <1> QED BY <1>1, <1>2

LEMMA CleanUpDecided ==
  ASSUME SessionTypeOK, NEW S \in SUBSET Post, IsFiniteSet(Post),
         NEW order \in Bijection(1 .. Cardinality(S), S)
  PROVE  /\ Decided(CleanUp(S, order))
         /\ \A c, p : HasOp(CleanUp(S, order), c, p) => p \in S
         /\ \A i \in DOMAIN CleanUp(S, order) : CleanUp(S, order)[i].in = userEmail
  <1> DEFINE ms == CleanUp(S, order)
  <1>1. /\ Cardinality(S) \in Nat /\ order \in [1 .. Cardinality(S) -> S]
        /\ ms \in Seq(Mutation)
    BY CleanUpIsWritten
  <1>2. \A i, j \in 1 .. Cardinality(S) : order[i] = order[j] => i = j
    BY DEF Bijection, Injection, IsInjective
  <1>3. /\ DOMAIN ms = 1 .. Cardinality(S)
        /\ \A i \in 1 .. Cardinality(S) :
             ms[i].op = "unstar" /\ ms[i].id = order[i] /\ ms[i].in = userEmail
    BY DEF CleanUp, Write
  <1> HIDE DEF ms
  <1>4. ASSUME NEW c, NEW p, HasOp(ms, c, p)
        PROVE  p \in S /\ LastOp(ms, "unstar", c, p)
    <2>1. PICK i \in DOMAIN ms : Mutates(ms[i], c, p) BY <1>4 DEF HasOp
    <2>2. p = order[i] /\ p \in S BY <1>1, <1>3, <2>1 DEF Mutates
    <2>3. ASSUME NEW j \in DOMAIN ms, j > i PROVE ~Mutates(ms[j], c, p)
      <3>1. j # i /\ i \in 1 .. Cardinality(S) /\ j \in 1 .. Cardinality(S)
        BY <1>1, <1>3, <2>1, <2>3
      <3>2. order[j] # p BY <1>2, <2>2, <3>1
      <3> QED BY <1>3, <3>1, <3>2 DEF Mutates
    <2>4. LastOp(ms, "unstar", c, p) BY <1>3, <2>1, <2>3 DEF LastOp
    <2> QED BY <2>2, <2>4
  <1> QED BY <1>3, <1>4 DEF Decided, ms

LEMMA CleanUpFollows ==
  ASSUME SessionAssumption, FavouritesAssumption, Signed, StarsInv, AnswerPosts
  PROVE  StarsInv'
  <1>0. SessionTypeOK /\ SessionInv /\ StarsTypeOK BY Apart
  <1>1. /\ postReads # <<>> /\ postSet' = postSet \cup PostsView
        /\ UNCHANGED <<posts, favs, wish, excused>>
    BY DEF AnswerPosts, serverVars, wishVars
  <1>2. user \in Account /\ user = userEmail BY <1>1, Awaiting
  <1>3. Orphans \in SUBSET Post BY <1>0 DEF Orphans, StarsTypeOK
  <1>4. PICK order \in Bijection(1 .. Cardinality(Orphans), Orphans) :
          Enqueue(CleanUp(Orphans, order))
    BY DEF AnswerPosts, CleanUp
  <1> DEFINE ms == CleanUp(Orphans, order)
  <1>5. /\ ms \in Seq(Mutation) /\ Decided(ms)
        /\ \A c, p : HasOp(ms, c, p) => p \in Orphans
        /\ \A i \in DOMAIN ms : ms[i].in = userEmail
    BY <1>0, <1>3, CleanUpIsWritten, CleanUpDecided DEF FavouritesAssumption
  <1>6. Enqueue(ms) BY <1>4
  <1> HIDE DEF ms
  <1>7. QueuesInv' BY <1>0, <1>2, <1>5, <1>6, QueuesGrow DEF StarsInv
  <1>8. ASSUME NEW a \in Account, NEW p \in posts PROVE Follows(a, p)'
    <2>0. Follows(a, p) BY DEF StarsInv
    <2>1. CASE a = user => ~HasOp(ms, a, p)
      BY <1>0, <1>1, <1>5, <1>6, <2>0, <2>1, OthersFollow
    <2>2. CASE a = user /\ HasOp(ms, a, p)
      <3>1. p \notin PostsView BY <1>1, <1>5, <2>2 DEF Orphans
      <3>2. Deletes(queue[a], p) BY <2>2, <3>1, DeletingIs DEF PostsView
      <3>3. queue[a] \in Seq(Mutation) /\ queue'[a] = queue[a] \o ms
        BY <1>0, <1>5, <1>6, <2>2, Enqueued DEF StarsTypeOK
      <3>4. Deletes(queue'[a], p) BY <1>5, <3>2, <3>3, JoinedHas
      <3> QED BY <3>4 DEF Follows, Deletes
    <2> QED BY <2>1, <2>2
  <1> QED BY <1>1, <1>7, <1>8 DEF StarsInv

(* A tap or a deletion on the home screen; x is the post it is about. *)
LEMMA WishedFollows ==
  ASSUME SessionAssumption, Signed, StarsInv, At("home"),
         NEW ms \in Seq(Mutation), Enqueue(ms), UNCHANGED <<posts, favs>>,
         NEW x \in Post, NEW wanted \in BOOLEAN, Wished(x, wanted),
         \A c, p : HasOp(ms, c, p) => p = x,
         wanted => LastOp(ms, "star", user, x),
         ~wanted => LastOp(ms, "unstar", user, x),
         NEW a \in Account, NEW p \in posts
  PROVE  Follows(a, p)'
  <1>0. SessionTypeOK /\ SessionInv /\ StarsTypeOK BY Apart
  <1>1. owner \in Account /\ userEmail \in Account /\ user = userEmail BY <1>0, AtHome
  <1>2. Follows(a, p) BY DEF StarsInv
  <1>3. wish'[a] = IF a # owner THEN wish[a]
                   ELSE IF wanted THEN wish[a] \cup ({x} \cap posts) ELSE wish[a] \ {x}
    BY <1>0, <1>1 DEF Wished, StarsTypeOK
  <1>4. excused' = IF userEmail = owner THEN excused \ {<<owner, x>>}
                   ELSE excused \cup ({owner, userEmail} \X ({x} \cap posts))
    BY DEF Wished
  <1>5. CASE p # x
    <2>1. p \in wish'[a] <=> p \in wish[a] BY <1>3, <1>5
    <2>2. <<a, p>> \notin excused' => <<a, p>> \notin excused BY <1>4, <1>5
    <2>3. ~HasOp(ms, a, p) BY <1>5
    <2> QED BY <1>0, <1>2, <2>1, <2>2, <2>3, OthersFollow
  <1>6. CASE p = x /\ a \notin {owner, userEmail}
    <2>1. p \in wish'[a] <=> p \in wish[a] BY <1>3, <1>6
    <2>2. <<a, p>> \notin excused' => <<a, p>> \notin excused BY <1>4, <1>6
    <2> QED BY <1>0, <1>1, <1>2, <1>6, <2>1, <2>2, OthersFollow
  <1>7. CASE p = x /\ a \in {owner, userEmail} /\ userEmail # owner
    <2>1. <<a, p>> \in excused' BY <1>4, <1>7
    <2> QED BY <2>1 DEF Follows
  <1>8. CASE p = x /\ a = owner /\ userEmail = owner
    <2>1. a = user /\ queue[a] \in Seq(Mutation) /\ queue'[a] = queue[a] \o ms
      BY <1>0, <1>1, <1>8, Enqueued DEF StarsTypeOK
    <2>2. After(queue'[a], favs[a], a, p) <=> wanted
      BY <1>8, <2>1, AfterJoined
    <2>3. p \in wish'[a] <=> wanted BY <1>3, <1>8
    <2>4. After(queue'[a], favs'[a], a, p) <=> p \in wish'[a] BY <2>2, <2>3
    <2> QED BY <2>4 DEF Follows, After, LastOp, Mutates
  <1> QED BY <1>5, <1>6, <1>7, <1>8

LEMMA TapsFollow ==
  ASSUME SessionAssumption, FavouritesAssumption, Signed, StarsInv, NEW x \in Post,
         favoriteCliked(x) \/ DeleteMyPost(x)
  PROVE  StarsInv'
  <1>0. SessionTypeOK /\ SessionInv /\ StarsTypeOK BY Apart
  <1>1. At("home") /\ UNCHANGED <<posts, favs>>
    BY DEF favoriteCliked, DeleteMyPost, serverVars
  <1>2. user \in Account /\ user = userEmail BY <1>0, <1>1, AtHome
  <1>3. ASSUME NEW op \in {"star", "unstar"}, NEW wanted \in BOOLEAN, wanted <=> op = "star",
               Enqueue(<<Write(op, x)>>), Wished(x, wanted)
        PROVE  StarsInv'
    <2>1. /\ Write(op, x) \in Mutation /\ Write(op, x).op = op /\ Write(op, x).in = user
          /\ \A c, p : Mutates(Write(op, x), c, p) <=> c = user /\ p = x
      BY <1>0, <1>2, WriteIsMutation DEF Ops, Write, Mutates
    <2> DEFINE m == Write(op, x)
               ms == <<m>>
    <2>2. /\ m \in Mutation /\ m.in = user /\ m.op = op
          /\ \A c, p : Mutates(m, c, p) <=> c = user /\ p = x
      BY <2>1
    <2>3. Enqueue(ms) BY <1>3
    <2> HIDE DEF m
    <2>4. \A i \in DOMAIN ms : ms[i].in = user BY <2>2
    <2>5. ms \in Seq(Mutation) /\ Decided(ms) BY <2>2, OneWrite, DecidedOne
    <2>6. \A c, p : HasOp(ms, c, p) => p = x
      <3> TAKE c, p
      <3>1. HasOp(ms, c, p) <=> Mutates(m, c, p) BY <2>2, OneWrite
      <3> QED BY <2>2, <3>1
    <2>7. LastOp(ms, op, user, x) BY <2>2, OneWrite
    <2> HIDE DEF ms
    <2>8. QueuesInv' BY <1>0, <2>3, <2>4, <2>5, QueuesGrow DEF StarsInv
    <2>9. /\ wanted => LastOp(ms, "star", user, x)
          /\ ~wanted => LastOp(ms, "unstar", user, x)
      BY <1>3, <2>7
    <2>10. \A a \in Account, p \in posts : Follows(a, p)'
      BY <1>1, <1>3, <2>3, <2>5, <2>6, <2>9, WishedFollows
    <2> QED BY <1>1, <2>8, <2>10 DEF StarsInv
  <1>4. CASE favoriteCliked(x)
    <2>1. \/ Enqueue(<<Write("unstar", x)>>) /\ Wished(x, FALSE)
          \/ Enqueue(<<Write("star", x)>>) /\ Wished(x, TRUE)
      BY <1>4 DEF favoriteCliked, DeleteFavoritePost, AddFavoritePost
    <2> QED BY <1>3, <2>1
  <1>5. CASE DeleteMyPost(x)
    <2>1. /\ Enqueue(<<Write("delete", x), Write("unstar", x)>>) /\ Wished(x, FALSE)
      BY <1>5 DEF DeleteMyPost
    <2> DEFINE d == Write("delete", x)
               u == Write("unstar", x)
               ms == <<d, u>>
    <2>2. /\ d \in Mutation /\ d.op = "delete" /\ d.in = user
          /\ u \in Mutation /\ u.op = "unstar" /\ u.in = user
          /\ \A c, p : ~Mutates(d, c, p)
          /\ \A c, p : Mutates(u, c, p) <=> c = user /\ p = x
      BY <1>0, <1>2, WriteIsMutation DEF Ops, Write, Mutates
    <2> HIDE DEF d, u
    <2>3. ms \in Seq(Mutation) /\ DOMAIN ms = {1, 2} /\ ms[1] = d /\ ms[2] = u
      BY <2>2
    <2>4. Enqueue(ms) BY <2>1 DEF d, u
    <2> HIDE DEF ms
    <2>5. \A i \in DOMAIN ms : ms[i].in = user BY <2>2, <2>3
    <2>6. \A c, p : HasOp(ms, c, p) => c = user /\ p = x BY <2>2, <2>3 DEF HasOp
    <2>7. LastOp(ms, "unstar", user, x)
      <3>1. \A j \in DOMAIN ms : ~(j > 2) BY <2>3
      <3> QED BY <2>2, <2>3, <3>1 DEF LastOp
    <2>8. Decided(ms) BY <2>6, <2>7 DEF Decided
    <2>9. QueuesInv' BY <1>0, <2>3, <2>4, <2>5, <2>8, QueuesGrow DEF StarsInv
    <2>10. \A a \in Account, p \in posts : Follows(a, p)'
      BY <1>1, <2>1, <2>3, <2>4, <2>6, <2>7, WishedFollows
    <2> QED BY <1>1, <2>9, <2>10 DEF StarsInv
  <1> QED BY <1>4, <1>5

LEMMA QueuesShrink ==
  ASSUME StarsTypeOK, SessionTypeOK, QueuesInv, NEW m \in Mutation, Dequeue(m)
  PROVE  QueuesInv'
  <1> SUFFICES ASSUME NEW a \in Account
               PROVE  Decided(queue'[a]) /\ \A i \in DOMAIN queue'[a] : queue'[a][i].in = a
    BY DEF QueuesInv, Decided, HasOp, LastOp, Mutates
  <1>1. CASE a # user
    <2>1. queue'[a] = queue[a] BY <1>1, Dequeued
    <2> QED BY <2>1 DEF QueuesInv
  <1>2. CASE a = user
    <2>1. /\ queue[a] \in Seq(Mutation) /\ queue[a] # <<>> /\ queue'[a] = Tail(queue[a])
      BY <1>2, Dequeued
    <2>2. Decided(Tail(queue[a])) BY <2>1, DecidedTail DEF QueuesInv
    <2>3. /\ Tail(queue[a]) \in Seq(Mutation) /\ Len(Tail(queue[a])) = Len(queue[a]) - 1
          /\ \A i \in 1 .. Len(Tail(queue[a])) : Tail(queue[a])[i] = queue[a][i + 1]
      BY <2>1, HeadTailProperties
    <2>4. ASSUME NEW i \in DOMAIN Tail(queue[a]) PROVE Tail(queue[a])[i].in = a
      <3>1. i \in 1 .. Len(Tail(queue[a])) /\ Len(queue[a]) \in Nat BY <2>1, <2>3, LenProperties
      <3>2. i + 1 \in DOMAIN queue[a] BY <2>1, <2>3, <3>1, LenProperties
      <3> QED BY <2>3, <3>1, <3>2 DEF QueuesInv
    <2> QED BY <2>1, <2>2, <2>4
  <1> QED BY <1>1, <1>2

(* The write that the server takes is the user's own. *)
LEMMA TakenIsOwn ==
  ASSUME StarsTypeOK, SessionTypeOK, QueuesInv, NEW m \in Mutation, Dequeue(m)
  PROVE  m.in = user
  <1>1. user \in Account /\ queue[user] \in Seq(Mutation) /\ queue[user] # <<>>
        /\ m = Head(queue[user])
    BY Dequeued
  <1>2. 1 \in DOMAIN queue[user] /\ m = queue[user][1]
    BY <1>1, HeadTailProperties, EmptySeq, LenProperties
  <1> QED BY <1>1, <1>2 DEF QueuesInv

LEMMA RemoteFollows ==
  ASSUME Signed, StarsInv, NEW x \in Post, RemoteDelete(x)
  PROVE  StarsInv'
  <1>1. UNCHANGED <<favs, queue>> /\ posts' = posts \ {x}
        /\ wish' = [a \in Account |-> wish[a] \ {x}]
        /\ excused' = excused \ (Account \X {x})
    BY DEF RemoteDelete, Erase
  <1>2. QueuesInv' BY <1>1 DEF StarsInv, QueuesInv, Decided, HasOp, LastOp, Mutates
  <1>3. ASSUME NEW a \in Account, NEW p \in posts' PROVE Follows(a, p)'
    <2>1. p \in posts /\ p # x BY <1>1
    <2>2. Follows(a, p) BY <2>1 DEF StarsInv
    <2>3. (p \in wish'[a] <=> p \in wish[a]) /\ (<<a, p>> \in excused' <=> <<a, p>> \in excused)
      BY <1>1, <2>1
    <2>4. ~Deletes(queue'[a], p) /\ <<a, p>> \notin excused'
          => (After(queue'[a], favs'[a], a, p) <=> p \in wish'[a])
      BY <1>1, <2>2, <2>3 DEF Follows
    <2> QED BY <2>4 DEF Follows, Deletes, After, LastOp, Mutates
  <1> QED BY <1>2, <1>3 DEF StarsInv

(* What an accepted write changes: no star, only where it is. *)
LEMMA AcceptKeepsView ==
  ASSUME Signed, QueuesInv, NEW m \in Mutation, Accept(m), NEW p \in Post
  PROVE  After(queue[user], favs[user], user, p) <=> After(queue'[user], favs'[user], user, p)
  <1>0. SessionTypeOK /\ SessionInv /\ StarsTypeOK /\ Dequeue(m) /\ Apply(m)
    BY Apart DEF Accept
  <1>1. m.in = user BY <1>0, TakenIsOwn
  <1>2. /\ user \in Account /\ queue[user] \in Seq(Mutation) /\ queue[user] # <<>>
        /\ m = Head(queue[user]) /\ Decided(queue[user]) /\ queue'[user] = Tail(queue[user])
    BY <1>0, Dequeued DEF QueuesInv
  <1>3. /\ m.op = "delete" => favs' = favs
        /\ m.op = "star" => favs' = [favs EXCEPT ![user] = @ \cup {m.id}]
        /\ m.op = "unstar" => favs' = [favs EXCEPT ![user] = @ \ {m.id}]
        /\ m.op \in Ops
    BY <1>0, <1>1 DEF Apply, Mutation, Ops
  <1>4. CASE Mutates(m, user, p) /\ m.op = "star"
    <2>1. p \in favs'[user] BY <1>0, <1>2, <1>3, <1>4 DEF Mutates, StarsTypeOK
    <2> QED BY <1>2, <1>4, <2>1, AfterTaken
  <1>5. CASE Mutates(m, user, p) /\ m.op = "unstar"
    <2>1. p \notin favs'[user] BY <1>0, <1>2, <1>3, <1>5 DEF Mutates, StarsTypeOK
    <2> QED BY <1>2, <1>5, <2>1, AfterTaken
  <1>6. CASE ~Mutates(m, user, p)
    <2>1. p \in favs'[user] <=> p \in favs[user]
      BY <1>0, <1>1, <1>2, <1>3, <1>6 DEF Mutates, StarsTypeOK, Ops
    <2>2. After(queue[user], favs[user], user, p) <=> After(Tail(queue[user]), favs[user], user, p)
      BY <1>2, <1>6, AfterTaken
    <2> QED BY <1>2, <2>1, <2>2, SameStars
  <1> QED BY <1>3, <1>4, <1>5, <1>6 DEF Mutates, Ops

LEMMA AcceptFollows ==
  ASSUME Signed, StarsInv, NEW m \in Mutation, Accept(m)
  PROVE  StarsInv'
  <1>0. SessionTypeOK /\ SessionInv /\ StarsTypeOK /\ Dequeue(m) /\ Apply(m)
    BY Apart DEF Accept
  <1>1. QueuesInv' BY <1>0, QueuesShrink DEF StarsInv
  <1>2. m.in = user BY <1>0, TakenIsOwn DEF StarsInv
  <1>3. /\ user \in Account /\ queue[user] \in Seq(Mutation) /\ queue[user] # <<>>
        /\ m = Head(queue[user]) /\ Decided(queue[user])
        /\ \A a \in Account : queue'[a] = IF a = user THEN Tail(queue[a]) ELSE queue[a]
    BY <1>0, Dequeued DEF StarsInv, QueuesInv
  <1>4. /\ posts' = IF m.op = "delete" THEN posts \ {m.id} ELSE posts
        /\ \A a \in Account, p \in posts' :
             /\ p \in wish'[a] <=> p \in wish[a]
             /\ <<a, p>> \in excused' <=> <<a, p>> \in excused
        /\ m.op = "delete" => favs' = favs
        /\ m.op = "star" => favs' = [favs EXCEPT ![user] = @ \cup {m.id}]
        /\ m.op = "unstar" => favs' = [favs EXCEPT ![user] = @ \ {m.id}]
        /\ m.op \in Ops
    <2>1. CASE m.op = "star"   BY <1>0, <1>2, <2>1 DEF Apply, wishVars, Ops
    <2>2. CASE m.op = "unstar" BY <1>0, <1>2, <2>2 DEF Apply, wishVars, Ops
    <2>3. CASE m.op = "delete"
      <3>1. /\ posts' = posts \ {m.id} /\ favs' = favs
            /\ wish' = [a \in Account |-> wish[a] \ {m.id}]
            /\ excused' = excused \ (Account \X {m.id})
        BY <1>0, <2>3 DEF Apply, Erase
      <3> QED BY <2>3, <3>1 DEF Ops
    <2> QED BY <2>1, <2>2, <2>3 DEF Mutation, Ops
  <1>5. ASSUME NEW a \in Account, NEW p \in posts' PROVE Follows(a, p)'
    <2>1. p \in posts /\ Follows(a, p) /\ p \in Post BY <1>0, <1>4 DEF StarsInv, StarsTypeOK
    <2>2. (p \in wish'[a] <=> p \in wish[a]) /\ (<<a, p>> \in excused' <=> <<a, p>> \in excused)
      BY <1>4
    <2>3. CASE a # user
      <3>1. queue'[a] = queue[a] /\ favs'[a] = favs[a]
        BY <1>0, <1>3, <1>4, <2>3 DEF StarsTypeOK, Ops
      <3>2. ~Deletes(queue'[a], p) /\ <<a, p>> \notin excused'
            => (After(queue'[a], favs'[a], a, p) <=> p \in wish'[a])
        BY <2>1, <2>2, <3>1 DEF Follows
      <3> QED BY <3>2 DEF Follows, Deletes, After, LastOp, Mutates
    <2>4. CASE a = user
      <3>1. queue'[a] = Tail(queue[a]) BY <1>3, <2>4
      <3>2. Deletes(queue[a], p) <=> Deletes(Tail(queue[a]), p)
        <4>1. ~(m.op = "delete" /\ m.id = p) BY <1>4
        <4> QED BY <1>3, <2>4, <4>1, TakenDeletes
      <3>3. After(queue[a], favs[a], a, p) <=> After(Tail(queue[a]), favs'[a], a, p)
        BY <2>1, <2>4, <3>1, AcceptKeepsView DEF StarsInv
      <3>4. ~Deletes(queue'[a], p) /\ <<a, p>> \notin excused'
            => (After(queue'[a], favs'[a], a, p) <=> p \in wish'[a])
        BY <2>1, <2>2, <3>1, <3>2, <3>3 DEF Follows
      <3> QED BY <3>4 DEF Follows, Deletes, After, LastOp, Mutates
    <2> QED BY <2>3, <2>4
  <1> QED BY <1>1, <1>5 DEF StarsInv

LEMMA RefuseFollows ==
  ASSUME Signed, StarsInv, NEW m \in Mutation, Refuse(m)
  PROVE  StarsInv'
  <1>0. SessionTypeOK /\ SessionInv /\ StarsTypeOK /\ Dequeue(m)
    BY Apart DEF Refuse
  <1>1. QueuesInv' BY <1>0, QueuesShrink DEF StarsInv
  <1>2. /\ UNCHANGED <<posts, favs, wish>>
        /\ excused' = excused \cup ({user} \X ({m.id} \cap posts))
    BY DEF Refuse, serverVars
  <1>3. /\ user \in Account /\ queue[user] \in Seq(Mutation) /\ queue[user] # <<>>
        /\ m = Head(queue[user]) /\ Decided(queue[user])
        /\ \A a \in Account : queue'[a] = IF a = user THEN Tail(queue[a]) ELSE queue[a]
    BY <1>0, Dequeued DEF StarsInv, QueuesInv
  <1>4. ASSUME NEW a \in Account, NEW p \in posts PROVE Follows(a, p)'
    <2>1. Follows(a, p) /\ p \in Post BY <1>0 DEF StarsInv, StarsTypeOK
    <2>2. CASE a # user
      <3>1. queue'[a] = queue[a] BY <1>3, <2>2
      <3>2. ~Deletes(queue'[a], p) /\ <<a, p>> \notin excused'
            => (After(queue'[a], favs'[a], a, p) <=> p \in wish'[a])
        BY <1>2, <2>1, <3>1 DEF Follows
      <3> QED BY <3>2 DEF Follows, Deletes, After, LastOp, Mutates
    <2>3. CASE a = user /\ p = m.id
      <3>1. <<a, p>> \in excused' BY <1>2, <2>3
      <3> QED BY <3>1 DEF Follows
    <2>4. CASE a = user /\ p # m.id
      <3>1. queue'[a] = Tail(queue[a]) BY <1>3, <2>4
      <3>2. Deletes(queue[a], p) <=> Deletes(Tail(queue[a]), p)
        BY <1>3, <2>4, TakenDeletes
      <3>3. After(queue[a], favs[a], a, p) <=> After(Tail(queue[a]), favs[a], a, p)
        <4>1. ~Mutates(m, a, p) BY <2>4 DEF Mutates
        <4> QED BY <1>3, <2>1, <2>4, <4>1, AfterTaken
      <3>4. ~Deletes(queue'[a], p) /\ <<a, p>> \notin excused'
            => (After(queue'[a], favs'[a], a, p) <=> p \in wish'[a])
        BY <1>2, <2>1, <3>1, <3>2, <3>3 DEF Follows
      <3> QED BY <3>4 DEF Follows, Deletes, After, LastOp, Mutates
    <2> QED BY <2>2, <2>3, <2>4
  <1> QED BY <1>1, <1>2, <1>4 DEF StarsInv

LEMMA StepsOfStars ==
  ASSUME [Next]_vars
  PROVE  \/ UNCHANGED <<posts, favs, queue, wish, excused>>
         \/ AnswerPosts
         \/ \E p \in Post : favoriteCliked(p) \/ DeleteMyPost(p) \/ RemoteDelete(p)
         \/ \E m \in Mutation : Accept(m) \/ Refuse(m)
  BY DEF Next, vars, serverVars, wishVars, UserMoves, StaysPut, LeaveHome, Restart,
     AuthAnswers, OpenHome, Pull, OpenFavorites, FailPosts, AnswerFavourites,
     FailFavourites, AnswerUnstampedFavourites

LEMMA StarsKept ==
  ASSUME SessionAssumption, FavouritesAssumption, Signed, StarsInv, [Next]_vars
  PROVE  StarsInv'
  <1>1. CASE UNCHANGED <<posts, favs, queue, wish, excused>>
    BY <1>1
    DEF StarsInv, QueuesInv, Follows, Decided, HasOp, Deletes, After, LastOp, Mutates
  <1> QED
    BY <1>1, StepsOfStars, CleanUpFollows, TapsFollow, RemoteFollows, AcceptFollows,
       RefuseFollows

LEMMA StarsInitially == Init => StarsInv
  <1>1. Init => QueuesInv
    BY DEF Init, QueuesInv, Decided, HasOp
  <1>2. ASSUME Init, NEW a \in Account, NEW p PROVE Follows(a, p)
    BY <1>2 DEF Init, Follows, After, LastOp
  <1> QED BY <1>1, <1>2 DEF StarsInv

(***************************************************************************)
(* The stars of every account, on the server and in its queue, are what    *)
(* its taps last showed: refreshes, clean-ups, changes of accounts and     *)
(* ends of the process take and give none.                                 *)
(***************************************************************************)
THEOREM StarsAreTheTaps == Spec => []StarsFollowTaps
  <1>1. Init => StarsInv BY StarsInitially
  <1>2. Signed /\ StarsInv /\ [Next]_vars => StarsInv'
    BY StarsKept, SessionAssumption, FavouritesAssumption
  <1>3. StarsInv => StarsFollowTaps
    BY FollowingIs, SessionAssumption DEF StarsInv
  <1> QED BY <1>1, <1>2, <1>3, AlwaysSigned, PTL DEF Spec

-----------------------------------------------------------------------------
(* The colours of the rows.                                                *)

(* Whether a star of p is shown by a read of this home screen's account. *)
Shown(p) == After(queue[user], favs[user], user, p)

(* Collections are read that belong to accounts which exist. *)
Known ==
  /\ favReads \subseteq accounts
  /\ sources \subseteq accounts
  /\ userEmail \in accounts \cup {NoAccount}

(***************************************************************************)
(* favoritePostSet while the favourites of this home screen's account, and *)
(* no other's, have been answered since the sets were emptied.             *)
(***************************************************************************)
Coloured ==
  At("home") =>
    /\ sources = {} => favoritePostSet = {}
    /\ sources = {userEmail} =>
         \A p \in (PostsView \cup postSet) \ touched : p \in favoritePostSet <=> Shown(p)

FlagsInv == Known /\ Coloured

(* Nobody leaves the welcome screen while it waits: its buttons are hidden. *)
LoginStays == awaited[Welcome] # NoAccount => path = W /\ Welcome \in hidden

LEMMA LoginKept ==
  ASSUME SessionAssumption, Signed, LoginStays, SessionSteps
  PROVE  LoginStays'
  <1>0. SessionTypeOK /\ SessionInv /\ Welcome \in SignInScreens
    BY Apart DEF SessionAssumption, Welcome, SignInScreens
  <1>1. CASE UNCHANGED sessionVars \/ RestartSession
    BY <1>0, <1>1 DEF sessionVars, RestartSession, Fresh, LoginStays
  <1>2. CASE OpenRegister
    BY <1>2 DEF OpenRegister, LoginStays
  <1>3. CASE Back
    <2>1. Len(path) > 1 /\ ~(Len(W) > 1) BY <1>3, Lengths DEF Back
    <2>2. path # W BY <2>1
    <2> QED BY <1>3, <2>2 DEF Back, LoginStays
  <1>4. ASSUME NEW s \in SignInScreens, Visible(s)
        PROVE  s = Welcome <=> path = W
    <2>1. CASE s = Welcome
      <3>1. path[Len(path)] = "welcome" BY <1>4, <2>1 DEF Visible, At
      <3>2. path = W BY <1>0, <3>1, PathFacts DEF SessionInv
      <3> QED BY <2>1, <3>2
    <2>2. CASE s # Welcome
      <3>1. path[Len(path)] = "register" BY <1>4, <2>2 DEF Visible, At
      <3>2. path = WR BY <1>0, <3>1, PathFacts DEF SessionInv
      <3> QED BY <2>2, <3>2, PathsDiffer
    <2> QED BY <2>1, <2>2
  <1>5. ASSUME NEW s \in SignInScreens, NEW a \in Account, SignIn(s, a) PROVE LoginStays'
    <2>1. /\ Visible(s) /\ awaited' = [awaited EXCEPT ![s] = a] /\ path' = path
          /\ hidden' = hidden \cup {s}
      BY <1>5 DEF SignIn
    <2> QED BY <1>0, <1>4, <2>1 DEF LoginStays, SessionTypeOK
  <1>6. ASSUME NEW s \in SignInScreens, SignInFails(s) PROVE LoginStays'
    BY <1>0, <1>6 DEF SignInFails, LoginStays, SessionTypeOK
  <1>7. ASSUME NEW s \in SignInScreens, SignInComesLate(s) PROVE LoginStays'
    BY <1>0, <1>7 DEF SignInComesLate, Answered, LoginStays, SessionTypeOK
  <1>8. ASSUME NEW s \in SignInScreens, SignInOpensHome(s) PROVE LoginStays'
    <2>1. Visible(s) /\ awaited' = [awaited EXCEPT ![s] = NoAccount]
      BY <1>8 DEF SignInOpensHome, Answered
    <2> QED BY <1>0, <1>4, <2>1 DEF LoginStays, SessionTypeOK
  <1> QED BY <1>1, <1>2, <1>3, <1>5, <1>6, <1>7, <1>8 DEF SessionSteps

LEMMA ShownIs ==
  ASSUME SessionAssumption, SessionTypeOK, SessionInv, StarsTypeOK, At("home"), NEW p \in Post
  PROVE  p \in FavouritesView(userEmail) <=> Shown(p)
  <1>1. user \in Account /\ user = userEmail /\ user # NoAccount
    BY AtHome DEF SessionAssumption
  <1> QED BY <1>1 DEF FavouritesView, Unstamped, QueueOf, Shown, After

LEMMA AccountsStay ==
  ASSUME SessionSteps
  PROVE  accounts \subseteq accounts'
  BY DEF SessionSteps, sessionVars, RestartSession, OpenRegister, Back, SignIn, SignInFails,
     SignInComesLate, SignInOpensHome, Answered

LEMMA KnownKept ==
  ASSUME SessionAssumption, Signed, Known, Next
  PROVE  Known'
  <1>0. SessionTypeOK /\ SessionInv /\ StarsTypeOK BY Apart
  <1>1. accounts \subseteq accounts' BY AccountsStay, StepsOfSession
  <1>2. ASSUME userEmail' = userEmail, favReads' \subseteq favReads,
               sources' \subseteq sources \cup favReads
        PROVE  Known'
    BY <1>1, <1>2 DEF Known
  <1>3. ASSUME userEmail' = userEmail, userEmail # NoAccount,
               favReads' \subseteq favReads \cup {userEmail}, sources' \subseteq sources
        PROVE  Known'
    BY <1>1, <1>3 DEF Known
  <1>4. CASE UserMoves \/ LeaveHome
    BY <1>2, <1>4 DEF UserMoves, StaysPut, LeaveHome, SignIn, OpenRegister, Back
  <1>5. CASE Restart
    BY <1>5 DEF Restart, RestartSession, Fresh, Known
  <1>6. ASSUME NEW s \in SignInScreens, AuthAnswers(s) PROVE Known'
    <2>1. CASE SignInFails(s) /\ StaysPut
      BY <1>2, <2>1 DEF SignInFails, StaysPut
    <2>2. CASE SignInComesLate(s) /\ StaysPut
      BY <1>1, <2>2 DEF SignInComesLate, Answered, RememberEmail, StaysPut, Known
    <2>3. CASE OpenHome(s)
      BY <1>1, <2>3
      DEF OpenHome, SignInOpensHome, Answered, RememberEmail, getAllPosts, Known
    <2> QED BY <1>6, <2>1, <2>2, <2>3 DEF AuthAnswers
  <1>7. CASE Pull \/ OpenFavorites
    <2>1. userEmail # NoAccount
      BY <1>0, <1>7, AtHome DEF Pull, OpenFavorites, SessionAssumption
    <2> QED BY <1>3, <1>7, <2>1 DEF Pull, OpenFavorites, getAllPosts, sessionVars
  <1>8. CASE AnswerPosts \/ \E c \in Account : AnswerFavourites(c) \/ FailFavourites(c)
    BY <1>2, <1>8 DEF AnswerPosts, AnswerFavourites, ReadEnds, FailFavourites, sessionVars
  <1>9. CASE \E p \in Post : favoriteCliked(p) \/ DeleteMyPost(p) \/ RemoteDelete(p)
    BY <1>2, <1>9 DEF favoriteCliked, DeleteMyPost, RemoteDelete, sessionVars
  <1>10. ASSUME NEW m \in Mutation, Accept(m) PROVE Known'
    <2>1. userEmail' = userEmail BY <1>10 DEF Accept, Dequeue, sessionVars
    <2>2. Told(m) \/ NothingShown BY <1>10 DEF Accept
    <2>3. CASE favReads' = favReads /\ sources' = sources
      BY <1>2, <2>1, <2>3
    <2>4. CASE homes # 0 /\ favReads' = favReads \cup {userEmail} /\ sources' = {}
      <3>1. userEmail # NoAccount BY <1>0, <2>4 DEF SessionInv, SessionTypeOK
      <3> QED BY <1>3, <2>1, <2>4, <3>1
    <2> QED BY <2>2, <2>3, <2>4 DEF Told, PostDataEvent, NothingShown, getAllPosts
  <1>11. ASSUME NEW m \in Mutation, Refuse(m) PROVE Known'
    BY <1>2, <1>11 DEF Refuse, Dequeue, sessionVars
  <1> QED BY <1>4, <1>5, <1>6, <1>7, <1>8, <1>9, <1>10, <1>11
    DEF Next, FailPosts, AnswerUnstampedFavourites

(* Steps that change neither the sets nor the stars of untouched posts. *)
LEMMA ColoursStay ==
  ASSUME Coloured,
         path' = path, userEmail' = userEmail, sources' = sources,
         favoritePostSet' = favoritePostSet, touched \subseteq touched',
         At("home") => \A p \in (PostsView' \cup postSet') \ touched' :
                         p \in PostsView \cup postSet /\ (Shown(p)' <=> Shown(p))
  PROVE  Coloured'
  <1> SUFFICES ASSUME At("home")'
               PROVE  /\ sources' = {} => favoritePostSet' = {}
                      /\ sources' = {userEmail'} =>
                           \A p \in (PostsView' \cup postSet') \ touched' :
                             p \in favoritePostSet' <=> Shown(p)'
    BY DEF Coloured
  <1>1. At("home") BY DEF At
  <1> QED BY <1>1 DEF Coloured

LEMMA ColoursLeft ==
  ASSUME SessionInv, Restart \/ OpenRegister \/ Back
  PROVE  Coloured'
  <1>1. path' \in {W, WR} BY StartPath, RegisterPath, BackPath DEF Restart
  <1> QED BY <1>1, AwayFromHome DEF Coloured

LEMMA ColoursEmptied ==
  ASSUME favoritePostSet' = {}, sources' = {}
  PROVE  Coloured'
  BY DEF Coloured

LEMMA ViewShrinks ==
  ASSUME SessionAssumption, StarsTypeOK, user \in Account, user' = user, posts' = posts,
         NEW ms \in Seq(Mutation), Enqueue(ms)
  PROVE  PostsView' \subseteq PostsView
  <1> SUFFICES ASSUME NEW p \in posts, Deleting(user, p)
               PROVE  Deleting(user, p)'
    BY DEF PostsView
  <1>1. user # NoAccount BY DEF SessionAssumption
  <1>2. queue[user] \in Seq(Mutation) /\ queue'[user] = queue[user] \o ms
    BY Enqueued DEF StarsTypeOK
  <1>3. Deletes(queue'[user], p) BY <1>2, DeletingIs, JoinedHas
  <1> QED BY <1>1, <1>3 DEF Deletes, Deleting, QueueOf

LEMMA InView ==
  ASSUME NEW p \in posts, ~Deleting(user, p)
  PROVE  p \in PostsView
  BY DEF PostsView

LEMMA ShownStays ==
  ASSUME StarsTypeOK, user \in Account, user' = user, favs' = favs,
         NEW ms \in Seq(Mutation), Enqueue(ms), NEW p, ~HasOp(ms, user, p)
  PROVE  Shown(p)' <=> Shown(p)
  <1>1. queue[user] \in Seq(Mutation) /\ queue'[user] = queue[user] \o ms
    BY Enqueued DEF StarsTypeOK
  <1>2. After(queue'[user], favs[user], user, p) <=> After(queue[user], favs[user], user, p)
    BY <1>1, AfterJoined
  <1> QED BY <1>2 DEF Shown, After, LastOp, Mutates

LEMMA CleanUpColours ==
  ASSUME SessionAssumption, FavouritesAssumption, Signed, Coloured, AnswerPosts
  PROVE  Coloured'
  <1>0. SessionTypeOK /\ SessionInv /\ StarsTypeOK BY Apart
  <1>1. /\ postReads # <<>> /\ postSet' = postSet \cup PostsView
        /\ UNCHANGED <<posts, favs, path, user, userEmail, sources, favoritePostSet, touched>>
    BY DEF AnswerPosts, serverVars, sessionVars
  <1>2. user \in Account /\ user = userEmail BY <1>1, Awaiting
  <1>3. Orphans \in SUBSET Post BY <1>0 DEF Orphans, StarsTypeOK
  <1>4. PICK order \in Bijection(1 .. Cardinality(Orphans), Orphans) :
          Enqueue(CleanUp(Orphans, order))
    BY DEF AnswerPosts, CleanUp
  <1> DEFINE ms == CleanUp(Orphans, order)
  <1>5. ms \in Seq(Mutation) /\ \A c, p : HasOp(ms, c, p) => p \in Orphans
    BY <1>0, <1>3, CleanUpIsWritten, CleanUpDecided DEF FavouritesAssumption
  <1>6. Enqueue(ms) BY <1>4
  <1> HIDE DEF ms
  <1>7. PostsView' \subseteq PostsView BY <1>0, <1>1, <1>2, <1>5, <1>6, ViewShrinks
  <1>8. ASSUME NEW p \in (PostsView' \cup postSet') \ touched'
        PROVE  p \in PostsView \cup postSet /\ (Shown(p)' <=> Shown(p))
    <2>1. p \in PostsView \cup postSet /\ p \in postSet' BY <1>1, <1>7
    <2>2. ~HasOp(ms, user, p) BY <1>5, <2>1 DEF Orphans
    <2> QED BY <1>0, <1>1, <1>2, <1>5, <1>6, <2>1, <2>2, ShownStays
  <1> QED BY <1>1, <1>8, ColoursStay

LEMMA AnswerColours ==
  ASSUME SessionAssumption, Signed, Coloured, NEW c \in Account, AnswerFavourites(c)
  PROVE  Coloured'
  <1>0. SessionTypeOK /\ SessionInv /\ StarsTypeOK BY Apart
  <1>1. /\ favoritePostSet' = favoritePostSet \cup FavouritesView(c)
        /\ sources' = IF At("home") THEN sources \cup {c} ELSE {}
        /\ UNCHANGED <<posts, favs, queue, path, user, userEmail, postSet, touched>>
    BY DEF AnswerFavourites, serverVars, sessionVars
  <1> SUFFICES ASSUME At("home"), sources' = {userEmail},
                      NEW p \in (PostsView \cup postSet) \ touched
               PROVE  p \in favoritePostSet' <=> Shown(p)
    BY <1>1
    DEF Coloured, At, PostsView, Deleting, QueueOf, Shown, After, LastOp, Mutates
  <1>2. c = userEmail /\ sources \in {{}, {userEmail}} BY <1>1
  <1>3. p \in Post BY <1>0, ViewsArePosts DEF StarsTypeOK
  <1>4. p \in FavouritesView(c) <=> Shown(p) BY <1>0, <1>2, <1>3, ShownIs
  <1>5. p \in favoritePostSet => Shown(p)
    BY <1>2 DEF Coloured
  <1> QED BY <1>1, <1>4, <1>5

LEMMA TapColours ==
  ASSUME SessionAssumption, Signed, Coloured, NEW x \in Post,
         favoriteCliked(x) \/ DeleteMyPost(x)
  PROVE  Coloured'
  <1>0. SessionTypeOK /\ SessionInv /\ StarsTypeOK BY Apart
  <1>1. /\ At("home")
        /\ UNCHANGED <<posts, favs, path, user, userEmail, sources, favoritePostSet, postSet>>
        /\ touched' = touched \cup {x}
    BY DEF favoriteCliked, DeleteMyPost, DeleteFavoritePost, AddFavoritePost, Wished,
       serverVars, sessionVars, setVars
  <1>2. user \in Account BY <1>0, <1>1, AtHome
  <1>3. ASSUME NEW ms \in Seq(Mutation), Enqueue(ms),
               \A p : HasOp(ms, user, p) => p = x
        PROVE  Coloured'
    <2>1. PostsView' \subseteq PostsView BY <1>0, <1>1, <1>2, <1>3, ViewShrinks
    <2>2. ASSUME NEW p \in (PostsView' \cup postSet') \ touched'
          PROVE  p \in PostsView \cup postSet /\ (Shown(p)' <=> Shown(p))
      <3>1. p # x /\ p \in PostsView \cup postSet BY <1>1, <2>1
      <3>2. ~HasOp(ms, user, p) BY <1>3, <3>1
      <3> QED BY <1>0, <1>1, <1>2, <1>3, <3>1, <3>2, ShownStays
    <2> QED BY <1>1, <2>2, ColoursStay
  <1>4. ASSUME NEW op \in {"star", "unstar"}, Enqueue(<<Write(op, x)>>) PROVE Coloured'
    <2>1. /\ Write(op, x) \in Mutation /\ \A p : Mutates(Write(op, x), user, p) => p = x
      BY <1>0, WriteIsMutation DEF Ops, Write, Mutates
    <2>2. <<Write(op, x)>> \in Seq(Mutation) BY <2>1
    <2>3. \A p : HasOp(<<Write(op, x)>>, user, p) => p = x
      <3> TAKE p
      <3>1. HasOp(<<Write(op, x)>>, user, p) <=> Mutates(Write(op, x), user, p) BY <2>1, OneWrite
      <3> QED BY <2>1, <3>1
    <2> QED BY <1>3, <1>4, <2>2, <2>3
  <1>5. CASE favoriteCliked(x)
    BY <1>4, <1>5 DEF favoriteCliked, DeleteFavoritePost, AddFavoritePost
  <1>6. CASE DeleteMyPost(x)
    <2> DEFINE d == Write("delete", x)
               u == Write("unstar", x)
               ms == <<d, u>>
    <2>1. Enqueue(ms) BY <1>6 DEF DeleteMyPost
    <2>2. /\ d \in Mutation /\ u \in Mutation
          /\ \A p : ~Mutates(d, user, p) /\ (Mutates(u, user, p) => p = x)
      BY <1>0, WriteIsMutation DEF Ops, Write, Mutates
    <2> HIDE DEF d, u
    <2>3. ms \in Seq(Mutation) /\ DOMAIN ms = {1, 2} /\ ms[1] = d /\ ms[2] = u
      BY <2>2
    <2> HIDE DEF ms
    <2>4. \A p : HasOp(ms, user, p) => p = x BY <2>2, <2>3 DEF HasOp
    <2> QED BY <1>3, <2>1, <2>3, <2>4
  <1> QED BY <1>5, <1>6

LEMMA RemoteColours ==
  ASSUME Coloured, NEW x \in Post, RemoteDelete(x)
  PROVE  Coloured'
  <1>1. /\ UNCHANGED <<favs, queue, path, user, userEmail, sources, favoritePostSet, postSet, touched>>
        /\ posts' = posts \ {x}
    BY DEF RemoteDelete, Erase, sessionVars, setVars
  <1>2. PostsView' \subseteq PostsView BY <1>1 DEF PostsView, Deleting, QueueOf
  <1>3. \A p : Shown(p)' <=> Shown(p) BY <1>1 DEF Shown, After, LastOp, Mutates
  <1> QED BY <1>1, <1>2, <1>3, ColoursStay

LEMMA ServerColours ==
  ASSUME SessionAssumption, Signed, QueuesInv, Coloured,
         NEW m \in Mutation, Accept(m) \/ Refuse(m)
  PROVE  Coloured'
  <1>0. SessionTypeOK /\ SessionInv /\ StarsTypeOK /\ Dequeue(m)
    BY Apart DEF Accept, Refuse
  <1>1. /\ user \in Account /\ queue[user] \in Seq(Mutation) /\ queue[user] # <<>>
        /\ m = Head(queue[user]) /\ Decided(queue[user]) /\ queue'[user] = Tail(queue[user])
        /\ user # NoAccount
    BY <1>0, Dequeued DEF QueuesInv, SessionAssumption
  <1>2. UNCHANGED <<path, user, userEmail>> BY <1>0 DEF Dequeue, sessionVars
  <1>3. ASSUME NEW p \in posts, p \in PostsView'
        PROVE  p \in PostsView \/ (m.op = "delete" /\ m.id = p)
    <2>1. ~Deletes(queue'[user], p)
      BY <1>1, <1>2, <1>3 DEF PostsView, Deleting, QueueOf, Deletes
    <2>2. CASE ~Deleting(user, p)
      <3>1. p \in PostsView BY <2>2, InView
      <3> QED BY <3>1
    <2>3. CASE Deleting(user, p)
      <3>1. Deletes(queue[user], p) BY <1>1, <2>3, DeletingIs
      <3> QED BY <1>1, <2>1, <3>1, TakenDeletes
    <2> QED BY <2>2, <2>3
  <1>4. CASE Accept(m)
    <2>1. CASE favoritePostSet' = {} /\ sources' = {}
      BY <2>1, ColoursEmptied
    <2>2. CASE UNCHANGED <<favoritePostSet, sources, touched>> /\ postSet' \subseteq postSet
      <3>1. ASSUME NEW p \in (PostsView' \cup postSet') \ touched'
            PROVE  p \in PostsView \cup postSet /\ (Shown(p)' <=> Shown(p))
        <4>1. posts' \subseteq posts /\ (m.op = "delete" => m.id \notin posts')
          BY <1>4 DEF Accept, Apply, Erase
        <4>2. PostsView' \subseteq posts' BY DEF PostsView
        <4>3. p \in PostsView \cup postSet BY <1>3, <2>2, <4>1, <4>2
        <4>4. p \in Post BY <1>0, <4>3, ViewsArePosts DEF StarsTypeOK
        <4>5. After(queue[user], favs[user], user, p) <=> After(queue'[user], favs'[user], user, p)
          BY <1>4, <4>4, AcceptKeepsView
        <4> QED BY <1>2, <4>3, <4>5 DEF Shown, After, LastOp, Mutates
      <3> QED BY <1>2, <2>2, <3>1, ColoursStay
    <2>3. Told(m) \/ NothingShown BY <1>4 DEF Accept
    <2> QED BY <2>1, <2>2, <2>3
      DEF Told, PostDataEvent, NothingShown, getAllPosts, EmptySets, setVars
  <1>5. CASE Refuse(m)
    <2>1. /\ UNCHANGED <<posts, favs, postSet, favoritePostSet, sources>>
          /\ touched' = IF At("home") THEN touched \cup {m.id} ELSE {}
      BY <1>5 DEF Refuse, serverVars, setVars
    <2>2. ASSUME At("home"), NEW p \in (PostsView' \cup postSet') \ touched'
          PROVE  p \in PostsView \cup postSet /\ (Shown(p)' <=> Shown(p))
      <3>1. p # m.id BY <2>1, <2>2
      <3>2. PostsView' \subseteq posts BY <2>1 DEF PostsView
      <3>3. p \in PostsView \cup postSet BY <1>3, <2>1, <3>1, <3>2
      <3>4. p \in Post BY <1>0, <3>3, ViewsArePosts DEF StarsTypeOK
      <3>5. ~Mutates(m, user, p) BY <3>1 DEF Mutates
      <3>6. After(queue[user], favs[user], user, p) <=> After(queue'[user], favs[user], user, p)
        BY <1>1, <3>4, <3>5, AfterTaken
      <3> QED BY <1>2, <2>1, <3>3, <3>6 DEF Shown, After, LastOp, Mutates
    <2>3. CASE At("home")
      BY <1>2, <2>1, <2>2, <2>3, ColoursStay
    <2>4. CASE ~At("home")
      BY <1>2, <2>4 DEF Coloured, At
    <2> QED BY <2>3, <2>4
  <1> QED BY <1>4, <1>5

LEMMA ColouredKept ==
  ASSUME SessionAssumption, FavouritesAssumption, Signed, LoginStays, QueuesInv, FlagsInv,
         Next
  PROVE  Coloured'
  <1>0. SessionTypeOK /\ SessionInv /\ StarsTypeOK /\ Known /\ Coloured
    BY Apart DEF FlagsInv
  <1>1. CASE UserMoves \/ LeaveHome
    <2>1. ASSUME NEW s \in SignInScreens, NEW a \in Account, SignIn(s, a), StaysPut
          PROVE  Coloured'
      <3>1. UNCHANGED <<path, user, userEmail, sources, favoritePostSet, touched, posts,
                        postSet, favs, queue>>
        BY <2>1 DEF SignIn, StaysPut, serverVars, setVars
      <3>2. PostsView' = PostsView /\ \A p : Shown(p)' <=> Shown(p)
        BY <3>1 DEF PostsView, Deleting, QueueOf, Shown, After, LastOp, Mutates
      <3> QED BY <1>0, <3>1, <3>2, ColoursStay
    <2> QED BY <1>0, <1>1, <2>1, ColoursLeft DEF UserMoves, LeaveHome
  <1>2. CASE Restart
    BY <1>0, <1>2, ColoursLeft
  <1>3. ASSUME NEW s \in SignInScreens, AuthAnswers(s) PROVE Coloured'
    <2>1. CASE SignInFails(s) /\ StaysPut
      <3>1. UNCHANGED <<path, user, userEmail, sources, favoritePostSet, touched, posts,
                        postSet, favs, queue>>
        BY <2>1 DEF SignInFails, StaysPut, serverVars, setVars
      <3>2. PostsView' = PostsView /\ \A p : Shown(p)' <=> Shown(p)
        BY <3>1 DEF PostsView, Deleting, QueueOf, Shown, After, LastOp, Mutates
      <3> QED BY <1>0, <3>1, <3>2, ColoursStay
    <2>2. CASE SignInComesLate(s) /\ StaysPut
      <3>1. /\ ~Visible(s) /\ Allowed(s) /\ userEmail' = awaited[s]
            /\ UNCHANGED <<path, sources, favoritePostSet>>
        BY <2>2 DEF SignInComesLate, Answered, RememberEmail, StaysPut, setVars
      <3>2. CASE ~At("home") BY <3>1, <3>2 DEF Coloured, At
      <3>3. CASE At("home") /\ s = Welcome
        <4>1. awaited[s] \in accounts BY <3>1, <3>3 DEF Allowed
        <4>2. awaited[Welcome] # NoAccount
          BY <1>0, <3>3, <4>1 DEF SessionTypeOK, SessionAssumption
        <4>3. path = W BY <4>2 DEF LoginStays
        <4> QED BY <1>0, <3>3, <4>3, Homes, PathsDiffer DEF SessionInv
      <3>4. CASE At("home") /\ s # Welcome
        <4>1. awaited[s] \notin accounts BY <3>1, <3>4 DEF Allowed
        <4>2. sources # {userEmail'} BY <1>0, <3>1, <4>1 DEF Known
        <4>3. sources = {} => favoritePostSet = {} BY <1>0, <3>4 DEF Coloured
        <4> QED BY <3>1, <4>2, <4>3 DEF Coloured, At
      <3> QED BY <3>2, <3>3, <3>4
    <2>3. CASE OpenHome(s)
      BY <2>3, ColoursEmptied DEF OpenHome, getAllPosts, EmptySets
    <2> QED BY <1>3, <2>1, <2>2, <2>3 DEF AuthAnswers
  <1>4. CASE Pull
    BY <1>4, ColoursEmptied DEF Pull, getAllPosts, EmptySets
  <1>5. ASSUME OpenFavorites \/ \E c \in Account : FailFavourites(c) PROVE Coloured'
    <2>1. UNCHANGED <<path, user, userEmail, sources, favoritePostSet, touched, posts,
                      postSet, favs, queue>>
      BY <1>5 DEF OpenFavorites, FailFavourites, sessionVars, serverVars, setVars
    <2>2. PostsView' = PostsView /\ \A p : Shown(p)' <=> Shown(p)
      BY <2>1 DEF PostsView, Deleting, QueueOf, Shown, After, LastOp, Mutates
    <2> QED BY <1>0, <2>1, <2>2, ColoursStay
  <1> QED
    BY <1>0, <1>1, <1>2, <1>3, <1>4, <1>5, CleanUpColours, AnswerColours, TapColours,
       RemoteColours, ServerColours
    DEF Next, FailPosts, AnswerUnstampedFavourites

LEMMA FlagsInvKept ==
  ASSUME SessionAssumption, FavouritesAssumption, Signed, LoginStays, QueuesInv, FlagsInv,
         [Next]_vars
  PROVE  FlagsInv'
  <1>1. CASE Next
    BY <1>1, KnownKept, ColouredKept DEF FlagsInv
  <1>2. CASE UNCHANGED vars
    <2>1. UNCHANGED <<accounts, favReads, path, user, userEmail, sources, favoritePostSet,
                      touched, posts, postSet, favs, queue>>
      BY <1>2 DEF vars, sessionVars, serverVars, setVars
    <2>2. PostsView' = PostsView /\ \A p : Shown(p)' <=> Shown(p)
      BY <2>1 DEF PostsView, Deleting, QueueOf, Shown, After, LastOp, Mutates
    <2> QED BY <2>1, <2>2, ColoursStay DEF FlagsInv, Known
  <1> QED BY <1>1, <1>2

LEMMA Differ == \A n, k \in Nat : n - 1 # n /\ n + k # n - 1
  OBVIOUS

LEMMA SameLength ==
  ASSUME NEW r \in Seq(Nat), r # <<>>
  PROVE  r # Tail(r) /\ \A t \in Seq(Nat) : r \o t # Tail(r)
  <1>1. Tail(r) \in Seq(Nat) /\ Len(Tail(r)) = Len(r) - 1 /\ Len(r) \in Nat
    BY HeadTailProperties, LenProperties
  <1>2. Len(Tail(r)) # Len(r) BY <1>1, Differ
  <1>3. ASSUME NEW t \in Seq(Nat) PROVE r \o t # Tail(r)
    <2>1. Len(r \o t) = Len(r) + Len(t) /\ Len(t) \in Nat
      BY ConcatProperties, LenProperties
    <2>2. Len(r \o t) # Len(Tail(r)) BY <1>1, <2>1, Differ
    <2> QED BY <2>2
  <1> QED BY <1>2, <1>3

(* Only the answer to a read of the posts shows the rows. *)
LEMMA OnlyAnswersShow ==
  ASSUME Signed, Next, FeedShown
  PROVE  AnswerPosts
  <1>0. SessionTypeOK /\ SessionInv /\ StarsTypeOK BY Apart
  <1>1. /\ postReads \in Seq(Nat) /\ postReads # <<>> /\ postReads' = Tail(postReads)
        /\ homes' = homes /\ homes \in Nat /\ homes > 0
    BY <1>0, AtHome DEF FeedShown, StarsTypeOK
  <1>2. postReads' # postReads /\ \A t \in Seq(Nat) : postReads' # postReads \o t
    BY <1>1, SameLength
  <1>3. ASSUME NEW screens \in Seq(Nat), NEW email, getAllPosts(screens, email) PROVE FALSE
    BY <1>2, <1>3 DEF getAllPosts
  <1>4. ~Restart BY <1>1 DEF Restart, RestartSession, Fresh
  <1>5. ASSUME NEW s \in SignInScreens, AuthAnswers(s) PROVE FALSE
    <2>1. ~StaysPut BY <1>2 DEF StaysPut
    <2>2. ~OpenHome(s)
      <3>1. SignInOpensHome(s) => homes' = homes + 1 BY DEF SignInOpensHome
      <3> QED BY <1>1, <3>1 DEF OpenHome
    <2> QED BY <1>5, <2>1, <2>2 DEF AuthAnswers
  <1>6. ASSUME NEW m \in Mutation, Accept(m) \/ Refuse(m) PROVE FALSE
    <2>1. Told(m) \/ NothingShown \/ postReads' = postReads BY <1>6 DEF Accept, Refuse
    <2>2. [h \in 1 .. homes |-> h] \in Seq(Nat)
      <3>1. [h \in 1 .. homes |-> h] \in [1 .. homes -> Nat] BY <1>1
      <3> QED BY <1>1, <3>1, SeqDef
    <2>3. ~getAllPosts([h \in 1 .. homes |-> h], userEmail) BY <1>3, <2>2
    <2> QED BY <1>2, <2>1, <2>3 DEF Told, PostDataEvent, NothingShown
  <1>7. ~Pull
    <2>1. <<homes>> \in Seq(Nat) BY <1>1
    <2> QED BY <1>3, <2>1 DEF Pull
  <1>8. ~UserMoves /\ ~LeaveHome /\ ~OpenFavorites
    BY <1>2 DEF UserMoves, StaysPut, LeaveHome, OpenFavorites
  <1>9. \A c \in Account : ~AnswerFavourites(c) /\ ~FailFavourites(c)
    BY <1>2 DEF AnswerFavourites, FailFavourites
  <1>10. \A p \in Post : ~favoriteCliked(p) /\ ~DeleteMyPost(p) /\ ~RemoteDelete(p)
    BY <1>2 DEF favoriteCliked, DeleteMyPost, RemoteDelete
  <1> QED BY <1>4, <1>5, <1>6, <1>7, <1>8, <1>9, <1>10
    DEF Next, FailPosts, AnswerUnstampedFavourites

LEMMA RowsAreExplained ==
  ASSUME SessionAssumption, Signed, FlagsInv, Next, FeedShown, sources = {userEmail},
         NEW p \in data' \ touched
  PROVE  p \in postSelected' <=> p \in FavouritesView(userEmail)
  <1>0. SessionTypeOK /\ SessionInv /\ StarsTypeOK BY Apart
  <1>1. AnswerPosts /\ At("home") /\ Head(postReads) = homes
    BY OnlyAnswersShow DEF FeedShown
  <1>2. /\ postSet' = postSet \cup PostsView /\ data' = postSet'
        /\ postSelected' = postSet' \cap favoritePostSet
    BY <1>1 DEF AnswerPosts
  <1>3. p \in (PostsView \cup postSet) \ touched BY <1>2
  <1>4. p \in Post BY <1>0, <1>3, ViewsArePosts DEF StarsTypeOK
  <1>5. p \in favoritePostSet <=> Shown(p)
    BY <1>1, <1>3 DEF FlagsInv, Coloured
  <1>6. p \in FavouritesView(userEmail) <=> Shown(p)
    BY <1>0, <1>1, <1>4, ShownIs
  <1> QED BY <1>2, <1>3, <1>5, <1>6

(***************************************************************************)
(* The rows of a feed have the colours of the account's stars when its     *)
(* favourites, and no other's, were answered before the rows were shown,   *)
(* for every post whose star did not change in between.                    *)
(***************************************************************************)
THEOREM ColoursAreStars == Spec => FlagsExplained
  <1>1. Init => FlagsInv
    <2>1. Init => Known BY DEF Init, SessionInit, Fresh, Known
    <2>2. Init => Coloured
      <3>1. Init => path = W BY DEF Init, SessionInit, Fresh, W
      <3>2. path = W => ~At("home") BY PathFacts, PathsDiffer DEF At, Paths
      <3> QED BY <3>1, <3>2 DEF Coloured
    <2> QED BY <2>1, <2>2 DEF FlagsInv
  <1>2. Signed /\ LoginStays /\ StarsInv /\ FlagsInv /\ [Next]_vars => FlagsInv'
    BY FlagsInvKept, SessionAssumption, FavouritesAssumption DEF StarsInv
  <1>3. Init => StarsInv BY StarsInitially
  <1>4. Signed /\ StarsInv /\ [Next]_vars => StarsInv'
    BY StarsKept, SessionAssumption, FavouritesAssumption
  <1>5. Signed /\ FlagsInv /\ [Next]_vars =>
          [FeedShown /\ sources = {userEmail} =>
             \A p \in data' \ touched :
               p \in postSelected' <=> p \in FavouritesView(userEmail)]_vars
    BY RowsAreExplained, SessionAssumption
  <1>6. Init => LoginStays
    <2>1. Welcome \in SignInScreens BY SessionAssumption DEF SessionAssumption, Welcome, SignInScreens
    <2>2. Init => awaited = [s \in SignInScreens |-> NoAccount]
      BY DEF Init, SessionInit, Fresh
    <2> QED BY <2>1, <2>2 DEF LoginStays
  <1>7. Signed /\ LoginStays /\ [Next]_vars => LoginStays'
    BY LoginKept, StepsOfSession, SessionAssumption
  <1> QED
    BY <1>1, <1>2, <1>3, <1>4, <1>5, <1>6, <1>7, AlwaysSigned, PTL DEF Spec, FlagsExplained
=============================================================================
