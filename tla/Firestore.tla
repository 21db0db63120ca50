----------------------------- MODULE Firestore -----------------------------
(***************************************************************************)
(* What TravelMe relies on in Cloud Firestore: the server's two            *)
(* collections, and the part of the SDK in the phone that sits between     *)
(* them and the app.  None of it is code of the app; it is modelled from   *)
(* how Model/ModelFirebase.swift uses it and from the SDK's headers.       *)
(*                                                                         *)
(* Every write of a post stores FieldValue.serverTimestamp() in            *)
(* lastUpdate, so the content of a document is identified by the number of *)
(* the commit that wrote it: commit 1, 2, ... in the server's order, and   *)
(* Second[n] the whole second of commit n, the only part of the timestamp  *)
(* the app reads.  Commits of one second keep their order, because         *)
(* timestamps are finer than that.                                         *)
(*                                                                         *)
(* The SDK keeps the app's writes in a queue on disk, shows them to the    *)
(* app's own reads at once, sends them in order and reports each of them   *)
(* when the server has answered.  It also keeps the documents the last     *)
(* reads returned, and may answer from them when the server does not.      *)
(***************************************************************************)
EXTENDS Integers, Sequences, FiniteSets

CONSTANTS
  PostId,      \* ids of the documents of "posts"
  Mine,        \* those this user creates; other users create the rest
  MaxCommits,  \* bound: writes of posts the server accepts
  Second,      \* Second[n] is the second in which commit n falls
  Refusable    \* operations the server's rules may refuse

Ops == {"add", "update", "delete", "star", "unstar"}
Commits == 0 .. MaxCommits
Mutation == [op : Ops, id : PostId]

ASSUME FirestoreAssumption ==
  /\ IsFiniteSet(PostId)
  /\ Mine \subseteq PostId
  /\ MaxCommits \in Nat
  /\ Second \in [Commits -> Nat]
  /\ \A n \in Commits : Second[n] = 0 <=> n = 0
  /\ \A m, n \in Commits : m <= n => Second[m] <= Second[n]
  /\ Refusable \subseteq Ops

VARIABLES
  cloud,      \* cloud[p]: commit that last wrote posts/p, 0 when there is none
  favs,       \* ids of the documents of the user's collection of favourites
  clock,      \* number of commits so far
  published,  \* every id the server ever had (ids are never used again)
  refused,    \* posts the server refused to delete and nobody wrote since
  queue,      \* the SDK's queue of this user's writes, oldest first
  untold,     \* how many of them were queued by a process that has ended
  lastSeen    \* the SDK's cache of "posts"

serverVars == <<cloud, favs, clock, published, refused>>
firestoreVars == <<serverVars, queue, untold, lastSeen>>

NoDocuments == [p \in PostId |-> 0]

FirestoreInit ==
  /\ cloud = NoDocuments
  /\ favs = {}
  /\ clock = 0
  /\ published = {}
  /\ refused = {}
  /\ queue = <<>>
  /\ untold = 0
  /\ lastSeen = NoDocuments

FirestoreTypeOK ==
  /\ cloud \in [PostId -> Commits]
  /\ favs \subseteq PostId
  /\ clock \in Commits
  /\ published \subseteq PostId
  /\ refused \subseteq PostId
  /\ queue \in Seq(Mutation)
  /\ untold \in Nat
  /\ lastSeen \in [PostId -> Commits]

-----------------------------------------------------------------------------
(* What the app's reads see: documents with the queued writes on top.      *)

Queued(op, p) == \E i \in DOMAIN queue : queue[i] = [op |-> op, id |-> p]

Deleting(p) == Queued("delete", p)

(* Documents of "posts" whose queued write leaves lastUpdate null until    *)
(* the server has set it.                                                  *)
Unstamped(docs) ==
  {p \in PostId : /\ ~Deleting(p)
                  /\ \/ Queued("add", p)
                     \/ docs[p] # 0 /\ Queued("update", p)}

PostsView(docs) == [p \in PostId |-> IF Deleting(p) THEN 0 ELSE docs[p]]

(* The newest queued write of p's favourite document is op. *)
LastFavouriteOp(op, p) ==
  \E i \in DOMAIN queue :
    /\ queue[i] = [op |-> op, id |-> p]
    /\ \A j \in DOMAIN queue :
         j > i => ~(queue[j].id = p /\ queue[j].op \in {"star", "unstar"})

UnstampedFavourites == {p \in PostId : LastFavouriteOp("star", p)}

FavouritesView ==
  UnstampedFavourites \cup {p \in favs : ~LastFavouriteOp("unstar", p)}

-----------------------------------------------------------------------------
(* Writes.  Enqueue is what each writing call of the app does at once.     *)

Enqueue(mutations) == queue' = queue \o mutations /\ UNCHANGED untold

PutsQueued == Len(SelectSeq(queue, LAMBDA m : m.op \in {"add", "update"}))

(* Bound: a write of a post is only begun while a commit is left for it.   *)
RoomForPut == clock + PutsQueued < MaxCommits

(* The server stores posts/p under the next commit number. *)
Commit(p) ==
  /\ clock < MaxCommits
  /\ clock' = clock + 1
  /\ cloud' = [cloud EXCEPT ![p] = clock + 1]
  /\ published' = published \cup {p}
  /\ refused' = refused \ {p}
  /\ UNCHANGED favs

Erase(p) ==
  /\ cloud' = [cloud EXCEPT ![p] = 0]
  /\ refused' = refused \ {p}
  /\ UNCHANGED <<favs, clock, published>>

(* Other users write and delete their own posts. *)
RemotePut(p) ==
  /\ p \notin Mine
  /\ p \in published => cloud[p] # 0
  /\ RoomForPut
  /\ Commit(p)
  /\ UNCHANGED <<queue, untold, lastSeen>>

RemoteDelete(p) ==
  /\ p \notin Mine
  /\ cloud[p] # 0
  /\ Erase(p)
  /\ UNCHANGED <<queue, untold, lastSeen>>

(***************************************************************************)
(* The server takes the oldest queued write: what each kind does there and *)
(* in the SDK's cache.  An update of a missing document fails.             *)
(***************************************************************************)
AcceptPut(p) ==
  /\ Head(queue).op \in {"add", "update"}
  /\ Head(queue).op = "update" => cloud[p] # 0
  /\ Commit(p)
  /\ lastSeen' = [lastSeen EXCEPT ![p] = clock + 1]

AcceptDelete(p) ==
  /\ Head(queue).op = "delete"
  /\ Erase(p)
  /\ lastSeen' = [lastSeen EXCEPT ![p] = 0]

AcceptStar(p) ==
  /\ Head(queue).op = "star"
  /\ favs' = favs \cup {p}
  /\ UNCHANGED <<cloud, clock, published, refused, lastSeen>>

AcceptUnstar(p) ==
  /\ Head(queue).op = "unstar"
  /\ favs' = favs \ {p}
  /\ UNCHANGED <<cloud, clock, published, refused, lastSeen>>

Refuse(p) ==
  /\ \/ Head(queue).op \in Refusable
     \/ Head(queue).op = "update" /\ cloud[p] = 0
  /\ refused' = IF Head(queue).op = "delete" /\ cloud[p] # 0
                THEN refused \cup {p} ELSE refused
  /\ UNCHANGED <<cloud, favs, clock, published, lastSeen>>
=============================================================================
