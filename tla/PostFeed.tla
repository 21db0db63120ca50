------------------------------ MODULE PostFeed ------------------------------
(***************************************************************************)
(* The feed of TravelMe: how PostTableViewController, Model and            *)
(* ModelFirebase keep the table of posts in step with Firestore, through   *)
(* a SQLite copy and the last update date that says how far it goes.  The  *)
(* list of the user's own posts, where posts are edited and deleted, is    *)
(* here too; of the favourites screen only the read it shares.             *)
(*                                                                         *)
(* Everything of the app runs on the main thread, and Firestore delivers   *)
(* its answers there.  A refresh is a chain of handlers: reloadData calls  *)
(* getAllPosts, which empties the two static sets and issues two reads;    *)
(* the answer with the posts is merged row by row into SQLite, the date is *)
(* stored, and the rows still on the server are shown.  These three parts  *)
(* of one handler are steps of their own, in the order phase prescribes,   *)
(* only because SQLite commits each statement and the process may be       *)
(* killed between two of them; no other handler runs in between.           *)
(***************************************************************************)
EXTENDS Firestore, ModelSql, Functions

CONSTANTS
  Starable,        \* bound: the posts the user stars
  MaxQueue,        \* bound: writes the user lets wait for the server
  MaxReads,        \* bound: refreshes under way at once
  FallBackToCache  \* may the SDK answer a read from its cache

ASSUME FeedAssumption ==
  /\ Starable \subseteq PostId
  /\ MaxQueue \in Nat
  /\ MaxReads \in Nat \ {0}
  /\ FallBackToCache \in BOOLEAN

VARIABLES
  rows,             \* POSTS table of SQLite
  lastUpdateDate,   \* date stored for "POSTS" in SQLite
  status,           \* of the process: running, or why it is not
  postSet,          \* Post.postSet
  favoritePostSet,  \* Post.favoritePostSet
  postReads,        \* lud captured by each refresh whose posts are awaited
  favReading,       \* is a read of the favourites awaited
  phase,            \* what the main thread is doing: idle, merge or show
  lud,              \* the closure's lud, while an answer is merged
  snap,             \* the answer being merged
  todo,             \* its posts that are still to be looked at
  data,             \* PostTableViewController.data
  refreshing,       \* is the spinner turning
  myPosts,          \* posts of MyPostTableViewController.data
  answers,          \* answers merged since the sets were last emptied
  stale             \* has the cache ever answered differently from the server

sqlVars == <<rows, lastUpdateDate>>
setVars == <<postSet, favoritePostSet>>
handlerVars == <<phase, lud, snap, todo>>
screenVars == <<data, refreshing, myPosts>>
appVars == <<status, setVars, postReads, favReading, handlerVars, screenVars,
             answers, stale>>
vars == <<firestoreVars, sqlVars, appVars>>

Statuses == {"running", "killed", "nilUnwrap", "badCast"}
Phases == {"idle", "merge", "show"}
Dates == {Second[n] : n \in Commits}

TypeOK ==
  /\ FirestoreTypeOK
  /\ rows \in [PostId -> Commits]
  /\ lastUpdateDate \in Dates
  /\ status \in Statuses
  /\ postSet \subseteq PostId
  /\ favoritePostSet \subseteq PostId
  /\ postReads \in Seq(Dates)
  /\ favReading \in BOOLEAN
  /\ phase \in Phases
  /\ lud \in Dates
  /\ snap \in [PostId -> Commits]
  /\ todo \subseteq PostId
  /\ data \in [PostId -> Commits]
  /\ refreshing \in BOOLEAN
  /\ myPosts \subseteq PostId
  /\ answers \in Nat
  /\ stale \in BOOLEAN

NoRows == [p \in PostId |-> NoRow]

Init ==
  /\ FirestoreInit
  /\ rows = NoRows
  /\ lastUpdateDate = 0
  /\ status = "killed"
  /\ postSet = {}
  /\ favoritePostSet = {}
  /\ postReads = <<>>
  /\ favReading = FALSE
  /\ phase = "idle"
  /\ lud = 0
  /\ snap = NoDocuments
  /\ todo = {}
  /\ data = NoRows
  /\ refreshing = FALSE
  /\ myPosts = {}
  /\ answers = 0
  /\ stale = FALSE

(* The main thread is free for the next tap, event or answer. *)
Idle == status = "running" /\ phase = "idle"

-----------------------------------------------------------------------------
(* A refresh begins.                                                       *)

(* Bound: as many refreshes as MaxReads are under way at once.             *)
RoomForRead == Len(postReads) < MaxReads

(***************************************************************************)
(* ModelFirebase.getAllPosts empties both static sets and issues the read  *)
(* of the posts and, at once, the read of the favourites.  since goes with *)
(* the closure only: the query asks for all the posts.                     *)
(***************************************************************************)
getAllPosts(since) ==
  /\ postReads' = Append(postReads, since)
  /\ favReading' = TRUE
  /\ postSet' = {}
  /\ favoritePostSet' = {}
  /\ answers' = 0

(* Model.getAllPosts captures the last update date when it is called. *)
CaptureDateAndRead ==
  \E date \in getLastUpdateDate(lastUpdateDate) : getAllPosts(date)

(* Whoever calls reloadData has the spinner turning. *)
reloadData ==
  /\ RoomForRead
  /\ CaptureDateAndRead
  /\ refreshing' = TRUE

(* The feed is opened in a new process: viewDidLoad. *)
Launch ==
  /\ status # "running"
  /\ status' = "running"
  /\ reloadData
  /\ UNCHANGED <<firestoreVars, sqlVars, handlerVars, data, myPosts, stale>>

(* The user pulls the table down while the spinner is not turning. *)
Pull ==
  /\ Idle
  /\ ~refreshing
  /\ reloadData
  /\ UNCHANGED <<firestoreVars, sqlVars, status, handlerVars, data, myPosts,
                 stale>>

-----------------------------------------------------------------------------
(* The process ends.  Firestore's queue and cache, and SQLite, survive.    *)

Die(cause) ==
  /\ status' = cause
  /\ postSet' = {}
  /\ favoritePostSet' = {}
  /\ postReads' = <<>>
  /\ favReading' = FALSE
  /\ phase' = "idle"
  /\ lud' = 0
  /\ snap' = NoDocuments
  /\ todo' = {}
  /\ data' = NoRows
  /\ refreshing' = FALSE
  /\ myPosts' = {}
  /\ answers' = 0
  /\ untold' = Len(queue)
  /\ UNCHANGED <<serverVars, queue, lastSeen, sqlVars, stale>>

(* The system or the user ends the process, in the middle of a handler too. *)
Kill == status = "running" /\ Die("killed")

-----------------------------------------------------------------------------
(* The answer with the posts.                                              *)

(***************************************************************************)
(* ModelFirebase turns the documents into posts and puts their ids into    *)
(* postSet; Model's closure goes on with the lud its refresh captured.     *)
(***************************************************************************)
PostsArrive(docs) ==
  /\ snap' = PostsView(docs)
  /\ todo' = {p \in PostId : snap'[p] # 0}
  /\ postSet' = postSet \cup todo'
  /\ lud' = Head(postReads)
  /\ postReads' = Tail(postReads)
  /\ phase' = "merge"
  /\ answers' = answers + 1
  /\ lastSeen' = docs
  /\ stale' = (stale \/ docs # cloud)
  /\ UNCHANGED <<serverVars, queue, untold, sqlVars, status, favoritePostSet,
                 favReading, screenVars>>

(* The documents of an answer: the server's, or those of the SDK's cache. *)
Sources == {cloud} \cup (IF FallBackToCache THEN {lastSeen} ELSE {})

AnswerPosts ==
  /\ Idle
  /\ postReads # <<>>
  /\ \E docs \in Sources : Unstamped(docs) = {} /\ PostsArrive(docs)

(* Post(json:) casts the missing timestamp of a document to Timestamp. *)
AnswerUnstampedPosts ==
  /\ Idle
  /\ postReads # <<>>
  /\ \E docs \in Sources : Unstamped(docs) # {}
  /\ Die("badCast")

(* Firestore reports an error, callback(nil): the closure unwraps nil. *)
FailPosts ==
  /\ Idle
  /\ postReads # <<>>
  /\ Die("nilUnwrap")

(* Faulty variants: an answer without order, a comparison off by one. *)
NextInAnyOrder(p) == p \in todo

NewerByTwo(p) == Second[snap[p]] > lud + 1

(* The loop over the answer, which is ordered by lastUpdate. *)
NextInAnswer(p) == p \in todo /\ \A q \in todo : snap[p] <= snap[q]

Newer(p) == Second[snap[p]] > lud

MergePost(p) ==
  /\ phase = "merge"
  /\ NextInAnswer(p)
  /\ todo' = todo \ {p}
  /\ rows' = IF Newer(p) THEN addPost(rows, p, snap[p]) ELSE rows
  /\ lud' = IF Newer(p) THEN Second[snap[p]] ELSE lud
  /\ UNCHANGED <<firestoreVars, lastUpdateDate, status, setVars, postReads,
                 favReading, phase, snap, screenVars, answers, stale>>

StoreLastUpdate ==
  /\ phase = "merge"
  /\ todo = {}
  /\ lastUpdateDate' \in setLastUpdate(lastUpdateDate, lud)
  /\ phase' = "show"
  /\ UNCHANGED <<firestoreVars, rows, status, setVars, postReads, favReading,
                 lud, snap, todo, screenVars, answers, stale>>

(***************************************************************************)
(* getAllPosts of ModelSql, and the callback of reloadData: the list is    *)
(* shown, the favourites whose post is not in postSet are deleted in the   *)
(* order the set gives them, the spinner stops.                            *)
(***************************************************************************)
(* Faulty variants: the difference swapped or its test forgotten, and a    *)
(* way out of the callback that leaves the spinner turning.                *)
OrphansSwapped == postSet \ favoritePostSet

OrphansUntested == favoritePostSet

EndRefreshingForgotten == UNCHANGED refreshing

Orphans == favoritePostSet \ postSet

EndRefreshing == refreshing' = FALSE

ShowFeed ==
  /\ phase = "show"
  /\ data' = Listed(rows, postSet)
  /\ rows' \in Swept(rows, postSet)
  /\ \E order \in Bijection(1 .. Cardinality(Orphans), Orphans) :
       Enqueue([i \in 1 .. Cardinality(Orphans) |->
                  [op |-> "unstar", id |-> order[i]]])
  /\ EndRefreshing
  /\ phase' = "idle"
  /\ lud' = 0
  /\ snap' = NoDocuments
  /\ UNCHANGED <<serverVars, lastSeen, lastUpdateDate, status, setVars,
                 postReads, favReading, todo, myPosts, answers, stale>>

-----------------------------------------------------------------------------
(* The reads of the favourites.                                            *)

(***************************************************************************)
(* FavoriteTableViewController reads them too, whenever it appears.  Its   *)
(* reads may be many at once; since another can be begun at any time, it   *)
(* is enough to know whether one is awaited.                               *)
(***************************************************************************)
OpenFavorites ==
  /\ Idle
  /\ favReading' = TRUE
  /\ UNCHANGED <<firestoreVars, sqlVars, status, setVars, postReads,
                 handlerVars, screenVars, answers, stale>>

FavouritesArrive(ids) ==
  /\ Idle
  /\ favReading
  /\ favReading' = FALSE
  /\ favoritePostSet' = favoritePostSet \cup ids
  /\ UNCHANGED <<firestoreVars, sqlVars, status, postSet, postReads,
                 handlerVars, screenVars, answers, stale>>

AnswerFavourites == UnstampedFavourites = {} /\ FavouritesArrive(FavouritesView)

AnswerUnstampedFavourites ==
  /\ Idle
  /\ favReading
  /\ UnstampedFavourites # {}
  /\ Die("badCast")

(* An error here is only printed, or gives the favourites screen nil. *)
FailFavourites == FavouritesArrive({})

-----------------------------------------------------------------------------
(* The list of the user's posts.                                           *)

(***************************************************************************)
(* getMyPosts reads all the posts, from the server or the cache, and keeps *)
(* those with the user's email; neither set and no row changes.  The list  *)
(* reads when it appears, when it is pulled, after a delete and, once it   *)
(* is loaded, at every postDataEvent.  Since the user may begin a read at  *)
(* any moment and only its answer changes anything, no variable tells      *)
(* whether one is awaited.  An error, callback(nil), leaves the list.      *)
(***************************************************************************)
MyPostsArrive(docs) ==
  /\ myPosts' = {p \in Mine : PostsView(docs)[p] # 0}
  /\ lastSeen' = docs
  /\ UNCHANGED <<serverVars, queue, untold, sqlVars, status, setVars, postReads,
                 favReading, handlerVars, data, refreshing, answers, stale>>

AnswerMyPosts ==
  /\ Idle
  /\ \E docs \in Sources : Unstamped(docs) = {} /\ MyPostsArrive(docs)

AnswerUnstampedMyPosts ==
  /\ Idle
  /\ \E docs \in Sources : Unstamped(docs) # {}
  /\ Die("badCast")

-----------------------------------------------------------------------------
(* What the user writes.                                                   *)

(* Bound: the user waits when MaxQueue writes are queued. *)
RoomForWrites(n) == Len(queue) + n <= MaxQueue

UserWrites(mutations) ==
  /\ Idle
  /\ RoomForWrites(Len(mutations))
  /\ Enqueue(mutations)
  /\ UNCHANGED <<serverVars, lastSeen, lastUpdateDate, status, setVars,
                 postReads, favReading, handlerVars, screenVars, answers,
                 stale>>

AddPost(p) ==
  /\ p \in Mine \ published
  /\ ~Queued("add", p)
  /\ RoomForPut
  /\ UserWrites(<<[op |-> "add", id |-> p]>>)
  /\ UNCHANGED rows

(* From the list, which may still show a post that is deleted by now. *)
UpdateMyPost(p) ==
  /\ p \in myPosts
  /\ RoomForPut
  /\ UserWrites(<<[op |-> "update", id |-> p]>>)
  /\ UNCHANGED rows

(***************************************************************************)
(* deletePost: the delete of the post is begun, the row goes at once, the  *)
(* delete of the favourite is begun, the list is read again (see above).   *)
(***************************************************************************)
DeleteMyPost(p) ==
  /\ p \in myPosts
  /\ UserWrites(<<[op |-> "delete", id |-> p], [op |-> "unstar", id |-> p]>>)
  /\ rows' \in delete(rows, p)

(* The button of a post in the list. *)
Star(p) ==
  /\ p \in Starable
  /\ data[p] # NoRow
  /\ UserWrites(<<[op |-> "star", id |-> p]>>)
  /\ UNCHANGED rows

Unstar(p) ==
  /\ p \in Starable
  /\ data[p] # NoRow
  /\ UserWrites(<<[op |-> "unstar", id |-> p]>>)
  /\ UNCHANGED rows

-----------------------------------------------------------------------------
(***************************************************************************)
(* The server answers the oldest write, and the SDK reports it to the app. *)
(* The write is on the server and reported in one step: until the report   *)
(* the SDK shows the app its own write instead of the server's state, and  *)
(* a report waits for the main thread as every handler does.               *)
(***************************************************************************)
NothingShown == UNCHANGED <<rows, appVars>>

(* Faulty variant: nobody observes postDataEvent. *)
PostDataEventUnobserved == NothingShown

(***************************************************************************)
(* ModelEvents.postDataEvent: the feed and, once they are loaded, the two  *)
(* other lists reload.  The favourites are read by the feed as well.       *)
(***************************************************************************)
PostDataEvent ==
  /\ reloadData
  /\ UNCHANGED <<rows, status, handlerVars, data, myPosts, stale>>

(* The id leaves postSet, and gpsUpdateEvent deletes the row again. *)
PostDeleted(p) ==
  /\ postSet' = postSet \ {p}
  /\ rows' \in delete(rows, p)
  /\ UNCHANGED <<status, favoritePostSet, postReads, favReading, handlerVars,
                 screenVars, answers, stale>>

Acknowledge ==
  LET p == Head(queue).id IN
  /\ queue # <<>>
  /\ untold = 0
  /\ Idle
  /\ queue' = Tail(queue)
  /\ UNCHANGED untold
  /\ \/ AcceptPut(p)    /\ PostDataEvent
     \/ AcceptDelete(p) /\ PostDeleted(p)
     \/ AcceptStar(p)   /\ PostDataEvent
     \/ AcceptUnstar(p) /\ NothingShown
     \/ Refuse(p)       /\ NothingShown
  /\ UNCHANGED lastUpdateDate

(***************************************************************************)
(* A write of a process that has ended, whose completion handler ended     *)
(* with it: nobody is told, at any moment, while a later process runs too. *)
(***************************************************************************)
AcknowledgeNobody ==
  LET p == Head(queue).id IN
  /\ queue # <<>>
  /\ untold > 0
  /\ queue' = Tail(queue)
  /\ untold' = untold - 1
  /\ \/ AcceptPut(p) \/ AcceptDelete(p)
     \/ AcceptStar(p) \/ AcceptUnstar(p)
     \/ Refuse(p)
  /\ UNCHANGED <<sqlVars, appVars>>

Elsewhere ==
  /\ \E p \in PostId : RemotePut(p) \/ RemoteDelete(p)
  /\ UNCHANGED <<sqlVars, appVars>>

Next ==
  \/ Launch \/ Pull \/ Kill
  \/ AnswerPosts \/ AnswerUnstampedPosts \/ FailPosts
  \/ \E p \in PostId : MergePost(p)
  \/ StoreLastUpdate \/ ShowFeed
  \/ OpenFavorites
  \/ AnswerFavourites \/ AnswerUnstampedFavourites \/ FailFavourites
  \/ AnswerMyPosts \/ AnswerUnstampedMyPosts
  \/ \E p \in PostId : AddPost(p) \/ UpdateMyPost(p) \/ DeleteMyPost(p)
  \/ \E p \in PostId : Star(p) \/ Unstar(p)
  \/ Acknowledge \/ AcknowledgeNobody
  \/ Elsewhere

Spec == Init /\ [][Next]_vars

(***************************************************************************)
(* The handlers that run are finished.  Firestore answers each read, with  *)
(* documents or an error, and each write while the process lives; it may   *)
(* be busy with something else any number of times before.                 *)
(***************************************************************************)
Fairness ==
  /\ WF_vars(\E p \in PostId : MergePost(p))
  /\ WF_vars(StoreLastUpdate)
  /\ WF_vars(ShowFeed)
  /\ SF_vars(AnswerPosts \/ AnswerUnstampedPosts \/ FailPosts)
  /\ SF_vars(AnswerFavourites \/ AnswerUnstampedFavourites \/ FailFavourites)
  /\ SF_vars(Acknowledge)

LiveSpec == Spec /\ Fairness
-----------------------------------------------------------------------------
(* Properties.                                                             *)

(* Commit n is not the first of its second. *)
Crowded(n) == \E m \in 1 .. (n - 1) : Second[m] = Second[n]

(***************************************************************************)
(* Why the copy may lack a post for good although the date has passed it:  *)
(* an answer came from a cache that was behind; the post is being deleted, *)
(* or was not, when the server refused; or an earlier commit of the same   *)
(* second used up the date, which the comparison with > cannot undo.       *)
(***************************************************************************)
Excused(p) == stale \/ Deleting(p) \/ p \in refused \/ Crowded(cloud[p])

Sound(date) ==
  \A p \in PostId :
    cloud[p] # 0 /\ Second[cloud[p]] <= date /\ ~Excused(p)
    => rows[p] = cloud[p]

(***************************************************************************)
(* The stored date promises that every post of the server up to it is in   *)
(* SQLite, in its last version: it is what lets getAllPosts skip a post.   *)
(* It must survive kills between the statements, writes of this user and   *)
(* others at any moment, overlapping refreshes with different captured     *)
(* dates, and a date that is read or written wrongly.                      *)
(***************************************************************************)
WatermarkSound == Sound(lastUpdateDate)

(***************************************************************************)
(* Why it does: the same promise of every date a refresh carries, and what *)
(* is known while an answer that came from the server is merged.           *)
(***************************************************************************)
Watermarks == {lastUpdateDate, lud} \cup {postReads[i] : i \in DOMAIN postReads}

(* Written since the answer was taken. *)
Newcomer(p) ==
  cloud[p] # 0 /\ cloud[p] # snap[p] /\ ~Deleting(p) /\ p \notin refused

(* Documents are written by different commits, all of them in the past. *)
Numbered(docs) ==
  \A p, q \in PostId : /\ docs[p] <= clock
                       /\ docs[p] = docs[q] /\ docs[p] # 0 => p = q

(* The posts of the answer are in postSet; those dealt with are up to lud. *)
AnswerTracked ==
  \A p \in PostId :
    snap[p] # 0 => /\ p \in postSet
                   /\ p \in todo \/ Second[snap[p]] <= lud

(* What was written after the answer is after it, and after every date. *)
NewcomersLater ==
  \A p \in PostId :
    Newcomer(p) =>
      /\ \A q \in PostId : snap[q] < cloud[p]
      /\ \A w \in Watermarks : w < Second[cloud[p]] \/ Crowded(cloud[p])

WatermarkInv ==
  /\ Numbered(cloud)
  /\ status # "running" => phase = "idle"
  /\ phase # "merge" => todo = {}
  /\ phase = "idle" => snap = NoDocuments /\ lud = 0
  /\ \A p \in todo : snap[p] # 0
  /\ ~stale => \A w \in Watermarks : w <= Second[clock] /\ Sound(w)
  /\ ~stale /\ phase # "idle" =>
       Numbered(snap) /\ AnswerTracked /\ NewcomersLater

(* reloadData's callback has just given the table its list. *)
ListShown == phase = "show" /\ phase' = "idle" /\ status' = "running"

(***************************************************************************)
(* Model.getAllPosts gives the complete list: every post of the answer is  *)
(* shown, in the version of the answer.                                    *)
(***************************************************************************)
FeedComplete ==
  [][ListShown => \A p \in PostId : snap[p] # 0 => data'[p] = snap[p]]_vars

(***************************************************************************)
(* What is left of it in general: a post of the answer is missing or old   *)
(* in the list only for one of the reasons of Excused.                     *)
(***************************************************************************)
FeedExplained ==
  [][ListShown =>
       \A p \in PostId :
         snap[p] # 0 /\ ~stale /\ p \notin refused /\ ~Crowded(snap[p])
         => data'[p] = snap[p]]_vars

(***************************************************************************)
(* The list shows no post that its answer lacks, unless postSet still held *)
(* the ids of another refresh, answered since both emptied it.             *)
(***************************************************************************)
GhostsNeedOverlap ==
  [][ListShown =>
       \A p \in PostId : data'[p] # NoRow /\ snap[p] = 0 => answers > 1]_vars

(***************************************************************************)
(* The clean-up after a refresh deletes the favourites of posts that are   *)
(* gone.  postSet and favoritePostSet are filled by two reads in any order *)
(* and emptied by every refresh, yet no star of a living post may go.      *)
(***************************************************************************)
CleanupSafe ==
  [][ListShown => \A p \in Orphans : cloud[p] = 0 \/ Deleting(p)]_vars

(***************************************************************************)
(* The spinner stops, however many refreshes overlap, while the app lives. *)
(***************************************************************************)
RefreshEnds == refreshing ~> ~refreshing

(***************************************************************************)
(* A new post of the user shows up in the feed once it is on the server,   *)
(* with no pull, unless the process ends or the post is deleted first.     *)
(***************************************************************************)
OwnPostShows ==
  \A p \in Mine :
    status = "running" /\ Queued("add", p)
    ~> status # "running" \/ data[p] # NoRow \/ Deleting(p)

(* A claim of the code that it does not keep.                              *)

(* Post(json:): the cast of lastUpdate to Timestamp always succeeds. *)
StampPresent == status # "badCast"
=============================================================================
