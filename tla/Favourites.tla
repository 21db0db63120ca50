----------------------------- MODULE Favourites -----------------------------
(***************************************************************************)
(* The stars of TravelMe across accounts.  A tap on the button of a row    *)
(* stars or unstars its post: a document in the collection that is named   *)
(* by Post.userEmail.  A refresh of the feed colours the rows by           *)
(* favoritePostSet, and deletes the favourites whose post is gone.  The    *)
(* two static sets are shared by every screen of the process, and screens  *)
(* do not end: their observers of postDataEvent are never removed, so the  *)
(* feeds of earlier logins go on refreshing.                               *)
(*                                                                         *)
(* The merge of an answer into SQLite is the subject of PostFeed: here the *)
(* table shows the posts of postSet, and posts are only deleted, by this   *)
(* phone's accounts or by somebody else.  Writes are queued by the SDK for *)
(* the account that is signed in, in order, on disk (FirestoreWrites).     *)
(***************************************************************************)
EXTENDS Session, Functions

CONSTANTS
  Post,      \* ids of the documents of "posts"
  Author,    \* Author[p]: whose post p is, NoAccount for somebody else's
  Tappable,  \* bound: the posts whose button the user taps
  Refusable, \* operations the server's rules may refuse
  MaxQueue,  \* bound: writes that wait for the server at once
  MaxReads,  \* bound: reads of the posts under way at once
  MaxCells   \* bound: cells the table has for its rows

Ops == {"star", "unstar", "delete"}

ASSUME FavouritesAssumption ==
  /\ IsFiniteSet(Post)
  /\ Author \in [Post -> Account \cup {NoAccount}]
  /\ Tappable \subseteq Post
  /\ Refusable \subseteq Ops
  /\ MaxQueue \in Nat
  /\ MaxReads \in Nat
  /\ MaxCells \in Nat

VARIABLES
  posts,            \* ids of the documents of "posts" on the server
  favs,             \* favs[a]: ids of the documents of collection a
  queue,            \* queue[a]: the SDK's queue of a's writes, oldest first
  untold,           \* how many of them were queued by an earlier process
  postSet,          \* Post.postSet
  favoritePostSet,  \* Post.favoritePostSet
  postReads,        \* the home screens whose reads of the posts are awaited
  favReads,         \* reads of favourites that are awaited
  data,             \* posts in the table of the visible feed
  postSelected,     \* those of them with postSelected "true", shown orange
  selectedCells,    \* how many cells of that table have a selected button
  wish,             \* history: wish[a]: living posts a's taps showed orange last
  excused,          \* history: their stars whose write was refused or went astray
  sources,          \* history: whose favourites were answered, and
  touched           \* which stars changed, since this home's sets were emptied

serverVars == <<posts, favs>>
setVars == <<postSet, favoritePostSet>>
feedVars == <<data, postSelected, selectedCells>>
wishVars == <<wish, excused>>
vars == <<sessionVars, serverVars, queue, untold, setVars, postReads, favReads,
          feedVars, wishVars, sources, touched>>

Mutation == [op : Ops, id : Post, in : Someone]

TypeOK ==
  /\ SessionTypeOK
  /\ posts \subseteq Post
  /\ favs \in [Account -> SUBSET Post]
  /\ queue \in [Account -> Seq(Mutation)]
  /\ untold \in [Account -> Nat]
  /\ postSet \subseteq Post
  /\ favoritePostSet \subseteq Post
  /\ postReads \in Seq(Nat)
  /\ favReads \subseteq Someone
  /\ data \subseteq Post
  /\ postSelected \subseteq Post
  /\ selectedCells \in 0 .. MaxCells
  /\ wish \in [Account -> SUBSET Post]
  /\ excused \subseteq Account \X Post
  /\ sources \subseteq Someone
  /\ touched \subseteq Post

Init ==
  /\ SessionInit
  /\ posts = Post
  /\ favs = [a \in Account |-> {}]
  /\ queue = [a \in Account |-> <<>>]
  /\ untold = [a \in Account |-> 0]
  /\ postSet = {}
  /\ favoritePostSet = {}
  /\ postReads = <<>>
  /\ favReads = {}
  /\ data = {}
  /\ postSelected = {}
  /\ selectedCells = 0
  /\ wish = [a \in Account |-> {}]
  /\ excused = {}
  /\ sources = {}
  /\ touched = {}

-----------------------------------------------------------------------------
(* The SDK's view: the server's documents with the queued writes on top,   *)
(* those of the account that is signed in.                                 *)

QueueOf(a) == IF a = NoAccount THEN <<>> ELSE queue[a]

Mutates(m, c, p) == m.op # "delete" /\ m.in = c /\ m.id = p

(* The newest write in q of document p of collection c is op. *)
LastOp(q, op, c, p) ==
  \E i \in DOMAIN q :
    /\ Mutates(q[i], c, p) /\ q[i].op = op
    /\ \A j \in DOMAIN q : j > i => ~Mutates(q[j], c, p)

Deleting(a, p) ==
  \E i \in DOMAIN QueueOf(a) :
    QueueOf(a)[i].op = "delete" /\ QueueOf(a)[i].id = p

PostsView == {p \in posts : ~Deleting(user, p)}

(* Stars whose lastUpdate is null until the server has set it. *)
Unstamped(c) == {p \in Post : LastOp(QueueOf(user), "star", c, p)}

FavouritesView(c) ==
  Unstamped(c) \cup {p \in favs[c] : ~LastOp(QueueOf(user), "unstar", c, p)}

(* Every writing call of the app names the collection by Post.userEmail. *)
Write(op, p) == [op |-> op, id |-> p, in |-> userEmail]

Enqueue(mutations) ==
  queue' = [queue EXCEPT ![user] = @ \o mutations]

(* Bound: the user waits when MaxQueue writes are queued, of all accounts. *)
AllQueued == UNION {{a} \X DOMAIN queue[a] : a \in Account}

RoomForWrites(n) == Cardinality(AllQueued) + n <= MaxQueue

(* Bound: at most MaxReads reads of the posts are under way. *)
RoomForReads(n) == Len(postReads) + n <= MaxReads

-----------------------------------------------------------------------------
(* A refresh begins.                                                       *)

(* Faulty variant: only the set of the posts is emptied. *)
EmptySetsOfPosts == postSet' = {} /\ UNCHANGED favoritePostSet

EmptySets == postSet' = {} /\ favoritePostSet' = {}

(***************************************************************************)
(* reloadData of the feeds of the given home screens, one after the other: *)
(* each call of getAllPosts empties both sets and issues the two reads,    *)
(* that of the favourites from the collection Post.userEmail now names.    *)
(* The lists of favourites read when they are told to, too: those reads    *)
(* are among the ones the user may begin at any time.                      *)
(***************************************************************************)
getAllPosts(screens, email) ==
  /\ EmptySets
  /\ postReads' = postReads \o screens
  /\ favReads' = favReads \cup {email}
  /\ sources' = {}
  /\ touched' = {}

(* The user pulls the table down. *)
Pull ==
  /\ At("home")
  /\ RoomForReads(1)
  /\ getAllPosts(<<homes>>, userEmail)
  /\ UNCHANGED <<sessionVars, serverVars, queue, untold, feedVars,
                 wishVars>>

(* FavoriteTableViewController appears, is pulled or is told to reload. *)
OpenFavorites ==
  /\ At("home")
  /\ favReads' = favReads \cup {userEmail}
  /\ UNCHANGED <<sessionVars, serverVars, queue, untold, setVars, postReads,
                 feedVars, wishVars, sources, touched>>

-----------------------------------------------------------------------------
(* Signing in and out.                                                     *)

StaysPut ==
  UNCHANGED <<serverVars, queue, untold, setVars, postReads, favReads,
              feedVars, wishVars, sources, touched>>

EmptyTable ==
  /\ data' = {}
  /\ postSelected' = {}
  /\ selectedCells' = 0

(* viewDidLoad of the new feed. *)
OpenHome(s) ==
  /\ SignInOpensHome(s)
  /\ RoomForReads(1)
  /\ getAllPosts(<<homes'>>, userEmail')
  /\ EmptyTable
  /\ UNCHANGED <<serverVars, queue, untold, wishVars>>

UserMoves ==
  /\ \/ \E s \in SignInScreens, a \in Account : SignIn(s, a)
     \/ OpenRegister
     \/ Back /\ ~At("home")
  /\ StaysPut

(* Nobody will see that table again, though its feed goes on refreshing.   *)
LeaveHome ==
  /\ At("home")
  /\ Back
  /\ EmptyTable
  /\ sources' = {}
  /\ touched' = {}
  /\ UNCHANGED <<serverVars, queue, untold, setVars, postReads, favReads,
                 wishVars>>

AuthAnswers(s) ==
  \/ SignInFails(s)     /\ StaysPut
  \/ SignInComesLate(s) /\ StaysPut
  \/ OpenHome(s)

(* Whatever ends the process; the user starts the app again. *)
Restart ==
  /\ RestartSession
  /\ untold' = [a \in Account |-> Len(queue[a])]
  /\ postSet' = {}
  /\ favoritePostSet' = {}
  /\ postReads' = <<>>
  /\ favReads' = {}
  /\ EmptyTable
  /\ sources' = {}
  /\ touched' = {}
  /\ UNCHANGED <<serverVars, queue, wishVars>>

-----------------------------------------------------------------------------
(* The answers to the reads.                                               *)

(* Faulty variant: the difference the wrong way round. *)
OrphansReversed == postSet' \ favoritePostSet

Orphans == favoritePostSet \ postSet'

(***************************************************************************)
(* The read of the posts begun by the feed of home screen Head(postReads): *)
(* ids into postSet, the table, the flags of the rows, the clean-up.  A    *)
(* feed whose home screen was left has the same effects on what it shares. *)
(***************************************************************************)
AnswerPosts ==
  LET newest == At("home") /\ Head(postReads) = homes IN
  /\ postReads # <<>>
  /\ postReads' = Tail(postReads)
  /\ postSet' = postSet \cup PostsView
  /\ RoomForWrites(Cardinality(Orphans))
  /\ \E order \in Bijection(1 .. Cardinality(Orphans), Orphans) :
       Enqueue([i \in 1 .. Cardinality(Orphans) |-> Write("unstar", order[i])])
  /\ IF newest
     THEN /\ data' = postSet'
          /\ postSelected' = postSet' \cap favoritePostSet
          /\ UNCHANGED selectedCells
     ELSE UNCHANGED feedVars
  /\ UNCHANGED <<sessionVars, serverVars, untold, favoritePostSet, favReads,
                 wishVars, sources, touched>>

(* An error: Model.getAllPosts unwraps nil, and the process ends. *)
FailPosts == postReads # <<>> /\ Restart

(***************************************************************************)
(* A read of collection c is answered.  Others of it may be under way:     *)
(* favReads tells only that there are some.                                *)
(***************************************************************************)
ReadEnds(c) == favReads' \in {favReads, favReads \ {c}}

AnswerFavourites(c) ==
  /\ c \in favReads
  /\ Unstamped(c) = {}
  /\ ReadEnds(c)
  /\ favoritePostSet' = favoritePostSet \cup FavouritesView(c)
  /\ sources' = IF At("home") THEN sources \cup {c} ELSE {}
  /\ UNCHANGED <<sessionVars, serverVars, queue, untold, postSet, postReads,
                 feedVars, wishVars, touched>>

(* Post(json:) casts the missing timestamp of a document to Timestamp. *)
AnswerUnstampedFavourites ==
  /\ \E c \in favReads : Unstamped(c) # {}
  /\ Restart

(* The error is printed, or gives the favourites screen nil. *)
FailFavourites(c) ==
  /\ c \in favReads
  /\ favReads' = favReads \ {c}
  /\ UNCHANGED <<sessionVars, serverVars, queue, untold, setVars, postReads,
                 feedVars, wishVars, sources, touched>>

-----------------------------------------------------------------------------
(* What the user does on the home screen.                                  *)

(* What the user wants of p is known; it goes astray under another email. *)
Wished(p, wanted) ==
  /\ wish' = [wish EXCEPT ![owner] = IF wanted THEN @ \cup ({p} \cap posts)
                                     ELSE @ \ {p}]
  /\ excused' = IF userEmail = owner THEN excused \ {<<owner, p>>}
                ELSE excused \cup ({owner, userEmail} \X ({p} \cap posts))
  /\ touched' = touched \cup {p}

(***************************************************************************)
(* isSelected of the button under the finger decides, not the flag of its  *)
(* row.  The table gives its cells to its rows anew whenever it reloads or *)
(* scrolls, and a button stays selected whatever row it comes to: all that *)
(* is known is how many of the cells have a selected button.               *)
(***************************************************************************)
DeleteFavoritePost(p) ==
  /\ selectedCells > 0
  /\ selectedCells' = selectedCells - 1
  /\ postSelected' = postSelected \ {p}
  /\ Enqueue(<<Write("unstar", p)>>)
  /\ Wished(p, FALSE)

AddFavoritePost(p) ==
  /\ selectedCells < MaxCells
  /\ selectedCells' = selectedCells + 1
  /\ postSelected' = postSelected \cup {p}
  /\ Enqueue(<<Write("star", p)>>)
  /\ Wished(p, TRUE)

favoriteCliked(p) ==
  /\ At("home")
  /\ p \in data \cap Tappable
  /\ RoomForWrites(1)
  /\ DeleteFavoritePost(p) \/ AddFavoritePost(p)
  /\ UNCHANGED <<sessionVars, serverVars, untold, setVars, postReads, favReads,
                 data, sources>>

(***************************************************************************)
(* deleteMyPost, from the list of the user's posts, which was read under   *)
(* the email of this home screen or of a registration that came late.      *)
(***************************************************************************)
DeleteMyPost(p) ==
  /\ At("home")
  /\ Author[p] \in {owner, userEmail}
  /\ RoomForWrites(2)
  /\ Enqueue(<<Write("delete", p), Write("unstar", p)>>)
  /\ Wished(p, FALSE)
  /\ UNCHANGED <<sessionVars, serverVars, untold, setVars, postReads, favReads,
                 feedVars, sources>>

-----------------------------------------------------------------------------
(* The server.                                                             *)

(* Posts go, and nobody wishes anything of them any more. *)
Erase(gone) ==
  /\ posts' = posts \ gone
  /\ wish' = [a \in Account |-> wish[a] \ gone]
  /\ excused' = excused \ (Account \X gone)

(* The author deletes a post from another phone. *)
RemoteDelete(p) ==
  /\ p \in posts
  /\ Erase({p})
  /\ UNCHANGED <<sessionVars, favs, queue, untold, setVars, postReads, favReads,
                 feedVars, sources, touched>>

NothingShown == UNCHANGED <<setVars, postReads, favReads, sources, touched>>

(* The feed of every home screen of this process observes the event. *)
PostDataEvent ==
  IF homes = 0 THEN NothingShown
  ELSE /\ RoomForReads(homes)
       /\ getAllPosts([h \in 1 .. homes |-> h], userEmail)

(* The completion handler of a write that this process queued. *)
Told(m) ==
  \/ m.op = "star" /\ PostDataEvent
  \/ m.op = "unstar" /\ NothingShown
  \/ /\ m.op = "delete"
     /\ postSet' = postSet \ {m.id}
     /\ UNCHANGED <<favoritePostSet, postReads, favReads, sources, touched>>

Apply(m) ==
  \/ /\ m.op = "star"
     /\ favs' = [favs EXCEPT ![m.in] = @ \cup {m.id}]
     /\ UNCHANGED <<posts, wishVars>>
  \/ /\ m.op = "unstar"
     /\ favs' = [favs EXCEPT ![m.in] = @ \ {m.id}]
     /\ UNCHANGED <<posts, wishVars>>
  \/ /\ m.op = "delete"
     /\ Erase({m.id})
     /\ UNCHANGED favs

(* The server takes the oldest write of the account that is signed in. *)
Dequeue(m) ==
  /\ QueueOf(user) # <<>>
  /\ m = Head(QueueOf(user))
  /\ queue' = [queue EXCEPT ![user] = Tail(@)]
  /\ untold' = [untold EXCEPT ![user] = IF @ = 0 THEN 0 ELSE @ - 1]
  /\ UNCHANGED <<sessionVars, feedVars>>

Accept(m) ==
  /\ Dequeue(m)
  /\ Apply(m)
  /\ IF untold[user] = 0 THEN Told(m) ELSE NothingShown

(* The error is printed. *)
Refuse(m) ==
  /\ m.op \in Refusable
  /\ Dequeue(m)
  /\ excused' = excused \cup ({user} \X ({m.id} \cap posts))
  /\ touched' = IF At("home") THEN touched \cup {m.id} ELSE {}
  /\ UNCHANGED <<serverVars, setVars, postReads, favReads, wish, sources>>

Next ==
  \/ UserMoves \/ LeaveHome \/ Restart
  \/ \E s \in SignInScreens : AuthAnswers(s)
  \/ Pull \/ OpenFavorites
  \/ AnswerPosts \/ FailPosts
  \/ \E c \in Account : AnswerFavourites(c) \/ FailFavourites(c)
  \/ AnswerUnstampedFavourites
  \/ \E p \in Post : favoriteCliked(p) \/ DeleteMyPost(p) \/ RemoteDelete(p)
  \/ \E m \in Mutation : Accept(m) \/ Refuse(m)

Spec == Init /\ [][Next]_vars
-----------------------------------------------------------------------------
(* Properties.                                                             *)

(* What becomes of the star once a's queued writes are on the server. *)
Starred(a, p) ==
  \/ LastOp(queue[a], "star", a, p)
  \/ p \in favs[a] /\ ~LastOp(queue[a], "unstar", a, p)

(***************************************************************************)
(* The stars of an account are what its taps last showed, for every post   *)
(* that lives: no refresh of any screen, no clean-up with sets that other  *)
(* screens and accounts fill and empty, no change of accounts and no end   *)
(* of the process takes or gives one.  Excused are stars whose write the   *)
(* server refused, and those tapped after a late registration had put      *)
(* another account's email under the screen.                               *)
(***************************************************************************)
StarsFollowTaps ==
  \A a \in Account, p \in posts :
    ~Deleting(a, p) /\ <<a, p>> \notin excused
    => (Starred(a, p) <=> p \in wish[a])

(* The newest feed has just been given its rows. *)
FeedShown ==
  /\ postReads # <<>>
  /\ At("home") /\ Head(postReads) = homes
  /\ postReads' = Tail(postReads)
  /\ homes' = homes
  /\ UNCHANGED favReads

(***************************************************************************)
(* The colours of the feed are right if the favourites have been answered  *)
(* when the rows are shown, those of this account and no other's, and for  *)
(* every post whose star did not change since the sets were emptied.  Each *)
(* condition is needed: the reads are answered in any order, a read of the *)
(* account before may still come, and an unstar posts no event.            *)
(***************************************************************************)
FlagsExplained ==
  [][FeedShown /\ sources = {userEmail} =>
       \A p \in data' \ touched :
         p \in postSelected' <=> p \in FavouritesView(userEmail)]_vars
=============================================================================
