------------------------------ MODULE NewPost ------------------------------
(***************************************************************************)
(* The screen of a new post, NewPostViewController, and what becomes of    *)
(* what is posted there.  A post with a picture is only written when the   *)
(* upload of the picture has ended, by a closure that holds the controller *)
(* and a Post with the email of the moment of the tap; the write is queued *)
(* by the SDK for whoever is signed in by then.  The screen stands on the  *)
(* home screen, in the navigation controller of Session, so the user can   *)
(* leave it, and then the home screen, while the picture is on its way.    *)
(*                                                                         *)
(* Each screen that is opened has a number, and with it its draft.  Title, *)
(* place and description go with the draft unchanged and are left out.     *)
(***************************************************************************)
EXTENDS Session

CONSTANTS
  MaxDrafts,      \* bound: screens of a new post that are opened
  RulesMayRefuse  \* may the server's rules refuse a post

ASSUME NewPostAssumption ==
  /\ MaxDrafts \in Nat
  /\ RulesMayRefuse \in BOOLEAN

Draft == 1 .. MaxDrafts
DraftPost == [draft : Draft, email : Someone]

VARIABLES
  drafts,         \* number of screens of a new post opened so far
  screen,         \* the last of them: form, waiting (buttons disabled), none
  selectedImage,  \* has a picture been chosen on it
  uploads,        \* posts whose picture is being uploaded
  queue,          \* queue[a]: the SDK's queue of a's posts, oldest first
  documents,      \* the posts on the server, oldest first, and who wrote them
  posted,         \* history: drafts whose button Post has been tapped
  lost,           \* history: drafts whose upload ended without an address or
                  \* with the process, and those the server refused
  left,           \* history: drafts whose screen was left during the upload
  outdated        \* history: drafts whose upload a late registration met

screenVars == <<drafts, screen, selectedImage>>
storeVars == <<queue, documents>>
historyVars == <<posted, lost, left, outdated>>
vars == <<sessionVars, screenVars, uploads, storeVars, historyVars>>

TypeOK ==
  /\ SessionTypeOK
  /\ drafts \in 0 .. MaxDrafts
  /\ screen \in {"none", "form", "waiting"}
  /\ screen # "none" => drafts > 0 /\ At("home")
  /\ selectedImage \in BOOLEAN
  /\ uploads \subseteq DraftPost
  /\ queue \in [Account -> Seq(DraftPost)]
  /\ documents \in Seq([draft : Draft, email : Someone, by : Account])
  /\ posted \subseteq Draft
  /\ lost \subseteq posted
  /\ left \subseteq posted
  /\ outdated \subseteq posted

Init ==
  /\ SessionInit
  /\ drafts = 0
  /\ screen = "none"
  /\ selectedImage = FALSE
  /\ uploads = {}
  /\ queue = [a \in Account |-> <<>>]
  /\ documents = <<>>
  /\ posted = {}
  /\ lost = {}
  /\ left = {}
  /\ outdated = {}

-----------------------------------------------------------------------------
(* The screen.                                                             *)

(* The button + of the home screen. *)
OpenNewPost ==
  /\ At("home")
  /\ screen = "none"
  /\ drafts < MaxDrafts
  /\ drafts' = drafts + 1
  /\ screen' = "form"
  /\ selectedImage' = FALSE
  /\ UNCHANGED <<sessionVars, uploads, storeVars, historyVars>>

ChoosePicture ==
  /\ screen = "form"
  /\ selectedImage' = TRUE
  /\ UNCHANGED <<sessionVars, drafts, screen, uploads, storeVars, historyVars>>

(* addDocument: the SDK queues the post for the account of Auth. *)
AddPost(post) == queue' = [queue EXCEPT ![user] = Append(@, post)]

(* Faulty variant: the email that the home screen was opened with. *)
OwnersPost == [draft |-> drafts, email |-> owner]

NewPostNow == [draft |-> drafts, email |-> userEmail]

(* Faulty variant: the buttons can be tapped while the picture is uploaded. *)
DisableForgotten == UNCHANGED screen

Disable == screen' = "waiting"

PostWithPicture ==
  /\ screen = "form"
  /\ selectedImage
  /\ Disable
  /\ uploads' = uploads \cup {NewPostNow}
  /\ posted' = posted \cup {drafts}
  /\ UNCHANGED <<sessionVars, drafts, selectedImage, storeVars, lost, left,
                 outdated>>

PostWithoutPicture ==
  /\ screen = "form"
  /\ ~selectedImage
  /\ screen' = "none"
  /\ AddPost(NewPostNow)
  /\ posted' = posted \cup {drafts}
  /\ UNCHANGED <<sessionVars, drafts, selectedImage, uploads, documents, lost,
                 left, outdated>>

Uploading == {post.draft : post \in uploads}

LeaveForm ==
  /\ screen # "none"
  /\ screen' = "none"
  /\ left' = left \cup ({drafts} \cap Uploading)
  /\ UNCHANGED <<sessionVars, drafts, selectedImage, uploads, storeVars, posted,
                 lost, outdated>>

(* A controller that was left has no navigation controller to pop. *)
Close(post) ==
  screen' = IF screen = "waiting" /\ post.draft = drafts THEN "none" ELSE screen

UploadDone(post) ==
  /\ uploads' = uploads \ {post}
  /\ AddPost(post)
  /\ Close(post)
  /\ UNCHANGED <<sessionVars, drafts, selectedImage, documents, historyVars>>

(* No callback: the screen stays as it is, its buttons disabled. *)
UploadFails(post) ==
  /\ uploads' = uploads \ {post}
  /\ lost' = lost \cup {post.draft}
  /\ UNCHANGED <<sessionVars, screenVars, storeVars, posted, left, outdated>>

-----------------------------------------------------------------------------
(* Signing in and out below the screen.                                    *)

StaysPut == UNCHANGED <<screenVars, uploads, storeVars, historyVars>>

UserMoves ==
  /\ screen = "none"
  /\ \/ \E s \in SignInScreens, a \in Account : SignIn(s, a)
     \/ OpenRegister
     \/ Back
  /\ StaysPut

AuthAnswers(s) ==
  \/ SignInFails(s)     /\ StaysPut
  \/ SignInOpensHome(s) /\ StaysPut
  \/ /\ SignInComesLate(s)
     /\ outdated' = outdated \cup Uploading
     /\ UNCHANGED <<screenVars, uploads, storeVars, posted, lost, left>>

(* The process ends, with its uploads, and is started again. *)
Restart ==
  /\ RestartSession
  /\ screen' = "none"
  /\ uploads' = {}
  /\ lost' = lost \cup Uploading
  /\ UNCHANGED <<drafts, selectedImage, storeVars, posted, left, outdated>>

-----------------------------------------------------------------------------
(* The server, which hears the account that is signed in.                  *)

ServerTakes(a) ==
  /\ a = user
  /\ queue[a] # <<>>
  /\ queue' = [queue EXCEPT ![a] = Tail(@)]
  /\ UNCHANGED <<sessionVars, screenVars, uploads, posted, left, outdated>>

Accept(a) ==
  /\ ServerTakes(a)
  /\ documents' = Append(documents, [draft |-> Head(queue[a]).draft,
                                     email |-> Head(queue[a]).email, by |-> a])
  /\ UNCHANGED lost

(* The error is only printed. *)
Refuse(a) ==
  /\ RulesMayRefuse
  /\ ServerTakes(a)
  /\ lost' = lost \cup {Head(queue[a]).draft}
  /\ UNCHANGED documents

Next ==
  \/ OpenNewPost \/ ChoosePicture
  \/ PostWithPicture \/ PostWithoutPicture \/ LeaveForm
  \/ \E post \in uploads : UploadDone(post) \/ UploadFails(post)
  \/ UserMoves \/ Restart
  \/ \E s \in SignInScreens : AuthAnswers(s)
  \/ \E a \in Account : Accept(a) \/ Refuse(a)

Spec == Init /\ [][Next]_vars
-----------------------------------------------------------------------------
(* Properties.                                                             *)

(* How many times draft d is on its way, queued, on the server or lost. *)
Copies(d) ==
  Cardinality({post \in uploads : post.draft = d})
    + Cardinality(UNION {{<<a, i>> : i \in {j \in DOMAIN queue[a] :
                                             queue[a][j].draft = d}} :
                           a \in Account})
    + Cardinality({i \in DOMAIN documents : documents[i].draft = d})
    + Cardinality({d} \cap lost)

(***************************************************************************)
(* What was posted is in one place: on its way, queued, on the server or   *)
(* lost for one of the reasons lost names.  No tap, no screen left and     *)
(* opened again, no change of accounts and no end of the process publishes *)
(* a draft twice, or makes it disappear.                                   *)
(***************************************************************************)
PublishedOnce ==
  \A d \in Draft : Copies(d) = IF d \in posted THEN 1 ELSE 0

(***************************************************************************)
(* A post is written by the account whose email it bears, unless accounts  *)
(* changed while its picture was being uploaded: after its screen had been *)
(* left, or by the late answer to a registration.  The email is read at    *)
(* the tap and the account when the upload ends.                           *)
(***************************************************************************)
AuthorPublishes ==
  LET Changed == left \cup outdated IN
  /\ \A a \in Account : \A i \in DOMAIN queue[a] :
       queue[a][i].email = a \/ queue[a][i].draft \in Changed
  /\ \A i \in DOMAIN documents :
       documents[i].email = documents[i].by \/ documents[i].draft \in Changed
=============================================================================
