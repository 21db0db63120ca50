----------------------------- MODULE PostEditor -----------------------------
(***************************************************************************)
(* Editing one post of the user's: MyPostTableViewController opens an      *)
(* EditMyPostViewController, which uploads a picture to Firebase Storage   *)
(* (FirebaseStorage.saveImage) and only then updates the document.         *)
(*                                                                         *)
(* The upload goes on when the user has left the editor: its closure holds *)
(* the controller.  So uploads of several editors of the post may be under *)
(* way at once and end in any order, also after the post is deleted, and   *)
(* also when another account is signed in: the SDK queues the update for   *)
(* the account of that moment, and keeps it while others are signed in.    *)
(* How accounts come and go is the subject of Session.                     *)
(*                                                                         *)
(* A save is known by its number, and so are the text and the new picture  *)
(* it may bring; pictures 0, 1 and 2 are none, the asset "avatar" and the  *)
(* picture the post had at first.  Reads of the list while an update waits *)
(* for the server end the process, as PostFeed shows; they are not         *)
(* repeated here.                                                          *)
(***************************************************************************)
EXTENDS Naturals, Sequences, FiniteSets

CONSTANTS
  Account,         \* the accounts of this phone
  Owner,           \* the one that published the post
  HasPicture,      \* did the post have a picture at first
  MaxSaves,        \* bound: saves
  StorageMayFail,  \* may an upload or the load of a picture fail
  RulesMayRefuse   \* may the server's rules refuse a write

ASSUME EditorAssumption ==
  /\ Owner \in Account
  /\ HasPicture \in BOOLEAN
  /\ MaxSaves \in Nat
  /\ StorageMayFail \in BOOLEAN
  /\ RulesMayRefuse \in BOOLEAN

NoPicture == 0
Avatar == 1
Original == 2
NewPicture(n) == n + 2

Saves == 0 .. MaxSaves
Texts == 0 .. MaxSaves
Pictures == 0 .. (MaxSaves + 2)
Content == [text : Texts, picture : Pictures]
Edit == [save : Saves, email : Account, content : Content]
Write == [op : {"update"}, edit : Edit] \cup [op : {"delete"}]
Screens == {"list", "editor", "waiting", "killed", "nilUnwrap"}
Alive == {"list", "editor", "waiting"}

FirstContent ==
  [text |-> 0, picture |-> IF HasPicture THEN Original ELSE NoPicture]

VARIABLES
  accounts,  \* the accounts Firebase Auth has
  account,   \* the one that is signed in, and Post.userEmail
  post,      \* the document: the edit it holds, save 0 for the first
  exists,    \* is it still there
  writes,    \* writes[a]: the SDK's queue of a's writes of it, oldest first
  listed,    \* the post in the list's data
  inList,    \* is it there
  screen,    \* list, editor, editor after saveBtn, or why there is none
  fields,    \* what the editor shows; picture 0 is an image view without image
  loading,   \* picture that is being loaded for the editor
  uploads,   \* edits whose picture is being uploaded
  saves,     \* number of saves so far
  lost,      \* history: saves whose upload failed or died with the process
  refused,   \* history: saves whose update the server refused
  queued,    \* history: <<n, a>>: the update of save n was queued for a
  together   \* history: pairs of saves whose uploads were under way at once

userVars == <<accounts, account>>
storeVars == <<post, exists, writes>>
listVars == <<listed, inList>>
editorVars == <<screen, fields, loading>>
historyVars == <<lost, refused, queued, together>>
vars == <<userVars, storeVars, listVars, editorVars, uploads, saves,
          historyVars>>

TypeOK ==
  /\ accounts \subseteq Account
  /\ account \in Account
  /\ post \in Edit
  /\ exists \in BOOLEAN
  /\ writes \in [Account -> Seq(Write)]
  /\ listed \in Content
  /\ inList \in BOOLEAN
  /\ screen \in Screens
  /\ fields \in Content
  /\ loading \in Pictures
  /\ uploads \subseteq Edit
  /\ saves \in Saves
  /\ lost \subseteq Saves
  /\ refused \subseteq Saves
  /\ queued \subseteq Saves \X Account
  /\ together \subseteq Saves \X Saves

Init ==
  /\ accounts = {Owner}
  /\ account = Owner
  /\ post = [save |-> 0, email |-> Owner, content |-> FirstContent]
  /\ exists = TRUE
  /\ writes = [a \in Account |-> <<>>]
  /\ listed = FirstContent
  /\ inList = TRUE
  /\ screen = "list"
  /\ fields = FirstContent
  /\ loading = NoPicture
  /\ uploads = {}
  /\ saves = 0
  /\ lost = {}
  /\ refused = {}
  /\ queued = {}
  /\ together = {}

-----------------------------------------------------------------------------
(* The list.                                                               *)

(* Faulty variant: the asset is shown until the picture is loaded. *)
AssetMeanwhile(picture) == Avatar

(* The asset "avatar", or, for a row with a picture, nothing: kf.setImage  *)
(* without a placeholder takes the asset away until the picture is loaded. *)
ShownAtFirst(picture) == IF picture = NoPicture THEN Avatar ELSE NoPicture

(* viewDidLoad of the editor. *)
OpenEditor ==
  /\ screen = "list"
  /\ inList
  /\ saves < MaxSaves
  /\ screen' = "editor"
  /\ fields' = [text |-> listed.text, picture |-> ShownAtFirst(listed.picture)]
  /\ loading' = listed.picture
  /\ UNCHANGED <<userVars, storeVars, listVars, uploads, saves, historyVars>>

(* The SDK queues a write for the account of Auth. *)
Queue(write) == writes' = [writes EXCEPT ![account] = Append(@, write)]

DeletingPost(a) == \E i \in DOMAIN writes[a] : writes[a][i].op = "delete"

(* deletePost, of which PostFeed has the calls that concern SQLite and the  *)
(* favourites.  Bound: an account queues one delete at a time.              *)
DeletePost ==
  /\ screen = "list"
  /\ inList
  /\ ~DeletingPost(account)
  /\ Queue([op |-> "delete"])
  /\ UNCHANGED <<userVars, post, exists, listVars, editorVars, uploads, saves,
                 historyVars>>

(* The document as a shows it: with a's queued updates, but nobody else's. *)
Overlaid(a) ==
  IF writes[a] = <<>> THEN post ELSE writes[a][Len(writes[a])].edit

(* Is it there, and does it bear a's email? *)
IsMine(a) == exists /\ ~DeletingPost(a) /\ Overlaid(a).email = a

(* A read of the list is answered.  With an own update queued it would end  *)
(* the process.                                                             *)
ListReads ==
  /\ screen \in Alive
  /\ IsMine(account) => writes[account] = <<>>
  /\ inList' = IsMine(account)
  /\ listed' = post.content
  /\ UNCHANGED <<userVars, storeVars, editorVars, uploads, saves, historyVars>>

-----------------------------------------------------------------------------
(* The editor.                                                             *)

(* kf.setImage: whatever the image view shows by now is replaced. *)
PictureLoads ==
  /\ screen = "editor"
  /\ loading # NoPicture
  /\ fields' = [fields EXCEPT !.picture = loading]
  /\ loading' = NoPicture
  /\ UNCHANGED <<userVars, storeVars, listVars, screen, uploads, saves,
                 historyVars>>

PictureFails ==
  /\ StorageMayFail
  /\ screen = "editor"
  /\ loading # NoPicture
  /\ loading' = NoPicture
  /\ UNCHANGED <<userVars, storeVars, listVars, screen, fields, uploads, saves,
                 historyVars>>

TypeText ==
  /\ screen = "editor"
  /\ fields' = [fields EXCEPT !.text = saves + 1]
  /\ UNCHANGED <<userVars, storeVars, listVars, screen, loading, uploads, saves,
                 historyVars>>

(* The picker's answer is shown; a load under way is not cancelled. *)
ChoosePicture ==
  /\ screen = "editor"
  /\ fields' = [fields EXCEPT !.picture = NewPicture(saves + 1)]
  /\ UNCHANGED <<userVars, storeVars, listVars, screen, loading, uploads, saves,
                 historyVars>>

(* Faulty variant: saveBtn remains enabled. *)
DisableForgotten == UNCHANGED screen

(* saveBtn.isEnabled = false, and so chooseBtn. *)
Disable == screen' = "waiting"

(***************************************************************************)
(* saveBtn: the buttons are disabled, the picture that is shown is         *)
(* uploaded.  The post has been made of the fields, and of the email of    *)
(* whoever is signed in, before.                                           *)
(***************************************************************************)
EditNow == [save |-> saves + 1, email |-> account, content |-> fields]

SaveEdit ==
  /\ screen = "editor"
  /\ fields.picture # NoPicture
  /\ saves' = saves + 1
  /\ uploads' = uploads \cup {EditNow}
  /\ together' = together \cup {<<u.save, saves + 1>> : u \in uploads}
  /\ Disable
  /\ UNCHANGED <<userVars, storeVars, listVars, fields, loading, lost, refused,
                 queued>>

(* Back: the editor goes, its upload does not. *)
Leave ==
  /\ screen \in {"editor", "waiting"}
  /\ screen' = "list"
  /\ UNCHANGED <<userVars, storeVars, listVars, fields, loading, uploads, saves,
                 historyVars>>

(* The process ends, and with it every upload. *)
Die(cause) ==
  /\ screen' = cause
  /\ inList' = FALSE
  /\ uploads' = {}
  /\ lost' = lost \cup {u.save : u \in uploads}
  /\ UNCHANGED <<userVars, storeVars, listed, fields, loading, saves, refused,
                 queued, together>>

(* saveBtn: avatarImg.image! is nil. *)
SaveWithoutImage ==
  /\ screen = "editor"
  /\ fields.picture = NoPicture
  /\ Die("nilUnwrap")

Kill ==
  /\ screen \in Alive
  /\ Die("killed")

Restart ==
  /\ screen \notin Alive
  /\ screen' = "list"
  /\ UNCHANGED <<userVars, storeVars, listVars, fields, loading, uploads, saves,
                 historyVars>>

-----------------------------------------------------------------------------
(* Signing in as somebody else, below the list or behind the screen.       *)

(* Back to the sign-in screens, and to a new list, which is empty at first. *)
SignIn(a) ==
  /\ screen = "list"
  /\ a # account
  /\ account' = a
  /\ accounts' = accounts \cup {a}
  /\ inList' = FALSE
  /\ UNCHANGED <<storeVars, listed, editorVars, uploads, saves, historyVars>>

(* The registration screen that asked was left; the screen stays. *)
RegistrationComesLate(a) ==
  /\ screen \in Alive
  /\ a \notin accounts
  /\ account' = a
  /\ accounts' = accounts \cup {a}
  /\ UNCHANGED <<storeVars, listVars, editorVars, uploads, saves, historyVars>>

-----------------------------------------------------------------------------
(* The upload's end.                                                       *)

(* Faulty variant: the closure does not hold its controller. *)
UpdateIfShown(u) ==
  IF screen = "waiting" THEN Queue([op |-> "update", edit |-> u])
  ELSE UNCHANGED writes

(* updateMyPost: the fields of the edit, its email among them. *)
UpdateMyPost(u) == Queue([op |-> "update", edit |-> u])

(* Faulty variant: the editor is not closed. *)
CloseForgotten(u) == UNCHANGED screen

(* popViewController, unless the editor of this save has been left. *)
Close(u) ==
  screen' = IF screen = "waiting" /\ u.save = saves THEN "list" ELSE screen

UploadDone ==
  \E u \in uploads :
    /\ uploads' = uploads \ {u}
    /\ UpdateMyPost(u)
    /\ queued' = queued \cup {<<u.save, account>>}
    /\ Close(u)
    /\ UNCHANGED <<userVars, post, exists, listVars, fields, loading, saves,
                   lost, refused, together>>

(* There is no downloadURL: saveImage returns without calling back. *)
UploadFails ==
  /\ StorageMayFail
  /\ \E u \in uploads :
       /\ uploads' = uploads \ {u}
       /\ lost' = lost \cup {u.save}
  /\ UNCHANGED <<userVars, storeVars, listVars, editorVars, saves, refused,
                 queued, together>>

-----------------------------------------------------------------------------
(* The server, which takes the oldest write of the account signed in.      *)

(* Faulty variant: the document is set, as addFavoritePost does. *)
Upsert(edit) == post' = edit /\ exists' = TRUE

(* updateData changes a document that exists, and fails otherwise. *)
Update(edit) ==
  /\ post' = IF exists THEN edit ELSE post
  /\ UNCHANGED exists

Delete ==
  /\ exists' = FALSE
  /\ UNCHANGED post

ServerTakes(w) ==
  /\ writes[account] # <<>>
  /\ w = Head(writes[account])
  /\ writes' = [writes EXCEPT ![account] = Tail(@)]
  /\ UNCHANGED <<userVars, listVars, editorVars, uploads, saves, lost, queued,
                 together>>

Accept(w) ==
  /\ ServerTakes(w)
  /\ IF w.op = "update" THEN Update(w.edit) ELSE Delete
  /\ UNCHANGED refused

(* The error is only printed, long after the editor has closed. *)
Refuse(w) ==
  /\ RulesMayRefuse
  /\ ServerTakes(w)
  /\ refused' = refused \cup (IF w.op = "update" THEN {w.edit.save} ELSE {})
  /\ UNCHANGED <<post, exists>>

Next ==
  \/ OpenEditor \/ DeletePost \/ ListReads
  \/ PictureLoads \/ PictureFails \/ TypeText \/ ChoosePicture
  \/ SaveEdit \/ SaveWithoutImage \/ Leave \/ Kill \/ Restart
  \/ \E a \in Account : SignIn(a) \/ RegistrationComesLate(a)
  \/ UploadDone \/ UploadFails
  \/ \E w \in Write : Accept(w) \/ Refuse(w)

Spec == Init /\ [][Next]_vars

(***************************************************************************)
(* Firebase Storage ends each upload, with a picture's address or without. *)
(***************************************************************************)
LiveSpec == Spec /\ WF_vars(UploadDone \/ UploadFails)
-----------------------------------------------------------------------------
(* Properties.                                                             *)

(* Neither upload ended before the other began, or no queue holds both. *)
Unordered(m, n) ==
  \/ <<m, n>> \in together
  \/ \E a \in Account : <<m, a>> \in queued /\ <<n, a>> \notin queued

(***************************************************************************)
(* A save is not undone or forgotten: once all is quiet, the document      *)
(* holds the newest save, but for those whose upload was lost or whose     *)
(* update the server refused, and those that had no order with the save it *)
(* holds: both uploads were under way at once, or they ended under         *)
(* different accounts, whose queues wait for each other's sign-ins.        *)
(***************************************************************************)
NewestSaveStands ==
  uploads = {} /\ exists /\ (\A a \in Account : writes[a] = <<>>) =>
    \A n \in (1 .. saves) \ (lost \cup refused) :
      n > post.save => Unordered(post.save, n)

(***************************************************************************)
(* An upload that ends after the post has been deleted does not bring the  *)
(* document back.                                                          *)
(***************************************************************************)
DeletedStaysDeleted == [][~exists => ~exists']_vars

(***************************************************************************)
(* A post that has a picture never gets the asset in its place, however    *)
(* soon after the editor is opened it is saved.                            *)
(***************************************************************************)
PictureKept == HasPicture => post.content.picture # Avatar

(***************************************************************************)
(* saveBtn ends: the editor closes by itself, unless the upload of its     *)
(* picture fails, of which saveImage tells nobody.                         *)
(***************************************************************************)
SaveEnds == screen = "waiting" ~> screen # "waiting" \/ saves \in lost

(* A claim of the code that it does not keep: saveBtn's avatarImg.image!,  *)
(* which says that an editor that can save has an image to upload.         *)
ImagePresent == screen # "nilUnwrap"
=============================================================================
