---------------------------- MODULE EditorProofs ----------------------------
(***************************************************************************)
(* Proofs about PostEditor.  A picture that the post has is kept because,  *)
(* at every place through which pictures travel, there is neither the      *)
(* asset nor, but for the image view and the load, no picture at all:      *)
(* ShownAtFirst takes the asset for a row without a picture.               *)
(***************************************************************************)
EXTENDS PostEditor, TLAPS

(* A picture other than none and the asset. *)
Real(picture) == picture # NoPicture /\ picture # Avatar

PictureInv ==
  /\ screen = "editor" => saves < MaxSaves
  /\ HasPicture =>
       /\ Real(post.content.picture)
       /\ Real(listed.picture)
       /\ \A u \in uploads : Real(u.content.picture)
       /\ \A a \in Account : \A i \in 1 .. Len(writes[a]) :
            writes[a][i].op = "update" =>
              Real(writes[a][i].edit.content.picture)
       /\ fields.picture # Avatar
       /\ loading # Avatar

EditorInv == TypeOK /\ PictureInv

(* What a queued write may hold. *)
Harmless(w) ==
  /\ w \in Write
  /\ HasPicture /\ w.op = "update" => Real(w.edit.content.picture)

QueueOK(q) ==
  /\ q \in Seq(Write)
  /\ HasPicture =>
       \A i \in 1 .. Len(q) :
         q[i].op = "update" => Real(q[i].edit.content.picture)

(* A write that holds no asset may be queued. *)
LEMMA QueueAppended ==
  ASSUME NEW q, QueueOK(q), NEW w, Harmless(w)
  PROVE  QueueOK(Append(q, w))
<1>1. Append(q, w) \in Seq(Write) /\ Len(Append(q, w)) = Len(q) + 1
  BY DEF QueueOK, Harmless
<1>2. ASSUME NEW i \in 1 .. (Len(q) + 1), HasPicture,
             Append(q, w)[i].op = "update"
      PROVE  Real(Append(q, w)[i].edit.content.picture)
  <2>1. CASE i = Len(q) + 1
    <3>1. Append(q, w)[i] = w
      BY <2>1 DEF QueueOK
    <3> QED
      BY <3>1, <1>2 DEF Harmless
  <2>2. CASE i \in 1 .. Len(q)
    <3>1. Append(q, w)[i] = q[i]
      BY <2>2 DEF QueueOK
    <3> QED
      BY <3>1, <2>2, <1>2 DEF QueueOK
  <2> QED
    BY <2>1, <2>2 DEF QueueOK
<1> QED
  BY <1>1, <1>2 DEF QueueOK

(* The queue without its oldest write holds no asset if the queue does not. *)
LEMMA QueueShortened ==
  ASSUME NEW q, QueueOK(q), q # <<>>
  PROVE  QueueOK(Tail(q)) /\ Harmless(Head(q))
<1>1. /\ Tail(q) \in Seq(Write)
      /\ Len(Tail(q)) = Len(q) - 1
      /\ Len(q) >= 1
      /\ \A i \in 1 .. (Len(q) - 1) : Tail(q)[i] = q[i + 1]
  BY DEF QueueOK
<1>2. Head(q) = q[1] /\ Head(q) \in Write
  BY <1>1 DEF QueueOK
<1> QED
  BY <1>1, <1>2 DEF QueueOK, Harmless

(* What the invariant says of the queues, and of nothing else. *)
QueuesOK == writes \in [Account -> Seq(Write)] /\ \A a \in Account : QueueOK(writes[a])

LEMMA QueuesAreOK == EditorInv => QueuesOK
  BY DEF EditorInv, TypeOK, PictureInv, QueuesOK, QueueOK

(* A harmless write is queued for the account that is signed in. *)
LEMMA WriteQueued ==
  ASSUME EditorInv, NEW w, Harmless(w), Queue(w)
  PROVE  QueuesOK'
<1>1. QueuesOK /\ account \in Account /\ QueueOK(writes[account])
  BY QueuesAreOK DEF EditorInv, TypeOK, QueuesOK
<1>2. QueueOK(Append(writes[account], w))
  BY <1>1, QueueAppended
<1>3. writes' = [writes EXCEPT ![account] = Append(writes[account], w)]
  BY DEF Queue
<1>4. Append(writes[account], w) \in Seq(Write)
  BY <1>2 DEF QueueOK
<1>5. \A a \in Account :
        writes'[a] = IF a = account THEN Append(writes[account], w) ELSE writes[a]
  BY <1>1, <1>3 DEF QueuesOK
<1>6. writes' \in [Account -> Seq(Write)]
  BY <1>1, <1>3, <1>4 DEF QueuesOK
<1>7. ASSUME NEW a \in Account PROVE QueueOK(writes'[a])
  BY <1>1, <1>2, <1>5 DEF QueuesOK
<1>8. \A a \in Account : QueueOK(writes[a])'
  BY <1>7 DEF QueueOK, Real
<1> QED
  BY <1>6, <1>8 DEF QueuesOK

(* The oldest write of that account leaves its queue. *)
LEMMA WriteTaken ==
  ASSUME EditorInv, NEW w, ServerTakes(w)
  PROVE  QueuesOK' /\ Harmless(w)
<1>1. QueuesOK /\ account \in Account /\ QueueOK(writes[account])
  BY QueuesAreOK DEF EditorInv, TypeOK, QueuesOK
<1>2. QueueOK(Tail(writes[account])) /\ Harmless(w)
  BY <1>1, QueueShortened DEF ServerTakes
<1>3. writes' = [writes EXCEPT ![account] = Tail(writes[account])]
  BY DEF ServerTakes
<1>4. Tail(writes[account]) \in Seq(Write)
  BY <1>2 DEF QueueOK
<1>5. \A a \in Account :
        writes'[a] = IF a = account THEN Tail(writes[account]) ELSE writes[a]
  BY <1>1, <1>3 DEF QueuesOK
<1>6. writes' \in [Account -> Seq(Write)]
  BY <1>1, <1>3, <1>4 DEF QueuesOK
<1>7. ASSUME NEW a \in Account PROVE QueueOK(writes'[a])
  BY <1>1, <1>2, <1>5 DEF QueuesOK
<1>8. \A a \in Account : QueueOK(writes[a])'
  BY <1>7 DEF QueueOK, Real
<1> QED
  BY <1>2, <1>6, <1>8 DEF QueuesOK

(* At first the post has its picture, and nothing else is anywhere. *)
LEMMA EditorInit == Init => EditorInv
  BY EditorAssumption DEF Init, EditorInv, TypeOK, PictureInv, Real, FirstContent,
     Content, Edit, Saves, Texts, Pictures, Screens, Original, NoPicture, Avatar

(* The list, the editor before saveBtn, and who is signed in. *)
LEMMA EditingSteps ==
  ASSUME EditorInv,
         \/ OpenEditor \/ ListReads \/ PictureLoads \/ PictureFails \/ TypeText
         \/ ChoosePicture \/ Leave \/ Restart
         \/ \E a \in Account : SignIn(a) \/ RegistrationComesLate(a)
  PROVE  EditorInv'
<1> USE EditorAssumption DEF EditorInv, TypeOK, PictureInv, Real, Content, Edit,
        Saves, Texts, Pictures, Screens, Alive, NoPicture, Avatar, Original,
        userVars, storeVars, listVars, editorVars, historyVars
<1>1. CASE OpenEditor
  BY <1>1 DEF OpenEditor, ShownAtFirst
<1>2. CASE ListReads
  <2>1. inList' \in BOOLEAN
    BY <1>2 DEF ListReads, IsMine
  <2> QED
    BY <1>2, <2>1 DEF ListReads
<1>3. CASE PictureLoads
  <2>1. fields' = [fields EXCEPT !.picture = loading] /\ loading' = NoPicture
    BY <1>3 DEF PictureLoads
  <2>2. fields' \in Content /\ fields'.picture = loading
    BY <2>1
  <2>3. UNCHANGED <<userVars, storeVars, listVars, screen, uploads, saves,
                    historyVars>>
    BY <1>3 DEF PictureLoads
  <2>4. loading' \in Pictures /\ loading' # Avatar
    BY <2>1
  <2> QED
    BY <2>2, <2>3, <2>4
<1>4. CASE PictureFails
  BY <1>4 DEF PictureFails
<1>5. CASE TypeText
  <2>1. saves + 1 \in Texts
    BY <1>5 DEF TypeText
  <2>2. fields' = [fields EXCEPT !.text = saves + 1]
    BY <1>5 DEF TypeText
  <2>3. fields' \in Content /\ fields'.picture = fields.picture
    BY <2>1, <2>2
  <2> QED
    BY <1>5, <2>3 DEF TypeText
<1>6. CASE ChoosePicture
  <2>1. saves + 3 \in Pictures /\ saves + 3 # Avatar
    BY <1>6 DEF ChoosePicture
  <2>2. fields' = [fields EXCEPT !.picture = saves + 3]
    BY <1>6, SMTT(30) DEF ChoosePicture, NewPicture
  <2>3. fields' \in Content /\ fields'.picture # Avatar
    BY <2>1, <2>2
  <2> QED
    BY <1>6, <2>3 DEF ChoosePicture
<1>7. CASE Leave
  BY <1>7 DEF Leave
<1>8. CASE Restart
  BY <1>8 DEF Restart
<1>9. CASE \E a \in Account : SignIn(a) \/ RegistrationComesLate(a)
  BY <1>9 DEF SignIn, RegistrationComesLate
<1> QED
  BY <1>1, <1>2, <1>3, <1>4, <1>5, <1>6, <1>7, <1>8, <1>9

(* saveBtn uploads the picture that is shown. *)
LEMMA SaveStep ==
  ASSUME EditorInv, SaveEdit
  PROVE  EditorInv'
<1>1. saves' \in Saves /\ saves + 1 \in Saves
  BY EditorAssumption DEF EditorInv, TypeOK, PictureInv, Saves, SaveEdit
<1>2. uploads' \subseteq Edit
  BY <1>1 DEF EditorInv, TypeOK, Edit, SaveEdit, EditNow
<1>3. together' \subseteq Saves \X Saves
  BY <1>1 DEF EditorInv, TypeOK, Edit, SaveEdit
<1>4. TypeOK'
  BY <1>1, <1>2, <1>3 DEF EditorInv, TypeOK, SaveEdit, Disable, Screens,
     userVars, storeVars, listVars
<1>5. PictureInv'
  BY DEF EditorInv, PictureInv, SaveEdit, EditNow, Disable, Real, storeVars,
     listVars
<1> QED
  BY <1>4, <1>5 DEF EditorInv

(* The process ends: nothing is written, and no upload is left. *)
LEMMA DeathStep ==
  ASSUME EditorInv, NEW cause \in Screens, cause # "editor", Die(cause)
  PROVE  EditorInv'
<1>1. \A u \in uploads : u.save \in Saves
  BY DEF EditorInv, TypeOK, Edit
<1>2. TypeOK'
  BY <1>1 DEF EditorInv, TypeOK, Die, userVars, storeVars
<1>3. PictureInv'
  BY DEF EditorInv, PictureInv, Die, storeVars
<1> QED
  BY <1>2, <1>3 DEF EditorInv

(* What the delete, the upload's end and the server do to queues and document. *)
LEMMA StoreSteps ==
  ASSUME EditorInv,
         \/ DeletePost \/ UploadDone \/ UploadFails
         \/ \E w \in Write : Accept(w) \/ Refuse(w)
  PROVE  EditorInv'
<1>1. CASE DeletePost
  <2>1. Harmless([op |-> "delete"])
    BY DEF Harmless, Write
  <2>2. QueuesOK'
    BY <1>1, <2>1, WriteQueued DEF DeletePost
  <2> QED
    BY <1>1, <2>2 DEF DeletePost, QueuesOK, QueueOK, EditorInv, TypeOK, PictureInv,
       userVars, listVars, editorVars, historyVars
<1>2. CASE UploadDone
  <2>1. PICK u \in uploads :
          /\ uploads' = uploads \ {u}
          /\ UpdateMyPost(u)
          /\ queued' = queued \cup {<<u.save, account>>}
          /\ Close(u)
          /\ UNCHANGED <<userVars, post, exists, listVars, fields, loading,
                         saves, lost, refused, together>>
    BY <1>2 DEF UploadDone
  <2>2. Harmless([op |-> "update", edit |-> u])
    BY DEF Harmless, Write, EditorInv, TypeOK, PictureInv
  <2>3. QueuesOK'
    BY <2>1, <2>2, WriteQueued DEF UpdateMyPost
  <2>4. screen' \in Screens /\ (screen' = "editor" => screen = "editor")
    BY <2>1 DEF Close, EditorInv, TypeOK, Screens
  <2>5. queued' \subseteq Saves \X Account
    BY <2>1 DEF EditorInv, TypeOK, Edit
  <2> QED
    BY <2>1, <2>3, <2>4, <2>5 DEF QueuesOK, QueueOK, EditorInv, TypeOK, PictureInv,
       userVars, listVars
<1>3. CASE UploadFails
  BY <1>3 DEF UploadFails, EditorInv, TypeOK, PictureInv, Edit, userVars,
     storeVars, listVars, editorVars
<1>4. ASSUME NEW w \in Write, Accept(w)
      PROVE  EditorInv'
  <2>1. QueuesOK' /\ Harmless(w) /\ ServerTakes(w)
    BY <1>4, WriteTaken DEF Accept
  <2>2. (w.op = "update" /\ Update(w.edit)) \/ Delete
    BY <1>4 DEF Accept
  <2>3. w.op = "update" => w.edit \in Edit
    BY DEF Write
  <2>4. /\ post' \in Edit
        /\ exists' \in BOOLEAN
        /\ HasPicture => Real(post'.content.picture)
    BY <2>1, <2>2, <2>3 DEF Update, Delete, Harmless, EditorInv, TypeOK, PictureInv
  <2> QED
    BY <1>4, <2>1, <2>4 DEF Accept, ServerTakes, QueuesOK, QueueOK, EditorInv,
       TypeOK, PictureInv, userVars, listVars, editorVars
<1>5. ASSUME NEW w \in Write, Refuse(w)
      PROVE  EditorInv'
  <2>1. QueuesOK' /\ ServerTakes(w) /\ UNCHANGED <<post, exists>>
    BY <1>5, WriteTaken DEF Refuse
  <2>2. refused' \subseteq Saves
    BY <1>5 DEF Refuse, Write, Edit, EditorInv, TypeOK
  <2> QED
    BY <2>1, <2>2 DEF ServerTakes, QueuesOK, QueueOK, EditorInv, TypeOK,
       PictureInv, userVars, listVars, editorVars
<1> QED
  BY <1>1, <1>2, <1>3, <1>4, <1>5

LEMMA EditorStutter ==
  ASSUME EditorInv, UNCHANGED vars
  PROVE  EditorInv'
  BY DEF EditorInv, TypeOK, PictureInv, vars, userVars, storeVars, listVars,
     editorVars, historyVars

(***************************************************************************)
(* The places through which pictures travel hold no asset, for a post with *)
(* a picture.                                                              *)
(***************************************************************************)
THEOREM PicturesTravel == Spec => []EditorInv
<1>1. ASSUME EditorInv, [Next]_vars
      PROVE  EditorInv'
  <2>1. CASE SaveWithoutImage
    BY <1>1, <2>1, DeathStep DEF SaveWithoutImage, Screens
  <2>2. CASE Kill
    BY <1>1, <2>2, DeathStep DEF Kill, Screens
  <2> QED
    BY <1>1, <2>1, <2>2, EditingSteps, SaveStep, StoreSteps, EditorStutter DEF Next
<1> QED
  BY <1>1, EditorInit, PTL DEF Spec

(***************************************************************************)
(* However soon the editor is saved, updateMyPost does not put the asset   *)
(* in the place of the picture the post has.                               *)
(***************************************************************************)
THEOREM PictureIsKept == Spec => []PictureKept
<1>1. EditorInv => PictureKept
  BY DEF EditorInv, PictureInv, PictureKept, Real
<1> QED
  BY <1>1, PicturesTravel, PTL

(* Every variable of the editor keeps its type, for any number of saves. *)
THEOREM EditorTypeCorrect == Spec => []TypeOK
<1>1. EditorInv => TypeOK
  BY DEF EditorInv
<1> QED
  BY <1>1, PicturesTravel, PTL
-----------------------------------------------------------------------------
(* The newest save.                                                        *)

Kept == (1 .. saves) \ (lost \cup refused)

Uploading(n) == \E u \in uploads : u.save = n

(* The update of save n is in a's queue, behind place i. *)
Behind(a, i, n) ==
  \E j \in DOMAIN writes[a] :
    j > i /\ writes[a][j].op = "update" /\ writes[a][j].edit.save = n

(* Saves that began during an upload are known to have met it. *)
MetUploads ==
  \A u \in uploads : \A n \in 1 .. saves :
    n > u.save => <<u.save, n>> \in together

(* Saves have numbers of their own, and are queued when they are uploaded. *)
Numbered ==
  /\ \A u \in uploads : u.save <= saves /\ \A a \in Account : <<u.save, a>> \notin queued
  /\ \A u, v \in uploads : u.save = v.save => u = v
  /\ \A n \in Saves, a \in Account : <<n, a>> \in queued => n <= saves

(* Neither what a queue holds nor the document is older than a save before it. *)
WritesInOrder ==
  \A a \in Account : \A i \in DOMAIN writes[a] :
    writes[a][i].op = "update" =>
      LET m == writes[a][i].edit.save IN
      /\ <<m, a>> \in queued
      /\ \A n \in Kept :
           n > m /\ ~Uploading(n) /\ ~Behind(a, i, n) => Unordered(m, n)

DocumentInOrder ==
  exists =>
    \A n \in Kept :
      n > post.save /\ ~Uploading(n) /\ (\A a \in Account : ~Behind(a, 0, n)) =>
        Unordered(post.save, n)

SavesInv == MetUploads /\ Numbered /\ WritesInOrder /\ DocumentInOrder

(* Steps that touch no upload, no queue and no document. *)
LEMMA SavesUntouched ==
  ASSUME SavesInv, UNCHANGED <<storeVars, uploads, saves, historyVars>>
  PROVE  SavesInv'
<1> USE DEF storeVars, historyVars
<1>1. MetUploads' /\ Numbered'
  BY DEF SavesInv, MetUploads, Numbered
<1>2. WritesInOrder'
  BY DEF SavesInv, WritesInOrder, Kept, Uploading, Behind, Unordered
<1>3. DocumentInOrder'
  BY DEF SavesInv, DocumentInOrder, Kept, Uploading, Behind, Unordered
<1> QED
  BY <1>1, <1>2, <1>3 DEF SavesInv

(***************************************************************************)
(* Where queues and document stay, they stay in order if no kept save that *)
(* is not being uploaded is new, and nothing that was known is forgotten.  *)
(***************************************************************************)
LEMMA OrderStays ==
  ASSUME WritesInOrder, DocumentInOrder, UNCHANGED <<storeVars, queued>>,
         together \subseteq together',
         \A n \in Kept' : ~Uploading(n)' => n \in Kept /\ ~Uploading(n)
  PROVE  WritesInOrder' /\ DocumentInOrder'
<1>1. /\ \A m, n : Unordered(m, n) => Unordered(m, n)'
      /\ \A a \in Account : \A k, n : Behind(a, k, n) <=> Behind(a, k, n)'
  BY DEF Unordered, Behind, storeVars
<1>2. WritesInOrder'
  <2> SUFFICES ASSUME NEW a \in Account, NEW i \in DOMAIN writes[a],
                      writes[a][i].op = "update",
                      NEW m, m = writes[a][i].edit.save
               PROVE  /\ <<m, a>> \in queued
                      /\ \A n \in Kept' :
                           n > m /\ ~Uploading(n)' /\ ~Behind(a, i, n)' =>
                           Unordered(m, n)'
    BY DEF WritesInOrder, storeVars
  <2> QED
    BY <1>1 DEF WritesInOrder
<1>3. DocumentInOrder'
  BY <1>1 DEF DocumentInOrder, storeVars
<1> QED
  BY <1>2, <1>3

(* A new save meets the uploads under way, and is one itself. *)
LEMMA SavesBegin ==
  ASSUME EditorInv, SavesInv, SaveEdit
  PROVE  SavesInv'
<1>1. /\ saves \in Nat /\ saves' = saves + 1
      /\ UNCHANGED <<storeVars, lost, refused, queued>>
      /\ uploads' = uploads \cup {EditNow}
      /\ EditNow.save = saves + 1
      /\ together' = together \cup {<<u.save, saves + 1>> : u \in uploads}
      /\ \A u \in uploads : u.save \in Nat
      /\ queued \subseteq Saves \X Account
      /\ saves + 1 \in Saves /\ Saves \subseteq Nat
  BY EditorAssumption DEF SaveEdit, EditNow, EditorInv, TypeOK, PictureInv, Saves,
     Edit, storeVars
<1>2. MetUploads'
  <2> SUFFICES ASSUME NEW u \in uploads', NEW n \in 1 .. saves + 1, n > u.save
               PROVE  <<u.save, n>> \in together'
    BY <1>1 DEF MetUploads
  <2>1. CASE u \in uploads /\ n = saves + 1
    BY <1>1, <2>1
  <2>2. CASE u \in uploads /\ n \in 1 .. saves
    BY <1>1, <2>2 DEF SavesInv, MetUploads
  <2>3. CASE u = EditNow
    BY <1>1, <2>3
  <2> QED
    BY <1>1, <2>1, <2>2, <2>3
<1>3. Numbered'
  <2>1. \A a \in Account : <<saves + 1, a>> \notin queued
    BY <1>1 DEF SavesInv, Numbered
  <2>2. \A u \in uploads : u.save <= saves
    BY DEF SavesInv, Numbered
  <2>3. \A u \in uploads' :
          u.save <= saves' /\ \A a \in Account : <<u.save, a>> \notin queued
    BY <1>1, <2>1, <2>2 DEF SavesInv, Numbered
  <2>4. \A u, v \in uploads' : u.save = v.save => u = v
    BY <1>1, <2>2 DEF SavesInv, Numbered
  <2>5. \A n \in Saves, a \in Account : <<n, a>> \in queued => n <= saves'
    BY <1>1 DEF SavesInv, Numbered
  <2> QED
    BY <1>1, <2>3, <2>4, <2>5 DEF Numbered
<1>4. ASSUME NEW n \in Kept', ~Uploading(n)'
      PROVE  n \in Kept /\ ~Uploading(n)
  <2>1. n # saves + 1 /\ ~Uploading(n)
    BY <1>1, <1>4 DEF Uploading
  <2>2. n \in (1 .. saves + 1) \ (lost \cup refused)
    BY <1>1, <1>4 DEF Kept
  <2> QED
    BY <1>1, <2>1, <2>2 DEF Kept
<1>5. WritesInOrder' /\ DocumentInOrder'
  BY <1>1, <1>4, OrderStays DEF SavesInv
<1> QED
  BY <1>2, <1>3, <1>5 DEF SavesInv

(* An upload that ends without a write is one that is lost. *)
LEMMA SavesLost ==
  ASSUME SavesInv, UNCHANGED <<storeVars, saves, refused, queued, together>>,
         uploads' \subseteq uploads, lost \subseteq lost',
         \A u \in uploads \ uploads' : u.save \in lost'
  PROVE  SavesInv'
<1>1. MetUploads' /\ Numbered'
  BY DEF SavesInv, MetUploads, Numbered
<1>2. \A n \in Kept' : ~Uploading(n)' => n \in Kept /\ ~Uploading(n)
  BY DEF Kept, Uploading
<1>3. WritesInOrder' /\ DocumentInOrder'
  BY <1>2, OrderStays DEF SavesInv
<1> QED
  BY <1>1, <1>3 DEF SavesInv

(***************************************************************************)
(* The update of an upload that ends goes behind all others of its queue,  *)
(* and every later save met it.                                            *)
(***************************************************************************)
LEMMA SavesQueued ==
  ASSUME EditorInv, SavesInv, UploadDone
  PROVE  SavesInv'
<1>1. PICK u \in uploads :
        /\ uploads' = uploads \ {u}
        /\ writes' = [writes EXCEPT ![account] =
                        Append(@, [op |-> "update", edit |-> u])]
        /\ queued' = queued \cup {<<u.save, account>>}
        /\ UNCHANGED <<account, post, exists, saves, lost, refused, together>>
  BY DEF UploadDone, UpdateMyPost, Queue, userVars
<1> DEFINE w == [op |-> "update", edit |-> u]
           q == writes[account]
<1>2. /\ writes \in [Account -> Seq(Write)] /\ account \in Account
      /\ q \in Seq(Write) /\ w \in Write
      /\ u.save \in Nat /\ saves \in Nat /\ Saves \subseteq Nat
      /\ queued \subseteq Saves \X Account
  BY DEF EditorInv, TypeOK, Write, Edit, Saves
<1>3. /\ writes'[account] = Append(q, w)
      /\ \A a \in Account \ {account} : writes'[a] = writes[a]
  BY <1>1, <1>2
<1>4. /\ Len(q) \in Nat /\ DOMAIN q = 1 .. Len(q)
      /\ DOMAIN Append(q, w) = 1 .. (Len(q) + 1)
      /\ \A i \in 1 .. Len(q) : Append(q, w)[i] = q[i]
      /\ Append(q, w)[Len(q) + 1] = w
      /\ w.op = "update" /\ w.edit = u
  BY <1>2
<1>5. MetUploads'
  BY <1>1 DEF SavesInv, MetUploads
<1>6. Numbered'
  <2>1. \A v \in uploads' : v.save # u.save
    BY <1>1 DEF SavesInv, Numbered
  <2>2. \A v \in uploads' :
          v.save <= saves' /\ \A a \in Account : <<v.save, a>> \notin queued'
    BY <1>1, <2>1 DEF SavesInv, Numbered
  <2>3. \A n \in Saves, a \in Account : <<n, a>> \in queued' => n <= saves'
    BY <1>1 DEF SavesInv, Numbered
  <2> QED
    BY <1>1, <2>2, <2>3 DEF SavesInv, Numbered
<1>7. Kept' = Kept
  BY <1>1 DEF Kept
<1>8. \A n : n # u.save => (Uploading(n)' <=> Uploading(n))
  BY <1>1 DEF Uploading
<1>9. \A m, n : n # u.save /\ Unordered(m, n) => Unordered(m, n)'
  BY <1>1 DEF Unordered
<1>10. \A a \in Account : \A k, n : Behind(a, k, n) => Behind(a, k, n)'
  <2> SUFFICES ASSUME NEW a \in Account, NEW k, NEW n,
                      NEW j \in DOMAIN writes[a], j > k,
                      writes[a][j].op = "update", writes[a][j].edit.save = n
               PROVE  j \in DOMAIN writes'[a] /\ writes'[a][j] = writes[a][j]
    BY DEF Behind
  <2> QED
    BY <1>3, <1>4
<1>11. \A k \in 0 .. Len(q) : Behind(account, k, u.save)'
  BY <1>3, <1>4, <1>1 DEF Behind
<1>12. WritesInOrder'
  <2> SUFFICES ASSUME NEW a \in Account, NEW i \in DOMAIN writes'[a],
                      writes'[a][i].op = "update",
                      NEW m, m = writes'[a][i].edit.save
               PROVE  /\ <<m, a>> \in queued'
                      /\ \A n \in Kept' :
                           n > m /\ ~Uploading(n)' /\ ~Behind(a, i, n)' =>
                           Unordered(m, n)'
    BY DEF WritesInOrder
  <2>1. CASE a = account /\ i = Len(q) + 1
    <3>1. m = u.save
      BY <1>3, <1>4, <2>1
    <3> QED
      BY <1>1, <1>7, <2>1, <3>1 DEF SavesInv, MetUploads, Kept, Unordered
  <2>2. CASE ~(a = account /\ i = Len(q) + 1)
    <3>1. i \in DOMAIN writes[a] /\ writes[a][i] = writes'[a][i]
      BY <1>3, <1>4, <2>2
    <3>2. <<m, a>> \in queued
      BY <3>1 DEF SavesInv, WritesInOrder
    <3> SUFFICES ASSUME NEW n \in Kept, n > m, ~Uploading(n)', ~Behind(a, i, n)'
                 PROVE  Unordered(m, n)'
      BY <1>1, <1>7, <3>2
    <3>3. CASE n # u.save
      BY <1>8, <1>9, <1>10, <3>1, <3>3 DEF SavesInv, WritesInOrder
    <3>4. CASE n = u.save
      <4>1. a # account
        <5>1. a = account => i \in 0 .. Len(q)
          BY <1>4, <3>1
        <5> QED
          BY <1>1, <1>11, <3>4, <5>1
      <4>2. <<n, a>> \notin queued
        BY <3>4 DEF SavesInv, Numbered
      <4> QED
        BY <1>1, <3>2, <3>4, <4>1, <4>2 DEF Unordered
    <3> QED
      BY <3>3, <3>4
  <2> QED
    BY <2>1, <2>2
<1>13. DocumentInOrder'
  <2> SUFFICES ASSUME exists, NEW n \in Kept, n > post.save, ~Uploading(n)',
                      \A a \in Account : ~Behind(a, 0, n)'
               PROVE  Unordered(post.save, n)'
    BY <1>1, <1>7 DEF DocumentInOrder
  <2>1. n # u.save
    BY <1>1, <1>2, <1>4, <1>11
  <2> QED
    BY <1>1, <1>8, <1>9, <1>10, <2>1 DEF SavesInv, DocumentInOrder
<1> QED
  BY <1>5, <1>6, <1>12, <1>13 DEF SavesInv

(***************************************************************************)
(* When the server has taken a's oldest write, the others have moved up by *)
(* one place, and it is the only one that is not queued any more.          *)
(***************************************************************************)
LEMMA PlacesMove ==
  ASSUME EditorInv, NEW w, ServerTakes(w)
  PROVE  /\ account' = account
         /\ w = writes[account][1] /\ 1 \in DOMAIN writes[account]
         /\ \A i \in DOMAIN writes'[account] :
              /\ i + 1 \in DOMAIN writes[account]
              /\ writes'[account][i] = writes[account][i + 1]
              /\ \A n : Behind(account, i + 1, n) => Behind(account, i, n)'
         /\ \A n : Behind(account, 1, n) => Behind(account, 0, n)'
         /\ \A a \in Account \ {account} :
              writes'[a] = writes[a] /\ \A i, n : Behind(a, i, n) => Behind(a, i, n)'
<1> DEFINE q == writes[account]
<1>1. /\ writes \in [Account -> Seq(Write)] /\ account \in Account
      /\ q \in Seq(Write) /\ q # <<>> /\ w = Head(q)
      /\ writes' = [writes EXCEPT ![account] = Tail(q)]
      /\ account' = account
  BY DEF ServerTakes, EditorInv, TypeOK, userVars
<1>2. /\ Len(q) \in Nat /\ Len(q) >= 1 /\ DOMAIN q = 1 .. Len(q)
      /\ DOMAIN Tail(q) = 1 .. (Len(q) - 1)
      /\ \A i \in 1 .. (Len(q) - 1) : Tail(q)[i] = q[i + 1]
      /\ Head(q) = q[1]
  BY <1>1
<1>3. /\ writes'[account] = Tail(q)
      /\ \A a \in Account \ {account} : writes'[a] = writes[a]
  BY <1>1
<1>4. ASSUME NEW k \in Nat, NEW n, Behind(account, k + 1, n)
      PROVE  Behind(account, k, n)'
  <2>1. PICK j \in 1 .. Len(q) :
          j > k + 1 /\ q[j].op = "update" /\ q[j].edit.save = n
    BY <1>2, <1>4 DEF Behind
  <2>2. j - 1 \in 1 .. (Len(q) - 1) /\ j - 1 > k
    BY <1>2, <2>1
  <2>3. Tail(q)[j - 1] = q[j]
    BY <1>2, <2>2
  <2>4. /\ j - 1 \in DOMAIN writes'[account]
        /\ writes'[account][j - 1].op = "update"
        /\ writes'[account][j - 1].edit.save = n
    BY <1>2, <1>3, <2>1, <2>2, <2>3
  <2> QED
    BY <1>1, <2>2, <2>4 DEF Behind
<1>5. \A n : Behind(account, 1, n) => Behind(account, 0, n)'
  <2>1. 0 \in Nat /\ 0 + 1 = 1
    OBVIOUS
  <2> QED
    BY <1>4, <2>1
<1>6. \A a \in Account \ {account} : \A i, n : Behind(a, i, n) => Behind(a, i, n)'
  BY <1>3 DEF Behind
<1>7. \A i \in DOMAIN writes'[account] :
        /\ i \in Nat
        /\ i + 1 \in DOMAIN writes[account]
        /\ writes'[account][i] = writes[account][i + 1]
  BY <1>2, <1>3
<1> QED
  BY <1>1, <1>2, <1>3, <1>4, <1>5, <1>6, <1>7

(* The queues stay in order when the server takes a write. *)
LEMMA WritesMove ==
  ASSUME EditorInv, SavesInv, NEW w, ServerTakes(w), refused \subseteq refused'
  PROVE  MetUploads' /\ Numbered' /\ WritesInOrder'
<1>1. /\ UNCHANGED <<account, uploads, saves, lost, queued, together>>
      /\ account \in Account
  BY DEF ServerTakes, userVars, editorVars, listVars, EditorInv, TypeOK
<1>2. MetUploads' /\ Numbered'
  BY <1>1 DEF SavesInv, MetUploads, Numbered
<1>3. /\ Kept' \subseteq Kept
      /\ \A n : Uploading(n)' <=> Uploading(n)
      /\ \A m, n : Unordered(m, n)' <=> Unordered(m, n)
  BY <1>1 DEF Kept, Uploading, Unordered
<1>4. WritesInOrder'
  <2> SUFFICES ASSUME NEW a \in Account, NEW i \in DOMAIN writes'[a],
                      writes'[a][i].op = "update",
                      NEW m, m = writes'[a][i].edit.save
               PROVE  /\ <<m, a>> \in queued
                      /\ \A n \in Kept :
                           n > m /\ ~Uploading(n) /\ ~Behind(a, i, n)' =>
                           Unordered(m, n)
    BY <1>1, <1>3 DEF WritesInOrder
  <2>1. CASE a = account
    BY <2>1, PlacesMove DEF SavesInv, WritesInOrder
  <2>2. CASE a # account
    BY <2>2, PlacesMove DEF SavesInv, WritesInOrder
  <2> QED
    BY <2>1, <2>2
<1> QED
  BY <1>2, <1>4

(* An accepted update makes its save the document's, as old as it was queued. *)
LEMMA SavesAccepted ==
  ASSUME EditorInv, SavesInv, NEW w \in Write, Accept(w)
  PROVE  SavesInv'
<1>1. /\ ServerTakes(w) /\ refused' = refused
      /\ UNCHANGED <<account, uploads, saves, lost, queued, together>>
      /\ account \in Account
  BY DEF Accept, ServerTakes, userVars, listVars, editorVars, EditorInv, TypeOK
<1>2. MetUploads' /\ Numbered' /\ WritesInOrder'
  BY <1>1, WritesMove
<1>3. DocumentInOrder'
  <2> SUFFICES ASSUME exists', NEW n \in Kept, n > post'.save, ~Uploading(n),
                      \A a \in Account : ~Behind(a, 0, n)'
               PROVE  Unordered(post'.save, n)
    BY <1>1 DEF DocumentInOrder, Kept, Uploading, Unordered
  <2>1. w.op = "update" /\ post' = w.edit
    BY DEF Accept, Update, Delete
  <2>2. w = writes[account][1] /\ 1 \in DOMAIN writes[account]
        /\ ~Behind(account, 1, n)
    BY <1>1, PlacesMove
  <2> QED
    BY <1>1, <2>1, <2>2 DEF SavesInv, WritesInOrder
<1> QED
  BY <1>2, <1>3 DEF SavesInv

(* A refused update is one of the saves the document may lack. *)
LEMMA SavesRefused ==
  ASSUME EditorInv, SavesInv, NEW w \in Write, Refuse(w)
  PROVE  SavesInv'
<1>1. /\ ServerTakes(w) /\ refused \subseteq refused'
      /\ w.op = "update" => w.edit.save \in refused'
      /\ UNCHANGED <<account, post, exists, uploads, saves, lost, queued, together>>
      /\ account \in Account
  BY DEF Refuse, ServerTakes, userVars, listVars, editorVars, EditorInv, TypeOK
<1>2. MetUploads' /\ Numbered' /\ WritesInOrder'
  BY <1>1, WritesMove
<1>3. DocumentInOrder'
  <2> SUFFICES ASSUME exists, NEW n \in Kept', n > post.save, ~Uploading(n),
                      \A a \in Account : ~Behind(a, 0, n)'
               PROVE  Unordered(post.save, n)
    BY <1>1 DEF DocumentInOrder, Uploading, Unordered
  <2>1. n \in Kept /\ n \notin refused'
    BY <1>1 DEF Kept
  <2>2. w = writes[account][1] /\ ~Behind(account, 1, n)
    BY <1>1, PlacesMove
  <2>3. ~Behind(account, 0, n)
    <3> SUFFICES ASSUME NEW j \in DOMAIN writes[account], j > 0,
                        writes[account][j].op = "update",
                        writes[account][j].edit.save = n
                 PROVE  FALSE
      BY DEF Behind
    <3>1. j # 1
      BY <1>1, <2>1, <2>2
    <3>2. j \in Nat
      BY <1>1 DEF EditorInv, TypeOK
    <3> QED
      BY <2>2, <3>1, <3>2 DEF Behind
  <2>4. \A a \in Account : ~Behind(a, 0, n)
    BY <1>1, <2>3, PlacesMove
  <2> QED
    BY <2>1, <2>4 DEF SavesInv, DocumentInOrder
<1> QED
  BY <1>2, <1>3 DEF SavesInv

(* A delete goes behind the updates of its queue, and is none of them. *)
LEMMA SavesDeleted ==
  ASSUME EditorInv, SavesInv, DeletePost
  PROVE  SavesInv'
<1> DEFINE d == [op |-> "delete"]
           q == writes[account]
<1>1. /\ writes \in [Account -> Seq(Write)] /\ account \in Account
      /\ q \in Seq(Write) /\ d \in Write /\ d.op # "update"
      /\ writes' = [writes EXCEPT ![account] = Append(q, d)]
      /\ UNCHANGED <<post, exists, uploads, saves, lost, refused, queued, together>>
  BY DEF DeletePost, Queue, EditorInv, TypeOK, Write, historyVars
<1>2. /\ Len(q) \in Nat /\ DOMAIN q = 1 .. Len(q)
      /\ DOMAIN Append(q, d) = 1 .. (Len(q) + 1)
      /\ \A i \in 1 .. Len(q) : Append(q, d)[i] = q[i]
      /\ Append(q, d)[Len(q) + 1] = d
  BY <1>1
<1>3. /\ writes'[account] = Append(q, d)
      /\ \A a \in Account \ {account} : writes'[a] = writes[a]
  BY <1>1
<1>4. \A a \in Account : \A i \in DOMAIN writes'[a] :
        writes'[a][i].op = "update" =>
          i \in DOMAIN writes[a] /\ writes'[a][i] = writes[a][i]
  BY <1>1, <1>2, <1>3
<1>5. \A a \in Account : \A i \in DOMAIN writes[a] :
        i \in DOMAIN writes'[a] /\ writes'[a][i] = writes[a][i]
  BY <1>2, <1>3
<1>6. \A a \in Account : \A i, n : Behind(a, i, n) => Behind(a, i, n)'
  BY <1>5 DEF Behind
<1>7. MetUploads' /\ Numbered'
  BY <1>1 DEF SavesInv, MetUploads, Numbered
<1>8. /\ Kept' = Kept
      /\ \A n : Uploading(n)' <=> Uploading(n)
      /\ \A m, n : Unordered(m, n)' <=> Unordered(m, n)
  BY <1>1 DEF Kept, Uploading, Unordered
<1>9. WritesInOrder'
  <2> SUFFICES ASSUME NEW a \in Account, NEW i \in DOMAIN writes'[a],
                      writes'[a][i].op = "update",
                      NEW m, m = writes'[a][i].edit.save
               PROVE  /\ <<m, a>> \in queued
                      /\ \A n \in Kept :
                           n > m /\ ~Uploading(n) /\ ~Behind(a, i, n)' =>
                           Unordered(m, n)
    BY <1>1, <1>8 DEF WritesInOrder
  <2> QED
    BY <1>4, <1>6 DEF SavesInv, WritesInOrder
<1>10. DocumentInOrder'
  BY <1>1, <1>6, <1>8 DEF SavesInv, DocumentInOrder
<1> QED
  BY <1>7, <1>9, <1>10 DEF SavesInv

(***************************************************************************)
(* For any number of saves and accounts, of uploads that overlap, fail or  *)
(* die with the process, and of refused writes: when all has ended, no     *)
(* save is newer than the one the document holds, but for lost and refused *)
(* ones and those that had no order with it.                               *)
(***************************************************************************)
THEOREM NewestSaveIsKept == Spec => []NewestSaveStands
<1>1. Init => SavesInv
  BY DEF Init, SavesInv, MetUploads, Numbered, WritesInOrder, DocumentInOrder, Kept
<1>2. ASSUME EditorInv, SavesInv, [Next]_vars
      PROVE  SavesInv'
  <2>1. CASE \/ OpenEditor \/ ListReads \/ PictureLoads \/ PictureFails
             \/ TypeText \/ ChoosePicture \/ Leave \/ Restart
             \/ \E a \in Account : SignIn(a) \/ RegistrationComesLate(a)
             \/ UNCHANGED vars
    <3>1. UNCHANGED <<storeVars, uploads, saves, historyVars>>
      BY <2>1 DEF OpenEditor, ListReads, PictureLoads, PictureFails, TypeText,
         ChoosePicture, Leave, Restart, SignIn, RegistrationComesLate, vars
    <3> QED
      BY <1>2, <3>1, SavesUntouched
  <2>2. CASE SaveWithoutImage \/ Kill \/ UploadFails
    <3>1. /\ UNCHANGED <<storeVars, saves, refused, queued, together>>
          /\ uploads' \subseteq uploads /\ lost \subseteq lost'
          /\ \A u \in uploads \ uploads' : u.save \in lost'
      BY <2>2 DEF SaveWithoutImage, Kill, Die, UploadFails
    <3> QED
      BY <1>2, <3>1, SavesLost
  <2> QED
    BY <1>2, <2>1, <2>2, SavesBegin, SavesQueued, SavesAccepted, SavesRefused,
       SavesDeleted DEF Next
<1>3. SavesInv => NewestSaveStands
  <2> SUFFICES ASSUME SavesInv, uploads = {}, exists,
                      \A a \in Account : writes[a] = <<>>,
                      NEW n \in Kept, n > post.save
               PROVE  Unordered(post.save, n)
    BY DEF NewestSaveStands, Kept
  <2>1. ~Uploading(n) /\ \A a \in Account : ~Behind(a, 0, n)
    BY DEF Uploading, Behind
  <2> QED
    BY <2>1 DEF SavesInv, DocumentInOrder
<1> QED
  BY <1>1, <1>2, <1>3, PicturesTravel, PTL DEF Spec

(* No upload that ends late, and no other step, brings a deleted post back. *)
THEOREM DeletedPostStays == Spec => DeletedStaysDeleted
<1>1. ASSUME [Next]_vars
      PROVE  [~exists => ~exists']_vars
  BY <1>1 DEF Next, vars, storeVars, OpenEditor, DeletePost, ListReads,
     PictureLoads, PictureFails, TypeText, ChoosePicture, SaveEdit, Leave, Restart,
     SaveWithoutImage, Kill, Die, UploadDone, UploadFails, SignIn,
     RegistrationComesLate, Accept, Refuse, Update, Delete
<1> QED
  BY <1>1, PTL DEF Spec, DeletedStaysDeleted
=============================================================================
