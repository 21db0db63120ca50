---------------------------- MODULE NewPostProofs ----------------------------
(***************************************************************************)
(* Proofs about NewPost.  Authors: an upload that is not excused belongs   *)
(* to the screen that still waits for it, on the home screen of its        *)
(* author.  Places: a draft is posted from one form only, and every step   *)
(* moves it from one place to the next.                                    *)
(***************************************************************************)
EXTENDS NewPost, SessionProofs

(* Posts whose author may have changed during the upload. *)
Changed == left \cup outdated

(* The types of what is not the session's. *)
DraftsTypeOK ==
  /\ drafts \in 0 .. MaxDrafts
  /\ screen \in {"none", "form", "waiting"}
  /\ selectedImage \in BOOLEAN
  /\ uploads \subseteq DraftPost
  /\ queue \in [Account -> Seq(DraftPost)]
  /\ documents \in Seq([draft : Draft, email : Someone, by : Account])
  /\ posted \subseteq Draft
  /\ left \subseteq posted
  /\ outdated \subseteq posted

(* The screen stands on the home screen. *)
ScreenInv == screen # "none" => drafts > 0 /\ At("home")

(* The screen that waits, waits for an upload of the account at home. *)
UploadsInv ==
  \A u \in uploads :
    /\ u.draft \in posted
    /\ u.draft \in Changed \/ (screen = "waiting" /\ u = NewPostNow)

DraftsInv == Seated /\ DraftsTypeOK /\ ScreenInv /\ UploadsInv

(* What may be in the queue of account a, and among the documents. *)
OwnPosts(a) ==
  {post \in DraftPost : /\ post.draft \in posted
                        /\ post.email = a \/ post.draft \in Changed}

Written ==
  {d \in [draft : Draft, email : Someone, by : Account] :
     d.email = d.by \/ d.draft \in Changed}

(* What was lost had been posted, and posts stay with their authors. *)
AuthorsInv ==
  /\ lost \subseteq posted
  /\ \A a \in Account : queue[a] \in Seq(OwnPosts(a))
  /\ documents \in Seq(Written)

-----------------------------------------------------------------------------
(* The session under the screen.                                           *)

LEMMA StepsOfSession == [Next]_vars => SessionSteps
  BY DEF Next, SessionSteps, vars, OpenNewPost, ChoosePicture, PostWithPicture,
     PostWithoutPicture, LeaveForm, UploadDone, UploadFails, UserMoves, AuthAnswers,
     Restart, Accept, Refuse, ServerTakes

LEMMA SessionStays ==
  ASSUME Seated, SessionSteps
  PROVE  Seated'
  <1>1. CASE UNCHANGED sessionVars
    BY <1>1, SameSession DEF Seated, SessionKept
  <1>2. CASE RestartSession
    BY <1>2, RestartKeepsSession, SessionAssumption DEF Seated, SessionKept
  <1>3. CASE OpenRegister \/ Back \/ \E s \in SignInScreens, a \in Account : SignIn(s, a)
    BY <1>3, MovesKeepSession, SessionAssumption DEF Seated, SessionKept
  <1>4. CASE \E s \in SignInScreens :
               SignInFails(s) \/ SignInComesLate(s) \/ SignInOpensHome(s)
    BY <1>4, AuthKeepsSession, SessionAssumption DEF Seated, SessionKept
  <1> QED BY <1>1, <1>2, <1>3, <1>4 DEF SessionSteps

-----------------------------------------------------------------------------
(* Drafts.                                                                 *)

LEMMA NewPostTyped ==
  ASSUME DraftsInv, screen # "none"
  PROVE  /\ NewPostNow \in DraftPost /\ NewPostNow.draft = drafts
         /\ NewPostNow.email = user /\ user \in Account /\ drafts \in Draft
  <1>1. At("home") /\ drafts \in Draft
    BY NewPostAssumption DEF DraftsInv, ScreenInv, DraftsTypeOK, Draft, NewPostAssumption
  <1>2. userEmail \in Account /\ user = userEmail
    BY <1>1, AtHome DEF DraftsInv, Seated
  <1> QED BY <1>1, <1>2 DEF NewPostNow, DraftPost, Someone

(* What the screen and the uploads do below a session that stays. *)
LEMMA ScreenKeeps ==
  ASSUME DraftsInv, UNCHANGED sessionVars
  PROVE  /\ OpenNewPost \/ ChoosePicture => DraftsInv'
         /\ PostWithPicture \/ PostWithoutPicture => DraftsInv'
         /\ LeaveForm => DraftsInv'
  <1> USE DEF DraftsInv
  <1>0. Seated' /\ path' = path /\ userEmail' = userEmail
    BY SessionStays DEF SessionSteps, sessionVars
  <1>1. At("home")' <=> At("home")
    BY <1>0 DEF At
  <1>2. ASSUME OpenNewPost PROVE DraftsInv'
    <2>0. drafts' \in 0 .. MaxDrafts /\ drafts' > 0 /\ screen' = "form"
      BY <1>2, NewPostAssumption DEF NewPostAssumption, DraftsTypeOK, OpenNewPost
    <2>1. DraftsTypeOK'
      BY <1>2, <2>0 DEF DraftsTypeOK, OpenNewPost, storeVars, historyVars
    <2>3. ScreenInv'
      BY <1>1, <1>2, <2>0 DEF ScreenInv, OpenNewPost
    <2>2. UploadsInv'
      BY <1>2 DEF UploadsInv, OpenNewPost, Changed, historyVars
    <2> QED BY <1>0, <2>1, <2>2, <2>3
  <1>3. ASSUME ChoosePicture PROVE DraftsInv'
    <2>1. DraftsTypeOK' /\ ScreenInv'
      BY <1>1, <1>3 DEF DraftsTypeOK, ScreenInv, ChoosePicture, storeVars, historyVars
    <2>2. UploadsInv'
      BY <1>0, <1>3 DEF UploadsInv, ChoosePicture, Changed, historyVars, NewPostNow
    <2> QED BY <1>0, <2>1, <2>2
  <1>4. ASSUME PostWithPicture PROVE DraftsInv'
    <2>0. NewPostNow \in DraftPost /\ drafts \in Draft /\ NewPostNow.draft = drafts
          /\ NewPostNow' = NewPostNow
      BY <1>0, <1>4, NewPostTyped DEF PostWithPicture, NewPostNow
    <2>1. DraftsTypeOK' /\ ScreenInv'
      BY <1>1, <1>4, <2>0
         DEF DraftsTypeOK, ScreenInv, PostWithPicture, Disable, storeVars
    <2>2. UploadsInv'
      BY <1>4, <2>0 DEF UploadsInv, PostWithPicture, Disable, Changed
    <2> QED BY <1>0, <2>1, <2>2
  <1>5. ASSUME PostWithoutPicture PROVE DraftsInv'
    <2>0. NewPostNow \in DraftPost /\ drafts \in Draft /\ user \in Account
      BY <1>5, NewPostTyped DEF PostWithoutPicture
    <2>1. queue' \in [Account -> Seq(DraftPost)]
      <3>1. queue[user] \in Seq(DraftPost)
        BY <2>0 DEF DraftsTypeOK
      <3>2. Append(queue[user], NewPostNow) \in Seq(DraftPost)
        BY <2>0, <3>1, AppendProperties
      <3> QED BY <1>5, <2>0, <3>2 DEF DraftsTypeOK, PostWithoutPicture, AddPost
    <2>2. DraftsTypeOK' /\ ScreenInv'
      BY <1>5, <2>0, <2>1 DEF DraftsTypeOK, ScreenInv, PostWithoutPicture
    <2>3. UploadsInv'
      BY <1>5 DEF UploadsInv, PostWithoutPicture, Changed
    <2> QED BY <1>0, <2>2, <2>3
  <1>6. ASSUME LeaveForm PROVE DraftsInv'
    <2>0. {drafts} \cap Uploading \subseteq posted
      BY DEF UploadsInv, Uploading
    <2>1. DraftsTypeOK' /\ ScreenInv'
      BY <1>6, <2>0 DEF DraftsTypeOK, ScreenInv, LeaveForm, storeVars
    <2>2. ASSUME NEW u \in uploads PROVE u.draft \in posted /\ u.draft \in Changed'
      <3>1. u.draft \in Changed => u.draft \in Changed'
        BY <1>6 DEF LeaveForm, Changed
      <3>2. ASSUME u = NewPostNow PROVE u.draft \in Changed'
        BY <1>6, <3>2 DEF LeaveForm, Changed, NewPostNow, Uploading
      <3> QED BY <3>1, <3>2 DEF UploadsInv
    <2>3. UploadsInv'
      BY <1>6, <2>2 DEF UploadsInv, LeaveForm
    <2> QED BY <1>0, <2>1, <2>3
  <1> QED BY <1>2, <1>3, <1>4, <1>5, <1>6

(* The upload of a post without an excuse ends for its own waiting screen. *)
LEMMA UploadIsOwn ==
  ASSUME DraftsInv, NEW post \in uploads
  PROVE  /\ post \in DraftPost /\ post.draft \in posted
         /\ post.email = user \/ post.draft \in Changed
  BY NewPostTyped DEF DraftsInv, UploadsInv, DraftsTypeOK

LEMMA QueueTyped ==
  ASSUME DraftsInv, NEW a \in Account, NEW post \in DraftPost
  PROVE  /\ queue[a] \in Seq(DraftPost)
         /\ [queue EXCEPT ![a] = Append(@, post)] \in [Account -> Seq(DraftPost)]
  <1>1. queue[a] \in Seq(DraftPost)
    BY DEF DraftsInv, DraftsTypeOK
  <1>2. Append(queue[a], post) \in Seq(DraftPost)
    BY <1>1, AppendProperties
  <1> QED BY <1>1, <1>2 DEF DraftsInv, DraftsTypeOK

LEMMA UploadsKeep ==
  ASSUME DraftsInv, NEW post \in uploads, UNCHANGED sessionVars
  PROVE  /\ UploadDone(post) => DraftsInv'
         /\ UploadFails(post) => DraftsInv'
  <1> USE DEF DraftsInv
  <1>0. Seated' /\ path' = path /\ userEmail' = userEmail
    BY SessionStays DEF SessionSteps, sessionVars
  <1>1. At("home")' <=> At("home")
    BY <1>0 DEF At
  <1>2. post \in DraftPost /\ post.draft \in posted
    BY UploadIsOwn
  <1>3. ASSUME UploadDone(post) PROVE DraftsInv'
    <2>1. user \in Someone
      BY DEF Seated, SessionTypeOK
    <2>2. queue' \in [Account -> Seq(DraftPost)]
      <3>1. CASE user \in Account
        BY <1>2, <1>3, <3>1, QueueTyped DEF UploadDone, AddPost
      <3>2. CASE user \notin Account
        BY <1>3, <3>2 DEF UploadDone, AddPost, DraftsTypeOK
      <3> QED BY <3>1, <3>2
    <2>3. screen' \in {screen, "none"}
      BY <1>3 DEF UploadDone, Close
    <2>4. DraftsTypeOK'
      BY <1>3, <2>2, <2>3 DEF DraftsTypeOK, UploadDone, historyVars
    <2>5. ScreenInv'
      BY <1>1, <1>3, <2>3 DEF ScreenInv, UploadDone
    <2>6. ASSUME NEW u \in uploads, u # post, u.draft \notin Changed
          PROVE  screen' = "waiting" /\ u = NewPostNow'
      <3>1. screen = "waiting" /\ u = NewPostNow
        BY <2>6 DEF UploadsInv
      <3>2. ASSUME screen' # "waiting" PROVE FALSE
        <4>1. post.draft = drafts /\ u.draft = drafts
          BY <1>3, <3>1, <3>2 DEF UploadDone, Close, NewPostNow
        <4>2. post = NewPostNow
          BY <2>6, <4>1 DEF UploadsInv
        <4> QED BY <2>6, <3>1, <4>2
      <3> QED BY <1>0, <1>3, <3>1, <3>2 DEF UploadDone, NewPostNow
    <2>7. UploadsInv'
      <3>1. uploads' = uploads \ {post} /\ posted' = posted /\ Changed' = Changed
        BY <1>3 DEF UploadDone, historyVars, Changed
      <3> QED BY <2>6, <3>1 DEF UploadsInv
    <2> QED BY <1>0, <2>4, <2>5, <2>7
  <1>4. ASSUME UploadFails(post) PROVE DraftsInv'
    <2>1. DraftsTypeOK' /\ ScreenInv'
      BY <1>1, <1>2, <1>4 DEF DraftsTypeOK, ScreenInv, UploadFails, screenVars, storeVars
    <2>2. UploadsInv'
      BY <1>0, <1>4 DEF UploadsInv, UploadFails, Changed, screenVars, NewPostNow
    <2> QED BY <1>0, <2>1, <2>2
  <1> QED BY <1>3, <1>4

(* Whoever signs in or out meets no upload that a screen waits for. *)
LEMMA SessionKeepsDrafts ==
  ASSUME DraftsInv
  PROVE  /\ UserMoves => DraftsInv'
         /\ \A s \in SignInScreens : AuthAnswers(s) => DraftsInv'
         /\ Restart => DraftsInv'
  <1> USE DEF DraftsInv
  <1>1. UploadsInv => Uploading \subseteq posted
    BY DEF UploadsInv, Uploading
  <1>2. ASSUME UserMoves PROVE DraftsInv'
    <2>1. Seated'
      BY <1>2, SessionStays DEF UserMoves, SessionSteps
    <2>2. DraftsTypeOK' /\ ScreenInv'
      BY <1>2 DEF DraftsTypeOK, ScreenInv, UserMoves, StaysPut, screenVars, storeVars,
              historyVars
    <2>3. UploadsInv'
      BY <1>2 DEF UploadsInv, UserMoves, StaysPut, screenVars, historyVars, Changed
    <2> QED BY <2>1, <2>2, <2>3
  <1>3. ASSUME NEW s \in SignInScreens, AuthAnswers(s) PROVE DraftsInv'
    <2>1. Seated'
      BY <1>3, SessionStays DEF AuthAnswers, SessionSteps
    <2>2. CASE SignInFails(s) /\ StaysPut
      <3>1. path' = path /\ userEmail' = userEmail
        BY <2>2 DEF SignInFails
      <3>2. At("home")' <=> At("home")
        BY <3>1 DEF At
      <3>3. DraftsTypeOK' /\ ScreenInv'
        BY <2>2, <3>2 DEF DraftsTypeOK, ScreenInv, StaysPut, screenVars, storeVars,
                      historyVars
      <3>4. UploadsInv'
        BY <2>2, <3>1 DEF UploadsInv, StaysPut, screenVars, historyVars, Changed, NewPostNow
      <3> QED BY <2>1, <3>3, <3>4
    <2>3. CASE SignInOpensHome(s) /\ StaysPut
      <3>1. screen = "none"
        BY <2>3 DEF ScreenInv, SignInOpensHome, Visible, At
      <3>2. DraftsTypeOK' /\ ScreenInv'
        BY <2>3, <3>1 DEF DraftsTypeOK, ScreenInv, StaysPut, screenVars, storeVars,
                      historyVars
      <3>3. UploadsInv'
        BY <2>3, <3>1 DEF UploadsInv, StaysPut, screenVars, historyVars, Changed
      <3> QED BY <2>1, <3>2, <3>3
    <2>4. CASE SignInComesLate(s) /\ outdated' = outdated \cup Uploading
               /\ UNCHANGED <<screenVars, uploads, storeVars, posted, lost, left>>
      <3>1. At("home")' <=> At("home")
        BY <2>4 DEF SignInComesLate, At
      <3>2. DraftsTypeOK' /\ ScreenInv'
        BY <1>1, <2>4, <3>1 DEF DraftsTypeOK, ScreenInv, screenVars, storeVars
      <3>3. UploadsInv'
        BY <2>4 DEF UploadsInv, Changed, Uploading
      <3> QED BY <2>1, <3>2, <3>3
    <2> QED BY <1>3, <2>2, <2>3, <2>4 DEF AuthAnswers
  <1>4. ASSUME Restart PROVE DraftsInv'
    <2>1. Seated'
      BY <1>4, SessionStays DEF Restart, SessionSteps
    <2>2. DraftsTypeOK' /\ ScreenInv' /\ UploadsInv'
      BY <1>1, <1>4 DEF DraftsTypeOK, ScreenInv, UploadsInv, Restart, storeVars
    <2> QED BY <2>1, <2>2
  <1> QED BY <1>2, <1>3, <1>4

LEMMA ServerKeepsDrafts ==
  ASSUME DraftsInv, NEW a \in Account
  PROVE  Accept(a) \/ Refuse(a) => DraftsInv'
  <1> SUFFICES ASSUME Accept(a) \/ Refuse(a) PROVE DraftsInv'
    OBVIOUS
  <1> USE DEF DraftsInv
  <1>1. ServerTakes(a)
    BY DEF Accept, Refuse
  <1>2. Seated' /\ path' = path /\ userEmail' = userEmail
    BY <1>1, SessionStays DEF ServerTakes, SessionSteps, sessionVars
  <1>3. ScreenInv' /\ UploadsInv'
    BY <1>1, <1>2 DEF ServerTakes, ScreenInv, UploadsInv, At, Changed, screenVars, NewPostNow
  <1>4. queue[a] \in Seq(DraftPost) /\ queue[a] # <<>> /\ a \in Someone
    BY <1>1 DEF ServerTakes, DraftsTypeOK, Someone
  <1>5. Head(queue[a]) \in DraftPost /\ Tail(queue[a]) \in Seq(DraftPost)
    BY <1>4, HeadTailProperties
  <1>6. queue' \in [Account -> Seq(DraftPost)]
    BY <1>1, <1>5 DEF ServerTakes, DraftsTypeOK
  <1>7. documents' \in Seq([draft : Draft, email : Someone, by : Account])
    <2>1. CASE Accept(a)
      <3>1. [draft |-> Head(queue[a]).draft, email |-> Head(queue[a]).email, by |-> a]
              \in [draft : Draft, email : Someone, by : Account]
        BY <1>5 DEF DraftPost
      <3> QED BY <2>1, <3>1, AppendProperties DEF Accept, DraftsTypeOK
    <2>2. CASE Refuse(a)
      BY <2>2 DEF Refuse, DraftsTypeOK
    <2> QED BY <2>1, <2>2
  <1>8. DraftsTypeOK'
    BY <1>1, <1>6, <1>7 DEF DraftsTypeOK, ServerTakes, screenVars
  <1> QED BY <1>2, <1>3, <1>8

-----------------------------------------------------------------------------
(* Authors.                                                                *)

(* No draft is forgotten to have been posted, or excused. *)
LEMMA Excuses ==
  [Next]_vars => posted \subseteq posted' /\ Changed \subseteq Changed'
  BY DEF Next, vars, OpenNewPost, ChoosePicture, PostWithPicture, PostWithoutPicture,
     LeaveForm, UploadDone, UploadFails, UserMoves, AuthAnswers, StaysPut, Restart,
     Accept, Refuse, ServerTakes, historyVars, Changed

LEMMA StillOwn ==
  ASSUME AuthorsInv, [Next]_vars
  PROVE  /\ \A a \in Account : /\ OwnPosts(a) \subseteq OwnPosts(a)'
                               /\ queue[a] \in Seq(OwnPosts(a)')
         /\ Written \subseteq Written' /\ documents \in Seq(Written')
  <1>1. ASSUME NEW a \in Account
        PROVE  OwnPosts(a) \subseteq OwnPosts(a)' /\ queue[a] \in Seq(OwnPosts(a)')
    <2>1. OwnPosts(a) \subseteq OwnPosts(a)'
      BY Excuses DEF OwnPosts
    <2> QED BY <2>1, SeqMonotonic DEF AuthorsInv
  <1>2. Written \subseteq Written'
    BY Excuses DEF Written
  <1>3. documents \in Seq(Written')
    BY <1>2, SeqMonotonic DEF AuthorsInv
  <1> QED BY <1>1, <1>2, <1>3

LEMMA AddedStayOwn ==
  ASSUME DraftsTypeOK, AuthorsInv, [Next]_vars, NEW post, AddPost(post), user' = user,
         user \in Account => post \in OwnPosts(user)'
  PROVE  \A a \in Account : queue'[a] \in Seq(OwnPosts(a)')
  <1> TAKE a \in Account
  <1>1. queue[a] \in Seq(OwnPosts(a)')
    BY StillOwn
  <1>2. CASE a = user
    <2>1. queue'[a] = Append(queue[a], post)
      BY <1>2 DEF AddPost, DraftsTypeOK
    <2>2. post \in OwnPosts(a)'
      BY <1>2
    <2>3. Append(queue[a], post) \in Seq(OwnPosts(a)')
      BY <1>1, <2>2, AppendProperties
    <2> QED BY <2>1, <2>3
  <1>3. CASE a # user
    <2>1. queue'[a] = queue[a]
      BY <1>3 DEF AddPost, DraftsTypeOK
    <2> QED BY <1>1, <2>1
  <1> QED BY <1>2, <1>3

LEMMA AuthorsStay ==
  ASSUME DraftsInv, AuthorsInv, [Next]_vars
  PROVE  AuthorsInv'
  <1>0. DraftsTypeOK
    BY DEF DraftsInv
  <1>1. CASE UNCHANGED storeVars /\ lost' \subseteq posted'
    BY <1>1, StillOwn DEF AuthorsInv, storeVars
  <1>2. CASE PostWithoutPicture
    <2>1. NewPostNow \in OwnPosts(user)'
      <3>1. NewPostNow \in DraftPost /\ NewPostNow.draft = drafts /\ NewPostNow.email = user
        BY <1>2, NewPostTyped DEF PostWithoutPicture
      <3>2. user' = user /\ posted' = posted \cup {drafts}
        BY <1>2 DEF PostWithoutPicture, sessionVars
      <3> QED BY <3>1, <3>2 DEF OwnPosts
    <2>2. \A a \in Account : queue'[a] \in Seq(OwnPosts(a)')
      BY <1>0, <1>2, <2>1, AddedStayOwn DEF PostWithoutPicture, sessionVars
    <2>3. lost' = lost /\ documents' = documents
      BY <1>2 DEF PostWithoutPicture
    <2> QED BY <2>2, <2>3, StillOwn, Excuses DEF AuthorsInv
  <1>3. ASSUME NEW post \in uploads, UploadDone(post) PROVE AuthorsInv'
    <2>1. post \in OwnPosts(user)'
      <3>1. /\ post \in DraftPost /\ post.draft \in posted
            /\ post.email = user \/ post.draft \in Changed
        BY UploadIsOwn
      <3>2. user' = user
        BY <1>3 DEF UploadDone, sessionVars
      <3> QED BY <3>1, <3>2, Excuses DEF OwnPosts
    <2>2. \A a \in Account : queue'[a] \in Seq(OwnPosts(a)')
      BY <1>0, <1>3, <2>1, AddedStayOwn DEF UploadDone, sessionVars
    <2>3. lost' = lost /\ documents' = documents
      BY <1>3 DEF UploadDone, historyVars
    <2> QED BY <2>2, <2>3, StillOwn, Excuses DEF AuthorsInv
  <1>4. ASSUME NEW a \in Account, Accept(a) \/ Refuse(a) PROVE AuthorsInv'
    <2>1. ServerTakes(a)
      BY <1>4 DEF Accept, Refuse
    <2>2. queue[a] \in Seq(OwnPosts(a)) /\ queue[a] # <<>>
      BY <2>1 DEF AuthorsInv, ServerTakes
    <2>3. Head(queue[a]) \in OwnPosts(a)
      BY <2>2, HeadTailProperties
    <2>4. Tail(queue[a]) \in Seq(OwnPosts(a)')
      <3>1. queue[a] \in Seq(OwnPosts(a)') /\ queue[a] # <<>>
        BY <2>2, StillOwn
      <3> QED BY <3>1, HeadTailProperties
    <2>5. \A b \in Account : queue'[b] \in Seq(OwnPosts(b)')
      BY <1>0, <2>1, <2>4, StillOwn DEF ServerTakes, DraftsTypeOK
    <2>6. lost' \subseteq posted'
      BY <1>4, <2>3, Excuses DEF AuthorsInv, Accept, Refuse, OwnPosts
    <2>7. documents' \in Seq(Written')
      <3>1. CASE Accept(a)
        <4> DEFINE d == [draft |-> Head(queue[a]).draft,
                         email |-> Head(queue[a]).email, by |-> a]
        <4>1. d \in Written
          BY <2>3 DEF OwnPosts, Written, DraftPost, Someone
        <4>2. d \in Written' /\ documents \in Seq(Written')
          BY <4>1, StillOwn
        <4>3. Append(documents, d) \in Seq(Written')
          BY <4>2, AppendProperties
        <4> QED BY <3>1, <4>3 DEF Accept
      <3>2. CASE Refuse(a)
        BY <3>2, StillOwn DEF Refuse
      <3> QED BY <1>4, <3>1, <3>2
    <2> QED BY <2>5, <2>6, <2>7 DEF AuthorsInv
  <1>5. CASE OpenNewPost \/ ChoosePicture \/ PostWithPicture \/ LeaveForm \/ UNCHANGED vars
    <2>1. UNCHANGED storeVars /\ lost' \subseteq posted'
      BY <1>5, Excuses DEF OpenNewPost, ChoosePicture, PostWithPicture, LeaveForm, vars,
                          historyVars, AuthorsInv
    <2> QED BY <1>1, <2>1
  <1>6. CASE UserMoves \/ Restart \/ \E s \in SignInScreens : AuthAnswers(s)
    <2>1. Uploading \subseteq posted
      BY DEF DraftsInv, UploadsInv, Uploading
    <2>2. UNCHANGED storeVars /\ lost' \subseteq posted'
      BY <1>6, <2>1 DEF UserMoves, Restart, AuthAnswers, StaysPut, historyVars, AuthorsInv
    <2> QED BY <1>1, <2>2
  <1>7. ASSUME NEW post \in uploads, UploadFails(post) PROVE AuthorsInv'
    <2>1. UNCHANGED storeVars /\ lost' \subseteq posted'
      BY <1>7, UploadIsOwn DEF UploadFails, AuthorsInv
    <2> QED BY <1>1, <2>1
  <1> QED BY <1>2, <1>3, <1>4, <1>5, <1>6, <1>7 DEF Next

LEMMA DraftsStay ==
  ASSUME DraftsInv, [Next]_vars
  PROVE  DraftsInv'
  <1>1. CASE OpenNewPost \/ ChoosePicture \/ PostWithPicture \/ PostWithoutPicture \/ LeaveForm
    <2>1. UNCHANGED sessionVars
      BY <1>1 DEF OpenNewPost, ChoosePicture, PostWithPicture, PostWithoutPicture, LeaveForm
    <2> QED BY <1>1, <2>1, ScreenKeeps
  <1>2. ASSUME NEW post \in uploads, UploadDone(post) \/ UploadFails(post)
        PROVE  DraftsInv'
    BY <1>2, UploadsKeep DEF UploadDone, UploadFails
  <1>3. CASE UserMoves \/ Restart \/ \E s \in SignInScreens : AuthAnswers(s)
    BY <1>3, SessionKeepsDrafts
  <1>4. CASE \E a \in Account : Accept(a) \/ Refuse(a)
    BY <1>4, ServerKeepsDrafts
  <1>5. CASE UNCHANGED vars
    <2>1. Seated'
      <3>1. UNCHANGED sessionVars
        BY <1>5 DEF vars
      <3> QED BY <3>1, SessionStays DEF SessionSteps, DraftsInv
    <2>2. DraftsTypeOK' /\ ScreenInv' /\ UploadsInv'
      BY <1>5 DEF DraftsInv, DraftsTypeOK, ScreenInv, UploadsInv, vars, screenVars, storeVars,
              historyVars, sessionVars, Changed, NewPostNow, At
    <2> QED BY <2>1, <2>2 DEF DraftsInv
  <1> QED BY <1>1, <1>2, <1>3, <1>4, <1>5 DEF Next

LEMMA DraftsStart == Init => DraftsInv /\ AuthorsInv
  <1> SUFFICES ASSUME Init PROVE DraftsInv /\ AuthorsInv
    OBVIOUS
  <1>1. Seated
    BY SessionStarts, SessionAssumption DEF Init
  <1>2. DraftsTypeOK /\ ScreenInv /\ UploadsInv
    <2>1. 0 \in 0 .. MaxDrafts
      BY NewPostAssumption DEF NewPostAssumption
    <2>2. DraftsTypeOK
      <3>1. queue \in [Account -> Seq(DraftPost)]
        BY DEF Init
      <3>2. documents \in Seq([draft : Draft, email : Someone, by : Account])
        BY DEF Init
      <3> QED BY <2>1, <3>1, <3>2 DEF Init, DraftsTypeOK
    <2> QED BY <2>2 DEF Init, ScreenInv, UploadsInv
  <1>3. AuthorsInv
    BY DEF Init, AuthorsInv
  <1> QED BY <1>1, <1>2, <1>3 DEF DraftsInv

-----------------------------------------------------------------------------
(* Theorems.                                                               *)

LEMMA DraftsAndAuthors == Spec => [](DraftsInv /\ AuthorsInv)
  BY DraftsStart, DraftsStay, AuthorsStay, PTL DEF Spec

(***************************************************************************)
(* The types of the screen, its uploads and the posts, whoever signs in or *)
(* out and however many screens are opened; the screen of a new post only  *)
(* stands on a home screen.                                                *)
(***************************************************************************)
THEOREM PostsTypeCorrect == Spec => []TypeOK
  <1>1. DraftsInv /\ AuthorsInv => TypeOK
    BY DEF DraftsInv, Seated, DraftsTypeOK, ScreenInv, AuthorsInv, TypeOK
  <1> QED BY <1>1, DraftsAndAuthors, PTL

(***************************************************************************)
(* A queued or published post bears the email of the account that writes   *)
(* it, for any accounts, screens and order of answers, but for the two     *)
(* ways that AuthorPublishes names.                                        *)
(***************************************************************************)
THEOREM AuthorsPublish == Spec => []AuthorPublishes
  <1>1. AuthorsInv => AuthorPublishes
    <2> SUFFICES ASSUME AuthorsInv PROVE AuthorPublishes
      OBVIOUS
    <2>1. ASSUME NEW a \in Account, NEW i \in DOMAIN queue[a]
          PROVE  queue[a][i].email = a \/ queue[a][i].draft \in Changed
      <3>1. queue[a] \in Seq(OwnPosts(a)) /\ i \in 1 .. Len(queue[a])
        BY <2>1 DEF AuthorsInv
      <3>2. queue[a][i] \in OwnPosts(a)
        BY <3>1, ElementOfSeq
      <3> QED BY <3>2 DEF OwnPosts
    <2>2. ASSUME NEW i \in DOMAIN documents
          PROVE  documents[i].email = documents[i].by \/ documents[i].draft \in Changed
      <3>1. documents \in Seq(Written) /\ i \in 1 .. Len(documents)
        BY <2>2 DEF AuthorsInv
      <3>2. documents[i] \in Written
        BY <3>1, ElementOfSeq
      <3> QED BY <3>2 DEF Written
    <2> QED BY <2>1, <2>2 DEF AuthorPublishes, Changed
  <1> QED BY <1>1, DraftsAndAuthors, PTL

-----------------------------------------------------------------------------
(* Published once: where a draft is, said without counting.                *)

NoUpload(d) == \A u \in uploads : u.draft # d
OneUpload(d) ==
  \E u \in uploads : u.draft = d /\ \A v \in uploads : v.draft = d => v = u

QueuedAt(d, a, i) == a \in Account /\ i \in DOMAIN queue[a] /\ queue[a][i].draft = d
NotQueued(d) == \A a, i : ~QueuedAt(d, a, i)
OneQueued(d) ==
  \E a, i : QueuedAt(d, a, i) /\ \A b, j : QueuedAt(d, b, j) => b = a /\ j = i

NotWritten(d) == \A i \in DOMAIN documents : documents[i].draft # d
OneWritten(d) ==
  \E i \in DOMAIN documents :
    /\ documents[i].draft = d
    /\ \A j \in DOMAIN documents : documents[j].draft = d => j = i

(* Draft d is in one of the places at most, and in one if it was posted. *)
Placed(d) ==
  \/ /\ d \notin posted
     /\ NoUpload(d) /\ NotQueued(d) /\ NotWritten(d) /\ d \notin lost
  \/ /\ d \in posted
     /\ \/ OneUpload(d) /\ NotQueued(d) /\ NotWritten(d) /\ d \notin lost
        \/ NoUpload(d) /\ OneQueued(d) /\ NotWritten(d) /\ d \notin lost
        \/ NoUpload(d) /\ NotQueued(d) /\ OneWritten(d) /\ d \notin lost
        \/ NoUpload(d) /\ NotQueued(d) /\ NotWritten(d) /\ d \in lost

(* A form shows a draft that was not posted yet; who uploads has signed in. *)
FormsInv ==
  /\ posted \subseteq 1 .. drafts
  /\ screen = "form" => drafts \notin posted
  /\ uploads # {} => homes > 0

PlacesInv == \A d \in Draft : Placed(d)

LEMMA UploaderIsSomeone ==
  ASSUME DraftsInv, FormsInv, uploads # {}
  PROVE  user \in Account
  BY DEF DraftsInv, FormsInv, Seated, SessionInv, SessionTypeOK, Someone

LEMMA AppendDrafts ==
  ASSUME NEW S, NEW q \in Seq(S), NEW p
  PROVE  /\ DOMAIN Append(q, p) = DOMAIN q \cup {Len(q) + 1}
         /\ Len(q) + 1 \notin DOMAIN q
         /\ \A i \in DOMAIN q : Append(q, p)[i] = q[i]
         /\ Append(q, p)[Len(q) + 1] = p
  OBVIOUS

LEMMA TailDrafts ==
  ASSUME NEW S, NEW q \in Seq(S), q # <<>>
  PROVE  /\ 1 \in DOMAIN q /\ q[1] = Head(q)
         /\ \A i \in DOMAIN Tail(q) : i + 1 \in DOMAIN q /\ Tail(q)[i] = q[i + 1] /\ i + 1 # 1
         /\ \A i \in DOMAIN q : i # 1 => i - 1 \in DOMAIN Tail(q) /\ Tail(q)[i - 1] = q[i]
  OBVIOUS

LEMMA QueueAdds ==
  ASSUME DraftsTypeOK, user \in Account, NEW post, AddPost(post), NEW d
  PROVE  /\ d # post.draft /\ NotQueued(d) => NotQueued(d)'
         /\ d # post.draft /\ OneQueued(d) => OneQueued(d)'
         /\ d = post.draft /\ NotQueued(d) => OneQueued(d)'
  <1> DEFINE n == Len(queue[user]) + 1
  <1>1. queue[user] \in Seq(DraftPost)
    BY DEF DraftsTypeOK
  <1>2. queue'[user] = Append(queue[user], post) /\ \A a \in Account \ {user} : queue'[a] = queue[a]
    BY DEF AddPost, DraftsTypeOK
  <1>3. ASSUME NEW a, NEW i
        PROVE  QueuedAt(d, a, i)' <=> \/ QueuedAt(d, a, i)
                                      \/ d = post.draft /\ a = user /\ i = n
    <2>1. CASE a = user
      BY <1>1, <1>2, <2>1, AppendDrafts DEF QueuedAt
    <2>2. CASE a # user
      BY <1>2, <2>2 DEF QueuedAt
    <2> QED BY <2>1, <2>2
  <1> HIDE DEF n
  <1> QED BY <1>3 DEF NotQueued, OneQueued

LEMMA QueueLoses ==
  ASSUME DraftsTypeOK, NEW a \in Account, ServerTakes(a), NEW d
  PROVE  /\ d # Head(queue[a]).draft /\ NotQueued(d) => NotQueued(d)'
         /\ d # Head(queue[a]).draft /\ OneQueued(d) => OneQueued(d)'
         /\ d = Head(queue[a]).draft => ~NotQueued(d)
         /\ d = Head(queue[a]).draft /\ OneQueued(d) => NotQueued(d)'
  <1>1. queue[a] \in Seq(DraftPost) /\ queue[a] # <<>>
    BY DEF DraftsTypeOK, ServerTakes
  <1>2. queue'[a] = Tail(queue[a]) /\ \A b \in Account \ {a} : queue'[b] = queue[b]
    BY DEF DraftsTypeOK, ServerTakes
  <1>3. QueuedAt(d, a, 1) <=> d = Head(queue[a]).draft
    BY <1>1, TailDrafts DEF QueuedAt
  <1>4. ASSUME NEW b, NEW i, QueuedAt(d, b, i)'
        PROVE  \/ b # a /\ QueuedAt(d, b, i)
               \/ b = a /\ i \in Int /\ QueuedAt(d, a, i + 1) /\ i + 1 # 1
    <2>1. CASE b = a
      <3>1. i \in DOMAIN Tail(queue[a]) /\ Tail(queue[a])[i].draft = d
        BY <1>2, <1>4, <2>1 DEF QueuedAt
      <3>2. i \in Int
        BY <1>1, <3>1, HeadTailProperties
      <3> QED BY <1>1, <2>1, <3>1, <3>2, TailDrafts DEF QueuedAt
    <2>2. CASE b # a
      BY <1>2, <1>4, <2>2 DEF QueuedAt
    <2> QED BY <2>1, <2>2
  <1>5. ASSUME NEW b, NEW i, QueuedAt(d, b, i)
        PROVE  \/ b # a /\ QueuedAt(d, b, i)'
               \/ b = a /\ i = 1
               \/ b = a /\ i \in Int /\ QueuedAt(d, a, i - 1)'
    <2>1. CASE b = a
      BY <1>1, <1>2, <1>5, <2>1, TailDrafts DEF QueuedAt
    <2>2. CASE b # a
      BY <1>2, <1>5, <2>2 DEF QueuedAt
    <2> QED BY <2>1, <2>2
  <1>6. ASSUME d # Head(queue[a]).draft, OneQueued(d) PROVE OneQueued(d)'
    <2>1. PICK b, i : QueuedAt(d, b, i) /\ \A c, j : QueuedAt(d, c, j) => c = b /\ j = i
      BY <1>6 DEF OneQueued
    <2>2. CASE b # a
      BY <1>3, <1>4, <1>5, <1>6, <2>1, <2>2 DEF OneQueued
    <2>3. CASE b = a
      <3>1. i \in Int /\ QueuedAt(d, a, i - 1)'
        BY <1>3, <1>5, <1>6, <2>1, <2>3
      <3>2. ASSUME NEW c, NEW j, QueuedAt(d, c, j)' PROVE c = a /\ j = i - 1
        BY <1>4, <2>1, <2>3, <3>1, <3>2
      <3> QED BY <3>1, <3>2 DEF OneQueued
    <2> QED BY <2>2, <2>3
  <1>7. ASSUME d = Head(queue[a]).draft, OneQueued(d) PROVE NotQueued(d)'
    <2>1. \A c, j : QueuedAt(d, c, j) => c = a /\ j = 1
      BY <1>3, <1>7 DEF OneQueued
    <2> QED BY <1>4, <2>1 DEF NotQueued
  <1>8. d # Head(queue[a]).draft /\ NotQueued(d) => NotQueued(d)'
    BY <1>4 DEF NotQueued
  <1> QED BY <1>3, <1>6, <1>7, <1>8 DEF NotQueued

LEMMA DocumentsAdd ==
  ASSUME DraftsTypeOK, NEW p, documents' = Append(documents, p), NEW d
  PROVE  /\ d # p.draft /\ NotWritten(d) => NotWritten(d)'
         /\ d # p.draft /\ OneWritten(d) => OneWritten(d)'
         /\ d = p.draft /\ NotWritten(d) => OneWritten(d)'
  <1>1. documents \in Seq([draft : Draft, email : Someone, by : Account])
    BY DEF DraftsTypeOK
  <1> QED BY <1>1, AppendDrafts DEF NotWritten, OneWritten

LEMMA FormsKept ==
  ASSUME DraftsInv, FormsInv, [Next]_vars
  PROVE  FormsInv'
  <1> USE DEF DraftsInv
  <1>0. drafts \in Nat
    BY NewPostAssumption DEF DraftsTypeOK, NewPostAssumption
  <1>1. CASE OpenNewPost
    BY <1>0, <1>1 DEF FormsInv, OpenNewPost, sessionVars, historyVars
  <1>2. CASE PostWithPicture
    <2>1. homes > 0
      BY <1>2, AtHome DEF PostWithPicture, ScreenInv, Seated
    <2> QED BY <1>0, <1>2, <2>1 DEF FormsInv, PostWithPicture, Disable, ScreenInv, sessionVars
  <1>3. CASE PostWithoutPicture
    BY <1>0, <1>3 DEF FormsInv, PostWithoutPicture, ScreenInv, sessionVars
  <1>4. CASE ChoosePicture \/ LeaveForm \/ UNCHANGED vars
    BY <1>4 DEF FormsInv, ChoosePicture, LeaveForm, vars, screenVars, sessionVars, historyVars
  <1>5. ASSUME NEW post \in uploads, UploadDone(post) \/ UploadFails(post) PROVE FormsInv'
    <2>1. screen' = "form" => screen = "form"
      BY <1>5 DEF UploadDone, UploadFails, Close, screenVars
    <2> QED BY <1>5, <2>1 DEF FormsInv, UploadDone, UploadFails, screenVars, sessionVars,
                              historyVars
  <1>6. CASE UserMoves
    <2>1. homes' = homes
      BY <1>6, MovesKeepSession, SessionAssumption DEF UserMoves
    <2> QED BY <1>6, <2>1 DEF FormsInv, UserMoves, StaysPut, screenVars, historyVars
  <1>7. CASE Restart
    BY <1>7 DEF FormsInv, Restart
  <1>8. ASSUME NEW s \in SignInScreens, AuthAnswers(s) PROVE FormsInv'
    <2>1. homes' = homes \/ homes' > 0
      BY <1>8, AuthKeepsSession, SessionAssumption DEF AuthAnswers
    <2> QED BY <1>8, <2>1 DEF FormsInv, AuthAnswers, StaysPut, screenVars, historyVars
  <1>9. ASSUME NEW a \in Account, Accept(a) \/ Refuse(a) PROVE FormsInv'
    BY <1>9 DEF FormsInv, Accept, Refuse, ServerTakes, screenVars, sessionVars
  <1> QED BY <1>1, <1>2, <1>3, <1>4, <1>5, <1>6, <1>7, <1>8, <1>9 DEF Next

LEMMA PlacesKept ==
  ASSUME DraftsInv, FormsInv, PlacesInv, [Next]_vars, NEW d \in Draft
  PROVE  Placed(d)'
  <1>0. Placed(d) /\ DraftsTypeOK
    BY DEF PlacesInv, DraftsInv
  <1> DEFINE SameUploads == (NoUpload(d)' <=> NoUpload(d)) /\ (OneUpload(d)' <=> OneUpload(d))
             SameQueues  == (NotQueued(d)' <=> NotQueued(d)) /\ (OneQueued(d)' <=> OneQueued(d))
             SameWritten == (NotWritten(d)' <=> NotWritten(d)) /\ (OneWritten(d)' <=> OneWritten(d))
  <1>1. /\ uploads' = uploads => SameUploads
        /\ queue' = queue => SameQueues
        /\ documents' = documents => SameWritten
    BY DEF NoUpload, OneUpload, NotQueued, OneQueued, QueuedAt, NotWritten, OneWritten
  <1> HIDE DEF SameUploads, SameQueues, SameWritten
  <1>2. CASE UNCHANGED <<uploads, storeVars, posted, lost>>
    BY <1>0, <1>1, <1>2 DEF storeVars, Placed, SameUploads, SameQueues, SameWritten
  <1>3. CASE \/ OpenNewPost \/ ChoosePicture \/ LeaveForm \/ UserMoves \/ UNCHANGED vars
             \/ \E s \in SignInScreens : AuthAnswers(s)
    <2>1. UNCHANGED <<uploads, storeVars, posted, lost>>
      BY <1>3 DEF OpenNewPost, ChoosePicture, LeaveForm, UserMoves, AuthAnswers, StaysPut, vars,
                  historyVars
    <2> QED BY <1>2, <2>1
  <1>4. CASE PostWithPicture
    <2>1. drafts \notin posted /\ NewPostNow.draft = drafts
      BY <1>4 DEF FormsInv, PostWithPicture, NewPostNow
    <2>2. SameQueues /\ SameWritten /\ lost' = lost
      BY <1>1, <1>4 DEF PostWithPicture, storeVars
    <2>3. CASE d = drafts
      <3>1. OneUpload(d)'
        BY <1>0, <1>4, <2>1, <2>3 DEF Placed, PostWithPicture, NoUpload, OneUpload
      <3>2. d \in posted'
        BY <1>4, <2>3 DEF PostWithPicture
      <3> QED BY <1>0, <2>1, <2>2, <2>3, <3>1, <3>2 DEF Placed, SameQueues, SameWritten
    <2>4. CASE d # drafts
      <3>1. SameUploads /\ (d \in posted' <=> d \in posted)
        BY <1>4, <2>1, <2>4 DEF PostWithPicture, NoUpload, OneUpload, SameUploads
      <3> QED BY <1>0, <2>2, <3>1 DEF Placed, SameUploads, SameQueues, SameWritten
    <2> QED BY <2>3, <2>4
  <1>5. CASE PostWithoutPicture
    <2>1. /\ drafts \notin posted /\ NewPostNow.draft = drafts /\ user \in Account
          /\ AddPost(NewPostNow)
      BY <1>5, NewPostTyped DEF FormsInv, PostWithoutPicture
    <2>2. SameUploads /\ SameWritten /\ lost' = lost /\ posted' = posted \cup {drafts}
      BY <1>1, <1>5 DEF PostWithoutPicture
    <2>3. /\ d # drafts /\ NotQueued(d) => NotQueued(d)'
          /\ d # drafts /\ OneQueued(d) => OneQueued(d)'
          /\ d = drafts /\ NotQueued(d) => OneQueued(d)'
      BY <1>0, <2>1, QueueAdds
    <2> QED BY <1>0, <2>1, <2>2, <2>3 DEF Placed, SameUploads, SameWritten
  <1>6. ASSUME NEW post \in uploads, UploadDone(post) \/ UploadFails(post) PROVE Placed(d)'
    <2>1. uploads' = uploads \ {post} /\ posted' = posted /\ SameWritten
      BY <1>1, <1>6 DEF UploadDone, UploadFails, storeVars, historyVars
    <2>2. /\ d = post.draft => ~NoUpload(d)
          /\ d = post.draft /\ OneUpload(d) => NoUpload(d)'
          /\ d # post.draft => SameUploads
      BY <2>1 DEF NoUpload, OneUpload, SameUploads
    <2>3. CASE UploadDone(post)
      <3>1. /\ d # post.draft /\ NotQueued(d) => NotQueued(d)'
            /\ d # post.draft /\ OneQueued(d) => OneQueued(d)'
            /\ d = post.draft /\ NotQueued(d) => OneQueued(d)'
        BY <1>0, <2>3, QueueAdds, UploaderIsSomeone DEF UploadDone
      <3>2. lost' = lost
        BY <2>3 DEF UploadDone, historyVars
      <3> QED BY <1>0, <2>1, <2>2, <3>1, <3>2 DEF Placed, SameUploads, SameWritten
    <2>4. CASE UploadFails(post)
      <3>1. SameQueues /\ lost' = lost \cup {post.draft}
        BY <1>1, <2>4 DEF UploadFails, storeVars
      <3> QED BY <1>0, <2>1, <2>2, <3>1 DEF Placed, SameUploads, SameQueues, SameWritten
    <2> QED BY <1>6, <2>3, <2>4
  <1>7. CASE Restart
    <2>1. /\ NoUpload(d)' /\ SameQueues /\ SameWritten
          /\ posted' = posted /\ (d \in lost' <=> d \in lost \/ ~NoUpload(d))
      BY <1>1, <1>7 DEF Restart, storeVars, NoUpload, Uploading
    <2>2. OneUpload(d) => ~NoUpload(d)
      BY DEF OneUpload, NoUpload
    <2> QED BY <1>0, <2>1, <2>2 DEF Placed, SameQueues, SameWritten
  <1>8. ASSUME NEW a \in Account, Accept(a) \/ Refuse(a) PROVE Placed(d)'
    <2> DEFINE h == Head(queue[a]).draft
    <2>1. ServerTakes(a)
      BY <1>8 DEF Accept, Refuse
    <2>2. SameUploads /\ posted' = posted
      BY <1>1, <2>1 DEF ServerTakes
    <2>3. /\ d # h /\ NotQueued(d) => NotQueued(d)'
          /\ d # h /\ OneQueued(d) => OneQueued(d)'
          /\ d = h => ~NotQueued(d)
          /\ d = h /\ OneQueued(d) => NotQueued(d)'
      BY <1>0, <2>1, QueueLoses
    <2>4. CASE Accept(a)
      <3>1. PICK p : p.draft = h /\ documents' = Append(documents, p)
        BY <2>4 DEF Accept
      <3>2. /\ d # h /\ NotWritten(d) => NotWritten(d)'
            /\ d # h /\ OneWritten(d) => OneWritten(d)'
            /\ d = h /\ NotWritten(d) => OneWritten(d)'
        BY <1>0, <3>1, DocumentsAdd
      <3>3. lost' = lost
        BY <2>4 DEF Accept
      <3> HIDE DEF h
      <3> QED BY <1>0, <2>2, <2>3, <3>2, <3>3 DEF Placed, SameUploads
    <2>5. CASE Refuse(a)
      <3>1. lost' = lost \cup {h} /\ SameWritten
        BY <1>1, <2>5 DEF Refuse
      <3> HIDE DEF h
      <3> QED BY <1>0, <2>2, <2>3, <3>1 DEF Placed, SameUploads, SameWritten
    <2> QED BY <1>8, <2>4, <2>5
  <1> QED BY <1>3, <1>4, <1>5, <1>6, <1>7, <1>8 DEF Next

(* Counting what is in one place only. *)
LEMMA PlacedIsCounted ==
  ASSUME NEW d \in Draft, Placed(d)
  PROVE  Copies(d) = IF d \in posted THEN 1 ELSE 0
  <1> DEFINE up == {post \in uploads : post.draft = d}
             at == UNION {{<<a, i>> : i \in {j \in DOMAIN queue[a] :
                                               queue[a][j].draft = d}} : a \in Account}
             on == {i \in DOMAIN documents : documents[i].draft = d}
             off == {d} \cap lost
  <1>1. /\ NoUpload(d) => up = {}
        /\ OneUpload(d) => \E x : up = {x}
    BY DEF NoUpload, OneUpload
  <1>2. \A x : x \in at <=> \E a, i : QueuedAt(d, a, i) /\ x = <<a, i>>
    BY DEF QueuedAt
  <1>3. /\ NotQueued(d) => at = {}
        /\ OneQueued(d) => \E x : at = {x}
    <2> HIDE DEF at
    <2>1. NotQueued(d) => at = {}
      BY <1>2 DEF NotQueued
    <2>2. ASSUME OneQueued(d) PROVE \E x : at = {x}
      <3>1. PICK a, i : QueuedAt(d, a, i) /\ \A b, j : QueuedAt(d, b, j) => b = a /\ j = i
        BY <2>2 DEF OneQueued
      <3>2. at = {<<a, i>>}
        BY <1>2, <3>1
      <3> QED BY <3>2
    <2> QED BY <2>1, <2>2
  <1>4. /\ NotWritten(d) => on = {}
        /\ OneWritten(d) => \E x : on = {x}
    BY DEF NotWritten, OneWritten
  <1>5. (d \notin lost => off = {}) /\ (d \in lost => off = {d})
    OBVIOUS
  <1>6. Cardinality({}) = 0 /\ \A x : Cardinality({x}) = 1
    BY FS_EmptySet, FS_Singleton
  <1>7. Copies(d) = Cardinality(up) + Cardinality(at) + Cardinality(on) + Cardinality(off)
    BY DEF Copies
  <1> HIDE DEF up, at, on, off
  <1>8. /\ (NoUpload(d) => Cardinality(up) = 0) /\ (OneUpload(d) => Cardinality(up) = 1)
        /\ (NotQueued(d) => Cardinality(at) = 0) /\ (OneQueued(d) => Cardinality(at) = 1)
        /\ (NotWritten(d) => Cardinality(on) = 0) /\ (OneWritten(d) => Cardinality(on) = 1)
        /\ (d \notin lost => Cardinality(off) = 0) /\ (d \in lost => Cardinality(off) = 1)
    BY <1>1, <1>3, <1>4, <1>5, <1>6
  <1> QED BY <1>7, <1>8 DEF Placed

(***************************************************************************)
(* A draft is published at most once, and one that was posted is on its    *)
(* way, queued, written or lost for a reason that lost names, for any      *)
(* number of drafts, screens and accounts.                                 *)
(***************************************************************************)
THEOREM DraftsArePublishedOnce == Spec => []PublishedOnce
  <1>1. Init => FormsInv /\ PlacesInv
    BY DEF Init, FormsInv, PlacesInv, Placed, NoUpload, NotQueued, QueuedAt, NotWritten
  <1>2. DraftsInv /\ FormsInv /\ PlacesInv /\ [Next]_vars => FormsInv' /\ PlacesInv'
    BY FormsKept, PlacesKept DEF PlacesInv, Draft
  <1>3. PlacesInv => PublishedOnce
    BY PlacedIsCounted DEF PlacesInv, PublishedOnce
  <1> QED BY <1>1, <1>2, <1>3, DraftsAndAuthors, PTL DEF Spec
=============================================================================
