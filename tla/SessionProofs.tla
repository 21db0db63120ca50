---------------------------- MODULE SessionProofs ----------------------------
(***************************************************************************)
(* Lemmas about Session, for the proofs of the modules that extend it: the *)
(* screens that can stand on each other, and what each step of the session *)
(* does to its types, to who is signed in and to the buttons.              *)
(***************************************************************************)
EXTENDS Session, SequenceTheorems, FiniteSetTheorems, TLAPS

(* The screens that can stand on each other. *)
W == <<"welcome">>
WR == <<"welcome", "register">>
WH == <<"welcome", "home">>
WRH == <<"welcome", "register", "home">>

Paths == {W, WR, WH, WRH}

(***************************************************************************)
(* Who is signed in: a home screen was opened by an account's sign-in, and *)
(* after it Post.userEmail is Auth's user until the process ends.          *)
(***************************************************************************)
SessionInv ==
  /\ path \in Paths
  /\ registers = 0 => path \in {W, WH}
  /\ homes > 0 => userEmail # NoAccount
  /\ path \in {WH, WRH} => homes > 0 /\ owner # NoAccount
  /\ userEmail # NoAccount => userEmail = user

Seated == SessionTypeOK /\ SessionInv

-----------------------------------------------------------------------------
(* Paths.                                                                  *)

LEMMA PathsAreSequences == Paths \subseteq Seq(Places)
  <1>1. W \in Seq(Places) BY DEF W, Places
  <1>2. WR \in Seq(Places) BY DEF WR, Places
  <1>3. WH \in Seq(Places) BY DEF WH, Places
  <1>4. WRH \in Seq(Places) BY DEF WRH, Places
  <1> QED BY <1>1, <1>2, <1>3, <1>4 DEF Paths

LEMMA Lengths == Len(W) = 1 /\ Len(WR) = 2 /\ Len(WH) = 2 /\ Len(WRH) = 3
  BY DEF W, WR, WH, WRH

LEMMA Elements ==
  /\ W[1] = "welcome"
  /\ WR[1] = "welcome" /\ WR[2] = "register"
  /\ WH[1] = "welcome" /\ WH[2] = "home"
  /\ WRH[1] = "welcome" /\ WRH[2] = "register" /\ WRH[3] = "home"
  BY DEF W, WR, WH, WRH

LEMMA PathFacts ==
  ASSUME NEW q \in Paths
  PROVE  /\ q[Len(q)] = "welcome" <=> q = W
         /\ q[Len(q)] = "register" <=> q = WR
         /\ q[Len(q)] = "home" <=> q \in {WH, WRH}
  BY Lengths, Elements DEF Paths

LEMMA PathsDiffer ==
  W # WR /\ W # WH /\ W # WRH /\ WR # WH /\ WR # WRH /\ WH # WRH
  BY Lengths, Elements

(* Two ways to say that sequence r is q with x on top of it. *)
LEMMA OnTop ==
  ASSUME NEW q \in Seq(Places), NEW x \in Places, NEW r \in Seq(Places),
         Len(r) = Len(q) + 1, \A i \in 1 .. Len(q) : r[i] = q[i], r[Len(r)] = x
  PROVE  Append(q, x) = r /\ Front(r) = q
  <1>1. Append(q, x) = r
    <2>1. /\ Append(q, x) \in Seq(Places) /\ Len(Append(q, x)) = Len(q) + 1
          /\ \A i \in 1 .. Len(q) : Append(q, x)[i] = q[i]
          /\ Append(q, x)[Len(q) + 1] = x
      BY AppendProperties
    <2>2. \A i \in 1 .. Len(q) + 1 : Append(q, x)[i] = r[i]
      BY <2>1
    <2> QED BY <2>1, <2>2, SeqEqual
  <1>2. Front(r) = q
    <2>1. Len(q) \in Nat /\ Len(r) - 1 = Len(q) /\ \A i \in 1 .. Len(q) : r[i] \in Places
      BY ElementOfSeq
    <2>2. /\ SubSeq(r, 1, Len(q)) \in Seq(Places)
          /\ Len(SubSeq(r, 1, Len(q))) = Len(q)
          /\ \A i \in 1 .. Len(q) : SubSeq(r, 1, Len(q))[i] = r[i]
      BY <2>1, SubSeqProperties
    <2> QED BY <2>1, <2>2, SeqEqual DEF Front
  <1> QED BY <1>1, <1>2

LEMMA RegisterOnWelcome == Append(W, "register") = WR /\ Front(WR) = W
  <1>1. /\ Len(WR) = Len(W) + 1 /\ WR[Len(WR)] = "register"
        /\ \A i \in 1 .. Len(W) : WR[i] = W[i]
    BY Lengths, Elements
  <1>2. W \in Seq(Places) /\ WR \in Seq(Places) BY PathsAreSequences DEF Paths
  <1> QED BY <1>1, <1>2, OnTop DEF Places

LEMMA HomeOnWelcome == Append(W, "home") = WH /\ Front(WH) = W
  <1>1. /\ Len(WH) = Len(W) + 1 /\ WH[Len(WH)] = "home"
        /\ \A i \in 1 .. Len(W) : WH[i] = W[i]
    BY Lengths, Elements
  <1>2. W \in Seq(Places) /\ WH \in Seq(Places) BY PathsAreSequences DEF Paths
  <1> QED BY <1>1, <1>2, OnTop DEF Places

LEMMA HomeOnRegister == Append(WR, "home") = WRH /\ Front(WRH) = WR
  <1>1. /\ Len(WRH) = Len(WR) + 1 /\ WRH[Len(WRH)] = "home"
        /\ \A i \in 1 .. Len(WR) : WRH[i] = WR[i]
    BY Lengths, Elements
  <1>2. WR \in Seq(Places) /\ WRH \in Seq(Places) BY PathsAreSequences DEF Paths
  <1> QED BY <1>1, <1>2, OnTop DEF Places

LEMMA BackFacts ==
  ASSUME NEW q \in Paths, Len(q) > 1
  PROVE  \/ q = WR  /\ Front(q) = W  /\ q[Len(q) - 1] = "welcome"
         \/ q = WH  /\ Front(q) = W  /\ q[Len(q) - 1] = "welcome"
         \/ q = WRH /\ Front(q) = WR /\ q[Len(q) - 1] = "register"
  <1>0. ~(Len(W) > 1) BY Lengths
  <1>1. q # W BY <1>0
  <1>2. CASE q = WR  BY <1>2, Lengths, Elements, RegisterOnWelcome
  <1>3. CASE q = WH  BY <1>3, Lengths, Elements, HomeOnWelcome
  <1>4. CASE q = WRH BY <1>4, Lengths, Elements, HomeOnRegister
  <1> QED BY <1>1, <1>2, <1>3, <1>4 DEF Paths

LEMMA Homes ==
  ASSUME path \in Paths
  PROVE  At("home") <=> path \in {WH, WRH}
  BY PathFacts DEF At

-----------------------------------------------------------------------------
(* The session's own steps keep its types and its invariant.               *)

SessionKept == SessionTypeOK' /\ SessionInv'

LEMMA MovesKeepSession ==
  ASSUME SessionAssumption, Seated,
         OpenRegister \/ Back \/ \E s \in SignInScreens, a \in Account : SignIn(s, a)
  PROVE  SessionKept /\ homes' = homes
  <1> USE SessionAssumption DEF SessionAssumption
  <1>0. SessionTypeOK /\ SessionInv BY DEF Seated
  <1>1. ASSUME NEW s \in SignInScreens, NEW a \in Account, SignIn(s, a)
        PROVE  SessionKept /\ homes' = homes
    <2>1. awaited' \in [SignInScreens -> Someone] /\ hidden' \subseteq SignInScreens
      BY <1>0, <1>1 DEF SignIn, SessionTypeOK, Someone
    <2>2. UNCHANGED <<accounts, user, userEmail, path, registers, homes, owner, late>>
      BY <1>1 DEF SignIn
    <2> QED BY <1>0, <2>1, <2>2 DEF SessionTypeOK, SessionInv, SessionKept
  <1>2. CASE OpenRegister
    <2>1. path = W /\ path' = WR
      BY <1>0, <1>2, PathFacts, RegisterOnWelcome DEF OpenRegister, SessionInv, At
    <2>2. registers' \in SignInScreens /\ registers' # 0
      BY <1>0, <1>2 DEF OpenRegister, SessionTypeOK, SignInScreens
    <2>3. path' \in Paths /\ path' \in Seq(Places) /\ path' \notin {WH, WRH}
      BY <2>1, PathsAreSequences, PathsDiffer DEF Paths
    <2>4. UNCHANGED <<accounts, user, userEmail, homes, awaited, owner, late>>
      BY <1>2 DEF OpenRegister
    <2>5. hidden' \subseteq SignInScreens
      BY <1>0, <1>2 DEF OpenRegister, ViewDidAppear, SessionTypeOK
    <2> QED BY <1>0, <2>2, <2>3, <2>4, <2>5 DEF SessionTypeOK, SessionInv, SessionKept
  <1>3. CASE Back
    <2>1. path' \in {W, WR} /\ (registers = 0 => path' = W)
      BY <1>0, <1>3, BackFacts, PathsDiffer DEF Back, SessionInv
    <2>2. path' \in Paths /\ path' \in Seq(Places) /\ path' \notin {WH, WRH}
      BY <2>1, PathsAreSequences, PathsDiffer DEF Paths
    <2>3. owner' \in Someone /\ late' \subseteq Account
      BY <1>3 DEF Back, Someone
    <2>4. UNCHANGED <<accounts, user, userEmail, registers, homes, awaited>>
      BY <1>3 DEF Back
    <2>5. hidden' \subseteq SignInScreens
      BY <1>0, <1>3 DEF Back, ViewDidAppear, SessionTypeOK
    <2> QED
      BY <1>0, <2>1, <2>2, <2>3, <2>4, <2>5 DEF SessionTypeOK, SessionInv, SessionKept
  <1> QED BY <1>1, <1>2, <1>3

LEMMA AnsweredKeeps ==
  ASSUME SessionAssumption, SessionTypeOK, NEW s \in SignInScreens, Answered(s)
  PROVE  /\ awaited[s] \in Account /\ userEmail' = awaited[s] /\ user' = awaited[s]
         /\ accounts' \subseteq Account /\ registers' = registers
         /\ awaited' \in [SignInScreens -> Someone] /\ hidden' = hidden
  <1>1. awaited[s] \in Account BY DEF Answered, Allowed, SessionTypeOK
  <1> QED BY <1>1 DEF Answered, RememberEmail, SessionTypeOK, Someone

LEMMA AuthKeepsSession ==
  ASSUME SessionAssumption, Seated, NEW s \in SignInScreens
  PROVE  /\ SignInFails(s) => SessionKept /\ homes' = homes
         /\ SignInComesLate(s) => SessionKept /\ homes' = homes
         /\ SignInOpensHome(s) => SessionKept /\ homes' > 0
  <1> USE SessionAssumption DEF SessionAssumption
  <1>0. SessionTypeOK /\ SessionInv BY DEF Seated
  <1>1. ASSUME SignInFails(s) PROVE SessionKept /\ homes' = homes
    <2>1. accounts' \subseteq Account
      <3>1. awaited[s] \in Account BY <1>0, <1>1 DEF SignInFails, SessionTypeOK, Someone
      <3> QED BY <1>0, <1>1, <3>1 DEF SignInFails, SessionTypeOK
    <2>2. awaited' \in [SignInScreens -> Someone] /\ hidden' \subseteq SignInScreens
      BY <1>0, <1>1 DEF SignInFails, SessionTypeOK, Someone
    <2>3. UNCHANGED <<user, userEmail, path, registers, homes, owner, late>>
      BY <1>1 DEF SignInFails
    <2> QED BY <1>0, <2>1, <2>2, <2>3, <1>1 DEF SessionTypeOK, SessionInv, SessionKept
  <1>2. ASSUME Answered(s), path' \in Paths, owner' \in Someone, late' \subseteq Account,
               homes' \in Nat, path' \in {WH, WRH} => homes' > 0 /\ owner' # NoAccount,
               registers = 0 => path' \in {W, WH}
        PROVE  SessionKept
    <2>1. path' \in Seq(Places) BY <1>2, PathsAreSequences
    <2>2. awaited[s] # NoAccount /\ awaited[s] \in Someone
      BY <1>0, <1>2, AnsweredKeeps DEF Someone
    <2>3. SessionTypeOK'
      BY <1>0, <1>2, <2>1, <2>2, AnsweredKeeps DEF SessionTypeOK
    <2>4. SessionInv'
      BY <1>0, <1>2, <2>2, AnsweredKeeps DEF SessionInv
    <2> QED BY <2>3, <2>4 DEF SessionKept
  <1>3. ASSUME SignInComesLate(s) PROVE SessionKept /\ homes' = homes
    <2>1. /\ Answered(s) /\ UNCHANGED <<path, homes, owner>>
          /\ late' \in {late \cup {awaited[s]}, {}}
      BY <1>3 DEF SignInComesLate
    <2>2. late' \subseteq Account
      BY <1>0, <2>1, AnsweredKeeps DEF SessionTypeOK
    <2>3. SessionKept
      BY <1>0, <1>2, <2>1, <2>2 DEF SessionTypeOK, SessionInv
    <2> QED BY <2>1, <2>3, <1>3
  <1>4. ASSUME SignInOpensHome(s) PROVE SessionKept /\ homes' > 0
    <2>1. \/ path = W /\ path' = WH
          \/ path = WR /\ path' = WRH
      <3>1. path[Len(path)] \in {"welcome", "register"} /\ path' = Append(path, "home")
        BY <1>4 DEF SignInOpensHome, Visible, At
      <3> QED BY <1>0, <3>1, PathFacts, HomeOnWelcome, HomeOnRegister DEF SessionInv
    <2>2. path' \in Paths
      BY <2>1 DEF Paths
    <2>3. registers = 0 => path' \in {W, WH}
      BY <1>0, <2>1, PathsDiffer DEF SessionInv
    <2>4. /\ Answered(s) /\ homes' \in Nat /\ homes' > 0 /\ late' = {}
          /\ owner' = awaited[s] /\ owner' \in Someone /\ owner' # NoAccount
      BY <1>0, <1>4, AnsweredKeeps DEF SignInOpensHome, SessionTypeOK, Someone
    <2>5. SessionKept
      BY <1>2, <2>2, <2>3, <2>4
    <2> QED BY <2>4, <2>5, <1>4
  <1> QED BY <1>1, <1>3, <1>4

LEMMA RestartKeepsSession ==
  ASSUME SessionAssumption, Seated, RestartSession
  PROVE  SessionKept
  <1> USE SessionAssumption DEF SessionAssumption
  <1>0. SessionTypeOK /\ SessionInv BY DEF Seated
  <1>1. W \in Paths /\ W \in Seq(Places) /\ W \notin {WH, WRH}
    BY PathsAreSequences, PathsDiffer DEF Paths
  <1>2. accounts' \subseteq Account
    BY <1>0 DEF RestartSession, SessionTypeOK, Someone
  <1>3. /\ userEmail' = NoAccount /\ path' = W /\ registers' = 0 /\ homes' = 0
        /\ awaited' = [s \in SignInScreens |-> NoAccount] /\ hidden' = {}
        /\ owner' = NoAccount /\ late' = {} /\ user' = user
    BY DEF RestartSession, Fresh, W
  <1>4. awaited' \in [SignInScreens -> Someone] /\ registers' \in SignInScreens
    BY <1>3 DEF Someone, SignInScreens
  <1> QED
    BY <1>0, <1>1, <1>2, <1>3, <1>4
    DEF SessionTypeOK, SessionInv, SessionKept, Someone

LEMMA SameSession ==
  ASSUME Seated, UNCHANGED sessionVars
  PROVE  SessionKept /\ homes' = homes
  BY DEF Seated, SessionKept, SessionTypeOK, SessionInv, sessionVars

LEMMA SessionStarts ==
  ASSUME SessionAssumption, SessionInit
  PROVE  Seated /\ ~At("home")
  <1>1. path = W /\ W \in Seq(Places) /\ W \in Paths /\ W \notin {WH, WRH}
    BY PathsAreSequences, PathsDiffer DEF SessionInit, Fresh, W, Paths
  <1>2. SessionTypeOK
    BY <1>1, SessionAssumption
    DEF SessionInit, Fresh, SessionTypeOK, Someone, SignInScreens, SessionAssumption
  <1>3. SessionInv
    BY <1>1 DEF SessionInit, Fresh, SessionInv
  <1> QED BY <1>1, <1>2, <1>3, Homes DEF Seated

(* What is at home: an account, its own favourites' collection's name. *)
LEMMA AtHome ==
  ASSUME SessionTypeOK, SessionInv, At("home")
  PROVE  /\ homes \in Nat /\ homes > 0 /\ owner \in Account
         /\ userEmail \in Account /\ user = userEmail
  BY Homes DEF SessionTypeOK, SessionInv, Someone

-----------------------------------------------------------------------------
(* All the steps of the session.                                           *)

SessionSteps ==
  \/ UNCHANGED sessionVars \/ RestartSession
  \/ OpenRegister \/ Back
  \/ \E s \in SignInScreens :
       \/ \E a \in Account : SignIn(s, a)
       \/ SignInFails(s) \/ SignInComesLate(s) \/ SignInOpensHome(s)

LEMMA AwayFromHome ==
  ASSUME path' \in {W, WR}
  PROVE  ~At("home")'
  <1>1. path' \in Paths /\ path' \notin {WH, WRH} BY PathsDiffer DEF Paths
  <1> QED BY <1>1, PathFacts DEF At

LEMMA StartPath == RestartSession => path' = W
  BY DEF RestartSession, Fresh, W

LEMMA BackPath ==
  ASSUME SessionInv, Back
  PROVE  path' \in {W, WR}
  BY BackFacts DEF SessionInv, Back

LEMMA RegisterPath ==
  ASSUME SessionInv, OpenRegister
  PROVE  path = W /\ path' = WR
  BY PathFacts, RegisterOnWelcome DEF SessionInv, OpenRegister, At

LEMMA HomePath ==
  ASSUME SessionInv, NEW s, SignInOpensHome(s)
  PROVE  path' \in {WH, WRH}
  <1>1. path[Len(path)] \in {"welcome", "register"} /\ path' = Append(path, "home")
    BY DEF SignInOpensHome, Visible, At
  <1> QED BY <1>1, PathFacts, HomeOnWelcome, HomeOnRegister DEF SessionInv

LEMMA OwnerKept ==
  ASSUME Seated, HomeIsOwners, SessionSteps
  PROVE  HomeIsOwners'
  <1>0. SessionInv BY DEF Seated
  <1>1. CASE UNCHANGED sessionVars
    BY <1>1 DEF HomeIsOwners, At, sessionVars
  <1>2. CASE RestartSession \/ OpenRegister \/ Back
    <2>1. path' \in {W, WR} BY <1>0, <1>2, StartPath, BackPath, RegisterPath
    <2> QED BY <2>1, AwayFromHome DEF HomeIsOwners
  <1>3. ASSUME NEW s \in SignInScreens,
               (\E a \in Account : SignIn(s, a)) \/ SignInFails(s)
        PROVE  HomeIsOwners'
    BY <1>3 DEF SignIn, SignInFails, HomeIsOwners, At
  <1>4. ASSUME NEW s \in SignInScreens, SignInComesLate(s)
        PROVE  HomeIsOwners'
    <2>1. path' = path /\ userEmail' = awaited[s]
          /\ late' = IF At("home") THEN late \cup {awaited[s]} ELSE {}
      BY <1>4 DEF SignInComesLate, Answered, RememberEmail
    <2> QED BY <2>1 DEF HomeIsOwners, At
  <1>5. ASSUME NEW s \in SignInScreens, SignInOpensHome(s)
        PROVE  HomeIsOwners'
    BY <1>5 DEF SignInOpensHome, Answered, RememberEmail, HomeIsOwners
  <1> QED BY <1>1, <1>2, <1>3, <1>4, <1>5 DEF SessionSteps

LEMMA SeenBySamePath ==
  ASSUME path' = path, registers' = registers, NEW s
  PROVE  Visible(s)' <=> Visible(s)
  BY DEF Visible, At

LEMMA ButtonsKept ==
  ASSUME SessionAssumption, Seated, HiddenWhileWaiting, SessionSteps
  PROVE  HiddenWhileWaiting'
  <1>0. SessionInv /\ SessionTypeOK BY DEF Seated
  <1> SUFFICES ASSUME NEW t \in SignInScreens, Visible(t)', t \in hidden'
               PROVE  awaited'[t] # NoAccount
    BY DEF HiddenWhileWaiting
  <1>1. CASE UNCHANGED sessionVars
    BY <1>1, SeenBySamePath DEF HiddenWhileWaiting, sessionVars
  <1>2. CASE RestartSession
    BY <1>2 DEF RestartSession, Fresh
  <1>3. CASE OpenRegister
    <2>1. path' = WR BY <1>0, <1>3, RegisterPath
    <2>2. path'[Len(path')] = "register" BY <2>1, PathFacts DEF Paths
    <2>3. t = registers' BY <2>2 DEF Visible, At
    <2>4. t \notin hidden' BY <1>3, <2>3 DEF OpenRegister, ViewDidAppear
    <2> QED BY <2>4
  <1>4. CASE Back
    <2>1. /\ Len(path) > 1 /\ path' = Front(path)
          /\ ViewDidAppear(IF path[Len(path) - 1] = "register" THEN registers ELSE Welcome)
          /\ registers' = registers
      BY <1>4 DEF Back
    <2>2. \/ path' = W /\ path[Len(path) - 1] = "welcome"
          \/ path' = WR /\ path[Len(path) - 1] = "register"
      BY <1>0, <2>1, BackFacts DEF SessionInv
    <2>3. CASE path' = W /\ path[Len(path) - 1] = "welcome"
      <3>1. path'[Len(path')] = "welcome" BY <2>3, PathFacts DEF Paths
      <3>2. t = Welcome BY <3>1 DEF Visible, At
      <3> QED BY <2>1, <2>3, <3>2 DEF ViewDidAppear
    <2>4. CASE path' = WR /\ path[Len(path) - 1] = "register"
      <3>1. path'[Len(path')] = "register" BY <2>4, PathFacts DEF Paths
      <3>2. t = registers BY <2>1, <3>1 DEF Visible, At
      <3> QED BY <2>1, <2>4, <3>2 DEF ViewDidAppear
    <2> QED BY <2>2, <2>3, <2>4
  <1>5. ASSUME NEW s \in SignInScreens, NEW a \in Account, SignIn(s, a)
        PROVE  awaited'[t] # NoAccount
    <2>1. /\ path' = path /\ registers' = registers /\ hidden' = hidden \cup {s}
          /\ awaited' = [awaited EXCEPT ![s] = a]
      BY <1>5 DEF SignIn
    <2>2. Visible(t) BY <2>1, SeenBySamePath
    <2>3. CASE t = s BY <1>0, <2>1, <2>3, SessionAssumption DEF SessionAssumption, SessionTypeOK
    <2>4. CASE t # s BY <1>0, <2>1, <2>2, <2>4 DEF HiddenWhileWaiting, SessionTypeOK
    <2> QED BY <2>3, <2>4
  <1>6. ASSUME NEW s \in SignInScreens, SignInFails(s)
        PROVE  awaited'[t] # NoAccount
    <2>1. /\ path' = path /\ registers' = registers /\ hidden' = hidden \ {s}
          /\ awaited' = [awaited EXCEPT ![s] = NoAccount]
      BY <1>6 DEF SignInFails
    <2>2. Visible(t) /\ t # s BY <2>1, SeenBySamePath
    <2> QED BY <1>0, <2>1, <2>2 DEF HiddenWhileWaiting, SessionTypeOK
  <1>7. ASSUME NEW s \in SignInScreens, SignInComesLate(s)
        PROVE  awaited'[t] # NoAccount
    <2>1. /\ path' = path /\ registers' = registers /\ hidden' = hidden /\ ~Visible(s)
          /\ awaited' = [awaited EXCEPT ![s] = NoAccount]
      BY <1>7 DEF SignInComesLate, Answered
    <2>2. Visible(t) /\ t # s BY <2>1, SeenBySamePath
    <2> QED BY <1>0, <2>1, <2>2 DEF HiddenWhileWaiting, SessionTypeOK
  <1>8. ASSUME NEW s \in SignInScreens, SignInOpensHome(s)
        PROVE  awaited'[t] # NoAccount
    <2>1. path' \in {WH, WRH} BY <1>0, <1>8, HomePath
    <2>2. path'[Len(path')] = "home" BY <2>1, PathFacts DEF Paths
    <2> QED BY <2>2 DEF Visible, At
  <1> QED BY <1>1, <1>2, <1>3, <1>4, <1>5, <1>6, <1>7, <1>8 DEF SessionSteps
=============================================================================
