------------------------------ MODULE Session ------------------------------
(***************************************************************************)
(* Who uses TravelMe: the welcome screen with its login, the registration  *)
(* screen, and the way to the home screen and back.  The screens stand on  *)
(* a navigation controller (Main.storyboard), so that the user leaves one  *)
(* with Back, whatever it waits for; a registration screen that was left   *)
(* still gets the answer of Firebase Auth.  The account is remembered in   *)
(* two places: currentUser of Auth, which also outlives the process, and   *)
(* Post.userEmail, which names the collection of the favourites.           *)
(***************************************************************************)
EXTENDS Integers, Sequences, SequencesExt

CONSTANTS
  Account,       \* the emails people sign in with, spelled in one way
  Registered,    \* those with an account at the beginning
  NoAccount,     \* nobody
  MaxRegisters,  \* bound: registration screens opened by one process
  MaxHomes       \* bound: home screens opened by one process

ASSUME SessionAssumption ==
  /\ Registered \subseteq Account
  /\ NoAccount \notin Account
  /\ MaxRegisters \in Nat
  /\ MaxHomes \in Nat

VARIABLES
  accounts,   \* the accounts Firebase Auth has
  user,       \* its currentUser, kept on the phone
  userEmail,  \* Post.userEmail
  path,       \* screens of the navigation controller, the visible one last
  registers,  \* number of registration screens opened so far
  homes,      \* number of home screens opened so far
  awaited,    \* whose sign-in each screen waits for
  hidden,     \* screens whose buttons are hidden
  owner,      \* history: whose sign-in opened the home screen on top
  late        \* history: whose registration was answered since, to no screen

sessionVars == <<accounts, user, userEmail, path, registers, homes, awaited,
                 hidden, owner, late>>

(* The welcome screen is 0, the registration screens are 1, 2, ... *)
Welcome == 0
SignInScreens == 0 .. MaxRegisters
Someone == Account \cup {NoAccount}
Places == {"welcome", "register", "home"}

SessionTypeOK ==
  /\ accounts \subseteq Account
  /\ user \in Someone
  /\ userEmail \in Someone
  /\ path \in Seq(Places)
  /\ registers \in SignInScreens
  /\ homes \in Nat
  /\ awaited \in [SignInScreens -> Someone]
  /\ hidden \subseteq SignInScreens
  /\ owner \in Someone
  /\ late \subseteq Account

(* What a process starts with. *)
Fresh ==
  [userEmail |-> NoAccount, path |-> <<"welcome">>, registers |-> 0,
   homes |-> 0, awaited |-> [s \in SignInScreens |-> NoAccount],
   hidden |-> {}, owner |-> NoAccount, late |-> {}]

SessionInit ==
  /\ accounts = Registered
  /\ user = NoAccount
  /\ userEmail = Fresh.userEmail
  /\ path = Fresh.path
  /\ registers = Fresh.registers
  /\ homes = Fresh.homes
  /\ awaited = Fresh.awaited
  /\ hidden = Fresh.hidden
  /\ owner = Fresh.owner
  /\ late = Fresh.late

At(place) == path[Len(path)] = place

(* The screen of sign-ins that the user sees. *)
Visible(s) ==
  IF s = Welcome THEN At("welcome") ELSE At("register") /\ s = registers

(* Bound: each sign-in under way may open a home screen. *)
RoomForHome ==
  homes + Cardinality({s \in SignInScreens : awaited[s] # NoAccount}) < MaxHomes

-----------------------------------------------------------------------------
(* The user.                                                               *)

(***************************************************************************)
(* loginBtn and registerBtn hide the buttons of their screen, and call     *)
(* Firebase Auth with the text that was typed.                             *)
(***************************************************************************)
SignIn(s, email) ==
  /\ Visible(s)
  /\ s \notin hidden
  /\ RoomForHome
  /\ awaited' = [awaited EXCEPT ![s] = email]
  /\ hidden' = hidden \cup {s}
  /\ UNCHANGED <<accounts, user, userEmail, path, registers, homes, owner, late>>

(* Faulty variant: the buttons of a screen that is seen again stay hidden. *)
ViewDidAppearForgotten(s) == UNCHANGED hidden

(* viewDidAppear of the screen that comes to the top shows its buttons. *)
ViewDidAppear(s) == hidden' = hidden \ {s}

(* The Register button, hidden together with the login. *)
OpenRegister ==
  /\ At("welcome")
  /\ Welcome \notin hidden
  /\ registers < MaxRegisters
  /\ registers' = registers + 1
  /\ path' = Append(path, "register")
  /\ ViewDidAppear(registers')
  /\ UNCHANGED <<accounts, user, userEmail, homes, awaited, owner, late>>

Back ==
  /\ Len(path) > 1
  /\ path' = Front(path)
  /\ ViewDidAppear(IF path[Len(path) - 1] = "register" THEN registers ELSE Welcome)
  /\ owner' = NoAccount
  /\ late' = {}
  /\ UNCHANGED <<accounts, user, userEmail, registers, homes, awaited>>

-----------------------------------------------------------------------------
(* Firebase Auth answers.                                                  *)

(***************************************************************************)
(* An error, for whatever reason: callback("wrong") shows the buttons.  A  *)
(* registration whose answer is lost may have made the account all the     *)
(* same.                                                                   *)
(***************************************************************************)
SignInFails(s) ==
  /\ awaited[s] # NoAccount
  /\ awaited' = [awaited EXCEPT ![s] = NoAccount]
  /\ hidden' = hidden \ {s}
  /\ accounts' \in {accounts} \cup
                   (IF s # Welcome THEN {accounts \cup {awaited[s]}} ELSE {})
  /\ UNCHANGED <<user, userEmail, path, registers, homes, owner, late>>

(* Login needs an account, and registration none. *)
Allowed(s) ==
  IF s = Welcome THEN awaited[s] \in accounts
                 ELSE awaited[s] \in Account \ accounts

(* Faulty variants: the email is not noted, or what comes with an error is. *)
RememberNothing(email) == UNCHANGED userEmail

RememberWrong(email) == userEmail' = "wrong"

(* Both screens: Post.userEmail is the email that was typed. *)
RememberEmail(email) == userEmail' = email

Answered(s) ==
  /\ Allowed(s)
  /\ accounts' = accounts \cup {awaited[s]}
  /\ user' = awaited[s]
  /\ RememberEmail(awaited[s])
  /\ awaited' = [awaited EXCEPT ![s] = NoAccount]
  /\ UNCHANGED <<registers, hidden>>

(* The segue to the tab bar: a new home screen on top. *)
SignInOpensHome(s) ==
  /\ Visible(s)
  /\ Answered(s)
  /\ path' = Append(path, "home")
  /\ homes' = homes + 1
  /\ owner' = awaited[s]
  /\ late' = {}

(***************************************************************************)
(* A registration screen that was left: it is in no navigation controller  *)
(* any more, so its segue shows nothing, but the email is set.             *)
(***************************************************************************)
SignInComesLate(s) ==
  /\ ~Visible(s)
  /\ Answered(s)
  /\ late' = IF At("home") THEN late \cup {awaited[s]} ELSE {}
  /\ UNCHANGED <<path, homes, owner>>

-----------------------------------------------------------------------------
(* The process ends and the app is started again.  Auth keeps its user; a  *)
(* registration under way may still make the account.                      *)
RestartSession ==
  /\ accounts' \in {accounts \cup made :
       made \in SUBSET {awaited[s] : s \in {t \in SignInScreens \ {Welcome} :
                                              awaited[t] # NoAccount}}}
  /\ userEmail' = Fresh.userEmail
  /\ path' = Fresh.path
  /\ registers' = Fresh.registers
  /\ homes' = Fresh.homes
  /\ awaited' = Fresh.awaited
  /\ hidden' = Fresh.hidden
  /\ owner' = Fresh.owner
  /\ late' = Fresh.late
  /\ UNCHANGED user

-----------------------------------------------------------------------------
(* Properties.                                                             *)

(***************************************************************************)
(* The home screen on top and Post.userEmail, which every read and write   *)
(* of favourites names its collection by, are of one account.  Screens can *)
(* be left and sign-ins overlap; only the answer to a registration that    *)
(* the user walked away from can part them.                                *)
(***************************************************************************)
HomeIsOwners == At("home") /\ userEmail # owner => userEmail \in late

(***************************************************************************)
(* A screen whose buttons are hidden waits for an answer, which will show  *)
(* them or open the home screen.  Hiding, showing and leaving are done by  *)
(* handlers of different screens; a screen with hidden buttons that waits  *)
(* for nothing, the welcome screen above all, could only be killed.        *)
(***************************************************************************)
HiddenWhileWaiting ==
  \A s \in SignInScreens : Visible(s) /\ s \in hidden => awaited[s] # NoAccount
=============================================================================
