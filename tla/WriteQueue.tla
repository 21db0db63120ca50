----------------------------- MODULE WriteQueue -----------------------------
(***************************************************************************)
(* What Firestore promises of the writes of an application, whatever its   *)
(* streams, batches and disk do: the writes of each user form a queue; the *)
(* server takes those of the current user in order, each at least once;    *)
(* the oldest leaves the queue when the server's answer to it has come.    *)
(* An attempt that breaks off starts again from the oldest write left, so  *)
(* what the server took meanwhile it takes again.  The application hears   *)
(* of a write at most once, when it leaves the queue, or just before.      *)
(*                                                                         *)
(* FirestoreWrites implements this module.                                 *)
(***************************************************************************)
EXTENDS Integers, Sequences

CONSTANTS
  User,       \* accounts of the phone
  MaxWrites   \* bound: writes of all of them together

VARIABLES
  user,       \* the account that is logged in
  writer,     \* writer[w] is the user who issued write number w
  queue,      \* queue[u]: the writes of u that await an answer, oldest first
  tried,      \* how many of the current user's this attempt has got applied
  applied,    \* applied[w]: how often the server has applied w
  refused,    \* the writes the server has refused at least once
  told        \* what the application has heard, oldest first

vars == <<user, writer, queue, tried, applied, refused, told>>

Write == 1 .. MaxWrites
Outcome == {"accepted", "rejected"}

Init ==
  /\ user \in User
  /\ writer = <<>>
  /\ queue = [u \in User |-> <<>>]
  /\ tried = 0
  /\ applied = [w \in Write |-> 0]
  /\ refused = {}
  /\ told = <<>>

Issue ==
  /\ Len(writer) < MaxWrites
  /\ writer' = Append(writer, user)
  /\ queue' = [queue EXCEPT ![user] = Append(@, Len(writer) + 1)]
  /\ UNCHANGED <<user, tried, applied, refused, told>>

Apply ==
  /\ tried < Len(queue[user])
  /\ tried' = tried + 1
  /\ applied' = [applied EXCEPT ![queue[user][tried + 1]] = @ + 1]
  /\ UNCHANGED <<user, writer, queue, refused, told>>

Refuse ==
  /\ tried < Len(queue[user])
  /\ refused' = refused \cup {queue[user][tried + 1]}
  /\ UNCHANGED <<user, writer, queue, tried, applied, told>>

(* Nobody is told of a write that an earlier process issued. *)
MayTell(outcome) ==
  told' \in {told, Append(told, [write |-> Head(queue[user]),
                                 outcome |-> outcome])}

Accept ==
  /\ tried > 0
  /\ queue' = [queue EXCEPT ![user] = Tail(@)]
  /\ tried' = tried - 1
  /\ MayTell("accepted")
  /\ UNCHANGED <<user, writer, applied, refused>>

Reject ==
  /\ queue[user] # <<>>
  /\ Head(queue[user]) \in refused
  /\ tried = 0
  /\ queue' = [queue EXCEPT ![user] = Tail(@)]
  /\ MayTell("rejected")
  /\ UNCHANGED <<user, writer, tried, applied, refused>>

(* The process may die between telling and recording. *)
BreakOff ==
  /\ tried' = 0
  /\ \/ told' = told
     \/ tried > 0 /\ MayTell("accepted")
  /\ UNCHANGED <<user, writer, queue, applied, refused>>

ChangeUser ==
  /\ user' \in User
  /\ tried' = 0
  /\ UNCHANGED <<writer, queue, applied, refused, told>>

Next ==
  \/ Issue
  \/ Apply
  \/ Refuse
  \/ Accept
  \/ Reject
  \/ BreakOff
  \/ ChangeUser

Spec == Init /\ [][Next]_vars
=============================================================================
