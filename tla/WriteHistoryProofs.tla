-------------------------- MODULE WriteHistoryProofs --------------------------
(***************************************************************************)
(* What FirestoreWrites promises over time: no write is lost, the server   *)
(* takes the writes of a user in their order, takes one twice only if its  *)
(* answer was lost, and what the application hears is true.  With them it  *)
(* implements WriteQueue.                                                  *)
(***************************************************************************)
EXTENDS FirestoreWritesProofs

(* The server has applied what the client has not yet heard of. *)
ServedApplied ==
  \A i \in 1 .. served : applied[batches[user][i].write] > 0

(* A queued write that the server has applied is among these, or its answer *)
(* has been lost.                                                           *)
AppliedKnown ==
  \A u \in User : \A i \in 1 .. Len(batches[u]) :
    applied[batches[u][i].write] > 0 =>
      batches[u][i].write \in unheard \/ (u = user /\ i <= served)

NewNotApplied == \A w \in Write : w > Len(writer) => applied[w] = 0

Queued(w) ==
  \E i \in 1 .. Len(batches[writer[w]]) : batches[writer[w]][i].write = w

NoneLost ==
  \A w \in 1 .. Len(writer) : Queued(w) \/ applied[w] > 0 \/ w \in refused

(* The writes that await an answer of this process come after those that   *)
(* the application has heard of; a rejected one is not tried again.        *)
ToldBefore ==
  \A k \in 1 .. Len(told) :
    /\ told[k].write <= Len(writer)
    /\ \A u \in User : \A i \in 1 .. Len(batches[u]) :
         /\ batches[u][i].write > launched /\ writer[told[k].write] = u =>
              told[k].write < batches[u][i].write
         /\ told[k].outcome = "rejected" =>
              batches[u][i].write # told[k].write

ToldTrue ==
  \A k \in 1 .. Len(told) :
    LET w == told[k].write
    IN  /\ told[k].outcome = "accepted" => applied[w] > 0
        /\ told[k].outcome = "rejected" =>
             w \in refused /\ (applied[w] > 0 => w \in unheard)
        /\ \A j \in 1 .. k - 1 : writer[told[j].write] = writer[w] =>
                                   told[j].write < w

HistoryInv ==
  /\ ServedApplied
  /\ AppliedKnown
  /\ NewNotApplied
  /\ NoneLost
  /\ DuplicatesExplained
  /\ ToldBefore
  /\ ToldTrue

-----------------------------------------------------------------------------
(* Facts about the queues and the stream.                                  *)

LEMMA QueueFacts ==
  ASSUME WritesInv
  PROVE  /\ Len(writer) \in 0 .. MaxWrites /\ MaxWrites \in Nat
         /\ \A w \in 1 .. Len(writer) : writer[w] \in User /\ w \in Write
         /\ user \in User
         /\ served \in Nat
         /\ \A u \in User : batches[u] \in Seq(Batch) /\ Ascending(batches[u])
         /\ \A u \in User : Len(batches[u]) \in Nat
         /\ \A u \in User : \A i \in 1 .. Len(batches[u]) :
               /\ batches[u][i] \in Batch
               /\ batches[u][i].write \in 1 .. Len(writer)
               /\ batches[u][i].write \in Write
               /\ writer[batches[u][i].write] = u
         /\ served <= Len(sent) /\ Len(sent) <= Len(batches[user])
         /\ \A i \in 1 .. Len(sent) :
               i \in 1 .. Len(batches[user]) /\ sent[i] = batches[user][i]
         /\ Unanswered = {batches[user][i].write : i \in 1 .. served}
         /\ launched \in Nat /\ launched <= Len(writer)
<1>1. QueuesInv /\ StreamInv
  BY DEF WritesInv
<1>2. /\ writer \in Seq(User) /\ Len(writer) \in Nat /\ MaxWrites \in Nat
      /\ Len(writer) <= MaxWrites
  BY <1>1, LenProperties, FirestoreWritesAssumption DEF QueuesInv
<1>3. \A w \in 1 .. Len(writer) : writer[w] \in User /\ w \in Write
  BY <1>2, ElementOfSeq DEF Write
<1>4. /\ user \in User
      /\ served \in Nat
      /\ launched \in Nat /\ launched <= Len(writer)
  BY <1>1, <1>2 DEF QueuesInv, StreamInv
<1>5. \A u \in User : batches[u] \in Seq(Batch) /\ Ascending(batches[u])
  BY <1>1 DEF QueuesInv
<1>6. ASSUME NEW u \in User
      PROVE  /\ Len(batches[u]) \in Nat
             /\ \A i \in 1 .. Len(batches[u]) :
                  /\ batches[u][i] \in Batch
                  /\ batches[u][i].write \in 1 .. MaxWrites
                  /\ batches[u][i].write \in Nat
  BY <1>5, BatchesOf
<1>7. ASSUME NEW u \in User, NEW i \in 1 .. Len(batches[u])
      PROVE  /\ batches[u][i].write \in 1 .. Len(writer)
             /\ batches[u][i].write \in Write
             /\ writer[batches[u][i].write] = u
  <2>1. batches[u][i].write <= Len(writer) /\ writer[batches[u][i].write] = u
    BY <1>1 DEF QueuesInv, IdsInUse
  <2> QED BY <1>2, <1>3, <1>6, <2>1
<1>8. /\ Prefix(pipeline, batches[user])
      /\ pipeline \in Seq(Batch) /\ sent \in Seq(Batch)
      /\ sent = pipeline \/ sent = <<>>
      /\ served <= Len(sent)
  BY <1>1, PipelineIsFront DEF StreamInv, RequestsMatch
<1>9. Len(<<>>) = 0 /\ Len(sent) \in Nat /\ Len(pipeline) \in Nat
  BY <1>8, BatchesOf
<1>10. /\ Len(sent) <= Len(batches[user])
       /\ \A i \in 1 .. Len(sent) :
             i \in 1 .. Len(batches[user]) /\ sent[i] = batches[user][i]
  BY <1>4, <1>6, <1>8, <1>9 DEF Prefix
<1>11. Unanswered = {batches[user][i].write : i \in 1 .. served}
  <2>1. \A i \in 1 .. served : sent[i] = batches[user][i]
    BY <1>4, <1>8, <1>9, <1>10
  <2> QED BY <2>1 DEF Unanswered
<1> QED
  BY <1>2, <1>3, <1>4, <1>5, <1>6, <1>7, <1>8, <1>10, <1>11

(* The head leaves; the others keep their order. *)
LEMMA OthersStay ==
  ASSUME WritesInv, pipeline # <<>>,
         batches' = [batches EXCEPT ![user] =
                       RemoveMutationBatch(@, Head(pipeline))]
  PROVE  /\ Head(pipeline) = batches[user][1]
         /\ Len(batches[user]) \in Nat \ {0}
         /\ Len(batches'[user]) = Len(batches[user]) - 1
         /\ \A i \in 1 .. Len(batches'[user]) :
              i + 1 \in 1 .. Len(batches[user])
              /\ batches'[user][i] = batches[user][i + 1]
         /\ \A u \in User \ {user} : batches'[u] = batches[u]
<1>1. QueuesInv /\ StreamInv
  BY DEF WritesInv
<1>2. /\ batches[user] # <<>> /\ batches[user] \in Seq(Batch) /\ user \in User
      /\ Head(pipeline) = batches[user][1]
      /\ batches'[user] = Tail(batches[user])
      /\ \A u \in User \ {user} : batches'[u] = batches[u]
  BY <1>1, HeadOfPipeline DEF QueuesInv
<1>3. /\ Len(batches[user]) \in Nat \ {0}
      /\ Len(Tail(batches[user])) = Len(batches[user]) - 1
      /\ \A i \in 1 .. Len(batches[user]) - 1 :
            Tail(batches[user])[i] = batches[user][i + 1]
  BY <1>2, TailOf
<1>4. ASSUME NEW i \in 1 .. Len(batches'[user])
      PROVE  i + 1 \in 1 .. Len(batches[user])
             /\ batches'[user][i] = batches[user][i + 1]
  <2>1. i \in 1 .. Len(batches[user]) - 1
    BY <1>2, <1>3
  <2>2. i + 1 \in 1 .. Len(batches[user])
    BY <1>3, <2>1
  <2> QED BY <1>2, <1>3, <2>1, <2>2
<1>5. Len(batches'[user]) = Len(batches[user]) - 1
  BY <1>2, <1>3
<1> QED BY <1>2, <1>3, <1>4, <1>5

(* What is told is the head, and only if this process issued it. *)
LEMMA ToldIsHead ==
  ASSUME WritesInv, pipeline # <<>>, NEW outcome,
         NotifyUser(Head(pipeline), outcome)
  PROVE  \/ told' = told
         \/ /\ Head(pipeline).write > launched
            /\ told' = Append(told, [write |-> Head(pipeline).write,
                                     outcome |-> outcome])
<1> DEFINE b == Head(pipeline)
           found == {c \in callbacks[user] : c.id = b.id}
<1>1. found = IF b.write > launched THEN {b} ELSE {}
  BY HeadOfPipeline DEF WritesInv
<1>2. told' = IF found = {}
              THEN told
              ELSE Append(told, [write |-> (CHOOSE c \in found : TRUE).write,
                                 outcome |-> outcome])
  BY DEF NotifyUser
<1> HIDE DEF found, b
<1>3. found # {} => (CHOOSE c \in found : TRUE) = b /\ b.write > launched
  BY <1>1
<1> QED BY <1>2, <1>3 DEF b

LEMMA ToldFacts ==
  ASSUME WritesInv, HistoryInv, NEW k \in 1 .. Len(told)
  PROVE  /\ told[k].write \in 1 .. Len(writer)
         /\ told[k].write \in Nat
         /\ told[k].outcome \in {"accepted", "rejected"}
<1>1. told \in Seq(Telling)
  BY DEF WritesInv, HistoryTyped, Telling
<1>2. told[k] \in Telling
  BY <1>1, ElementOfSeq
<1>3. told[k].write \in Write /\ told[k].outcome \in {"accepted", "rejected"}
  BY <1>2 DEF Telling
<1>4. told[k].write <= Len(writer)
  BY DEF HistoryInv, ToldBefore
<1>5. MaxWrites \in Nat /\ Len(writer) \in Nat
  BY QueueFacts
<1> QED BY <1>3, <1>4, <1>5 DEF Write

-----------------------------------------------------------------------------
(* What a step can do to the writes.                                       *)

Issued ==
  /\ writer' = Append(writer, user)
  /\ Len(writer) < MaxWrites
  /\ \E b \in Batch : /\ b.write = Len(writer) + 1
                      /\ batches' = [batches EXCEPT ![user] = Append(@, b)]
  /\ UNCHANGED <<user, served, applied, refused, unheard, told, launched>>

BrokenOff ==
  /\ user' \in User
  /\ served' = 0
  /\ unheard' = unheard \cup Unanswered
  /\ launched' \in {launched, Len(writer)}
  /\ UNCHANGED <<batches, writer, applied, refused, told>>

Applied ==
  /\ served < Len(sent)
  /\ served' = served + 1
  /\ applied' = [applied EXCEPT ![batches[user][served + 1].write] = @ + 1]
  /\ UNCHANGED <<user, batches, writer, refused, unheard, told, launched>>

Refused ==
  /\ refused \subseteq refused'
  /\ UNCHANGED <<user, batches, served, writer, applied, unheard, told, launched>>

HeadDecided(outcome) ==
  /\ pipeline # <<>>
  /\ batches' = [batches EXCEPT ![user] =
                   RemoveMutationBatch(@, Head(pipeline))]
  /\ \/ told' = told
     \/ /\ Head(pipeline).write > launched
        /\ told' = Append(told, [write |-> Head(pipeline).write,
                                 outcome |-> outcome])
  /\ launched' \in {launched, Len(writer)}
  /\ UNCHANGED <<user, writer, applied, refused>>

Accepted ==
  /\ served > 0 /\ served' = served - 1
  /\ unheard' = unheard
  /\ HeadDecided("accepted")

Rejected ==
  /\ served = 0 /\ served' = 0
  /\ unheard \subseteq unheard'
  /\ Head(pipeline).write \in refused
  /\ HeadDecided("rejected")

KilledAfterTelling ==
  /\ served > 0 /\ served' = 0
  /\ pipeline # <<>>
  /\ Head(pipeline).write > launched
  /\ told' = Append(told, [write |-> Head(pipeline).write, outcome |-> "accepted"])
  /\ unheard' = unheard \cup Unanswered
  /\ launched' = Len(writer)
  /\ UNCHANGED <<user, batches, writer, applied, refused>>

Unmoved ==
  UNCHANGED <<user, batches, served, writer, applied, refused, unheard, told,
              launched>>

LEMMA StepKinds ==
  ASSUME WritesInv, [Next]_vars
  PROVE  \/ Issued
         \/ BrokenOff
         \/ Applied
         \/ Refused
         \/ Accepted
         \/ Rejected
         \/ KilledAfterTelling
         \/ Unmoved
<1>1. QueuesInv /\ StreamInv
  BY DEF WritesInv
<1>2. CASE WriteMutations
  <2> DEFINE b == [id |-> nextBatchId, write |-> Len(writer) + 1]
  <2>1. b \in Batch /\ b.write = Len(writer) + 1
    <3>1. /\ Len(writer) \in Nat /\ MaxWrites \in Nat
          /\ nextBatchId \in Nat \ {0} /\ nextBatchId <= Len(writer) + 1
      BY <1>1, LenProperties, FirestoreWritesAssumption DEF QueuesInv
    <3> QED BY <1>2, <3>1 DEF WriteMutations, Batch, Write
  <2>2. batches' = [batches EXCEPT ![user] = Append(@, b)]
    BY <1>2 DEF WriteMutations
  <2> HIDE DEF b
  <2>3. Issued
    BY <1>2, <2>1, <2>2 DEF WriteMutations, Issued
  <2> QED BY <2>3
<1>3. CASE \/ \E u \in User : HandleCredentialChange(u)
           \/ Kill
           \/ OnWriteStreamCloseFailed
           \/ IdleTimeout
  <2>1. BrokenOff
    BY <1>1, <1>3
       DEF HandleCredentialChange, Kill, OnWriteStreamCloseFailed, IdleTimeout,
           Disconnect, Launch, BrokenOff, QueuesInv, clientVars
  <2> QED BY <2>1
<1>4. CASE Apply
  <2>1. served + 1 \in 1 .. Len(sent)
    BY <1>1, <1>4, BatchesOf, NextIndex DEF Apply, StreamInv
  <2>2. sent[served + 1] = batches[user][served + 1]
    BY <2>1, QueueFacts
  <2>3. Applied
    BY <1>4, <2>2 DEF Apply, Applied, clientVars
  <2> QED BY <2>3
<1>5. CASE Refuse
  <2>1. Refused
    BY <1>5 DEF Refuse, Refused, clientVars
  <2> QED BY <2>1
<1>6. CASE OnWriteStreamMutationResult
  <2>1. pipeline # <<>>
    BY <1>1, <1>6, AnswerFindsPipeline DEF OnWriteStreamMutationResult
  <2>2. HeadDecided("accepted")
    BY <1>6, <2>1, ToldIsHead DEF OnWriteStreamMutationResult, HeadDecided
  <2>3. Accepted
    BY <1>6, <2>2 DEF OnWriteStreamMutationResult, Accepted
  <2> QED BY <2>3
<1>7. CASE OnWriteStreamCloseRefused \/ KillWhileRejecting
  <2>1. refusing /\ served = 0
    BY <1>7 DEF OnWriteStreamCloseRefused, KillWhileRejecting
  <2>2. sent = pipeline /\ pipeline # <<>> /\ pipeline \in Seq(Batch)
    BY <1>1, <2>1, AnswerFindsPipeline DEF StreamInv
  <2>3. Head(pipeline).write \in refused
    <3>1. sent[1].write \in refused
      BY <1>1, <2>1 DEF StreamInv
    <3> QED BY <2>2, <3>1, TailOf
  <2>4. HeadDecided("rejected")
    BY <1>7, <2>2, ToldIsHead
       DEF OnWriteStreamCloseRefused, KillWhileRejecting, RejectFirst, Launch,
           HeadDecided
  <2>5. Rejected
    BY <1>7, <2>1, <2>3, <2>4
       DEF OnWriteStreamCloseRefused, KillWhileRejecting, Disconnect, Rejected
  <2> QED BY <2>5
<1>8. CASE KillWhileAcknowledging
  <2>1. served > 0 /\ pipeline # <<>>
    BY <1>1, <1>8, AnswerFindsPipeline DEF KillWhileAcknowledging
  <2>2. PICK c \in callbacks[user] :
          /\ c.id = Head(pipeline).id
          /\ told' = Append(told, [write |-> c.write, outcome |-> "accepted"])
    BY <1>8 DEF KillWhileAcknowledging
  <2>3. c = Head(pipeline) /\ Head(pipeline).write > launched
    <3>1. c \in {d \in callbacks[user] : d.id = Head(pipeline).id}
      BY <2>2
    <3> QED BY <1>1, <2>1, <3>1, HeadOfPipeline
  <2>4. KilledAfterTelling
    BY <1>8, <2>1, <2>2, <2>3
       DEF KillWhileAcknowledging, Disconnect, Launch, KilledAfterTelling
  <2> QED BY <2>4
<1>9. CASE \/ BackoffElapsed
           \/ OnStreamStart
           \/ OnWriteStreamHandshakeComplete
           \/ UNCHANGED vars
  <2>1. Unmoved
    BY <1>9 DEF BackoffElapsed, OnStreamStart, OnWriteStreamHandshakeComplete,
                vars, clientVars, streamVars, historyVars, Unmoved
  <2> QED BY <2>1
<1> QED
  BY <1>2, <1>3, <1>4, <1>5, <1>6, <1>7, <1>8, <1>9 DEF Next

-----------------------------------------------------------------------------
(* Each of these keeps the invariant.                                      *)

LEMMA IssuedKeeps ==
  ASSUME WritesInv, HistoryInv, Issued
  PROVE  HistoryInv'
<1> DEFINE n == Len(writer) + 1
           last == Len(batches[user]) + 1
<1>1. PICK b \in Batch : /\ b.write = n
                         /\ batches' = [batches EXCEPT ![user] = Append(@, b)]
  BY DEF Issued
<1>2. /\ Len(writer) \in Nat /\ MaxWrites \in Nat /\ n \in Write
      /\ user \in User /\ batches[user] \in Seq(Batch)
      /\ Len(batches[user]) \in Nat /\ served \in Nat
      /\ served <= Len(batches[user])
  <2>1. Len(writer) < MaxWrites
    BY DEF Issued
  <2> QED BY <2>1, QueueFacts DEF Write
<1>3. /\ Len(writer') = n
      /\ \A w \in 1 .. Len(writer) : writer'[w] = writer[w]
      /\ writer'[n] = user
  <2>1. writer' = Append(writer, user) /\ writer \in Seq(User)
    BY DEF Issued, WritesInv, QueuesInv
  <2> QED BY <1>2, <2>1, AppendProperties
<1>4. /\ Len(batches'[user]) = last
      /\ \A i \in 1 .. Len(batches[user]) : batches'[user][i] = batches[user][i]
      /\ batches'[user][last].write = n
      /\ \A u \in User \ {user} : batches'[u] = batches[u]
  <2>1. batches'[user] = Append(batches[user], b)
        /\ \A u \in User \ {user} : batches'[u] = batches[u]
    BY <1>1, <1>2 DEF WritesInv, QueuesInv
  <2> QED BY <1>1, <1>2, <2>1, AppendProperties
<1>5. /\ UNCHANGED <<user, served, applied, refused, unheard, told, launched>>
      /\ applied \in [Write -> Nat]
      /\ applied[n] = 0
  BY <1>2 DEF Issued, WritesInv, HistoryTyped, HistoryInv, NewNotApplied
<1>6. ASSUME NEW u \in User, NEW i \in 1 .. Len(batches'[u])
      PROVE  \/ u = user /\ i = last /\ batches'[u][i].write = n
             \/ i \in 1 .. Len(batches[u]) /\ batches'[u][i] = batches[u][i]
  BY <1>2, <1>4
<1>7. ASSUME NEW u \in User, NEW i \in 1 .. Len(batches[u])
      PROVE  i \in 1 .. Len(batches'[u]) /\ batches'[u][i] = batches[u][i]
  BY <1>2, <1>4
<1> HIDE DEF last
<1>8. ServedApplied'
  <2>1. \A i \in 1 .. served : i \in 1 .. Len(batches[user])
    BY <1>2
  <2> QED BY <1>4, <1>5, <2>1 DEF HistoryInv, ServedApplied
<1>9. AppliedKnown'
  <2> SUFFICES ASSUME NEW u \in User, NEW i \in 1 .. Len(batches'[u]),
                      applied[batches'[u][i].write] > 0
               PROVE  batches'[u][i].write \in unheard \/ (u = user /\ i <= served)
    BY <1>5 DEF AppliedKnown
  <2>1. batches'[u][i].write # n
    BY <1>5
  <2> QED BY <1>6, <2>1 DEF HistoryInv, AppliedKnown
<1>10. NewNotApplied'
  BY <1>2, <1>3, <1>5 DEF HistoryInv, NewNotApplied, Write
<1>11. NoneLost'
  <2> SUFFICES ASSUME NEW w \in 1 .. n
               PROVE  Queued(w)' \/ applied[w] > 0 \/ w \in refused
    BY <1>3, <1>5 DEF NoneLost
  <2>1. CASE w = n
    <3>1. last \in 1 .. Len(batches'[user])
      BY <1>2, <1>4 DEF last
    <3> QED BY <1>3, <1>4, <2>1, <3>1 DEF Queued
  <2>2. CASE w \in 1 .. Len(writer)
    <3>1. writer[w] \in User
      BY <2>2, QueueFacts
    <3>2. Queued(w) => Queued(w)'
      BY <1>3, <1>7, <2>2, <3>1 DEF Queued
    <3> QED BY <2>2, <3>2 DEF HistoryInv, NoneLost
  <2> QED BY <1>2, <2>1, <2>2
<1>12. DuplicatesExplained'
  BY <1>5 DEF HistoryInv, DuplicatesExplained
<1>13. ToldBefore'
  <2> SUFFICES ASSUME NEW k \in 1 .. Len(told)
               PROVE  /\ told[k].write <= n
                      /\ \A u \in User : \A i \in 1 .. Len(batches'[u]) :
                           /\ /\ batches'[u][i].write > launched
                              /\ writer'[told[k].write] = u
                              => told[k].write < batches'[u][i].write
                           /\ told[k].outcome = "rejected" =>
                                batches'[u][i].write # told[k].write
    BY <1>3, <1>5 DEF ToldBefore
  <2>1. told[k].write \in 1 .. Len(writer) /\ told[k].write \in Nat
    BY ToldFacts
  <2>2. told[k].write < n /\ writer'[told[k].write] = writer[told[k].write]
    BY <1>2, <1>3, <2>1
  <2>3. told[k].write <= n
    BY <1>2, <2>1
  <2>4. told[k].write # n
    BY <1>2, <2>1
  <2> QED BY <1>6, <2>2, <2>3, <2>4 DEF HistoryInv, ToldBefore
<1>14. ToldTrue'
  <2>1. ASSUME NEW k \in 1 .. Len(told)
        PROVE  writer'[told[k].write] = writer[told[k].write]
    BY <1>3, ToldFacts
  <2>2. ASSUME NEW k \in 1 .. Len(told), NEW j \in 1 .. k - 1
        PROVE  j \in 1 .. Len(told)
    BY LenProperties DEF WritesInv, HistoryTyped
  <2> QED BY <1>5, <2>1, <2>2 DEF HistoryInv, ToldTrue
<1> QED
  BY <1>8, <1>9, <1>10, <1>11, <1>12, <1>13, <1>14 DEF HistoryInv

(* The answers that are lost become unheard. *)
LEMMA LostAnswers ==
  ASSUME WritesInv, HistoryInv, served' = 0, UNCHANGED <<batches, applied>>,
         unheard' = unheard \cup Unanswered
  PROVE  ServedApplied' /\ AppliedKnown'
<1>1. ServedApplied'
  BY DEF ServedApplied
<1>2. AppliedKnown'
  <2> SUFFICES ASSUME NEW u \in User, NEW i \in 1 .. Len(batches[u]),
                      applied[batches[u][i].write] > 0
               PROVE  batches[u][i].write \in unheard'
    BY DEF AppliedKnown
  <2>1. CASE u = user /\ i <= served
    <3>1. i \in 1 .. served
      BY <2>1, QueueFacts
    <3>2. Unanswered = {batches[user][j].write : j \in 1 .. served}
      BY QueueFacts
    <3> QED BY <2>1, <3>1, <3>2
  <2>2. CASE ~(u = user /\ i <= served)
    BY <2>2 DEF HistoryInv, AppliedKnown
  <2> QED BY <2>1, <2>2
<1> QED BY <1>1, <1>2

LEMMA BrokenOffKeeps ==
  ASSUME WritesInv, HistoryInv, BrokenOff
  PROVE  HistoryInv'
<1>1. /\ unheard' = unheard \cup Unanswered /\ served' = 0
      /\ launched' \in {launched, Len(writer)}
      /\ UNCHANGED <<batches, writer, applied, refused, told>>
  BY DEF BrokenOff
<1>2. ServedApplied' /\ AppliedKnown'
  BY <1>1, LostAnswers
<1>3. NewNotApplied' /\ NoneLost' /\ DuplicatesExplained'
  BY <1>1 DEF HistoryInv, NewNotApplied, NoneLost, Queued, DuplicatesExplained
<1>4. ToldBefore'
  <2>1. CASE launched' = launched
    BY <1>1, <2>1 DEF HistoryInv, ToldBefore
  <2>2. CASE launched' = Len(writer)
    <3>1. ASSUME NEW u \in User, NEW i \in 1 .. Len(batches[u])
          PROVE  ~(batches[u][i].write > Len(writer))
      BY QueueFacts
    <3> QED BY <1>1, <2>2, <3>1 DEF HistoryInv, ToldBefore
  <2> QED BY <1>1, <2>1, <2>2
<1>5. ToldTrue'
  BY <1>1 DEF HistoryInv, ToldTrue
<1> QED BY <1>2, <1>3, <1>4, <1>5 DEF HistoryInv

LEMMA AppliedKeeps ==
  ASSUME WritesInv, HistoryInv, Applied
  PROVE  HistoryInv'
<1> DEFINE w == batches[user][served + 1].write
           q == batches[user]
<1>1. /\ served \in Nat /\ served < Len(q) /\ Len(q) \in Nat
      /\ user \in User /\ Ascending(q)
      /\ served + 1 \in 1 .. Len(q)
  <2>1. /\ served \in Nat /\ served < Len(sent) /\ Len(sent) <= Len(q)
        /\ Len(q) \in Nat /\ user \in User /\ Ascending(q)
    BY QueueFacts DEF Applied
  <2>2. Len(sent) \in Nat
    BY BatchesOf DEF WritesInv, StreamInv
  <2> QED BY <2>1, <2>2
<1>2. w \in Write /\ w \in 1 .. Len(writer) /\ w \in Nat /\ Len(writer) \in Nat
  <2>1. w \in Write /\ w \in 1 .. Len(writer) /\ Len(writer) \in 0 .. MaxWrites
    BY <1>1, QueueFacts
  <2> QED BY <2>1, QueueFacts
<1>3. /\ served' = served + 1
      /\ applied' = [applied EXCEPT ![w] = @ + 1]
      /\ applied \in [Write -> Nat]
      /\ UNCHANGED <<user, batches, writer, refused, unheard, told, launched>>
  BY DEF Applied, WritesInv, HistoryTyped
<1>4. /\ applied'[w] > 0
      /\ \A v \in Write \ {w} : applied'[v] = applied[v]
      /\ \A v \in Write : applied[v] > 0 => applied'[v] > 0
  BY <1>2, <1>3
<1>5. applied[w] > 0 => w \in unheard
  BY <1>1, <1>2 DEF HistoryInv, AppliedKnown
<1> HIDE DEF w
<1>6. \A u \in User : \A i \in 1 .. Len(batches[u]) :
        batches[u][i].write = w => u = user /\ i = served + 1
  <2> SUFFICES ASSUME NEW u \in User, NEW i \in 1 .. Len(batches[u]),
                      batches[u][i].write = w
               PROVE  u = user /\ i = served + 1
    OBVIOUS
  <2>1. writer[w] = u /\ writer[w] = user
    BY <1>1, QueueFacts DEF w
  <2>2. i \in 1 .. Len(q) /\ q[i].write = q[served + 1].write
    BY <2>1 DEF w
  <2>3. ~(i < served + 1) /\ ~(served + 1 < i)
    <3>1. \A j \in 1 .. Len(q) : q[j].write \in Nat
      BY <2>1, QueueFacts DEF Write
    <3> QED BY <1>1, <2>2, <3>1 DEF Ascending
  <2> QED BY <1>1, <2>1, <2>2, <2>3
<1>7. ServedApplied'
  <2> SUFFICES ASSUME NEW i \in 1 .. served + 1
               PROVE  applied'[batches[user][i].write] > 0
    BY <1>3 DEF ServedApplied
  <2>1. CASE i = served + 1
    BY <1>4, <2>1 DEF w
  <2>2. CASE i \in 1 .. served
    <3>1. batches[user][i].write \in Write
      BY <1>1, <2>2, QueueFacts
    <3> QED BY <1>4, <2>2, <3>1 DEF HistoryInv, ServedApplied
  <2> QED BY <1>1, <2>1, <2>2
<1>8. AppliedKnown'
  <2> SUFFICES ASSUME NEW u \in User, NEW i \in 1 .. Len(batches[u]),
                      applied'[batches[u][i].write] > 0
               PROVE  batches[u][i].write \in unheard
                      \/ (u = user /\ i <= served + 1)
    BY <1>3 DEF AppliedKnown
  <2>1. CASE batches[u][i].write = w
    BY <1>1, <1>6, <2>1
  <2>2. CASE batches[u][i].write # w
    <3>1. batches[u][i].write \in Write
      BY QueueFacts
    <3>2. applied[batches[u][i].write] > 0
      BY <1>4, <2>2, <3>1
    <3> QED BY <1>1, <3>2 DEF HistoryInv, AppliedKnown
  <2> QED BY <2>1, <2>2
<1>9. NewNotApplied'
  <2> SUFFICES ASSUME NEW v \in Write, v > Len(writer)
               PROVE  applied'[v] = 0
    BY <1>3 DEF NewNotApplied
  <2>1. v # w
    BY <1>2
  <2> QED BY <1>4, <2>1 DEF HistoryInv, NewNotApplied
<1>10. NoneLost'
  <2> SUFFICES ASSUME NEW v \in 1 .. Len(writer)
               PROVE  Queued(v) \/ applied'[v] > 0 \/ v \in refused
    BY <1>3 DEF NoneLost, Queued
  <2>1. v \in Write
    BY QueueFacts
  <2> QED BY <1>4, <2>1 DEF HistoryInv, NoneLost
<1>11. DuplicatesExplained'
  <2> SUFFICES ASSUME NEW v \in Write, applied'[v] > 1
               PROVE  v \in unheard
    BY <1>3 DEF DuplicatesExplained
  <2>1. CASE v = w
    <3>1. applied[w] > 0
      BY <1>2, <1>3, <2>1
    <3> QED BY <1>5, <2>1, <3>1
  <2>2. CASE v # w
    BY <1>4, <2>2 DEF HistoryInv, DuplicatesExplained
  <2> QED BY <2>1, <2>2
<1>12. ToldBefore'
  BY <1>3 DEF HistoryInv, ToldBefore
<1>13. ToldTrue'
  <2>1. ASSUME NEW k \in 1 .. Len(told)
        PROVE  /\ told[k].outcome = "accepted" => applied'[told[k].write] > 0
               /\ told[k].outcome = "rejected" /\ applied'[told[k].write] > 0
                    => applied[told[k].write] > 0
    <3>1. told[k].write \in Write
      <4>1. told[k].write \in 1 .. Len(writer)
        BY ToldFacts
      <4> QED BY <4>1, QueueFacts
    <3>2. told[k].outcome = "accepted" => applied'[told[k].write] > 0
      BY <1>4, <3>1 DEF HistoryInv, ToldTrue
    <3>3. told[k].outcome = "rejected" => told[k].write # w
      BY <1>1 DEF HistoryInv, ToldBefore, w
    <3> QED BY <1>4, <3>1, <3>2, <3>3
  <2> QED BY <1>3, <2>1 DEF HistoryInv, ToldTrue
<1> QED
  BY <1>7, <1>8, <1>9, <1>10, <1>11, <1>12, <1>13 DEF HistoryInv

LEMMA RefusedKeeps ==
  ASSUME HistoryInv, Refused
  PROVE  HistoryInv'
BY DEF Refused, HistoryInv, ServedApplied, AppliedKnown, NewNotApplied, NoneLost,
       Queued, DuplicatesExplained, ToldBefore, ToldTrue

(* The head of the queue. *)
LEMMA HeadFacts ==
  ASSUME WritesInv, pipeline # <<>>
  PROVE  LET h == Head(pipeline).write
         IN  /\ 1 \in 1 .. Len(batches[user]) /\ h = batches[user][1].write
             /\ h \in 1 .. Len(writer) /\ h \in Write /\ h \in Nat
             /\ writer[h] = user
             /\ \A u \in User : \A i \in 1 .. Len(batches[u]) :
                  /\ batches[u][i].write = h => u = user /\ i = 1
                  /\ u = user /\ i # 1 => h < batches[u][i].write
<1> DEFINE q == batches[user]
           h == Head(pipeline).write
<1>1. q # <<>> /\ Head(pipeline) = q[1]
  BY HeadOfPipeline DEF WritesInv
<1>2. /\ q \in Seq(Batch) /\ Ascending(q) /\ Len(q) \in Nat /\ user \in User
      /\ Len(writer) \in Nat
  BY QueueFacts
<1>3. 1 \in 1 .. Len(q)
  BY <1>1, <1>2, EmptySeq
<1>4. h \in 1 .. Len(writer) /\ h \in Write /\ writer[h] = user /\ h = q[1].write
  BY <1>1, <1>2, <1>3, QueueFacts
<1>5. h \in Nat
  BY <1>2, <1>4
<1>6. ASSUME NEW u \in User, NEW i \in 1 .. Len(batches[u])
      PROVE  /\ batches[u][i].write = h => u = user /\ i = 1
             /\ u = user /\ i # 1 => h < batches[u][i].write
  <2>1. writer[batches[u][i].write] = u
    BY QueueFacts
  <2>2. u = user /\ i # 1 => h < batches[u][i].write
    BY <1>2, <1>3, <1>4 DEF Ascending
  <2>3. batches[u][i].write = h => u = user
    BY <1>4, <2>1
  <2> QED BY <1>5, <2>2, <2>3
<1> HIDE DEF h
<1> QED BY <1>3, <1>4, <1>5, <1>6 DEF h

(* A true answer about the head keeps what was told true. *)
LEMMA TellingKeepsTrue ==
  ASSUME WritesInv, HistoryInv, pipeline # <<>>,
         NEW outcome \in {"accepted", "rejected"},
         Head(pipeline).write > launched,
         told' = Append(told, [write |-> Head(pipeline).write,
                               outcome |-> outcome]),
         outcome = "accepted" => applied[Head(pipeline).write] > 0,
         outcome = "rejected" =>
           /\ Head(pipeline).write \in refused
           /\ applied[Head(pipeline).write] > 0 =>
                Head(pipeline).write \in unheard',
         UNCHANGED <<writer, applied, refused>>, unheard \subseteq unheard'
  PROVE  ToldTrue'
<1> DEFINE h == Head(pipeline).write
           n == Len(told)
           new == [write |-> h, outcome |-> outcome]
<1>1. /\ n \in Nat /\ Len(told') = n + 1
      /\ \A k \in 1 .. n : told'[k] = told[k]
      /\ told'[n + 1] = new
  <2>1. told \in Seq(Telling)
    BY DEF WritesInv, HistoryTyped, Telling
  <2>2. new \in Telling
    BY HeadFacts DEF Telling
  <2> HIDE DEF new
  <2>3. told' = Append(told, new)
    BY DEF new
  <2> QED BY <2>1, <2>2, <2>3, AppendProperties, LenProperties
<1>2. new.write = h /\ new.outcome = outcome
  OBVIOUS
<1> HIDE DEF new
<1>3. ASSUME NEW j \in 1 .. n, writer[told[j].write] = writer[h]
      PROVE  told[j].write < h
  <2>1. /\ 1 \in 1 .. Len(batches[user]) /\ h = batches[user][1].write
        /\ writer[h] = user /\ user \in User
    BY HeadFacts, QueueFacts
  <2> QED BY <1>3, <2>1 DEF HistoryInv, ToldBefore
<1> HIDE DEF h
<1>4. ASSUME NEW k \in 1 .. n + 1
      PROVE  LET w == told'[k].write
             IN  /\ told'[k].outcome = "accepted" => applied[w] > 0
                 /\ told'[k].outcome = "rejected" =>
                      w \in refused /\ (applied[w] > 0 => w \in unheard')
                 /\ \A j \in 1 .. k - 1 : writer[told'[j].write] = writer[w] =>
                                            told'[j].write < w
  <2>1. \A j \in 1 .. k - 1 : j \in 1 .. n /\ told'[j] = told[j]
    BY <1>1
  <2>2. CASE k = n + 1
    <3>1. told'[k] = new
      BY <1>1, <2>2
    <3> QED BY <1>2, <1>3, <2>1, <3>1 DEF h
  <2>3. CASE k \in 1 .. n
    <3>1. told'[k] = told[k]
      BY <1>1, <2>3
    <3> QED BY <2>1, <2>3, <3>1 DEF HistoryInv, ToldTrue
  <2> QED BY <1>1, <2>2, <2>3
<1> QED BY <1>1, <1>4 DEF ToldTrue

LEMMA HeadDecidedKeeps ==
  ASSUME WritesInv, HistoryInv, NEW outcome \in {"accepted", "rejected"},
         HeadDecided(outcome), unheard \subseteq unheard',
         served' = IF served = 0 THEN 0 ELSE served - 1,
         \/ applied[Head(pipeline).write] > 0
         \/ Head(pipeline).write \in refused,
         outcome = "accepted" => applied[Head(pipeline).write] > 0,
         outcome = "rejected" =>
           /\ Head(pipeline).write \in refused
           /\ applied[Head(pipeline).write] > 0 =>
                Head(pipeline).write \in unheard'
  PROVE  HistoryInv'
<1> DEFINE h == Head(pipeline).write
           new == [write |-> h, outcome |-> outcome]
<1>1. /\ pipeline # <<>>
      /\ batches' = [batches EXCEPT ![user] =
                       RemoveMutationBatch(@, Head(pipeline))]
      /\ launched' \in {launched, Len(writer)}
      /\ UNCHANGED <<user, writer, applied, refused>>
      /\ told' = told \/ (h > launched /\ told' = Append(told, new))
  BY DEF HeadDecided
<1>2. /\ user \in User /\ served \in Nat /\ Len(batches[user]) \in Nat \ {0}
      /\ Len(batches'[user]) = Len(batches[user]) - 1
      /\ \A i \in 1 .. Len(batches'[user]) :
           i + 1 \in 1 .. Len(batches[user])
           /\ batches'[user][i] = batches[user][i + 1]
      /\ \A u \in User \ {user} : batches'[u] = batches[u]
      /\ served <= Len(batches[user])
  BY <1>1, OthersStay, QueueFacts
<1>3. /\ h = batches[user][1].write
      /\ h \in 1 .. Len(writer) /\ h \in Write /\ h \in Nat
      /\ writer[h] = user
      /\ \A u \in User : \A i \in 1 .. Len(batches[u]) :
            /\ batches[u][i].write = h => u = user /\ i = 1
            /\ u = user /\ i # 1 => h < batches[u][i].write
  BY <1>1, HeadFacts
<1>4. applied[h] > 0 \/ h \in refused
  OBVIOUS
<1> HIDE DEF h
<1>5. ASSUME NEW u \in User, NEW i \in 1 .. Len(batches'[u])
      PROVE  \E j \in 1 .. Len(batches[u]) :
               /\ batches'[u][i] = batches[u][j]
               /\ u = user => j = i + 1
               /\ batches'[u][i].write # h
               /\ u = user => h < batches'[u][i].write
  <2>1. CASE u = user
    <3>1. i + 1 \in 1 .. Len(batches[u]) /\ batches'[u][i] = batches[u][i + 1]
      BY <1>2, <2>1
    <3>2. i + 1 # 1
      BY <1>2, <2>1
    <3> QED BY <1>3, <2>1, <3>1, <3>2
  <2>2. CASE u # user
    BY <1>2, <1>3, <2>2
  <2> QED BY <2>1, <2>2
<1>6. ServedApplied'
  <2> SUFFICES ASSUME NEW i \in 1 .. served'
               PROVE  applied[batches'[user][i].write] > 0
    BY <1>1 DEF ServedApplied
  <2>1. i + 1 \in 1 .. served /\ i \in 1 .. Len(batches'[user])
    BY <1>2
  <2>2. batches'[user][i] = batches[user][i + 1]
    BY <1>2, <2>1
  <2> QED BY <2>1, <2>2 DEF HistoryInv, ServedApplied
<1>7. AppliedKnown'
  <2> SUFFICES ASSUME NEW u \in User, NEW i \in 1 .. Len(batches'[u]),
                      applied[batches'[u][i].write] > 0
               PROVE  batches'[u][i].write \in unheard'
                      \/ (u = user /\ i <= served')
    BY <1>1 DEF AppliedKnown
  <2>1. PICK j \in 1 .. Len(batches[u]) :
          batches'[u][i] = batches[u][j] /\ (u = user => j = i + 1)
    BY <1>5
  <2>2. batches[u][j].write \in unheard \/ (u = user /\ j <= served)
    BY <2>1 DEF HistoryInv, AppliedKnown
  <2>3. u = user /\ j <= served => i <= served'
    BY <1>2, <2>1
  <2> QED BY <2>1, <2>2, <2>3
<1>8. NewNotApplied' /\ DuplicatesExplained'
  BY <1>1 DEF HistoryInv, NewNotApplied, DuplicatesExplained
<1>9. NoneLost'
  <2> SUFFICES ASSUME NEW w \in 1 .. Len(writer), Queued(w), w # h
               PROVE  Queued(w)'
    BY <1>1, <1>4 DEF HistoryInv, NoneLost
  <2>1. PICK i \in 1 .. Len(batches[writer[w]]) : batches[writer[w]][i].write = w
    BY DEF Queued
  <2>2. writer[w] \in User
    BY QueueFacts
  <2>3. CASE writer[w] = user
    <3>1. i # 1
      BY <1>3, <2>1, <2>3
    <3>2. i - 1 \in 1 .. Len(batches'[user]) /\ (i - 1) + 1 = i
      BY <1>2, <2>1, <2>3, <3>1
    <3>3. batches'[user][i - 1].write = w
      BY <1>2, <2>1, <2>3, <3>2
    <3> QED BY <1>1, <2>3, <3>2, <3>3 DEF Queued
  <2>4. CASE writer[w] # user
    BY <1>1, <1>2, <2>1, <2>2, <2>4 DEF Queued
  <2> QED BY <2>3, <2>4
<1>10. ASSUME NEW k \in 1 .. Len(told), NEW u \in User,
              NEW i \in 1 .. Len(batches'[u])
       PROVE  /\ batches'[u][i].write > launched' /\ writer[told[k].write] = u =>
                   told[k].write < batches'[u][i].write
              /\ told[k].outcome = "rejected" =>
                   batches'[u][i].write # told[k].write
  <2>1. PICK j \in 1 .. Len(batches[u]) : batches'[u][i] = batches[u][j]
    BY <1>5
  <2>2. batches[u][j].write > launched' => batches[u][j].write > launched
    BY <1>1, QueueFacts
  <2> QED BY <2>1, <2>2 DEF HistoryInv, ToldBefore
<1>11. CASE told' = told
  <2>1. ToldBefore'
    BY <1>1, <1>10, <1>11 DEF HistoryInv, ToldBefore
  <2>2. ToldTrue'
    BY <1>1, <1>11 DEF HistoryInv, ToldTrue
  <2> QED BY <1>6, <1>7, <1>8, <1>9, <2>1, <2>2 DEF HistoryInv
<1>12. CASE h > launched /\ told' = Append(told, new)
  <2>1. ToldTrue'
    BY <1>1, <1>12, TellingKeepsTrue DEF h
  <2>2. ToldBefore'
    <3>1. /\ Len(told) \in Nat /\ Len(told') = Len(told) + 1
          /\ \A k \in 1 .. Len(told) : told'[k] = told[k]
          /\ told'[Len(told) + 1] = new
      <4>1. told \in Seq(Telling)
        BY DEF WritesInv, HistoryTyped, Telling
      <4>2. new \in Telling
        BY <1>3 DEF Telling
      <4> HIDE DEF new
      <4> QED BY <1>12, <4>1, <4>2, AppendProperties, LenProperties
    <3>2. new.write = h /\ new.outcome = outcome
      OBVIOUS
    <3> HIDE DEF new
    <3> SUFFICES ASSUME NEW k \in 1 .. Len(told) + 1
                 PROVE  /\ told'[k].write <= Len(writer)
                        /\ \A u \in User : \A i \in 1 .. Len(batches'[u]) :
                             /\ /\ batches'[u][i].write > launched'
                                /\ writer[told'[k].write] = u
                                => told'[k].write < batches'[u][i].write
                             /\ told'[k].outcome = "rejected" =>
                                  batches'[u][i].write # told'[k].write
      BY <1>1, <3>1 DEF ToldBefore
    <3>3. CASE k = Len(told) + 1
      <4>1. told'[k] = new
        BY <3>1, <3>3
      <4>2. h <= Len(writer)
        BY <1>3
      <4> QED BY <1>3, <1>5, <3>2, <4>1, <4>2
    <3>4. CASE k \in 1 .. Len(told)
      <4>1. told'[k] = told[k]
        BY <3>1, <3>4
      <4> QED BY <1>10, <3>4, <4>1 DEF HistoryInv, ToldBefore
    <3> QED BY <3>1, <3>3, <3>4
  <2> QED BY <1>6, <1>7, <1>8, <1>9, <2>1, <2>2 DEF HistoryInv
<1> QED BY <1>1, <1>11, <1>12

LEMMA AnswersKeep ==
  ASSUME WritesInv, HistoryInv, Accepted \/ Rejected
  PROVE  HistoryInv'
<1>1. pipeline # <<>>
  BY DEF Accepted, Rejected, HeadDecided
<1>2. /\ Head(pipeline).write = batches[user][1].write
      /\ 1 \in 1 .. Len(batches[user]) /\ user \in User /\ served \in Nat
  BY <1>1, HeadFacts, QueueFacts
<1>3. CASE Accepted
  <2>1. applied[Head(pipeline).write] > 0
    BY <1>2, <1>3 DEF Accepted, HistoryInv, ServedApplied
  <2>2. served' = IF served = 0 THEN 0 ELSE served - 1
    BY <1>2, <1>3 DEF Accepted
  <2>3. unheard \subseteq unheard' /\ HeadDecided("accepted")
    BY <1>3 DEF Accepted
  <2> QED BY <2>1, <2>2, <2>3, HeadDecidedKeeps
<1>4. CASE Rejected
  <2>1. served = 0 /\ served' = 0 /\ unheard \subseteq unheard'
        /\ Head(pipeline).write \in refused /\ HeadDecided("rejected")
    BY <1>4 DEF Rejected
  <2>2. applied[Head(pipeline).write] > 0 => Head(pipeline).write \in unheard'
    BY <1>2, <2>1 DEF HistoryInv, AppliedKnown
  <2>3. served' = IF served = 0 THEN 0 ELSE served - 1
    BY <2>1
  <2> QED BY <2>1, <2>2, <2>3, HeadDecidedKeeps
<1> QED BY <1>3, <1>4

LEMMA KilledAfterTellingKeeps ==
  ASSUME WritesInv, HistoryInv, KilledAfterTelling
  PROVE  HistoryInv'
<1> DEFINE h == Head(pipeline).write
           new == [write |-> h, outcome |-> "accepted"]
<1>1. /\ served > 0 /\ served' = 0 /\ pipeline # <<>> /\ h > launched
      /\ told' = Append(told, new)
      /\ unheard' = unheard \cup Unanswered
      /\ launched' = Len(writer)
      /\ UNCHANGED <<user, batches, writer, applied, refused>>
  BY DEF KilledAfterTelling
<1>2. ServedApplied' /\ AppliedKnown'
  BY <1>1, LostAnswers
<1>3. NewNotApplied' /\ NoneLost' /\ DuplicatesExplained'
  BY <1>1 DEF HistoryInv, NewNotApplied, NoneLost, Queued, DuplicatesExplained
<1>4. h = batches[user][1].write /\ h \in 1 .. Len(writer) /\ h \in Write
      /\ h \in Nat
  BY <1>1, HeadFacts
<1>5. applied[h] > 0
  <2>1. 1 \in 1 .. served
    BY <1>1, QueueFacts
  <2> QED BY <1>4, <2>1 DEF HistoryInv, ServedApplied
<1>6. ToldTrue'
  <2>1. "accepted" \in {"accepted", "rejected"} /\ "accepted" # "rejected"
    OBVIOUS
  <2> QED BY <1>1, <1>5, <2>1, TellingKeepsTrue
<1> HIDE DEF h
<1>7. ToldBefore'
  <2>1. /\ Len(told) \in Nat /\ Len(told') = Len(told) + 1
        /\ \A k \in 1 .. Len(told) : told'[k] = told[k]
        /\ told'[Len(told) + 1] = new
    <3>1. told \in Seq(Telling)
      BY DEF WritesInv, HistoryTyped, Telling
    <3>2. new \in Telling
      BY <1>4 DEF Telling
    <3> HIDE DEF new
    <3> QED BY <1>1, <3>1, <3>2, AppendProperties, LenProperties
  <2>2. new.write = h /\ new.outcome # "rejected"
    OBVIOUS
  <2> HIDE DEF new
  <2>3. ASSUME NEW u \in User, NEW i \in 1 .. Len(batches[u])
        PROVE  ~(batches[u][i].write > Len(writer))
    BY QueueFacts
  <2>4. ASSUME NEW k \in 1 .. Len(told) + 1
        PROVE  /\ told'[k].write <= Len(writer)
               /\ \A u \in User : \A i \in 1 .. Len(batches[u]) :
                    told'[k].outcome = "rejected" =>
                      batches[u][i].write # told'[k].write
    <3>1. CASE k = Len(told) + 1
      <4>1. h <= Len(writer)
        BY <1>4
      <4> QED BY <2>1, <2>2, <3>1, <4>1
    <3>2. CASE k \in 1 .. Len(told)
      <4>1. told'[k] = told[k]
        BY <2>1, <3>2
      <4> QED BY <3>2, <4>1 DEF HistoryInv, ToldBefore
    <3> QED BY <2>1, <3>1, <3>2
  <2> QED BY <1>1, <2>1, <2>3, <2>4 DEF ToldBefore
<1> QED BY <1>2, <1>3, <1>6, <1>7 DEF HistoryInv

-----------------------------------------------------------------------------
(* The theorems.                                                           *)

LEMMA InitHistory ==
  ASSUME Init
  PROVE  HistoryInv
<1>1. Len(<<>>) = 0 /\ DOMAIN <<>> = {}
  OBVIOUS
<1>2. \A u \in User : batches[u] = <<>>
  BY DEF Init
<1>3. ServedApplied /\ AppliedKnown
  BY <1>1, <1>2 DEF Init, ServedApplied, AppliedKnown
<1>4. NewNotApplied /\ NoneLost /\ DuplicatesExplained
  BY <1>1 DEF Init, NewNotApplied, NoneLost, DuplicatesExplained
<1>5. ToldBefore /\ ToldTrue
  BY <1>1 DEF Init, ToldBefore, ToldTrue
<1> QED BY <1>3, <1>4, <1>5 DEF HistoryInv

LEMMA NextHistory ==
  ASSUME WritesInv, HistoryInv, [Next]_vars
  PROVE  HistoryInv'
<1>1. CASE Unmoved
  BY <1>1 DEF Unmoved, HistoryInv, ServedApplied, AppliedKnown, NewNotApplied,
       NoneLost, Queued, DuplicatesExplained, ToldBefore, ToldTrue
<1> QED
  BY <1>1, StepKinds, IssuedKeeps, BrokenOffKeeps, AppliedKeeps, RefusedKeeps,
     AnswersKeep, KilledAfterTellingKeeps

LEMMA HistoryInvHolds == Spec => [](WritesInv /\ HistoryInv)
<1>1. Init => WritesInv /\ HistoryInv
  BY InitInv, InitHistory
<1>2. WritesInv /\ HistoryInv /\ [Next]_vars => (WritesInv /\ HistoryInv)'
  BY NextInv, NextHistory
<1> QED BY <1>1, <1>2, PTL DEF Spec

(* A write is queued until the server has applied or refused it.           *)
THEOREM NoWriteIsLost == Spec => []NothingLost
<1>1. WritesInv /\ HistoryInv => NothingLost
  <2> SUFFICES ASSUME WritesInv, HistoryInv, NEW w \in DOMAIN writer
               PROVE  \/ \E i \in DOMAIN batches[writer[w]] :
                            batches[writer[w]][i].write = w
                      \/ applied[w] > 0
                      \/ w \in refused
    BY DEF NothingLost
  <2>1. w \in 1 .. Len(writer)
    BY LenProperties DEF WritesInv, QueuesInv
  <2>2. DOMAIN batches[writer[w]] = 1 .. Len(batches[writer[w]])
    BY <2>1, QueueFacts, BatchesOf
  <2> QED BY <2>1, <2>2 DEF HistoryInv, NoneLost, Queued
<1> QED BY <1>1, HistoryInvHolds, PTL

(* The server applies a write again only after an answer to it was lost.   *)
THEOREM DuplicatesAreExplained == Spec => []DuplicatesExplained
<1>1. HistoryInv => DuplicatesExplained
  BY DEF HistoryInv
<1> QED BY <1>1, HistoryInvHolds, PTL

(* What the application hears is true, once, and in each user's order.     *)
THEOREM AnswersAreTrue == Spec => []AnswersTrue
<1>1. WritesInv /\ HistoryInv => AnswersTrue
  <2> SUFFICES ASSUME WritesInv, HistoryInv PROVE AnswersTrue
    OBVIOUS
  <2>1. DOMAIN told = 1 .. Len(told)
    BY LenProperties DEF WritesInv, HistoryTyped
  <2> QED BY <2>1 DEF HistoryInv, ToldTrue, AnswersTrue
<1> QED BY <1>1, HistoryInvHolds, PTL

(* The server applies the writes of a user in the order they were issued.  *)
THEOREM WritesAreAppliedInOrder == Spec => AppliedInOrder
<1> DEFINE InOrder ==
      \A w \in DOMAIN writer : applied'[w] > applied[w] =>
        \A v \in 1 .. w - 1 :
          writer[v] = writer[w] => applied[v] > 0 \/ v \in refused
<1>1. ASSUME WritesInv, HistoryInv, [Next]_vars
      PROVE  InOrder
  <2> SUFFICES ASSUME NEW w \in DOMAIN writer, applied'[w] > applied[w],
                      NEW v \in 1 .. w - 1, writer[v] = writer[w],
                      Queued(v)
               PROVE  applied[v] > 0
    <3>1. \A x \in DOMAIN writer : \A y \in 1 .. x - 1 :
            y \in 1 .. Len(writer)
      BY <1>1, LenProperties DEF WritesInv, QueuesInv
    <3> QED BY <1>1, <3>1 DEF HistoryInv, NoneLost
  <2>1. w \in 1 .. Len(writer) /\ w \in Write /\ Len(writer) \in Nat
    <3>1. w \in 1 .. Len(writer)
      BY <1>1, LenProperties DEF WritesInv, QueuesInv
    <3> QED BY <1>1, <3>1, QueueFacts
  <2>2. applied[w] \in Nat
    BY <1>1, <2>1 DEF WritesInv, HistoryTyped
  <2>3. applied' # applied
    BY <2>2
  <2>4. Applied
    BY <1>1, <2>3, StepKinds
       DEF Issued, BrokenOff, Refused, Accepted, Rejected, HeadDecided,
           KilledAfterTelling, Unmoved
  <2>5. w = batches[user][served + 1].write
    BY <1>1, <2>1, <2>2, <2>4 DEF Applied, WritesInv, HistoryTyped
  <2>6. /\ served \in Nat /\ served + 1 \in 1 .. Len(batches[user])
        /\ user \in User /\ Ascending(batches[user])
    <3>1. /\ served \in Nat /\ served < Len(sent)
          /\ Len(sent) <= Len(batches[user]) /\ Len(batches[user]) \in Nat
          /\ user \in User /\ Ascending(batches[user])
      BY <1>1, <2>4, QueueFacts DEF Applied
    <3>2. Len(sent) \in Nat
      BY <1>1, BatchesOf DEF WritesInv, StreamInv
    <3> QED BY <3>1, <3>2
  <2>7. writer[w] = user
    BY <1>1, <2>5, <2>6, QueueFacts
  <2>8. PICK j \in 1 .. Len(batches[user]) : batches[user][j].write = v
    BY <2>7 DEF Queued
  <2>9. ~(served + 1 <= j)
    <3>1. v < w
      BY <2>1
    <3>2. \A i \in 1 .. Len(batches[user]) : batches[user][i].write \in Nat
      BY <1>1, <2>6, QueueFacts DEF Write
    <3> QED BY <2>5, <2>6, <2>8, <3>1, <3>2 DEF Ascending
  <2>10. j \in 1 .. served
    BY <2>6, <2>9
  <2> QED BY <1>1, <2>8, <2>10 DEF HistoryInv, ServedApplied
<1>2. (WritesInv /\ HistoryInv) /\ [Next]_vars => [InOrder]_vars
  BY <1>1
<1>3. Spec => [][InOrder]_vars
  BY <1>2, HistoryInvHolds, PTL DEF Spec
<1> QED BY <1>3 DEF AppliedInOrder

-----------------------------------------------------------------------------
(***************************************************************************)
(* FirestoreWrites implements WriteQueue: with its batches, ids, pipeline, *)
(* stream and callbacks hidden, the SDK's handling of writes is the queue  *)
(* of each user, tried from the front.                                     *)
(***************************************************************************)

LEMMA WritesOfSeq ==
  ASSUME NEW q \in Seq(Batch)
  PROVE  /\ WritesOf(q) \in Seq(Nat)
         /\ Len(WritesOf(q)) = Len(q) /\ Len(q) \in Nat
         /\ \A i \in 1 .. Len(q) : WritesOf(q)[i] = q[i].write
<1>1. /\ Len(q) \in Nat /\ DOMAIN q = 1 .. Len(q)
      /\ \A i \in 1 .. Len(q) : q[i].write \in Nat
  BY BatchesOf
<1>2. WritesOf(q) = [i \in 1 .. Len(q) |-> q[i].write]
  BY <1>1 DEF WritesOf
<1>3. WritesOf(q) \in [1 .. Len(q) -> Nat]
  BY <1>1, <1>2
<1> QED BY <1>1, <1>2, <1>3

LEMMA WritesOfAppend ==
  ASSUME NEW q \in Seq(Batch), NEW b \in Batch
  PROVE  WritesOf(Append(q, b)) = Append(WritesOf(q), b.write)
<1> DEFINE s == WritesOf(Append(q, b))
           t == Append(WritesOf(q), b.write)
<1>1. /\ Append(q, b) \in Seq(Batch) /\ Len(Append(q, b)) = Len(q) + 1
      /\ \A i \in 1 .. Len(q) : Append(q, b)[i] = q[i]
      /\ Append(q, b)[Len(q) + 1] = b
  BY AppendProperties
<1>2. /\ s \in Seq(Nat) /\ Len(s) = Len(q) + 1
      /\ \A i \in 1 .. Len(q) + 1 : s[i] = Append(q, b)[i].write
  BY <1>1, WritesOfSeq
<1>3. /\ WritesOf(q) \in Seq(Nat) /\ Len(WritesOf(q)) = Len(q) /\ Len(q) \in Nat
      /\ \A i \in 1 .. Len(q) : WritesOf(q)[i] = q[i].write
  BY WritesOfSeq
<1>4. b.write \in Nat
  BY BatchFields
<1>5. /\ t \in Seq(Nat) /\ Len(t) = Len(q) + 1
      /\ \A i \in 1 .. Len(q) : t[i] = WritesOf(q)[i]
      /\ t[Len(q) + 1] = b.write
  BY <1>3, <1>4, AppendProperties
<1> HIDE DEF s, t
<1>6. ASSUME NEW i \in 1 .. Len(q) + 1 PROVE s[i] = t[i]
  <2>1. CASE i = Len(q) + 1
    BY <1>1, <1>2, <1>5, <2>1
  <2>2. CASE i \in 1 .. Len(q)
    BY <1>1, <1>2, <1>3, <1>5, <2>2
  <2> QED BY <1>3, <2>1, <2>2
<1>7. s = t
  BY <1>2, <1>5, <1>6, SeqEqual
<1> QED BY <1>7 DEF s, t

LEMMA WritesOfTail ==
  ASSUME NEW q \in Seq(Batch), q # <<>>
  PROVE  /\ WritesOf(q) # <<>>
         /\ Head(WritesOf(q)) = q[1].write
         /\ WritesOf(Tail(q)) = Tail(WritesOf(q))
<1> DEFINE w == WritesOf(q)
           s == WritesOf(Tail(q))
           t == Tail(w)
<1>1. /\ Len(q) \in Nat \ {0}
      /\ Tail(q) \in Seq(Batch) /\ Len(Tail(q)) = Len(q) - 1
      /\ \A i \in 1 .. Len(q) - 1 : Tail(q)[i] = q[i + 1]
  BY TailOf
<1>2. /\ w \in Seq(Nat) /\ Len(w) = Len(q)
      /\ \A i \in 1 .. Len(q) : w[i] = q[i].write
  BY WritesOfSeq
<1>3. /\ s \in Seq(Nat) /\ Len(s) = Len(q) - 1
      /\ \A i \in 1 .. Len(q) - 1 : s[i] = Tail(q)[i].write
  BY <1>1, WritesOfSeq
<1> HIDE DEF w, s
<1>4. w # <<>> /\ Head(w) = w[1]
  BY <1>1, <1>2, EmptySeq
<1>5. /\ t \in Seq(Nat) /\ Len(t) = Len(q) - 1
      /\ \A i \in 1 .. Len(t) : t[i] = w[i + 1]
  BY <1>1, <1>2, <1>4, HeadTailProperties
<1> HIDE DEF t
<1>6. ASSUME NEW i \in 1 .. Len(q) - 1 PROVE s[i] = t[i]
  <2>1. i + 1 \in 1 .. Len(q)
    BY <1>1
  <2> QED BY <1>1, <1>2, <1>3, <1>5, <2>1
<1>7. s = t
  BY <1>3, <1>5, <1>6, SeqEqual
<1> QED BY <1>1, <1>2, <1>4, <1>7 DEF w, s, t

(* The queue that the mapping shows. *)
Mapped == [u \in User |-> WritesOf(batches[u])]

LEMMA MappedQueue ==
  ASSUME QueuesInv, StreamInv
  PROVE  /\ Mapped[user] = WritesOf(batches[user])
         /\ Len(Mapped[user]) = Len(batches[user])
         /\ Len(batches[user]) \in Nat
         /\ Len(sent) <= Len(batches[user]) /\ Len(sent) \in Nat
         /\ \A i \in 1 .. Len(sent) : Mapped[user][i] = sent[i].write
<1>1. /\ Prefix(pipeline, batches[user])
      /\ batches[user] \in Seq(Batch) /\ user \in User
      /\ pipeline \in Seq(Batch) /\ sent \in Seq(Batch)
  BY PipelineIsFront DEF QueuesInv, StreamInv
<1>2. sent = pipeline \/ sent = <<>>
  BY DEF StreamInv, RequestsMatch
<1>3. Len(<<>>) = 0 /\ Len(sent) \in Nat /\ Len(pipeline) \in Nat
  BY <1>1, BatchesOf
<1>4. Mapped[user] = WritesOf(batches[user])
  BY <1>1 DEF Mapped
<1>5. /\ Len(Mapped[user]) = Len(batches[user]) /\ Len(batches[user]) \in Nat
      /\ \A i \in 1 .. Len(batches[user]) : Mapped[user][i] = batches[user][i].write
  BY <1>1, <1>4, WritesOfSeq
<1>6. /\ Len(sent) <= Len(batches[user])
      /\ \A i \in 1 .. Len(sent) :
            i \in 1 .. Len(batches[user]) /\ sent[i] = batches[user][i]
  BY <1>1, <1>2, <1>3, <1>5 DEF Prefix
<1> QED BY <1>3, <1>4, <1>5, <1>6

(* What NotifyUser tells is about the head of the queue. *)
LEMMA ToldOfHead ==
  ASSUME QueuesInv, StreamInv, pipeline # <<>>, NEW outcome,
         NotifyUser(Head(pipeline), outcome)
  PROVE  told' \in {told, Append(told, [write |-> Head(Mapped[user]),
                                        outcome |-> outcome])}
<1> DEFINE b == Head(pipeline)
           found == {c \in callbacks[user] : c.id = b.id}
<1>1. found \in {{b}, {}}
  BY HeadOfPipeline
<1>2. told' = IF found = {}
              THEN told
              ELSE Append(told, [write |-> (CHOOSE c \in found : TRUE).write,
                                 outcome |-> outcome])
  BY DEF NotifyUser
<1> HIDE DEF found
<1>3. found # {} => (CHOOSE c \in found : TRUE) = b
  BY <1>1
<1>4. b.write = Head(Mapped[user])
  <2>1. b = batches[user][1] /\ batches[user] # <<>>
    BY HeadOfPipeline
  <2>2. batches[user] \in Seq(Batch) /\ user \in User
    BY DEF QueuesInv
  <2> QED BY <2>1, <2>2, WritesOfTail DEF Mapped
<1> HIDE DEF b
<1> QED BY <1>2, <1>3, <1>4

(* The queue loses its head. *)
LEMMA MappedLosesHead ==
  ASSUME QueuesInv, StreamInv, pipeline # <<>>,
         batches' = [batches EXCEPT ![user] =
                       RemoveMutationBatch(@, Head(pipeline))]
  PROVE  /\ Mapped' = [Mapped EXCEPT ![user] = Tail(@)]
         /\ Mapped[user] # <<>>
         /\ Head(Mapped[user]) = Head(pipeline).write
<1>1. /\ batches[user] # <<>> /\ batches[user] \in Seq(Batch) /\ user \in User
      /\ Head(pipeline) = batches[user][1]
      /\ batches' = [batches EXCEPT ![user] = Tail(@)]
  BY HeadOfPipeline DEF QueuesInv
<1>2. /\ WritesOf(batches[user]) # <<>>
      /\ Head(WritesOf(batches[user])) = Head(pipeline).write
      /\ WritesOf(Tail(batches[user])) = Tail(WritesOf(batches[user]))
  BY <1>1, WritesOfTail
<1>3. ASSUME NEW u \in User
      PROVE  WritesOf(batches'[u]) =
               IF u = user THEN Tail(WritesOf(batches[u])) ELSE WritesOf(batches[u])
  BY <1>1, <1>2 DEF QueuesInv
<1> QED BY <1>1, <1>2, <1>3 DEF Mapped

-----------------------------------------------------------------------------
(* The steps.                                                              *)

LEMMA MappedInit ==
  ASSUME Init
  PROVE  Abstract!Init
<1>1. WritesOf(<<>>) = <<>>
  BY DEF WritesOf
<1>2. [u \in User |-> WritesOf(batches[u])] = [u \in User |-> <<>>]
  BY <1>1 DEF Init
<1> QED BY <1>2 DEF Init, Abstract!Init, Abstract!Write, Write

LEMMA WriteIssues ==
  ASSUME WritesInv, WriteMutations
  PROVE  Abstract!Issue
<1> DEFINE b == [id |-> nextBatchId, write |-> Len(writer) + 1]
<1>1. QueuesInv
  BY DEF WritesInv
<1>2. /\ Len(writer) < MaxWrites
      /\ writer' = Append(writer, user)
      /\ batches' = [batches EXCEPT ![user] = Append(@, b)]
      /\ UNCHANGED <<user, served, applied, refused, told>>
  BY DEF WriteMutations
<1>3. b \in Batch /\ b.write = Len(writer) + 1
  <2>1. /\ Len(writer) \in Nat /\ MaxWrites \in Nat
        /\ nextBatchId \in Nat \ {0} /\ nextBatchId <= Len(writer) + 1
    BY <1>1, LenProperties, FirestoreWritesAssumption DEF QueuesInv
  <2> QED BY <1>2, <2>1 DEF Batch, Write
<1> HIDE DEF b
<1>4. batches[user] \in Seq(Batch) /\ user \in User
  BY <1>1 DEF QueuesInv
<1>5. WritesOf(Append(batches[user], b)) = Append(WritesOf(batches[user]), Len(writer) + 1)
  BY <1>3, <1>4, WritesOfAppend
<1>6. Mapped' = [Mapped EXCEPT ![user] = Append(@, Len(writer) + 1)]
  BY <1>1, <1>2, <1>4, <1>5 DEF Mapped, QueuesInv
<1> QED BY <1>2, <1>6 DEF Abstract!Issue, Mapped

LEMMA ServerSteps ==
  ASSUME WritesInv
  PROVE  /\ Apply => Abstract!Apply
         /\ Refuse => Abstract!Refuse
<1>1. QueuesInv /\ StreamInv /\ HistoryTyped
  BY DEF WritesInv
<1>2. /\ Len(Mapped[user]) = Len(batches[user]) /\ Len(batches[user]) \in Nat
      /\ Len(sent) <= Len(batches[user]) /\ Len(sent) \in Nat
      /\ \A i \in 1 .. Len(sent) : Mapped[user][i] = sent[i].write
      /\ served \in Nat
  BY <1>1, MappedQueue DEF StreamInv
<1>3. served < Len(sent) =>
        /\ served < Len(Mapped[user])
        /\ Mapped[user][served + 1] = sent[served + 1].write
  BY <1>2, NextIndex
<1>4. Apply => Abstract!Apply
  <2> SUFFICES ASSUME Apply PROVE Abstract!Apply
    OBVIOUS
  <2>1. /\ served < Len(sent)
        /\ served' = served + 1
        /\ applied' = [applied EXCEPT ![sent[served + 1].write] = @ + 1]
        /\ UNCHANGED <<user, writer, batches, refused, told>>
    BY DEF Apply, clientVars
  <2>2. Mapped' = Mapped
    BY <2>1 DEF Mapped
  <2> QED BY <1>3, <2>1, <2>2 DEF Abstract!Apply, Mapped
<1>5. Refuse => Abstract!Refuse
  <2> SUFFICES ASSUME Refuse PROVE Abstract!Refuse
    OBVIOUS
  <2>1. /\ served < Len(sent)
        /\ refused' = refused \cup {sent[served + 1].write}
        /\ UNCHANGED <<user, writer, batches, served, applied, told>>
    BY DEF Refuse, clientVars
  <2>2. Mapped' = Mapped
    BY <2>1 DEF Mapped
  <2> QED BY <1>3, <2>1, <2>2 DEF Abstract!Refuse, Mapped
<1> QED BY <1>4, <1>5

LEMMA ResultAccepts ==
  ASSUME WritesInv, OnWriteStreamMutationResult
  PROVE  Abstract!Accept
<1>1. QueuesInv /\ StreamInv
  BY DEF WritesInv
<1>2. /\ served > 0
      /\ served' = served - 1
      /\ NotifyUser(Head(pipeline), "accepted")
      /\ batches' = [batches EXCEPT ![user] =
                       RemoveMutationBatch(@, Head(pipeline))]
      /\ UNCHANGED <<user, writer, applied, refused>>
  BY DEF OnWriteStreamMutationResult
<1>3. pipeline # <<>>
  BY <1>1, <1>2, AnswerFindsPipeline
<1>4. Mapped' = [Mapped EXCEPT ![user] = Tail(@)]
  BY <1>1, <1>2, <1>3, MappedLosesHead
<1>5. told' \in {told, Append(told, [write |-> Head(Mapped[user]),
                                     outcome |-> "accepted"])}
  BY <1>1, <1>2, <1>3, ToldOfHead
<1> QED BY <1>2, <1>4, <1>5 DEF Abstract!Accept, Abstract!MayTell, Mapped

(* What is refused next is the head, when nothing before it is unanswered. *)
LEMMA RefusedHead ==
  ASSUME QueuesInv, StreamInv, refusing, served = 0
  PROVE  pipeline # <<>> /\ Head(pipeline).write \in refused
<1>1. sent = pipeline /\ pipeline # <<>>
  BY AnswerFindsPipeline
<1>2. sent[1].write \in refused
  BY DEF StreamInv
<1>3. pipeline \in Seq(Batch)
  BY DEF StreamInv
<1> QED BY <1>1, <1>2, <1>3, TailOf

LEMMA RefusedCloseRejects ==
  ASSUME WritesInv,
         refusing, served = 0, served' = 0,
         batches' = [batches EXCEPT ![user] =
                       RemoveMutationBatch(@, Head(pipeline))],
         told' = told \/ NotifyUser(Head(pipeline), "rejected"),
         UNCHANGED <<user, writer, applied, refused>>
  PROVE  Abstract!Reject
<1>1. QueuesInv /\ StreamInv
  BY DEF WritesInv
<1>2. pipeline # <<>> /\ Head(pipeline).write \in refused
  BY <1>1, RefusedHead
<1>3. /\ Mapped' = [Mapped EXCEPT ![user] = Tail(@)]
      /\ Mapped[user] # <<>>
      /\ Head(Mapped[user]) \in refused
  BY <1>1, <1>2, MappedLosesHead
<1>4. told' \in {told, Append(told, [write |-> Head(Mapped[user]),
                                     outcome |-> "rejected"])}
  BY <1>1, <1>2, ToldOfHead
<1> QED BY <1>3, <1>4 DEF Abstract!Reject, Abstract!MayTell, Mapped

LEMMA KillBreaksOff ==
  ASSUME WritesInv, KillWhileAcknowledging
  PROVE  Abstract!BreakOff
<1>1. QueuesInv /\ StreamInv
  BY DEF WritesInv
<1>2. /\ served > 0 /\ served' = 0
      /\ batches' = batches
      /\ UNCHANGED <<user, writer, applied, refused>>
  BY DEF KillWhileAcknowledging, Disconnect, Launch
<1>3. PICK c \in callbacks[user] :
        /\ c.id = Head(pipeline).id
        /\ told' = Append(told, [write |-> c.write, outcome |-> "accepted"])
  BY DEF KillWhileAcknowledging
<1>4. pipeline # <<>>
  BY <1>1, <1>2, AnswerFindsPipeline
<1>5. c = Head(pipeline)
  <2>1. c \in {d \in callbacks[user] : d.id = Head(pipeline).id}
    BY <1>3
  <2> QED BY <1>1, <1>4, <2>1, HeadOfPipeline
<1>6. Head(pipeline).write = Head(Mapped[user])
  <2>1. Head(pipeline) = batches[user][1] /\ batches[user] # <<>>
    BY <1>1, <1>4, HeadOfPipeline
  <2>2. batches[user] \in Seq(Batch) /\ user \in User
    BY <1>1 DEF QueuesInv
  <2> QED BY <2>1, <2>2, WritesOfTail DEF Mapped
<1>7. Mapped' = Mapped
  BY <1>2 DEF Mapped
<1> QED BY <1>2, <1>3, <1>5, <1>6, <1>7
        DEF Abstract!BreakOff, Abstract!MayTell, Mapped

LEMMA StepsMap ==
  ASSUME WritesInv, [Next]_vars
  PROVE  [Abstract!Next]_(Abstract!vars)
<1>1. CASE WriteMutations
  BY <1>1, WriteIssues DEF Abstract!Next
<1>2. CASE \E u \in User : HandleCredentialChange(u)
  <2>1. /\ user' \in User /\ served' = 0
        /\ UNCHANGED <<batches, writer, applied, refused, told>>
    BY <1>2 DEF HandleCredentialChange, Disconnect
  <2>2. Abstract!ChangeUser
    BY <2>1 DEF Abstract!ChangeUser
  <2> QED BY <2>2 DEF Abstract!Next
<1>3. CASE Kill \/ OnWriteStreamCloseFailed \/ IdleTimeout
  <2>1. /\ served' = 0 /\ told' = told
        /\ UNCHANGED <<user, batches, writer, applied, refused>>
    BY <1>3 DEF Kill, OnWriteStreamCloseFailed, IdleTimeout, Disconnect, Launch,
                clientVars
  <2>2. Abstract!BreakOff
    BY <2>1 DEF Abstract!BreakOff
  <2> QED BY <2>2 DEF Abstract!Next
<1>4. CASE Apply \/ Refuse
  BY <1>4, ServerSteps DEF Abstract!Next
<1>5. CASE OnWriteStreamMutationResult
  BY <1>5, ResultAccepts DEF Abstract!Next
<1>6. CASE KillWhileAcknowledging
  BY <1>6, KillBreaksOff DEF Abstract!Next
<1>7. CASE OnWriteStreamCloseRefused
  <2>1. Abstract!Reject
    BY <1>7, RefusedCloseRejects
       DEF OnWriteStreamCloseRefused, RejectFirst, Disconnect
  <2> QED BY <2>1 DEF Abstract!Next
<1>8. CASE KillWhileRejecting
  <2>1. Abstract!Reject
    BY <1>8, RefusedCloseRejects DEF KillWhileRejecting, Launch, Disconnect
  <2> QED BY <2>1 DEF Abstract!Next
<1>9. CASE \/ BackoffElapsed
           \/ OnStreamStart
           \/ OnWriteStreamHandshakeComplete
           \/ UNCHANGED vars
  <2>1. UNCHANGED <<user, batches, served, writer, applied, refused, told>>
    BY <1>9 DEF BackoffElapsed, OnStreamStart, OnWriteStreamHandshakeComplete,
                vars, clientVars, streamVars, historyVars
  <2> QED BY <2>1 DEF Abstract!vars
<1> QED
  BY <1>1, <1>2, <1>3, <1>4, <1>5, <1>6, <1>7, <1>8, <1>9 DEF Next

(***************************************************************************)
(* FirestoreWrites implements WriteQueue: whatever streams, logins and     *)
(* deaths do, the writes of a user are tried in order from the oldest left,*)
(* none leaves its queue without an answer of the server to it, and the    *)
(* application is told only of the head, and what the server has decided.  *)
(***************************************************************************)
THEOREM WritesImplementQueue == Spec => ImplementsWriteQueue
<1>1. Init => Abstract!Init
  BY MappedInit
<1>2. WritesInv /\ [Next]_vars => [Abstract!Next]_(Abstract!vars)
  BY StepsMap
<1> QED
  BY <1>1, <1>2, WritesInvHolds, PTL DEF Spec, Abstract!Spec, ImplementsWriteQueue
=============================================================================
