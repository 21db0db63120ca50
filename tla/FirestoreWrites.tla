--------------------------- MODULE FirestoreWrites ---------------------------
(***************************************************************************)
(* The write side of the Firestore SDK that TravelMe is built with: what   *)
(* becomes of addDocument, updateData, setData and delete after the call.  *)
(*                                                                         *)
(* SyncEngine puts a write into the mutation queue of the current user, on *)
(* disk, and registers the application's callback.  RemoteStore copies the *)
(* oldest batches of that queue into its pipeline and sends them over the  *)
(* write stream, which it starts when there is something to send.  A       *)
(* result of the server belongs to the first batch of the pipeline.  When  *)
(* the stream fails, it is started again after a delay and the whole       *)
(* pipeline is sent again; when it fails with an error that is the write's *)
(* own, the first batch is rejected instead.  Another user's login swaps   *)
(* the queue and restarts the stream.  Only the queues survive the         *)
(* process.                                                                *)
(*                                                                         *)
(* All of this runs on one worker queue, a task at a time: an action is a  *)
(* task, with every call it makes.  A HARD_ASSERT of the code ends the     *)
(* process; the invariants say that none fires.                            *)
(*                                                                         *)
(* Left out: the stream token, which is recorded and sent but resumes      *)
(* nothing (write_stream.cc:72); the length of delays; waitForPendingWrites*)
(* and disableNetwork, which TravelMe does not call.  The server is taken  *)
(* to have finished with a connection before it serves the next one.       *)
(***************************************************************************)
EXTENDS Integers, Sequences, FiniteSets

CONSTANTS
  User,               \* accounts that log in on the phone
  Refusable,          \* writes the server may refuse
  kMaxPendingWrites,  \* length of the pipeline
  MaxWrites,          \* bound: writes issued, by all users together
  MaxBreaks,          \* bound: streams that fail
  MaxLogins,          \* bound: changes of credentials
  MaxKills            \* bound: deaths of the process

Write == 1 .. MaxWrites
Batch == [id : Write, write : Write]
StreamState == {"Initial", "Starting", "Open", "Error", "Backoff"}

ASSUME FirestoreWritesAssumption ==
  /\ Refusable \subseteq Write
  /\ kMaxPendingWrites \in Nat \ {0}
  /\ {MaxWrites, MaxBreaks, MaxLogins, MaxKills} \subseteq Nat

VARIABLES
  batches,    \* mutation queues on disk: batches[u], oldest first
  user,       \* current_user_ of SyncEngine
  nextBatchId,  \* next_batch_id_ of the current user's mutation queue
  callbacks,  \* mutation_callbacks_: callbacks[u], by batch id
  pipeline,   \* write_pipeline_ of RemoteStore
  state,      \* state_ of the write stream
  handshakeComplete,  \* handshake_complete_ of the write stream
  idle,       \* whether idleness_timer_ runs
  sent,       \* batches written to this stream and not yet answered to it
  served,     \* how many of them the server has applied
  refusing,   \* the server has refused the next one and ends the stream
  writer,     \* history: writer[w] is the user who issued write w
  applied,    \* history: applied[w] is how often the server applied w
  refused,    \* history: writes the server has refused
  unheard,    \* history: writes applied whose answer did not arrive
  told,       \* history: the callbacks called, oldest first
  launched,   \* history: writes issued before this process was launched
  faults      \* history: number of breaks, logins and kills so far

clientVars == <<batches, user, nextBatchId, callbacks, pipeline>>
streamVars == <<state, handshakeComplete, idle, sent, served, refusing>>
historyVars == <<writer, applied, refused, unheard, told, launched,
                 faults>>
vars == <<clientVars, streamVars, historyVars>>

-----------------------------------------------------------------------------
(* The disk.                                                               *)

(* LoadNextBatchIdFromDb: one more than the largest id of any user's queue. *)
LoadNextBatchId(queues) ==
  CHOOSE n \in 1 .. MaxWrites + 1 :
    /\ \A u \in User : \A i \in DOMAIN queues[u] : queues[u][i].id < n
    /\ n # 1 => \E u \in User : \E i \in DOMAIN queues[u] :
                   queues[u][i].id = n - 1

(* Faulty variants, named for the fault; the properties must reject them. *)
RemoveNewestBatch(q, b) == SubSeq(q, 1, Len(q) - 1)

(* RemoveMutationBatch: by id, which must be there. *)
RemoveMutationBatch(q, b) ==
  LET i == CHOOSE i \in DOMAIN q : q[i].id = b.id
  IN  SubSeq(q, 1, i - 1) \o SubSeq(q, i + 1, Len(q))

-----------------------------------------------------------------------------
(* The callbacks of the application.                                       *)

(* unordered_map::insert: a callback already there for this id stays. *)
RegisterCallback(b) ==
  callbacks' = [callbacks EXCEPT ![user] =
                  IF \E c \in @ : c.id = b.id THEN @ ELSE @ \cup {b}]

NotifyUserAndKeep(b, outcome) ==
  /\ callbacks' = callbacks
  /\ told' = IF \E c \in callbacks[user] : c.id = b.id
             THEN Append(told, [write |-> b.write, outcome |-> outcome])
             ELSE told

(* The callback registered under b's id for the current user, if any. *)
NotifyUser(b, outcome) ==
  LET found == {c \in callbacks[user] : c.id = b.id}
  IN  /\ callbacks' = [callbacks EXCEPT ![user] = @ \ found]
      /\ told' = IF found = {}
                 THEN told
                 ELSE Append(told, [write |-> (CHOOSE c \in found : TRUE).write,
                                    outcome |-> outcome])

-----------------------------------------------------------------------------
(* The pipeline and its stream.                                            *)

IsNotInitial(s) == s # "Initial"

IsStarted(s) == s \in {"Starting", "Open", "Backoff"}

(* Stream::Start: after an error, only when a delay has passed. *)
Started(s) == IF s = "Error" THEN "Backoff" ELSE "Starting"

(* How many batches of q are not after the last one of the pipeline p. *)
Retrieved(q, p) ==
  CHOOSE n \in 0 .. Len(q) :
    \A i \in DOMAIN q : i <= n <=> p # <<>> /\ q[i].id <= p[Len(p)].id

AddedUnbounded(q, p) == SubSeq(q, Retrieved(q, p) + 1, Len(q))

(* GetNextMutationBatch, as long as CanAddToWritePipeline. *)
Added(q, p) ==
  LET n == Retrieved(q, p)
      room == kMaxPendingWrites - Len(p)
  IN  SubSeq(q, n + 1, IF Len(q) < n + room THEN Len(q) ELSE n + room)

FillBeforeHandshake(q, p, s, hs, running, onWire) ==
  LET added == Added(q, p)
  IN  /\ pipeline' = p \o added
      /\ sent' = IF s = "Open" THEN onWire \o added ELSE onWire
      /\ idle' = (p \o added = <<>> /\ s = "Open")
      /\ state' = IF p \o added # <<>> /\ ~IsStarted(s) THEN Started(s) ELSE s
      /\ handshakeComplete' = hs

(***************************************************************************)
(* FillWritePipeline, from what the task has made of the queue (q), the    *)
(* pipeline (p), the stream (s, hs, running) and what it carries (onWire).   *)
(* A batch is sent at once only when the handshake is over; an empty       *)
(* pipeline marks an open stream as idle, a write ends that.               *)
(***************************************************************************)
FillWritePipeline(q, p, s, hs, running, onWire) ==
  LET added == Added(q, p)
      sending == s = "Open" /\ hs
  IN  /\ pipeline' = p \o added
      /\ sent' = IF sending THEN onWire \o added ELSE onWire
      /\ idle' = \/ p \o added = <<>> /\ s = "Open"
                 \/ running /\ ~(sending /\ added # <<>>)
      /\ state' = IF p \o added # <<>> /\ ~IsStarted(s) THEN Started(s) ELSE s
      /\ handshakeComplete' = hs

(* What the server applied and this client has not been told. *)
Unanswered == {sent[i].write : i \in 1 .. served}

(* The connection is gone, with what is on it. *)
Disconnect ==
  /\ served' = 0
  /\ refusing' = FALSE
  /\ unheard' = unheard \cup Unanswered

-----------------------------------------------------------------------------
(* The application.                                                        *)

(* A launch finds what is on disk and no more; RemoteStore::Start follows. *)
Launch(queues) ==
  /\ batches' = queues
  /\ nextBatchId' = LoadNextBatchId(queues)
  /\ callbacks' = [u \in User |-> {}]
  /\ launched' = Len(writer)
  /\ FillWritePipeline(queues[user], <<>>, "Initial", FALSE, FALSE, <<>>)

Init ==
  /\ user \in User
  /\ batches = [u \in User |-> <<>>]
  /\ nextBatchId = 1
  /\ callbacks = [u \in User |-> {}]
  /\ pipeline = <<>>
  /\ state = "Initial"
  /\ handshakeComplete = FALSE
  /\ idle = FALSE
  /\ sent = <<>>
  /\ served = 0
  /\ refusing = FALSE
  /\ writer = <<>>
  /\ applied = [w \in Write |-> 0]
  /\ refused = {}
  /\ unheard = {}
  /\ told = <<>>
  /\ launched = 0
  /\ faults = [breaks |-> 0, logins |-> 0, kills |-> 0]

(* SyncEngine::WriteMutations, called for a write of the current user. *)
WriteMutations ==
  LET b == [id |-> nextBatchId, write |-> Len(writer) + 1]
  IN  /\ Len(writer) < MaxWrites
      /\ writer' = Append(writer, user)
      /\ batches' = [batches EXCEPT ![user] = Append(@, b)]
      /\ nextBatchId' = nextBatchId + 1
      /\ RegisterCallback(b)
      /\ FillWritePipeline(batches'[user], pipeline, state, handshakeComplete,
                           idle, sent)
      /\ UNCHANGED <<user, served, refusing, applied, refused, unheard, told,
                     launched, faults>>

(* Stop, then the pipeline is emptied: a stream in error stays in error. *)
StoppedStream == IF IsStarted(state) THEN "Initial" ELSE state

KeepPipelineAtLogin(u) ==
  /\ faults.logins < MaxLogins
  /\ faults' = [faults EXCEPT !.logins = @ + 1]
  /\ user' = u
  /\ nextBatchId' = IF u = user THEN nextBatchId ELSE LoadNextBatchId(batches)
  /\ Disconnect
  /\ FillWritePipeline(batches[u], pipeline, StoppedStream, FALSE, FALSE, <<>>)
  /\ UNCHANGED <<batches, callbacks, writer, applied, refused, told, launched>>

(* A login, or a new token of the same account. *)
HandleCredentialChange(u) ==
  /\ faults.logins < MaxLogins
  /\ faults' = [faults EXCEPT !.logins = @ + 1]
  /\ user' = u
  /\ nextBatchId' = IF u = user THEN nextBatchId ELSE LoadNextBatchId(batches)
  /\ Disconnect
  /\ FillWritePipeline(batches[u], <<>>, StoppedStream, FALSE, FALSE, <<>>)
  /\ UNCHANGED <<batches, callbacks, writer, applied, refused, told, launched>>

(* The process dies; the application is launched again. *)
Kill ==
  /\ faults.kills < MaxKills
  /\ faults' = [faults EXCEPT !.kills = @ + 1]
  /\ Disconnect
  /\ Launch(batches)
  /\ UNCHANGED <<user, writer, applied, refused, told>>

-----------------------------------------------------------------------------
(* The stream.                                                             *)

BackoffElapsed ==
  /\ state = "Backoff"
  /\ state' = "Starting"
  /\ UNCHANGED <<clientVars, handshakeComplete, idle, sent, served, refusing,
                 historyVars>>

(* OnWriteStreamOpen writes the handshake, which ends idleness. *)
OnStreamStart ==
  /\ state = "Starting"
  /\ state' = "Open"
  /\ idle' = FALSE
  /\ UNCHANGED <<clientVars, handshakeComplete, sent, served, refusing,
                 historyVars>>

ResendNewestFirst ==
  /\ state = "Open"
  /\ ~handshakeComplete
  /\ handshakeComplete' = TRUE
  /\ sent' = sent \o [i \in DOMAIN pipeline |-> pipeline[Len(pipeline) + 1 - i]]
  /\ idle' = (idle /\ pipeline = <<>>)
  /\ UNCHANGED <<clientVars, state, served, refusing, historyVars>>

OnWriteStreamHandshakeComplete ==
  /\ state = "Open"
  /\ ~handshakeComplete
  /\ handshakeComplete' = TRUE
  /\ sent' = sent \o pipeline
  /\ idle' = (idle /\ pipeline = <<>>)
  /\ UNCHANGED <<clientVars, state, served, refusing, historyVars>>

(* The server takes the oldest request of the stream, or refuses it. *)
Apply ==
  /\ served < Len(sent)
  /\ ~refusing
  /\ served' = served + 1
  /\ applied' = [applied EXCEPT ![sent[served + 1].write] = @ + 1]
  /\ UNCHANGED <<clientVars, state, handshakeComplete, idle, sent, refusing,
                 writer, refused, unheard, told, launched, faults>>

Refuse ==
  /\ served < Len(sent)
  /\ ~refusing
  /\ sent[served + 1].write \in Refusable
  /\ refusing' = TRUE
  /\ refused' = refused \cup {sent[served + 1].write}
  /\ UNCHANGED <<clientVars, state, handshakeComplete, idle, sent, served,
                 writer, applied, unheard, told, launched, faults>>

(***************************************************************************)
(* A result arrives: the application is told, then the batch leaves the    *)
(* disk, then the pipeline is refilled.                                    *)
(***************************************************************************)
OnWriteStreamMutationResult ==
  LET b == Head(pipeline)
  IN  /\ served > 0
      /\ served' = served - 1
      /\ NotifyUser(b, "accepted")
      /\ batches' = [batches EXCEPT ![user] = RemoveMutationBatch(@, b)]
      /\ FillWritePipeline(batches'[user], Tail(pipeline), state,
                           handshakeComplete, idle, Tail(sent))
      /\ UNCHANGED <<user, nextBatchId, refusing, writer, applied, refused,
                     unheard, launched, faults>>

(* The process dies after the application was told and before the disk. *)
KillWhileAcknowledging ==
  /\ served > 0
  /\ faults.kills < MaxKills
  /\ faults' = [faults EXCEPT !.kills = @ + 1]
  /\ \E c \in callbacks[user] :
       /\ c.id = Head(pipeline).id
       /\ told' = Append(told, [write |-> c.write, outcome |-> "accepted"])
  /\ Disconnect
  /\ Launch(batches)
  /\ UNCHANGED <<user, writer, applied, refused>>

(***************************************************************************)
(* The stream ends with the error of the refused write, after the results  *)
(* of those before it: HandleWriteError rejects the first batch of the     *)
(* pipeline, clears the error and starts the stream again without delay.   *)
(***************************************************************************)
RejectFirst ==
  LET b == Head(pipeline)
  IN  /\ batches' = [batches EXCEPT ![user] = RemoveMutationBatch(@, b)]
      /\ NotifyUser(b, "rejected")
      /\ FillWritePipeline(batches'[user], Tail(pipeline), "Initial", FALSE,
                           FALSE, <<>>)

OnWriteStreamCloseRefused ==
  /\ refusing
  /\ served = 0
  /\ RejectFirst
  /\ Disconnect
  /\ UNCHANGED <<user, nextBatchId, writer, applied, refused, launched,
                 faults>>

(* The process dies after the batch left the disk; nobody is told. *)
KillWhileRejecting ==
  /\ refusing
  /\ served = 0
  /\ faults.kills < MaxKills
  /\ faults' = [faults EXCEPT !.kills = @ + 1]
  /\ Disconnect
  /\ Launch([batches EXCEPT ![user] = RemoveMutationBatch(@, Head(pipeline))])
  /\ UNCHANGED <<user, writer, applied, refused, told>>

KeepHandshakeOnFailure ==
  /\ state \in {"Starting", "Open"}
  /\ faults.breaks < MaxBreaks
  /\ faults' = [faults EXCEPT !.breaks = @ + 1]
  /\ state' = IF pipeline # <<>> THEN Started("Error") ELSE "Error"
  /\ idle' = FALSE
  /\ sent' = <<>>
  /\ Disconnect
  /\ UNCHANGED <<clientVars, handshakeComplete, writer, applied, refused, told,
                 launched>>

RejectOnAnyFailure ==
  /\ handshakeComplete
  /\ pipeline # <<>>
  /\ faults.breaks < MaxBreaks
  /\ faults' = [faults EXCEPT !.breaks = @ + 1]
  /\ RejectFirst
  /\ Disconnect
  /\ UNCHANGED <<user, nextBatchId, writer, applied, refused, launched>>

(***************************************************************************)
(* The stream fails for another reason: no token, no connection, an error  *)
(* before the handshake is over, or one that does not condemn the write.   *)
(* The pipeline is kept; a stream that is needed is started after a delay. *)
(***************************************************************************)
OnWriteStreamCloseFailed ==
  /\ state \in {"Starting", "Open"}
  /\ faults.breaks < MaxBreaks
  /\ faults' = [faults EXCEPT !.breaks = @ + 1]
  /\ state' = IF pipeline # <<>> THEN Started("Error") ELSE "Error"
  /\ handshakeComplete' = FALSE
  /\ idle' = FALSE
  /\ sent' = <<>>
  /\ Disconnect
  /\ UNCHANGED <<clientVars, writer, applied, refused, told, launched>>

(* idleness_timer_ fires: the stream is stopped. *)
IdleTimeout ==
  /\ idle
  /\ state' = "Initial"
  /\ handshakeComplete' = FALSE
  /\ idle' = FALSE
  /\ sent' = <<>>
  /\ Disconnect
  /\ UNCHANGED <<clientVars, writer, applied, refused, told, launched,
                 faults>>

Next ==
  \/ WriteMutations
  \/ \E u \in User : HandleCredentialChange(u)
  \/ Kill
  \/ BackoffElapsed
  \/ OnStreamStart
  \/ OnWriteStreamHandshakeComplete
  \/ Apply
  \/ Refuse
  \/ OnWriteStreamMutationResult
  \/ KillWhileAcknowledging
  \/ OnWriteStreamCloseRefused
  \/ KillWhileRejecting
  \/ OnWriteStreamCloseFailed
  \/ IdleTimeout

Spec == Init /\ [][Next]_vars

-----------------------------------------------------------------------------
(* Properties.                                                             *)

(* Every variable has its type, and the pipeline keeps to its length.      *)
TypeOK ==
  /\ batches \in [User -> Seq(Batch)]
  /\ user \in User
  /\ nextBatchId \in 1 .. MaxWrites + 1
  /\ callbacks \in [User -> SUBSET Batch]
  /\ pipeline \in Seq(Batch) /\ Len(pipeline) <= kMaxPendingWrites
  /\ state \in StreamState
  /\ handshakeComplete \in BOOLEAN
  /\ idle \in BOOLEAN
  /\ sent \in Seq(Batch)
  /\ served \in Nat
  /\ refusing \in BOOLEAN
  /\ writer \in Seq(User) /\ Len(writer) <= MaxWrites
  /\ applied \in [Write -> Nat]
  /\ refused \subseteq Write
  /\ unheard \subseteq Write
  /\ told \in Seq([write : Write, outcome : {"accepted", "rejected"}])
  /\ launched \in 0 .. MaxWrites
  /\ faults \in [breaks : Nat, logins : Nat, kills : Nat]

(***************************************************************************)
(* The pipeline is the front of the current user's queue, as much of it as *)
(* fits: nothing of another user is left in it after a login, nothing is   *)
(* skipped, and no batch waits on disk while there is room.                *)
(***************************************************************************)
PipelineIsQueue ==
  LET q == batches[user]
  IN  /\ Len(pipeline) = IF Len(q) < kMaxPendingWrites
                         THEN Len(q) ELSE kMaxPendingWrites
      /\ \A i \in DOMAIN pipeline : pipeline[i] = q[i]

(***************************************************************************)
(* What has been written to the stream and not answered is the pipeline,   *)
(* no more and no less, in its order: so the next result is about the first*)
(* batch of the pipeline, to which OnWriteStreamMutationResult gives it.   *)
(***************************************************************************)
RequestsMatch ==
  /\ sent = IF handshakeComplete THEN pipeline ELSE <<>>
  /\ served <= Len(sent)
  /\ refusing => served < Len(sent)

(***************************************************************************)
(* The conditions of the HARD_ASSERTs of the stream: none is closed as idle*)
(* while it is needed ("Write stream was stopped gracefully while still    *)
(* needed"), no handshake is written twice ("Handshake already completed"),*)
(* and a stream with something to send is not left stopped.                *)
(***************************************************************************)
StreamNeeded ==
  /\ idle => pipeline = <<>> /\ state = "Open"
  /\ handshakeComplete => state = "Open"
  /\ pipeline # <<>> => IsStarted(state)

(***************************************************************************)
(* A callback is registered for exactly the writes of this process that    *)
(* are still queued, under the id their batch has now.  Ids are given again*)
(* after a login or a launch; a callback left behind under one would be    *)
(* called for another write, and that write's own one would be dropped.    *)
(***************************************************************************)
CallbacksRight ==
  \A u \in User :
    callbacks[u] = {b \in {batches[u][i] : i \in DOMAIN batches[u]} :
                      b.write > launched}

(***************************************************************************)
(* What the application hears is true, at most once for each write and in  *)
(* the order of each user's writes.  A write reported as rejected may have *)
(* been applied all the same only if an earlier answer to it was lost.     *)
(***************************************************************************)
AnswersTrue ==
  \A i \in DOMAIN told :
    LET w == told[i].write
    IN  /\ told[i].outcome = "accepted" => applied[w] > 0
        /\ told[i].outcome = "rejected" =>
             w \in refused /\ (applied[w] > 0 => w \in unheard)
        /\ \A j \in 1 .. i - 1 : writer[told[j].write] = writer[w] =>
                                   told[j].write < w

(* The server applies a write twice only if its answer did not arrive.     *)
DuplicatesExplained == \A w \in Write : applied[w] > 1 => w \in unheard

(* No write disappears: it is queued until the server has decided on it.   *)
NothingLost ==
  \A w \in DOMAIN writer :
    \/ \E i \in DOMAIN batches[writer[w]] : batches[writer[w]][i].write = w
    \/ applied[w] > 0
    \/ w \in refused

(***************************************************************************)
(* The server applies a write only when every earlier write of that user   *)
(* has been decided, over all failures, logins and restarts.               *)
(***************************************************************************)
AppliedInOrder ==
  [][\A w \in DOMAIN writer : applied'[w] > applied[w] =>
       \A v \in 1 .. w - 1 :
         writer[v] = writer[w] => applied[v] > 0 \/ v \in refused]_vars

WritesOf(q) == [i \in DOMAIN q |-> q[i].write]

(* The module implements the queue that WriteQueue describes.              *)
Abstract == INSTANCE WriteQueue WITH
  queue <- [u \in User |-> WritesOf(batches[u])],
  tried <- served

ImplementsWriteQueue == Abstract!Spec

(***************************************************************************)
(* Fairness: delays pass, connections are made or fail, and a connection   *)
(* that lasts brings the server's answers.  Failures are bounded by        *)
(* MaxBreaks and MaxKills; nothing obliges users to write or to log in.    *)
(***************************************************************************)
Fairness ==
  /\ WF_vars(BackoffElapsed)
  /\ WF_vars(OnStreamStart)
  /\ WF_vars(OnWriteStreamHandshakeComplete)
  /\ WF_vars(Apply \/ Refuse)
  /\ WF_vars(OnWriteStreamMutationResult)
  /\ WF_vars(OnWriteStreamCloseRefused)

FairSpec == Spec /\ Fairness

(***************************************************************************)
(* A write leaves the queue, answered, unless its user is not the current  *)
(* one any more: neither a full pipeline nor a failed stream, refused      *)
(* write or restart leaves it waiting for a push that nobody gives.        *)
(***************************************************************************)
Waiting(w) ==
  /\ w \in DOMAIN writer
  /\ \E i \in DOMAIN batches[writer[w]] : batches[writer[w]][i].write = w

WritesAnswered ==
  \A w \in Write :
    Waiting(w) /\ writer[w] = user ~> ~Waiting(w) \/ writer[w] # user
=============================================================================
