--------------------------- MODULE FirestoreReads ---------------------------
(***************************************************************************)
(* The read side of the Firestore SDK that TravelMe is built with: what    *)
(* happens between getDocuments and its completion handler.                *)
(*                                                                         *)
(* A get is a listener that is removed at its first event.  Gets of one    *)
(* query that overlap share a view and a target of the watch stream.  The  *)
(* first event comes when the view is current, that is when the server has *)
(* sent all of the target's documents, or from the cache as soon as the    *)
(* phone is held to be offline: when the stream fails, or when a timer     *)
(* runs out before the server has said anything.                           *)
(*                                                                         *)
(* Two threads work on it: the application's main queue, which calls       *)
(* getDocuments and runs the completion handlers, and the SDK's worker     *)
(* queue.  They send each other tasks and events, in order.  An action is  *)
(* one task of one of them, with every call it makes, or a step of the     *)
(* server.                                                                 *)
(*                                                                         *)
(* Left out: the documents (a snapshot is known by its source), limbo      *)
(* documents, existence filters, resume tokens, the length of delays, and  *)
(* gets of other sources than the default, which TravelMe does not use.    *)
(***************************************************************************)
EXTENDS Integers, Sequences, SequencesExt

CONSTANTS
  Get,         \* calls of getDocuments
  Query,       \* their queries, each of them a target
  QueryOf,     \* QueryOf[g] is the query of g
  Refused,     \* the queries that the server's rules refuse
  MaxFaults    \* bound: failures of the watch stream, changes of credentials
               \* and changes of a query's documents, together

ASSUME FirestoreReadsAssumption ==
  /\ IsFiniteSet(Get) /\ IsFiniteSet(Query)
  /\ QueryOf \in [Get -> Query]
  /\ Refused \subseteq Query
  /\ MaxFaults \in Nat

kMaxWatchStreamFailures == 1

VARIABLES
  begun,      \* the gets that have been called
  tasks,      \* from the main queue to the worker queue
  events,     \* from the worker queue to the main queue
  muted,      \* the gets whose AsyncEventListener is muted
  answers,    \* history: what the completion handler of each get received
  listeners,  \* listeners[q]: the gets that EventManager has for q
  raised,     \* the gets that have had their initial event
  view,       \* view[q]: SyncEngine's view of q
  targets,    \* listen_targets_ of RemoteStore
  state,      \* state_ of the watch stream
  idle,       \* whether its idleness_timer_ runs
  target,     \* target_states_ of the WatchChangeAggregator
  online,     \* state_ of the OnlineStateTracker
  timer,      \* whether online_state_timer_ runs
  failures,   \* watch_stream_failures_
  heard,      \* history: the server has sent something on this stream
  toServer,   \* requests on the stream
  fromServer, \* responses on the stream
  serving,    \* serving[q]: the watch request that the server serves, or 0
  complete,   \* the targets for which it has sent everything
  watches,    \* history: watch requests so far
  lastWatch,  \* history: lastWatch[q] is the number of q's last one
  faults      \* how many of them there have been

appVars == <<begun, muted, answers>>
viewVars == <<listeners, raised, view>>
onlineVars == <<online, timer, failures>>
wireVars == <<toServer, fromServer, serving, complete>>
watchVars == <<watches, lastWatch>>
vars == <<appVars, tasks, events, viewVars, targets, state, idle, target,
          onlineVars, heard, wireVars, watchVars, faults>>

StreamState == {"Initial", "Starting", "Open", "Error", "Backoff"}
IsStarted(s) == s \in {"Starting", "Open", "Backoff"}
Started(s) == IF s = "Error" THEN "Backoff" ELSE "Starting"

NoTarget == [outstanding |-> 0, pending |-> FALSE, current |-> 0]

Init ==
  /\ begun = {}
  /\ tasks = <<>>
  /\ events = <<>>
  /\ muted = {}
  /\ answers = [g \in Get |-> <<>>]
  /\ listeners = [q \in Query |-> {}]
  /\ raised = {}
  /\ view = [q \in Query |-> "none"]
  /\ targets = {}
  /\ state = "Initial"
  /\ idle = FALSE
  /\ target = [q \in Query |-> NoTarget]
  /\ online = "Unknown"
  /\ timer = FALSE
  /\ failures = 0
  /\ heard = FALSE
  /\ toServer = <<>>
  /\ fromServer = <<>>
  /\ serving = [q \in Query |-> 0]
  /\ complete = {}
  /\ watches = 0
  /\ lastWatch = [q \in Query |-> 0]
  /\ faults = 0

-----------------------------------------------------------------------------
(* The main queue.                                                         *)

(* GetDocuments: a listener is made, and a task of the worker queue adds it. *)
GetDocuments(g) ==
  /\ g \notin begun
  /\ begun' = begun \cup {g}
  /\ tasks' = Append(tasks, [op |-> "add", get |-> g])
  /\ UNCHANGED <<muted, answers, events, viewVars, targets, state, idle, target,
                 onlineVars, heard, wireVars, watchVars, faults>>

(* Faulty variant: the listener is not muted when it is removed.           *)
OnEventUnmuted ==
  /\ events # <<>>
  /\ events' = Tail(events)
  /\ LET e == Head(events)
     IN  /\ answers' = [answers EXCEPT ![e.get] = Append(@, e.source)]
         /\ tasks' = Append(tasks, [op |-> "remove", get |-> e.get])
  /\ UNCHANGED <<begun, muted, viewVars, targets, state, idle, target,
                 onlineVars, heard, wireVars, watchVars, faults>>

(***************************************************************************)
(* ListenOnce::OnEvent, unless the listener has been muted meanwhile.  A   *)
(* snapshot removes the listener, which mutes it at once and asks the      *)
(* worker queue to forget it; an error is just passed on.                  *)
(***************************************************************************)
OnEvent ==
  /\ events # <<>>
  /\ events' = Tail(events)
  /\ LET e == Head(events)
     IN  \/ /\ e.get \in muted
            /\ UNCHANGED <<muted, answers, tasks>>
         \/ /\ e.get \notin muted
            /\ answers' = [answers EXCEPT ![e.get] = Append(@, e.source)]
            /\ \/ e.source = "error" /\ UNCHANGED <<muted, tasks>>
               \/ /\ e.source # "error"
                  /\ muted' = muted \cup {e.get}
                  /\ tasks' = Append(tasks, [op |-> "remove", get |-> e.get])
  /\ UNCHANGED <<begun, viewVars, targets, state, idle, target, onlineVars,
                 heard, wireVars, watchVars, faults>>

-----------------------------------------------------------------------------
(* Views and listeners.                                                    *)

Source(v) == IF v = "current" THEN "server" ELSE "cache"

(* ShouldRaiseInitialEvent of a get, which waits for the server if online. *)
ShouldRaiseInitialEvent(v, o) == v = "current" \/ o = "Offline"

(* The events of one snapshot of views vs for the gets in receivers.       *)
Notified(receivers, vs) ==
  SetToSeq({[get |-> g, source |-> Source(vs[QueryOf[g]])] : g \in receivers})

(***************************************************************************)
(* The listeners of the queries in changed have a new snapshot, and all of *)
(* them learn the online state o: a get raises its first event when it     *)
(* may, and every later snapshot as an event of its own.                   *)
(***************************************************************************)
RaiseEvents(ls, vs, changed, o) ==
  LET all == UNION {ls[q] : q \in Query}
      first == {g \in all \ raised : ShouldRaiseInitialEvent(vs[QueryOf[g]], o)}
      later == {g \in all \cap raised : QueryOf[g] \in changed}
  IN  /\ raised' = raised \cup first
      /\ events' = events \o Notified(first \cup later, vs)

(* ApplyOnlineStateChange: offline, no view is current.                    *)
WithOnlineState(vs, o) ==
  [q \in Query |-> IF vs[q] = "current" /\ o = "Offline" THEN "local" ELSE vs[q]]

(* SetAndBroadcast: the views, then the listeners, hear of the state o.    *)
SetAndBroadcast(o) ==
  LET vs == WithOnlineState(view, o)
  IN  /\ online' = o
      /\ view' = vs
      /\ RaiseEvents(listeners, vs, {q \in Query : vs[q] # view[q]}, o)
      /\ UNCHANGED listeners

(* UpdateState. *)
UpdateState(o) ==
  /\ timer' = FALSE
  /\ failures' = 0
  /\ SetAndBroadcast(o)

-----------------------------------------------------------------------------
(* The watch stream.                                                       *)

(* Requests number n + 1, n + 2, ... for the targets qs, in some order.    *)
WatchRequests(qs, n) ==
  LET order == SetToSeq(qs)
  IN  [i \in DOMAIN order |-> [op |-> "watch", query |-> order[i], turn |-> n + i]]

(* RecordPendingTargetRequest of each of qs. *)
Requested(ts, qs) ==
  [q \in Query |-> IF q \in qs THEN [ts[q] EXCEPT !.outstanding = @ + 1] ELSE ts[q]]

(* Faulty variant: a request does not cancel the idleness timer.           *)
SendAndStayIdle(qs) ==
  LET requests == WatchRequests(qs, watches)
  IN  /\ toServer' = toServer \o requests
      /\ target' = Requested(target, qs)
      /\ watches' = watches + Len(requests)
      /\ lastWatch' = [q \in Query |->
           IF q \in qs
           THEN (CHOOSE r \in Range(requests) : r.query = q).turn
           ELSE lastWatch[q]]
      /\ UNCHANGED idle

SendWatchRequests(qs) ==
  LET requests == WatchRequests(qs, watches)
  IN  /\ toServer' = toServer \o requests
      /\ target' = Requested(target, qs)
      /\ watches' = watches + Len(requests)
      /\ lastWatch' = [q \in Query |->
           IF q \in qs
           THEN (CHOOSE r \in Range(requests) : r.query = q).turn
           ELSE lastWatch[q]]
      /\ idle' = (idle /\ qs = {})

(* Faulty variant: the aggregator outlives its stream.                     *)
NewConnectionOldAggregator ==
  /\ toServer' = <<>>
  /\ fromServer' = <<>>
  /\ serving' = [q \in Query |-> 0]
  /\ complete' = {}
  /\ UNCHANGED target
  /\ heard' = FALSE

(* The stream and its aggregator are gone, on both sides. *)
NewConnection ==
  /\ toServer' = <<>>
  /\ fromServer' = <<>>
  /\ serving' = [q \in Query |-> 0]
  /\ complete' = {}
  /\ target' = [q \in Query |-> NoTarget]
  /\ heard' = FALSE

(* Faulty variant: outstanding requests do not matter.                     *)
IsListenedTarget(q) == q \in targets

IsActiveTarget(q) == q \in targets /\ target[q].outstanding = 0

-----------------------------------------------------------------------------
(* Tasks of the worker queue that the application causes.                  *)

(***************************************************************************)
(* HandleWatchStreamStart: unless the last attempt has failed, the state   *)
(* becomes Unknown, and a timer starts.                                    *)
(***************************************************************************)
StateAtStart == IF failures = 0 THEN "Unknown" ELSE online

(***************************************************************************)
(* AddQueryListener.  The first get of a query makes a view, which shows   *)
(* the cache, and a target; the first target starts the stream.            *)
(***************************************************************************)
AddQueryListener ==
  /\ tasks # <<>>
  /\ Head(tasks).op = "add"
  /\ tasks' = Tail(tasks)
  /\ LET g == Head(tasks).get
         q == QueryOf[g]
         first == listeners[q] = {}
         starting == first /\ ~IsStarted(state)
         ls == [listeners EXCEPT ![q] = @ \cup {g}]
         vs == [view EXCEPT ![q] = IF first THEN "local" ELSE @]
         o == IF starting THEN StateAtStart ELSE online
         now == {h \in {g} : ShouldRaiseInitialEvent(vs[q], online)}
     IN  /\ listeners' = ls
         /\ view' = vs
         /\ raised' = raised \cup now
         /\ events' = events \o Notified(now, vs)
         /\ targets' = targets \cup {q}
         /\ state' = IF starting THEN Started(state) ELSE state
         /\ online' = o
         /\ timer' = (timer \/ (starting /\ failures = 0))
         /\ IF first /\ state = "Open"
            THEN SendWatchRequests({q})
            ELSE UNCHANGED <<toServer, target, watches, lastWatch, idle>>
  /\ UNCHANGED <<appVars, failures, heard, fromServer, serving, complete, faults>>

(* RemoveQueryListener of a listener that is not its query's last, or that *)
(* an error has removed already.                                           *)
ForgetListener(q, g) ==
  /\ listeners[q] \ {g} # {} \/ listeners[q] = {}
  /\ listeners' = [listeners EXCEPT ![q] = @ \ {g}]
  /\ UNCHANGED <<raised, events, view, targets, state, idle, target, onlineVars,
                 toServer>>

(* Faulty variant: the aggregator is not told of an unwatch request.       *)
StopListeningUncounted(q, g) ==
  /\ listeners[q] = {g}
  /\ listeners' = [listeners EXCEPT ![q] = {}]
  /\ view' = [view EXCEPT ![q] = "none"]
  /\ targets' = targets \ {q}
  /\ UNCHANGED <<raised, events, state, target>>
  /\ \/ /\ state = "Open"
        /\ toServer' = Append(toServer, [op |-> "unwatch", query |-> q, turn |-> 0])
        /\ idle' = (targets = {q})
        /\ UNCHANGED onlineVars
     \/ /\ state # "Open"
        /\ IF targets = {q}
           THEN online' = "Unknown" /\ timer' = FALSE /\ failures' = 0
           ELSE UNCHANGED onlineVars
        /\ UNCHANGED <<toServer, idle>>

(***************************************************************************)
(* StopListening: the target is dropped.  With the last target an open     *)
(* stream becomes idle, and before it is open the state becomes Unknown.   *)
(***************************************************************************)
StopListening(q, g) ==
  /\ listeners[q] = {g}
  /\ listeners' = [listeners EXCEPT ![q] = {}]
  /\ view' = [view EXCEPT ![q] = "none"]
  /\ targets' = targets \ {q}
  /\ UNCHANGED <<raised, events, state>>
  /\ \/ /\ state = "Open"
        /\ toServer' = Append(toServer, [op |-> "unwatch", query |-> q, turn |-> 0])
        /\ target' = Requested(target, {q})
        /\ idle' = (targets = {q})
        /\ UNCHANGED onlineVars
     \/ /\ state # "Open"
        /\ IF targets = {q}
           THEN online' = "Unknown" /\ timer' = FALSE /\ failures' = 0
           ELSE UNCHANGED onlineVars
        /\ UNCHANGED <<toServer, target, idle>>

RemoveQueryListener ==
  /\ tasks # <<>>
  /\ Head(tasks).op = "remove"
  /\ tasks' = Tail(tasks)
  /\ LET g == Head(tasks).get
     IN  ForgetListener(QueryOf[g], g) \/ StopListening(QueryOf[g], g)
  /\ UNCHANGED <<appVars, heard, fromServer, serving, complete, watchVars, faults>>

(* A write of the application changes what a view shows.                   *)
LocalChange(q) ==
  /\ view[q] # "none"
  /\ faults < MaxFaults
  /\ faults' = faults + 1
  /\ RaiseEvents(listeners, view, {q}, online)
  /\ UNCHANGED <<appVars, tasks, listeners, view, targets, state, idle, target,
                 onlineVars, heard, wireVars, watchVars>>

-----------------------------------------------------------------------------
(* The stream's own tasks.                                                 *)

BackoffElapsed ==
  /\ state = "Backoff"
  /\ state' = "Starting"
  /\ UNCHANGED <<appVars, tasks, events, viewVars, targets, idle, target,
                 onlineVars, heard, wireVars, watchVars, faults>>

(* OnWatchStreamOpen: every target is requested. *)
OnWatchStreamOpen ==
  /\ state = "Starting"
  /\ state' = "Open"
  /\ SendWatchRequests(targets)
  /\ UNCHANGED <<appVars, tasks, events, viewVars, targets, onlineVars, heard,
                 fromServer, serving, complete, faults>>

(***************************************************************************)
(* OnWatchStreamClose after an error.  With targets left the failure is    *)
(* counted, which may make the phone offline, and the stream is started    *)
(* again after a delay; without, the state becomes Unknown.                *)
(***************************************************************************)
HandleWatchStreamFailure ==
  IF online = "Online"
  THEN /\ SetAndBroadcast("Unknown")
       /\ timer' = TRUE
       /\ UNCHANGED failures
  ELSE LET gone == failures + 1 >= kMaxWatchStreamFailures
       IN  /\ failures' = kMaxWatchStreamFailures
           /\ timer' = (timer /\ ~gone)
           /\ SetAndBroadcast(IF gone THEN "Offline" ELSE online)

OnWatchStreamClose ==
  /\ state \in {"Starting", "Open"}
  /\ faults < MaxFaults
  /\ faults' = faults + 1
  /\ idle' = FALSE
  /\ NewConnection
  /\ \/ /\ targets # {}
        /\ state' = Started("Error")
        /\ HandleWatchStreamFailure
     \/ /\ targets = {}
        /\ state' = "Error"
        /\ UpdateState("Unknown")
  /\ UNCHANGED <<appVars, tasks, targets, watchVars>>

(* idleness_timer_ fires: Stop. *)
IdleTimeout ==
  /\ idle
  /\ idle' = FALSE
  /\ state' = "Initial"
  /\ NewConnection
  /\ UpdateState("Unknown")
  /\ UNCHANGED <<appVars, tasks, targets, watchVars, faults>>

(* online_state_timer_ fires. *)
OnlineStateTimeout ==
  /\ timer
  /\ timer' = FALSE
  /\ SetAndBroadcast("Offline")
  /\ UNCHANGED <<appVars, tasks, targets, state, idle, target, failures, heard,
                 wireVars, watchVars, faults>>

(***************************************************************************)
(* HandleCredentialChange of RemoteStore: the stream is stopped and, when  *)
(* it has targets, started again.                                          *)
(***************************************************************************)
HandleCredentialChange ==
  /\ faults < MaxFaults
  /\ faults' = faults + 1
  /\ idle' = FALSE
  /\ NewConnection
  /\ SetAndBroadcast("Unknown")
  /\ failures' = 0
  /\ LET stopped == IF IsStarted(state) THEN "Initial" ELSE state
     IN  state' = IF targets # {} THEN Started(stopped) ELSE stopped
  /\ timer' = (targets # {})
  /\ UNCHANGED <<appVars, tasks, targets, watchVars>>

-----------------------------------------------------------------------------
(* What the server sends, and how the worker queue takes it.               *)

Message(kind, q) == [kind |-> kind, query |-> q, turn |-> serving[q]]

(* A consistent snapshot exists when everything served is complete.        *)
Snapshot(done) ==
  IF \A q \in Query : serving[q] # 0 => q \in done
  THEN <<[kind |-> "snapshot", query |-> "all", turn |-> 0]>>
  ELSE <<>>

(* The server takes a request: it serves the target, refuses it, or ends it. *)
ServerHears ==
  /\ toServer # <<>>
  /\ toServer' = Tail(toServer)
  /\ LET r == Head(toServer)
         q == r.query
         reply(kind) == [kind |-> kind, query |-> q, turn |-> r.turn]
     IN  \/ /\ r.op = "watch" /\ q \notin Refused
            /\ serving' = [serving EXCEPT ![q] = r.turn]
            /\ fromServer' = Append(fromServer, reply("added"))
         \/ /\ r.op = "watch" /\ q \in Refused
            /\ UNCHANGED serving
            /\ fromServer' = Append(fromServer, reply("refused"))
         \/ /\ r.op = "unwatch"
            /\ serving' = [serving EXCEPT ![q] = 0]
            /\ fromServer' = IF serving[q] = 0
                             THEN fromServer
                             ELSE Append(fromServer, reply("removed"))
     /\ complete' = complete \ {q}
  /\ UNCHANGED <<appVars, tasks, events, viewVars, targets, state, idle, target,
                 onlineVars, heard, watchVars, faults>>

ServerCompletes(q) ==
  /\ serving[q] # 0
  /\ q \notin complete
  /\ complete' = complete \cup {q}
  /\ fromServer' = fromServer \o <<Message("current", q)>> \o Snapshot(complete')
  /\ UNCHANGED <<appVars, tasks, events, viewVars, targets, state, idle, target,
                 onlineVars, heard, toServer, serving, watchVars, faults>>

ServerChanges(q) ==
  /\ q \in complete
  /\ faults < MaxFaults
  /\ faults' = faults + 1
  /\ fromServer' = fromServer \o <<Message("document", q)>> \o Snapshot(complete)
  /\ UNCHANGED <<appVars, tasks, events, viewVars, targets, state, idle, target,
                 onlineVars, heard, toServer, serving, complete, watchVars>>

(* HandleTargetChange and HandleDocumentChange of the aggregator.          *)
Responded(t) == [t EXCEPT !.outstanding = @ - 1]

TargetAfter(m) ==
  LET t == target[m.query]
      rest == Responded(t)
  IN  CASE m.kind = "added" ->
             IF rest.outstanding = 0 THEN [rest EXCEPT !.pending = FALSE] ELSE rest
        [] m.kind = "removed" ->
             IF rest.outstanding = 0 THEN NoTarget ELSE rest
        [] m.kind = "current" /\ IsActiveTarget(m.query) ->
             [t EXCEPT !.pending = TRUE, !.current = m.turn]
        [] m.kind = "document" /\ IsActiveTarget(m.query) ->
             [t EXCEPT !.pending = TRUE]
        [] OTHER -> t

TargetChange(m) ==
  /\ m.kind \in {"added", "removed", "current", "document"}
  /\ target' = [target EXCEPT ![m.query] = TargetAfter(m)]
  /\ UNCHANGED <<listeners, raised, events, view, targets>>

(* ProcessTargetError: the query fails, for all its listeners.             *)
TargetError(m) ==
  /\ m.kind = "refused"
  /\ \/ m.query \notin targets /\ UNCHANGED <<viewVars, events, target, targets>>
     \/ /\ m.query \in targets
        /\ targets' = targets \ {m.query}
        /\ target' = [target EXCEPT ![m.query] = NoTarget]
        /\ view' = [view EXCEPT ![m.query] = "none"]
        /\ listeners' = [listeners EXCEPT ![m.query] = {}]
        /\ events' = events \o SetToSeq({[get |-> g, source |-> "error"] :
                                           g \in listeners[m.query]})
        /\ UNCHANGED raised

(* RaiseWatchSnapshot: the pending changes of the active targets reach the *)
(* views.                                                                  *)
Changed == {q \in Query : IsActiveTarget(q) /\ target[q].pending}

RaiseWatchSnapshot(m) ==
  /\ m.kind = "snapshot"
  /\ target' = [q \in Query |-> [target[q] EXCEPT
                  !.pending = @ /\ q \notin Changed]]
  /\ LET vs == [q \in Query |->
                  IF q \in Changed
                  THEN IF target[q].current # 0 THEN "current" ELSE "local"
                  ELSE view[q]]
     IN  /\ view' = vs
         /\ RaiseEvents(listeners, vs, Changed, "Online")
  /\ UNCHANGED <<listeners, targets>>

(* Faulty variant: a message does not cancel the timer.                    *)
HearWithTimer ==
  /\ fromServer # <<>>
  /\ fromServer' = Tail(fromServer)
  /\ online' = "Online"
  /\ UNCHANGED timer
  /\ failures' = 0
  /\ heard' = TRUE
  /\ LET m == Head(fromServer)
     IN  TargetChange(m) \/ TargetError(m) \/ RaiseWatchSnapshot(m)
  /\ UNCHANGED <<appVars, tasks, state, idle, toServer, serving, complete,
                 watchVars, faults>>

(* Any message makes the phone online, before it is looked at.             *)
OnWatchStreamChange ==
  /\ fromServer # <<>>
  /\ fromServer' = Tail(fromServer)
  /\ online' = "Online"
  /\ timer' = FALSE
  /\ failures' = 0
  /\ heard' = TRUE
  /\ LET m == Head(fromServer)
     IN  TargetChange(m) \/ TargetError(m) \/ RaiseWatchSnapshot(m)
  /\ UNCHANGED <<appVars, tasks, state, idle, toServer, serving, complete,
                 watchVars, faults>>

Next ==
  \/ \E g \in Get : GetDocuments(g)
  \/ OnEvent
  \/ AddQueryListener
  \/ RemoveQueryListener
  \/ \E q \in Query : LocalChange(q)
  \/ BackoffElapsed
  \/ OnWatchStreamOpen
  \/ OnWatchStreamClose
  \/ IdleTimeout
  \/ OnlineStateTimeout
  \/ HandleCredentialChange
  \/ ServerHears
  \/ \E q \in Query : ServerCompletes(q) \/ ServerChanges(q)
  \/ OnWatchStreamChange

Spec == Init /\ [][Next]_vars

-----------------------------------------------------------------------------
(* Properties.                                                             *)

(* Every variable has its type.                                            *)
TypeOK ==
  /\ begun \subseteq Get /\ muted \subseteq Get /\ raised \subseteq Get
  /\ tasks \in Seq([op : {"add", "remove"}, get : Get])
  /\ events \in Seq([get : Get, source : {"server", "cache", "error"}])
  /\ answers \in [Get -> Seq({"server", "cache", "error"})]
  /\ listeners \in [Query -> SUBSET Get]
  /\ view \in [Query -> {"none", "local", "current"}]
  /\ targets \subseteq Query
  /\ state \in StreamState
  /\ idle \in BOOLEAN /\ timer \in BOOLEAN /\ heard \in BOOLEAN
  /\ target \in [Query -> [outstanding : Nat, pending : BOOLEAN, current : Nat]]
  /\ online \in {"Unknown", "Online", "Offline"}
  /\ failures \in 0 .. kMaxWatchStreamFailures
  /\ serving \in [Query -> Nat]
  /\ complete \subseteq Query
  /\ lastWatch \in [Query -> 0 .. watches]

(***************************************************************************)
(* The three records of what is listened to agree, so the HARD_ASSERTs of  *)
(* Listen and StopListening hold ("Listen called with duplicate target     *)
(* id", "StopListening: target not currently watched"), and a stream that  *)
(* has targets is not left stopped or closed as idle ("Watch stream was    *)
(* stopped gracefully while still needed").                                *)
(***************************************************************************)
RecordsAgree ==
  /\ targets = {q \in Query : listeners[q] # {}}
  /\ targets = {q \in Query : view[q] # "none"}
  /\ targets # {} => IsStarted(state)
  /\ idle => targets = {} /\ state = "Open"

(***************************************************************************)
(* The timer runs only while the state is Unknown and no attempt has       *)
(* failed ("Timer should be canceled if we transitioned to a different     *)
(* state", "online_state_timer_ shouldn't be started yet"), and never on a *)
(* stream that the server has answered: once it talks to the phone, the    *)
(* phone is not offline and no get is answered from the cache.             *)
(***************************************************************************)
OfflineIsSilent ==
  /\ timer => online = "Unknown" /\ failures = 0 /\ IsStarted(state)
  /\ failures # 0 => online = "Offline"
  /\ heard /\ targets # {} => online = "Online"

(***************************************************************************)
(* The completion handler of a get is called at most once, although its    *)
(* listener may raise more events before it has been removed.              *)
(***************************************************************************)
AnsweredOnce == \A g \in Get : Len(answers[g]) <= 1

(***************************************************************************)
(* A target is taken for current only on the word of the server about the  *)
(* last request for it: what it still sends about an earlier get of the    *)
(* same query answers no later one.                                        *)
(***************************************************************************)
CurrentIsOfLastWatch ==
  \A q \in Changed : target[q].current \in {0, lastWatch[q]}

(***************************************************************************)
(* The comment on kOnlineStateTimeout: "To deal with stream attempts that  *)
(* don't succeed or fail in a timely manner, we have a timeout for         *)
(* OnlineState to reach Online or Offline.  If the timeout is reached, we  *)
(* transition to Offline rather than waiting indefinitely."                *)
(***************************************************************************)
AttemptIsTimed ==
  targets # {} /\ ~heard /\ online = "Unknown" => timer

(***************************************************************************)
(* Fairness: both queues go on, delays pass, connections are made or fail, *)
(* and a server that has been reached answers.                             *)
(***************************************************************************)
Fairness ==
  /\ WF_vars(OnEvent)
  /\ WF_vars(AddQueryListener)
  /\ WF_vars(RemoveQueryListener)
  /\ WF_vars(BackoffElapsed)
  /\ WF_vars(OnWatchStreamOpen)
  /\ WF_vars(ServerHears)
  /\ \A q \in Query : WF_vars(ServerCompletes(q))
  /\ WF_vars(OnWatchStreamChange)

FairSpec == Spec /\ Fairness

(***************************************************************************)
(* Every get is answered, by the server, from the cache or with an error,  *)
(* whatever other gets, logins, changes and bounded failures do meanwhile. *)
(***************************************************************************)
GetAnswered == \A g \in Get : g \in begun ~> answers[g] # <<>>
=============================================================================
