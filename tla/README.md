# TravelMe: TLA+ models and proofs

TravelMe (`src/TravelMe`) is an iOS application in which users publish posts
about places and star the posts of others. Posts and stars live in Firestore
collections; the phone keeps a copy of the posts in SQLite, and a date says how
far that copy has followed the collection. This directory models that program
and the part of the Firestore SDK that carries its reads and writes, checks the
models with TLC, and proves with TLAPS every safety property that TLC checks.

Paths below are relative to `src/TravelMe/TravelMe` unless they start with
`src/`; those of the SDK (`*.cc`) are under
`src/TravelMe/Pods/FirebaseFirestore/Firestore/core/src/firebase/firestore`.

## 1. The system

| Component | State it keeps | Operations | Interacts with |
|---|---|---|---|
| Feed (`Controller/PostTableViewController.swift`, `Model/Model.swift`, `Model/ModelFirebase.swift`, `Model/Post.swift`) | `data`, the spinner, the static `Post.postSet` and `Post.favoritePostSet`, the `lud` captured by each closure | `viewDidLoad`, `reloadData`, `getAllPosts`, star button, observers of two events | Firestore reads and writes, SQLite, events |
| SQLite (`Model/ModelSql.swift`) | tables POSTS and LAST_UPADATE_DATE | `addPost`, `getAllPosts`, `delete`, `setLastUpdate`, `getLastUpdateDate` | called by Model; `getAllPosts` reads `Post.postSet` |
| Firestore server and SDK as the application sees them | collection `posts`, one collection of favourites per user, the SDK's queue of writes and its cache | add, update, delete, read | answers on the main thread |
| SDK, writes (`core/sync_engine.cc`, `remote/remote_store.cc`, `remote/stream.cc`, `local/leveldb_mutation_queue.cc`) | mutation queues on disk, callbacks, write pipeline, write stream | `WriteMutations`, `FillWritePipeline`, results, failures, `HandleCredentialChange` | server, completion handlers |
| SDK, reads (`api/query_core.cc`, `core/event_manager.cc`, `core/query_listener.cc`, `core/view.cc`, `remote/remote_event.cc`, `remote/online_state_tracker.cc`, `remote/remote_store.cc`) | listeners, views, targets, watch stream, online state and its timer | `GetDocuments`, `Listen`, `StopListening`, watch changes, time-outs | server, completion handlers |
| My posts (`Controller/MyPostTableViewController.swift`) | `data` | `reloadData`, `deletePost`, opening the editor | Firestore, SQLite |
| Favourites (`Controller/FavoriteTableViewController.swift`, the star button of the feed) | flags and buttons of the rows, `Post.favoritePostSet` | star, unstar, clean-up, the screen's read | one Firestore collection per account |
| Events (`Model/EventNotificationBase.swift`, `...WithObj.swift`, `ModelEvents.swift`) | observers, never removed | `observ`, `post` (synchronous) | completion handlers post, screens observe |
| Session (`WelcomeViewController`, `RegisterViewController`, `createUser`, `loginUser`) | `Post.userEmail`, Auth's current user, the navigation stack, hidden buttons | login, registration, back | Firebase Auth |
| Editor, new post and upload (`EditMyPostViewController`, `NewPostViewController`, `FirebaseStorage.swift`) | chosen image, enabled buttons, closures of uploads | `saveBtn`, `postBtn`, `saveImage` | Firebase Storage, then Firestore |
| Post page and weather (`PostInfoViewController`, `WeatherDataModel.swift`) | shared `weatherDataModel` | `getWeatherData`, `updateWeatherIcon` | HTTP |
| Cells, alerts, delegates | none | | presentation |
| `src/Travel/Travel` | an earlier prototype of the same program | | |
| `src/Travel/Pods` and the other Pods | vendored libraries | | |

All Swift code runs on the main thread. What makes the program hard:

* **A refresh is a chain of callbacks.** `reloadData` calls `getAllPosts`, which
  captures the stored date, empties both static sets and issues two reads. Both
  are answered later, in any order. Every acknowledged write starts another
  refresh (`postDataEvent`), so refreshes overlap and share the sets.
* **Two durable stores and a volatile process.** Rows and date are separate
  SQLite statements, and the process can die between any two of them. The SDK's
  queue of writes outlives the process; then nobody is told of the answer.
* **A local view.** Reads show this user's queued writes, without the timestamp
  the server has yet to assign, and may fall back to the SDK's cache.
* **Whole seconds.** `lastUpdate` is truncated to seconds and compared with `>`.
* **Screens that do not end.** Screens that were left still get their answers,
  and the feeds of earlier logins go on observing events. Who uses the phone is
  kept twice: Auth's current user, which names the queue a write goes to, and
  `Post.userEmail`, which names the collection it is about and the author.
* **Streams that break.** The SDK sends writes ahead of their answers, matches
  answers by position, and sends everything again when the stream fails. Its
  reads share targets, and late messages about a target that was removed and
  requested again must not count.

What makes each component correct:

* Feed and SQLite: the stored date never passes a post that the copy lacks; the
  list shows every post of the answer in its version and none that is not in it;
  the clean-up of favourites spares living posts; the spinner stops; a new post
  shows up.
* SDK, writes: what is written is a queue per user, decided in order and reported
  truly; nothing is lost, and only a lost answer makes a duplicate.
* SDK, reads: each get is answered once, by the server's word about that get, or
  from the cache when the server cannot be reached.
* Favourites and session: a star is what the button showed after the last tap;
  colours are the stars; the home screen is of the account it writes for; no
  screen is left without its buttons.
* Editor and new post: each save ends in one write of the chosen picture, or the
  screen can be used again; a post is published once, by its author.
* Weather: each condition code gets its group's icon.

`PROJECT.json` lists the hazards with their lines and the properties about them.

## 2. Modules

| Module | Content |
|---|---|
| `Firestore` | server, SDK queue and cache, other users: external, modelled from its use and from the SDK's headers |
| `ModelSql` | the statements of `ModelSql.swift` as operators on the two tables |
| `PostFeed` | EXTENDS both: the feed, the refresh, the list of the user's posts, the writes of the user, process death |
| `PostEditor` | the editor of one post, its uploads, the account they end under, and what the server makes of the updates; it stands alone, since the feed only sees the update |
| `Session` | sign-in screens, the navigation stack, Auth's user and `Post.userEmail`: state and actions without a `Next` of its own |
| `Favourites` | EXTENDS `Session`: stars, flags, buttons, clean-up, several feeds that observe one event, queues of several accounts |
| `NewPost` | EXTENDS `Session`: the screen of a new post, its uploads, and the account that publishes in the end |
| `WriteQueue` | what the SDK promises of writes: one queue per user (abstract specification) |
| `FirestoreWrites` | the SDK's write path, which implements `WriteQueue` |
| `FirestoreReads` | the SDK's read path, from `getDocuments` to the completion handler |
| `MCPostFeed`, `MCFavourites`, `MCFirestoreReads` | instances for TLC; the other modules are instantiated by their cfg alone |
| `PostFeedProofs` | about `PostFeed` |
| `EditorProofs` | about `PostEditor` |
| `SessionProofs` | lemmas about `Session`, for the two rows below |
| `FavouritesProofs` | about `Favourites` |
| `NewPostProofs` | about `NewPost` |
| `FirestoreWritesProofs`, `WriteHistoryProofs` | about `FirestoreWrites`, the second one also the refinement |
| `FirestoreReadsProofs` | about `FirestoreReads` |

How they fit together. `Firestore` is the view that `PostFeed` has of the SDK, and
`FirestoreWrites` and `FirestoreReads` are what is below that view: a queue of
writes taken in order (`WriteQueue`), reads answered at most once, by the server
or by the cache. `Favourites` and `NewPost` use that same queue, one per account.
`PostFeed` is one account's phone, with the merge into SQLite; `Favourites` is
several accounts', with the merge left out: its table shows the posts of
`postSet`, which is what the sweep at the end of each merge leaves.

### State and code

| TLA+ | Code |
|---|---|
| `rows`, `lastUpdateDate` | tables POSTS and LAST_UPADATE_DATE |
| `postSet`, `favoritePostSet` | `Post.postSet`, `Post.favoritePostSet` |
| `postReads` | `PostFeed`: the `lud` captured by the closure of each read of the posts that is not answered yet; `Favourites`: the home screens whose reads are not |
| `favReading`, `favReads` | reads of the favourites that are not answered yet |
| `phase`, `lud`, `snap`, `todo` | progress of the handler of an answer: `Model.swift:42-55` |
| `data`, `refreshing`, `myPosts` | `data` and spinner of the feed, `data` of the list of my posts |
| `status` | the process runs, or the reason why it does not |
| `cloud`, `favs`, `clock`, `published`, `refused`, `queue`, `untold`, `lastSeen` | server and SDK; `untold` counts the queued writes of processes that have ended |
| `answers`, `stale` | history variables: no action reads them |
| `PostEditor`: `accounts`, `account` | Auth's accounts, and its `currentUser`, which `Post.userEmail` follows (`SessionInv`, section 6) |
| `post`, `exists`, `writes` | the document, whether it is there, the SDK's queues of each account's writes of it |
| `listed`, `inList` | the post's row in `data` of `MyPostTableViewController` |
| `screen`, `fields`, `loading` | which screen is shown (`waiting`: `saveBtn` is disabled), the text fields and `avatarImg.image`, the load that `kf.setImage` has begun |
| `uploads`, `saves` | the closures of `saveBtn` whose picture is being uploaded, and a number for each save |
| `lost`, `refused`, `queued`, `together` | history variables |
| `Session`: `accounts`, `user`, `userEmail` | Auth's accounts, its `currentUser`, `Post.userEmail` |
| `path`, `registers`, `homes` | the navigation controller's stack, and numbers for the screens of this process |
| `awaited`, `hidden` | closures of `loginBtn` and `registerBtn` that wait for Auth; `isHidden` of a screen's buttons |
| `owner`, `late` | history variables |
| `Favourites`: `postSelected`, `selectedCells` | the flag of each row; how many reused cells have a button with `isSelected` |
| `wish`, `excused`, `sources`, `touched` | history variables |
| `NewPost`: `drafts`, `screen`, `selectedImage`, `uploads` | the screens opened, the shown one (`waiting`: buttons disabled), `selectedImage`, closures of `postBtn` |
| `queue`, `documents` | the SDK's queues of posts, the collection |
| `posted`, `lost`, `left`, `outdated` | history variables |
| `FirestoreWrites`: `batches`, `user`, `nextBatchId`, `callbacks`, `pipeline` | mutation queues on disk, `current_user_`, `next_batch_id_`, `mutation_callbacks_`, `write_pipeline_` |
| `state`, `handshakeComplete`, `idle` | the write stream and its idleness timer |
| `sent`, `served`, `refusing` | requests on the connection, and what the server has done with them |
| `writer`, `applied`, `refused`, `unheard`, `told`, `launched` | history variables |
| `FirestoreReads`: `tasks`, `events` | what main queue and worker queue send each other |
| `listeners`, `raised`, `muted`, `view`, `targets` | `EventManager`, `QueryListener`, `AsyncEventListener`, `SyncEngine`'s views, `listen_targets_` |
| `state`, `idle`, `target` | the watch stream, and `target_states_` of its `WatchChangeAggregator` |
| `online`, `timer`, `failures` | `OnlineStateTracker` |
| `toServer`, `fromServer`, `serving`, `complete` | the connection and the server |
| `answers`, `heard`, `watches`, `lastWatch` | history variables |

Actions carry the name of the handler or of its event. One handler is one
action, except that of an answer in `PostFeed`: `PostsArrive`, one `MergePost` for
each post, `StoreLastUpdate` and `ShowFeed` follow each other with nothing but
`Kill`, the server, other users and the SDK (`AcknowledgeNobody`) in between,
because those are the points at which a death leaves a different SQLite behind.
`ShowFeed` is the sweep of the table, the loop over the favourites, and the end
of the spinner, in one step. In `FirestoreWrites` and `FirestoreReads` an action
is one task of the SDK's worker queue, or of the main queue, with every call it
makes; a process may die inside a task where disk and callbacks are written apart
(`KillWhileAcknowledging`, `KillWhileRejecting`).

### Abstractions

Feed:

* The content of a document is the number of the server commit that wrote it:
  all fields of a post are written together (`toJson`) with
  `FieldValue.serverTimestamp()`, and `Second[n]` is all the app sees of the
  timestamp. `Second` is any non-decreasing function; commits of a second keep
  their order since the server's timestamps are finer.
* An answer from the server is the server's state when it is delivered, with the
  queued writes applied. An answer that lags, because it was taken before others
  wrote or before an own write was acknowledged, is what `FallBackToCache` stands
  for: it is judged by the cache, and `stale` records it.
* A write reaches the server and is reported to the app in one step. Until the
  report the SDK shows the app its own write in place of the server's state.
  `FirestoreWrites` has the steps in between.
* The queue outlives the process, and the callbacks do not. `Acknowledge` is the
  answer to a write of this process, `AcknowledgeNobody` that to one an earlier
  process queued (`untold` counts them: the queue is served in order). The latter
  calls nothing of the app, so it may come at any moment, between two steps of a
  handler too.
* The favourites of a user are written by this phone only, so the SDK's cache of
  them equals the server's with the queue on top: one view is enough.
* Reads of the list of my posts change something only by their answer, and the
  user can begin one at any moment; no variable says whether one is awaited. The
  editor opened from the list is not a state of the feed: `UpdateMyPost` is the
  end of a save, and `PostEditor` has the way there.
* In `PostFeed` the user can star and unstar whatever is in the list; which of the
  two a tap does is the subject of `Favourites`.
* **Undefined behaviour.** `setLastUpdate`, `getLastUpdateDate` and `delete` bind
  a Swift `String` with a nil destructor, so SQLite reads freed memory. Each is
  the set of its possible results: the intended one, or a name that matches no
  row of interest. The arrays that `addPost` binds are variables of its scope and
  are taken to live until `sqlite3_step`, as in an unoptimised build.
* One phone per account, one feed screen per process (`Favourites` has several).
  A document id is never used again. The SDK's cache does not forget what it saw.

Editor and new post:

* The texts of a post are one value, since they are written together; in
  `PostEditor` a picture is none, the asset, the first one or that of a save, and
  `NewPost` leaves texts and picture out: they travel with the draft unchanged.
  The upload and the request for its address end as one step. A read of the list
  while an update waits for the server ends the process (finding 2) and is left
  out of `PostEditor`; `Kill` is possible there as everywhere.
* `PostEditor` has of the session what reaches an upload: signing in as somebody
  else from below the list (`SignIn`, with a new list that is empty until its read),
  and the late answer of a registration, which changes the account under whatever
  screen is shown (`RegistrationComesLate`). The update holds the email of the tap
  and is queued for the account of the upload's end; so a post may change hands.
* In `PostEditor` and `NewPost` the SDK sends the queue of the account that is
  signed in at any moment. In a process that has not yet opened a home screen it would not; that
  only makes more orders of events possible.

Session and favourites:

* An email is a name: that Auth trims and lowers it while `Post.userEmail` keeps
  the spelling that was typed is left out. Auth changes `currentUser` and calls
  back in one step; in between nothing of the app runs but what is on the main
  queue already.
* A screen that was popped has no navigation controller, so its segue shows
  nothing. Only registration screens can be left while they wait: the buttons of
  the welcome screen are hidden, and nothing is below it.
* The merge into SQLite is replaced by its result: the table shows `postSet`.
  Posts are not added in `Favourites`: a new post has no star.
* `isSelected` belongs to a button, buttons to cells, and cells are given to other
  rows whenever the table reloads or scrolls. The model knows how many cells have
  a selected button (`selectedCells`), and lets a tap meet any of them.
* Reads of favourites carry no number: `favReads` tells of which collections some
  are awaited, and an answer may or may not be the last (`ReadEnds`).

The SDK:

* Documents, overlays, limbo documents, resume tokens, existence filters and the
  versions of snapshots (`remote_store.cc:260-261` drops one older than the cache)
  are left out, and a snapshot is known by its source. So is the stream token, which
  is recorded and sent but resumes nothing (`write_stream.cc:72`), and what
  TravelMe does not call: `waitForPendingWrites`, `disableNetwork`, transactions.
* The length of delays is left out; that they pass is fairness.
* Responses are well-formed. One that cannot be decoded (`write_stream.cc:144-146`)
  would be a permanent error of the stream too, and `HandleWriteError` would reject
  the first batch though the server may have applied it; `AnswersTrue` is about a
  server that answers properly.
* The server finishes with a connection before it serves the next one, and its
  rules give the same answer to every watch of a query.

## 3. Properties

Feed (`PostFeed`):

* `WatermarkSound`: a post whose second the stored date has reached is in SQLite
  in its last version. `Excused` names the only exceptions: a cache answered that
  differed from the server (`stale`); the post is being deleted, or its delete
  was refused; an earlier commit fell into the same second (`Crowded`).
* `WatermarkInv`: the inductive strengthening of it (section 6).
* `FeedComplete`: when the list is shown, every post of the answer is in it, in
  the answer's version. It is what `Model.swift:53` claims and holds only without
  shared seconds, cache answers and refused deletes.
* `FeedExplained`: what remains of it in general.
* `GhostsNeedOverlap`: a post in the list that the answer lacks needs another
  answer since the sets were emptied.
* `CleanupSafe`: the clean-up deletes no star of a living post.
* `RefreshEnds`, `OwnPostShows`: liveness.

Editor and new post (`PostEditor`, `NewPost`):

* `NewestSaveStands`: when no upload or write is left, a newer save than the one
  the document holds was lost, was refused by the server, or had no order with it
  (`Unordered`): it was being uploaded together with it, or the two were queued for
  different accounts. So a save that was stored before the next one began is never
  undone within an account. Each excuse is needed; TLC finds a counterexample
  without it. Nobody is told of a refused save: the editor has closed long before.
* `DeletedStaysDeleted`: an upload that ends after a delete does not bring the
  post back, which holds because `updateData` is used and not `setData`.
* `PictureKept`: the asset never replaces a post's picture. It holds only because
  the image view is emptied while the picture is loaded: what saves the picture
  is what ends the process in finding 4.
* `SaveEnds`: the editor closes by itself unless its upload is lost. A failed
  upload leaves it disabled until the user goes back (`UploadFails` changes no
  screen).
* `PublishedOnce`: what was posted is in exactly one place, on its way, queued, on
  the server or lost for a named reason, whatever screens and accounts do.
* `AuthorPublishes`: a post is written by the account whose email it bears, unless
  its screen was left, or a late registration was answered, while its picture was
  being uploaded. Both exceptions are needed: the email is read at the tap, the
  account when the upload ends.

Session and favourites (`Session`, `Favourites`):

* `StarsFollowTaps`: for every living post, the star an account's queue and
  collection will end in is what its last tap showed. Excused are refused writes
  and taps made after a late registration had put another email under the screen.
* `FlagsExplained`: the colours are right when the rows are shown after this
  account's favourites, and no other's, were answered; for stars that changed
  since, nothing is said.
* `HomeIsOwners`: the home screen is of the account it writes for, unless a
  registration that was left has been answered since.
* `HiddenWhileWaiting`: a visible screen with hidden buttons awaits an answer.

Writes of the SDK (`FirestoreWrites`):

* `PipelineIsQueue`, `RequestsMatch`, `StreamNeeded`, `CallbacksRight`: how queue,
  pipeline, stream and callbacks relate; they include the conditions of the
  code's `HARD_ASSERT`s.
* `NothingLost`, `AnswersTrue`, `DuplicatesExplained`, `AppliedInOrder`: what the
  application and the server see. `ImplementsWriteQueue`: the whole of it is the
  queue of `WriteQueue`. `WritesAnswered`: liveness.

Reads of the SDK (`FirestoreReads`):

* `RecordsAgree`: listeners, views and targets are of the same queries and need a
  started stream. `OfflineIsSilent`: when the timer may run, and that a server
  that has spoken is not held to be offline.
* `AnsweredOnce`: no completion handler is called twice. `CurrentIsOfLastWatch`: a
  late message about an earlier get makes no later one current. `GetAnswered`:
  liveness.

## 4. Runs and bounds

| Run | Instance | Shows |
|---|---|---|
| `FeedOverlap` | 2 posts of 2 authors, 3 commits in 3 seconds, 2 queued writes, 2 refreshes | `TypeOK`, `WatermarkSound`, `FeedComplete`, `GhostsNeedOverlap`, `CleanupSafe` |
| `FeedHostile` | the same with two commits per second, cache answers and refused deletes, 1 refresh at a time | `WatermarkInv`, `FeedExplained`, `CleanupSafe` |
| `FeedLive` | 2 posts, 2 commits, 2 refreshes, with fairness | `RefreshEnds`, `OwnPostShows` |
| `FeedSameSecond` | `FeedOverlap` with shared seconds | `FeedComplete` is violated (section 5) |
| `FeedUnstamped` | a small instance | `StampPresent` is violated (section 5) |
| `EditorSaves` | 2 accounts, 2 saves of a post with a picture, uploads and loads may fail, updates and deletes may be refused, with fairness | `TypeOK`, `NewestSaveStands`, `PictureKept`, `DeletedStaysDeleted`, `SaveEnds` |
| `EditorNilImage` | 1 save | `ImagePresent` is violated (section 5) |
| `NewPostSaves` | 2 drafts, 2 accounts of which 1 registers, 2 registration screens and 3 home screens in a process, refusable posts | `TypeOK`, `PublishedOnce`, `AuthorPublishes` |
| `FavouritesAccounts` | 1 post, accounts ann (registered, its author) and bob (registers), 1 registration screen, 2 homes, 2 queued writes in all, 2 reads, 2 cells, refusable stars and deletes | `TypeOK`, `StarsFollowTaps`, `HomeIsOwners`, `HiddenWhileWaiting`, `FlagsExplained` |
| `WritesRetry` | 3 writes of 2 accounts, pipeline of 2, 1 failure, 2 logins, 1 death, write 2 refusable, with fairness | `TypeOK`, `PipelineIsQueue`, `RequestsMatch`, `StreamNeeded`, `CallbacksRight`, `AnswersTrue`, `DuplicatesExplained`, `NothingLost`, `AppliedInOrder`, `ImplementsWriteQueue`, `WritesAnswered` |
| `ReadsOverlap` | 2 gets of the posts and 1 of favourites that the rules refuse, 1 failure, login or change, with fairness | `TypeOK`, `RecordsAgree`, `OfflineIsSilent`, `AnsweredOnce`, `CurrentIsOfLastWatch`, `GetAnswered` |
| `ReadsUntimed` | 2 gets of the posts | `AttemptIsTimed` is violated (section 5) |

Why the bounds are enough.

* Feed. Two posts, one of this user and one of another, give every pair of roles
  the code distinguishes. Three commits are what a lost update needs: one that is
  merged, one that moves the date, one that is missed. Two queued writes are one
  `deletePost`, or any two single writes. Two refreshes are the least that
  overlap; a third would find the sets in a state that two already produce. Only
  `FeedHostile` holds `FallBackToCache` and refused deletes together, and there two
  refreshes would not finish in minutes: overlapping refreshes are the subject of
  `FeedOverlap`, and `WatermarkSound` is proved for all of it.
* Editor. `NewestSaveStands` compares two saves, and two are one after the other,
  under way at once, or in the queues of two accounts; each account queues one delete
  at a time. More saves, of which some between the two are lost or refused, are
  covered by the theorem. New post: two drafts are one
  upload that goes on and another post beside it; drafts do not meet otherwise.
* Favourites. Posts meet only where they share the queue's room and the sets, and
  the theorems of section 6 cover any number of them. Two accounts and two home
  screens are the least with a stale feed and a late registration.
* Writes. Three writes over a pipeline of two leave one on disk. Two logins go to
  the other account and back. Reads. Two gets share a target, the third has
  another; one fault is one failure at any moment, and `MaxFaults` bounds their sum.

Bounds are guards (`RoomForPut`, `RoomForRead`, `RoomForReads`, `RoomForWrites`,
`RoomForHome`, `Starable`, `Tappable`, and the `Max...` constants), each marked
"Bound" in its module.

`WritesRetry`, `ReadsOverlap` and `ReadsUntimed` do not check for deadlock: when all
writes or gets are answered and the faults are spent, these components rest.

**Fairness.**

* `PostFeed`, `LiveSpec`: the steps of a handler that runs are weakly fair: the
  main thread finishes what it began. Firestore answers each read, with documents
  or an error, and each write: strong fairness, since the answer waits until the
  main thread is free, and other handlers may take their turn in between. Nothing
  is assumed of the user, of other users, or of the process staying alive.
  `OwnPostShows` is thus about a phone that Firestore can reach.
* `PostEditor`, `LiveSpec`: Firebase Storage ends each upload, with an address or
  without.
* `FirestoreWrites`, `FairSpec`: the stream's delays pass, connections are made or
  fail, and a connection that lasts brings the server's answers. Failures and
  deaths are bounded by `MaxBreaks` and `MaxKills`.
* `FirestoreReads`, `FairSpec`: both queues go on, delays pass, connections are made or
  fail, and a server that has been reached answers. The time-out needs no fairness.

`Favourites` and `NewPost` state no liveness: what should happen there in the end
is up to the user, or is the liveness of reads and writes above.

## 5. Findings

Each is a run that TLC ends with a counterexample; `PROJECT.json` quotes the line
that is contradicted.

1. `FeedSameSecond`: commits 1 and 2 fall into one second. Once commit 1 has been
   merged, by an earlier refresh or just before in the same answer, the date is that
   second, and commit 2 is not newer than it, now or ever.
2. `FeedUnstamped`: a read that is answered while a write is queued has a document
   without `lastUpdate`; `as! Timestamp` ends the process.
3. `ReadsUntimed`: the last listener is removed while the watch stream waits to be
   started again, which sets the online state to Unknown and stops the timer. The
   next read finds the stream started, so nobody starts the timer again: it waits
   for as long as the connection takes to fail.
4. `EditorNilImage`: `saveBtn` before the picture has been loaded, or after its
   load has failed, unwraps an image view's image that `kf.setImage` made nil.

Met on the way, and part of the models, but contradicting no line of the
repository: an error of the read ends the process (`data!` in `Model.swift:42`); a
read answered from the cache, or a refused delete, leaves the list behind for good
(the excuses of `WatermarkSound` and `FeedExplained`); a registration that was left
and is answered late puts another account's email under the home screen (the excuse
of `HomeIsOwners`), and a post whose upload outlives its screen is published by
whoever is signed in by then (that of `AuthorPublishes`); likewise an update whose
upload outlives its editor may wait in another account's queue and overwrite a newer
save (an excuse of `NewestSaveStands`).

## 6. Proofs

All theorems hold for every value of the constants that satisfies the assumptions
named in the modules: any sets of posts, accounts and authors, any bounds, any
length of the pipeline, every assignment of commits to seconds in which time does
not go backwards and no commit falls into second 0. Posts, gets and queries are
finite sets: the SDK and the clean-up work through them one by one, so the models
put them into sequences. `FeedIsComplete` alone has hypotheses of its own.

* **`PostFeedProofs`, `TypeCorrect`**: by one lemma for each group of actions.
* **`PostFeedProofs`, `WatermarkInvariant` and `WatermarkIsSound`**:
  `WatermarkSound` alone is not inductive. A refresh stores a date it carried for a
  while, so the promise must hold of every date in the app (`Watermarks`: stored,
  captured, being advanced); and while an answer is merged, `lud` rises past posts,
  so one must know that those of the answer up to `lud` are dealt with
  (`AnswerTracked`), that documents are numbered apart (`Numbered`), and that what
  was written since is later than all of it (`NewcomersLater`), which also covers
  the rows that the sweep deletes. The proof reduces each action to two facts: no
  date appears that was not there (or 0), and the step is `Harmless` to every post,
  that is, it keeps the row, or excuses the post, or puts it behind every date.
  `MergeWatermark` is the heart: a post skipped by `>` was merged before, or shares
  the second of an earlier commit. The SDK may deliver a write of an earlier process
  while an answer is being merged (`WhileMerging`, `AcknowledgeNobodyWatermark`).
* **`PostFeedProofs`, the list that is shown**: all of it is about the one step that
  gives the table its list (`ShownByShowFeed`).
  `GhostsOnlyByOverlap` needs that `postSet` is empty before the first answer and
  holds the ids of the only one after it (`IdsOfAnswers`).
  `FeedIsExplained` needs that, while an answer is merged, each of its posts that
  has no excuse is in SQLite already or will be found newer than `lud`
  (`AnswerCopied`). That holds when the answer comes because the captured date keeps
  its promise (`WatermarkInv`), and each merge keeps it because posts come in order.
  It would fail if an excuse went away meanwhile: the writes that nobody is told of
  are not of posts in the answer (`AnswerSettled`: a queued write hides the post or
  has no timestamp, which ends the process), and other users write posts of their
  own only (`OnlyMine`).
  `FeedIsComplete` draws `FeedComplete` from it, under three hypotheses: deletes are
  not refused, the cache is not used, commits are in different seconds.
  `FeedSameSecond` shows that the last cannot be spared.
* **`PostFeedProofs`, `CleanupIsSafe`**: from the answer on, each favourite that was
  read is in `postSet`, gone from the server, or being deleted (`CleanupSpares`). The
  answer may come from the cache, so every post the app has met must be in the cache
  while it is on the server (`MetKnown`). While the answer is merged, the SDK may
  finish writes of an ended process: an add cannot bring such a post back, as only
  new posts are added (`AddsNew`), and a delete that is refused is not of a
  favourite that was read (`UntoldSpared`), because `deletePost` queues an unstar
  behind every delete and whatever follows leaves a write of that favourite as its
  last (`DeletesUnstar`).
* **`EditorProofs`**: `PictureIsKept` needs to know of every place a picture passes
  (row, image view, load, upload, queue, document) that it holds no asset, and of
  all but image view and load that it holds some picture (`PicturesTravel`).
  `NewestSaveIsKept` cannot look at the end of a queue alone, since the server may
  refuse any of its updates: of the document (`DocumentInOrder`) and of every queued
  update (`WritesInOrder`) it says that a newer save, unless lost or refused, is
  still being uploaded, queued behind it, or had no order with it. That holds when
  an update is queued because every save that began during an upload is noted
  (`MetUploads`) and a save is queued once (`Numbered`), and when the server takes
  the oldest update because what was behind it is behind nothing less (`PlacesMove`).
  `DeletedPostStays` follows from the actions alone.
* **`SessionProofs`** holds no theorem of a specification, since `Session` has none:
  `SessionInv` says which stacks of screens there are and that `Post.userEmail`, once
  set, is Auth's user; with the types (`Seated`) every step of the session keeps it.
* **`FavouritesProofs`**: `FavouritesTypeCorrect` from `Seated` and the types of the
  stars (`Signed`), and `HomeBelongsToOwner` and `ButtonsComeBack` by what each
  sign-in, answer and Back does to the stack.
* **`FavouritesProofs`**, second part: `StarsAreTheTaps` rests on `StarsInv`: every queue writes only into
  its own account's collection and decides each document it touches (`QueuesInv`),
  and each account's star, applied through its queue, follows the wish (`Follows`).
  The lemmas on `Append`, concatenation and `Tail` say how the newest write of a
  document moves. `ColoursAreStars` needs `FlagsInv`: only collections of existing
  accounts are read (`Known`), and while only this account's favourites have been
  answered, `favoritePostSet` is what a read would show, but for touched posts
  (`Coloured`).
* **`FirestoreWritesProofs`**: the invariants of queue, ids and callbacks
  (`QueuesInv`), of pipeline and stream (`StreamInv`), and the types of the history
  hold together (`WritesInv`); `IdsInUse` is why an id given again meets no old
  callback. Five theorems follow.
* **`WriteHistoryProofs`**: `HistoryInv` relates what the server did to what is queued
  and what the application heard: served requests are applied, what is told comes
  before what waits, nothing is lost. Four theorems follow.
* **`WriteHistoryProofs`, `WritesImplementQueue`**: `FirestoreWrites` implements
  `WriteQueue` under `queue <- WritesOf(batches[u])`, `tried <- served`, with one
  lemma for each action: a step of the abstract queue or a stutter. The run
  `WritesRetry` checks the same on its instance.
* **`FirestoreReadsProofs`**: five theorems follow from one inductive invariant,
  `ReadsInv`, of five parts.
  `Typed` adds the types of what is on the wire to `TypeOK`; `RecordsAgree` is the
  property itself.
  `OnlineInv`: nothing is on the wire of a stream that is not open (`Quiet`), and a
  stream that was heard is online.
  `AnswersInv` follows each get: it is added once, before anything else happens to
  it, an error is its last event, and once it has an answer it is muted or beyond
  further events (`AnswersOf`).
  `WireInv` says, for each target that the rules do not refuse: as many responses are
  outstanding as may still come (`Counted`); the last request is the one that is
  served or will be (`Newest`); what is said after the last response is about the
  request that is served, all of it before a change of it (`SaidOfServed`,
  `SaidInOrder`); so a target that nothing is outstanding for is current by its last
  watch (`CurrentIsLast`). Nothing is said of a refused target (`RefusedOf`). `TypeOK`
  needs it too: that the count, which each response lowers, is never negative is a
  matter of the protocol (`Owed`). Requests are counted by their positions in the
  sequences (`Number`), with lemmas for `Append`, `Tail` and concatenation.
* **`NewPostProofs`**: `AuthorsPublish` needs to know that an upload without an excuse
  is the one that the shown screen waits for, and bears the account of its home screen
  (`UploadsInv`): leaving the screen excuses it, a sign-in needs the screens below, and
  a late registration excuses it too. `DraftsArePublishedOnce` says without counting
  that a draft is in one of four places at most (`PlacesInv`), and needs that a form
  shows a draft that was never posted (`FormsInv`); each step moves a draft from one
  place to the next, and `PlacedIsCounted` turns that into the sum of `Copies`.

Only model-checked: liveness under fairness, which the prover does not support
(`RefreshEnds`, `OwnPostShows`, `SaveEnds`, `WritesAnswered`, `GetAnswered`), and what
the runs with findings refute. Every other property of a run has its theorem.

## 7. What is left

Not modelled, and why:

* `WeatherDataModel.swift` and `PostInfoViewController`: a pure table from condition
  codes to names of icons, and a request whose answer only fills labels of its own
  page.
* Cells, alerts and the application delegates: presentation, and start-up without
  state of its own. Layout, image download for display, location.
* `src/Travel/Travel`: an unfinished predecessor of TravelMe; its refresh reads and
  never calls back, so its list stays as it was loaded.
* The other Pods, in two copies: gRPC, BoringSSL, Alamofire, Kingfisher and the rest
  of Firebase. They are far the most of the repository's lines, and hold no state of
  the program's own. Of the Firestore SDK, what is behind the calls that TravelMe
  makes is modelled; its documents, indexes, garbage collection and transactions
  are not.

Plan:

1. An abstract specification of a read (begun, then answered once by server, cache
   or error), shown to be implemented by `FirestoreReads`.
2. An abstract specification in which a refresh is atomic, and `PostFeed` shown to
   implement its table and date.
3. Limbo documents and resume tokens in `FirestoreReads`.
