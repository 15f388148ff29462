# Data Room: a TLA+ development

Data Room is a document repository: a NestJS API over Postgres (Prisma) and an
object store (Supabase), and a Next.js web client. Files go from the browser to
storage over signed URLs and never pass through the API. This directory holds
TLA+ models of the parts whose correctness depends on the order of things,
TLC configurations that check them on small instances, and TLAPS proofs of the
main results for every instance.

Contents: [inventory](#inventory), [modules](#modules),
[runs](#runs-and-bounds), [exceptions](#the-exceptions-the-properties-name),
[fairness](#fairness), [proofs](#proofs),
[disagreements](#where-the-repository-disagrees-with-itself),
[not modelled](#what-is-not-modelled), [plan](#plan).

Paths below are relative to `src/`; `api/` is `apps/api/src/` and `web/` is
`apps/web/src/`.

## Inventory

| Component | State | Operations | Hard part | Correct when | Module |
|---|---|---|---|---|---|
| File uploads `api/files` | rows of `nodes` (`upload_state`, `parent_id`, `path`, `storage_key`) | intent, commit, discard, move, rename, delete | a handler awaits Postgres and storage several times; two stores, no common transaction | a READY row has its object; an object without a row is on a list to be deleted | UploadLifecycle, NodeTree |
| Upload sweep `api/files/upload-sweep.service.ts` | `running`, the scan in progress | scan, expire one row, retry the queue | races commits; may fail half way | abandoned reservations end; a READY row is never touched | UploadLifecycle |
| Blob release `api/files/blob-release.*.ts` | an in-memory set of keys | release, record, drain | storage refuses, the process restarts | a refused deletion is tried again | UploadLifecycle |
| Storage `api/storage` | objects, live signed URLs, PUTs under way | sign, PUT, stat, range read, delete | a URL outlives the row it was signed for | (external: what the code relies on) | UploadLifecycle, FileViewer |
| Node tree `api/folders`, `api/files/files.repository.ts` | `parent_id`, `path`, `depth`, `name`, `normalized_name` | create, rename, move, delete a subtree | names are probed before they are written; positions are written from rows read earlier | siblings differ; paths follow parents; a file is not refused a free name | NodeTree |
| Listings and pages `api/common/pagination`, `api/folders` | none | list after a cursor | rows change between two pages | no row twice, none left out | FolderView |
| Refresh tokens `api/auth/token.service.ts`, `refresh-token.store.ts`, `session.service.ts` | rows of `refresh_tokens` | issue, rotate, mint a grace sibling, revoke a family, delete expired rows | concurrent presentations of one cookie | one winner per rotation; a session ends by its cap; a revoked session stays dead | RefreshTokens |
| Accounts and Data Rooms `api/auth/auth.service.ts`, `api/data-room` | `users`, `data_rooms`, root folders | register, log in, get or provision, rename | two registrations of an address, two first requests, two renames | one account per address; one room per owner, never without its root, both named alike | DataRooms, RoomRegistry |
| Sharing `api/sharing` | `shares`, `share_grants` | create, revoke, set expiry, add and remove grants, bind, resolve, read | a read is several queries; revocation, expiry and moves fall between them | a reader sees what a share in force covers and nothing above it | Sharing |
| Upload queue `web/features/files/upload/queue.ts` | rows, a `Runtime` per row, the counter `running` | enqueue, cancel, retry, dismiss, clear; a run per row | an aborted run unwinds after its row was retried | slots are neither leaked nor idle; a row says what happened | UploadQueue |
| API client `web/lib/api/client.ts`, `web/features/auth` | one shared promise per tab, the cookies of all tabs, the session in the cache | call, refresh once, retry once, sign in, sign out | concurrent 401s; several tabs; late answers | one rotation per expiry; a call is refused for cause; every call ends | BrowserSession |
| Folder view `web/features/data-room/hooks/useFolderContents.ts`, `components/FolderContents.tsx` | pages in the query cache | load, load more, refetch, write, roll back | optimistic names; refetches cancelled and started over | the list is what the API has once all is quiet | FolderView |
| File viewer `web/features/data-room/components/FileViewer.tsx`, `hooks/useFile.ts` | two queries, a timer, the frame | open, renew, reload, retry, rename, move, delete | a URL that expires while it is used; late answers | the URL is renewed in time; the document stays put; the header follows | FileViewer |
| Pure parts: PDF signature, cookies, hashes, validation, error formatting, rendering | none | | | | see [not modelled](#what-is-not-modelled) |

How they interact. The browser's queue calls *intent*, PUTs the bytes to the
signed URL, then calls *commit*; it learns of expiry and failure from answers
only. Intent, commit, move, delete, the deletion of a folder and the sweep all
change the same rows and the same objects, and share one blob-release service
and its queue. The repositories of folders and files write one table, whose
unique index and foreign key decide between them. A sign-in creates or finds an
account, binds the grants that wait for its address and starts a token family;
every call of the client may rotate its refresh cookie. A reader's access is
resolved from a node's `path`. The browser shows listings and files from a
query cache that its own writes invalidate.

Where each module stops at another's door: `UploadLifecycle` takes a name for
granted and `NodeTree` takes the object for granted; `BrowserSession` keeps of a
token what a client can tell apart (live, spent, dead) and `RefreshTokens` the
rest; `DataRooms` leaves the start of a session to `RefreshTokens` and the
binding of grants to `Sharing`; `FolderView` and `FileViewer` take the API's
writes as one step that is done or refused.

## Modules

In every module a request is a sequence of actions, one per call it awaits, so
that anything may happen at an `await`. Postgres runs READ COMMITTED: two
statements of one transaction see different snapshots, hence two actions where
that matters. Reads that cannot go stale in a way that matters are folded into
the step that uses them, with the argument in a comment. Operators preceded by
"Mutant" or "mutant" are plausible bugs, used by nothing: each is listed in
`PROJECT.json` with the property it breaks.

### UploadLifecycle

The reservation, its object, its URL, and everybody who changes them.

| Variable | Code |
|---|---|
| `uploadState`, `parent`, `age` | the file's row in `nodes`: `upload_state`, `parent_id` (hence `path`), now minus `created_at` |
| `folders` | folder rows |
| `object` | what the bucket holds under `<room>/<node id>`, up to what commit can tell apart |
| `signed`, `putting` | upload URLs handed out; PUTs the provider has accepted |
| `pc`, `target`, `keys` | where an HTTP handler stands, the id it is about, the storage keys it has in hand |
| `sweepPc`, `stale`, `sweepKeys` | the sweep: where it stands (`idle` is `running = false`), its scan, the key it releases |
| `queue` | `BlobReleaseQueue.keys` |
| `faults`, `mishap` | the bound on faults; history |

`ReserveFile`, `CreateUploadUrl` (or `CreateUploadUrlFails`,
`DiscardReservation`) is `createUploadIntent`; `StartCommit`, `StatObject`,
`ReadRange`, `MarkReady`, `ConfirmReady` is `commitUpload`, with
`DiscardReservation` and `Release` on its error paths; `SelectSubtreeKeys`,
`DeleteSubtree`, `Release` is `deleteFolder`, its two statements apart;
`SweepScan`, `SweepExpire`, `SweepDrain`, `SweepRelease` is `sweep`.

Abstractions: one Data Room and one owner (every lookup is scoped to the
owner); `age` counts in ticks and signing takes less than a tick, so that the
URL's life and the reservation's start together; an object is one of four
contents; folders are only deleted (creating one adds a place for files and
nothing else here).

### NodeTree

The table `nodes` as the folder and file repositories write it.

| Variable | Code |
|---|---|
| `state`, `parent`, `path`, `depth`, `name` | the row: `upload_state` (a folder's is null), `parent_id`, `path`, `depth`, `name`; `normalized_name` is `Normalize(name)` |
| `req[r].pc`, `op`, `id`, `dir`, `want` | where a request stands, what it does, the node and the folder it has read, the name it wants |
| `req[r].cand`, `from`, `tries` | locals of `findAvailableName` and of the retry loops |
| `req[r].rivals`, `outdated` | history: names others took in that folder, what others did to the file |

`FindAvailableName` is one batch of the probe; `Insert`, `UpdateName` and
`UpdatePosition` are the writes, decided by the unique index and the foreign key
at that moment; `LoseRace` is the loop's answer to a unique violation. A name is
a spelling and its " (n)" suffixes, so that a family of names is exhausted by
two probes; `Fold` is the normalisation.

### Sharing

`here` and `home` are the tree (files move, folders do not), `share` and `grant`
the two tables, `owner[o]` a request of the owner between its check and its
write, `read[r]` a recipient's request between its queries. With a session:
`LoadFolder`/`LoadFile`, `Resolve`, `RespondContents` or `RespondUrl`. With a
link: `FindShare`, `HoldsGrant` for a restricted share, `Locate`, `RespondView`
or `RespondLinkUrl`. `met` is history: what has been true of each share at some
moment of the read, which is the most that several queries can promise.
Abstractions: an account's id is its address; tokens stand for their shares;
there is one role, so the most permissive share is the shallowest; folders stay and
stay where they are. The last one hides a case: when the shared folder is deleted
between `Resolve` and `RespondContents` or the reading of a file's names, a signed-in
reader is answered the whole chain of names (`access.resolver.ts:242-243`).
`LinkNamesStayBelow` is about links only, and no property is about the names a
signed-in reader is answered.

### FolderView

`row` is the folder in the database; `list` the pages in the query cache,
`invalid` its `isInvalidated`, `fetch` the fetch that runs (`all` reads every
loaded page again, `next` appends one) with what a cancellation puts back
(`back`); `listWrite[w]` a create, deletion or rename of this tab or another, with
the snapshot an optimistic rename restores. TanStack Query is modelled from how
`useFolderContents.ts` uses it: one fetch at a time; `invalidateQueries`
restarts it; `cancelQueries` reverts it; `setQueryData` makes the list valid;
`fetchNextPage` cancels a refetch. A name that is taken is refused to a folder, and
given with a suffix to a file (`Given`). `After` is the keyset condition of
`afterChildCursor`, `Page` a listing with its next cursor.

### BrowserSession

`jar` is the browser's cookies, `call[c]` a call of a tab (work, `/auth/me`,
login, logout), `refresh[t]` the promise `refreshInFlight` of the tab `t`, `shown[t]`
the session in its cache, `token` and `family` the API's refresh tokens.
`Unauthorized` is the first 401 (join the refresh or start one),
`RefreshAnswered` and `RefreshFails` its two ends, `Resume` the retry.
`history`, `over`, `cut` are history. A token is dead when it has expired or its
family has ended; a revocation may fail and the logout be answered all the same
(`session.service.ts:42`). The refresh handler sets the new cookies before it reads
the user (`auth.controller.ts:137`), so that an answer that is an error may carry
cookies that work. Assumed: the access token a refresh brought outlives the way of
the retry that carries it.

### DataRooms and RoomRegistry

`email`, `room`, `root` are the tables; `lock[k]` is the row lock a rename's
transaction holds; `pc`, `op`, `given`, `user`, `target` a request's locals.
`Provision` is the nested insert whose unique index refuses the second room;
`RenameRoom` and `RenameRoot` are the two updates of the transaction, visible to
others at the second one's commit; `RequestFails` is a failure at any await.
`RoomRegistry` is what the API promises: a user's room is opened once, never
replaced, and every `GET data-rooms/me` is answered with it. The refinement maps
`room` to the room a user owns, `name` to its root's name and `answer` to what a
request was answered with.

### FileViewer

`file` is the API's row; `detail` and `content` the two queries (data, error,
the call that runs and what it brings); `timer`, `frame`, `nonce` the viewer's
state, `page` what the frame has loaded; `write` the rename, move or deletion
that runs. A URL is its expiry. Every action ends with `Paint`, the effects of
the render it causes. Assumed: a timer fires when it is due and no answer takes
as long as a URL lives, except when the computer sleeps (`Sleep`); a call that
fails has used up its retries; one write at a time (the dialogs are modal, though
Escape can close one that is pending).

### RefreshTokens

`row` is the table `refresh_tokens`; a token stands for its id, its hash and
the cookie. `pc`, `presented`, `seen`, `at`, `ceiling` are the locals of
`TokenService.rotate` across its awaits. `rotate` of the store is one
transaction whose UPDATE re-evaluates its WHERE after waiting, hence one step
(`RotateWins`, `RotateLoses`). Any token ever stored may be presented by
anybody at any time. `startedAt`, `chain`, `ended`, `raced` are history.
`DeleteExpired` is an operation of the store that nothing in the repository
schedules yet; its comment says a sweeper will.

### UploadQueue

The queue of `createUploadQueue`. JavaScript runs a turn to its end, so an
action is what happens between two awaits of `run(id)`, or one call of the
queue's interface; `Pump` is the part every turn may end with. `cancelled` and
`controller` are the fields of a row's `Runtime`, shared between an old run and
the run of a retry, which is the point of the model. `ready` is the server's
side of a commit, until the row forgets its node (`nodeId: null`). `HonoursAbort`
chooses between the browser's pipeline, where an aborted call does not succeed,
and the queue's contract, which does not ask that (its tests settle a call after a
cancel); only in the first case does it matter who is in `aborted`. An `AbortError`
may come unasked, too. `Handled` bounds the rows the user cancels, retries and
dismisses one by one. Progress, texts and listeners are left out, and so is `retryable`, which only decides whether the panel shows
the button. An aborted call rejects late for a real reason: `request` in
`web/lib/api/client.ts` awaits `refreshSession()`, which is not given the
signal, and an abort while the body is read arrives as a `ContractError`.

## Runs and bounds

| Run (cfg) | Question | Instance |
|---|---|---|
| `Upload` | bytes, orphans, parents, committed files; reservations and orphans end | 1 file, root and one folder, 2 requests, 1 fault, fair |
| `TokenSafety` | one winner, the cap, finality of an end, the expiry of grace siblings | 4 tokens, 1 family, 2 requests, clock 0..3, idle 2, cap 3, grace 1 |
| `Queue` | slots, rows and runs; uploads end | 3 rows, the user at the first 2, 2 slots, 2 runs, a pipeline that may ignore the abort, fair |
| `Tree` | sibling names, paths, refusals, moves | root, 2 folders, 3 files, 3 requests, 2 names of which one has two spellings, 2 retries, depth limit 2, a family of 3 names probed by 2 |
| `Sharing` | what a reader is served, what a link names, revocation | a folder in the root, a file, a share there and one to come, 2 requests of the owner, 1 read, clock 0..1 |
| `View` | rows once, real names, answered writes | pages of 1 row, 3 rows, 2 writes of this tab and 1 of another |
| `Session` | replays, refusals, sign-out; calls end | 2 calls in one tab, a logout and a login in another, 4 tokens, fair |
| `Rooms` | accounts, rooms, names, requests end; refines `RoomRegistry` | 2 addresses, users, rooms and names, 4 requests that may fail anywhere, fair |
| `Viewer` | renewal, the reader's place, the header | 2 names, 2 folders, a URL that lives 2 ticks and is renewed after 1, clock 0..3, one sleep |
| `UploadDoubleCommit`, `UploadMoveOut`, `ViewerDeadReload` | one documented promise each; violated | 1 file, 2 requests, no fault; the viewer without sleep |

Why they are enough.

* Uploads: different files share only folders, the sweep and the queue, so one
  file with two requests has every pair of handlers racing on a row and an
  object, against the sweep, a move and a PUT, which take no request. One fault
  is a crash, a refused deletion or a failed call at any point. The clock of a
  file runs to one tick past both lifetimes.
* Tokens: a sign-in, a rotation, a rotation of its successor and a grace
  sibling, in any order; three ticks reach idle expiry and the cap.
* Queue: three rows for two slots, so that a row waits behind two others, each
  cancelled, retried and dismissed over its old run; one row's old and new run can
  hold both slots, and a third run would first show in the counter. The third row is
  left alone: it is the one that could starve.
* Tree: two rivals for two retries, a family two probes exhaust, a folder below a
  folder at the depth limit, a file moved while it is renamed.
* Sharing: the reader's one request against two of the owner's is every pair that
  falls into a read; the second share is above, below or on the node of the first; the
  first expires in the middle.
* View: pages of one row shift at every change; a rename over a rename needs two
  writes of the tab; the third is another tab's.
* Session: the other tab ends and restarts the session in the middle of the two
  calls, and its own calls may be refreshed too.
* Rooms: two registrations of one address, two first requests, two renames, each
  with a second account to confuse it with.
* Viewer: the renewed URL is itself renewed before the clock ends.

The proofs below cover all other values.
`CHECK_DEADLOCK FALSE` is used everywhere because the systems may stop: requests
and writes are served once, the clock is at its bound, all ids are used, every
row is dismissed, the tab is left.

## The exceptions the properties name

Some properties say that nothing goes wrong except at steps that a history
variable names. The steps are real, and they are the places to look at first:

| History | Step |
|---|---|
| `mishap`: `lostCommit` | a commit that updates no row releases the object of a file another commit made READY (`api/files/files.service.ts:163`; run `UploadDoubleCommit`) |
| `mishap`: `movedOut` | a file moved out between the two statements of a folder's deletion loses its object (`api/folders/folders.repository.ts:418`; run `UploadMoveOut`) |
| `mishap`: `missedKey` | a file that enters in between leaves its object behind (`folders.repository.ts:432`) |
| `mishap`: `latePut` | a PUT on a URL whose reservation is gone leaves an object the sweep, which starts from rows, cannot find |
| `mishap`: `forgotten` | a restart empties the release queue; the comments of `blob-release.queue.ts` accept it |
| `raced` | a family is revoked while a rotation or a grace mint is between its read and its insert: the token inserted stays usable |
| `outdated` | a rename between `moveFile`'s read and its write is undone by the move |
| `dropped` | loading more cancels the refetch that an answered write has started, and marks the old list as valid (`FolderContents.tsx:113`) |
| `crossed` | the answer of a refresh in flight arrives after a sign-out in another tab and sets cookies again |
| `lost` | the network loses the answer of a rotation: the cookies keep a token that is spent |
| `cut` | a refresh breaks off, by the network, the throttle, a handler that fails after the rotation (`auth.controller.ts:138`), or because it was asked for without a cookie that another tab has set since: the call, even `/auth/me`, reports its 401 (`client.ts:28`) |
| `slept`, `behind` | the computer sleeps through a timer; a read of the metadata that a rename overtook, or that failed, is answered last |

Two more are outside what the properties say: a retry of an upload that its old
run's abort overwrites with *cancelled* (`queue.ts:193`), and a cancel that the
commit has overtaken (`queue.ts:311`), after which the row says *cancelled* and
the file is in the room.

## Fairness

* `UploadLifecycle!FairSpec`: weak fairness of the next call of a request
  in progress (the runtime resumes a handler), of the sweep (`setInterval`, and
  the `finally` that clears `running`), of time, and of the end of a PUT. None
  for starting requests, for commits, for faults.
* `UploadQueue!FairSpec`: weak fairness of every run, that is, every call a run
  awaits settles. The code sets no timeout, so this is the browser's
  promise: a connection ends in an answer or an error. The user need not do
  anything, but what the user does can hold a row up: `pump` takes the first queued
  row of the list (`queue.ts:159`), so whoever retries two rows in turn, for ever,
  starves the row below them for as long. `UploadsEnd` therefore assumes of a row that
  those above it are not retried for ever (`<>[][~Restarts(j)]_vars`); without that
  premise TLC shows the row starving. Rows below it may be retried without end.
* `BrowserSession!Fairness`: what was sent is answered and an answer is received,
  for the same reason. Nothing forces a call, an expiry or a failure.
* `DataRooms!Fairness`: the database answers every query of a request; for a
  rename that waits for a row lock, weak fairness is enough because the holder
  ends, and a failed transaction gives the lock back.
* The other modules state no liveness: requests are served once and may fail,
  readers may stop.

## Proofs

`tlapm` checks the following for every value of the constants that satisfies
the ASSUMEs of the modules.

| Module | Theorem | Property |
|---|---|---|
| UploadLifecycle | `TypeCorrect` | `TypeOK` |
| | `CommittedFilesKeepTheirBytes` | `ReadyHasObject` |
| | `RowBeforeObject` | `HeldKeysAreUnreferenced` |
| | `OrphansTracked` | `OrphansAreTracked` |
| | `ParentsAlwaysExist` | `ParentsExist` |
| | `CommittedFilesLeave` | `CommittedFilesLeaveByDeletion` |
| RefreshTokens | `TokensTypeCorrect` | `TypeOK` |
| | `OneWinnerPerRotation` | `OneHeadPerChain` |
| | `CapHolds` | `SessionsEndByTheCap` |
| | `EndedStaysEnded` | `EndedSessionsStayEnded` |
| | `SiblingsInherit` | `SiblingsInheritTheExpiry` |
| UploadQueue | `QueueTypeCorrect` | `TypeOK` |
| | `SlotsAreCounted` | `RunningCountsRuns` |
| | `NoSlotIdles` | `NoIdleSlot` |
| | `StoppedStaysStopped` | `StoppedRowsStayStopped` |
| | `RowsAreTruthful` | `RowsTellTheTruth` |
| NodeTree | `TreeTypeCorrect` | `TypeOK` |
| | `SiblingsDiffer` | `SiblingNamesUnique` |
| | `PathsFollowParents` | `PathsAgree` |
| | `RefusalsAreEarned` | `RefusedOnlyAfterLosing` |
| | `MovesOnlyMove` | `MoveOnlyMoves` |
| Sharing | `TypeCorrect` | `TypeOK` |
| | `ServingIsCovered` | `ServedWasCovered` |
| | `LinksDiscloseNothingAbove` | `LinkNamesStayBelow` |
| | `RevocationIsFinal` | `RevocationSticks` |
| BrowserSession | `TypeCorrect` | `TypeOK` |
| | `ReplaysTakeTwo` | `ReplaysNeedTwoTabs` |
| | `RefusalIsDeserved` | `RefusedOnlyIfOver` |
| | `SignOutLasts` | `SignedOutHoldsNothing` |
| DataRooms | `TypeCorrect` | `TypeOK` |
| | `OneAccountForAll` | `OneAccountPerAddress` |
| | `NoContradiction` | `NothingVanishes` |
| | `OneName` | `RoomAndRootAgree` |
| | `Implements` | `OneRoomPerUser`, the refinement of `RoomRegistry` |
| FileViewer | `ViewerTypeCorrect` | `TypeOK` |
| | `UrlsRenewed` | `UrlsAreRenewedInTime` |
| | `ReadersKeepTheirPlace` | `ReaderKeepsPlace` |
| | `HeaderIsRight` | `HeaderFollows` |
| FolderView | `ListTyped` | `FolderTypeOK` |
| | `RowsListedOnce` | `UnwrittenRowsListedOnce` |
| | `NamesAreReal` | `ShownNamesAreReal` |
| | `AnswersAreShown` | `AnsweredWritesShow` |

Assumptions. The tree's root is a folder and folders and files are different
ids; lifetimes, bounds and batches are naturals, positive where a zero would
mean nothing; a URL is renewed some time after it is signed and some time before
it expires; null is none of the values it stands beside; a folder's path is its
parent's path and the parent (`PathsFollowParents` of `NodeTree` is the proof that
it stays so, and no folder ever moves); the rows of a folder are finitely many, and
their ids and names are naturals in the order the database sorts them by. All of
them are ASSUMEs of the modules that declare the constants, and TLC evaluates them.

Uploads. `ReadyHasObject` is not inductive: a commit reads the object and
promotes the row later. `CheckedBytesStay` carries the bytes across (while the
row is PENDING, nobody who removes rows before objects can have deleted them),
and it needs `HeldKeysAreUnreferenced` (whoever is about to delete an object has
removed its row) and, for a folder deletion that has read its keys and not yet
deleted its rows, `SelectedReservationsStay` (a reservation cannot move, so it
is still below the folder when the rows go). `FreshIds` says that a new id
starts with nothing, `SweepKeysMatchStep` that the sweep holds what its step
says.

Tokens. `OneHeadPerChain` needs that a row's successor is of its family and was
really issued (`RowsAgree`, `ChainsAreRooted`), because an insert reuses no
chain. The cap needs that every row, and every row a request still remembers,
carries the sign-in's instant. `EndedSessionsStayEnded` needs that nobody can
still insert into an ended family (`NobodyIssuesIntoEnded`), which fails exactly
in the families that `raced`. `SiblingsInheritTheExpiry` needs that the successor a
sibling stands for is still there, or its time is over (`CeilingIsCovered`).

Queue. The argument is about counting. `Pump` picks the queued rows whose rank
among the queued rows is less than the slots left; the lemmas `PickedFits` and
`PickedFills` show that these are at most as many as the slots, and all the
queued rows if they are fewer. The picked rows get different idle runs, so the
number of runs grows by as many. Everything else changes the runs by one or not
at all. `ControllersAreLive` ties an abort to the run it stops,
`AppliedCommitsAreReady` the word *done* to the server.

Tree. The unique index and the foreign key are checked at the write, so names
and parents rest on nothing a request has read. Three things do: the depth of a
new folder (`CreationsFit`: folders never move), the rows a request works on
(`RowsWereRead`: an id, once used, is never unused again) and the count of lost
writes (`LossesHaveRivals`: whoever is about to lose the index has one rival
more than tries). `BelowIsClosed` shows that deleting by path removes whole
subtrees, so that no row loses its parent. `MoveOnlyMoves` rests on what a move
has read: `MovesInformed` says that, unless another request has touched the file,
the name it asks for is the name the file has, and that in the file's own folder
the first candidate it probes is that name, because a file does not stand in its
own way.

Sharing. A read is three or four queries and nothing holds between two of them, so
the invariant speaks of moments: `ReadInv` says, for each step of a read, which of
the share's being active, the reader's being granted and the share's standing
above the node it has already seen to be true (`met` only grows). A link's read
also carries the path it found. `Nested` says of that path that an earlier folder is
above a later one, whatever became of the file since; with it, what comes after the
shared folder in the path is below that folder, and so is each of its children.
`RevocationSticks` needs only that a share that does not exist yet carries no
revocation.

Browser sessions. A cookie is a token, and several answers may be on their way to
change it. `NewTokensFresh` and `NewTokensDiffer` say that a token on its way has
been presented by nobody and comes from one answer only; so the cookie holds a spent
token only until the answer of the rotation that spent it arrives, or if that answer
was lost (`SpentIsExplained`). Who presents a token that is already spent therefore
does so beside another refresh, and `RacesKnown` says that both know it. For
sign-out, `SignedOutStays`: a refresh in flight after a logout that crossed none
carries no cookie, so no answer brings one. For refusals, `RetriesAreCurrent`: the
retry carries the access token its refresh brought.

Rooms. The unique indexes (`OneAccount`, `OneOwner`), `Rooted` (a room and its
root are there together under one name), the locks, and what each request knows
at each step. The refinement proof maps `Provision` to `Open`, the commit of a
rename to `Rename`, the answer of a `GET data-rooms/me` to `Answer`, and all
else to stuttering.

Viewer. `RenewalIsDue` is the strengthening: while nobody slept and the last
fetch did not fail, the timer is set before the expiry of the URL in hand, or a
fetch is running and the URL it brings has time left. `DocumentIsFramed` says
that a document is on the screen only in the frame, never beside an error. For the
header, `ReadIsTrue`: the metadata in hand, and the metadata that is coming, differ
from the file at most by what the tab's own write has changed and not yet heard of,
unless a read is known to be overtaken (`ComingIsFound`: only one that has its answer
can be). `WriteIsDone` makes the patch of `useRenameFile` agree with the file when the
answer arrives.

Folder view. What a page holds is proved from its order, without induction: `Page`
takes the rows with fewer than `PageLimit` before them, and the number of rows
before a row grows along the order (`AheadGrows`), so a page is a first part of what
is left, and its cursor is its last row (`PageFacts`). From there on a row's place is a
matter of cursors alone: `Good` says that the cursors of a list go forward
(`Chained`) and that a row nobody wrote since is on the page whose two cursors
enclose it (`Covers`), now, although the pages were read at different times; it is
kept for the list, the fetch and every snapshot. `RowsListedOnce` follows: two
pages cannot enclose one row, and a complete list has a first page whose cursor the row
does not come after. For the names, `ListsFaithful` says that every list, the one shown
and those that a cancellation brings back, is `Faithful`, or known to be out of date,
or excused by an optimistic rename on its way (or by `dropped`): what is quiet has
none of these excuses.

Every inductive invariant is proved action by action, and was checked by TLC on the
instances above first. The proofs about `FileViewer` and `FolderView` share a
module, `BrowserViews_proofs`, which extends both; hence the names of `FolderView`
(`FolderSpec`, `FolderTypeOK`, `listWrite` and so on). What the proofs changed in
the models: the candidates of a move may go past `ProbeLimit` by the last batch,
which no instance whose batch divides the limit shows; the returns of `FileViewer`
are read in their order, where overlapping cases had left the result open.

Only model-checked:

* the liveness properties (`ReservationsEnd`, `OrphansAreCollected`, `UploadsEnd`,
  `CallsEnd`, `RequestsEnd`): fairness and ENABLED are outside the prover's reach;
* that a step is possible at all: each action and each disjunct is seen to fire in
  a run, no theorem says so.

## Where the repository disagrees with itself

Three runs end in a violation; `PROJECT.json` quotes the lines each contradicts.

* `UploadDoubleCommit`: two commits of one upload. The one that updates no row
  takes that for an expired reservation and deletes the object of the file the
  other has just committed.
* `UploadMoveOut`: a file that leaves a folder between the two statements of the
  folder's deletion keeps its row and loses its bytes.
* `ViewerDeadReload`: after a renewal that failed, *Retry* and *Reload preview*
  load the URL in hand, expired or not, and ask for no other; the timer is not
  set again either.

Two more were met while modelling and have no run of their own:

* `api/auth/token.service.ts:304` says that a replay in the grace window "cannot
  outlive the session it is standing in for", and lines 351-359 that the sibling "must
  be no stronger than the token it stands in for". That is so of the row that is
  minted, and `SiblingsInheritTheExpiry` says no more. The sibling is then rotated like
  any token, with a full lifetime and on a chain of its own (lines 224-229,
  `SuccessorRow`), and only the cap (`SessionsEndByTheCap`) and the end of its family
  (`EndedSessionsStayEnded`) bound what comes of it.
* `web/lib/api/client.ts:69` says that "a second 401 means the session is genuinely
  over", `web/features/auth/hooks/useSession.ts:20-24` that an API out of reach is not
  "you are signed out", and `web/lib/api/auth.ts:33-37` that offline or a 500 is not
  mistaken for it. `refreshSession` makes one `false` of a refresh refused and of a
  refresh that broke off (`client.ts:28-32`), so `/auth/me` then reports the first 401
  and the visitor is shown signed out, though the session lives, and may even have the
  new cookies. `RefusedOnlyIfOver` excepts these calls by name (`cut`).

## What is not modelled

* Totals and the preview of a deletion: one query each, shown and forgotten.
* The heading of a folder whose own row was renamed (`withRenamedSelf`): the same
  patch as the row's, without pages.
* Screening of chosen files, wording of errors, the panel's summary and its
  unload guard: pure functions of rows that `UploadQueue` has.
* `web/features/sharing`: forms and a read-only browser. Two of its hazards are
  listed in `PROJECT.json` with the reason no property covers them: a content URL
  that cannot be issued leaves a skeleton, and a lost answer loses a link that is
  shown only once.
* Password hashing, token generation and hashing, cookie attributes, the origin
  check, throttling (a bound in `BrowserSession`), validation schemas, error
  formatting, health, configuration parsing, wiring: no state of their own.
* Rendering, dialogs, formats, virtual rows.

## Plan

1. `UploadLifecycle` without its two mishaps as a refinement of an abstract file
   (absent, reserved, committed with its bytes, removed).
2. `BrowserSession` composed with `RefreshTokens`, the grace window included.
