# Dokseo, specified

Dokseo is a reader that runs in the browser. Everything it keeps is on the
device: books in OPFS, the rows about them, their captures, tags and catalogs in
IndexedDB. When a user connects a server, the devices of an account keep these
records the same. This directory models the parts of it where several actors
work on the same state: the tabs of a browser, the devices of an account, the
user and the runs that go on meanwhile.

    tlc -workers 2 -config MCSync_tags.cfg MCSync.tla        # model-check a run
    tlapm BookFilesProofs.tla                                # check the proofs

Paths below are relative to the repository; `sync/` stands for
`src/lib/domains/sync/`.

## 1. Inventory

| Component | State it keeps | Operations | What is hard |
|---|---|---|---|
| **Sync core** (`sync/use-cases`, `sync/domain`) | outbox of markers, held versions, changes kept aside, cursor; in a run: the markers, versions and shelf it read | push in batches, settle, pull pages, reconcile, keep aside, release, download remote books | a run works on what it read before it awaited; three databases and a server, no transaction over two of them; a run may end anywhere |
| **Connection row** (`sync/use-cases/connect-sync.ts`, `disconnect-sync.ts`, `set-auto-download.ts`, `pull-changes.ts`, `sync-now.ts`) | one row: server, token, device, cursor, time, choice | connect, disconnect, choose, save cursor, save time | every writer reads the row, awaits and writes it back whole; only the runs hold a lock |
| **Scheduler** (`sync/ui/sync-scheduler.ts`, `sync-schedule.ts`, `platform/locks`, `platform/events`) | per tab: a pause, a gate; one lock over all tabs | announce, hear, request, try the lock, wait for it | a request that is refused must not be the last one |
| **Change tracking** (`shared/change-marker.ts`, `platform/idb/`) | a marker and a version beside each row | write with marker, settle, accept; open, upgrade, retire a database | row, marker and version in one transaction; a tab with an older schema |
| **Library** (`domains/library`) | book rows, removed rows, sources, covers, staged files | open a file, replace it, edit, remove, erase, reclaim strays | files and rows are in two stores; only adding, replacing and reclaiming take a lock; rows are read and written back in two transactions |
| **Recognizer** (`domains/recognition/adapters/engine`, `workers/ocr.worker.ts`, `device-fallback.ts`) | a worker, an opening that callers share, requests by number; in the worker a session on GPU or CPU | prepare, recognize, cancel; open, run, fall back | callers join an opening that is cancelled, replies of a worker that was dropped, a first GPU run that never ends |
| **Model downloads** (`workers/resumable-fetch.ts`, `platform/opfs/partial-store.ts`) | a partial file for each model file | load, pause, resume, discard | the partial file, the range asked for and the file on the server must agree |
| **Captures and tags** (`domains/recognition/adapters/capture`) | captures, tags | capture, edit, tag | synced records |
| **Catalog** (`domains/catalog`) | catalogs, origins of books, an unlocked password | add, browse, download, unlock, forget origins | origins that name a book which is gone |
| **Storage** (`domains/storage`) | none of its own | export, plan an import, apply it | the shelf changes between the plan and its application |
| **Reading places** (`shared/place-keeper.ts`, `viewing/ui/reader-view.svelte.ts`, `flowing/ui/flow-view.svelte.ts`, `book-preferences.svelte.ts`) | a place that waits, the one taken as stored, whether saving fails; the book shown, its settings | schedule, flush, persist; open, move, turn, choose, leave | saves overlap, answer late and for books no longer shown; a place and a setting are fields of one row |
| **Shell updates** (`src/service-worker.ts`, `platform/service-worker`, `shared/shell-updates.ts`) | a shell cache for each build, the workers of the registration; in each page the worker it offers, a toast, the registration | install, activate, delete other shells, load a page; watch, check, offer, apply, reload | several workers found while one is offered, other tabs that apply, an install beside a worker that takes over |
| **OPFS blobs** (`platform/opfs`) | files, a writer worker | put, replace, get, remove, list | a put that is cut off; an error of a stopped writer |
| **Rendering, pages, UI, docs** (`domains/viewing`, `domains/flowing`, `ui`, `routes`, `domains/docs`) | the page in view, pages being loaded | layout, rendering, input | geometry that unit tests reach |
| **Sync server** (external; `contracts/dokseo-sync/openapi.yaml`) | an ordered log, devices | append, page, create and revoke devices | known by its contract and by how the client uses it |

How they interact:

- A repository of the library, the recognition or the catalogs writes its row
  together with a *marker* in the outbox (`platform/idb/marking-writes.ts`), and
  the completed transaction announces a local change to all tabs
  (`platform/events/local-change.ts`).
- The scheduler of each tab hears of it, pauses and calls `syncNowIfFree`
  (`composition/sync.ts`), which tries the lock `dokseo-sync`; a page starting
  and a page shown again request a run as well. The settings and the shelf call
  `syncNow` and `downloadRemoteBook`, which wait for the lock.
- `syncNow` pushes the outbox, tries the changes kept aside, pulls pages,
  tries the changes kept aside again, downloads remote books and stores the
  time. It reads and writes the repositories through interfaces that accept a
  remote change with its version and without a marker.
- Opening a file lists the shelf and the removed books, and adds a book under the
  lock `book-files:<id>`; the add then reclaims files that no row names, in this
  tab or left by another.
- The readers own a place keeper each; it and the settings of a book save through
  `repository.update`, the same rows the library, the sync and an add write.
- A reader, a capture or the warm-up ask the recognizer of a language; it opens one
  worker, which loads the model through `fetchResumable` and answers by number.
- A page registers the service worker, looks for a newer one while it is open and offers
  it; the worker that waits takes over for all tabs at once when one of them is told to reload.
- A change of another device is decided by `decideMerge` against the marker or
  the version the device has (`sync/domain/merge.ts`, `local-change.ts`); one
  whose book is not on the shelf is kept aside until the book arrives.

What makes each correct:

- *Sync core*: devices end up the same; no edit is lost without being pushed or
  beaten; no change of the log is skipped; versions and contents agree; what is
  kept aside is let go only for something better.
- *Connection row*: the cursor never runs ahead of what was applied; a device
  catches up; a disconnected device stays so.
- *Scheduler*: no last wake-up is lost; one run at a time; who waits is served.
- *Library*: a row names files that exist and are its own; files without a row
  are reclaimed and no others; a book is on the shelf or removed; locks come free.
- *Recognizer*: one worker; every call is answered, once, with the text of its own
  image. *Model downloads*: a resumed file is the file, and what was downloaded is
  not downloaded again.
- *Reading places*: the last place is the one stored; the keeper and the reader
  believe what the row holds. *Shell updates*: every page is offered the newest worker; none
  reloads unasked; a worker that serves has its whole shell. *Import*: it changes what it planned to change.

`PROJECT.json` lists the hazards of each at the line where they bite, with the
properties that cover them; a hazard without one says why.

## 2. The modules

| Module | What it is |
|---|---|
| `Versions` | the precedence of versions and the merge decision: `isLaterVersion`, `precedence`, `decideMerge`, `localChange`, `reduceToWinners` as operators |
| `Registers` | what sync makes of the records: last-writer-wins registers, the abstract specification |
| `Sync` | devices, their users, their runs and the log of the server; extends `Versions` |
| `SyncProperties` | what `Sync` promises, `Registers` among it |
| `MCSync` | its instances for TLC |
| `SyncProofs` | theorems about `Sync`: types, stored versions and contents; convergence; it implements `Registers` |
| `SyncConnection`, `MCSyncConnection`, `SyncConnectionProofs` | the connection row |
| `SyncScheduler`, `MCSyncScheduler`, `SyncSchedulerProofs` | the scheduler, the lock and the announcements |
| `BookFiles`, `MCBookFiles`, `BookFilesProofs` | the rows and files of books, in any tabs |
| `Requests` | what a recognizer promises to who calls it: the abstract specification |
| `Recognizer`, `MCRecognizer`, `RecognizerProofs` | the page's and the worker's side of a recognizer, which implement `Requests` |
| `ResumableFetch`, `MCResumableFetch`, `ResumableFetchProofs` | a model file downloaded in parts |
| `ReadingPlaces`, `MCReadingPlaces`, `ReadingPlacesProofs` | the place keeper in its two readers, with the book's settings beside it |
| `ShellUpdates`, `MCShellUpdates`, `ShellUpdatesProofs` | the builds of the app, their workers and the pages that offer them |

The three parts meet at the sync run. `SyncScheduler` says when runs start and
that one goes on at a time; `Sync` takes that over as *one `run` for each device*
and models what the run does to the records; `SyncConnection` models what the
same run does to the row, with the records reduced to how far the log was
applied. They are not composed in one module: the product would not be checked
on any instance where something happens, and what one part takes from the other
is stated and checked there (`OneRun`).

### Sync

State. `data[d][r]` is the content of record `r` on device `d`: `Absent` or the
number of the write that made it, which is also the change id. `outbox`,
`versions` and `held` are sets of rows with at most one row for a record (the
stores have the key path `[kind, recordId]`). `log` is the server's.
`run[d]` is what a run has in memory: its stage (push, retry, pull, settled,
attached), its next step, and what it read: `markers`, `versions`, `shelf`.

Actions. Each is one *await* of the code: what happens between two awaits is one
step, what happens in one IndexedDB transaction is one step, and between two steps
anything else may happen.

| Action | Code |
|---|---|
| `Edit`, `Erase`, `AddBook`, `RemoveBook` | the repositories, through `writeRecords` with a marker |
| `StartSync`, `Load` | `pushChanges`: `readMarkers`, then `loadHoldings` and `planOutgoing` |
| `Send` | one batch (`batchesOf`), appended by the server but for the ids it has |
| `Settle` | `settleBatch`: the library's database, then the recognition's |
| `Fetch` | one page, reduced to its winners |
| `ReadStates`, `ListBooks` | `openRound`: markers and versions, then the shelf (and the held changes) |
| `Drop`, `Hold`, `Apply`, `Release` | `reconcileChange`: ignored or unreadable, kept aside, applied with its version and without its marker, the copy kept aside removed |
| `SaveCursor`, `EndRound` | the end of a page, of a round over the changes kept aside |
| `StartDownload`, `Download`, `DownloadsDone` | `downloadRemoteBook`, asked for by the user or by the run, and `attachDownloaded` |
| `Fail` | a run ends at any step: offline, refused, storage out of reach, the tab closed, an answer that was lost |

A lost answer is `Send` followed by `Fail`; the retry is the next run.

Abstractions. A timestamp is a number and only its order matters; a device
writes at most once a millisecond, and time moves on when somebody wrote now
(`Now`), so that writes of two devices in the same millisecond are explored. A
change id is the number of the write. `Skew` sets a device's clock ahead. A change
a device cannot read (made by a newer version of the app) is a write in
`Illegible`. A write of the user's is one transaction over the rows it touches; the reads
that precede it in the repositories are the subject of a module to come. The server
takes any batch or refuses it; a refusal is a failing run. `tag` stands for
catalogs as well. Sizes of batches in bytes, reports and texts are left out.

The abstract specification is `Registers`: on every device a register for each record, with
the rules `openapi.yaml` gives to clients and to the server (the later version wins, the loser
is dropped, a change is stored once). It has no runs, pages, batches or copies in memory; its
steps are a write, the storing of changes of one device, their settling, and the taking of one
later change of another device. `Replicas` is `INSTANCE Registers` with the log as a set, outbox and
versions as they are, and the content of the records that go with no other (`Separate`: tags, catalogs
and captures; a book and its place are written together). `KeepsRegisters` is `Replicas!Spec`. Changes kept aside,
markers and versions a round has read, `Fetch`, `Hold`, `Drop` and every failure are stutters.
A later marker that a round has not read may go (section 3), so `Learn` does not ask that the change beats the markers.

### SyncConnection

State. `row` is the connection row, a set of at most one record with the device,
the cursor and the choice; `applied[d]` is a history variable: how far the log
was applied in the name of `d`. `task[t]` is what the user does in tab `t` with
the row it read; `run` is the sync run with its copy of the row.

Every operation of the code that reads the row, awaits and writes it is two or
three actions here: `StartConnect`, `CreateDevice`, `StoreConnection`;
`StartDisconnect`, `Revoke`, `Clear`; `StartChoose`, `StoreChoice`; and in the
run `OpenPull`, `Pull`, `Apply`, `Save` and `ReadTime`, `Stamp`. `WithRow` is
the early return of each use case when there is no row.

### SyncScheduler

State. `mail`, `timer` and `gate` are the announcement on its way to a tab, the
pause of a tab and its `RunGate`; `phase[w]` is how far the scheduled run and
the run by hand of a tab are; records are counted: `made` were written, `pushed`
pushed. `excused` and `yielded` are history variables: how many had been made
when a run last gave up (offline, not connected, failed, tab closed) and when a
scheduled run last found the lock with the user's.

`RequestRun` and `Finish` are `requestRun` and `#drain`; `CheckUsable` is
`mayRunNow` and the check for a connection, `TryLock` is `tryHoldingLock`
(`ifAvailable`: refused when the lock is held *or waited for*), `Ask` and
`Granted` are `holdingLock`. The announcement goes through a `BroadcastChannel`
of its own, so the tab that wrote hears it too.

### BookFiles

State. `rows[b]` and `retired[b]` are the file that the shelf's row and the removed row
of a book name (`None`: no row); `source`, `cover`, `nextSource`, `nextCover` are the
four names in OPFS a book can have a file under, with `Torn` for one that was not
written to its end. `lock[b]` is `book-files:<b>`. `task[t]` is one operation in some tab
and where it is; for a reclaim also the shelf as it listed it and the strays left.

| Action | Code |
|---|---|
| `StartOpen`, `Identify`, `Refuse`, `Lock`, `PutSource`, `PutCover`, `Shelve` | `openFile` and `add`: `writeBlobs`, then the row with the removed row's deletion |
| `StartReplace`, `Lock`, `Stage`, `StageCover`, `Move`, `MoveCover`, `Shelve` | `replaceBookFile` and `replaceFile`: `swapBlobs`, then the row |
| `ListRows`, `ListFiles`, `TryStray`, `DropSource`, `DropCover`, `EndReclaim` | `reclaimStrayFiles` |
| `StartRemove`, `StartErase`, `RemoveSource`, `RemoveCover`, `Retire` | `remove`, `removeRemotely`, `erase` |
| `StartEdit`, `StoreEdit` | `update`, `editRemotely` |
| `FailAdding`, `FailReplacing`, `CutOff` | the catch blocks of `writeBlobs`, `writeBook`, `swapBlobs`; a tab that closes, or a step that fails with nothing to undo |

`touched` and `cutOff` are history variables. A book is *touched* when a removal
has taken a file of it (it takes no lock), when an edit wrote back a row
that had changed, and when a replacement, or an add under an id already on the shelf, failed
halfway; writing its source anew ends that. `cutOff` says of which books which
operation was cut off. The two are the exceptions of the invariants, and each comes from a
trace: without `touched` TLC shows a removal and an add of the same book side by side.
Identity is by content; a match by name or title may be any removed book (`Restorable`).

### Requests and Recognizer

`Requests` is what callers rely on: a call of `prepare` or `recognize` is answered
once, a read that succeeds with the text of its own image. `Recognizer` is the code:
callers share one *opening* (`starting`), a run of `begin()`; its worker has its number.
`pending` is the map from request numbers to callers, `requests` what the workers were sent and
have not answered, `session` and `proven` the worker's side of `device-fallback.ts`.
`Promise` is `INSTANCE Requests WITH` `kind` and `answer` as they are, and `KeepsPromise` is `Promise!Spec`.

`Forgets` is `finishOpening` with a failure and `forget`, in one step as in the code,
used by `Cancel`, `Discard` (an error of *any* worker) and `OpenFails`. What waits for a settled
promise (`Resume`) goes on before the next event of the page, as microtasks do.
`overtaken` is a history variable: the openings that were forgotten while they read the setup;
such an opening starts its worker all the same, beside the next one.

### ResumableFetch

A file is a sequence of blocks, each with the version of the file it is of.
`partial` is the file in OPFS, `handle` who has it open (one writer at a time: a
second open fails), `load[l]` one `fetchResumable` with what it asked, what it was
answered, and what it handed on. `Ask` lets the server answer the range, refuse it,
send the whole file, or answer another range. `Change` is another file under the
same address; `shared` and `changed` are history variables: two loads overlapped, or the file
changed while a part of it was held.

### ReadingPlaces

`row[b]` has the place and one setting of a book. `waiting`, `stored` and `failing`
are `#saving`, `#stored` and `#failing` of the keeper; `kind` is which reader owns it, which
decides whether answers of an earlier opening are heeded and whether a failed place is
forgotten. `updates` are the calls of `repository.update` under way, each with the copy of the row it
read: transactions on one store run in the order they are asked for, so that the reads
keep the order of the calls and the writes do, but a read of one may come between the read and the
write of another. `reached`, `said` and `behind` are history variables: the last place
the reader went to, what the last write of each field said, and why a row may lack the place
(`refused`, `cut` by a closing tab, `overtaken` by an opening that read the row before the
last save of the book was written).

### ShellUpdates

A build stands for its worker, its cache and its document. `installing`, `waiting` and
`active` are the registration as the browser keeps it, `cache[b]` what opening the shell cache of a
build finds (`part`: it is being filled; what is put in a cache that was deleted meanwhile is lost), `activating` the time
in which `retireStaleShells` runs. `page[t]` is the page in a tab with its `ShellUpdates`:
`offered` is `#waiting`, `toast` its offer, `follows` what checks by hand found, `news` the
`statechange` events on their way, `reload` a `controllerchange` that will reload it or a
reload that is due.

| Action | Code |
|---|---|
| `Find`, `WatchFirst`, `Installed`, `InstallFails`, `Activate`, `RetireStaleShells` | `service-worker.ts`, in the order the browser calls it |
| `Visit`, `Reload`, `Close` | `navigationResponse`: the server's document, or the shell's |
| `Watch`, `Hear` | `watchShellWorker`: what waits when the registration comes, what is found later |
| `CheckNow`, `CheckAnswered` | `checkNow`, `#request`, `#follow` |
| `Dismiss`, `Apply` | the toast, `applyShellUpdate` |

`robbed` and `late` are history variables and the exceptions of the properties: workers whose cache
another deleted before they took over, and tabs that could not heed a worker (no controller, a
registration that came after the worker took over, an event that did).
What a page loads after its document comes from the same cache or the network, and decides no update.

## 3. What the runs check

Passing runs:

| Run | Instance | Shows |
|---|---|---|
| `tags` | two devices, a tag, 2 writes, 1 failing run, pages of two, a write device 2 cannot read, fairness | `TypeOK`, `CursorAccounted`, `VersionsAreLogged`, `ContentMatchesVersion`, `SameWhenQuiet`, `KeepsRegisters`, `PendingEditKept`, `EventuallySame` |
| `shelf` | two devices, a book, its position and a capture, 2 writes, 1 failing run, batches and pages of two | `OrderedAccounted`, `SameRowsWhenQuiet` |
| `connection` | one tab, 2 devices created, 3 changes in pages of one, 1 failing run, fairness | `CursorApplied`, `CatchesUp` |
| `scheduler` | two tabs, runs by hand in one, 1 change, 1 outage, fairness | `Awake`, `OneRun`, `AskedStarts`, `Served` |
| `files` | two operations at once, two books, two files of which one has no cover, 4 operations, 1 failure or closed tab, fairness | `RowsHaveFiles`, `ShelvedOrRetired`, `StagedInUse`, `StraysKnown`, `Finishes` |
| `recognizer` | 3 calls, 2 openings, 1 cancel, 1 worker that dies, fairness | `PendingServed`, `OneWorker`, `HandedOut`, `KeepsPromise` (refinement), `Answered` |
| `fetch` | two loads, 4 starts, two versions of a file of up to two chunks, 2 failures, fairness | `PartialFits`, `BodyWhole`, `KeepsBytes`, `Ends` |
| `places` | two books, two places, 3 moves, 2 openings, 1 choice, 1 failure, 1 closed tab, 2 saves at once, both readers, fairness | `TypeOK`, `LastPlaceKept`, `KeeperBelievesRow`, `HeldIsStored`, `AllSettle` |
| `updates` | two tabs, 3 builds, 2 visits, 1 check by hand or failed install, fairness | `WaitingOffered`, `ShellWhole`, `ReloadsAsked`, `ApplyEnds`, `NewestOffered` |

`TypeOK` is an invariant of `tags` and `places`; that of the other modules is a theorem, for every instance (section 5).

Runs that show a disagreement between the code and what its documents, tests or
texts say; each checks one property and TLC finds it violated. The quotes are
in `PROJECT.json`.

| Run | Property | What happens |
|---|---|---|
| `stale_markers` | `NewerEditKept` | A round decides with the markers it read when it opened. An edit made after that is overwritten by an older change, and its marker deleted. |
| `download` | `HeldEditAttached` | A downloaded book is written with markers of its own, newer than the change of the book and the position kept aside for it. |
| `choice_lost` | `ChoiceKept` | A place and a page fit are saved at once; both read the row before either is written, and the place puts the old fit back. |

Behaviours met while modelling that no run is about; the exceptions of the passing properties name them:

- *An older tombstone, stored late* (`reconcile-change.ts:80`). A book's change is
  kept aside; an older tombstone of it, pushed later by a device that was offline,
  finds neither marker nor version, is applied, and the newer change is released with
  it. `OrderedAccounted` and `SameRowsWhenQuiet` are of records whose changes the server stores in the order they were made.
- *A shelf listed before* (`apply-change.ts:135`). A removal is applied against the
  shelf as the round listed it; a book added after that stays on this shelf alone.
  `SameRowsWhenQuiet` is of two devices that hold the book, and, for the book and its place, of removals by one of them: a book
  added again between the removals of it and of its place, both made by a third device, keeps its
  row and loses the marker of it, so that two quiet devices can show different places. The instance has two
  devices and cannot show it; the property used to claim more than the code does.
- *Clocks that disagree* (`connection.ts:267`). A device edits a record whose version came from a
  clock that is ahead: the edit loses everywhere but there. The runs have
  `Skew` 0, and so have the theorems that compare contents; types and stored versions are proved for any.
- *A disconnect under a run* (`pull-changes.ts:75`). A run writes back the row it
  read, after the user disconnected. `CursorApplied` and `CatchesUp` hold all the same.
- *A lock held by hand* (`sync-scheduler.ts:86`). A scheduled run that finds the lock
  with a run asked for by hand is given up; the change waits for the next start, return or change.
  `Awake` and `Served` count these (`yielded`).
- *A choice that sets the cursor back* (`set-auto-download.ts:19`). The pages come again and
  are ignored; `CatchesUp` shows that a device reads the whole log.
- *A cancel while the setup is read* (`worker-recognizer.ts:187`). The worker is started
  all the same; a second load leaves it running with its model, its caller may wait for good,
  and an error of it discards the worker that took its place. `OneWorker`, `PendingServed` and
  `Answered` except it (`overtaken`).
- *A file that changed between pause and resume* (`resumable-fetch.ts:226`), *two loads of one
  file* (`partial-store.ts:64`). Lengths are compared, not versions. `PartialFits` and `BodyWhole` except both.
- *Removing takes no lock* (`indexeddb-opfs-library.repo.ts:383`), *an edit writes back the
  row it read* (`:281`, `:458`). See `touched` above.
- *A shell deleted before it serves* (`service-worker.ts:63`). While build 2 takes over, build 3
  installs or has installed; the cache of 3 is deleted with the old ones. When 3 takes over, the
  app does not open offline: its files come back as pages ask for them, its document does not, although
  `OfflineConcepts.svelte:70` says that a half-filled cache never serves a page. `ShellWhole` excepts it (`robbed`).
- *A worker nobody is told of* (`shell-registration.ts:31`). A page that had no controller when a
  worker was installed, or that registers after it took over, is not offered it (`late`); a page whose first
  install failed keeps a registration that is gone, and no recheck finds anything until it is loaded again.
- *A reload in another tab* deletes the shell of the pages still on the build before; and a page
  the network answered may upgrade the databases before its worker serves, so that a
  later reload without network opens the older build, to which `openFailure` (`connection.ts:39`) says to reload.
  No property is about these two.

`PendingEditKept` excepts the write made after a round read the markers, which is
what `stale_markers` shows. Each exception is as narrow as the trace it comes from.

### Bounds, and why they are enough

- *Two devices.* A conflict is between two; a third matters for a change that is
  stored late, which the properties except (above).
- *Two writes.* A write, and one that conflicts or arrives while the first is
  decided. Liveness is out of reach with three; the safety properties of `tags` are
  theorems for any number. Adding or removing a book writes two rows at once.
- *One failing run*, at any step: the run after it starts from whatever was
  stored. Two failures in a row leave what one leaves.
- *Pages and batches of one or two*: with one, every page has an end between two
  changes; with two, a page has two records in order or a loser beside its winner.
- *Scheduler, one change*: the change may come before, during or after any step
  of any run. The proofs (section 5) cover any number of changes, outages and tabs.
- *Connection, one tab*: connecting anew while a run works for the device
  before is reached with one; the theorems hold for any number.

- *Files, two operations at once*, of four: every pair of add, replace, remove, erase, edit
  and reclaim overlaps on one book, after up to two that made the shelf what it is. The
  proofs cover any number.
- *Recognizer, 3 calls and 2 openings*: one that opens, one that joins, one that comes after
  a cancel; the second opening is the one that meets what the first left behind.
- *Fetch, two versions, files of one to two chunks of two blocks*: handed on at once, in one
  chunk, in two; each length meets a version of its own length and of another.
- *Places, 3 moves, 2 saves at once*: one saved, one under way, one that waits; the second opening
  comes back to the same book or to another.
- *Updates, 3 builds, 2 visits*: one that serves, one that waits and one that takes its place; two
  tabs that are open at once, or one that is loaded again. `Reload` is not counted.

The bounds are guards: `MaxWrites`, `MaxFaults` (`Sync`), `MaxLog`, `MaxFaults`,
`MaxDevices` (`SyncConnection`), `MaxChanges`, `MaxOutages` (`SyncScheduler`),
`MaxStarts`, `MaxFaults` (`BookFiles`, `ResumableFetch`), `MaxOpenings`, `MaxCancels`,
`MaxFaults` (`Recognizer`), `MaxMoves` to `MaxInFlight` (`ReadingPlaces`), `MaxBuild`, `MaxVisits`,
`MaxExtras` (`ShellUpdates`).
Deadlock is checked for the sync, whose models have a step that is always enabled (a
run can start, a page can be shown), so that it means little there. The other five models
really stop, when the operations, calls, moves or visits are used up; there `CHECK_DEADLOCK`
is off, and that nothing hangs is what `Finishes`, `Answered`, `Ends`, `AllSettle` and `ApplyEnds` are for.

Each property has a mutant, an operator beside the one it replaces (`Mutant:` in
the modules), that breaks it: a guard left out, a row put beside another, a
marker taken by its record instead of by its id, a page that starts one late, a
wake-up forgotten.

## 4. Fairness

- `Sync`: `SyncStep(d)` is weakly fair: a run that was started is carried on by
  the event loop, its requests end (or the run fails, and `MaxFaults` bounds
  how often). `StartSync(d)` is weakly fair: a run starts when a page starts or
  is shown and five seconds after a local change; there is no listener for coming
  online, so this says that *the user comes back now and then*. Nothing is
  assumed of what the user does.
- `SyncConnection`: the same of `RunStep` and `StartRun`. `CatchesUp` is stated
  for a device that in the end stays connected and is not revoked.
- `SyncScheduler`: a message arrives, a timer fires, a lock that is free is
  granted to who waits for it, a run goes on. No fairness of starts and returns: `Served`
  must come from the announcement alone.

- `BookFiles`: `GoOn(t)` is weakly fair (storage answers), `Lock(t)` strongly: the
  browser grants a lock in the order it was asked for, so who waits is not passed over for good.
- `Recognizer`: a caller resumes, the database answers, a worker opens or fails to, and what
  it was sent goes on, each weakly fair. *Not* a first run on the GPU (`FirstRan`): it may hang, and its
  deadline (`FallBack`) is what is fair.
- `ResumableFetch`: what was asked of the server or of the disk comes back, with an answer
  or a failure.
- `ReadingPlaces`: the timer fires; storage runs and answers its transactions.
- `ShellUpdates`: while a page is open a newer script is found (`recheck`, every half hour and when the
  page is shown); `Installed` is strongly fair, as an install that failed is tried at the next check, and one of
  them succeeds; workers get on, pages register, hear and reload, weakly. Nothing is assumed of users.

## 5. What is proved

All for every value of the constants: any devices, records, tabs, page and batch
sizes, clocks and bounds.

| Theorem | States |
|---|---|
| `SyncProofs!TypeCorrect` | `TypeOK`: with the key-path property of outbox, versions and held changes |
| `SyncProofs!VersionsLogged` | `VersionsAreLogged`: no version of a change the server does not have |
| `SyncProofs!ContentsMatch` | `ContentMatchesVersion`: a record without a marker has the content its version names |
| `SyncProofs!VersionsRising` | `VersionsOnlyRise`: a version gives way to a later one only (what `KeepsRegisters` asks of the versions) |
| `SyncProofs!PendingEditsKept` | `PendingEditKept`: a marker goes only for something stored, newer or later |
| `SyncProofs!PassedAccounted` | `CursorAccounted`: no change is skipped |
| `SyncProofs!SameContents` | `SameWhenQuiet`: any number of devices agree once quiet |
| `SyncProofs!PassedInOrder` | `OrderedAccounted`: of the shelf too, nothing passed is lost |
| `SyncProofs!SameRows` | `SameRowsWhenQuiet`: any two devices with a book on the shelf agree on its rows and captures once quiet |
| `SyncProofs!RegistersKept` | `KeepsRegisters`: `Sync` implements `Registers`, where the clocks agree |
| `SyncConnectionProofs!RowsTyped` | `TypeOK`: one row, cursors within the log |
| `SyncConnectionProofs!CursorsApplied` | `CursorApplied`: no cursor ahead of what was applied |
| `SyncSchedulerProofs!SchedulerTyped` | `TypeOK` |
| `SyncSchedulerProofs!NoWakeUpLost` | `Awake` |
| `SyncSchedulerProofs!OneRunAtATime` | `OneRun` |
| `BookFilesProofs!FilesTyped` | `TypeOK` |
| `BookFilesProofs!ShelvedBooksHaveFiles` | `RowsHaveFiles` |
| `BookFilesProofs!OneRowABook` | `ShelvedOrRetired` |
| `BookFilesProofs!StagedFilesOwned` | `StagedInUse` |
| `BookFilesProofs!NoStrayUnexplained` | `StraysKnown` |
| `RecognizerProofs!Typed` | `TypeOK` |
| `RecognizerProofs!PromiseKept` | `KeepsPromise`: `Recognizer` implements `Requests` |
| `RecognizerProofs!WorkersCounted` | `OneWorker` |
| `RecognizerProofs!OpeningsHandedOut` | `HandedOut` |
| `RecognizerProofs!RepliesWillCome` | `PendingServed` |
| `ResumableFetchProofs!Typed` | `TypeOK` |
| `ResumableFetchProofs!PartialIsBeginning` | `PartialFits` |
| `ResumableFetchProofs!BodiesWhole` | `BodyWhole` |
| `ResumableFetchProofs!BytesKept` | `KeepsBytes` |
| `ShellUpdatesProofs!UpdatesTyped` | `TypeOK` |
| `ShellUpdatesProofs!WaitingIsOffered` | `WaitingOffered` |
| `ShellUpdatesProofs!ShellsWhole` | `ShellWhole` |
| `ShellUpdatesProofs!NoReloadUnasked` | `ReloadsAsked` |
| `ReadingPlacesProofs!PlacesTyped` | `TypeOK` |
| `ReadingPlacesProofs!NoPlaceLost` | `LastPlaceKept` |
| `ReadingPlacesProofs!KeeperIsRight` | `KeeperBelievesRow` |
| `ReadingPlacesProofs!SettingIsHeld` | `HeldIsStored` |

Assumptions: `SyncAssumption`, `ConnectionAssumption`, `SchedulerAssumption`,
`BookFilesAssumption`, `RecognizerAssumption`, `ResumableFetchAssumption`, `ShellAssumption` and
`PlacesAssumption`, which type the constants, ask pages and batches to be at least one, that there is
a place and a setting, that whatever is no tag belongs to a book and a book to itself, and keep `None` and `Torn` apart from files, books, places and tasks. The properties of `Sync` that compare contents are of devices whose clocks agree, and say so.

The arguments.

- *VersionsLogged.* A version is put by `Settle` and by `Apply`, both from what
  the run has in memory. So the invariant says of the run that a batch to be
  settled is in the log, but for changes the server had under the same id
  (`InFlight`), that what a round is to reconcile is in the log, and that held
  changes are. The step that needs work is `Send`: the server leaves out a change
  whose id it has, and the version settled is that of the change *sent*. The two
  agree because a marker's time is fixed with its id (`StampsAgree`: of one record
  and id there is one time and device, in the outboxes, in the runs and in the
  log). `RunRows` and `StagesFit` say which fields of a run are filled at which step.
- *CursorsApplied.* `Save` writes a row that may be long out of date; what makes
  it safe is that a copy was safe when it was made and `applied` only grows. The invariant
  says `CursorApplied` of every copy of the row (`CopiesApplied`: in tasks
  and in the run) and of the page that was just applied (`PageApplied`). A device
  that is created anew is not in any copy, which follows from the type invariant
  (devices in copies are at most `created`).
- *NoWakeUpLost.* A request refused because another tab has the lock is safe
  only because that tab heard of the change as well: if its run has read the outbox
  before the change, the tab has the announcement, the pause or a request
  pending (`LateAlert`), and will go around again; otherwise it takes the change
  along. `GatesFit` ties the gates to the phases.
- *OneRunAtATime.* The two ways to the lock find it free.

- *The five of BookFiles* have one inductive invariant. Beside the properties it says which
  fields a task has at which stage (`StagesFit`); that a task past `Lock` and before its
  row holds the lock of its book, and nobody else does (`LocksFit`); that what
  a task has put or staged so far is what its file says (`FilesFit`); that a book on which a
  removal is past its first file is touched (`RemovalsTouch`). Two operations that hold the lock of a book
  exclude each other by `LocksFit`; those that take none leave `touched` behind. `StraysKnown`
  needs more than it says, as a lock released while files remain would break
  it: `StraysHeld` says which stages of a holder may leave files.

- *ContentsMatch, VersionsRising, PendingEditsKept* share the invariant `Holds`: what is in
  memory of a run carries the time of its write (`StampsTimed`); of a record and a time one change
  is stored (`LoggedOnce`); a marker is of the content there is (`MarkersCurrent`); and a version a
  round has read is as late as any it goes back to (`InTime`, `RunsFit`). `Beats` is shown to order changes
  strictly and totally (`BeatsOrder`, `LaterOrder`), and a version replaced by a change that beats it rises.
- *PassedAccounted, SameContents.* A change passed in the log is accounted for by the version,
  by a marker, or by being unreadable (`PassedKept`). A page is reduced to its winners before the cursor
  passes all of it, so each of its changes has to lose to one left (`PageKept`; that a record has a winner
  is a least-number argument, `WinnerFound`); and what the round read accounts for
  what was passed, so that applying over a marker it read loses nothing (`ReadKept`). What a
  device pushed itself is not in its pages as news: it is accounted for by what is being sent, then
  by the version settled (`OwnKept`). A quiet device then holds, of each record, a version as late as every
  change in the log; two of them hold equal versions, hence one id, one change and, by
  `ContentsMatch`, one content.
- *PassedInOrder.* The rows of the shelf go through more: a change that lands nowhere yet is kept aside
  with the markers it met (`Hold`), and is reconciled again in later rounds. A record whose changes the server
  stored in the order they were made (`InOrder`) is accounted for by what is kept aside as well (`Known`). What
  is left of a round is a change of its page or one kept aside (`RoundRows`), the markers it read stand or later
  ones do (`MarkersStand`), and what it has left to do loses to no change passed (`PageOrdered`,
  `ReadOrdered`), so that keeping one aside in place of another, or releasing a book with its place
  (`ReleaseOrdered`), takes nothing away. Without `InOrder` the last is false: an older tombstone stored late.
- *SameRows.* By *PassedInOrder* two quiet devices have, of such a record, versions that lose to no change of it,
  so the version of the one change none beats. What is left to show is that a row has the content its version
  names, which is not what `ContentsMatch` says: a row of the shelf goes with its book, and a removal can miss
  a book added during the round. The invariant (`RowsKept`) is of the rows that can be there: a book on the shelf
  has its rows (`Whole`: rows come and go together in a write, and a change lands on a row only while its book is
  there); a marker is of what is there, and so is every change made of it (`RowsCurrent`); a row without a
  marker has the content its version names, or the version is a removal by *another* device (`RowMatches`).
  That last clause is why a device never applies what it made itself (`Mine`): its own changes lose to
  what it has and to what its round has read. The removal excepted is then one by a third device.
- *RegistersKept.* The step simulation, action by action, from the invariants above. `Send` stores what `ChangeFor`
  made of a marker: once (`LoggedOnce`), and, if the marker is still there, with the content there is
  (`MarkersCurrent`, `RowsCurrent`). `Settle` puts versions of what it *sent*; the server may have kept another
  body under that id, but id, time and device are one stamp (`StampsAgree`). `Apply` decides on the markers and versions
  a round has read, and what it takes is later than the version there is *now* (`AppliedLater`) and never the device's
  own (`AppliedForeign`, by `Mine`).
- *PromiseKept.* A step of `Recognizer` answers no call (a stutter), or one that waits, with a reply
  to its own request: `Waiting` says which calls wait for what, that a number has one caller
  (`OnePending`), and that the reply to a number knows the caller's image (`RepliesKnow`).
  *WorkersCounted* counts: the workers that run and those still expected are one more than the openings
  consumed. *RepliesWillCome* follows a request from the page to a worker that runs (`Serves`); the
  steps that stop a worker also forget its requests.
- *PartialIsBeginning, BodiesWhole.* Each load that holds the file is on track: it asked for the range
  after what the partial file has, and what came so far is the file from there (`Resumes`). That
  two loads do not write one file is `HandleHeld` and `OneAtATime`, up to the exception `shared`.
- *WaitingIsOffered, ShellsWhole.* `WaitingOffered` is inductive beside the types: a worker begins to wait
  only in `Installed`, which puts its event on the way to every page that watches, and an event that
  offers another worker is one that came late. `ShellWhole` needs that the worker which installs has a cache
  or was robbed of it, and that no worker is of a build the server does not have (`Registered`): a cache is only
  opened for a build later than those that wait and serve. *NoReloadUnasked* is by action: control changes in
  `Activate` and `RetireStaleShells`, and only pages that wait for it reload (`TakenOverAsked`).
- *BytesKept.* While loads keep apart, what a load that goes on has handed on *is* the partial file from
  the moment it has read it, and while it asks for the rest it knows its length (`Follows`): it can only append.
- *NoPlaceLost, KeeperIsRight, SettingIsHeld.* One inductive invariant about the saves under way. Saves are read
  and written in the order they were made (`InOrder`), so the youngest decides; a value is *in hand*
  (`InHand`) when it is that of the youngest save to come, or none is to come and it was written last, or the row
  has it and so has every copy that may be put back over it. `Kept` says this of the last place, `Believed` of what the
  keeper takes as stored, each up to a refusal (`Lost`, `Told`); `Holding` of the setting, for which
  saves written and not yet answered count (`Due`). The keeper is told of a refusal as saves of the
  open book are of the present generation (`FreshCurrent`) and those of it are of the open book
  (`CurrentShown`). `LastPlaceKept` as first stated was *false*: an opening with nothing under way took
  `overtaken` back while the place an earlier, overtaken opening had lost was still missing. It takes three
  openings and three moves; the run has two openings, and the proof did not go through. The history is now right:
  a book opened with nothing under way is where its reader is (`Settled`, `reached`).

Model-checked only: liveness under fairness (`EventuallySame`, `CatchesUp`, `Served`, `AskedStarts`,
`Finishes`, `Answered`, `Ends`, `AllSettle`, `ApplyEnds`, `NewestOffered`), which is out of the prover's
reach. Every other property a passing run checks is a theorem.

## 6. What was left out, and why

- *Rejections.* The server rejects a batch with a change that is too large or too
  far ahead; `pushChanges` then ends the run. Here that is a failing run; that
  it fails every time is a hazard without a property yet.
- *A second server.* Connecting elsewhere starts another log at 0 while the
  settled markers are gone.
- *Reads before writes in the repositories* are one write in `Sync`; the two transactions
  are in `BookFiles` (`StartEdit`, `StoreEdit`) and `ReadingPlaces` (`Reads`, `Writes`).
- *Reads across databases.* The books, the captures and the catalogs have a database
  each, and `readMarkers`, `readLocalStates` and `loadHoldings` read them one after
  the other; here each of the three is one step. Nothing a round decides depends
  on two databases at once but the book of a capture, which is read in a step of
  its own.
- *Rows that cannot be read.* A stored row that fails validation also waits in the
  outbox (`planChange`); here every stored row can be read.
- *Tags of captures.* Removing a tag also takes it off the captures that have it; a
  capture's content here is the write that made it, tags aside. The origin of a
  book, written to the catalogs before the book's row, is left out too.
- *Time.* The pause of five seconds is a message that may come at any moment, so
  that someone who writes every few seconds postpones nothing here.
- *Opening a file*: archives, EPUBs, covers and page lists are data; merging the captures of a
  stray copy and importing removed books are not modelled. The worker that writes files in
  OPFS is a write that succeeds, fails or is cut off; its queue is not modelled.
- *Recognition*: the inference, the loading progress, the second engine's worker (the same
  protocol without the fall back), the removal of cached models.
- *Reading places*: regrouping pages schedules a place like a move and is not an action of
  its own; one setting stands for all; edits by the sync of the book being read are in `BookFiles`.
- *Shell updates*: what a page asks for after its document, and the texts of the checks by hand.
- *Import, catalogs, opening and upgrading databases*: section 8.
- *Rendering, pages, docs, formatting, wire format*: data without control. They are most of
  the repository's lines: the control of the program is in a few thousand of them.

## 7. Where things are in the code

`map` in `PROJECT.json` names the lines of every definition. The log and its
pages are from `contracts/dokseo-sync/openapi.yaml`, as the server is not in the
repository; the lock is `navigator.locks`, the channel `BroadcastChannel`, both
as `platform/locks/web-locks.ts` and `platform/events/local-change.ts` use them.

## 8. Plan

What is left, in this order; each module with its instance, a passing run,
mutants, and the theorems named. Modules are written to be proved about: constants
with named assumptions, one action per operation, no `RECURSIVE` operator.

1. **IdbConnection**: open, upgrade, retire and reopen over tabs, with pages of two builds
   (`ShellUpdates`) at once.
2. **CapturesImport**: a plan applied to a shelf that moved on.
3. **CatalogOrigins**: origins recorded before a row and forgotten when they dangle.
4. **PushBatches**: batches by size and count with rejected changes: what a
   poisoned change holds up.

Theorems next: with `Registers` as the middle, that its registers agree once all is taken (now proved of `Sync` directly);
which later markers a round may take away, as a condition of `Learn`.
