# NSLibrary in TLA+

NSLibrary is a self-hosted library server (`packages/server`) and a console app
(`switch/`). A person browses the library on the web and sends titles to a
console; the console claims the install jobs, streams the files and reports back.
This directory models the parts of it where programs, threads, the network, the
disk, power and the people at both ends interleave: the install queue end to end,
what an install does to the console's storage, the threads that carry the data,
save backups, the library's scanner and what is shown of the library, compression, and who is signed in. It holds TLA+ modules, TLC
configurations and proofs checked by TLAPS. `PROJECT.json` lists, for
machines, what this file explains: components, runs, the source lines of every
definition, the hazards and the theorems.

Run a configuration with `tlc -workers 2 -config X.cfg M`, a proof with
`tlapm M_proofs.tla`.

## Contents

1. [The system](#the-system): components, state, operations, interaction
2. [Modules](#modules): what models what
3. [Runs](#runs): what each one asks, its bounds, why they are enough
4. [Fairness](#fairness)
5. [Proofs](#proofs)
6. [Disagreements between documents and code](#disagreements-between-documents-and-code)
7. [Not modelled](#not-modelled)
8. [Plan](#plan)

## The system

```
  web UI ──HTTP──> api/*-routes ──> DeviceApiService ──> install_jobs, devices (SQLite)
                                          │  append
                                          v
  console ──HTTP──> device-routes ──> DeviceEventLog (memory)
  Session, InstallEngine   └── hello, events, jobs, claim, progress, complete, files
  console ──USB───> usb-host session ──> usb/handler ──> the same service
```

Node runs one handler at a time and the handlers of the job table never await, so
a job method is one atomic step. What interleaves is everything around it: HTTP
requests of several consoles and web pages, the timers, restarts of either side,
and the network. The console does its work on one UI thread; what interleaves
there is the server, between any two of its requests, and the *side tick* that
the running install calls back every two seconds.

| Component | State | Operations | Correct when |
| --- | --- | --- | --- |
| Event log (`device/events.ts`) | ids, newest 2000 entries, held polls | append, since, wait, abort | no console is moved past an event it was not told of; a held poll wakes |
| Install queue (`device/service.ts`) | `install_jobs`, `devices.revokedAt`, progress throttle | create, claim, progress, complete, cancel, resume, reorder, revoke, pair, sweep, purge | every job follows one life cycle; a finished job stays so; a revoked console is shut out; nothing stays "running" for ever |
| Device and web routes (`api/`) | requests in flight | authenticate, then handle | the check still holds when the handler runs |
| Session (`switch/source/app/session.cpp`) | cursor, current job, `pending_`, `unsentCompletes_`, cancel flag | start, poll, side tick, claim, pump, cancel, send and flush completions | holds a job once; does not lose an outcome; agrees with the server about what it holds |
| Install engine (`switch/source/install`) | placeholders, journal, contents, meta database, application record | install, roll back, clean up | a failure or crash leaves no half-installed title and no title without a record |
| Install pipeline (`install/pipeline.cpp`) | two bounded rings, three threads | push, pop, abort | ends on success, error and cancel; bytes in order |
| USB sessions (`usb-host`, `usb/handler.ts`, `transport/usb.cpp`) | streams, windows, liveness timer | request, answer, cancel, ping, unplug | a stream is answered once; an unplug interrupts the console's jobs |
| Save backups (`saves/service.ts`, `saves/console.cpp`) | rows, archives, retention | store, delete, prune; backup, restore | a row has its archive; an acknowledged backup exists; a restore can be undone |
| Compression, verification (`library/`) | tasks, worker pool, files on disk | start, cancel, finish, remove original | a cancelled task changes nothing afterwards; no file a job needs is removed |
| Scanner, repository (`library/`) | files and titles in SQLite, watch batches | scan, watch, parse, reconcile | the tables end up as the disk is |
| App update, atomic files (`update/`, `app/atomic_file.cpp`) | file, `.old`, `.tmp` | check, download, verify, replace, recover | a crash leaves the old or the new file; what replaces the app is signed and newer |
| titledb (`titledb/service.ts`) | two tables, sources, one import | configure, refresh, import | the tables are of one source; a failed import changes nothing |
| Web pages (`web/src/live.ts`), desktop program (`electron/src/main.ts`) | cached lists; port, window, tray | fetch, patch; start, show, quit | a page comes to show what the server has; the server is closed before the process ends |
| Space check (`device/space.ts`) | the space a console last reported | play its queue forward, add up what is short | an install goes where the plan said; freeing what is short is enough |
| Library queries (`library/queries.ts`, `device/catalog.ts`) | none: rows joined each time | games, flags, order, pages, the catalog | web and console mean the same file; the order of rows does not matter |
| Library, Compression pages (`web/src/pages`) | URL, box, cached lists, a form | search, filter, sort, Back; choose a folder, compress, clear | what is typed is kept; what is shown is what is asked for, or stored |
| Accounts (`auth/`, `auth-routes.ts`) | one account, sessions, wrong passwords | set up, sign in, change, reset, sign out, purge | who is signed in knows the password of now; a session that ended stays ended |
| Keys, discovery | small files | — | see [Not modelled](#not-modelled) |

**How they interact on a job.** The web creates a row and appends `job.queued`. The
console polls the log with its cursor, handles the events of the answer one by
one, and claims each job with a request of its own. A claimed job waits in
`pending_` or starts. During the install the side tick posts progress and polls.
At the end the console sends the outcome; if no answer comes it keeps it and sends
it again after a later poll. The server interrupts jobs nobody has reported for
five minutes, one minute at the console's next `hello`, and at once on a revoke
or a USB unplug. A cancel sets the row and appends `job.cancel`.

**Hard behaviours**: requests lost on the way in or answers on the way back; the
log trimmed under a slow console; the log gone after a restart while cursors
survive; a console gone while the server believes it holds jobs; the sweep racing
a slow but live console; completions for an attempt the server has since
interrupted, resumed or cancelled; a revoke between authentication and handler.
On the console's disk: a failure or a loss of power between any two of the calls
that make up an install, a move or the replacement of a file. In the data path: three
threads that wait for each other. On the server: handlers that await the disk, and
find on their return that a row, a file or a job is no longer what they looked at.
`PROJECT.json` lists each as a hazard at its line, with the properties that
cover it.

## Modules

| Module | Models | Extends |
| --- | --- | --- |
| `EventLog` | `DeviceEventLog` as a value: `Appended` (append and trim), `Since`, `MustResync` (the gap test), `NextCursor` | |
| `DeviceEvents` | consoles following the log: polls answered, held, timed out or lost; append waking held polls; restart | `EventLog` |
| `MCDeviceEvents` | instance for TLC: symmetry of the consoles | `DeviceEvents` |
| `JobTable` | one action per job method of `DeviceApiService`, the clock | `EventLog` |
| `JobLifecycle` | abstract: the stages of a job and which may follow which | |
| `DeviceApi` | the job methods behind their routes, timers, restart | `JobTable` |
| `MCDeviceApi` | instance for TLC | `DeviceApi` |
| `InstallSystem` | job table + log + `Session` of one console + a lossy network | `JobTable` |
| `PunctualConsole` | `InstallSystem` on the timing the sweep's comment assumes | `InstallSystem` |
| `AtomicFile` | replacing a file on the SD card, call by call, and its recovery, as operators on the contents under `dest`, `.part` and `.old` | |
| `HomeRecord` | abstract: what the HOME menu may see of a game's record | |
| `InstallEngine` | install, move, uninstall of a game's titles, the placeholder journal, rollback, start-up clean-up, self-replacement | `AtomicFile`, `HomeRecord` |
| `MCInstallEngine` | instance for TLC: symmetry | `InstallEngine` |
| `ByteRing` | the bounded ring of `pipeline.cpp` as a value: push, pop, abort | |
| `Pipeline` | reader, decoder and writer over two rings, resumed downloads, cancel | `ByteRing` |
| `SaveBackups` | `SaveService` split at its awaits, and the console's backup and restore | |
| `MCSaveBackups` | instance for TLC: symmetry | `SaveBackups` |
| `Library` | a folder, its rows, scans, inspections, watch batches, keys, restarts | |
| `Compression` | `CompressService` split at its awaits, against installs, scans and other programs | |
| `MCCompression` | instance for TLC: symmetry | `Compression` |
| `NczEncoder` | `encodeNcz` over `ZstdWorkerPool`: blocks read in order, compressed by several workers, written in order | |
| `FileAnswer` | a library file sent to a console: range, preconditions, headers and body, while the file changes | |
| `UsbLink` | one USB link: `exchangeLocked` and `pingLoop` of the console against `UsbLink.run`, with timeouts, cut-off bodies and new links | |
| `DeviceSessions` | which console a request is taken for: pairing codes, tokens, USB sessions, revocation, lost answers | |
| `CatalogSync` | a console's catalog following the library: revision, events, pages, refresh | |
| `VerifyQueue` | `VerifyService`: its queue, the run at hand, the status it stores, what pages are told | |
| `Titledb` | `TitledbService`: configure, refresh, the import and who waits for it, restarts | |
| `AppUpdate` | the console app updating itself: check, offer, download, verification, swap, next start | `AtomicFile` |
| `LivePage` | a web page keeping a list current from fetches, events and its own answers | |
| `UiThread` | what nests on the console's UI thread: requests, held requests, ticks, presses, jobs, screens, and the ping thread | |
| `SaveRestore` | the restore of a save: listing the archive, folders, files, the journal's commits, the report | |
| `Desktop` | the desktop program: start, ports, window, tray, quit | |
| `SpacePlan` | will it fit: the server's plan, the page's sum, the console's installs and a trial with more room, over one list of demands | |
| `Titles` | games, flags, order and pages of the library, what a send of them sends, the catalog, as functions of the rows | |
| `LibraryPage` | the library's page: box, debounce, URL, history, filters, order | |
| `CompressSetup` | where NSZ files go: settings, suggested folders, the form, the disk at every await | |
| `CompressPage` | the compressions: `#tasks`, its events, lists, answers, "Compress all", what the page shows, candidates | |
| `Accounts` | the account, its sessions, the limit on wrong passwords, the reset in a shell, what pages know | |
| `JobTable_proofs` | lemmas: the operations of the log, and what each job method does to the types and statuses of the table | `JobTable` |
| `DeviceApi_proofs` | theorems of `DeviceApi`, `SpacePlan` and `CompressSetup`, a section each | `JobTable_proofs` |
| `InstallSystem_proofs` | theorems of `InstallSystem` | `JobTable_proofs` |
| `InstallEngine_proofs` | theorems of `InstallEngine` and `CompressPage` | |
| `SaveBackups_proofs` | theorems of `SaveBackups`, `LibraryPage` and `Accounts` | |
| `Compression_proofs` | theorems of `Compression`, `NczEncoder`, `Library` and `Titles` | |
| `Links_proofs` | theorems of `UsbLink`, `FileAnswer`, `CatalogSync`, `DeviceSessions` and `Pipeline`, a section each | |
| `Services_proofs` | theorems of `VerifyQueue` to `Desktop` and of `DeviceEvents`, a section each | |

### Correspondence

*Event log.* A log is `[first, head, at]`: `head` is `#nextId - 1`, `at` the
retained entries. Ids are consecutive, so sets of ids stand for the lists of the
code. The `rev` of a catalog event and the copy of the job inside `job.queued` are
dropped: the console uses the job's id, and a fresh claim returns its data.

*Long polls.* The console app polls with `wait=0`; other clients of the API
(`packages/device-sim`) use long polls. `DeviceEvents` has both: `HoldPoll`
only where `wait` would hold. An answer that is lost leaves the cursor where it
was: for `PlainAnswer` and `ResyncAnswer` this is a step that changes nothing, for
an append that wakes a held poll it is the choice of `got`. `owed`, `missed` and
`skipped` are history variables; nothing reads them but the properties.

*Job rows.* A row is `[dev, status, position, age]`. Title, target, sizes and
messages are data no guard looks at. `age` is the time since `updatedAt` (or
`completedAt`), kept only for rows whose age some test compares, and saturates at
`MaxAge`. A method that throws changes nothing, so its guard is the conjunction of
the checks it passes. `createJobs` inserts in a transaction and then announces
every row; without awaits in between that is one step.

*Throttle.* `progress` drops a report less than a second after the last one if the
phase is the same. `recent` is the set of jobs in that second; `Progress` may drop
a report of one of them, and never of an interrupted job.

*Authentication.* `open` in `DeviceApi` is the set of consoles with a request
between the `onRequest` hook and its handler, where the request body is read.

*Session.* `up` is `ready_`, `cursor` is `eventCursor_`, `current` and `phase`
stand for `currentJob_`, `installing_` and the control point of `runInstall`,
`pending` is `pending_`, `unsent` is `unsentCompletes_`, `cancel` is `cancel_`.
`page` and `step` are the local state of `pollEventsOnce` and `sideChannelTick`:
the rest of the answer and what comes after it. `shown` is the part of `jobs_`
the Queue tab offers to start. The engine is a choice of outcomes (`InstallEnds`):
success, failure, or, when the flag is set, cancelled; `installed` remembers which
jobs really were installed. A request is one action with its effect on the server,
or a loss: `Spend("loss")` with either no effect or the effect without the answer. `PollAnswers`
is the answer to a poll as a set of one, and `DropWaiting` takes a job out of `pending_` at its
first place, as `std::find_if` does.

*Install engine.* One thread, one system call at a time: every call is an action,
which may fail (`Fails`, `PushFails`, `SourceMissing`, `SaveFails`), and `Crash` can
fall between any two. `content`, `metas`, `holders` and `listed` are what the
system keeps (registered NCAs, meta databases, placeholders, the application record);
`rb` is `Rollback` or `CopyRollback`, whose destructor is `UndoHolder`,
`UndoNca`, `UndoMeta`, `Undone`. `task` is the call stack: what is being done, to
which title, at which NCA. What goes into a placeholder is `Pipeline`'s business;
here it arrives or it does not. `promised`, `excuses` and `bare` are history.

*Pipeline.* A chunk is a number. `pc` is where each of the three threads stands
between two operations on a ring, each of which holds the ring's mutex. `Capture` and
`AbortPlain` are the two halves of an error path: the first error is kept and the
compressed ring aborted, then the plain one. `stream` is `streamResuming`'s
count of what was delivered, by this attempt and in all. A chunk counts as delivered
before the sink has taken it, as in the code.

*Save backups.* `rows` is `save_backups` for one save, `files` the archives. Each
`upload` is a `store` call, cut where it awaits the disk; `prune` is `#prune` of an
upload or of the settings route, cut in the same way; `removing` is `delete` between row
and file. `console` follows `backupConsoleSave` and `restoreConsoleSave`. An
upload with `given` set is one the console no longer waits for. `Doomed` are the backups
on lists of prunes that were drawn up before their first await; when the newest backup goes, the lists
that counted on it are `Outdated`, and what is on them is named in `deleted`. A rename the disk
refuses takes the row away again (`PlaceFails`), also when an upload of the same bytes has put
the archive there meanwhile: that, and a row that goes while its archive is being placed, is `stray`.

*Library.* A path holds a version (size and mtime) or nothing. `scan` is
`#runScan`, with what its walk has seen so far; `batch` and `flush` are
`#watchBatches` and `#flushWatchEvents`; `parsing` holds the inspections queued
or under way, each with the path, version and keys it got hold of. What chokidar
says, if anything, is `Notice`: it may merge events and may stay silent.

*Compression.* `nsp`, `nsz` and `partial` are the three files, each with the version it
is or was made from. `run.pc` names the next await of `#compress`; `removers` is
`#removeOriginalFile`, once inside the run and once for a request, which can run at the
same time. `Scanner` does to the file's row whatever `Library` lets a scan do.
`packed`, `kept`, `late` and `named` are history.

*NCZ encoder.* A block is its number and the id of its job (the code's ids go on from one
NCA to the next). A slot of `busy` with 0 is an idle worker or room to spawn one: `#spawn`
refuses at `size` workers, idle and busy together. `oldest` is the block
`flushOldest` took from `inFlight`, `sizes` the block table, which is entered before
the block is written. Hashing, decryption and the choice between raw and compressed
are data; what may fail of them is `ReadFails` or a failed answer.

*File answer.* `located` is what `locateLibraryFile` saw, and all that status, headers and
etag are made from; the file is opened an await later and read a chunk at a time.
`Replace` gives the name to another file, which an open one does not notice; `Rewrite`
writes to the open file and moves `ends`, where reading stops. An etag is a size and a time,
as in `etagFor`. One plain file: split files are read part by part in the same way. The range's
limit is one past the `end` of the code.

*USB link.* Nothing is buffered on the cable: a transfer ends when the other side has taken
it, so what console and host take part in is one step, and a side without a partner waits for
its timeout (`ConsoleFails`, `HostFails`). Bodies and answers are counted in pieces of 1 MiB,
the chunk of both programs. `Written` is the console's part of a step. What goes wrong in
the middle of a frame or body is remembered in `intact`, and `Swallow` and `Misread` are what
the host then makes of the bytes that follow. `Attach` is a new link: cable, app, or a server
started while the console is in the middle of an exchange.

*Device sessions.* A token is a number: its place in `owner`, which remembers for whom each was
made; `rows` has the one token a console is known by. `session` is `DeviceUsbHandler`
of a link with its `#device` and `#token`, and `Plugged` the console at the cable's other end.
`active` stands for the job table: whether a console has a job claimed over that carrier.
A console waits for one answer at a time; `gaveUp` remembers who ever stopped
waiting, and from then on a request of that console may be handled late, its answer arriving or not.

*Catalog.* The catalog is a function of applications, `rev` the setting `catalog_rev`.
`due` says that whoever raised it has not published yet (the scanner waits to do so). `news`
are the catalog events of the log after the console's cursor, `covered` whether there is
such a cursor. A refresh is cut where it awaits a page, and the library may change
in between; the restarts of a refresh are part of the last page of each attempt.

*Verification.* A task is a number (`made` counts them), `shown` the task `tasks` keeps for each
file, `queuedRuns` the queue. `at` is where `#verify` stands between two awaits, `against` the
content list it read at the start. `listed` is the list the repository has, which an
inspection may replace meanwhile. `earned`, `overtaken` and `late` are history.

*titledb.* `import` is the one `#refreshing` promise, with the sources it started from, where it
stands and what it read; `asks` are the callers of `refresh` that await it. `tdLatest` and `tdListed`
are the two tables, of which only versions are kept.

*App update.* `Signed` are the manifests whose signature holds, `shelf` what lies next to the server's
copy of the app, which may be exchanged at any time. An app is a value with a size and a version. The
swap is `AtomicFile`'s, call by call, so that the console may go off inside it.

*Live page.* A list is a function from its entries to values. `wire` holds the events on their way, in
order; `fetch`, `answer` and `reply` are on HTTP connections of their own, so they arrive before
or after any event.

*UI thread.* The call stack is at most two requests deep: `outer` is the link the task's request
holds, `inner` the one of a side tick or a chunk hook inside it, and `stuck` would be a third that
waits for either. `taken` and `due` are the job between `pump()` and its `delay(0)` run,
`cancelling` and `aborted` the two flags that carry a cancel. Time is absent: a tick comes
whenever the code lets one.

*Save restore.* An archive is a sequence of blocks: a header with good magic and checksum, zeros, or
anything else. What a file's data is does not matter, only which part of the archive it comes from
and how much of it there is (`from`, `filled`). `listedTo` is how far the listing has come. `live` is the mounted save, `disk` what its journal has
committed; a mount that is closed without a commit is `disk` again. `listSaveArchive` runs twice on the
same staged file; the model lists once.

*Desktop.* `boot` is where the async function `boot` stands. Electron holds one process per user:
`off` is no process, and a second launch is `OpenWindow` of the first. `page = "other"` is a window whose
address was `port` before the server listened on it. `CloseEnds` covers `server.close()` and the quit
that follows.

*Space plan.* `Demands` is the queue of a console followed by the batch asked about, each with bytes and
target. `placing`, `adding`, `running` and `trying` go through it: the loop of `planSpace`, the sum of the
page, the installs of the console one after the other (with what `preflight` finds missing), and the
same again with what is short freed. `SpaceMoves` is everything else that fills or frees a storage; it makes `surprised`.

*Titles.* SQLite promises no order of rows, so what takes the first of several has the order as a parameter
(`ord`). The rows of files, metas, applications and titledb are constants: nothing is kept between
two answers. Names are compared as the collator compares them (`Collated`), which takes some as equal.

*Library page.* The router changes the URL at once (`Url`) and React renders it later (`rendered`,
`pending`); the box (`draft`), the debounce (`timer`) and the handlers see the page as rendered. What a
URL holds is a value for each parameter, `Parse` what the API takes of it. `crossed` remembers that the URL
was changed again before a change was rendered. The order remembered by the browser is `stored`.

*Compression setup.* A request stands where its handler next awaits the disk: `making` and `checking` a folder,
`reading` the roots, `judging` the folder saved. `Real` is `realpath`. `form` is the state of
`FolderChooser` and of its mutation: `put` is the request it waits for, `failed` the folder of the refusal it shows.
Picking another folder and typing reset the mutation (`ResetPut`, `put.reset()`): the form may save again at once, while
the request it forgot goes on in `requests` and its answer is still taken. The folder dialog (`browsing`) is not modal: it may
end after anything else, and fills in a folder without that reset (`browsed`).
`tuning` is the request of the level and the switch. `overlapped` and `elsewhere` remember changes that
passed another request or came from another page.

*Compressions on the page.* `entries` is `#tasks` by file; a task's `stamp` is its place in it, for the list keeps
the order of insertion. `shown` and `place` are the page's list, newest first; `wire`, `lists`, `answers` and `batch` are on
their way to it, each on its own connection. `via` remembers what a file's entry came by.

*Accounts.* A request is `ask` with the account it `saw`, and waits while its password is hashed (`stage`): what it does after is
done to the account of then. Tokens, salts and hashes are abstracted to `Cookies` that are never given twice
and to passwords; `password` counts how often one was set, `proved` and `late` remember what each session's owner
knew. Failures are sets, told apart by `serial`. The clock never goes back, and no timer is
punctual. `status` is the sign-in state a tab's cache holds; a tab waits for one answer at a time. A renewed cookie that is sent
again is not modelled.

*Left out of `InstallSystem`*: the gap after authentication, `reorderJobs`,
purging and catalog events, which `DeviceApi` and `DeviceEvents` have; a second
console, whose jobs and events the server keeps apart by device id; the catalog
refresh inside `start`, whose failure is the failing `StartSession`.

## Runs

| Run | Asks | Result |
| --- | --- | --- |
| `DeviceEvents` | does following the log ever lose an event? | passes: only from a *blind* cursor |
| `DeviceEventsRestart` | does a restart force a resync, as the docs say? | violated |
| `DeviceApi` | do jobs follow `JobLifecycle`, is a revoked console shut out, does the log tell cancels, do jobs join last? | passes |
| `InstallSystem` | do server and console agree about a job under faults? | passes |
| `InstallSystemLive` | are jobs taken, freed and reported in the end? | passes |
| `InstallSystemCancel` | does a web cancel reach a running install, as the docs say? | violated |
| `PunctualConsole` | does the sweep spare a live console, as its comment says? | violated |
| `InstallEngine` | do record, databases, contents and journal agree whatever fails or crashes? | passes, with named exceptions |
| `Pipeline` | is the data written in order, the first error told, and does it always end? | passes, with one premise |
| `SaveBackups` | is a backup what its row says, and is what the console is told true? | passes, with named exceptions |
| `Library` | do the rows come to show the disk, and is what they say of a version true of it? | passes, with two exceptions |
| `Compression` | can the service delete the last copy, an original in use, or another's file? | passes, with three windows |

**`DeviceEvents`** (about 700 000 states). `OwedIsDeliverable`: whatever a console has
not been told of, its next poll returns or resyncs. `SkipsOnlyFromBlindCursor`: an
answer moves a cursor past an untold event only from a blind cursor.
`NoHeldPollMissesEvents`: a held poll never sleeps on an event. *Blind* names the
three cases the gap test cannot judge: a cursor of 0, a cursor of an earlier run,
and a device none of whose events is retained. Bounds: two consoles (one to follow,
one to fill the log), three retained entries of at most six appended (twice the
capacity, so that everything in the log at some time is trimmed later), one
restart. Consoles are interchangeable, hence symmetry.

**`DeviceApi`** (about 650 000 states). `FollowsLifecycle` is refinement: the job table
implements `JobLifecycle` under the mapping `StageOf`, where an id below
`nextId` without a row is `purged`. `RevokedIsShutOut`, `JoinsQueueLast` and
`LogTellsCancels` relate a step or a log entry to other rows and other entries.
Bounds: two consoles; two jobs; positions up to 3, so that positions go beyond
the number of jobs after a resume; two retained of at most three events, so that
a `job.queued` can be trimmed before its `job.cancel`; ages saturate at one tick:
each test has a side on which it fails and one on which it holds.

**`InstallSystem`** (about 2.8 million states). `HoldsEachJobOnce`: repeated events,
resyncs and resumes never make the console hold a job twice. `TakenJobsAreHeld`:
without losses and crashes, a job the server shows as claimed or running is held
by the console or its outcome is still to be sent, through cancels, revokes,
sweeps and server restarts. `DoneMeansInstalled`: history never shows an
install that did not take place. `OutcomesAreKept`: an install that took place
is not forgotten by losses and restarts. Bounds: two jobs (one to run, one to wait
behind it), at most one of each fault and of resumes and two of them together (two
faults are the least that shows a retry going wrong after a fault), two retained
of at most four events.

**`InstallSystemLive`** (about 140 000 states). `QueuedIsTaken`: a queued job is
taken or cancelled. The exceptions in it are real: a lost claim or a server
restart consumes the event, a resume while the console still holds the job is
ignored there, a revoked console takes nothing. A console crash is *not* an
exception: the next session finds the job. `NothingStaysTaken`: no job stays
claimed or running for ever, whatever fails. `OutcomesAreDelivered`: a completion
kept for later gets through. Bounds: one fault, two jobs, three events, no
restart or resume (both are exceptions of `QueuedIsTaken`); losses are bounded, so
a network that never recovers is excluded by the bound.

**`InstallEngine`** (about 760 000 states). `RecordedIsWhole`: what HOME lists can be
started, at every moment. `InstalledIsListed`: what was installed stays listed.
`UndoLeavesNothing`: whatever failed, storages hold exactly what their databases name
and no placeholder. `PlaceholdersAreKnown`: the journal names every placeholder a
crash leaves. `OneCopyRemains`: a file being replaced always has one copy left.
`RecordChangesWhole` is refinement: the engine implements `HomeRecord`, with the
record, between its deletion and the push, taken as what it was. `excuses`
collects the events each property has to except; [below](#disagreements-between-documents-and-code)
says which of them contradict the code's own comments. Bounds: a game and two
versions of its update (so that one update can replace another), two storages (so that
one can move), two NCAs (so that one can be missing), three placeholders, three
tasks (install, spoil, repair), two failures or crashes (the second strikes while the
first is being undone).

**`Pipeline`** (about 610 000 states). `WrittenInOrder` relates the placeholder to the
entry; `FirstErrorIsTold` the error reported to the order of failures;
`PipelineEnds` and `CancelEnds` are liveness. Bounds: rings of two slots (full and
wrapping), an entry of four chunks (twice a ring, so that three threads are all at work
and each ring wraps), two attempts, two troubles; NCZ streams of any length up to
more than the entry has.

**`SaveBackups`** (about 2.3 million states). `BackupsAreWhole` joins rows and archives;
`ReportedIsStored` joins what the console reports to what the server has;
`RestoreCanBeUndone` and `PinnedIsKept` are the promises of `docs/saves.md`.
Bounds: two uploads at a time and three ids (a pair that collide, and one that is
pruned meanwhile), keep 0 or 1, two edits on the web (pin and delete), one
trouble, two contents and a mixed one.

**`Library`** (about 620 000 states). `LibraryConverges` is liveness: `<>[]Agrees`
unless the scanner is paused again and again. `OkIsTold`: a row that says a version was
inspected well says what is in *that* version, although the inspection awaits and scans, moves and watch
batches give the row another path or version meanwhile. Bounds: two paths and two
versions (a rename, a swap, two files with one size and mtime), one key upload, two events of
any kind; one batch of watch events is handled at a time.

**`Compression`** (about 1.6 million states). All three action properties are about a
step that cannot be taken back (an unlink, a rename) and what others did behind
the check before it; each names the window left open. It does not check deadlock:
the service rests when no one asks anything and the bounds are used up. Bounds: two
versions, two ids of the row, two tasks, two foreign edits, one restart.

`NczEncoder`, `FileAnswer`, `UsbLink`, `DeviceSessions`, `CatalogSync`, `VerifyQueue`, `Titledb`,
`AppUpdate`, `LivePage`, `UiThread`, `SaveRestore`, `Desktop`, `SpacePlan`, `Titles`, `LibraryPage`,
`CompressSetup`, `CompressPage` and `Accounts` have no run in this
project: each is small, and its properties are theorems for every value of its constants. Their
variables, initial states and specifications have names of their own (`UsbInit`, `UsbNext`,
`UsbSpec`, `UsbTypeOK`), so that one module of proofs can extend several of them. Give `NczEncoder` `Slots = {a, b}`,
`Blocks = 5`, `Parallel = 3` and `NczTypeOK`, `InOrder`, `WorkIsShared`, `MemoryIsBounded` as
invariants to see them checked (about 1200 states; it stops when the NCA is written or
the encoder has failed); give `UsbLink` `Bodies = 0..3`, `Payloads = 0..2`, `MaxPayload = 2`, the
constraint `id <= 4` and `UsbTypeOK`, `AnswersAreOwn`, `NoStandoff` (about 9700 states). The same
holds of `VerifyQueue` to `Desktop`, whose properties stand at the end of each module:
`Desktop` with `PortAttempts = 2`, `MaxPort = 4` has 15 432 states, `UiThread` 7218. `CompressPage`, `CompressSetup`,
`LibraryPage` and `Accounts` are better simulated (`tlc -simulate`) than enumerated: their constants are sets, their
numbers unbounded. None of them checks
deadlock: people stop asking.

The three violation runs are described [below](#disagreements-between-documents-and-code).

All configurations but `Compression` check for deadlock. Every property of a passing run has a
mutant: a change to a definition of the model, such as a plausible slip in the
code would be, under which TLC finds the property violated (`PROJECT.json`,
"mutants"). The faulty variants stand before the definitions they vary and are
used by nothing else.

### Bounds, by name

| Constant | Bounds |
| --- | --- |
| `MaxEvents` | retained entries (the code's 2000; a parameter of the code, not a cut) |
| `MaxHead` | events appended in one run of the server |
| `MaxRestarts`, `MaxLosses`, `MaxCrashes`, `MaxRevokes`, `MaxResumes` | faults and resumes of each kind |
| `MaxSpent` | all of them together |
| `MaxJobs`, `MaxBatch`, `MaxPosition` | jobs ever created, per request, and positions |
| `MaxHolders`, `MaxTasks`, `MaxTrouble` | placeholder ids, things asked of the engine, failures and crashes |
| `Slots`, `Chunks`, `MaxAttempts` | ring size (8), pieces of an entry, attempts in a row (5): parameters of the code made small |
| `MaxTroubles` | failures in `Pipeline`; crashes, failures, losses in `SaveBackups` |
| `MaxIds`, `MaxEdits` | rows ever inserted; changes people make (`SaveBackups`, `Compression`; `Library` has no bound on rows) |
| `MaxKeys`, `MaxFiles` | key uploads; files in the folder at the start (`Library`) |
| `MaxEvents` of `Library` | changes, errors, restarts, pauses and purges together |
| `MaxTasks` of `Compression` | compressions asked for between restarts |
| `MaxAge` | where ages saturate; `StaleAge`, `NewSessionAge`, `HistoryAge` are the code's limits in ticks |

A bound is a guard: beyond it the action is simply not taken. `Announce`
carries the bound on the log's head, so with the log full a cancel is not taken
either; in the liveness run the goals do not depend on further events.

## Fairness

`FairSpec` assumes what the code keeps going by itself and nothing else:

- `SF(Poll)`: `scheduleEvents` schedules the next poll after every poll, also
  after a failing one, and the side tick runs as long as an install does. Other
  steps of the thread come between two polls, so `Poll` is enabled again and
  again rather than continuously.
- `WF` of handling the events of an answer: a loop over them.
- `WF(StartSession)`: the connect screen starts a session when the app runs. It
  needs a paired console.
- `WF(Flush)`, `WF(SendComplete)`: straight-line code after a poll and after the
  engine returns. `SF(InstallEnds)`: the engine's work goes on between two side
  ticks and ends.
- `WF(StaleSweep)`, `WF(Clock)`: `setInterval` on the server, and time.

`FairSpec` of `Pipeline`: `WF` of each thread, since the system schedules all
three; the reader's includes the network, which brings the next chunk or fails (the
transport has a timeout). No fairness of cancels, and none within a thread.

`FairSpec` of `Library`: `WF` of the periodic rescan (the timer of `server.ts`, which
`NSLIB_RESCAN_INTERVAL_MIN=0` turns off: then `LibraryConverges` does not hold) and of
each step of what the process has begun. None of `Notice`, because watching is best
effort, of failures, or of `Resume`.

No fairness is assumed of people, the network, progress reports, or the dismissal
of a result. `TickSpec` has only the polls and reports of an install that goes on.

## Proofs

| Theorem | Says, for every value of the constants |
| --- | --- |
| `DeviceApi_proofs!TypeCorrect` | `Spec => []TypeOK` |
| `DeviceApi_proofs!RevokedConsolesAreShutOut` | `Spec => RevokedIsShutOut` |
| `DeviceApi_proofs!NewJobsJoinLast` | `Spec => JoinsQueueLast` |
| `DeviceApi_proofs!ImplementsLifecycle` | `Spec => FollowsLifecycle` |
| `DeviceApi_proofs!CancelsAreTold` | `Spec => [](QueuedNamesOwner /\ LogTellsCancels)` |
| `DeviceApi_proofs!SpaceIsPlanned`, `SpaceIsTyped` | `SpaceSpec => []` of `SpaceInv`, `SpaceTypeOK` |
| `DeviceApi_proofs!NoSpaceIsTakenTwice` | `SpaceSpec => []NothingIsTakenTwice` |
| `DeviceApi_proofs!ThePlanComesTrue` | `SpaceSpec => []PlanComesTrue` |
| `DeviceApi_proofs!WhatIsShortIsEnough` | `SpaceSpec => []ShortIsEnough` |
| `DeviceApi_proofs!SetupInvariant`, `SetupIsTyped` | `SetupSpec => []` of `SetupInv`, `SetupTypeOK` |
| `DeviceApi_proofs!SavedFolderIsAlwaysReal` | `SetupSpec => []SavedFolderIsReal` |
| `DeviceApi_proofs!OnlyFineFoldersAreStored` | `SetupSpec => StoredWasFine` |
| `DeviceApi_proofs!SummariesAreOfTheReady` | `SetupSpec => []SummaryMeansReady` |
| `DeviceApi_proofs!OnlySuggestionsAreMade` | `SetupSpec => []OnlySuggestedAreMade` |
| `DeviceApi_proofs!TheFormIsTrue` | `[]` of `UntouchedFormKeepsTheFolder`, `PickedCanBeWritten`, `FirstIsProposed` |
| `DeviceApi_proofs!TheFormSpeaksOfTheMarked` | `SetupSpec => []FormSpeaksOfTheMarked` |
| `DeviceApi_proofs!QuietSetupIsRight` | `SetupSpec => []QuietPageIsRight` |
| `InstallSystem_proofs!SystemIsTyped` | `Spec => []TypeOK` |
| `InstallSystem_proofs!JobsAreHeldOnce` | `Spec => []HoldsEachJobOnce` |
| `InstallSystem_proofs!TakenJobsAreNotStranded` | `Spec => []TakenJobsAreHeld` |
| `InstallSystem_proofs!TheHistoryIsTrue` | `Spec => []DoneMeansInstalled` |
| `InstallSystem_proofs!OutcomesAreNotForgotten` | `Spec => []OutcomesAreKept` |
| `InstallEngine_proofs!EngineIsTyped` | `EngineSpec => []TypeOK` |
| `InstallEngine_proofs!HomeListsWholeTitles` | `EngineSpec => []RecordedIsWhole` |
| `InstallEngine_proofs!FinishedTitlesStayListed` | `EngineSpec => []InstalledIsListed` |
| `InstallEngine_proofs!FailuresLeaveNothing` | `EngineSpec => []UndoLeavesNothing` |
| `InstallEngine_proofs!JournalKnowsPlaceholders` | `EngineSpec => []PlaceholdersAreKnown` |
| `InstallEngine_proofs!ReplacingKeepsACopy` | `EngineSpec => []OneCopyRemains` |
| `InstallEngine_proofs!EngineImplementsHome` | `EngineSpec => RecordChangesWhole` |
| `InstallEngine_proofs!PageInvariant`, `CompressPageIsTyped` | `CpSpec => []` of `CpInv`, `CpTypeOK` |
| `InstallEngine_proofs!OneCompressionAtATime` | `CpSpec => []QueueIsInOrder` |
| `InstallEngine_proofs!TheListIsShort`, `TheOldestGoFirst` | `CpSpec => []FinishedAreFew`, `CpSpec => OldestGoFirst` |
| `InstallEngine_proofs!TheHeadlinesAreTrue` | `CpSpec => []HeadlinesAreTrue` |
| `InstallEngine_proofs!TheQueueIsShownAsItRuns` | `CpSpec => []QueueIsShownInOrder` |
| `InstallEngine_proofs!AllTurnsTheQueue` | `CpSpec => BatchTurnsTheQueue` |
| `InstallEngine_proofs!TheLastWordIsTrue` | `CpSpec => []LastEventIsTheEntry` |
| `InstallEngine_proofs!AnEndIsAnnouncedOnce` | `CpSpec => AnnouncedOnce` |
| `InstallEngine_proofs!AnNszOnlyTakesAway` | `CpSpec => NszOnlyTakesAway` |
| `SaveBackups_proofs!BackupsAreTyped` | `Spec => []TypeOK` |
| `SaveBackups_proofs!BackupsStayWhole` | `Spec => []BackupsAreWhole` |
| `SaveBackups_proofs!RestoresCanBeUndone` | `Spec => []RestoreCanBeUndone` |
| `SaveBackups_proofs!ReportsAreTrue` | `Spec => ReportedIsStored` |
| `SaveBackups_proofs!PinnedBackupsAreKept` | `Spec => PinnedIsKept` |
| `SaveBackups_proofs!TheBoxFollowsTheUrl` | `PageSpec => []` of `PageTypeOK`, `TheDebounceIsFresh`, `TheBoxIsInStep`, `TheOrderIsAsChosen` |
| `SaveBackups_proofs!TypingIsKept` | `PageSpec => NoEchoIsTyped` |
| `SaveBackups_proofs!BackFromASearch` | `PageSpec => BackIsWhereItBegan` |
| `SaveBackups_proofs!NothingIsFilteredInSilence` | `FilteringIsTold` of every URL |
| `SaveBackups_proofs!ChoicesAreShown`, `SizesAreShown`, `DevicesAreShown` | `ChosenIsShown`, `ChosenSizeIsShown`, `ChosenDeviceIsShown` of every URL and choice |
| `SaveBackups_proofs!EveryChoiceMatches` | `OptionsMatch` of any games, for each list of choices but the fixed sizes |
| `SaveBackups_proofs!AuthInvariant`, `AccountsAreTyped` | `AuthSpec => []` of `AuthInv`, `AuthTypeOK` |
| `SaveBackups_proofs!SessionsAreOfThisPassword` | `AuthSpec => []SessionsKnowThePassword` |
| `SaveBackups_proofs!EndedSessionsStayEnded` | `AuthSpec => TheDeadStayDead` |
| `SaveBackups_proofs!SessionsEndForReasons` | `AuthSpec => SessionsEndForAReason` |
| `SaveBackups_proofs!TheEntitledSetUp` | `AuthSpec => OnlyTheEntitledSetUp` |
| `SaveBackups_proofs!GuessesAreBounded` | `AuthSpec => []WrongGuessesAreFew` |
| `SaveBackups_proofs!StatusesKnowOfTheAccount` | `AuthSpec => []PagesKnowOfTheAccount` |
| `Compression_proofs!TypesAreKept` | `Spec => []TypeOK` |
| `Compression_proofs!TheLastCopySurvives` | `Spec => LastCopySurvives` |
| `Compression_proofs!InstallsKeepTheirOriginal` | `Spec => InstallKeepsOriginal` |
| `Compression_proofs!NoFileIsOverwritten` | `Spec => NeverOverAFile` |
| `Compression_proofs!LibraryIsTyped` | `LibrarySpec => []LibraryTypeOK` |
| `Compression_proofs!InspectedRowsAreTrue` | `LibrarySpec => []OkIsTold` |
| `Compression_proofs!BothInstallTheSame` | `SameInstall` of every game and any two orders of rows |
| `Compression_proofs!FlagsDoNotDependOnTheOrder` | `FlagsAreStable` of the same |
| `Compression_proofs!TheListHasOneOrder` | `ListIsOrdered`, `UnknownIsLast` for any keys |
| `Compression_proofs!FlagsFollowTheReport` | `DuplicatesAreFlagged` |
| `Compression_proofs!SearchFindsWhatIsShown` | `ShownIsFound` |
| `Compression_proofs!PagesAreInOneOrder` | `ContentsAreOrdered` |
| `Compression_proofs!WholeGamesAreNewest` | `SendsTheNewest` |
| `Compression_proofs!BlocksAreStoredInOrder` | `NczSpec => []InOrder` |
| `Compression_proofs!NoBlockIsForgotten` | `NczSpec => []WorkIsShared` |
| `Compression_proofs!MemoryStaysBounded` | `NczSpec => []MemoryIsBounded` |
| `Links_proofs!PipelineIsTyped` | `Spec => []TypeOK` of `Pipeline` |
| `Links_proofs!BytesArriveInOrder` | `Spec => []WrittenInOrder` |
| `Links_proofs!TheFirstErrorIsTold` | `Spec => []FirstErrorIsTold` |
| `Links_proofs!RangesAreParsed` | `ParseRange` yields exactly the bytes `Wanted` |
| `Links_proofs!AnswersPromiseWhatWasAsked` | `AnswerSpec => []PromisesWhatWasAsked` |
| `Links_proofs!BodiesFitTheirHeaders` | `AnswerSpec => []BodyFitsHeaders` |
| `Links_proofs!BothSidesStayInStep` | `UsbSpec => []UsbInv` |
| `Links_proofs!AnswersBelongToTheirRequests` | `UsbSpec => []AnswersAreOwn` |
| `Links_proofs!NobodyWaitsForTheOther` | `UsbSpec => []NoStandoff` |
| `Links_proofs!NobodyIsMistaken` | `SessionsSpec => []NobodyIsTakenForAnother` |
| `Links_proofs!AnsweredConsolesStayIn` | `SessionsSpec => []OnlyALostAnswerShutsOut` |
| `Links_proofs!RevokeEndsUsbJobs` | `SessionsSpec => []RevokedHasNoUsbJob` |
| `Links_proofs!LinksEndTheirOwnJobs` | `SessionsSpec => [][EndsOnlyItsOwn]_sessionVars` |
| `Links_proofs!NoChangeIsMissedByAConsole` | `SyncSpec => []NoChangeIsMissed` |
| `Links_proofs!ARememberedRevisionIsCovered` | `SyncSpec => []RevisionIsCovered` |
| `Links_proofs!PagesOfOneRevisionAreOneMoment` | `SyncSpec => [][UnmixedIsOneMoment]_syncVars` |
| `Links_proofs!NoRefreshIsCut` | `SyncSpec => []NothingIsCut` |
| `Services_proofs!EventTypesAreKept` | `Spec => []TypeOK` of `DeviceEvents` |
| `Services_proofs!HeldPollsMissNothing` | `Spec => []NoHeldPollMissesEvents` |
| `Services_proofs!OwedEventsAreDelivered` | `Spec => []OwedIsDeliverable` |
| `Services_proofs!CursorsSkipOnlyBlindly` | `Spec => SkipsOnlyFromBlindCursor` |
| `Services_proofs!VerificationsAreHeld` | `[]` of `EveryTaskIsHeld`, `FewAreKept`, `StatusIsEarned`, `PagesAreTold` |
| `Services_proofs!VerifyOutcomesStand` | `VerifySpec => [][OutcomesStand]_verifyVars` |
| `Services_proofs!TitledbIsOneImport` | `[]` of `LatestIsListed`, `TablesAreOfSources`, `ChangesAreTold`, `ImportsHaveCallers` |
| `Services_proofs!FailedRefreshesKeepTables` | `TitledbSpec => [][FailuresKeepTables]_tdVars` |
| `Services_proofs!AnAppIsThere` | `[]` of `AnAppSurvives`, `NoTornApp` |
| `Services_proofs!UpdatesAreNewer` | `UpdateSpec => [][SwapsAreNewer]_upVars` |
| `Services_proofs!PagesAreCorrected` | `[]` of `WrongIsCorrected`, `QuietPageIsRight` |
| `Services_proofs!UiThreadIsSafe` | `[]` of `NeverWaitsForItself`, `LinksInUseStay`, `CancelsReachTheirJob`, `CancelsStayWithTheirJob`, `CancelledSavesStop`, `CrashesAreResets` |
| `Services_proofs!RestoresAreWhole` | `[]` of `ListingIsSound`, `NothingClashes`, `JournalHolds`, `ReportsAreTrue`, `OldIsKept`, `DoneIsWhole` |
| `Services_proofs!DesktopIsOrderly` | `[]` of `PortIsKept`, `PortMovesPastBusyOnes`, `ExitsAreClean`, `WindowIsOurs`, `MenuIsComing` |

The assumptions are those of the modules: `AllDevices` is no device,
`MaxEvents` is positive, the bounds are natural numbers, and the age limits lie
within 0..`MaxAge` in the order the code's constants have; for the install engine, a title has at
least its meta NCA, a base is no patch, and no file is none of the contents a file can have. TLC
evaluates them in every run of the module. Nothing is assumed of how many consoles, jobs, events, titles, chunks or uploads there
are. The modules without a run state theirs as hypotheses of the theorems, named below.

Every property a passing run checks is stated by one of these theorems but for those of liveness.

*The log.* `AppendedOK` shows that appending any batch keeps
`LogOK`: consecutive ids, exactly the newest `MaxEvents` retained. Everything
about the log rests on it.

*Types.* `TypeOK` is inductive as it stands; one lemma per group of methods. The
only delicate part is the function a method builds over a changed set of ids.

*Action properties and refinement.* `StepKinds` says that under `TypeOK` every
step is one of: an insert, a resume, a cancel, a purge, or a *quiet* step
that creates no job, sends no job event and moves each job between given
statuses. The properties are proved of these five kinds rather than of every
route: `JoinsQueueLast` is about the first two, the refinement compares
each kind with `Successors`. `RevokedIsShutOut` is proved route by route, since
what matters there is which console a step belongs to.

*Cancels.* `LogTellsCancels` is not inductive. A `job.queued` retained for a job
whose row belongs to another console, or for an id still to be handed out, would
be followed by a cancel for someone else. `QueuedNamesOwner` excludes both: ids
are never reused (AUTOINCREMENT) and rows never change hands. `TableOK`,
`QueuedNamesOwner` and `LogTellsCancels` together are inductive. Trimming is
harmless because it takes the older entries first: the `job.cancel` is newer than
its `job.queued`.

*Following the log.* `DeviceEvents` relates three things kept in three places: the log, the cursors and
the history of what a console is owed. Neither `OwedIsDeliverable` nor
`NoHeldPollMissesEvents` is inductive. `EventInv` adds that a held poll came with a cursor of this log and
nothing after it (`HeldPolls`), that a cursor this run handed out is not ahead of the log
(`CursorsAreReached`), and that what is owed is of this run, visible while retained, and after the cursor
unless that is of an earlier run (`OwedIsAhead`). An answer moves a cursor to its last event, which is
where `NextCursorIsLast` and the fact that a bounded set of numbers has a greatest one come in.
`CursorsSkipOnlyBlindly` then goes answer by answer: a cursor that is not blind and behind the oldest retained
event is told to resync, so what it is moved past it has been given.

*Console and server.* Each property of `InstallSystem` speaks of both sides, and a step of either can break
it. `SystemInv` keeps them apart: `SystemPhases` says which states of the session's members go together (nothing waits
while nothing is installed, a page is open only between a poll and its end, a console that is down
holds nothing); `TakenInv`, that without losses and crashes what the server shows as taken is *live*,
held and its outcome not told; `DoneInv`, that an outcome on its way as "installed" is true; `KeptInv`, that
what was installed is not queued again unless someone resumed it, and that its outcome is still to be
sent while the server would take it. The proof then knows two kinds of steps only. In one the server's
table moves and the console's jobs stay (`TableStepKeeps`): what counts is to which status each
method may take a job, from `JobTable_proofs`. In the other the console moves and the server is at
most told an outcome (`ConsoleStepKeeps`): what counts is whether a job stops being live without its
outcome being told or owed. That a job is held once rests on `PumpTakes` and `DropTakesOne`, what the two
ways of leaving a queue without repetition leave behind.

*Install engine.* The properties are about moments between two system calls, so the invariant has to know
what each call relies on. `EngineInv` has a part for each thing that is kept:
`TaskInv` and `RollbackInv`, what the thread's place says of its task and of what it would take back;
`RecordInv`, that the record lists a copy once, that it is empty while it is being pushed, and when a copy
that is taken away may not be on it;
`WholeInv`, that the NCAs of everything listed are there, that what the rollback would take is *not* listed,
and that an install has registered all it passed; `SettledInv`, that content and database of each
storage agree about each title but for the one at hand; `HolderInv`, that placeholders are journaled before they
exist and gone before the journal forgets them; `SavingInv` and `FileInv`, where the copies
of a file stand between the calls that replace it. Every part names the excuses of the property it is for, so that
one accident does not weaken the others. Which version is which id (`SameId`) is an equivalence, and
that is all the proof needs of titles. `EngineImplementsHome` maps every step to `HomeRecord` or
to a stutter.

*Pipeline.* `WrittenInOrder` says what is written, and nothing of what is on the way. `PipelineInv` says where
every chunk is: what was downloaded and not decoded is in the first ring in order (`Holds`), what was decoded and
not written is in the second or in the decoder's hands, and the end mark is last in each. The lemmas about
`ByteRing` (`HoldsPopped`, `HoldsAborted` and their kin) are all that is known of a ring. `ErrorInv` is why
the first error is told: the first ring is aborted with the error that was kept, the second with the same or not
yet, and then by the one thread that is between the two aborts.

*Save backups.* `BackupsInv` has two halves. `DiskInv` is the server's: ids are used once and nothing
anywhere is ahead of the last (`IdsAreUsedOnce`), an upload that has decided knows the bytes of its row
(`UploadsKnowTheirRow`), what is about to be removed belongs to no row, a prune that has not begun holds nothing. With them the two
properties of disk and rows are inductive. `ConsoleInv` is about what the console counts on:
the newest row is on nobody's list unless the list was outdated (`NewestIsSpared`), the console's own upload is the only one
that is awaited, and from its answer on the backup is the newest, or the history says who removed it or stored another
(`CountedOn`). A prune drops a row only beyond the newest `keep`, which is where cardinalities come in: the newest
of its origin has none before it. Three exceptions were asked for by failed attempts at these proofs, in states
the bounds of the run do not reach: a list outdated by a prune or by a failed rename (`Outdated`), an archive
that is in place when the rename of its upload fails (`stray`), and an archive that is still being put back when a restore
begins to write (`Placing`).

*Compression.* The action properties need to know what is true between a check and
the step that relies on it, so the invariant is `IInv`: `TypeOK`; `RunInv` (the task of
the run is running or cancelled, and the partial file is what the run read);
`KeptInv` (an NSZ nobody touched is at its name with the version it was packed from,
and none is while another is about to be put there); `RemoversInv` (what a removal
looked at is still so, or `late` says what changed since). `WhoChanges` states for
each variable which actions change it; every preservation lemma has one step per action
that matters and disposes of the rest with it. `DeletionOK` then says what holds when
an original is deleted, and each property follows from `IInv` and the one action it
is about. The assumptions are those of `CompressionAssumption`: the special values
differ from versions, and the bounds are natural numbers.

*Library.* `OkIsTold` speaks of a row; what can break it is an inspection that ends after its row has
become that of something else. `LibraryInv` therefore says what an inspection under way holds (`InspectionInv`):
what it has read of the file belongs to the version it took from the row when it began, and its id is one
that was given out (ids are never used twice, so a row with that id is the same row, moved perhaps).
`Reconciled`, the walk's result in one transaction, has a lemma of its own: moves are pairs of a row and a path with
the same version, new rows get ids in the walk's order, and no two the same (`RanksDiffer`, from the cardinality of
what comes before).

*NCZ encoder.* None of the three properties is inductive. `NczInv` says where every block
is: the queue and those in flight each hold the *last* blocks read, in order
(`LastRead`), jobs with a worker are older than those queued, and what is stored,
awaited and in flight adds up to what was read. `DispatchOK` is the heart: `#dispatch`
runs after every job queued and every slot freed, so one pass is enough to leave no job
waiting beside a free slot. The theorems assume `NczSized`: `Parallel` is positive, as
`Math.max(1, ...)` makes it, and `Blocks` a natural number; of the workers nothing.

*File answer.* `RangesAreParsed` compares the parser with what a header means, case by
case. `AnswerInv` adds that the promised range lies within the file found, and that an opened file
which ends before that was noticed by the history `shrunk`; so a body that ends early
has its reason in the file. The hypothesis `AnswerSized`: sizes are natural numbers, a chunk is
not empty, and `Missing` is no file.

*USB link.* Neither property is inductive: both speak of moments, and what makes them hold is
that the two programs count the same body and the same answer. `UsbInv` says so (`Synced`):
the host has a body left exactly while the console uploads, with the same number of pieces,
and what a console waits for belongs to `id`. A timeout keeps `Synced` unless it cuts off a
body or a frame, and then `intact` is false. Hypothesis `UsbSized`: sizes and limit are natural
numbers.

*Device sessions.* `SessionsInv` has two parts beside the types. `Owned` says that every token anybody has was made for the console that has
it, `Current` that a console which never gave up has the last one made for it, or is about to.
Making a token is one lemma (`IssueOK`) for pairing and both kinds of hello. Hypothesis
`Wired`: a link leads to a console, and the network (`OverNetwork`) is no link.

*Catalog.* The heart is what the pages read so far say (`Reading` in `SyncInv`): each
agrees with the library unless that application changed after the first page's revision. So
a refresh that ends either has no mixed pages, or remembers the oldest revision, which the
events of what it missed all exceed. Hypothesis `SyncSized`: applications are positive numbers, pages are not
empty, and the library no larger than a refresh reads.

*The services.* Each section of `Services_proofs` has an inductive invariant of its own and a
hypothesis named after the module (`VerifySized`, `TitledbSized`, `UpdateSized`, `PageSized`,
`UiSized`, `DeskSized`, `RestoreSized`) that says what kind of value each constant is and nothing of
how many there are. The typing lemmas split flags from other values, because each prover does one of
the two well.
`VerifyInv` adds where the run stands and that the queue holds exactly queued or cancelled
tasks (`VerifyLinks`). That the tables are of one source (`Titledb`) rests on the one promise
every caller shares. `AnAppSurvives` follows `AtomicFile` call by call. `PageInv` follows the *last*
event of each entry on the wire, which is why `LastEventIsTrue` is part of it. `UiThreadIsSafe` needs
the relation between task, locks and the two cancel flags in every nesting.
`RestoreInv` has two halves: `ListedSoFar` and `Nested` say what the listing lets through, and
`Written` that the mounted save is at every step exactly what the entries so far need. The first is
what makes the second hold: a folder is never where an earlier entry put a file, nor a file where a
folder is (`FoldersAreNew`, `FilesAreNew`), whatever order the entries have.

*Space plan.* `PlanInv` says that each demand was placed in what the ones before it had left, so that what a
storage has left is what was reported less what was taken (`LeftAfter`). `ConsoleInv` is about the
console while nothing surprised it, `TrialInv` about the trial: in the batch there is always room for
what is still to come, which is the sum the page drew (`SumInv`). Hypothesis `SpaceSized`: sizes are natural
numbers, a report names both storages or, at most, no card.

*Titles.* There is no behaviour here, only answers, so each theorem is about operators. Files are ranked one way
whatever the order of rows, because no two metas of one file have one title (an index of the
schema, `MetasFit`): hence web and catalog pick the same file. `TheListHasOneOrder` is a case analysis on unknown
values, which go last both ways. What does depend on the order stands in the premise of `FlagsAreStable` and in the
list [below](#disagreements-between-documents-and-code). Hypothesis `TitlesSized`.

*Library page.* `PageInv` relates four copies of the search: the URL's, the rendered one's, the one written last and the box
(`EchoInv`, `BoxInv`, `SortInv`, `RestInv`). The properties of filters are about reading and
writing a URL; that a choice survives both rests on what the API takes of it (`Parse`), which the theorems have as
a premise. Hypothesis `PageSized` of `LibraryPage`.

*Compression setup.* `WaitsInv` joins the page's form and buttons to the request each waits for, so that none waits for one
that is gone; `FoldersInv` says what the options said of the folder that is picked; `AnswersInv` that a path is real before it is stored
and in every answer made of it; `QuietInv` that what the page was last told differs from what is stored only while
an answer, or the history, accounts for it. `SpeechInv` ties "Saving…" and an error to the folder the user marked. That folder
(`Meant`) stands in the form alone, whatever the page is told; every step that changes it by hand resets the mutation, and
`WaitsInv` keeps the slot of the request the form waits for from being taken by another, so that a forgotten save that is
refused late says nothing under the folder marked since. Without the reset in `Pick` or in `Type` it fails, and a folder from the dialog
is the exception (`Marked`). Hypothesis `SetupSized`: `realpath` of a real path is itself, and each
root has its own "NSZ".

*Compressions on the page.* `RunInv` ties the queue's run to the one entry that runs. `WireInv` numbers the events, `EndInv` says that
after the end of a task nothing of it or of an earlier one of its file is sent, and `OrderInv` that the
page's places follow the stamps of the starts it heard of. `OldestGoFirst` counts: a list that was short and gained
one ended task drops at most the oldest. Hypothesis `PageSized` of `CompressPage`.

*Accounts.* `AuthInv` has five parts beside the types. `RowsHaveAnOwner`: a session has a cookie that was given out, and its
owner knew a password. `SessionsKnowThePassword` is inductive with it, since a change and a reset delete rows and set the hash in one
transaction. `SetupsAreEntitled`: the checks of a setup are skipped while there is an account, and its insert comes after a
wait; so a setup that waits is entitled *or* there is an account, which no step takes away. `AnswersKnowOfTheAccount` says the
same of what is on its way to a page. `FewGuesses` counts failures within the window together with guesses
still being compared. Hypothesis `AccountsSized`: finitely many tabs; the limits are natural numbers, those that count positive.

*Only model-checked:* liveness (`QueuedIsTaken`, `NothingStaysTaken`, `OutcomesAreDelivered`,
`PipelineEnds`, `CancelEnds`, `LibraryConverges`), since fairness and `ENABLED` are out of the prover's
reach. What `LibraryConverges` says is thus shown on the instance only; what it rests on while it converges,
that no row tells of a version what is not so, is `InspectedRowsAreTrue`.

## Disagreements between documents and code

1. **A restart does not always force a resync** (`DeviceEventsRestart`).
   `docs/device-api.md:26` promises a resync for a cursor the log no longer
   covers, "e.g. after a server restart". `pollEvents` (`service.ts:889`)
   recognises it only while the cursor is ahead of the new log's head. If the new
   log has grown to the old cursor before the console polls again, the console
   goes on as if nothing happened and misses what it was owed.
2. **A web cancel does not reach a running HTTP install** (`InstallSystemCancel`).
   `docs/switch.md:73` says it does. The side tick posts progress first; for a
   cancelled job that is refused, and the exception skips the poll that would
   have delivered `job.cancel`. Before the first progress callback, and on the
   result screen, the tick has no progress to post and the cancel is read.
3. **The sweep interrupts jobs of a live console** (`PunctualConsole`). The comment
   on `STALE_JOB_MS` says only a console that crashed, was switched off or lost
   the network is caught. A job claimed behind a long install reports nothing
   while it waits and is interrupted after five minutes; its first progress report
   revives it.

Others are not runs of their own: they are the exceptions the properties of the
passing runs have to make, each written down where the property makes it.

4. `reorderJobs` refuses lists that do not "include every queued job", but a list
   that names one job twice and leaves another out has the right length and passes
   (`service.ts:832`). `ReorderJobs` models what it does.
5. **A failed reinstall takes out the entry the title had** (`"reinstall"`). The
   rollback of `InstallEngine::install` removes the meta entry without asking whether it
   was there before (`engine.cpp:632`), where `moveTitle` does ask: "An entry the
   destination already had is not ours to take back out" (`manage.cpp:406`).
6. **A game can be left without a record** (`"recordLost"`). A crash between
   `deleteRecord` and `pushRecords` (`app_record.cpp:139-144`), or both the push and the
   push of the old records failing, leaves none: "so a game is never left
   without one" (`app_record.cpp:117`).
7. **Removing a left-over version of an update unlists the one in use**
   (`"otherVersion"`). `removeMetaRecord` and `moveMetaRecord` go by id and storage only,
   and all versions of an update have one id (`record_merge.cpp:15-27`).
8. **Padding after an NCZ can hang an install** (`TailFits`). `decodeNcz` returns at the
   end of the stream and does not drain its ring; if what follows is larger than
   the ring, the reader waits in `push` for ever, until the person cancels.
9. **A prune can delete a pinned backup** (`Doomed`). `#prune` draws up its list, then
   awaits between removals; a backup pinned meanwhile goes too, where `docs/saves.md:44`
   says "Pinned backups are always kept". If the newest is deleted by hand at that
   moment, the last backup can go.
10. **An upload the console gave up counts when it lands** (`overtaken`): its older bytes
    become the newest backup.
11. **Orphans** (`stray`, `lost`). A prune or a delete while an upload puts its archive
    in place leaves an archive without a row; a crash between the insert and the rename
    leaves a row without an archive.
12. **New keys can be ignored** (`passed`). The comment at `scanner.ts:169` says every
    present file is inspected again; an inspection under way with the old keys takes the
    mark back, and a file missing at that moment is never marked.
13. **A compression can be cancelled too late** (`Cancel`). After the last abort check the
    run renames its output and may delete the original, while the task says
    cancelled.
14. **Three windows around files** in `Compression`: the output's name taken between
    `exists` and `rename` ("never over an existing file", `docs/architecture.md:80`); an
    install queued between the check for jobs and `rm`; and `removeOriginal`, which
    compares the NSP and never looks whether the NSZ is still there.
15. **A cut-off upload shifts the answers on USB** (`intact` in `AnswersAreOwn`). "A failure
    here can only drop the link" (`usb.cpp:236`), but the exception leaves the link as it
    is: the host takes the next request for the rest of the body, and the console the
    answer to the old request for that to the new one, since it does not compare ids.
    `docs/usb-protocol.md:35` promises a Response "carrying the same request id".
16. `docs/usb-protocol.md:38` describes Cancel frames and a final Response with status
    499; `session.ts:120` ignores such a frame, and no console sends one.
17. A link that ends with an error rejects the promise of `run`, and nothing handles it
    (`host.ts:55`); in `UsbLink` only the link ends.

18. **A catalog refresh that fails is not tried again** (`dropped` in `WillBeRead`). `onEvent`
    logs the failure of a refresh an event asked for (`session.cpp:543`); the cursor has moved on,
    and the console shows the old catalog until something else changes or it reconnects. A
    failure at the end of an install leaves `catalogStale_`, which the end of the next one reads.
19. **A changed preference is not announced** (`silent`). `PUT /settings` switches between NSP and
    NSZ of every title, but raises no revision and publishes nothing (`keys-routes.ts:70`).
20. **A lost answer shuts a console out** (`OnlyALostAnswerShutsOut`). A new token replaces
    the old one before the console has it; if the answer to `pair` or the USB `hello` is lost, the
    console keeps a token that is for nobody, until its next start forgets it.
21. **A link's end interrupts every job of its console** (`Detach`), those it claimed over the network included.
22. **A cancelled verification can speak after the next one of its file was asked for** (`late`).
    The run publishes its progress once more before it looks at the signal; until the new run's next
    event, pages show the old one. A result that is stored after an inspection during the run is kept
    with the file's new content list (`overtaken`).
23. **A titledb refresh joins the import under way** (`setAnew`), also one that began with other
    sources: a person who changes the source and refreshes at once gets the old source's tables. A server that
    ends between the import and its caller's `bump` leaves the catalog revision as it was (`died`).
24. **An app can be replaced by an older one** if it is updated twice without a restart:
    the comparison is with the app that runs, not with the file in place. A cancel after
    the last piece of the server's copy is ignored, and after a swap that failed twice over
    (`stranded`) the next update clears the only copy left.
25. **A change can be overwritten by an older list** (`stale`). "otherwise the next fetch has it
    anyway" (`live.ts:125`) is not so when the fetch under way was already answered. What
    changes between the first fetch and the first opening of the socket is missed too.
26. **A taken job can meet a reset or a stranger's cancel** (`rewired`, `strayed`). Between `pump()`,
    which takes it, and its `delay(0)` run, a poll refused as unpaired drops the client that
    `runInstall` then uses (`session.cpp:826`), and a press of B on another screen leaves the
    data transport aborted, so the job ends as cancelled: "a cancel can never leak into the next job"
    (`session.cpp:604`).
27. **A second quit does not wait for the server** (`twice`). "Close the server (watchers, USB,
    database) before the process exits, however quit was chosen" (`main.ts:317`), but `will-quit` lets a
    quit through that comes while the server is being closed, or before it is assigned. A window
    opened while the server starts shows an address nothing listens on, and the start
    then only brings it to the front (`hurried`). A saved port near 65535 gets fewer attempts than
    `PORT_ATTEMPTS`.
28. **A console switched off in the middle of a restore says nothing afterwards.** The warning that a save
    is incomplete (`saves/console.cpp:513`) is in the report of a failure; after a loss of power between two
    commits (`ConsoleOff` with `version = "new"`) only the backup made before the restore tells.

29. **What a game is called and whether it has an update can depend on the order of rows**
    (`FlagsAreStable`). With base files of different versions and no update, the row that happens to come first decides,
    although `queries.ts:176` sorts the formats because "the row order out of SQLite is not stable" and an answer must not
    change between two requests.
    The same duplicate whose rows belong to two games is reported, and flags neither (`DuplicatesAreFlagged`).
30. **Web and catalog count contents differently.** The catalog takes an unknown version for 0, the page for a content of its
    own; and sending "all DLC" of a game sends every version of each, where the catalog offers the newest.
31. **The search box can be out of step with the URL** (`crossed`). "kept in step with `?q=`" (`LibraryPage.tsx:47`) holds unless
    the URL is changed again in the moment between the debounce and its render; what is typed between "Clear
    filters" and its render is lost. "the panel only offers choices that match something" (`LibraryFilters.tsx:81`) is not so of the sizes, which are fixed.
32. **"Compress all" shows the queue turned round** (`BatchTurnsTheQueue`). The comment "newest first; the queue
    runs oldest first" (`CompressionPage.tsx:350`) holds for events, but `reduceRight(upsertCompressTask)` (`api/compress.ts:85`) puts the first
    of the answer in front, until the next list.
33. **A task can be shown as an earlier one of its file** (`shadowed`, `AnnouncedOnce`). A cancelled run publishes once more, and a removal that ends
    after the file was started again publishes its old entry: the newly queued task is overwritten. An
    answer that lands after the end's event leaves the file "waiting".
    A cancel during the last rename makes an NSZ, although the page says that nothing was saved.
34. **The second step of the setup is never ticked.** It is done when `problem` is null (`CompressionPage.tsx:570`), and
    the steps are shown only while it is not (`CompressionPage.tsx:232`). Clearing and settings are not
    told to other pages (`elsewhere`). A file packed into a folder outside the library stays a candidate, and packing it again fails.
    "Browse…" fills in a folder without resetting the mutation (`CompressionPage.tsx:174`), so "Saving…" or the error of the
    folder before stands under the new one. Marking another folder during a save allows a second one at once: the two overlap, and the folder
    stored last need not be the one whose answer the page shows last (`overlapped`).
35. **A password change leaves out a sign-in under way** (`late`). "signs out every other session" (`auth-service.ts:60`): one that compared the old
    password before and inserts its session after is not signed out. Two changes under way, or a reset and a
    change, both compare the old password, and the one to end last stays.
36. **Guesses that wait together pass the limit together** (`WrongGuessesAreFew`): it is looked at before the wait. The map of failures
    is pruned only of what is older than the window, so within one it may grow past `PRUNE_AT_KEYS` (`auth-service.ts:149`).
37. **A page can ask for what is done already.** A setup page overtaken by another gets 409 and "Sign in instead", and keeps its form until
    it is loaded again; a status fetched before a sign-in and landing after it shows the sign-in page to who is signed in.

## Not modelled

Parsers and encoders of container formats (but for the control of `encodeNcz`),
cryptography, hashing and ticket handling: pure data, better served by tests. UI
layout, translations and the pages of the web front end but those of the library and of compression: views and clients of
the API. mDNS, discovery, TLS: I/O with one actor. Icons and app updates of the device API change no state. `updateState` replaces the snapshot of what is installed and meets
nothing else. The throttle of the web's `job.updated` events delays what a page
shows, never what is stored.

Within the modelled parts: `InstallSystem` has one server, so `setUrl`
(`session.cpp:97`), which keeps jobs across a change of server, is not in it.
`Compression` packs in one step, whose inside is `NczEncoder`; `VerifyQueue`, which
only reads files, is apart from it. `SaveRestore` does not pack the save it backs up first, and takes
an archive that is not whole blocks as one that fails. `Titledb` keeps of a row its version only.
`Titles` has neither text search inside names nor paging. `CompressPage` and `CompressSetup` are one page each. `Accounts`
has the limiter of passwords, not those of other routes. `LivePage` has one list, `UiThread` one console and no server. `NczEncoder` neither rereads what was written nor patches the block
table into the file, which the caller does after the last block. `UsbLink` has neither the
routes of `usb/handler.ts` nor the resumed ranges of `UsbTransport::stream`. `Library` has one root, which is neither added nor
removed, and files rather than directories or split files. `SaveBackups` has one
save. `InstallEngine` has no tickets, delta fragments or free-space checks: a
check that refuses is a step that fails.

## Plan

Done: the install queue (`EventLog` to `PunctualConsole`), the install engine with atomic files, the pipeline,
save backups and compression, all with their proofs, the library, and, proved without a run, the NCZ encoder
with its worker pool, the answers that carry files, the USB link, the sessions of consoles,
their catalog, the verification queue, titledb, app updates, live pages, the console's UI thread, the restore
of a save, the desktop program, the space check, what the library is shown as, its page, the two halves of the compression page
and the account.

To come:

1. Streams of files over `UsbLink`; the console switching between servers (`setUrl`) with jobs
   in memory.
2. Packing a save into an archive, and that a restore of it gives the save back; discovery.
3. Library roots that are added and removed while a scan of them runs.

Proofs to come: the rest of the safety that `LibraryConverges` rests on, that every path whose
row is not as the disk is has a scan, a watch event or an inspection still to come.
