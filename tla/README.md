# UltraV: TLA+ models, checks and proofs

UltraV is a web UI and a Go API server for one KVM host. The server keeps jobs, users, schedules,
a backup library and an ISO library itself, and everything else in libvirt, which it drives
through one shared connection; the web app polls it and sends what the user asks for. This
directory models the stateful parts of both, checks them with TLC on small instances and proves
every invariant, and every action property, that a run checks with TLAPS for every instance.

* [Inventory](#inventory)
* [Modules, and how they correspond to the code](#modules-and-how-they-correspond-to-the-code)
* [Runs](#runs)
* [Bounds](#bounds)
* [Fairness](#fairness)
* [What is proved](#what-is-proved)
* [Disagreements between the code and its documents](#disagreements-between-the-code-and-its-documents)
* [Weaknesses the models reach without a run](#weaknesses-the-models-reach-without-a-run)
* [Not modelled](#not-modelled)
* [Plan](#plan)

## Inventory

Paths are below `src/backend/` unless they say otherwise.

| Component | State | Operations | Hard behaviour | What makes it correct |
|---|---|---|---|---|
| Job system, `internal/tasks` | task records, map and ordered history under one mutex; a goroutine and a context per task | Start, run, SetProgress, Cancel, List, Get | a cancel between any two critical sections of a worker; trimming a slice while ranging over it | a task ends exactly once, as cancelled exactly when that was accepted; slice and map agree; unfinished tasks stay findable; every task ends |
| Backup library, `internal/backup` | a directory per point with images and `metadata.json` | Create, Complete, Abort, List, Get, Delete | crash inside a write or a removal | a point is listed only when whole; its chain is listed too; a deleted point never returns |
| libvirt backups, `internal/hypervisor/libvirt/backup.go` | the domain's checkpoints and bitmaps, its one backup job, its disk files | backup (online, offline), delete, restore | no mutual exclusion; polls a job that may be another call's; restore replaces disks one by one | the next incremental has a usable anchor; a restore that finishes has replaced every disk; every call returns |
| Retention, `internal/scheduler` (`prune`) | none of its own | list, pick, delete one by one | works from a stale list | never takes an ancestor from a point it keeps |
| Backup scheduler, `internal/scheduler` | schedules in memory and in a JSON file; `runMu` | Create, Update, Delete, tick, run, mark | read, modify and replace in two critical sections; a tick works on a copy; save failures; restarts | deleted schedules stay deleted; an occurrence is backed up once; what is due is served |
| libvirt machines, `vms.go`, `update.go` | domains and volumes in libvirt | create, delete, start, stop, reboot, update | a request is a dozen libvirt calls that others interleave with; undo on failure | a defined machine has its disk; volumes are not leaked |
| libvirt networks, `pools_networks.go` | networks in libvirt | create, start, stop, update, delete; subnet arithmetic | look-up before define; undo; borrow across octets | the address and the DHCP range fit the subnet; failed creations leave nothing; updates keep what they do not name |
| libvirt pools, `pools_networks.go` | pools in libvirt | create with undo, delete, list | as for networks | failed creations leave nothing |
| ISO library and settings, `internal/iso`, `internal/settings` | the directory's name under a lock, images, temporary files, the saved directory | upload, delete, list, switch | an upload outlives a switch; check then rename; crash | the library in use is the one a restart opens; no temporary files remain; no silent replacement |
| Authentication and users, `internal/auth`, `internal/api/*users*`, `*auth*` | SQLite table, bearer tokens | log in, create, delete, reset, change, bootstrap | statements of several requests interleave; ids outlive their rows | an administrator remains; a request acts on the account it was for |
| HTTP API, `internal/api` | none | decode, call one component, encode | handlers run concurrently | answers match what happened |
| Mock provider, `internal/hypervisor/mock` | machines, pools, networks, backup flag in memory | all of the provider interface | shutdown timers outlive what they were set for | a shutdown ends; a grace period is kept |
| Domain XML, `domainxml.go` | none | render, parse | device names | the disk and the CD drives get distinct targets |
| Host, metrics, errors, console | a sample cache; a stream per console | readings; a tunnel of two pumps | pumps end each other | a closed side closes the other |
| Start-up, `cmd/ultrav`, `internal/config` | environment | wire components | restart in any state | components find what they saved |
| Generated types | none | | | |
| Web app: session, `lib/auth.tsx`, `api/client.ts`, `App.tsx` | the token in the local storage that all tabs share; per tab the shown user and the requests under way | load, sign in, sign out, validate at boot, the handler of every 401 | another tab changes the token under a request; answers of an older session land in a newer one | requests are made for the user that is shown; an ended session is noticed |
| Web app: polling, `lib/hooks.ts` | what the page shows, polls under way | usePolling | polls overlap, land in any order and under another selection | the page settles at the newest answer |
| Web app: list pages, `pages/*.tsx` | rows as last polled, menu, confirmation, busy slot | choose, confirm, cancel, upload, release | what is chosen from may be old; one slot for many calls | one call per row; what is offered is accepted unless it is old |
| Web app: machine page, `pages/VMDetails.tsx`, `components/LiveCharts.tsx` | address, polled machine, settings form, metric history | power, delete, settings, metrics | the history of the browser goes from one machine to another without leaving the page | a save undoes nothing unseen; charts show one machine |
| Web app: console panel, `components/ConsolePanel.tsx` | preflight, connection, retry timers | connect, drop, retry | effects, timers and events of connections that were replaced | one live connection; it comes back |
| Web app: forms, `components/*Modal.tsx`, `CreateVMWizard.tsx`, `ScheduleModal.tsx` | fields, step, target, submission | open, edit, move, submit, close | fields survive closing; lists arrive late; a failed poll unmounts the form | submits only what was checked, for the item it names |
| Web app: rest | notices, routes | | | |
| Deployment, `src/deploy` | none | | | |

How they interact. A handler of the HTTP API verifies a token against the users, then calls one
component. Operations of machines that take long (backup, restore, create) are handed to the
job system, whose worker goroutine runs the provider call with the task's context; the client
polls the task. The scheduler's loop calls the provider's backup directly and then the retention pass,
so its calls meet the ones of tasks only in libvirt and in the backup library. Creating a pool
may switch the ISO library and save that in the settings. Nothing locks a
machine, a network, a pool or a backup chain: `withConn` (`internal/hypervisor/libvirt/`) hands
every caller the same connection, and the component modules interleave their calls accordingly.
The web app knows of the server only what its last polls brought. Its screens share nothing but
the token, so each is a module, and what the server does with a call is modelled there as far as
the screen can tell.

The web app's paths are below `src/frontend/src/`.

## Modules, and how they correspond to the code

`PROJECT.json` maps each definition to its lines. Names follow the source.

**TaskManager** models `internal/tasks/tasks.go` and the answer of the cancel handler. One action is one critical section: `StartRegister` (number, register, append), one `TrimStep`
per iteration of the trimming loop with the mutex held, `StartSpawn`, `StartReturn` (the view read
back after the mutex was released), and per worker `RunBegin`, `SetProgress`, `OperationReturns`
(no mutex) and `RunFinish`. `DropLocked` shifts the slice under the loop that ranges over it, as
`append(m.order[:i], m.order[i+1:]...)` does. Messages, warnings and resource ids are left out.
**TaskLifecycle** is the abstract promise: opened once, perhaps asked to stop, ended exactly
once; `phaseOf` maps the one to the other by context and outcome, not by the status field, since the latter may go back from cancelling to running. **MCTaskManager** adds the history variable
`peak` (most tasks unfinished at once).

**BackupChain** models one machine's backups: the library, the provider's backup, delete and
restore, and `prune`. A call is an entry of `op` with a program counter; its steps are the
moments at which it reads or changes the library or the domain. `phase[p]` is the state of a
point's directory (`metadata.json` is written last, and `RemoveAll` may remove it first or last),
`image[p]` what its images contain, `checkpoints` and `bitmaps` what libvirt and the disk files
know, `detached` the disks whose path was replaced under a running machine. libvirt and QEMU are
modelled from how the provider uses them: one job per domain, a job that continues needs its
bitmap on every disk, a failed job shows only in its images. `DropCheckpoints` leaves any part of the checkpoints
behind, as `deleteUltravCheckpoints` ignores a listing and any deletion that fails. `stale` records the
checkpoints left behind that need not have a bitmap on every disk. **BackupCatalog** is what the library
promises: points are published once, whole, after what they continue from, and never return.
**MCBackupChain** records what the code does not exclude and a chain or a restore cannot stand: backups that overlap
(`mixed`) and the points they spoil, points whose removal failed (both in `spoilt`), deletions by hand
(`byHand`), and disks that a restore replaced after another had (`overwritten`). The properties that speak of chains and of
restored disks name these as exceptions, point by point and disk by disk, so that the calls are free.

**Scheduler** models the store, the run loop and the run. Each store method is one step under its
mutex; `Create`, `Update` and `markRun` are two steps because they look at a copy in between.
`save` may fail after memory has changed. The clock counts slots of a day and `Today`/`Due`
translate `due`. `taken` counts the backups of each occurrence. **MCScheduler** records for which
schedules a mark was lost or not seen; `Records` is what a step adds to the record, apart from the run's bounds.

**VirtualMachines** models creation, deletion, power and update of machines by libvirt call.
Domains are known by UUID once they are looked up, as in the code; a domain that is undefined while
active is transient. `left` records volumes left behind at the places where the code returns without
cleaning up, `revived` machines that an update defined again.

**Networks** models the networks of the provider and the arithmetic of their subnets over
`Octets` octets of `OctetBits` bits. `FirstHost`, `LastHost` and `Decrement` translate
`subnetFirstAndLastHost` and `addToIP` octet by octet; `Definition` is what `networkCreateXML` writes, and
an update reads a definition, merges the request and defines the result.

**MediaLibrary** composes the ISO library, the settings file and the pools, because creating a
pool may switch and save the library. Uploads write a temporary file and rename it; `dir` is read
once per call. `unsure` records that a save failed or two switches overlapped.

**Accounts** models users by SQL statement (the database has one connection, so a statement is
atomic and nothing more is). A request keeps the caller's row as it was at verification;
`meant` is the name its id had then. `raced` records the one exception of `AdminRemains`.

**Session** models `AuthProvider`, the client's 401 handler and the routes that read them. A
request carries the token of the moment it was sent; it is sent, served and landed in three steps.
`Writes` is the write of the local storage: it marks in `crossed` every tab whose user was shown
for the token before. `Settled` is the redirect to the sign-in page.

**Polling** models `usePolling` with its newest-loader reference: a poll is asked for the selection
of one moment, answered with the version of another and lands at a third.

**ListPages** models the eight list pages by what distinguishes them: the states of a row, what
the menu offers in each, what is confirmed first, whether the busy slot blocks one row or all, and
whether a confirmation stays open during its call. `history` keeps the states the server had and
`shown` is the position of what the page shows, so that an old page is any position before the last.

**MachineDetails** models the page of one machine: `routeId` is the machine of the address, `vm`
what the last poll brought, which differ after `Jump`. `Parts` says which parts of the page are
mounted anew when another answer, tab or machine is shown. `save.free` records what a save may
well change; the server applies a save in parts, as `update.go` does.

**ConsolePanel** models the two effects of the panel and the events of noVNC, of which only the
panel's use is modelled. `Reconnects` is the cleanup of the connect effect followed by its rerun.
`retries` counts the timers, which nothing clears.

**Forms** models the seven forms by what each field's check sees: whether the value passes, and
for which item it was loaded or typed. `Resets` names the forms that are filled anew for their
target, `Kept` says to whom the answer to a form that was unmounted goes.

**WebApp** extends the six and follows one screen at a time. It leaves steps out where the screens'
own modules allow them, to keep the instance small: `SessionStep` (the second tab shows the console
and does not sign in; the first token is of one user), `MachineStep` (a power or delete call is not under way together with a
settings form or a metric request, nor a save with a metric request), `FormStep` (one schedule to
edit), and `WebInit` (screens that are not followed have one initial state; the first row's state
is free, the second's is one per page).

**TaskManagerProofs, SchedulerProofs, AccountsProofs, BackupChainProofs, VirtualMachinesProofs,
MediaLibraryProofs, NetworksProofs, WebAppProofs** hold the theorems and nothing else. Those about
history variables extend the MC module that records them.

## Runs

| Run | Question | Properties |
|---|---|---|
| MCTaskManager | does the job system keep its promises under every interleaving of starting, trimming, running and cancelling? | `CancelledExactlyWhenRequested`: outcome and accepted cancellation agree. `HistoryConsistent`: slice and map agree, oldest first, at every step of the trimming. `HistoryBounded`: skipped entries never pile up beyond the most tasks unfinished at once. `ImplementsLifecycle`: refinement of TaskLifecycle with its liveness. |
| BackupRetention | what do retention, overlapping backups, a crash and a failed removal do to chains? | `UnspoiltChainsWhole`: every listed point has its whole chain, unless the chain holds a point whose backup overlapped another or whose removal failed. `ListedImagesMade`, `ImplementsCatalog` (refinement). |
| BackupRestore | what do backups, a deletion, a retention pass and two restores do to each other, any two at a time? | `TypeOK`. `AnchorUsable`: the checkpoint that would be continued from is on every disk, unless a restore left that very one behind. `RestoredUnlessOverwritten`: a finished restore has put its point on every disk but those the other restore replaced since. `CallsReturn` (liveness): every backup, deletion, pass and restore returns, also a backup that polls the other backup's job. |
| BackupRetentionOverlap | *violation*: retention when backups overlap | `ListedChainsUnbroken` |
| RestoreStaleCheckpoints | *violation*: a restore that fails half-way | `NoStaleCheckpoints` |
| MCScheduler | can a deleted schedule return, an occurrence fire twice, or what is due be left? | `DeletedStaysDeleted`; `RefiredOnlyUnseen`: only if a mark was lost to an update, a failed save or a restart, or a tick worked on a copy without it; `DueIsServed` (liveness): what is due is served, changed, deleted, or its day ends, with two schedules, one run at a time, and a midnight. |
| MCVirtualMachines | do interleaved creates, deletes and updates of one name keep disks and domains together? | `DefinedHasVolume`, `NoOtherOrphans` |
| MCNetworks | the same for networks, and the arithmetic | `RangeEndsAtLastHost`: the DHCP range ends at the last usable host of every subnet of at least /30. `NothingLeftBehind`. `UpdateKeepsRest`: an update keeps what it does not name, the end of the range if the gateway lies in its subnet. |
| NetworkGateway | *violation*: the gateway | `GatewayIsFirstHost` |
| MCMediaLibrary | is the library in use the saved one, and what do failures leave? | `LibrarySurvivesRestart`, `NothingUnfinished`: no temporary files and no half-made pools, `ReplacesOnlyUnseen` |
| MCAccounts | do interleaved requests keep an administrator and hit the right account? | `AdminRemains`, `DeletedOnce`, `ActsOnMeant` |
| WebApp | does each screen keep to its user, rows, machine, connection and form when answers land late, out of order, or not at all? | `RightIdentity`: requests are made for the shown user. `GhostEnds`: an ended session is noticed (liveness). `OneCallPerRow`. `RefusedOnlyStale`: what a menu offers is refused only if it was old. `ShownSettles`: polls settle at the newest data (liveness). `UndoesOnlySeen`: a save undoes nothing the page has not shown. `HistoryOfOneMachine`: charts never mix machines. `OneLiveConsole`, `ConsoleComesBack` (liveness). `SubmitsOnlyValid`: what is sent has passed its checks and belongs to its item. `AnswersItsForm`: an answer closes the form that was sent. |

The type invariants of TaskManager, Scheduler and Accounts are proved and no longer a run's property; the
others are both, `WebTypeOK` standing for those of the web app. Every property of a passing run has a
mutant in `PROJECT.json`, a plausible bug in one mapped definition with which TLC finds the
property violated under the same configuration.

`CHECK_DEADLOCK FALSE` is set where the bounded system really stops: all tasks started and ended,
all points made, the clock at its bound, no user left who could log in (Accounts).

## Bounds

Every bound is a constant, and bounds an environment that is otherwise unlimited. The largest runs reach 7.3 million
(MCVirtualMachines), 3.6 million (MCNetworks), 1.6 million (BackupRetention), 1.2 million (MCScheduler) and 0.8 million states
(BackupRestore), the last two with liveness.

* **MCTaskManager**: 3 tasks, history cap 1, so that a Start can find two tasks over the cap and the shifted
  slice has a successor to step over; reports -1 and 101 exercise both sides of `Clamp`.
* **BackupRetention**: 3 points (a chain of two and a full, or a full between), two backups and a retention pass, all
  under way at once (`MaxBusy`), one power change, one crash, one failed removal: a chain is there to be broken by
  each of them. **BackupRestore**: 2 points (a full and an
  incremental), 2 disks so that a restore can stop between them, one power change, two backups, a deletion, a pass and
  two restores, of which any two are under way at a time (`MaxBusy`): every pair of calls meets, and a backup
  polls the other's job. No crash or failed removal here: the other run has them, and the theorems all of it together.
* **MCScheduler**: 2 schedules, one create and one update at a time, day of 2 slots, 3 slots of time, so that an
  occurrence is exactly at, before and after the clock, and midnight passes while one waits for the run of another.
  `Bounded` splits the instance: before the second schedule
  is made everything happens to the first (one crash, failed save, update), since all races are between a schedule
  and itself; from then on the two compete for the one run, which may find no targets once. On the second day the
  loop and its runs go on and schedules are deleted, but nothing else is called.
* **MCVirtualMachines**: one name, 2 formats (two volumes of one name), 2 creates, one delete, one update:
  one more request than any of the races needs.
* **MCNetworks**: 2 callers (nothing relates three), addresses of 2 octets of 2 bits, four subnets: two on
  an octet boundary, one of which has its gateway outside of it, one within an octet, and one without hosts (the /32). Octets are
  treated alike by the code, so two show the carry. One refused call, one restart.
* **MCMediaLibrary**: 2 directories, one image name, one pool name, 2 uploads or deletions and 2 pool requests
  at once; one fault and one restart.
* **MCAccounts**: 3 names, 3 ids, 2 passwords, 2 requests, one restart, a generated signing secret. Symmetry is
  used for requests only, which no property and no definition tells apart.
* **WebApp**: 2 tabs, 2 users, 2 tokens and one lost answer: a token is replaced behind a tab, by itself or the
  other. 2 rows and 2 calls, one change at the server and one fault: a state is old, and a slot is taken over.
  2 polls, 3 versions, 2 changes of the selection, one failed poll, 2 visits: an older answer lands last, for another
  selection. 2 machines, 2 memory sizes that the form shows as one, 2 samples, one metric request, 2 moves and 2 events: a
  request outlives its machine, the buffer overflows, a save meets a change. 6 connections, 2 drops, 2 changes of
  what is shown: every effect reruns on top of a timer and a late end. 2 items, 2 submissions, one break.

## Fairness

* Task workers are goroutines, and Go runs every goroutine that can run; the operations handed to `Start`
  return. A worker's steps need a mutex that others take again and again, so their fairness is
  strong: a `sync.Mutex` has a starvation mode that hands it to a waiter. Nobody is obliged to start or cancel.
* The calls of BackupChain are goroutines (weak fairness of `Progress`, which leaves out what comes
  from outside, such as cancellation), and a libvirt backup job ends, well or not.
* The scheduler's ticker fires every 30 seconds and its loop and run are goroutines (weak fairness
  of `Tick` and `Run`). Time need not advance.
* In the web app every request is answered or fails and the answer lands (`Answers`, `Landings`, `AnswerPoll`,
  `LandPoll`), pages poll every few seconds as long as they are open (`PollPage`, `Interval`: `setInterval`),
  timers fire (`Connect`, `RetryFires`), the preflight is answered, and noVNC reports what becomes of a connection.
  Users do nothing that they must, servers change nothing. All fairness is weak, and only of the screen followed.
* VirtualMachines, Networks, MediaLibrary and Accounts have safety properties only, and no fairness.

## What is proved

TLAPS proves these for every value of the constants that satisfies the named assumptions. TLC checked every
invariant used below. None of the properties is inductive as it stands, unless said.

**Job system** (`TaskManagerProofs`, from `TaskManagerAssumption`: at least one task, a cap of at least one, integer
reports). `TypeCorrect`, `CancellationHonoured`, `HistoryAlwaysConsistent`, `LiveTasksAlwaysFindable`,
`TerminalNeverChanges`, and `RefinesLifecycle`, the safety part of the refinement. The strengthening has three parts
beside the type invariant: *StartedInv* relates
the numbers given out to status, worker and context (a worker exists exactly for started tasks, and the
newest is not spawned while the trimming loop runs); *OutcomeInv* ties status to worker and
context, so that the outcome computed by the second critical section is still right after a cancel between the
operation's return and the mutex; *HistoryInv* says that slice and map agree and that only
terminal tasks are missing from them. Removal of a position from an increasing sequence is a lemma of its own.
The refinement then shows each action to be one of the life cycle's, or a stutter.
`HistoryStaysBounded` is `HistoryBounded`, of MCTaskManager's specification with its history variable: *PeakInv* (never
more tasks are unfinished than the peak) and *SizeInv* (while the loop trims, only the task being started is
above the bound, and what the loop has passed over is unfinished, so that what it leaves is counted by the peak).

**Scheduler** (`SchedulerProofs`, from `SchedulerAssumption`). `TypeCorrect` includes that neither memory nor
the file ever holds an identifier twice. `DeletedNeverReturns` is `DeletedStaysDeleted`. Its
strengthening has two parts: *HoldInv*, that what a call, a tick or a run holds is a schedule; and *IdInv*, that every
identifier in memory, in the file or deleted is among those given out, and that the one a create holds
is among them but in none of these, and no two creates hold the same one. So an append is fresh, while updates and
marks go through `Replace`, which stores nothing for an identifier that is gone.
`RefiredOnlyIfUnseen` is `RefiredOnlyUnseen`, of `RecordedSpec`: the steps of Scheduler with the record of MCScheduler, and
none of the run's bounds. *UsedInv* says that whatever reached a tick, a run or a backup was made, and that the
identifier of a create under way never was; *MarkInv*, for schedules no mark of which was lost or unseen, that the mark in
memory is past each occurrence backed up, unless a run is about to write it, and that a run starts only for an
occurrence after those.

**Users** (`AccountsProofs`, from `AccountsAssumption`). `TypeCorrect` (a name is in one row),
`AdministratorRemains`, `DeletedAtMostOnce` and `RequestsActOnMeant`. *SurvivorInv* is the heart:
as long as no administrator was removed while another deletion was decided, there is one, and every deletion that has
passed its check leaves one other than its target; counting (a cardinality above one has a second member) gives it, and
the statements in between keep it. *MeantInv* says that the row a request's id names is the one it was for, or gone for
good, because `AUTOINCREMENT` gives no id twice; *OnceInv* relates the answers given to the rows that exist.

**Backups** (`BackupChainProofs`, from `BackupChainAssumption`). For any mixture of backups, deletions, restores and
retention passes, with faults, crashes and power changes, and without a hypothesis on any of them: `TypeCorrect`; `ImagesMade`
(`ListedImagesMade`); `AnchorsUsable` (`AnchorUsable`); and `LibraryIsCatalog`, that BackupChain implements BackupCatalog:
what the catalog knows never to be undone is kept by every step of every call. The invariant is *TypeInv* (the type
invariant, what each program counter holds, and that a call that will make a point has one left), *LibInv* (each
call writes a point of its own, a running job's point is not complete and its call still polls, and a parent, chosen or
written, is older and was published) and
*BitmapInv* (every checkpoint that was not left behind has its bitmap on every disk, but for the moment in which a
restore replaces them).

Two theorems are about the specification with MCBackupChain's record. `RestoresWhole`
(`RestoredUnlessOverwritten`) holds of any number of restores at a time: the disks a restore has behind it have its
point, unless another restore is recorded to have replaced them since. `RetentionKeepsChains` (`UnspoiltChainsWhole`) holds of any
number of overlapping backups and passes, restores, deletions by hand, failed removals, crashes and power changes, and each pass
may work from a list that is old; what is excepted is a chain that itself holds a point written beside another
backup, one whose removal failed, or one that was there at a deletion by hand. *MixInv*
says which backups are recorded to overlap, and that what is made while one is at work is spoilt; *GrowInv* that a backup
that has been alone continues from the newest listed point; *FamilyInv* that the parent of a listed, unspoilt
point is listed, with no listed point between them; *DoomInv* that what a pass is going to delete is older than a
listed point and goes after its children. `Chain` is a recursive function: its defining
equation is all that is used, with the least point whose chain breaks as counterexample in place of an induction.

**Machines** (`VirtualMachinesProofs`). `TypeCorrect`, `DiskStays` (`DefinedHasVolume`) and `NothingElseLeaks`
(`NoOtherOrphans`). *HolderInv*: as long as no update has revived a machine, a volume has at most one holder, which is the
create that allocated it, the domain defined with it or the deletion that undefined that domain, and it exists
while it has one. So an undo or a deletion never takes the disk of another's machine of the same name, and a volume without a holder
was left behind where the code returns early.

**ISO library and pools** (`MediaLibraryProofs`). `TypeCorrect`; `RestartOpensLibrary`
(`LibrarySurvivesRestart`), from *SavedInv*: the saved directory differs from the one in use only while the one creation
that switched is about to save it; `NothingHalfDone` (`NothingUnfinished`), from *NoTempLeft* and *WorkInv* (an inactive pool,
unless it is recorded as left, has a request at work on that very pool, told by its UUID); and `OnlyUnseenReplaced`
(`ReplacesOnlyUnseen`), from *UploadInv*: each upload's image has a number that no upload could have seen when it
checked, and what is at a place where an upload found nothing came later.

**Networks** (`NetworksProofs`, from `NetworksAssumption`: widths, numbers of octets and of networks are positive,
faults and restarts are counted). `TypeCorrect`; `NothingLeftOver` (`NothingLeftBehind`), from *WorkerInv* as for pools;
`RangeEnds` (`RangeEndsAtLastHost`): the end of the DHCP range is, as a number, one below the subnet's highest address,
for every subnet with at least two host bits, every width of an octet and every number of them; and `UpdateKeeps`
(`UpdateKeepsRest`), an action property: the subnet of a gateway that is read back has the same gateway, and
the same last host if the gateway lies in the range's subnet. `2^n` is taken as the number of
subsets of a set of n elements, and the sums over the octets are proved by their defining equations and a least
counterexample, without an induction theorem.

**Web app** (`WebAppProofs`, from the assumptions of its modules). Each screen's theorems are about its own specification, with
every step the screens' modules allow.

* *Session*: `RightUser` (`RightIdentity`). The strengthening
  adds what requests carry: an answer that holds a token holds one that was issued, a sign-in under way is a
  user's, and in a tab that is not marked the token being validated is the stored one. So the validation's
  answer shows the owner of the stored token, whatever else landed before it.
* *List pages*: `OneCall` (`OneCallPerRow`): until calls of two rows overlap, the busy slot names the row of the only
  call. `RefusedStale` (`RefusedOnlyStale`), which needs that every call and every open confirmation carries a verb that the
  server accepts in the state it was chosen in, or is for a machine that was stopping; this is the table of menus against the
  table of what libvirt's provider accepts, page by page.
* *Machine page*: `OneHistory` (`HistoryOfOneMachine`): requests that still count are for the shown machine, so a sample
  that is added is too. `UndoesSeen` (`UndoesOnlySeen`): a field the user did not edit is what the tab was opened with, rounded,
  so a difference from the last poll was shown or is rounding.
* *Console*: `OneConnection` (`OneLiveConsole`): the delay runs only where there is no connection, and whatever reruns the
  effect has ended the one before.
* *Forms*: `OnlyValid` (`SubmitsOnlyValid`): the steps behind the wizard pass, as fields change on their own step only or, when
  lists arrive, for the better; an edit form that is open has the fields of its target. `AnswersOwn` (`AnswersItsForm`) rests on
  the former: a late list changes only a field that does not pass, and what was submitted passes.
* *The app*: `AppKeepsItsScreens`: every step of WebApp is a step of each screen or leaves that screen alone, so each
  of the above holds of the app that the run checks. `TypeCorrect` (`WebTypeOK`) joins the type invariants of the six screens;
  *ConsoleRest* adds that there are never more retries than drops, which bounds the timers nothing clears.

**Only model-checked**: liveness (TaskLifecycle's, `CallsReturn`, `DueIsServed`, `GhostEnds`, `ShownSettles`,
`ConsoleComesBack`), as TLAPS proves neither fairness nor `ENABLED`. Every invariant and every action property that a
passing run checks is stated by a theorem.


## Disagreements between the code and its documents

1. *BackupRetentionOverlap.* `prune` (`internal/scheduler/scheduler.go:381`) takes everything older
   than the newest kept full for superseded. A full that overlaps an incremental breaks that: the
   incremental may be the newer point and continue from the older full, and loses its ancestors.
   The comment at line 370 calls a full and the incrementals on top of it one chain.
2. *RestoreStaleCheckpoints.* A restore that fails on its second disk returns before the checkpoints are dropped
   (`internal/hypervisor/libvirt/backup.go:325`); the comment at line 329 says why they must be.
3. *NetworkGateway.* `subnetFirstAndLastHost` sets the lowest bit of every octet
   (`internal/hypervisor/libvirt/pools_networks.go:594`): 192.168.100.0/24 gets the gateway 193.169.101.1, while
   the comment and the frontend promise 192.168.100.1.

## Weaknesses the models reach without a run

Each can be reproduced by checking the named property, or by the constants given.

*Job system*: `CancellingUntilCancelled` (the worker overwrites cancelling with running),
`TrimReachesCap` (the loop steps over the task shifted into a freed place), `StartReturnsQueued`,
and `NotCancellableMeansTerminal` (a task still cancelling is answered as finished) fail in MCTaskManager.

*Backups*: `ListedImagesKept` fails with a crash inside `RemoveAll`; `OnlineCopiesWhole` with one backup whose job fails
midway; `OfflineCopiesConsistent` with one power change during an offline copy; `RestoreLeavesRunningAlone` with two power
changes; `RestoreKeepsDomain` with one restore whose redefinition is refused; `ReturnsOwnPoint`
with two backups; `RestoredWhole` with two restores, which leave a machine with disks of both points; `ListedChainsUnbroken`
with one failed removal in a retention pass, which goes on to the ancestors, or with one deletion by hand. A checkpoint that
cannot be listed or dropped after a complete restore stays without its bitmaps
(`internal/hypervisor/libvirt/backup.go:606`); if it is the newest point's, `AnchorUsable` without its exception fails, and every
automatic backup of the running machine is refused until somebody asks for a full.

*Scheduler*: `FiresOncePerOccurrence` fails with a restart between backup and mark, or an update that takes a mark
back; two creates of one name both succeed; an occurrence that waits for another schedule's run when its day ends is
dropped without a trace (`internal/scheduler/scheduler.go:286`, 305), as `due` asks for the time of today only.

*Machines*: `DeletedStaysGone` fails with one create, delete and update, whose definition brings
the machine back without its disk; two updates overwrite each other's configuration; a
machine started after a deletion's check loses its disks while it runs.

*Networks*: of two creates of one name, the second's failed start undefines the first's acknowledged
network; an update defines a network again after its deletion; an update that passed its check redefines a
network that was started since; an update from NAT to bridge without a bridge name takes the name
of libvirt's own bridge; /31 and /32 are accepted although the error text at line 556 asks for at
least /30; an update that names no subnet moves the end of the DHCP range wherever the gateway lies outside of its subnet,
since the gateway that is read back is taken for the new subnet (`UpdateKeepsRest` without `GatewayInRange`); a host-defined routed network becomes NAT;
libvirt refuses a redefinition without UUID, which the comment near line 479 takes for an update.

*Library and pools*: `UploadsReplaceNothing` fails with two uploads of one name, `UploadsAreListed`
with an upload that outlives a switch; two promotions that interleave leave the saved directory different from the used
one; a pool whose switch fails is answered with 500 and the retry with "already exists"; a
pool deleted during its promotion leaves the library pointing at it; temporary files of a crash are never removed.

*Users*: two administrators that delete each other leave none and, while viewers remain, the next start makes no new
one; a deletion of an id that does not exist yet skips the count; a reset is
overwritten by a change that verified the password before it; a user who is created and deleted before being
read back is answered with 500.

*Session* (module Session): a mistyped current password is answered with 401, which signs out a valid
session; a late 401 of an older token, or of a console tab without one, ends a newer session; a refused sign-in signs
out who was signed in; a sign-out is the browser's only, the server accepts the token until it expires. A refused ISO upload, which does
not go through the client, does not sign out.

*List pages* (ListPages): once two rows' calls overlap the slot names one of them, and a row can get a second call; the
end of a call closes the confirmation of another row; the cross and the backdrop close a confirmation while its
call is under way. A machine that is stopping is shown as stopped, so Start is offered and refused. A paused machine has no menu,
although the provider would resume it, while its own page offers Delete, which the provider refuses. A failed poll replaces
the whole network or storage page.

*Polling* (Polling): an older poll shows the state before an effect again, and the rows of the selection before stay
until the next interval. The backup page shows the first machine when the selected one is gone.

*Machine page* (MachineDetails): after the browser's history went from one machine to another, power and delete calls go to the
machine of the address while the page and its confirmation still name the other, and the settings tab keeps the old
machine's fields, which a save would give to the other. A save undoes a change the page has shown meanwhile, and sends
a size that the form rounded though nobody touched it, which a running machine refuses. An update that fails half-way leaves its first
part applied; `internal/hypervisor/libvirt/update.go:58` hands libvirt a number of bytes where it counts KiB, so
that most changes of the memory are refused, after the CPUs may have been changed.

*Console panel* (ConsolePanel): a connection that the server closes cleanly is not retried, though the panel says
"retrying" (`components/ConsolePanel.tsx:127`); retry timers are not cleared and tear down a connection that was made
meanwhile; the late end of an older connection shows "disconnected" while the next connects.

*Forms* (Forms): the schedule form is always mounted, so its fields are initialised once: Edit shows, and saves, what the last
use left (`components/ScheduleModal.tsx:20`, `pages/Backups.tsx:323`). The network form always sends the mode, so the
server refuses every edit of an active network, although `components/EditNetworkModal.tsx:100` and the
API's description say that autostart may be changed. The wizard's network is preset by name, so its fallback to the first network
never applies and what is sent may not be in the list; its pool is kept from one opening to the next; a late failure of an
earlier opening shows in the next. After a failed poll of the network or storage page a form can be submitted again
while its first submission is under way, and the first answer closes the form that took its place.

## Not modelled

* **Mock provider**: for development only, and simpler than the provider it stands for except in its shutdown timer.
* **Domain XML**: rendering without state.
* **Host readings, sample cache, error translation, console tunnel**: input and output; an entry of the cache is
  swapped under its lock, and the tunnel's two pumps end with either side.
* **HTTP API**: decoding, validation, error bodies and middleware. What a handler decides is in the module of
  the component it calls.
* **Configuration**: reading the environment. What start-up restores is in Scheduler, MediaLibrary and Accounts.
* **Web app**: what is drawn from polled data, sorting and searching, notices, routes without a session, the texts
  and values of fields, and choices that are always valid.
* **Generated types and deployment**: no behaviour of their own.
* Within the modelled components: texts, sizes and free space, autostart flags, refreshing of pools, image bytes,
  hashing and signing.

## Plan

In the order of importance; 1 to 12 are done, and 13 but for what it says is left.

1. TaskManager and TaskLifecycle with MCTaskManager: the job system every long operation runs in.
2. BackupChain and BackupCatalog: data loss is possible here and nothing excludes anything.
3. Scheduler with MCScheduler. 4. VirtualMachines. 5. Networks. 6. MediaLibrary. 7. Accounts.
8. Session and Polling: what every page of the web app rests on.
9. ListPages, MachineDetails, ConsolePanel and Forms, followed one at a time by WebApp.
10. Proofs for the web app's modules, and that WebApp keeps to each of them.
11. Proofs for BackupChain: its invariants, and that it implements BackupCatalog.
12. Proofs for VirtualMachines, Networks and MediaLibrary, and of the two properties about history variables.
13. Done: `RestoresWhole` and `RetentionKeepsChains` without hypotheses on restores, deletions, removals and backups, by a
    record of what a restore overwrote and which points were spoilt. Left: deletions by hand of points outside every kept
    chain, which spoil nothing.
14. What liveness rests on, as invariants: a call that waits has something under way that ends (`CallsReturn`), a
    schedule that is due is queued or will be found (`DueIsServed`), a closed console has a timer (`ConsoleComesBack`).
15. The mock provider's shutdown timer and backup flag; the console tunnel; the device names of the domain XML.
16. A module that composes jobs with backups: the context of a cancelled task reaching a backup at each of its steps.
