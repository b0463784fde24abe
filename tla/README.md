# dooray-sync: a TLA+ verification of the sync engine

`dooray_sync` keeps Windows folders in step with Dooray Drive. This directory
holds TLA+ modules of its core, TLC configurations that check them on small
instances, and TLAPS proofs of what matters most for all instances. Line
numbers refer to `src/dooray_sync/` unless they start with another directory.

## 1. The system

| Component | State it keeps | Operations | Made correct by |
|---|---|---|---|
| sync pass (`cli/main.py` `sync`, `core/executor.py`) | row, cursor and journal of each path | recover, scan, observe, diff, plan, execute, save the cursor | no local bytes lost, no unseen drive version covered or trashed, what fails is looked at again |
| differ (`core/differ.py`) | none | three-way comparison of base, local and remote per key; moves; folders | a deletion never wins over a change; a baseline that is missing is never guessed |
| planner (`core/planner.py`, `_apply_delete_grade`, `_demote_conflicts`) | none | bulk-delete gate, order, collapsing of folder trash, holding back | folders before their contents, the real number of deletions is what is counted |
| remote view (`core/remote.py`, `api/drive.py`) | cursor | full walk, delta since the cursor, relisting, probes, tip of the feed, one request after another | everything up to the saved cursor is known, whatever is written between the requests |
| journal and store (`core/journal.py`, `store/db.py`) | files, meta, journal, conflicts tables | begin, phase, commit, recover; one transaction per result | a crash leaves a mark that a later pass acts on |
| scanner (`core/scanner.py`) | skipped paths | scan, hash | what could not be read is not taken for absent |
| HTTP client (`api/client.py`) | rate-limit counters | retry, redirect, error classes | a request that may have had an effect is not blindly repeated |
| instance lock (`util/lock.py`) | one locked byte per profile | acquire, release | passes of a profile never overlap |
| automatic runner (`auto/`) | state.json, notices, last reports | tick, sweeps, due profile, back-off, parking, marker hysteresis | every profile gets its turn, failures slow down, people are called when needed |
| typed commands (`push`, `pull`, `reconcile`, `resolve`, `init` in `cli/main.py`) | the same tables | one-sided transfer, baselines, conflict resolution, enrolment | in any order: bytes kept, baselines only of equal bytes, what a person chose comes about, nothing left that no command can settle |
| wrapper and git isolation (`tools/sync_here.py`, `tools/gitlock.py`) | markers, isolation folders | enrol, disable, offer, isolate | a lost mount is not taken for a decision |

Components interact through the SQLite store of a profile (only under the
instance lock), the local folder (shared with its user), the drive (shared with
other PCs), the report file a child process leaves for the runner, and
`config.toml`.

What makes the code hard: a pass stats, hashes, transfers and records in
separate steps, and the user or another PC may act between any two; an upload's
answer may be lost; the process may die anywhere; the change feed mentions a
change once; a list answer carries no hash; several failures of one item must
leave a mark by which a later pass finds it again.

## 2. Modules

### Differ.tla: the decision for one file

`_decide_one` and its helpers as pure operators over a base row, a local entry
and a remote entry; an absent value is `None`. An MD5 is the content itself:
two hashes are equal exactly when the bytes are. "unknown" is the `None` that
`same_content` returns.

### FileSync.tla: one path through the whole pass

| Code | Model |
|---|---|
| the file in the folder, its mtime | `disk` |
| Dooray Drive: objects, versions, revisions; its trash and old versions | `obj`, `rev`, `kept` |
| the Windows recycle bin, conflict copies, the conflicts table | `bin`, `copies`, `unlisted` |
| row, cursor, open journal entry in SQLite | `rec`, `cursor`, `journal` |
| where `sync` and the executor are, and their locals | `pc`, `mode`, `entry`, `unobs`, `view`, `kind`, `found`, `expect`, `got`, `moved` |
| users, other PCs, failures | `Save`, `Delete`, `OtherWrites`, `OtherTrashes`, `Crash`, the fault branches |

One action is one stretch of code between two points at which the world may be
looked at or changed: each stat, hash, list, transfer, replace, rename, trash and
commit is a step of its own. `executor.upload` is `List`, `Put` / `Post` /
`PostConflict` / `Requery`, `StatAfterUpload`, `RecordUpload`; `download` is
`PreCheck`, `Fetch`, `Guard`, `Replace`, `RecordDownload`; `conflict` is
`ConflictCheck`, `Rename`, `ListCopy`, then the download's steps and
`FinishConflict`. The exception handlers of `run` are `Fails`, `Protects` and
`TrashUnavailable`. The bulk gate and the delete grade depend on other paths and
are choices here (`BulkDeleteAbort`, `Defer`).

`typed` is the only history variable: the bytes ever written, so that a save may
be new bytes. `left` bounds users and failures together.

Left out: folders, moves, names and their collisions, temporary files. A
conflict copy is an ordinary file at another path once it is listed.

### FileSync_proofs.tla, FileSyncVersions_proofs.tla, FileSyncChanges_proofs.tla, MCFileSync.tla

The proofs of what the pass does to the user's bytes, of what it does to the drive's
versions and of what it makes of both sides' changes, and the small instances.

### AutoRunner.tla, AutoRunner_proofs.tla, MCAutoRunner.tla: the automatic loop

| Code | Model |
|---|---|
| the clock, `workdays` | `tod`, `day` |
| `last_sync_at` in each profile's database | `last` (an age), `before` (the order) |
| `config.toml`: `sync_mode`; the markers | `mode`, `marker` |
| `auto/last/<profile>.json`, `notices.jsonl` | `report`, `notices` |
| `state.json`, and the `AutoState` in memory | `disk`, `mem` |
| where `_tick` is, its decision and names | `pc`, `cause`, `todo`, `since` |
| people, the PC, the disk above the roots | `PersonRuns`, `PersonLeaves`, `EditConfig`, `Crash`, `Standby`, `MarkerMoves`, `TickBlind`, `SlowChild`, `TickBreaks` |

`Tick` is everything before the first child (`reconcile_markers`, then `decide`);
`RunChild` is one child with `classify`, `_apply_backoff` and `_note_outcome`;
`EndTick` saves; in `TickBreaks` the notices file cannot be decoded (`notify.py:43`), and
the exception ends the tick with nothing saved (`runner.py:697`) but leaves in memory what
it did. A child is another process: `KilledInChild` is the loop dying
while the child goes on to its end and leaves its report. A time stamp is kept as
its age, capped at the longest span anything is compared with, so that time needs
no bound; the order of the last syncs is kept apart because `decide` picks the
longest overdue. A fault class stands for the exit codes and error classes that
`classify` maps to it. `owed`, `missed`, `seen`, `failed` and `started` are
history variables: what happened, for the properties to speak of.

Left out: `--auto now`, `status.txt`, texts of notices, and other exceptions inside a
tick: its other calls catch their own.

### TreePlan.tla, TreePlan_proofs.tla: what a pass decides about a whole folder

Pure operators: `diff` with its order of cases (moves of both sides, their targets,
objects moved out, folders, files by way of `Differ`), and the plan: reports split
off, deletions of folders collapsed or put off, what lies under a moving folder
deferred, the bulk gate, the unattended grade, the order of execution. A path is the
sequence of its names. Each content has a size of its own here, so that a time, a
size and a hash tell the same.

### TreeSync.tla, TreeSync_proofs.tla, MCTreeSync.tla: the tree pass

| Code | Model |
|---|---|
| the local folder | `disk`: a content, `Folder` or `None` at each path |
| Dooray Drive, its versions and trash | `obj` (place, content, version by id), `kept` |
| what the feed will say; what of it came after the view | `feed`, `news` |
| the files table (cursor: `feed` begins after it) | `rows` |
| scan, paths it skipped, files whose hash failed, actions still to do, options | `snap`, `unobs`, `unread`, `todo`, `mode` |
| users, other PCs, failures | `Save Delete Rename`, `OtherWrites ... OtherMovesOut`, `BeginBadly Fail Crash` |

`Begin` is everything up to the first action: scan, view (a full walk, or the feed
with its relisted folders and probes), `diff`, gates. Then each action of the plan is
one step (`Do`), in the plan's order, and users and other PCs act between any two;
the stats and transfers inside an action are FileSync's. `Does` gives what an action
makes of the world as a record, so that `Fail` and `Crash` can cut it short and mark
it. With the last action the cursor is saved. `took` and `claimed` are history: what the
running pass has put into a bin, and which rows recorded a content as sent when other
bytes were (an upload records the MD5 of the scan, `UploadRow`).

Left out: names (case, normal forms, Windows' forbidden ones), a file where a folder
was, a feed or probe cut short, the remote root's own moves, and the executor's
cached listing of a folder, which is read anew.

### Commands.tla, Commands_proofs.tla, MCCommands.tla: the commands a person types

| Code | Model |
|---|---|
| the folder, the recycle bin, the files table, the drive | `w` (`disk`, `bin`, `aside`, `rec`, `obj`, `rev`, `shown`) |
| cursor, `META_LAST_SYNC_AT`, the conflicts table | `cursor`, `settled`, `listed` |
| the running command, its scan, its walk, its items, the item in hand | `opt` and `pc`, `snap`, `view`, `todo`, `hold` |
| `push` | `StartPush`, `PlanPush`, `LoadIndex`, then `Touch`, `SendVersion` or `SendNew` (`SendAgain` after a 409, which drops the index) and `CommitPush` for each item |
| `pull` | `StartPull`, `PlanPull`, then `CheckPull`, `Fetch`, `Place` |
| `reconcile` | `StartReconcile`, `Match`, then `HashTarget` and, in another step, `CompareTarget` for each file, then `AskRemote` or `AskSkip` |
| `resolve` | `ResolveBoth`, or `StartResolve`, `DropRemoteCopy`, then `BinCopy`, or `BinOriginal`, `BringBack`, `RecordChoice` |
| `init` | `StartInit`, `InitRows`, `InitTip`, with `sync` passes allowed between them |
| `sync` | `Sync`, one step, decided by `Differ` |

Two paths: a file and its conflict copy, which is where `resolve` and `reconcile`
exchange bytes. What FileSync takes apart (the instants inside a transfer's last
check) is one step here; what these commands leave open (plan and transfer minutes
apart, four effects in `resolve`) is not. `due` and `typed` are history: what resolve
promised of the next sync, and the bytes anyone has written.

Left out: folders and names, and a second conflict copy, which keeps a name of its
own and leaves the model.

### CatchUp.tla, ChangeFeed.tla, ChangeFeed_proofs.tla, MCChangeFeed.tla

CatchUp is the abstract specification of reading changes: a profile has a cursor, and
everything last changed at or before it is known (`Promised`), but for files in
`lost`. What is known of a file is the set of rows the base has of it (`told`): one when
all goes well, none when it is in the trash. Nothing is promised of a file outside the
synced folder, whose row and copy are left alone by intent. A file changes with a
revision nobody has seen; a pass moves the cursor on and may add to `lost` only what was
new to it, and a full pass may lose any; a pass broken off keeps its cursor.

| Code | ChangeFeed |
|---|---|
| the drive: files at the root, in one folder, outside or in the trash; revisions | `at`, `label`, `ver`, `rev`, `top` |
| the rows of each file, the saved cursor | `told`, `cursor` |
| `RemoteView`: entries and tombstones by path | `heard` (`places`, `gone`, `probed`), `Hears` |
| what `diff` and the executor make of it for a file's rows | `Learned` (`Moves`, `Moved`, `Stays`, `New`) |
| `iter_changes`, `get_changes` | `GetChanges`: a page of the objects after a revision, in their order, as many as the server likes |
| `RemoteCollector.delta` with `safe`, `last`, `max_items` | `TakeFile`, `TakeDir`, `Truncate` |
| `_relist_subtree`, `walk`, `iter_children` | `ListPage`, `RelistFails` |
| `_probe_dirty` | `Probe`, `Asked` |
| `advance_to_tip` | `AnyAfter`, `Double`, `Bisect`, `MakeSure` |
| the execution and `_save_cursor` | `Save`; `BreakOff` and `Abort` when the process or a request ends it |

A view is kept by path. An entry goes to the path it names; what takes a file away
names only its id and goes to the path the base knows (`remote.py:421`), so an entry that
the same pass put at another path stays. `diff` looks for a move first and the executor
asks nobody, so `Learned` makes rows of such entries as the program does.

Other PCs act between any two requests. `missed` collects the files whose news the
running pass has lost, and `lost` those it has lost for good; both are history. A file
comes into `missed` in one of five ways: a page ends within a revision (`Severed`); the
relisting of a folder fails (`RelistFails`); a folder is renamed again after it was
listed in the pass (`TakeDir`); a child slips to a page of a listing already read
(`Slipped`); an older entry of the view, at a place the file has been to meanwhile, is
taken for the latest (`Outlived`). It comes into `lost` with what a pass saves of these,
and when the pass leaves it with two rows (`Doubled`), which delta passes do not undo
(`NotRighted`). Leaving out any of them violates `Promise`, but for `Outlived` in
`ListPage` and `Probe`, which takes more than the run's bounds. Section 5 has what the
code says of them.

Left out: deeper trees, names, page limits of the walk, and what the folder's own row
does to the rows under it (its local move takes them along, `planner.py:280`): TreeSync's
matter.

## 3. Runs

| Run | Checks | Result |
|---|---|---|
| safety | `TypeOK BaseSound CopyAccounted NoLostSave NoBuriedVersion` | all pass modes and faults, 1.1 million states |
| races | `TrashOnlySeen NoFakeConflict` | bytes may recur on both sides (`Undo`), 1.0 million states |
| feed | `NoMissedChange` | other PCs write and trash at every step, four acts, 2.5 million states |
| converge | `Convergence` | full passes, all faults, weak fairness, 0.5 million states |
| loop | `TypeOK NoSweepForgotten PeopleCalled CautiousOff` | the automatic loop, all outcomes and all acts but an exception that ends a tick, 1.4 million states |
| sweeps | `EveryoneRuns` | failures without limit, exceptions too, weak fairness of the loop, 0.1 million states |
| tree_full | `TypeOK BaseSoundTree NothingLost TrashOnlyHeld` | full passes over two folders, all acts, moves, failures, 0.2 million states |
| tree_feed | `NothingMissed NothingLost BulkGate` | delta passes with deletions carried over or only reported, 0.2 million states |
| tree_converge | `Converges` | full passes over one folder, weak fairness, 11 thousand states |
| commands | `TypeOK BaseHonest NothingLost ChoiceStands Converges` | any sequence of the commands over a file and its copy, all faults, weak and strong fairness, 0.23 million states |
| changes | `TypeOK NeverAhead Promise CatchesUp` | changes and listings read page by page, a refinement of CatchUp, weak fairness, 0.9 million states |
| place_taken | `NothingMissed`, see section 5 | violated: a disagreement of code and comments |

Bounds. Four contents (two of each of two sizes, so that equal sizes with
different bytes occur; four sizes where a run is about something else), three
object ids (a file, its recreation, and one more), five modification times (one
more than the program can hold at once), and three acts of users, other PCs and
failures in a behaviour (four in `feed`): each known violation needs two, and the third shows
what the recovery from one does when it is disturbed. Passes are not bounded.
Contents of the same size are interchangeable and declared symmetric in the
safety runs.

`SavePoints`, `RemotePoints`, `TrashPoints` and `Faults` say when others may act.
The passing runs let them act everywhere but in the windows the code cannot
close: a save between the last stat and the effect it guards (`Windows`), another
PC between the lookup of a name and the transfer (`BeforePut`). What happens in
those windows is section 5.

The automatic loop. Two profiles, which is enough for one to be overdue for ever
while the other waits, and for several markers to vanish at once. The spans keep
the order they have in the code (interval < gap and work < day) with a day of 5 or
8 ticks and one working day in two; limits of streaks are smaller (2 and 3 for 3
and 5) but in the same order. `MaxEnv` bounds acts and children that end otherwise
than well; in `sweeps` the outcomes in `Free` are not bounded, so that profiles
may fail for ever.

The tree. Two folders and one file name in each of them and above: enough for a
move between folders, for a file that takes another's place, and for a deletion of a
folder with something under it. A run begins with a file beside a folder with a file
in it, all synced. Three interchangeable contents (declared symmetric where no
liveness is checked), three acts in a behaviour, of which those in `Rare`
count twice (what only shows alone or with one more act); a bulk limit of 3 and an
unattended limit of 1, so that a folder with its file passes one and not the other.
`tree_feed` leaves out moves, unobserved paths and unattended passes, and
`tree_converge` renames with a deletion on the drive: section 5 shows why. `Roomy`
bounds the ids: a step that makes objects finds enough unused ones for a chain of
folders and a file. With nine (seven in `tree_converge`) it holds in every state of a
pass of these instances, so it hides nothing there. `Fitting` keeps a `LOCAL_MOVE` to
what has a path of the instance at its new place; with these folders everything has.

The commands. Three contents, two of them of one size; a profile begins with a file
here, one there, both (equal, or different and of one size) or none, unsynced. Two
acts of users, other PCs and failures: a save or a failure inside a command and one
more in the next. This bound hides something: with three acts `BaseHonest` fails, by
the recorded hash of section 5; section 4 proves it where that cannot happen. `Roomy`
bounds ids and stamps: a step that makes some finds two of each unused. Seven ids and
nine stamps are as many as a state of this instance needs. Commands are not bounded. The options that take the bytes of one
side for those of the other by request (`push --assume-local-newer`, `reconcile
--trust-size`, `init --force`) are modelled and not in the run: section 5.

The changes. Two files and a folder, pages of two changes and listings of one entry
per page, so that every walk with two entries crosses a page; two changes and two
pages per pass, so that passes are cut at each limit; four revisions, of which three
happen while passes read; one fault. Passes are not bounded.

Fairness. In FileSync, `FairSpec` is weak fairness of the tool as a whole: a started pass
takes its next step, and passes are started again and again (a scheduled runner
or a person). Nothing is assumed of users, other PCs or failures; `Convergence`
speaks of the time after their last act because `left` is finite. In AutoRunner it is weak fairness of the loop:
it is started at every logon and a started tick goes on; a child ends (every
request has a timeout). In TreeSync it is weak fairness of
`BeginWell` (passes are begun again and again, most of them with readable files and a
working recycle bin) and of `Do` (a pass goes on; a request that hangs times out).
Acts and failures are finite by `left`, so `Converges` speaks of what follows the
last of them. In Commands a command that began goes on (weak), and a person who was
told to types `dsync sync --full` and `dsync reconcile` again and again and, asked about
a file, answers 2 now and then (strong: other commands may come between). In
ChangeFeed a pass goes on and passes begin (weak), `RelistFails`, `Abort` and
`BreakOff` being finite.

## 4. Proofs

For all values of the constants, `FileSync_proofs.tla` proves

* `TypeCorrect`: `Spec => []TypeOK`;
* `CopiesAccounted`: `Spec => []CopyAccounted`, by the invariant that the entry
  of the journal is open from `ConflictCheck` to `ListCopy`;
* `BaseIsSound` and `NoSaveIsLost` under `Watched`: the user does not save within
  the unwatched instants and writes no bytes twice (equal bytes with a new time
  make "what was compared" and "what is there" indistinguishable).

The last two need the inductive invariant `IInv` at the end of `FileSync.tla`.
`BaseSound` alone is not inductive: that a download may replace a file rests on
what `diff` read several steps earlier, with a user who may save in between. The
conjuncts carry that fact along the pass: `EntrySound` (a hashed entry whose time
is still the file's has the file's bytes), `Sent` (after a transfer the drive has
the file unless its time is new), `Agreed` (a touched base was compared with bytes
of the drive), `Replaceable` (the stat a guard compares with is that of a file the
drive has, up to `os.replace`), `Provenance` and `Course`. TLC checked `IInv` as an
invariant of the safety run's instance before it was proved.

`FileSyncVersions_proofs.tla` proves, with no assumption on the user, on failures or on
crashes,

* `NoVersionIsBuried`: `Spec => NoBuriedVersion`, under `Unrivalled`: no other PC
  writes between the lookup of the name (`List`) and the transfer. `UpInv` says that no
  version held in the row, the view or the list entry is ahead of the drive's
  (`RowKnown`, `ViewKnown`, `FoundKnown`), that a baseline has a version (`Based`), and
  that the file found is the row's in its version when `Put` begins (`Sending`);
* `OnlySeenIsTrashed`: `Spec => TrashOnlySeen`, under `Uncontested`: no other PC writes
  from the end of the observation to the trash. `DownInv` carries what was observed
  (`Observed`) to the decision to trash it (`Condemned`).

Both rest on one lemma of the drive: a step writes a version to the live file, makes a
file where none is live, or trashes one (`DriveStep`), so a version once known stays
known (`KnownKept`). Neither assumption can be dropped, as the drive is not asked again
in its window. TLC checked both invariants on the instances of `safety` and `races`
first.

`FileSyncChanges_proofs.tla` proves

* `OnlyForksAreCopied`: `Spec => NoFakeConflict`, under `Discerning`: every hash can be
  read, and either nobody writes bytes twice, or nobody saves right before the rename
  and no other PC writes after the observation. `ForkInv` carries the comparison from
  `diff` to the rename (`Differs`), while the entry fits the file (`EntryFits`) and the
  view shows the drive's bytes in size and, where it has one, in hash (`Sighted`);
* `CursorIsHonest`: `Spec => []Heeded(obj, rec, cursor)`, and
* `NothingIsMissed`: `Spec => NoMissedChange`, under `Attentive`.

`Heeded` says in every state, within a pass too, that what the saved cursor has passed
is in the row in its version, or the row is marked, or it is one that never had its
file and waits (`Unbased`). `Attentive` asks of the user no save after the scan; that
transfers succeed, the scan can read the path and no pass is unattended; and one of two
things: no row loses its file (`Whole`: no other PC trashes, nothing breaks a trash
off), or the next file of the name can be told from the one of the row (`Exact`: every
hash can be read, no bytes are written twice, no two contents have one size). Other PCs
write at any point, and in the second case trash at any point, while processes die and
answers are lost. TLC violates `NoMissedChange` on the instance of `feed` without any
one of them: with saves, with transfers that fail, with unread paths, with unattended
passes, with equal sizes, with `Undo`, or (at five acts) with hashes that fail.

The invariant `HearInv` follows what a pass has heard up to the cursor it is going to
save. In the view (`Heard`): the file is there as it is, or nothing came and the row had
it. After the decision: the row still has it or is marked when its hash failed (`Noted`),
the action about to record it holds it (`InHand`), it is in the row (`Settled`), or there
is none (`Nothing`). Whatever another PC writes meanwhile has a later revision, so it
leaves that part of the feed (`UptoKept`). What a decision says of a row whose file is
gone takes `Measured` and `Parted`: a row's size is that of its bytes, and a file that
takes the place of another has other bytes than the row, the view, the hand and the
list entry hold of that one. TLC checked `HearInv` on an instance of each case (1.0 and
1.5 million states) before it was proved.

`AutoRunner_proofs.tla` proves, from the assumptions on the constants alone (a
finite set of profiles, spans and an alarm limit that are not zero, a written report
never of a child that was refused or found the lock taken),

* `TypeCorrect`: `Spec => []TypeOK`;
* `SweepsComplete`: `Spec => []NoSweepForgotten`, under `Unbroken`: no exception ends a
  tick (section 5 says what one does). The saved mark alone is not
  inductive, as the loop sets it in memory before the first child: `SweepInHand` adds
  that what memory counts as begun is still in `todo`, and that memory knows what is
  saved, so `EndTick` saves the mark with nothing owed;
* `SwitchedOffCautiously`: `Spec => CautiousOff`. `RowsSeen` bounds the counts in
  memory and on disk by what the ticks saw, over kills between counting and saving;
* `FailuresAreTold`: `Spec => []PeopleCalled`, under `Unbroken` too. `FailuresKnown` adds that the streak is
  at least the row of failures and that the report of a failing profile is one of
  failure, which is why a child without a report, classified by the report it finds,
  cannot take the last notice back;
* `Strengthened`: `Spec => []IInv`, all of these together; TLC checked it on the
  instance of `loop` first.

The helper lemmas (what is kept by time passing, by reconciling, by the end of a
child) come first, then one lemma per invariant with a step per action.

`ChangeFeed_proofs.tla` proves, for any finite set of files, any page sizes and limits,

* `TypeCorrect`: `Spec => []TypeOK`;
* `CursorNeverAhead`: `Spec => []NeverAhead`. Each probe of the tip search sees the
  drive at another instant; what holds over all of them is that the lower end is at
  or below the drive's last revision, and that the search ends with both ends equal;
* `ReadingKeepsPromise`: `Spec => Promise`, that ChangeFeed implements CatchUp. The
  mapping takes a file for what an answer would say of it (`Is`) and for its revision
  the later of its own and that of the folder it is in (`NewsOf`).

The refinement rests on `PassesHearRight`, `Spec => []IInv`: at every point of a pass,
for every file that is not excused the rows that the view would make by now are right
(`Right`, of `Learned`), or its news is after what has been read (`PassInv`, `DeltaInv`,
`FullInv`). Excused are exactly the files in `missed`, those whose news is in hand and
not yet taken, and those in `lost` while nothing heard puts them right (`NotRighted`). A
view by path takes two more facts: a file without news is heard of only where it is
(`Heeded`), so its row moves nowhere; and an entry that is taken leaves either no older
one that would be taken for the latest, or the file in `missed` (`Outlived`). Of a file
that would get two rows `Right` says nothing: it is in `lost` from the moment they are
written, and no file outside `lost` has two (`BaseInv`).

The steps that need most are a page of the feed (what is after it has a later revision,
or is `Severed`), a page of a listing (what is neither on it nor before it, `Slipped`, is
to come; so a listing that ends has all), and the folder: a file shares a revision with
its folder only when both went to the trash (`Together`). TLC checked `IInv` on the
run's instance first.

`Commands_proofs.tla` proves, for any contents, ids, options, faults and control points,

* `TypeCorrect`: `Spec => []TypeOK`, from the assumptions on the constants alone;
* `BaseIsHonest`: `Spec => []BaseHonest`, and
* `NothingIsLost`: `Spec => NothingLost`, under `Steady`;
* `ChoicesStand`: `Spec => ChoiceStands`, under `Firm`.

`Steady` has three parts, and TLC breaks the properties without any of them: no
`reconcile --trust-size` and no `init --force` (they record a baseline that was never
compared); no save between resolve's `send_to_trash` and its `os.replace` (the save is
overwritten); and either no `resolve local` or no save while push sends (the recorded hash
of section 5: old bytes come back to a file whose new ones were sent under their
hash). The run leaves out the first two but keeps the third, and shows that two acts
are not enough to break it; TLC checked `IInv` with three acts and four contents on an
instance for each way to satisfy `Steady` (3.5 and 7.7 million states) before it was
proved.

`BaseHonest` is not inductive: that pull may replace a file rests on a row read when
the plan was made, and what push records on a hash of then. `IInv` (end of
`Commands.tla`) has two halves. `Sound` speaks of the world: what the drive has it has
shown, files have times of their own, a row's version is not ahead of the drive's, its
time means its bytes wherever a file has it, and its baseline was shown, or
(`Outdated`) belongs to a file saved while it was sent. The other conjuncts speak of
what a command holds between its steps: versions not ahead of the drive's
(`Remembered`), no other file with a scanned time (`Scanned`), the hashed bytes or a
newer save in what push sends (`Sends`), shown bytes in what pull writes over and
writes (`Receives`). Each operation on the world is proved to keep `Sound` and the
bytes by itself; a sync pass is a chain of up to six of them, for which `Taken` says on
what its decision was taken and that the step before has not changed it.

`ChoiceStands` speaks of a promise and of the pass that redeems it, and between the two
any other command may run. `KeepsWord` (also at the end of `Commands.tla`) says what
remains of the promise in the meantime. For `resolve local` it is `Chosen`: the
chosen bytes are at the file, its row has a baseline and a live drive file, and the drive
has the chosen bytes, or the row is without a local stat and of the drive's version. In the
second case every pass decides `UPLOAD_VERSION` (`ChosenDecision`); in the first
it decides nothing that changes this. For the copy it is `Vanished`: no file, no row, no drive file. Each
command has to be shown not to undo that, and what it holds between its steps decides:
push must have hashed the chosen bytes, pull the drive's when they are the chosen ones,
reconcile must not have the file in its list (`Promised`, `Dropped`). Under it lie the
order of the drive (`Ordered`: a name has one live file, its last version is what it has,
a row's file is under the row's name) and that sizes and hashes held are of the
same bytes (`Held`). `Firm` adds to `Steady` that nobody saves between push's scan and
its hashing, unless there is no `resolve local`; section 5 says what happens otherwise.
TLC checked `KeepsWord` on instances that satisfy `Firm` first.

`TreeSync_proofs.tla` proves, for any finite set of paths, any contents, ids, trees to
begin with, modes, limits and acts (failures, crashes and unreadable files among them),

* `TypeCorrect`: `Spec => []TypeOK`. More than domains: folder and drive are trees after
  every step (each path with something has its folders above it, a folder's path never
  has a file's bytes), the drive never has two objects of a name, and rows and plan keep
  their shape, whatever users and other PCs do between the actions of a pass and
  wherever one fails or the process dies;
* `BaseIsSound`: `Spec => []BaseSoundTree`, a synced row is right about its object for as
  long as that keeps its version;
* `NothingIsLost`: `Spec => NothingLost`, no action takes a content off the disk that is to
  be had nowhere else, but for the ways around this that the property names;
* `PlanMakesSense`, `PlanIsInformed`, `WhatIsKnownIsSafe`: `[]IInv`, `[]SInv`, `[]KInv`,
  the three inductive invariants (end of `TreeSync.tla`), each with the one before in it.

`IInv`, for the shape. An action works with an id and a path that were read
at the beginning of the pass, and in between the object may be gone, elsewhere or under
another folder: that `local_move` leaves no folder with a file's object, or a download
no folder's bytes in a file, rests on what the row and the plan name. So `IInv` adds
`RowsFit` (an id in a row is that of an object of the kind of its path) and `Sensible`
(so is an id of an action; both ends of a move are of one kind; what is received has
been seen; a conflict has a file here). It is kept because an object never changes its
kind (`Keeps`, `NowOK`), not even in the trash.

`SInv`, for the baselines. `BaseSoundTree` speaks of synced rows only, but a row becomes
synced from one that was not (a move, an adoption), and from what an action saw when
the pass began. So what is required of every row with an id is `Recorded`: its version is
not ahead of the object's, and at that version its content is the object's (`RowsSound`);
the same of what an action saw (`Informed`). Others only write with new versions (`Grows`),
so both stand whatever they do (`Stands`). A move takes the row's baseline along, so
it must still be the row it was planned for, when other actions of the plan, and
moves of whole folders, have been done before it: `Apart` says that a path moves once
and nothing else is done under a folder that moves, which is what `_defer_moved_subtrees`
and the order of `diff`'s cases are for. An upload that records the scan's MD5 of a file
saved since is the one exception, and `claimed` names what it recorded.

`KInv`, for the bytes. That a download may replace a file rests on a comparison with a
row, and the row's content on what a transfer, a move or a crash left in it. `DriveKept`
and `RowsKept` say that what the drive has, and what any row says its file held, is safe (in
`kept`, or claimed); `Careful` says the same of what each action will find when the file is
still as it was compared, or else that it was not read. The executor's own checks do
the rest: a file that changed is protected (`Download`, `Conflict`), and a file or folder
that changed is not trashed (`ChangedSince`, `GoneSame`).

The proof goes from below. `TreePlan_proofs.tla` has paths: what a prefix and a common
prefix say, and what a move makes of them (`ImageIs`, `ImageThere`, `ImageAbove`: the
folders above a moved path are moved ones or those above the target). Then come the two
trees, for any disk and any drive: taking a subtree away, putting something with the
folders above it, moving a subtree keep the shape. `ensure_remote_folder` is the hardest
of them: a chain of folders gets ids one by one, `ChainIds` shows that they are
different, in the order of depth, and that one is left for the file. Then, for each of
the three invariants, each handler of the executor makes a good world of a good one
(`DoesOK`, `DoesFine`, `DoesHarmless`), each decision of `diff` and the plan is
good (`DiffSensible`, `DiffInformed`, `DiffCareful`), and each action of the model
keeps the invariant (`StepInv`, `StepSound`, `StepSafe`). TLC checked all three on the
instances of `tree_full` and `tree_feed` first.

The assumptions on the constants say what a path is: with it come the folders above it,
a name is a file's or a folder's wherever it is (a file where a folder was is left out),
and a file may have any file's name in any folder (the first half of a move that is
cut short). `None` is no path, content or number. A tree to begin with holds the folders
of its paths and has ids enough.

Only model-checked:

* `TrashOnlyHeld` holds of its run's acts, not of all: with more of them a folder whose row is
  protected takes a file along that was never received (section 5), so there is no
  theorem without an assumption on several acts at once that would say little.
* `NothingMissed` is violated by several of the acts (`place_taken`, and those
  section 5 names), and for the others it is a statement about the whole of a feed that
  the proof does not follow yet; `CursorIsHonest` (FileSync) and
  `ReadingKeepsPromise` (ChangeFeed) prove it for one path and for the reading.
* `BulkGate` counts with a fold over the plan, which needs induction over data.
* `Convergence`, `EveryoneRuns`, `CatchesUp` and the two `Converges` are liveness under
  fairness and beyond the prover.

## 5. Where code and comments disagree

One is a run that TLC finds violated.

* **place_taken.** Another PC moves a file and puts a new one in its place. The key is
  answered by the move alone (`differ.py:279`), the new object is not compared, and a
  delta pass saves its cursor behind it; "나머지를 재적용" (278) does not happen.

The models reproduce these as well; they are not kept as runs.

* A folder's deletion waits for what is still to be done under it, but a
  child that is only reported is not counted (`planner.py:262`). A file moved out on
  the drive, which is to stay on the disk ("로컬은 그대로 둡니다", `differ.py:306`),
  goes into the recycle bin with its unsent edit when its folder is trashed there, and
  so does a file that is only protected. `NothingLost` allows this (`Recycled`) for bytes
  the scan saw.
  (Without it: `TreeSync_feed` with `Modes <- Plain` and `Acts = {"save", "trash", "out"}`.)
* A file that another PC moved and edited, edited here too, and whose hash fails in the
  pass: `_remote_move` asks `if lm and ...` (`differ.py:391`) and so takes it for
  unedited, moves it and downloads over the edit without a copy, which is what the
  comment above says must not happen ("편집이 사본도 없이 사라진다", `differ.py:377`, of a
  baseline that is missing). `NothingLost` allows this (`unread`). (Without it:
  `TreeSync_full` with `FewTrees`, `FewFiles` and `FewFolders`, `Rare = {}`, `MaxEnv = 4`
  and `Acts = {"save", "put", "move", "unread"}`.)
* A file renamed here and trashed on the drive is paired in a full
  pass (`differ.py:432` looks at the tombstones of a delta only): each pass tries to
  move an object in the trash, and the file is never sent.
  (`TreeSync_converge` with `Acts = {"rename", "trash"}`.)
* A file saved while a new drive file was being downloaded is protected by `_mark`
  without the action (`executor.py:151`): no id, no probe, and each delta pass tries
  `UPLOAD_NEW` and withdraws. (`FileSync_converge` with `Modes <- DeltaAttended`.)
* A new file that changes during its upload gets a row without a hash and is
  protected from then on, though the message promises that the next run sends it
  (`executor.py:391`).
* The guards after a 409 compare with a known id and a base version; an `UPLOAD_NEW`
  without a row has neither. (`FileSync_safety` with `RemotePoints <- BeforePost`.)
* A save between the stat and the hash after an upload is recorded as synced.
  (`FileSync_safety` with `SavePoints <- WhileHashing`.)
* The hash that is recorded after a transfer is the one taken before it (`executor.py:400`,
  `main.py:1155`), also when the file changed in between and other bytes were sent
  ("전송 중 로컬 파일이 변경됨 — 다음 실행에서 재전송", `executor.py:391`). If the old
  bytes come back (an undo, a choice in resolve), differ takes the file for unchanged:
  with another size a download replaces it, with the same size it is never sent.
  (`FileSync_safety` with `Undo = TRUE`: `NoLostSave`; `Commands` with `MaxEnv = 3`:
  `BaseHonest`; `TreeSync` keeps such records in `claimed`.)
* `_apply_backoff` doubles a period that is compared with the last *finished* sync; a
  profile that fails is run at every tick once the doubled period has passed.
* A profile parked after exit 2 is not taken up again when a person's own run
  succeeds, only when the config changes.
* Work under a folder that is being moved is left to "the next run" (`planner.py:290`),
  which in delta passes hears nothing of it. An unattended delta pass that holds a
  conflict back, and a path the scan skipped, let the cursor pass a change in the same
  way. (`TreeSync_feed` with `movedir`, `Modes <- Auto`, `unobs`.)
* A file under a trashed folder that cannot be read is recycled with it in a full pass;
  a folder whose row is protected without an id can take along a file never received.
* A move to a place that is taken is protected in every pass; a folder moved on both
  sides, a folder's move that fails after `os.replace`, and a folder's `REMOTE_TRASH`
  that fails (the folder comes back) are settled only by a person. A move into a
  folder that is being trashed goes with it, uncounted by the bulk gate.
* A deletion here whose trash a crash breaks off, then a new save, a new file of
  another PC under the name and a hash that fails: the row keeps the dead id, marked
  "error", and the cursor of a delta pass passes the new file. (`FileSync_feed` with
  "hash" in `Faults` and `MaxEnv = 5`.)
* A crash followed by a failed retry creates a row without an id; a file replaced on
  the drive whose download fails keeps the dead id; a file trashed and created again
  with the same version and size passes for unchanged; saves between `os.replace` and
  the recorded stat, or between a conflict's rename and its download, go unnoticed.
* A notices file that cannot be decoded (`notify.py:43`) ends the tick with an exception
  (`runner.py:697`, "다음 틱에 다시 시도합니다"). The date of an evening sweep that has begun
  stays in memory (577) and the next tick saves it, with profiles that had no turn; and
  each failure until the file is mended goes without its notice. (`AutoRunner_loop` with
  `Acts <- AllActs`: `NoSweepForgotten`, `PeopleCalled`.)
* In the automatic loop, a child that dies without a report is classified by the
  report of an earlier run (`runner.py:245`); the names of a tick are not read again
  after the markers were reconciled (`runner.py:556`); the notice of a config error is
  taken back only by a person; `max_disable` holds per tick; `last_tick` is when the
  tick began, so a sweep longer than the day gap is followed by another.
* A tick killed before its state is saved loses what it saw: a marker that was there
  does not end the row of absences, and a profile may be switched off though its
  absences were not consecutive ("연속", `runner.py:443`). `CautiousOff` counts the
  ticks that came to their end.

* The cursor is a revision. A page that ends within one leaves siblings that are never
  asked for (`GetChanges`); `models.py:261` and `docs/검토보고서.md:128` say that the
  truncation in `delta` protects them, but it only covers `max_items`. With `Severed`
  empty `Promise` fails.
* A file that another PC moves and then trashes (or moves on), all within one delta pass:
  the entry at its new place is in the view before the deletion, which is put at the old
  place (`remote.py:424`) and clears only that. `diff` finds the move first
  (`differ.py:279`), the executor moves the file without asking the drive
  (`executor.py:592`), and the cursor passes the deletion: a "synced" row for a file in
  the trash, or two rows of one id when it was moved twice. "나중 것이 최신이다"
  (`remote.py:413`) holds for one path and not for one file. The next change of the
  file or a full pass puts it right. (`ChangeFeed` without `Outlived` in `TakeFile`.)
* When the relisting of a renamed folder fails, the summary says "다음 실행에서
  이어집니다" (`main.py:2134`), but the cursor passes the rename and no later delta
  comes back to it. The rows under the folder go along with its own local move; a file
  that has no row there yet is not heard of before its next change. A folder renamed
  twice within one pass is listed under its first name.
* A walk by page number loses a child when an earlier one leaves the folder between two
  pages; absent from a full view, it is taken for deleted on the drive, and its next
  mention is its next change.
* A revision with more changes than `max_items` is never got past.
* `init --force` keeps the local half of a row and takes the new version of the drive's
  file (`main.py:630`), so that the baseline is no longer "the content that last agreed
  with the drive" (`main.py:2880`) and the next sync uploads over what it never saw:
  `BaseHonest` fails with "init force" in `Options`. `reconcile --trust-size` does it
  by the person's choice.
* `init` walks before it takes its cursor; the comment at `main.py:2491` says why a
  full pass does it the other way round. Only a repeated `init` is hurt: the first
  sync after the first is a full one.
* push makes a new version of a drive file it has no row for, whatever it holds (D1,
  `tests/test_regressions.py:323`), though a row without a baseline is held back as
  ambiguous (`main.py:895`). The old version stays on the drive.
* `_drop_remote_copy` says nothing when the copy's row has no id: the drive's file of
  the copy, if there is one, stays and comes back with the next sync.
* A save between resolve's `send_to_trash` and its `os.replace` is overwritten
  (`SavePoints` with "back").
* push scans, then hashes. A file saved in between gets a row with the size of the old
  bytes as that of the drive's version (`main.py:1155`, `remote_size`) and the hash of the
  new. If `resolve local` then brings bytes to the file, the next sync takes the
  unchanged drive file for changed and makes a new conflict, where "다음 sync에서 업로드"
  (2893) was announced. (`Commands` with "plan" in
  `SavePoints`, four contents and `MaxEnv = 3`: `ChoiceStands`.)

## 6. Plan

1. Differ, FileSync and its first proofs (done).
2. AutoRunner: ticks, sweeps, back-off, parking, notices, marker hysteresis and
   the proofs of its safety (done).
3. TreePlan and TreeSync: moves, folders, plan and gates (done).
4. Commands: push, pull, reconcile, resolve and init beside sync (done).
5. CatchUp and ChangeFeed: paging, truncation, listings, the search for the tip; the
   refinement and its proof (done).
6. Proofs of `NoBuriedVersion` and `TrashOnlySeen` (done).
7. Proofs of the commands: types, `BaseHonest`, `NothingLost` (done).
8. Proofs of `NoFakeConflict` and `NoMissedChange` (done).
9. Proof of the tree pass's shape: paths, trees, ids, kinds (done).
10. Proof of `ChoiceStands` (done).
11. Proofs of `BaseSoundTree` and of TreeSync's `NothingLost` (done).
12. Left: that a plan always has an action that may go next; what of `NothingMissed` holds
    of whole feeds; an abstract replica that FileSync implements.

## 7. Not modelled

Parsing, TOML, credentials, console dialogue, installers and probe scripts;
character-level path rules and names that collide; retries, pacing and redirects of
the HTTP client, which change no state of the program; the byte-range lock itself; the
enrolment of the runner in Windows; git's lock files (`tools/gitlock.py`), where
everything that matters is what git and Windows do. `PROJECT.json` lists every
component with its reason.
