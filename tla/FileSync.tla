------------------------------ MODULE FileSync ------------------------------
(***************************************************************************)
(* One file path kept in step between a Windows folder and Dooray Drive by *)
(* `dsync sync` (cli/main.py sync, core/remote.py, core/differ.py,         *)
(* core/planner.py, core/executor.py, core/journal.py, store/db.py).       *)
(*                                                                         *)
(* The tool makes passes: recover the journal, scan the folder, observe    *)
(* the drive (full walk or changes since the cursor), compare, plan,       *)
(* execute one action, save the cursor.  Every point where the code stats, *)
(* reads, transfers or commits is a step of its own, and between any two   *)
(* of them the user, other PCs and failures may act.                       *)
(*                                                                         *)
(* Left out: folders, moves, names, other paths (so the bulk gate, budgets *)
(* and exclusions are choices), temporary files, and the later life of a   *)
(* conflict copy, which is an ordinary file at a path of its own.          *)
(***************************************************************************)
EXTENDS Differ, FiniteSets

CONSTANTS
    Content,        \* the bytes a file may hold
    Size,           \* Content -> size in bytes
    ObjId,          \* file ids the server hands out, never twice
    Stamp,          \* modification times
    MaxEnv,         \* bound: acts of users, other PCs and failures in a behaviour
    SavePoints,     \* the control points at which the local user may act
    RemotePoints,   \* the control points at which other PCs may write
    TrashPoints,    \* the control points at which other PCs may trash
    Faults,         \* the failures that may happen
    Modes,          \* the kinds of pass that may be started
    Undo            \* may anyone write bytes that were written before?

Pc == {"idle", "scan", "tip", "walk", "changes", "probe", "diff", "gate",
       "list", "put", "post", "requery", "stat", "record",
       "precheck", "fetch", "guard", "replace", "fresh",
       "cstat", "rename", "crecord", "copy",
       "verify", "trash", "rtrash", "rmove", "commit", "touch", "forget", "save"}

FaultKind == {"crash", "transfer", "lost", "hash", "probe", "unobserved",
              "recycle"}

Mode == [full : BOOLEAN, propagate : BOOLEAN, unattended : BOOLEAN]

(* Passes start only when no other instance runs (util/lock.py).           *)
ASSUME NoneAssumption == /\ None \notin Content /\ None \notin ObjId
                         /\ None \notin Stamp /\ None \notin Nat
ASSUME SizeAssumption == Size \in [Content -> Nat]
ASSUME FiniteAssumption == IsFiniteSet(Content) /\ IsFiniteSet(ObjId)
ASSUME BoundAssumption == MaxEnv \in Nat
ASSUME ChoiceAssumption ==
    /\ SavePoints \subseteq Pc /\ RemotePoints \subseteq Pc
    /\ TrashPoints \subseteq Pc
    /\ Faults \subseteq FaultKind /\ Modes \subseteq Mode /\ Undo \in BOOLEAN

VARIABLES
    disk,       \* the local file: [c, mt], c = None when there is none
    obj,        \* the drive: ObjId -> [st, ver, c, rev]
    rev,        \* the drive's latest revision
    kept,       \* bytes the drive ever held (versions and its trash keep them)
    bin,        \* bytes in the Windows recycle bin
    copies,     \* bytes kept as conflict copies beside the file
    unlisted,   \* bytes of a conflict copy not in the conflicts table yet
    typed,      \* bytes ever written by anyone (a history variable)
    rec,        \* the files row of the path (store/db.py)
    cursor,     \* the saved changes cursor
    journal,    \* the op of the journal entries not committed or failed
    pc,         \* where the pass is
    mode,       \* the options of the pass
    entry,      \* the scanned local entry, md5 filled in by diff
    unobs,      \* the scan skipped the path
    view,       \* what was observed of the drive
    kind,       \* the decision
    found,      \* upload: the remote file found, then what the transfer returned
    expect,     \* download: the stat taken before the transfer
    got,        \* download: the bytes in the temporary file
    moved,      \* upload: the file changed while it was transferred
    left        \* acts left to users, other PCs and failures

env    == <<typed, left>>
server == <<obj, rev, kept>>
local  == <<disk, bin, copies, unlisted>>
store  == <<rec, cursor, journal>>
volat  == <<mode, entry, unobs, view, kind, found, expect, got, moved>>
vars   == <<env, server, local, store, pc, volat>>

SizeOf(c) == IF c = None THEN None ELSE Size[c]
Stat      == [mt |-> disk.mt, sz |-> SizeOf(disk.c)]
NoStat    == [mt |-> None, sz |-> None]
NoFile    == [c |-> None, mt |-> None]
NoObject  == [st |-> "none", ver |-> 0, c |-> None, rev |-> 0]
NoFound   == [id |-> None, ver |-> None]
NoView    == [r |-> NoRemote, deleted |-> FALSE, complete |-> FALSE, next |-> 0]
NoMode    == [full |-> FALSE, propagate |-> FALSE, unattended |-> FALSE]

Live(o)    == obj[o].st = "live"
LiveIds    == {o \in ObjId : Live(o)}
LiveBytes  == {obj[o].c : o \in LiveIds}
FreshIds   == {o \in {o \in ObjId : obj[o].st = "none"} :
                   o = CHOOSE x \in ObjId : obj[x].st = "none"}

(* A save gets a modification time the program does not hold any more; at  *)
(* most one is offered, which one makes no difference.                     *)
InUse      == {disk.mt, entry.mt, rec.lmt, expect.mt}
FreshStamp == {m \in Stamp \ InUse : m = CHOOSE x \in Stamp \ InUse : TRUE}
NewBytes   == IF Undo THEN Content ELSE Content \ typed

Fault(f)   == f \in Faults /\ left > 0
Spend      == left' = left - 1

-----------------------------------------------------------------------------
(* The states a profile can be in when the first modelled pass starts:     *)
(* nothing anywhere, a synced file, or a drive file that `init` has        *)
(* recorded without downloading it, next to a local file or not.           *)
InitEmpty ==
    /\ obj = [o \in ObjId |-> NoObject] /\ rev = 0 /\ cursor = 0
    /\ kept = {} /\ typed = {} /\ disk = NoFile /\ rec = NoRow

OneObject(o, c) ==
    /\ obj = [x \in ObjId |-> IF x = o
                THEN [st |-> "live", ver |-> 0, c |-> c, rev |-> 1]
                ELSE NoObject]
    /\ rev = 1 /\ cursor = 1 /\ kept = {c}

InitSynced == \E o \in ObjId, c \in Content, m \in Stamp :
    /\ o = CHOOSE x \in ObjId : TRUE
    /\ m = CHOOSE x \in Stamp : TRUE
    /\ OneObject(o, c) /\ typed = {c} /\ disk = [c |-> c, mt |-> m]
    /\ rec = [id |-> o, lmt |-> m, lsz |-> Size[c], lc |-> c, rver |-> 0,
              rsz |-> Size[c], rc |-> c, st |-> "synced"]

InitRecorded == \E o \in ObjId, c \in Content, d \in Content \cup {None}, m \in Stamp :
    /\ o = CHOOSE x \in ObjId : TRUE
    /\ m = CHOOSE x \in Stamp : TRUE
    /\ OneObject(o, c) /\ typed = {c, d} \ {None}
    /\ disk = IF d = None THEN NoFile ELSE [c |-> d, mt |-> m]
    /\ rec = [id |-> o, lmt |-> None, lsz |-> None, lc |-> None, rver |-> 0,
              rsz |-> Size[c], rc |-> None, st |-> "pending_download"]

Init ==
    /\ InitEmpty \/ InitSynced \/ InitRecorded
    /\ bin = {} /\ copies = {} /\ unlisted = None
    /\ journal = "none" /\ left = MaxEnv /\ pc = "idle"
    /\ mode = NoMode /\ entry = NoEntry /\ unobs = FALSE /\ view = NoView
    /\ kind = "none" /\ found = NoFound /\ expect = NoStat /\ got = None
    /\ moved = FALSE

Forgotten ==
    /\ mode' = NoMode /\ entry' = NoEntry /\ unobs' = FALSE /\ view' = NoView
    /\ kind' = "none" /\ found' = NoFound /\ expect' = NoStat /\ got' = None
    /\ moved' = FALSE

-----------------------------------------------------------------------------
(* The local user.                                                         *)
Save == \E c \in NewBytes, m \in FreshStamp :
    /\ pc \in SavePoints /\ left > 0 /\ Spend
    /\ disk' = [c |-> c, mt |-> m]
    /\ typed' = typed \cup {c}
    /\ UNCHANGED <<server, bin, copies, unlisted, store, pc, volat>>

Delete ==
    /\ pc \in SavePoints /\ left > 0 /\ Spend
    /\ disk.c # None /\ disk' = NoFile
    /\ UNCHANGED <<typed, server, bin, copies, unlisted, store, pc, volat>>

(* Effects on the drive: a new version, a new file, a move to the trash.   *)
PutVersion(o, c) ==
    /\ rev' = rev + 1
    /\ kept' = kept \cup {c}
    /\ obj' = [obj EXCEPT ![o] = [st |-> "live", ver |-> obj[o].ver + 1,
                                  c |-> c, rev |-> rev + 1]]

PostNew(o, c) ==
    /\ rev' = rev + 1
    /\ kept' = kept \cup {c}
    /\ obj' = [obj EXCEPT ![o] = [st |-> "live", ver |-> 0,
                                  c |-> c, rev |-> rev + 1]]

TrashObject(o) ==
    /\ rev' = rev + 1
    /\ obj' = [obj EXCEPT ![o] = [st |-> "trash", ver |-> 0, c |-> None,
                                  rev |-> rev + 1]]
    /\ UNCHANGED kept

(* Other PCs and the web, writing to the same path of the drive.           *)
OtherWrites ==
    /\ pc \in RemotePoints /\ left > 0 /\ Spend
    /\ \E c \in NewBytes :
        /\ typed' = typed \cup {c}
        /\ IF LiveIds = {} THEN \E o \in FreshIds : PostNew(o, c)
                           ELSE \E o \in LiveIds : PutVersion(o, c)
    /\ UNCHANGED <<local, store, pc, volat>>

OtherTrashes ==
    /\ pc \in TrashPoints /\ left > 0 /\ Spend
    /\ \E o \in LiveIds : TrashObject(o)
    /\ UNCHANGED <<typed, local, store, pc, volat>>

(* The process dies, or an exception outside the per-item handler ends the *)
(* pass: everything in memory is gone, the disk, the drive and the         *)
(* database stay.                                                          *)
Crash ==
    /\ pc # "idle" /\ Fault("crash") /\ Spend
    /\ pc' = "idle" /\ Forgotten
    /\ UNCHANGED <<typed, server, local, store>>

-----------------------------------------------------------------------------
(* The pass, up to the decision.                                           *)

Goto(p) == pc' = p

UploadOps   == {"UPLOAD_NEW", "UPLOAD_VERSION", "REMOTE_TRASH"}
DownloadOps == {"DOWNLOAD_NEW", "DOWNLOAD_UPDATE", "CONFLICT", "LOCAL_TRASH"}

(* _mark: values stay, the status changes; a missing row is created bare.  *)
Mark(status) == [rec EXCEPT !.st = status]

(* With action= a row created now is given the remote id of the decision.  *)
MarkError == [rec EXCEPT !.st = "error",
                         !.id = IF rec.st = "none" THEN view.r.id ELSE rec.id]

(* Start a pass and recover(): an unfinished entry only marks its row, and *)
(* a conflict copy that was not listed yet is listed.                      *)
Start ==
    /\ pc = "idle" /\ Goto("scan")
    /\ mode' \in Modes
    /\ journal' = "none"
    /\ rec' = IF journal \in UploadOps THEN Mark("pending_upload")
              ELSE IF journal \in DownloadOps THEN Mark("pending_download")
              ELSE rec
    /\ unlisted' = IF journal = "CONFLICT" THEN None ELSE unlisted
    /\ UNCHANGED <<env, server, disk, bin, copies, cursor, entry, unobs, view,
                   kind, found, expect, got, moved>>

(* LocalScanner.scan: sizes and times, no hashes.  A path that cannot be   *)
(* read is skipped and remembered as skipped.                              *)
Observe == IF mode.full THEN "tip" ELSE "changes"

Scan ==
    /\ pc = "scan" /\ Goto(Observe)
    /\ entry' = [mt |-> disk.mt, sz |-> SizeOf(disk.c), c |-> None]
    /\ UNCHANGED <<env, server, local, store, mode, unobs, view, kind, found,
                   expect, got, moved>>

ScanSkips ==
    /\ pc = "scan" /\ Goto(Observe)
    /\ Fault("unobserved") /\ Spend
    /\ unobs' = TRUE
    /\ UNCHANGED <<typed, server, local, store, mode, entry, view, kind, found,
                   expect, got, moved>>

(* An unattended pass that finds too little of the folder stops here.      *)
HoldCollapse ==
    /\ pc = "scan" /\ mode.unattended /\ left > 0 /\ Spend
    /\ Goto("idle") /\ Forgotten
    /\ UNCHANGED <<typed, server, local, store>>

(* Full pass: the tip of the change feed first, the walk after it.         *)
Tip ==
    /\ pc = "tip" /\ Goto("walk")
    /\ view' = [NoView EXCEPT !.complete = TRUE, !.next = rev]
    /\ UNCHANGED <<env, server, local, store, mode, entry, unobs, kind, found,
                   expect, got, moved>>

(* A list or meta answer carries no hash.                                  *)
ListEntry(o) == [id |-> o, ver |-> obj[o].ver, sz |-> Size[obj[o].c], c |-> None]
FeedEntry(o) == [ListEntry(o) EXCEPT !.c = obj[o].c]

Walk ==
    /\ pc = "walk" /\ Goto("diff")
    /\ IF LiveIds = {} THEN UNCHANGED view
       ELSE \E o \in LiveIds : view' = [view EXCEPT !.r = ListEntry(o)]
    /\ UNCHANGED <<env, server, local, store, mode, entry, unobs, kind, found,
                   expect, got, moved>>

(* Delta pass: one item for each object changed since the cursor; the      *)
(* tombstone of an id that is not in the base is ignored, and an entry     *)
(* that follows a tombstone on the same key replaces it.                   *)
ChangedIds == {o \in ObjId : obj[o].st # "none" /\ obj[o].rev > cursor}

Changes ==
    /\ pc = "changes" /\ Goto("probe")
    /\ LET alive == ChangedIds \cap LiveIds
           next  == IF ChangedIds = {} THEN cursor ELSE rev
       IN  IF alive = {}
           THEN view' = [NoView EXCEPT !.deleted = rec.id \in ChangedIds,
                                       !.next = next]
           ELSE \E o \in alive :
                    view' = [NoView EXCEPT !.r = FeedEntry(o), !.next = next]
    /\ UNCHANGED <<env, server, local, store, mode, entry, unobs, kind, found,
                   expect, got, moved>>

(* _probe_dirty: ask for the file of a row that is not settled, or whose   *)
(* local file is gone.  An object that cannot be read is not taken for     *)
(* deleted.                                                                *)
Dirty == rec.id # None /\ rec.st \notin {"none", "synced"}
Gone  == rec.id # None /\ ~Here(entry)
Asks  == ~Seen(view.r) /\ ~view.deleted /\ (Dirty \/ Gone)

(* A vanished file is asked for in every propagating pass, in the others   *)
(* at most once a day; the budget or an error may still leave it unseen.   *)
ProbeFinds ==
    /\ pc = "probe" /\ Goto("diff") /\ Asks
    /\ view' = IF rec.id \in LiveIds THEN [view EXCEPT !.r = ListEntry(rec.id)]
                                     ELSE view
    /\ UNCHANGED <<env, server, local, store, mode, entry, unobs, kind, found,
                   expect, got, moved>>

ProbeSkips ==
    /\ pc = "probe" /\ Goto("diff")
    /\ IF Asks /\ (Dirty \/ mode.propagate) THEN Fault("probe") /\ Spend
                                            ELSE UNCHANGED left
    /\ UNCHANGED <<typed, server, local, store, mode, entry, unobs, view, kind,
                   found, expect, got, moved>>

(* diff(): the hashes it reads are those of this moment, not of the scan   *)
(* or of the walk.                                                         *)
HashLocal ==
    IF ReadsLocal(rec, entry, view.r) THEN [entry EXCEPT !.c = disk.c] ELSE entry

HashRemote ==
    IF view.r.c # None THEN view.r.c
    ELSE IF view.r.id \in LiveIds THEN obj[view.r.id].c ELSE None

DecideWith(e, rm) ==
    Decide(rec, e, view.r, unobs, view.deleted, view.complete, mode.propagate,
           e.c, rm)

Diff ==
    /\ pc = "diff" /\ Goto("gate")
    /\ entry' = HashLocal
    /\ kind' = DecideWith(HashLocal, HashRemote)
    /\ UNCHANGED <<env, server, local, store, mode, unobs, view, found, expect,
                   got, moved>>

(* The local file is locked, or the remote bytes cannot be fetched.        *)
DiffBlind ==
    /\ pc = "diff" /\ Goto("gate") /\ Fault("hash") /\ Spend
    /\ \/ entry' = entry /\ kind' = DecideWith(entry, HashRemote)
       \/ entry' = HashLocal /\ kind' = DecideWith(HashLocal, view.r.c)
    /\ UNCHANGED <<typed, server, local, store, mode, unobs, view, found, expect,
                   got, moved>>

-----------------------------------------------------------------------------
(* The plan.  With one path the bulk gate and the unattended delete grade  *)
(* depend on the other paths: any trash may be stopped by the first, and   *)
(* in an unattended pass put off by the second.                            *)
FirstStep == [k \in Acting |->
    CASE k \in {"UPLOAD_NEW", "UPLOAD_VERSION"}      -> "list"
      [] k \in {"DOWNLOAD_NEW", "DOWNLOAD_UPDATE"}   -> "precheck"
      [] k = "CONFLICT"     -> "cstat"
      [] k = "LOCAL_TRASH"  -> "verify"
      [] k = "REMOTE_TRASH" -> "rtrash"
      [] k = "TOUCH_BASE"   -> "touch"
      [] k = "FORGET"       -> "forget"]

(* A file that could not be hashed gets its error recorded before the plan *)
(* runs (_record_error).                                                   *)
Unhashed == ReadsLocal(rec, entry, view.r) /\ entry.c = None
RecordHashFailure == rec' = IF Unhashed THEN Mark("error") ELSE rec

MayDefer == \/ kind = "LOCAL_TRASH" /\ Fault("recycle") /\ Spend
            \/ kind \in TrashKinds /\ mode.unattended /\ UNCHANGED left

Execute ==
    /\ pc = "gate" /\ kind \in Acting
    /\ ~(kind = "CONFLICT" /\ mode.unattended)
    /\ Goto(FirstStep[kind])
    /\ RecordHashFailure
    /\ UNCHANGED <<env, server, local, cursor, journal, volat>>

NothingToDo ==
    /\ pc = "gate" /\ Goto("save")
    /\ kind \notin Acting \/ (kind = "CONFLICT" /\ mode.unattended)
    /\ RecordHashFailure
    /\ UNCHANGED <<env, server, local, cursor, journal, volat>>

Defer ==
    /\ pc = "gate" /\ Goto("save") /\ MayDefer
    /\ UNCHANGED <<typed, server, local, store, volat>>

BulkDeleteAbort ==
    /\ pc = "gate" /\ kind \in TrashKinds /\ left > 0 /\ Spend
    /\ Goto("idle") /\ Forgotten
    /\ UNCHANGED <<typed, server, local, store>>

(* Mutation: save the tip of the feed as it is after the execution.        *)
SaveLatestTip ==
    /\ pc = "save" /\ Goto("idle")
    /\ cursor' = rev /\ Forgotten
    /\ UNCHANGED <<env, server, local, rec, journal>>

SaveCursor ==
    /\ pc = "save" /\ Goto("idle")
    /\ cursor' = view.next /\ Forgotten
    /\ UNCHANGED <<env, server, local, rec, journal>>

Pass == \/ Start \/ Scan \/ ScanSkips \/ HoldCollapse \/ Tip \/ Walk \/ Changes
        \/ ProbeFinds \/ ProbeSkips \/ Diff \/ DiffBlind
        \/ Execute \/ NothingToDo \/ Defer \/ BulkDeleteAbort \/ SaveCursor
-----------------------------------------------------------------------------
(* Execution: how an action ends.                                          *)
Begin == journal' = kind

(* An exception: the row is marked, the journal entry stays open.          *)
Fails ==
    /\ Goto("save") /\ rec' = MarkError
    /\ UNCHANGED <<cursor, journal>>

(* LocalChangedDuringSync: no action is passed, a new row has no file id.  *)
Protects ==
    /\ Goto("save") /\ rec' = Mark("pending_download")
    /\ UNCHANGED cursor

(* An upload that would cover a file this PC does not know ends quietly.   *)
Withdraws ==
    /\ Goto("save") /\ rec' = Mark("pending_upload")
    /\ UNCHANGED cursor

Untouched == disk.mt = entry.mt /\ SizeOf(disk.c) = entry.sz

-----------------------------------------------------------------------------
(* upload: look the name up in the parent's list, check, begin.            *)
LiveFound == IF LiveIds = {} THEN {NoFound}
             ELSE {[id |-> o, ver |-> obj[o].ver] : o \in LiveIds}

OtherFile(f) == f.id # None /\ f.id # rec.id
(* Mutation: no comparison with the base version.                          *)
VersionIgnored(f) == FALSE

VersionAhead(f) == /\ f.id # None /\ rec.rver # None
                   /\ f.ver # 0 /\ f.ver > rec.rver

UnknownTarget(f) == \/ kind = "UPLOAD_NEW" /\ OtherFile(f)
                    \/ kind = "UPLOAD_VERSION" /\ rec.id # None /\ OtherFile(f)
                    \/ VersionAhead(f)

List == \E f \in LiveFound :
    /\ pc = "list"
    /\ found' = f
    /\ IF UnknownTarget(f)
       THEN Withdraws /\ UNCHANGED journal
       ELSE /\ Goto(IF f.id = None THEN "post" ELSE "put")
            /\ Begin /\ UNCHANGED <<rec, cursor>>
    /\ UNCHANGED <<env, server, local, mode, entry, unobs, view, kind, expect,
                   got, moved>>

(* Mutation: send whatever is there, a vanished file as nothing.           *)
PutVanished ==
    /\ pc = "put" /\ found.id \in LiveIds
    /\ PutVersion(found.id, disk.c)
    /\ found' = [found EXCEPT !.ver = obj[found.id].ver + 1]
    /\ Goto("stat")
    /\ UNCHANGED <<env, local, store, mode, entry, unobs, view, kind, expect,
                   got, moved>>

(* The transfer sends the bytes the file holds now.                        *)
Put ==
    /\ pc = "put" /\ disk.c # None /\ found.id \in LiveIds
    /\ PutVersion(found.id, disk.c)
    /\ found' = [found EXCEPT !.ver = obj[found.id].ver + 1]
    /\ Goto("stat")
    /\ UNCHANGED <<env, local, store, mode, entry, unobs, view, kind, expect,
                   got, moved>>

Post == \E o \in FreshIds :
    /\ pc = "post" /\ disk.c # None /\ LiveIds = {}
    /\ PostNew(o, disk.c)
    /\ found' = [id |-> o, ver |-> 0]
    /\ Goto("stat")
    /\ UNCHANGED <<env, local, store, mode, entry, unobs, view, kind, expect,
                   got, moved>>

(* 409: the name is taken; ask again which file has it.                    *)
PostConflict ==
    /\ pc = "post" /\ disk.c # None /\ LiveIds # {}
    /\ Goto("requery")
    /\ UNCHANGED <<env, server, local, store, volat>>

UnknownAfterConflict(f) == (rec.id # None /\ OtherFile(f)) \/ VersionAhead(f)

Requery == \E f \in LiveFound :
    /\ pc = "requery"
    /\ found' = f
    /\ \/ f.id = None /\ Fails
       \/ f.id # None /\ UnknownAfterConflict(f) /\ Withdraws /\ journal' = "none"
       \/ f.id # None /\ ~UnknownAfterConflict(f) /\ Goto("put") /\ UNCHANGED store
    /\ UNCHANGED <<env, server, local, mode, entry, unobs, view, kind, expect,
                   got, moved>>

(* The local file is gone, or the file to replace is in the trash.         *)
UploadRefused ==
    /\ \/ pc \in {"put", "post"} /\ disk.c = None
       \/ pc = "put" /\ found.id \notin LiveIds
    /\ Fails
    /\ UNCHANGED <<env, server, local, volat>>

TransferFails ==
    /\ pc \in {"put", "post", "requery", "fetch", "rmove"}
    /\ Fault("transfer") /\ Spend /\ Fails
    /\ UNCHANGED <<typed, server, local, volat>>

(* The drive has it, but the answer is lost.                               *)
AnswerLost ==
    /\ Fault("lost") /\ Spend /\ Fails
    /\ \/ /\ pc = "put" /\ disk.c # None /\ found.id \in LiveIds
          /\ PutVersion(found.id, disk.c)
       \/ /\ pc = "post" /\ disk.c # None /\ LiveIds = {}
          /\ \E o \in FreshIds : PostNew(o, disk.c)
       \/ /\ pc = "rmove" /\ rec.id \in LiveIds
          /\ TrashObject(rec.id)
    /\ UNCHANGED <<typed, local, volat>>

(* Did the file change while it was sent?                                  *)
StatAfterUpload ==
    /\ pc = "stat" /\ Goto("record")
    /\ moved' = (disk.c # None /\ ~Untouched)
    /\ UNCHANGED <<env, server, local, store, mode, entry, unobs, view, kind,
                   found, expect, got>>

(* Hash the file unless diff already did, and record the upload.           *)
UploadedRow(md5) ==
    [id |-> found.id, lmt |-> entry.mt, lsz |-> entry.sz, lc |-> md5,
     rver |-> found.ver, rsz |-> entry.sz, rc |-> md5,
     st |-> IF moved \/ md5 = None THEN "pending_upload" ELSE "synced"]

(* Mutation: hash the file although it changed while it was sent.          *)
RecordWhatIsThere ==
    /\ pc = "record" /\ Goto("save")
    /\ rec' = UploadedRow(IF entry.c # None THEN entry.c ELSE disk.c)
    /\ journal' = "none"
    /\ UNCHANGED <<env, server, local, cursor, volat>>

RecordUpload ==
    /\ pc = "record" /\ Goto("save")
    /\ rec' = UploadedRow(IF entry.c # None \/ moved THEN entry.c ELSE disk.c)
    /\ journal' = "none"
    /\ UNCHANGED <<env, server, local, cursor, volat>>

RecordUnhashed ==
    /\ pc = "record" /\ entry.c = None /\ ~moved
    /\ Fault("hash") /\ Spend /\ Goto("save")
    /\ rec' = UploadedRow(None)
    /\ journal' = "none"
    /\ UNCHANGED <<typed, server, local, cursor, volat>>

Upload == \/ List \/ Put \/ Post \/ PostConflict \/ Requery \/ UploadRefused
          \/ TransferFails \/ AnswerLost
          \/ StatAfterUpload \/ RecordUpload \/ RecordUnhashed
-----------------------------------------------------------------------------
(* download, also the last part of a conflict (expect_absent, where it     *)
(* takes whatever lies at the path for what it may replace).               *)
PreCheck ==
    /\ pc = "precheck"
    /\ expect' = Stat
    /\ IF \/ kind = "DOWNLOAD_UPDATE" /\ disk.c # None /\ ~Untouched
          \/ kind = "DOWNLOAD_NEW" /\ disk.c # None
       THEN Protects /\ UNCHANGED journal
       ELSE Begin /\ Goto("fetch") /\ UNCHANGED <<rec, cursor>>
    /\ UNCHANGED <<env, server, local, mode, entry, unobs, view, kind, found,
                   got, moved>>

(* The bytes come from the drive of now; they must have the observed size  *)
(* and, when the view knows one, the observed hash.                        *)
Matches(c) == view.r.sz = Size[c] /\ view.r.c \in {None, c}

Fetch ==
    /\ pc = "fetch"
    /\ IF view.r.id \in LiveIds /\ Matches(obj[view.r.id].c)
       THEN /\ got' = obj[view.r.id].c
            /\ Goto("guard") /\ UNCHANGED store
       ELSE Fails /\ UNCHANGED got
    /\ UNCHANGED <<env, server, local, mode, entry, unobs, view, kind, found,
                   expect, moved>>

(* Mutation: no check between the transfer and os.replace.                 *)
GuardNothing ==
    /\ pc = "guard" /\ Goto("replace")
    /\ UNCHANGED <<env, server, local, store, volat>>

(* pre_replace_guard, then os.replace, then the stat that is recorded.     *)
Guard ==
    /\ pc = "guard"
    /\ IF Stat = expect THEN Goto("replace") /\ UNCHANGED store
                        ELSE Protects /\ UNCHANGED journal
    /\ UNCHANGED <<env, server, local, volat>>

Replace == \E m \in FreshStamp :
    /\ pc = "replace" /\ Goto("fresh")
    /\ disk' = [c |-> got, mt |-> m]
    /\ UNCHANGED <<env, server, bin, copies, unlisted, store, volat>>

RecordDownload ==
    /\ pc = "fresh"
    /\ rec' = [id |-> view.r.id, lmt |-> disk.mt,
               lsz |-> SizeOf(IF disk.c = None THEN got ELSE disk.c), lc |-> got,
               rver |-> view.r.ver, rsz |-> view.r.sz,
               rc |-> IF view.r.c = None THEN got ELSE view.r.c,
               st |-> "synced"]
    /\ IF kind = "CONFLICT" THEN Goto("copy") /\ UNCHANGED journal
                            ELSE Goto("save") /\ journal' = "none"
    /\ UNCHANGED <<env, server, local, cursor, volat>>

Download == PreCheck \/ Fetch \/ Guard \/ Replace \/ RecordDownload

-----------------------------------------------------------------------------
(* conflict: rename the local file to a copy, list it, download, finish.   *)
(* Mutation: the journal entry is begun by the download only.              *)
ConflictUnlogged ==
    /\ pc = "cstat"
    /\ IF disk.c # None /\ Untouched
       THEN Goto("rename") /\ UNCHANGED store
       ELSE Protects /\ UNCHANGED journal
    /\ UNCHANGED <<env, server, local, volat>>

ConflictCheck ==
    /\ pc = "cstat" /\ Begin
    /\ IF disk.c # None /\ Untouched
       THEN Goto("rename") /\ UNCHANGED <<rec, cursor>>
       ELSE Protects
    /\ UNCHANGED <<env, server, local, volat>>

Rename ==
    /\ pc = "rename"
    /\ IF disk.c # None
       THEN /\ disk' = NoFile
            /\ copies' = copies \cup {disk.c}
            /\ unlisted' = disk.c
            /\ Goto("crecord") /\ UNCHANGED store
       ELSE Fails /\ UNCHANGED <<disk, copies, unlisted>>
    /\ UNCHANGED <<env, server, bin, volat>>

ListCopy ==
    /\ pc = "crecord" /\ Goto("precheck")
    /\ unlisted' = None
    /\ UNCHANGED <<env, server, disk, bin, copies, store, volat>>

(* The copy gets a row of its own and is uploaded under its own name.      *)
FinishConflict ==
    /\ pc = "copy" /\ Goto("save")
    /\ journal' = "none"
    /\ UNCHANGED <<env, server, local, rec, cursor, volat>>

Conflict == ConflictCheck \/ Rename \/ ListCopy \/ FinishConflict

-----------------------------------------------------------------------------
(* Trash, on either side, and the actions that only touch the row.         *)
VerifyBeforeTrash ==
    /\ pc = "verify"
    /\ IF unobs \/ (disk.c # None /\ ~Untouched)
       THEN Protects /\ UNCHANGED journal
       ELSE Begin /\ Goto("trash") /\ UNCHANGED <<rec, cursor>>
    /\ UNCHANGED <<env, server, local, volat>>

SendToTrash ==
    /\ pc = "trash" /\ Goto("commit")
    /\ bin' = bin \cup ({disk.c} \ {None})
    /\ disk' = NoFile
    /\ UNCHANGED <<env, server, copies, unlisted, store, volat>>

(* The recycle bin refuses: reported, the row is not marked.               *)
TrashUnavailable ==
    /\ pc = "trash" /\ disk.c # None /\ Fault("recycle") /\ Spend
    /\ Goto("save")
    /\ UNCHANGED <<typed, server, local, store, volat>>

BeginRemoteTrash ==
    /\ pc = "rtrash"
    /\ IF rec.id = None
       THEN rec' = NoRow /\ Goto("save") /\ UNCHANGED <<cursor, journal>>
       ELSE Begin /\ Goto("rmove") /\ UNCHANGED <<rec, cursor>>
    /\ UNCHANGED <<env, server, local, volat>>

(* By id alone, whatever its version; already in the trash counts as done. *)
MoveToTrash ==
    /\ pc = "rmove" /\ Goto("commit")
    /\ IF rec.id \in LiveIds THEN TrashObject(rec.id) ELSE UNCHANGED server
    /\ UNCHANGED <<env, local, store, volat>>

CommitTrash ==
    /\ pc = "commit" /\ Goto("save")
    /\ rec' = NoRow /\ journal' = "none"
    /\ UNCHANGED <<env, server, local, cursor, volat>>

TouchBase ==
    /\ pc = "touch" /\ Goto("save")
    /\ rec' = [id |-> view.r.id, lmt |-> entry.mt, lsz |-> entry.sz,
               lc |-> entry.c, rver |-> view.r.ver, rsz |-> view.r.sz,
               rc |-> IF view.r.c = None THEN entry.c ELSE view.r.c,
               st |-> "synced"]
    /\ UNCHANGED <<env, server, local, cursor, journal, volat>>

Forget ==
    /\ pc = "forget" /\ Goto("save")
    /\ rec' = NoRow
    /\ UNCHANGED <<env, server, local, cursor, journal, volat>>

Settle == \/ VerifyBeforeTrash \/ SendToTrash \/ TrashUnavailable
          \/ BeginRemoteTrash \/ MoveToTrash \/ CommitTrash
          \/ TouchBase \/ Forget

-----------------------------------------------------------------------------
Tool        == Pass \/ Upload \/ Download \/ Conflict \/ Settle
Environment == Save \/ Delete \/ OtherWrites \/ OtherTrashes \/ Crash
Next        == Tool \/ Environment

Spec == Init /\ [][Next]_vars

(* Passes are started again and again, of any kind Modes allows, and every *)
(* step of one ends.                                                       *)
FairSpec == Spec /\ WF_vars(Tool)
-----------------------------------------------------------------------------
(* Every variable stays in its domain.                                     *)
TypeLocal ==
    /\ disk \in [c : Content \cup {None}, mt : Stamp \cup {None}]
    /\ (disk.c = None) <=> (disk.mt = None)
    /\ bin \subseteq Content /\ copies \subseteq Content
    /\ unlisted \in Content \cup {None}

TypeDrive ==
    /\ obj \in [ObjId -> [st : {"none", "live", "trash"}, ver : Nat,
                          c : Content \cup {None}, rev : Nat]]
    /\ \A o \in LiveIds : obj[o].c # None
    /\ rev \in Nat /\ kept \subseteq Content

Row == [id : ObjId \cup {None}, lmt : Stamp \cup {None},
        lsz : Nat \cup {None}, lc : Content \cup {None},
        rver : Nat \cup {None}, rsz : Nat \cup {None},
        rc : Content \cup {None}, st : Status]

TypeStore ==
    /\ rec \in Row
    /\ cursor \in Nat
    /\ journal \in Kind

TypePass ==
    /\ pc \in Pc /\ mode \in Mode /\ kind \in Kind
    /\ unobs \in BOOLEAN /\ moved \in BOOLEAN
    /\ pc \in {"guard", "replace", "fresh"} => got # None

Remote == [id : ObjId \cup {None}, ver : Nat \cup {None},
           sz : Nat \cup {None}, c : Content \cup {None}]

View == [r : Remote, deleted : BOOLEAN, complete : BOOLEAN, next : Nat]

TypeSeen ==
    /\ entry \in [mt : Stamp \cup {None}, sz : Nat \cup {None},
                  c : Content \cup {None}]
    /\ view \in View
    /\ found \in [id : ObjId \cup {None}, ver : Nat \cup {None}]
    /\ expect \in [mt : Stamp \cup {None}, sz : Nat \cup {None}]
    /\ got \in Content \cup {None}

TypeOK == /\ TypeLocal /\ TypeDrive /\ TypeStore /\ TypePass /\ TypeSeen
          /\ typed \subseteq Content /\ left \in Nat

(* A step of the tool never makes local bytes unrecoverable: what it       *)
(* removes from the path is on the drive (or was: versions and its trash   *)
(* keep it), in the recycle bin or in a conflict copy.  os.replace in      *)
(* drive.download, os.replace in conflict, send_to_trash.                  *)
NoLostSave ==
    [][pc' # pc /\ disk'.c # disk.c /\ disk.c # None
       => disk.c \in kept' \cup bin' \cup copies']_vars

(* The baseline never claims too much: a file whose stat is the recorded   *)
(* one holds the recorded bytes, and local bytes equal to the recorded     *)
(* ones are on the drive.  differ takes both for granted when it lets a    *)
(* download replace the file.                                              *)
BaseSound ==
    rec.lc # None /\ disk.c # None =>
        /\ rec.lmt = disk.mt => disk.c = rec.lc
        /\ disk.c = rec.lc => disk.c \in kept

(* An upload never covers a version this PC has no row for: the id guard,  *)
(* the version guard and the two guards after a 409 in executor.upload.    *)
NoBuriedVersion ==
    [][\A o \in ObjId :
        pc \in {"put", "post"} /\ pc' # pc /\ Live(o) /\ obj'[o].ver > obj[o].ver
            => rec.id = o /\ rec.rver = obj[o].ver]_vars

(* Once its pass is over, a conflict copy that is not in the conflicts     *)
(* table has an open journal entry, so that recovery will list it.         *)
CopyAccounted ==
    unlisted # None => journal = "CONFLICT"

(* A drive file is trashed only in the version the base recorded: what     *)
(* another PC changed wins over a local deletion (rows 7 and 9).           *)
TrashOnlySeen ==
    [][pc = "rmove" /\ obj' # obj
       => rec.lc # None /\ obj[rec.id].ver = rec.rver]_vars

(* Without a baseline beside a local file every pass answers PROTECT and   *)
(* asks the user to run `dsync reconcile`.                                 *)
NeedsReconcile == rec.id # None /\ ~HasBaseline(rec) /\ disk.c # None

(* What the saved cursor has passed is recorded, or still marked so that a *)
(* later pass asks for it: the change feed will not mention it again.      *)
NoMissedChange ==
    [][cursor' # cursor => \A o \in LiveIds : obj[o].rev <= cursor' =>
        \/ rec.id = o /\ rec.rver = obj[o].ver
        \/ rec.id = o /\ Dirty
        \/ NeedsReconcile]_vars

(* When users and failures come to rest, the two sides become the same and *)
(* stay so, or the path waits for `dsync reconcile`.                       *)
InStep == IF LiveIds = {} THEN disk.c = None ELSE disk.c \in LiveBytes
Convergence == <>[](InStep \/ NeedsReconcile)

(* A conflict copy is made only of bytes that differ from the drive's.     *)
NoFakeConflict ==
    [][pc = "rename" /\ copies' # copies /\ view.r.id \in LiveIds
       => disk.c # obj[view.r.id].c]_vars
-----------------------------------------------------------------------------
(* Why NoLostSave and BaseSound hold: the inductive invariant of the proof *)
(* in FileSync_proofs.tla.  It needs a user who does not save within the   *)
(* instants the code cannot watch, and who writes no bytes twice.          *)
Unwatched == {"replace", "fresh", "record", "crecord", "precheck"}
Watched   == SavePoints \cap Unwatched = {} /\ ~Undo

(* Bytes come from somewhere, and what the drive shows it has.             *)
Provenance ==
    /\ {disk.c, entry.c, rec.lc} \subseteq typed \cup {None}
    /\ kept \subseteq typed
    /\ {got, view.r.c} \cup LiveBytes \subseteq kept \cup {None}

(* Which decision is being executed at a control point.                    *)
Course ==
    /\ pc \in {"precheck", "fetch", "guard"}
           => kind \in {"DOWNLOAD_NEW", "DOWNLOAD_UPDATE", "CONFLICT"}
    /\ pc \in {"cstat", "rename", "crecord"} => kind = "CONFLICT"
    /\ pc = "touch" => kind = "TOUCH_BASE"

(* An entry that was hashed and whose file has kept its time has kept its  *)
(* bytes; before diff nothing is hashed.                                   *)
EntrySound ==
    /\ entry.c # None /\ disk.c # None /\ entry.mt = disk.mt => entry.c = disk.c
    /\ pc \in {"idle", "scan", "tip", "walk", "changes", "probe", "diff"}
           => entry.c = None

(* After the transfer the drive has the file, unless it shows a new time.  *)
Sent ==
    /\ pc \in {"stat", "record"} /\ disk.c # None /\ disk.c = entry.c
           => disk.c \in kept
    /\ pc = "stat" /\ disk.c # None /\ disk.mt = entry.mt => disk.c \in kept
    /\ pc = "record" /\ disk.c # None /\ ~moved => disk.c \in kept

(* A base that is only touched is touched with bytes of the drive.         *)
Agreed == pc \in {"gate", "touch"} /\ kind = "TOUCH_BASE" => entry.c \in kept

(* What a download may replace is on the drive.                            *)
Replaceable ==
    /\ pc \in {"gate", "precheck", "fetch", "guard"} /\ kind = "DOWNLOAD_UPDATE"
           => (disk.c # None /\ disk.mt = entry.mt => disk.c \in kept)
    /\ pc \in {"crecord", "precheck"} /\ kind = "CONFLICT" => disk.c = None
    /\ pc \in {"fetch", "guard"}
           => expect.mt = None \/ (expect.mt = entry.mt /\ kind = "DOWNLOAD_UPDATE")
    /\ pc = "replace" => disk.c \in kept \cup {None}
    /\ pc = "fresh" => disk.c = got

IInv == /\ TypeOK /\ BaseSound /\ Provenance /\ Course /\ EntrySound
        /\ Sent /\ Agreed /\ Replaceable
=============================================================================
