----------------------- MODULE FileSyncVersions_proofs -----------------------
(***************************************************************************)
(* Proofs that FileSync acts only on versions it knows, for all contents,  *)
(* ids, times and bounds:                                                  *)
(*   - if no other PC writes between the lookup of the name and the        *)
(*     transfer, an upload covers only the version of the row              *)
(*     (NoVersionIsBuried);                                                *)
(*   - if none writes from the end of the observation to the trash, only   *)
(*     the version of the row is trashed (OnlySeenIsTrashed).              *)
(* Neither needs anything of the user, of failures or of crashes.  Neither *)
(* condition can be dropped: in both windows the drive is not asked again. *)
(***************************************************************************)
EXTENDS FileSync_proofs

USE DEF env, server, local, store, volat, Goto

(* Nobody else writes after List has looked the name up.                   *)
Unrivalled == RemotePoints \cap {"put", "post", "requery"} = {}

(* Nobody else writes after the drive was observed, nor trashes in the     *)
(* last moment.                                                            *)
Uncontested == /\ RemotePoints \cap {"probe", "diff", "gate", "rtrash", "rmove"} = {}
               /\ "rmove" \notin TrashPoints

-----------------------------------------------------------------------------
(* The drive.  An id that was handed out stays so, and while its file is   *)
(* live its version only grows: KnownIn(d, ..) says that a version held in *)
(* memory or in the base is not ahead of the drive d.                      *)
KnownIn(d, id, v) ==
    id # None => /\ d[id].st # "none"
                 /\ d[id].st = "live" /\ v # None => v <= d[id].ver

LiveOne == \A a, b \in LiveIds : a = b

DriveMoves ==
    \/ UNCHANGED obj
    \/ \E o \in LiveIds, c \in Content : PutVersion(o, c)
    \/ LiveIds = {} /\ \E o \in FreshIds, c \in Content : PostNew(o, c)
    \/ \E o \in LiveIds : TrashObject(o)

(* Few steps write to the drive.                                           *)
LEMMA DriveWrites ==
    ASSUME [Next]_vars, obj' # obj
    PROVE  Put \/ Post \/ AnswerLost \/ MoveToTrash \/ OtherWrites \/ OtherTrashes
<1>1. ~(Pass \/ UNCHANGED vars)
  BY DEF Pass, Start, Scan, ScanSkips, HoldCollapse, Tip, Walk, Changes,
     ProbeFinds, ProbeSkips, Diff, DiffBlind, Execute, NothingToDo, Defer,
     BulkDeleteAbort, SaveCursor, vars
<1>2. ~(Download \/ Conflict)
  BY DEF Download, PreCheck, Fetch, Guard, Replace, RecordDownload,
     Conflict, ConflictCheck, Rename, ListCopy, FinishConflict
<1>3. CASE Upload
  BY <1>3 DEF Upload, List, PostConflict, Requery, UploadRefused,
     TransferFails, StatAfterUpload, RecordUpload, RecordUnhashed
<1>4. CASE Settle
  BY <1>4 DEF Settle, VerifyBeforeTrash, SendToTrash, TrashUnavailable,
     BeginRemoteTrash, CommitTrash, TouchBase, Forget
<1>5. CASE Environment
  BY <1>5 DEF Environment, Save, Delete, Crash
<1> QED BY <1>1, <1>2, <1>3, <1>4, <1>5 DEF Next, Tool

(* Every step does one of the moves to it.                                 *)
LEMMA DriveStep == ASSUME TypeOK, [Next]_vars PROVE DriveMoves
<1>0. disk.c # None => disk.c \in Content
  BY DEF TypeOK, TypeLocal
<1>1. CASE OtherWrites
  <2>1. PICK c \in NewBytes : IF LiveIds = {} THEN \E o \in FreshIds : PostNew(o, c)
                                              ELSE \E o \in LiveIds : PutVersion(o, c)
    BY <1>1 DEF OtherWrites
  <2>2. c \in Content
    BY <2>1 DEF NewBytes
  <2> QED BY <2>1, <2>2 DEF DriveMoves
<1>2. CASE OtherTrashes
  BY <1>2 DEF OtherTrashes, DriveMoves
<1>3. CASE Put
  BY <1>0, <1>3 DEF Put, DriveMoves
<1>4. CASE Post
  BY <1>0, <1>4 DEF Post, DriveMoves
<1>5. CASE AnswerLost
  BY <1>0, <1>5 DEF AnswerLost, DriveMoves
<1>6. CASE MoveToTrash
  BY <1>6 DEF MoveToTrash, DriveMoves
<1> QED BY <1>1, <1>2, <1>3, <1>4, <1>5, <1>6, DriveWrites DEF DriveMoves

LEMMA KnownKept ==
    ASSUME TypeOK, DriveMoves,
           NEW id \in ObjId \cup {None}, NEW v \in Nat \cup {None}, KnownIn(obj, id, v)
    PROVE  KnownIn(obj', id, v)
<1>0. obj \in [ObjId -> [st : {"none", "live", "trash"}, ver : Nat,
                         c : Content \cup {None}, rev : Nat]]
  BY DEF TypeOK, TypeDrive
<1> SUFFICES ASSUME id # None
             PROVE  /\ obj'[id].st # "none"
                    /\ obj'[id].st = "live" /\ v # None => v <= obj'[id].ver
  BY DEF KnownIn
<1>1. /\ id \in ObjId /\ obj[id].st # "none" /\ obj[id].ver \in Nat
      /\ obj[id].st = "live" /\ v # None => v <= obj[id].ver
  BY <1>0 DEF KnownIn
<1>2. CASE \E o \in LiveIds, c \in Content : PutVersion(o, c)
  <2>1. PICK o \in LiveIds, c \in Content : PutVersion(o, c)
    BY <1>2
  <2>2. CASE o = id
    <3>1. obj'[id].st = "live" /\ obj'[id].ver = obj[id].ver + 1 /\ obj[id].st = "live"
      BY <1>0, <1>1, <2>1, <2>2 DEF PutVersion, LiveIds, Live
    <3> QED BY <1>1, <3>1, NoneAssumption
  <2>3. CASE o # id
    BY <1>0, <1>1, <2>1, <2>3 DEF PutVersion
  <2> QED BY <2>2, <2>3
<1>3. CASE \E o \in FreshIds, c \in Content : PostNew(o, c)
  BY <1>0, <1>1, <1>3 DEF PostNew, FreshIds
<1>4. CASE \E o \in LiveIds : TrashObject(o)
  BY <1>0, <1>1, <1>4 DEF TrashObject
<1> QED BY <1>1, <1>2, <1>3, <1>4 DEF DriveMoves

LEMMA LiveOneKept == ASSUME TypeOK, LiveOne, DriveMoves PROVE LiveOne'
<1>0. obj \in [ObjId -> [st : {"none", "live", "trash"}, ver : Nat,
                         c : Content \cup {None}, rev : Nat]]
  BY DEF TypeOK, TypeDrive
<1>1. CASE \E o \in LiveIds, c \in Content : PutVersion(o, c)
  BY <1>0, <1>1 DEF PutVersion, LiveOne, LiveIds, Live
<1>2. CASE LiveIds = {} /\ \E o \in FreshIds, c \in Content : PostNew(o, c)
  BY <1>0, <1>2 DEF PostNew, FreshIds, LiveOne, LiveIds, Live
<1>3. CASE \E o \in LiveIds : TrashObject(o)
  BY <1>0, <1>3 DEF TrashObject, LiveOne, LiveIds, Live
<1>4. CASE UNCHANGED obj
  BY <1>4 DEF LiveOne, LiveIds, Live
<1> QED BY <1>1, <1>2, <1>3, <1>4 DEF DriveMoves
-----------------------------------------------------------------------------
(* The invariant of the uploads.  What the base, the view and the upload   *)
(* hold of the drive is not ahead of it; a baseline has a version; and     *)
(* between lookup and transfer the file found is the row's, in its version.*)
RowKnown  == KnownIn(obj, rec.id, rec.rver)
ViewKnown == /\ KnownIn(obj, view.r.id, view.r.ver)
             /\ Seen(view.r) => view.r.ver # None
FoundKnown == /\ KnownIn(obj, found.id, found.ver)
              /\ found.id # None => found.ver # None

Based == /\ rec.lc # None => rec.id # None /\ rec.rver # None
         /\ rec.st = "none" => rec.id = None /\ rec.rver = None /\ rec.lc = None

Chosen ==
    /\ pc \in {"gate", "list"} /\ kind = "UPLOAD_VERSION" => rec.lc # None
    /\ pc \in {"gate", "list"} /\ kind = "UPLOAD_NEW" => rec.id = None \/ rec.lc # None
    /\ pc = "list" => kind \in {"UPLOAD_NEW", "UPLOAD_VERSION"}
    /\ pc = "gate" /\ kind = "TOUCH_BASE" => Seen(view.r)
    /\ pc = "touch" => Seen(view.r)
    /\ pc \in {"guard", "replace", "fresh"} => Seen(view.r)

Sending ==
    /\ pc = "put" => /\ found.id # None /\ found.id = rec.id
                     /\ Live(found.id) => rec.rver = obj[found.id].ver
    /\ pc = "post" => LiveIds = {}
    /\ pc # "requery"
    /\ pc \in {"stat", "record"} => found.id # None

UpInv == /\ LiveOne /\ RowKnown /\ ViewKnown /\ FoundKnown
         /\ Based /\ Chosen /\ Sending

(* What a step does to the row.                                            *)
RowMoves ==
    \/ UNCHANGED rec
    \/ \E st \in Status \ {"none"} : rec' = Mark(st)
    \/ rec' = MarkError
    \/ rec' = NoRow
    \/ pc = "record" /\ \E m \in Content \cup {None} : rec' = UploadedRow(m)
    \/ /\ pc \in {"fresh", "touch"} /\ rec'.st = "synced"
       /\ rec'.id = view.r.id /\ rec'.rver = view.r.ver

LEMMA RowStep == ASSUME TypeOK, [Next]_vars PROVE RowMoves
<1>1. CASE Pass
  <2>1. {"error", "pending_upload", "pending_download"} \subseteq Status \ {"none"}
    BY DEF Status
  <2> QED
    BY <1>1, <2>1 DEF Pass, Start, Scan, ScanSkips, HoldCollapse, Tip, Walk, Changes,
       ProbeFinds, ProbeSkips, Diff, DiffBlind, Execute, NothingToDo, Defer,
       BulkDeleteAbort, SaveCursor, RecordHashFailure, RowMoves
<1>2. CASE Upload
  <2>1. {"error", "pending_upload", "pending_download"} \subseteq Status \ {"none"}
    BY DEF Status
  <2>2. {entry.c, disk.c, None} \subseteq Content \cup {None}
    BY DEF TypeOK, TypeSeen, TypeLocal
  <2>3. CASE RecordUpload \/ RecordUnhashed
    BY <2>2, <2>3 DEF RecordUpload, RecordUnhashed, RowMoves
  <2>4. CASE List \/ Put \/ Post \/ PostConflict \/ Requery
    BY <2>1, <2>4 DEF List, Put, Post, PostConflict, Requery, Withdraws, Fails, RowMoves
  <2>5. CASE UploadRefused \/ TransferFails \/ AnswerLost \/ StatAfterUpload
    BY <2>5 DEF UploadRefused, TransferFails, AnswerLost, StatAfterUpload, Fails, RowMoves
  <2> QED BY <1>2, <2>3, <2>4, <2>5 DEF Upload
<1>3. CASE Download \/ Conflict
  <2>1. "pending_download" \in Status \ {"none"}
    BY DEF Status
  <2> QED
    BY <1>3, <2>1 DEF Download, PreCheck, Fetch, Guard, Replace, RecordDownload,
       Conflict, ConflictCheck, Rename, ListCopy, FinishConflict, Protects, Fails, RowMoves
<1>4. CASE Settle
  <2>1. "pending_download" \in Status \ {"none"}
    BY DEF Status
  <2> QED
    BY <1>4, <2>1 DEF Settle, VerifyBeforeTrash, SendToTrash, TrashUnavailable,
       BeginRemoteTrash, MoveToTrash, CommitTrash, TouchBase, Forget, Protects, RowMoves
<1>5. CASE Environment \/ UNCHANGED vars
  BY <1>5 DEF Environment, Save, Delete, OtherWrites, OtherTrashes, Crash, vars, RowMoves
<1> QED BY <1>1, <1>2, <1>3, <1>4, <1>5 DEF Next, Tool

LEMMA RowKept ==
    ASSUME TypeOK, UpInv, DriveMoves, RowMoves
    PROVE  RowKnown' /\ Based'
<1>0. /\ rec.id \in ObjId \cup {None} /\ rec.rver \in Nat \cup {None}
      /\ view.r.id \in ObjId \cup {None} /\ view.r.ver \in Nat \cup {None}
      /\ found.id \in ObjId \cup {None} /\ found.ver \in Nat \cup {None}
  BY DEF TypeOK, TypeStore, TypeSeen, Row, View, Remote
<1>1. /\ KnownIn(obj', rec.id, rec.rver)
      /\ KnownIn(obj', view.r.id, view.r.ver)
      /\ KnownIn(obj', found.id, found.ver)
  BY <1>0, KnownKept DEF UpInv, RowKnown, ViewKnown, FoundKnown
<1>2. CASE UNCHANGED rec
  BY <1>1, <1>2 DEF UpInv, RowKnown, Based
<1>3. CASE \E st \in Status \ {"none"} : rec' = Mark(st)
  <2>1. /\ rec'.id = rec.id /\ rec'.rver = rec.rver /\ rec'.lc = rec.lc
        /\ rec'.st # "none"
    BY <1>3 DEF Mark, TypeOK, TypeStore, Row
  <2> QED BY <1>1, <2>1 DEF UpInv, RowKnown, Based
<1>4. CASE rec' = MarkError
  <2>1. /\ rec'.rver = rec.rver /\ rec'.lc = rec.lc /\ rec'.st # "none"
        /\ rec'.id = IF rec.st = "none" THEN view.r.id ELSE rec.id
    BY <1>4 DEF MarkError, TypeOK, TypeStore, Row
  <2> QED BY <1>1, <2>1 DEF UpInv, RowKnown, Based, KnownIn
<1>5. CASE rec' = NoRow
  BY <1>5 DEF NoRow, RowKnown, Based, KnownIn
<1>6. CASE pc = "record" /\ \E m \in Content \cup {None} : rec' = UploadedRow(m)
  <2>1. rec'.id = found.id /\ rec'.rver = found.ver /\ rec'.st # "none"
    BY <1>6 DEF UploadedRow
  <2>2. found.id # None /\ found.ver # None
    BY <1>6 DEF UpInv, Sending, FoundKnown
  <2> QED BY <1>1, <2>1, <2>2 DEF RowKnown, Based
<1>7. CASE /\ pc \in {"fresh", "touch"} /\ rec'.st = "synced"
           /\ rec'.id = view.r.id /\ rec'.rver = view.r.ver
  <2>1. view.r.id # None /\ view.r.ver # None
    BY <1>7 DEF UpInv, Chosen, ViewKnown, Seen
  <2> QED BY <1>1, <1>7, <2>1 DEF RowKnown, Based
<1> QED BY <1>2, <1>3, <1>4, <1>5, <1>6, <1>7 DEF RowMoves

(* What a step does to the view and to the file the upload found: nothing, *)
(* forget it, or take it from the drive as it is.                          *)
Shown(id, v) == id \in LiveIds /\ v = obj[id].ver /\ UNCHANGED obj

ViewMoves == \/ view'.r = view.r \/ view'.r = NoRemote
             \/ Shown(view'.r.id, view'.r.ver)

FoundMoves == \/ found' = found \/ found' = NoFound
              \/ Shown(found'.id, found'.ver)
              \/ Put /\ found' = [id |-> found.id, ver |-> obj[found.id].ver + 1]
              \/ \E o \in FreshIds : Post /\ found' = [id |-> o, ver |-> 0]

LEMMA SightStep == ASSUME TypeOK, [Next]_vars PROVE ViewMoves /\ FoundMoves
<1> USE DEF NoView, NoMode
<1>0. /\ view.r \in Remote
      /\ view = [r |-> view.r, deleted |-> view.deleted,
                 complete |-> view.complete, next |-> view.next]
      /\ found = [id |-> found.id, ver |-> found.ver]
  BY DEF TypeOK, TypeSeen, View
<1>1. CASE Walk
  BY <1>0, <1>1 DEF Walk, ListEntry, ViewMoves, FoundMoves, Shown
<1>2. CASE Changes
  <2>1. found' = found /\ UNCHANGED obj
    BY <1>2 DEF Changes
  <2>2. \/ view'.r = NoRemote
        \/ \E o \in LiveIds : view'.r = FeedEntry(o)
    BY <1>2 DEF Changes
  <2>3. ASSUME NEW o \in LiveIds, view'.r = FeedEntry(o)
        PROVE  Shown(view'.r.id, view'.r.ver)
    BY <2>1, <2>3 DEF FeedEntry, ListEntry, Shown
  <2> QED BY <2>1, <2>2, <2>3 DEF ViewMoves, FoundMoves
<1>3. CASE ProbeFinds
  BY <1>0, <1>3 DEF ProbeFinds, ListEntry, ViewMoves, FoundMoves, Shown
<1>4. CASE Pass /\ ~Walk /\ ~Changes /\ ~ProbeFinds
  <2>1. CASE Tip
    BY <1>0, <2>1 DEF Tip, ViewMoves, FoundMoves
  <2>2. CASE Start \/ Scan \/ ScanSkips \/ ProbeSkips \/ Diff \/ DiffBlind
    BY <2>2 DEF Start, Scan, ScanSkips, ProbeSkips, Diff, DiffBlind, ViewMoves, FoundMoves
  <2>3. CASE Execute \/ NothingToDo \/ Defer
    BY <2>3 DEF Execute, NothingToDo, Defer, ViewMoves, FoundMoves
  <2>4. CASE HoldCollapse \/ BulkDeleteAbort \/ SaveCursor
    BY <2>4 DEF HoldCollapse, BulkDeleteAbort, SaveCursor, Forgotten, ViewMoves, FoundMoves
  <2> QED BY <1>4, <2>1, <2>2, <2>3, <2>4 DEF Pass
<1>5. CASE List \/ Requery
  <2>1. PICK f \in LiveFound : found' = f /\ view' = view /\ UNCHANGED obj
    BY <1>5 DEF List, Requery
  <2>2. f = NoFound \/ Shown(f.id, f.ver)
    BY <2>1 DEF LiveFound, Shown
  <2> QED BY <2>1, <2>2 DEF ViewMoves, FoundMoves
<1>6. CASE Put
  BY <1>0, <1>6 DEF Put, ViewMoves, FoundMoves
<1>7. CASE Post
  <2>1. PICK o \in FreshIds : found' = [id |-> o, ver |-> 0] /\ view' = view
    BY <1>7 DEF Post
  <2> QED BY <1>7, <2>1 DEF ViewMoves, FoundMoves
<1>8. CASE PostConflict \/ UploadRefused \/ TransferFails \/ AnswerLost
           \/ StatAfterUpload \/ RecordUpload \/ RecordUnhashed
  BY <1>8 DEF PostConflict, UploadRefused, TransferFails, AnswerLost,
     StatAfterUpload, RecordUpload, RecordUnhashed, ViewMoves, FoundMoves
<1>9. CASE Download \/ Conflict
  BY <1>9 DEF Download, PreCheck, Fetch, Guard, Replace, RecordDownload,
     Conflict, ConflictCheck, Rename, ListCopy, FinishConflict, ViewMoves, FoundMoves
<1>10. CASE Settle
  BY <1>10 DEF Settle, VerifyBeforeTrash, SendToTrash, TrashUnavailable,
     BeginRemoteTrash, MoveToTrash, CommitTrash, TouchBase, Forget, ViewMoves, FoundMoves
<1>11. CASE Environment \/ UNCHANGED vars
  BY <1>11 DEF Environment, Save, Delete, OtherWrites, OtherTrashes, Crash,
     Forgotten, vars, ViewMoves, FoundMoves
<1> QED
  BY <1>1, <1>2, <1>3, <1>4, <1>5, <1>6, <1>7, <1>8, <1>9, <1>10, <1>11
  DEF Next, Tool, Upload

LEMMA SightKept ==
    ASSUME TypeOK, UpInv, DriveMoves, ViewMoves, FoundMoves
    PROVE  ViewKnown' /\ FoundKnown'
<1>0. /\ view.r.id \in ObjId \cup {None} /\ view.r.ver \in Nat \cup {None}
      /\ found.id \in ObjId \cup {None} /\ found.ver \in Nat \cup {None}
      /\ obj \in [ObjId -> [st : {"none", "live", "trash"}, ver : Nat,
                            c : Content \cup {None}, rev : Nat]]
  BY DEF TypeOK, TypeSeen, TypeDrive, View, Remote
<1>1. /\ KnownIn(obj', view.r.id, view.r.ver)
      /\ KnownIn(obj', found.id, found.ver)
  BY <1>0, KnownKept DEF UpInv, ViewKnown, FoundKnown
<1>2. ASSUME NEW id, NEW v, Shown(id, v)
      PROVE  KnownIn(obj', id, v) /\ v # None
  BY <1>0, <1>2, NoneAssumption DEF Shown, LiveIds, Live, KnownIn
<1>3. ViewKnown'
  <2>1. CASE view'.r = view.r
    BY <1>1, <2>1 DEF ViewKnown, UpInv, Seen
  <2>2. CASE view'.r = NoRemote
    BY <2>2 DEF ViewKnown, NoRemote, KnownIn, Seen
  <2>3. CASE Shown(view'.r.id, view'.r.ver)
    BY <1>2, <2>3 DEF ViewKnown
  <2> QED BY <2>1, <2>2, <2>3 DEF ViewMoves
<1>4. CASE Put /\ found' = [id |-> found.id, ver |-> obj[found.id].ver + 1]
  <2>1. found.id \in ObjId /\ obj[found.id].ver \in Nat
    BY <1>0, <1>4 DEF Put, LiveIds
  <2>2. obj'[found.id].st = "live" /\ obj'[found.id].ver = obj[found.id].ver + 1
    BY <1>0, <1>4, <2>1 DEF Put, PutVersion
  <2>3. found'.id = found.id /\ found'.ver = obj[found.id].ver + 1
    BY <1>4
  <2>4. found'.ver # None /\ found'.ver <= obj'[found'.id].ver
    BY <2>1, <2>2, <2>3, NoneAssumption
  <2> QED BY <1>3, <2>2, <2>3, <2>4 DEF FoundKnown, KnownIn
<1>5. ASSUME NEW o \in FreshIds, Post, found' = [id |-> o, ver |-> 0] PROVE FoundKnown'
  <2>1. PICK q \in FreshIds : PostNew(q, disk.c) /\ found' = [id |-> q, ver |-> 0]
    BY <1>5 DEF Post
  <2>2. q \in ObjId /\ obj'[q].st = "live" /\ obj'[q].ver = 0
    BY <1>0, <2>1 DEF PostNew, FreshIds
  <2> QED BY <2>1, <2>2, NoneAssumption DEF FoundKnown, KnownIn
<1>6. FoundKnown'
  BY <1>1, <1>2, <1>4, <1>5 DEF FoundMoves, FoundKnown, UpInv, NoFound, KnownIn
<1> QED BY <1>3, <1>6

-----------------------------------------------------------------------------
(* What is decided about a row: it is uploaded over only from a baseline,  *)
(* touched only where the drive's file was seen, and the drive's file is   *)
(* trashed only where it was seen in the version of the baseline.          *)
LEMMA DecideKnows ==
    ASSUME NEW rr, NEW e, NEW r, NEW u, NEW d, NEW cm, NEW p, NEW lm, NEW rm, NEW k,
           k = Decide(rr, e, r, u, d, cm, p, lm, rm)
    PROVE  /\ k = "UPLOAD_VERSION" => rr.lc # None
           /\ k = "UPLOAD_NEW" => rr.id = None \/ rr.lc # None
           /\ k = "REMOTE_TRASH" =>
                /\ rr.lc # None /\ Seen(r)
                /\ r.ver # None => rr.rver = r.ver
BY DEF Decide, DecideNew, DecideGone, DecideKnown, HasBaseline, RemoteChanged

LEMMA DecideTouchSeen ==
    ASSUME NEW rr, NEW e, NEW r, NEW u, NEW d, NEW cm, NEW p, NEW lm, NEW rm,
           Decide(rr, e, r, u, d, cm, p, lm, rm) = "TOUCH_BASE"
    PROVE  Seen(r)
BY DEF Decide, DecideNew, DecideGone, DecideKnown

(* Diff decides with the row and the view it leaves alone.                 *)
LEMMA DiffKnows ==
    ASSUME Diff \/ DiffBlind
    PROVE  /\ UNCHANGED <<rec, view, obj>> /\ pc = "diff" /\ pc' = "gate"
           /\ kind' = "UPLOAD_VERSION" => rec.lc # None
           /\ kind' = "UPLOAD_NEW" => rec.id = None \/ rec.lc # None
           /\ kind' = "TOUCH_BASE" => Seen(view.r)
           /\ kind' = "REMOTE_TRASH" =>
                /\ rec.lc # None /\ Seen(view.r)
                /\ view.r.ver # None => rec.rver = view.r.ver
<1>1. UNCHANGED <<rec, view, obj>> /\ pc = "diff" /\ pc' = "gate"
  BY DEF Diff, DiffBlind
<1>2. PICK e, rm : kind' = DecideWith(e, rm)
  BY DEF Diff, DiffBlind
<1>3. PICK u, d, cm, p, lm : kind' = Decide(rec, e, view.r, u, d, cm, p, lm, rm)
  BY <1>2 DEF DecideWith
<1>4. kind' = "TOUCH_BASE" => Seen(view.r)
  BY <1>3, DecideTouchSeen
<1> QED BY <1>1, <1>3, <1>4, DecideKnows

LEMMA UpPass == ASSUME TypeOK, UpInv, Pass PROVE Chosen' /\ Sending'
<1>1. CASE Diff \/ DiffBlind
  BY <1>1, DiffKnows DEF Chosen, Sending
<1>2. CASE Execute
  <2>1. /\ pc = "gate" /\ kind \in Acting /\ pc' = FirstStep[kind]
        /\ UNCHANGED <<kind, view, obj, found>>
        /\ rec'.lc = rec.lc /\ rec'.id = rec.id
    BY <1>2 DEF Execute, RecordHashFailure, Mark, TypeOK, TypeStore, Row
  <2>2. /\ pc' \in {"list", "precheck", "cstat", "verify", "rtrash", "touch", "forget"}
        /\ pc' = "list" => kind \in {"UPLOAD_NEW", "UPLOAD_VERSION"}
        /\ pc' = "touch" => kind = "TOUCH_BASE"
    BY <2>1 DEF FirstStep, Acting
  <2> QED BY <2>1, <2>2 DEF UpInv, Chosen, Sending
<1>3. CASE Start \/ Scan \/ ScanSkips \/ HoldCollapse \/ Tip \/ Walk \/ Changes
  BY <1>3 DEF Start, Scan, ScanSkips, HoldCollapse, Tip, Walk, Changes, Observe,
     Chosen, Sending
<1>4. CASE ProbeFinds \/ ProbeSkips \/ NothingToDo \/ Defer \/ BulkDeleteAbort
           \/ SaveCursor
  BY <1>4 DEF ProbeFinds, ProbeSkips, NothingToDo, Defer, BulkDeleteAbort,
     SaveCursor, Chosen, Sending
<1> QED BY <1>1, <1>2, <1>3, <1>4 DEF Pass

(* The step that matters: what List and its checks let pass is the file of *)
(* the row, in the version of the row.                                     *)
LEMMA ListKnows ==
    ASSUME TypeOK, UpInv, List, pc' = "put"
    PROVE  /\ found'.id # None /\ found'.id = rec.id /\ UNCHANGED <<rec, obj>>
           /\ rec.rver = obj[found'.id].ver
<1>1. PICK f \in LiveFound : /\ pc = "list" /\ found' = f /\ ~UnknownTarget(f)
                             /\ f.id # None /\ UNCHANGED <<rec, obj>>
  BY DEF List, Withdraws
<1>2. f.id \in LiveIds /\ f.ver = obj[f.id].ver
  BY <1>1 DEF LiveFound, NoFound
<1>3. f.id = rec.id
  BY <1>1 DEF UnknownTarget, OtherFile, UpInv, Chosen, Based
<1>4. rec.rver # None
  BY <1>1, <1>3 DEF UpInv, Chosen, Based
<1>5. f.ver \in Nat /\ rec.rver \in Nat /\ rec.rver <= f.ver
  <2>1. f.id \in ObjId /\ obj[f.id].st = "live" /\ f.id # None
    BY <1>1, <1>2 DEF LiveIds, Live
  <2>2. obj[f.id].ver \in Nat /\ rec.rver \in Nat
    BY <1>4, <2>1 DEF TypeOK, TypeDrive, TypeStore, Row
  <2>3. rec.rver <= obj[rec.id].ver
    BY <1>3, <1>4, <2>1 DEF UpInv, RowKnown, KnownIn
  <2> QED BY <1>2, <1>3, <2>2, <2>3
<1>6. f.ver = 0 \/ ~(f.ver > rec.rver)
  BY <1>1, <1>4 DEF UnknownTarget, VersionAhead
<1>7. rec.rver = f.ver
  BY <1>5, <1>6
<1> QED BY <1>1, <1>2, <1>3, <1>7

LEMMA UpUpload == ASSUME TypeOK, UpInv, Upload PROVE Chosen' /\ Sending'
<1>1. CASE List
  <2>1. CASE pc' = "put"
    <3>1. /\ found'.id # None /\ found'.id = rec'.id
          /\ rec'.rver = obj'[found'.id].ver
      BY <1>1, <2>1, ListKnows
    <3> QED BY <2>1, <3>1 DEF Chosen, Sending
  <2>2. CASE pc' # "put"
    <3>1. pc' = "save" \/ (pc' = "post" /\ found'.id = None)
      BY <1>1, <2>2 DEF List, Withdraws
    <3>2. pc' = "post" => LiveIds' = {}
      BY <1>1, <3>1, NoneAssumption DEF List, LiveFound, LiveIds, Live
    <3> QED BY <3>1, <3>2 DEF Chosen, Sending
  <2> QED BY <2>1, <2>2
<1>2. CASE Put
  <2>1. pc' = "stat" /\ found'.id = found.id /\ found.id \in ObjId
    BY <1>2 DEF Put, LiveIds, TypeOK, TypeSeen
  <2> QED BY <2>1, NoneAssumption DEF Chosen, Sending
<1>3. CASE Post
  <2>1. pc' = "stat" /\ found'.id \in ObjId
    BY <1>3 DEF Post, FreshIds
  <2> QED BY <2>1, NoneAssumption DEF Chosen, Sending
<1>4. CASE PostConflict \/ Requery
  BY <1>4 DEF PostConflict, Requery, UpInv, Sending
<1>5. CASE UploadRefused \/ TransferFails \/ AnswerLost \/ RecordUpload \/ RecordUnhashed
  <2>1. pc' = "save"
    BY <1>5 DEF UploadRefused, TransferFails, AnswerLost, RecordUpload,
       RecordUnhashed, Fails
  <2> QED BY <2>1 DEF Chosen, Sending
<1>6. CASE StatAfterUpload
  BY <1>6 DEF StatAfterUpload, UpInv, Chosen, Sending
<1> QED BY <1>1, <1>2, <1>3, <1>4, <1>5, <1>6 DEF Upload

LEMMA UpRest ==
    ASSUME TypeOK, UpInv, Download \/ Conflict \/ Settle
    PROVE  Chosen' /\ Sending'
<1>1. CASE Fetch
  <2>1. pc' = "save" \/ (pc' = "guard" /\ view.r.id \in LiveIds)
    BY <1>1 DEF Fetch, Fails
  <2>2. view' = view
    BY <1>1 DEF Fetch
  <2> QED BY <2>1, <2>2, NoneAssumption DEF LiveIds, Chosen, Sending, Seen
<1>2. CASE Guard \/ Replace
  BY <1>2 DEF Guard, Replace, Protects, UpInv, Chosen, Sending
<1>3. CASE PreCheck \/ RecordDownload
  BY <1>3 DEF PreCheck, RecordDownload, Protects, Chosen, Sending
<1>4. CASE Conflict
  BY <1>4 DEF Conflict, ConflictCheck, Rename, ListCopy, FinishConflict, Protects,
     Fails, Chosen, Sending
<1>5. CASE Settle
  BY <1>5 DEF Settle, VerifyBeforeTrash, SendToTrash, TrashUnavailable,
     BeginRemoteTrash, MoveToTrash, CommitTrash, TouchBase, Forget, Protects,
     Chosen, Sending
<1> QED BY <1>1, <1>2, <1>3, <1>4, <1>5 DEF Download

LEMMA UpEnvironment ==
    ASSUME Unrivalled, TypeOK, UpInv, Environment PROVE Chosen' /\ Sending'
<1>1. CASE Save \/ Delete
  BY <1>1 DEF Save, Delete, UpInv, Chosen, Sending, LiveIds, Live
<1>2. CASE OtherWrites
  <2>1. pc \notin {"put", "post", "requery"}
    BY <1>2 DEF OtherWrites, Unrivalled
  <2> QED BY <1>2, <2>1 DEF OtherWrites, UpInv, Chosen, Sending
<1>3. CASE OtherTrashes
  <2>1. PICK o \in LiveIds : TrashObject(o)
    BY <1>3 DEF OtherTrashes
  <2>2. \A x \in ObjId : Live(x)' => Live(x) /\ obj'[x] = obj[x]
    BY <2>1 DEF TrashObject, Live, TypeOK, TypeDrive
  <2>3. found.id \in ObjId \cup {None}
    BY DEF TypeOK, TypeSeen
  <2>4. /\ UNCHANGED <<pc, rec, kind, view, found>>
    BY <1>3 DEF OtherTrashes
  <2>5. LiveIds' \subseteq LiveIds
    BY <2>2 DEF LiveIds
  <2> QED BY <2>2, <2>3, <2>4, <2>5 DEF UpInv, Chosen, Sending, Live
<1>4. CASE Crash
  BY <1>4 DEF Crash, Chosen, Sending
<1> QED BY <1>1, <1>2, <1>3, <1>4 DEF Environment

LEMMA UpInit == Init => UpInv
<1> SUFFICES ASSUME Init PROVE UpInv
  OBVIOUS
<1> USE DEF Init, NoView, NoRemote, NoFound, NoRow, NoObject, OneObject, KnownIn
<1>1. /\ pc = "idle" /\ ViewKnown /\ FoundKnown
  BY DEF ViewKnown, FoundKnown, Seen
<1>2. Chosen /\ Sending
  BY <1>1 DEF Chosen, Sending
<1>3. CASE InitEmpty
  BY <1>1, <1>2, <1>3 DEF InitEmpty, UpInv, LiveOne, LiveIds, Live, RowKnown, Based
<1>4. CASE InitSynced
  <2>1. PICK o \in ObjId, c \in Content, m \in Stamp :
          /\ OneObject(o, c)
          /\ rec = [id |-> o, lmt |-> m, lsz |-> Size[c], lc |-> c, rver |-> 0,
                    rsz |-> Size[c], rc |-> c, st |-> "synced"]
    BY <1>4 DEF InitSynced
  <2>2. LiveOne
    BY <2>1 DEF LiveOne, LiveIds, Live
  <2>3. RowKnown /\ Based
    BY <2>1, NoneAssumption DEF RowKnown, Based
  <2> QED BY <1>1, <1>2, <2>2, <2>3 DEF UpInv
<1>5. CASE InitRecorded
  <2>1. PICK o \in ObjId, c \in Content :
          /\ OneObject(o, c)
          /\ rec = [id |-> o, lmt |-> None, lsz |-> None, lc |-> None, rver |-> 0,
                    rsz |-> Size[c], rc |-> None, st |-> "pending_download"]
    BY <1>5 DEF InitRecorded
  <2>2. LiveOne
    BY <2>1 DEF LiveOne, LiveIds, Live
  <2>3. RowKnown /\ Based
    BY <2>1, NoneAssumption DEF RowKnown, Based
  <2> QED BY <1>1, <1>2, <2>2, <2>3 DEF UpInv
<1> QED BY <1>3, <1>4, <1>5

LEMMA UpStep == ASSUME Unrivalled PROVE TypeOK /\ UpInv /\ [Next]_vars => UpInv'
<1> SUFFICES ASSUME TypeOK, UpInv, [Next]_vars PROVE UpInv'
  OBVIOUS
<1>1. DriveMoves
  BY DriveStep
<1>2. RowMoves
  BY RowStep
<1>3. ViewMoves /\ FoundMoves
  BY SightStep
<1>4. LiveOne'
  BY <1>1, LiveOneKept DEF UpInv
<1>5. RowKnown' /\ Based'
  BY <1>1, <1>2, RowKept
<1>6. ViewKnown' /\ FoundKnown'
  BY <1>1, <1>3, SightKept
<1>7. Chosen' /\ Sending'
  <2>1. CASE UNCHANGED vars
    BY <2>1 DEF vars, UpInv, Chosen, Sending, LiveIds, Live
  <2> QED
    BY <2>1, UpPass, UpUpload, UpRest, UpEnvironment DEF Next, Tool
<1> QED BY <1>4, <1>5, <1>6, <1>7 DEF UpInv

(* An upload covers no version that the base does not have: at a PUT the   *)
(* invariant has found.id = rec.id with the row's version, and a POST      *)
(* makes a file of its own (executor.upload).                              *)
THEOREM NoVersionIsBuried == ASSUME Unrivalled PROVE Spec => NoBuriedVersion
<1>1. TypeOK /\ UpInv /\ [Next]_vars =>
        [\A o \in ObjId :
           pc \in {"put", "post"} /\ pc' # pc /\ Live(o) /\ obj'[o].ver > obj[o].ver
             => rec.id = o /\ rec.rver = obj[o].ver]_vars
  <2> SUFFICES ASSUME TypeOK, UpInv, Next, NEW o \in ObjId,
                      pc \in {"put", "post"}, pc' # pc, Live(o),
                      obj'[o].ver > obj[o].ver
               PROVE  rec.id = o /\ rec.rver = obj[o].ver
    OBVIOUS
  <2>0. obj \in [ObjId -> [st : {"none", "live", "trash"}, ver : Nat,
                           c : Content \cup {None}, rev : Nat]]
    BY DEF TypeOK, TypeDrive
  <2>1. obj' # obj
    BY <2>0
  <2>2. Put \/ Post \/ AnswerLost
    BY <2>1, DriveWrites DEF MoveToTrash, OtherWrites, OtherTrashes
  <2>3. CASE pc = "put"
    <3>1. PutVersion(found.id, disk.c) /\ found.id \in LiveIds
      BY <2>2, <2>3 DEF Put, Post, AnswerLost
    <3>2. o = found.id
      BY <2>0, <3>1 DEF PutVersion, LiveIds
    <3> QED BY <2>3, <3>2 DEF UpInv, Sending
  <2>4. CASE pc = "post"
    <3>1. LiveIds = {}
      BY <2>4 DEF UpInv, Sending
    <3> QED BY <3>1 DEF LiveIds
  <2> QED BY <2>3, <2>4
<1>2. Spec => []UpInv
  BY UpInit, UpStep, TypeCorrect, PTL DEF Spec
<1> QED
  BY <1>1, <1>2, TypeCorrect, PTL DEF Spec, NoBuriedVersion

-----------------------------------------------------------------------------
(* The invariant of the trash.  What the pass saw is what there is, and    *)
(* what it is about to trash has the version of the baseline.              *)
Observed ==
    /\ Seen(view.r) => view.r.ver # None
    /\ pc \in {"walk", "tip", "changes", "scan", "idle"} => ~Seen(view.r)
    /\ pc \in {"probe", "diff"} /\ Seen(view.r) =>
         \A o \in LiveIds : o = view.r.id /\ obj[o].ver = view.r.ver

Condemned ==
    (pc = "gate" /\ kind = "REMOTE_TRASH") \/ pc \in {"rtrash", "rmove"} =>
        /\ rec.lc # None
        /\ \A o \in LiveIds : o = rec.id => obj[o].ver = rec.rver

DownInv == LiveOne /\ Observed /\ Condemned

LEMMA DownPass == ASSUME TypeOK, DownInv, Pass PROVE Observed' /\ Condemned'
<1> USE DEF NoView, NoRemote
<1>0. obj' = obj
  BY DEF Pass, Start, Scan, ScanSkips, HoldCollapse, Tip, Walk, Changes,
     ProbeFinds, ProbeSkips, Diff, DiffBlind, Execute, NothingToDo, Defer,
     BulkDeleteAbort, SaveCursor
<1>1. LiveIds' = LiveIds
  BY <1>0 DEF LiveIds, Live
<1>2. ASSUME NEW o \in LiveIds, view'.r.id = o, view'.r.ver = obj[o].ver,
             pc' \in {"probe", "diff"}
      PROVE  Observed' /\ Condemned'
  <2>1. obj[o].ver # None
    BY <1>2, NoneAssumption DEF TypeOK, TypeDrive, LiveIds
  <2>2. \A x \in LiveIds : x = o
    BY DEF DownInv, LiveOne
  <2> QED BY <1>0, <1>1, <1>2, <2>1, <2>2 DEF Observed, Condemned
<1>3. ASSUME view'.r = NoRemote, pc' \notin {"gate", "rtrash", "rmove"}
      PROVE  Observed' /\ Condemned'
  BY <1>3 DEF Observed, Condemned, Seen
<1>4. ASSUME UNCHANGED view, pc' = "diff", pc = "probe" \/ ~Seen(view.r)
      PROVE  Observed' /\ Condemned'
  BY <1>0, <1>1, <1>4 DEF DownInv, Observed, Condemned, Seen
<1>5. ASSUME UNCHANGED view,
             pc' \notin {"walk", "tip", "changes", "scan", "idle", "probe", "diff",
                         "gate", "rtrash", "rmove"}
      PROVE  Observed' /\ Condemned'
  BY <1>5 DEF DownInv, Observed, Condemned
<1>6. CASE Start \/ Scan \/ ScanSkips
  <2>1. UNCHANGED view /\ ~Seen(view.r) /\ pc' \in {"scan", "tip", "changes"}
    BY <1>6 DEF Start, Scan, ScanSkips, Observe, DownInv, Observed
  <2> QED BY <2>1 DEF Observed, Condemned, Seen
<1>7. CASE Tip
  <2>1. view'.r = NoRemote
    BY <1>7 DEF Tip
  <2> QED BY <1>3, <1>7, <2>1 DEF Tip
<1>8. CASE Walk
  <2>1. \/ UNCHANGED view
        \/ \E o \in LiveIds : view' = [view EXCEPT !.r = ListEntry(o)]
    BY <1>8 DEF Walk
  <2>2. pc = "walk" /\ pc' = "diff"
    BY <1>8 DEF Walk
  <2>3. CASE UNCHANGED view
    BY <1>4, <2>2, <2>3 DEF DownInv, Observed
  <2>4. ASSUME NEW o \in LiveIds, view' = [view EXCEPT !.r = ListEntry(o)]
        PROVE  view'.r.id = o /\ view'.r.ver = obj[o].ver
    BY <2>4 DEF ListEntry, TypeOK, TypeSeen, View
  <2> QED BY <1>2, <2>1, <2>2, <2>3, <2>4
<1>9. CASE Changes
  <2>1. pc' = "probe"
    BY <1>9 DEF Changes
  <2>2. \/ view'.r = NoRemote
        \/ \E o \in LiveIds : view'.r = FeedEntry(o)
    BY <1>9 DEF Changes
  <2>3. ASSUME NEW o \in LiveIds, view'.r = FeedEntry(o)
        PROVE  view'.r.id = o /\ view'.r.ver = obj[o].ver
    BY <2>3 DEF FeedEntry, ListEntry
  <2> QED BY <1>2, <1>3, <2>1, <2>2, <2>3
<1>10. CASE ProbeFinds
  <2>1. /\ pc = "probe" /\ pc' = "diff"
        /\ UNCHANGED view \/ (/\ rec.id \in LiveIds
                              /\ view' = [view EXCEPT !.r = ListEntry(rec.id)])
    BY <1>10 DEF ProbeFinds
  <2>2. CASE UNCHANGED view
    BY <1>4, <2>1, <2>2
  <2>3. CASE rec.id \in LiveIds /\ view' = [view EXCEPT !.r = ListEntry(rec.id)]
    <3>1. view'.r.id = rec.id /\ view'.r.ver = obj[rec.id].ver
      BY <2>3 DEF ListEntry, TypeOK, TypeSeen, View
    <3> QED BY <1>2, <2>1, <2>3, <3>1
  <2> QED BY <2>1, <2>2, <2>3
<1>11. CASE ProbeSkips
  BY <1>4, <1>11 DEF ProbeSkips
<1>12. CASE Diff \/ DiffBlind
  <2>1. /\ UNCHANGED <<rec, view>> /\ pc = "diff" /\ pc' = "gate"
        /\ kind' = "REMOTE_TRASH" =>
             /\ rec.lc # None /\ Seen(view.r)
             /\ view.r.ver # None => rec.rver = view.r.ver
    BY <1>12, DiffKnows
  <2>2. Observed'
    BY <2>1 DEF DownInv, Observed
  <2>3. kind' = "REMOTE_TRASH" =>
          rec.lc # None /\ \A o \in LiveIds : obj[o].ver = rec.rver
    BY <2>1 DEF DownInv, Observed
  <2> QED BY <1>0, <1>1, <2>1, <2>2, <2>3 DEF Condemned
<1>13. CASE Execute
  <2>1. /\ pc = "gate" /\ kind \in Acting /\ pc' = FirstStep[kind]
        /\ UNCHANGED view
        /\ rec'.lc = rec.lc /\ rec'.id = rec.id /\ rec'.rver = rec.rver
    BY <1>13 DEF Execute, RecordHashFailure, Mark, TypeOK, TypeStore, Row
  <2>2. /\ pc' \in {"list", "precheck", "cstat", "verify", "rtrash", "touch", "forget"}
        /\ pc' = "rtrash" => kind = "REMOTE_TRASH"
    BY <2>1 DEF FirstStep, Acting
  <2> QED BY <1>0, <1>1, <2>1, <2>2 DEF DownInv, Observed, Condemned
<1>14. CASE NothingToDo \/ Defer
  BY <1>5, <1>14 DEF NothingToDo, Defer
<1>15. CASE HoldCollapse \/ BulkDeleteAbort \/ SaveCursor
  BY <1>3, <1>15 DEF HoldCollapse, BulkDeleteAbort, SaveCursor, Forgotten
<1> QED
  BY <1>6, <1>7, <1>8, <1>9, <1>10, <1>11, <1>12, <1>13, <1>14, <1>15 DEF Pass

(* An action has left the gate and keeps the view; only BeginRemoteTrash   *)
(* goes on to the trash, with the row as it is.                            *)
LEMMA DownAct ==
    ASSUME TypeOK, DownInv, Upload \/ Download \/ Conflict \/ Settle
    PROVE  Observed' /\ Condemned'
<1>1. UNCHANGED view
  BY DEF Upload, List, Put, Post, PostConflict, Requery, UploadRefused,
     TransferFails, AnswerLost, StatAfterUpload, RecordUpload, RecordUnhashed,
     Download, PreCheck, Fetch, Guard, Replace, RecordDownload, Conflict,
     ConflictCheck, Rename, ListCopy, FinishConflict, Settle, VerifyBeforeTrash,
     SendToTrash, TrashUnavailable, BeginRemoteTrash, MoveToTrash, CommitTrash,
     TouchBase, Forget
<1>2. CASE BeginRemoteTrash
  <2>1. \/ pc' = "save"
        \/ pc = "rtrash" /\ pc' = "rmove" /\ UNCHANGED <<rec, obj>>
    BY <1>2 DEF BeginRemoteTrash
  <2> QED BY <1>1, <2>1 DEF DownInv, Observed, Condemned, LiveIds, Live
<1>3. CASE ~BeginRemoteTrash
  <2>1. pc' \in {"save", "put", "post", "requery", "stat", "record", "fetch", "guard",
                 "replace", "fresh", "copy", "rename", "crecord", "precheck", "trash",
                 "commit"}
    <3>1. CASE Upload
      BY <3>1 DEF Upload, List, Put, Post, PostConflict, Requery, UploadRefused,
         TransferFails, AnswerLost, StatAfterUpload, RecordUpload, RecordUnhashed,
         Withdraws, Fails
    <3>2. CASE Download \/ Conflict
      BY <3>2 DEF Download, PreCheck, Fetch, Guard, Replace, RecordDownload, Conflict,
         ConflictCheck, Rename, ListCopy, FinishConflict, Protects, Fails
    <3>3. CASE Settle
      BY <1>3, <3>3 DEF Settle, VerifyBeforeTrash, SendToTrash, TrashUnavailable,
         MoveToTrash, CommitTrash, TouchBase, Forget, Protects
    <3> QED BY <3>1, <3>2, <3>3
  <2> QED BY <1>1, <2>1 DEF DownInv, Observed, Condemned
<1> QED BY <1>2, <1>3

LEMMA DownEnvironment ==
    ASSUME Uncontested, TypeOK, DownInv, Environment PROVE Observed' /\ Condemned'
<1>1. CASE Save \/ Delete
  BY <1>1 DEF Save, Delete, DownInv, Observed, Condemned, LiveIds, Live
<1>2. CASE OtherWrites
  <2>1. /\ pc \notin {"probe", "diff", "gate", "rtrash", "rmove"}
        /\ UNCHANGED <<pc, view>>
    BY <1>2 DEF OtherWrites, Uncontested
  <2> QED BY <2>1 DEF DownInv, Observed, Condemned
<1>3. CASE OtherTrashes
  <2>1. PICK o \in LiveIds : TrashObject(o)
    BY <1>3 DEF OtherTrashes
  <2>2. \A x \in LiveIds' : x \in LiveIds /\ obj'[x] = obj[x]
    BY <2>1 DEF TrashObject, LiveIds, Live, TypeOK, TypeDrive
  <2>3. UNCHANGED <<pc, rec, kind, view>>
    BY <1>3 DEF OtherTrashes
  <2> QED BY <2>2, <2>3 DEF DownInv, Observed, Condemned
<1>4. CASE Crash
  BY <1>4 DEF Crash, Forgotten, NoView, NoRemote, Observed, Condemned, Seen
<1> QED BY <1>1, <1>2, <1>3, <1>4 DEF Environment

LEMMA DownInit == Init => DownInv
<1> SUFFICES ASSUME Init PROVE DownInv
  OBVIOUS
<1>1. LiveOne
  BY UpInit DEF UpInv
<1>2. pc = "idle" /\ ~Seen(view.r)
  BY DEF Init, NoView, NoRemote, Seen
<1> QED BY <1>1, <1>2 DEF DownInv, Observed, Condemned

LEMMA DownStep == ASSUME Uncontested PROVE TypeOK /\ DownInv /\ [Next]_vars => DownInv'
<1> SUFFICES ASSUME TypeOK, DownInv, [Next]_vars PROVE DownInv'
  OBVIOUS
<1>1. LiveOne'
  BY DriveStep, LiveOneKept DEF DownInv
<1>2. CASE UNCHANGED vars
  BY <1>1, <1>2 DEF vars, DownInv, Observed, Condemned, LiveIds, Live
<1>3. CASE Next
  BY <1>1, <1>3, DownPass, DownAct, DownEnvironment DEF Next, Tool, DownInv
<1> QED BY <1>2, <1>3

(* What goes to the drive's trash goes there in the version of a baseline: *)
(* a change of another PC wins over a local deletion (executor.remote_trash*)
(* trashes by id, without asking for the version).                         *)
THEOREM OnlySeenIsTrashed == ASSUME Uncontested PROVE Spec => TrashOnlySeen
<1>1. TypeOK /\ DownInv /\ [Next]_vars =>
        [pc = "rmove" /\ obj' # obj
           => rec.lc # None /\ obj[rec.id].ver = rec.rver]_vars
  <2> SUFFICES ASSUME TypeOK, DownInv, Next, pc = "rmove", obj' # obj
               PROVE  rec.lc # None /\ obj[rec.id].ver = rec.rver
    OBVIOUS
  <2>1. AnswerLost \/ MoveToTrash
    BY DriveWrites DEF Put, Post, OtherWrites, OtherTrashes, Uncontested
  <2>2. rec.id \in LiveIds
    BY <2>1 DEF AnswerLost, MoveToTrash
  <2> QED BY <2>2 DEF DownInv, Condemned
<1>2. Spec => []DownInv
  BY DownInit, DownStep, TypeCorrect, PTL DEF Spec
<1> QED
  BY <1>1, <1>2, TypeCorrect, PTL DEF Spec, TrashOnlySeen

=============================================================================
