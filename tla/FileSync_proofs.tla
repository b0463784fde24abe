--------------------------- MODULE FileSync_proofs ---------------------------
(***************************************************************************)
(* Proofs about FileSync, for all contents, ids, times and bounds:         *)
(*   - every variable keeps its domain (TypeCorrect);                      *)
(*   - a conflict copy is never left unaccounted for (CopiesAccounted);    *)
(*   - if the user does not save within the unwatched instants and writes  *)
(*     no bytes twice, the base is sound and no save is lost (BaseIsSound, *)
(*     NoSaveIsLost).  The first condition cannot be dropped: a save       *)
(*     between a stat and the hash after it is taken for synced.           *)
(* The argument is IInv of FileSync: what may be replaced at a control     *)
(* point is on the drive, because the base was sound when diff read it.    *)
(***************************************************************************)
EXTENDS FileSync, TLAPS

USE DEF env, server, local, store, volat, Goto

-----------------------------------------------------------------------------
(* What the operators return.                                              *)
LEMMA SizeOfType ==
    ASSUME NEW c \in Content \cup {None}
    PROVE  SizeOf(c) \in Nat \cup {None}
BY SizeAssumption DEF SizeOf

LEMMA DecideType ==
    ASSUME NEW rr, NEW e, NEW r, NEW u, NEW d, NEW cm, NEW p, NEW lm, NEW rm
    PROVE  Decide(rr, e, r, u, d, cm, p, lm, rm) \in Kind
BY DEF Decide, DecideNew, DecideGone, DecideKnown, Kind, Acting

(* Only content that was compared and found equal lets the base be touched.*)
LEMMA DecideTouch ==
    ASSUME NEW rr, NEW e, NEW r, NEW u, NEW d, NEW cm, NEW p, NEW lm, NEW rm,
           Decide(rr, e, r, u, d, cm, p, lm, rm) = "TOUCH_BASE"
    PROVE  lm # None /\ lm = rm
BY DEF Decide, DecideNew, DecideGone, DecideKnown, SameContent

(* A download that replaces is decided only for a file that has a baseline *)
(* and still has the recorded stat or the recorded bytes.                  *)
LEMMA DecideUpdate ==
    ASSUME NEW rr, NEW e, NEW r, NEW u, NEW d, NEW cm, NEW p, NEW lm, NEW rm,
           Decide(rr, e, r, u, d, cm, p, lm, rm) = "DOWNLOAD_UPDATE"
    PROVE  HasBaseline(rr) /\ (MetaSame(rr, e) \/ (lm # None /\ lm = rr.lc))
BY DEF Decide, DecideNew, DecideGone, DecideKnown

LEMMA FirstStepType ==
    ASSUME NEW k \in Acting
    PROVE  FirstStep[k] \in {"list", "precheck", "cstat", "verify", "rtrash",
                             "touch", "forget"}
BY DEF FirstStep, Acting

LEMMA FirstStepKind ==
    ASSUME NEW k \in Acting
    PROVE  /\ FirstStep[k] = "precheck"
                  => k \in {"DOWNLOAD_NEW", "DOWNLOAD_UPDATE"}
           /\ FirstStep[k] = "cstat" => k = "CONFLICT"
           /\ FirstStep[k] = "touch" => k = "TOUCH_BASE"
BY DEF FirstStep, Acting

LEMMA RowMark ==
    ASSUME TypeOK, NEW st \in Status PROVE Mark(st) \in Row
BY DEF TypeOK, TypeStore, Row, Mark

LEMMA RowErr == ASSUME TypeOK PROVE MarkError \in Row
<1>1. view.r.id \in ObjId \cup {None}
  BY DEF TypeOK, TypeSeen, View, Remote
<1>2. CASE rec.st = "none"
  BY <1>1, <1>2 DEF TypeOK, TypeStore, Row, MarkError, Status
<1>3. CASE rec.st # "none"
  BY <1>3 DEF TypeOK, TypeStore, Row, MarkError, Status
<1> QED BY <1>2, <1>3

LEMMA RowUp ==
    ASSUME TypeOK, NEW md5 \in Content \cup {None}
    PROVE  UploadedRow(md5) \in Row
BY DEF TypeOK, TypeSeen, Row, UploadedRow, Status

(* Marking a row leaves what it claims of the local file alone.            *)
LEMMA MarkKeeps ==
    ASSUME TypeOK
    PROVE  /\ MarkError.lc = rec.lc /\ MarkError.lmt = rec.lmt
           /\ \A st \in Status : Mark(st).lc = rec.lc /\ Mark(st).lmt = rec.lmt
BY DEF TypeOK, TypeStore, Row, Mark, MarkError

-----------------------------------------------------------------------------
(* TypeOK is inductive.                                                    *)
LEMMA ChangesSeen == ASSUME TypeOK, Changes PROVE TypeSeen'
<1> DEFINE next == IF ChangedIds = {} THEN cursor ELSE rev
<1>1. next \in Nat
  BY DEF TypeOK, TypeDrive, TypeStore
<1> HIDE DEF next
<1>2. CASE ChangedIds \cap LiveIds = {}
  <2>1. view' = [NoView EXCEPT !.deleted = rec.id \in ChangedIds, !.next = next]
    BY <1>2 DEF Changes, next
  <2>2. view' = [r |-> NoRemote, deleted |-> rec.id \in ChangedIds,
                 complete |-> FALSE, next |-> next]
    BY <2>1 DEF NoView
  <2>3. (rec.id \in ChangedIds) \in BOOLEAN
    OBVIOUS
  <2>4. view' \in View
    BY <1>1, <2>2, <2>3 DEF NoRemote, View, Remote
  <2> QED
    BY <2>4 DEF Changes, TypeOK, TypeSeen
<1>3. CASE ChangedIds \cap LiveIds # {}
  <2>1. PICK o \in LiveIds :
            view' = [NoView EXCEPT !.r = FeedEntry(o), !.next = next]
    BY <1>3 DEF Changes, next
  <2>2. Size[obj[o].c] \in Nat
    BY SizeAssumption DEF LiveIds, Live, TypeOK, TypeDrive
  <2>3. FeedEntry(o) \in Remote
    BY <2>2 DEF FeedEntry, ListEntry, Remote, LiveIds, TypeOK, TypeDrive
  <2>4. view' = [r |-> FeedEntry(o), deleted |-> FALSE, complete |-> FALSE,
                 next |-> next]
    BY <2>1 DEF NoView
  <2>5. view' \in View
    BY <1>1, <2>3, <2>4 DEF View
  <2> QED
    BY <2>5 DEF Changes, TypeOK, TypeSeen
<1> QED BY <1>2, <1>3

LEMMA TypeKeptEnvironment == ASSUME TypeOK, Environment PROVE TypeOK'
<1>1. CASE Save
  <2>1. TypeLocal'
    BY <1>1, NoneAssumption DEF Save, NewBytes, FreshStamp, InUse, TypeOK,
       TypeLocal
  <2>2. typed' \subseteq Content /\ left' \in Nat
    BY <1>1 DEF Save, Spend, NewBytes, TypeOK
  <2> QED
    BY <1>1, <2>1, <2>2 DEF Save, LiveIds, Live, TypeOK, TypeDrive, TypeStore,
       TypePass, TypeSeen
<1>2. CASE Delete
  <2>1. TypeLocal'
    BY <1>2 DEF Delete, NoFile, TypeOK, TypeLocal
  <2>2. typed' \subseteq Content /\ left' \in Nat
    BY <1>2 DEF Delete, Spend, TypeOK
  <2> QED
    BY <1>2, <2>1, <2>2 DEF Delete, LiveIds, Live, TypeOK, TypeDrive,
       TypeStore, TypePass, TypeSeen
<1>3. CASE OtherWrites
  <2>1. TypeDrive'
    BY <1>3, NoneAssumption DEF OtherWrites, NewBytes, LiveIds, Live,
       FreshIds, PostNew, PutVersion, TypeOK, TypeDrive
  <2>2. typed' \subseteq Content /\ left' \in Nat
    BY <1>3 DEF OtherWrites, Spend, NewBytes, TypeOK
  <2> QED
    BY <1>3, <2>1, <2>2 DEF OtherWrites, TypeOK, TypeLocal, TypeStore,
       TypePass, TypeSeen
<1>4. CASE OtherTrashes
  <2>1. TypeDrive'
    BY <1>4 DEF OtherTrashes, LiveIds, Live, TrashObject, TypeOK, TypeDrive
  <2>2. typed' \subseteq Content /\ left' \in Nat
    BY <1>4 DEF OtherTrashes, Spend, TypeOK
  <2> QED
    BY <1>4, <2>1, <2>2 DEF OtherTrashes, TypeOK, TypeLocal, TypeStore,
       TypePass, TypeSeen
<1>5. CASE Crash
  <2>1. TypePass'
    BY <1>5 DEF Crash, Forgotten, NoMode, NoEntry, NoView, NoRemote, NoFound,
       NoStat, Mode, Kind, TypeOK, TypePass, Pc
  <2>2. TypeSeen'
    BY <1>5 DEF Crash, Forgotten, NoMode, NoEntry, NoView, NoRemote, NoFound,
       NoStat, Mode, Kind, TypeOK, TypeSeen, View, Remote
  <2>3. typed' \subseteq Content /\ left' \in Nat
    BY <1>5 DEF Crash, Fault, Spend, TypeOK
  <2> QED
    BY <1>5, <2>1, <2>2, <2>3 DEF Crash, LiveIds, Live, TypeOK, TypeLocal,
       TypeDrive, TypeStore
<1> QED
  BY <1>1, <1>2, <1>3, <1>4, <1>5 DEF Environment

LEMMA TypeKeptPass == ASSUME TypeOK, Pass PROVE TypeOK'
<1>1. CASE Start
  <2>1. TypeLocal'
    BY <1>1 DEF Start, TypeOK, TypeLocal
  <2>2. TypeStore'
    BY <1>1, RowMark DEF Start, UploadOps, DownloadOps, Status, TypeOK,
       TypeStore, Kind
  <2>3. TypePass'
    BY <1>1, ChoiceAssumption DEF Start, Goto, TypeOK, TypePass, Pc
  <2> QED
    BY <1>1, <2>1, <2>2, <2>3 DEF Start, LiveIds, Live, TypeOK, TypeDrive,
       TypeSeen
<1>2. CASE Scan
  <2>1. TypePass'
    BY <1>2 DEF Scan, Goto, Observe, TypeOK, TypePass, Pc
  <2>2. TypeSeen'
    BY <1>2, SizeOfType DEF Scan, TypeOK, TypeSeen, View, Remote, TypeLocal
  <2> QED
    BY <1>2, <2>1, <2>2 DEF Scan, LiveIds, Live, TypeOK, TypeLocal, TypeDrive,
       TypeStore
<1>3. CASE ScanSkips
  <2>1. TypePass'
    BY <1>3 DEF ScanSkips, Goto, Observe, TypeOK, TypePass, Pc
  <2>2. typed' \subseteq Content /\ left' \in Nat
    BY <1>3 DEF ScanSkips, Fault, Spend, TypeOK
  <2> QED
    BY <1>3, <2>1, <2>2 DEF ScanSkips, LiveIds, Live, TypeOK, TypeLocal,
       TypeDrive, TypeStore, TypeSeen
<1>4. CASE HoldCollapse
  <2>1. TypePass'
    BY <1>4 DEF HoldCollapse, Goto, Forgotten, NoMode, NoEntry, NoView,
       NoRemote, NoFound, NoStat, Mode, Kind, TypeOK, TypePass, Pc
  <2>2. TypeSeen'
    BY <1>4 DEF HoldCollapse, Forgotten, NoMode, NoEntry, NoView, NoRemote,
       NoFound, NoStat, Mode, Kind, TypeOK, TypeSeen, View, Remote
  <2>3. typed' \subseteq Content /\ left' \in Nat
    BY <1>4 DEF HoldCollapse, Spend, TypeOK
  <2> QED
    BY <1>4, <2>1, <2>2, <2>3 DEF HoldCollapse, LiveIds, Live, TypeOK,
       TypeLocal, TypeDrive, TypeStore
<1>5. CASE Tip
  <2>1. TypePass'
    BY <1>5 DEF Tip, Goto, TypeOK, TypePass, Pc
  <2>2. TypeSeen'
    BY <1>5 DEF Tip, NoView, NoRemote, TypeOK, TypeSeen, View, Remote,
       TypeDrive
  <2> QED
    BY <1>5, <2>1, <2>2 DEF Tip, LiveIds, Live, TypeOK, TypeLocal, TypeDrive,
       TypeStore
<1>6. CASE Walk
  <2>1. TypePass'
    BY <1>6 DEF Walk, Goto, TypeOK, TypePass, Pc
  <2>2. TypeSeen'
    BY <1>6, SizeAssumption DEF Walk, LiveIds, Live, ListEntry, TypeOK,
       TypeSeen, View, Remote, TypeDrive
  <2> QED
    BY <1>6, <2>1, <2>2 DEF Walk, LiveIds, Live, TypeOK, TypeLocal, TypeDrive,
       TypeStore
<1>7. CASE Changes
  <2>1. TypePass'
    BY <1>7 DEF Changes, Goto, TypeOK, TypePass, Pc
  <2>2. TypeSeen'
    BY <1>7, ChangesSeen
  <2> QED
    BY <1>7, <2>1, <2>2 DEF Changes, LiveIds, Live, TypeOK, TypeLocal,
       TypeDrive, TypeStore
<1>8. CASE ProbeFinds
  <2>1. TypePass'
    BY <1>8 DEF ProbeFinds, Goto, TypeOK, TypePass, Pc
  <2>2. TypeSeen'
    BY <1>8, SizeAssumption DEF ProbeFinds, LiveIds, Live, ListEntry, TypeOK,
       TypeSeen, View, Remote, TypeDrive
  <2> QED
    BY <1>8, <2>1, <2>2 DEF ProbeFinds, LiveIds, Live, TypeOK, TypeLocal,
       TypeDrive, TypeStore
<1>9. CASE ProbeSkips
  <2>1. TypePass'
    BY <1>9 DEF ProbeSkips, Goto, TypeOK, TypePass, Pc
  <2>2. typed' \subseteq Content /\ left' \in Nat
    BY <1>9 DEF ProbeSkips, Fault, Spend, TypeOK
  <2> QED
    BY <1>9, <2>1, <2>2 DEF ProbeSkips, LiveIds, Live, TypeOK, TypeLocal,
       TypeDrive, TypeStore, TypeSeen
<1>10. CASE Diff
  <2>1. TypePass'
    BY <1>10, DecideType DEF Diff, Goto, DecideWith, TypeOK, TypePass, Pc
  <2>2. TypeSeen'
    BY <1>10 DEF Diff, HashLocal, TypeOK, TypeSeen, View, Remote, TypeLocal
  <2> QED
    BY <1>10, <2>1, <2>2 DEF Diff, LiveIds, Live, TypeOK, TypeLocal,
       TypeDrive, TypeStore
<1>11. CASE DiffBlind
  <2>1. TypePass'
    BY <1>11, DecideType DEF DiffBlind, Goto, DecideWith, TypeOK, TypePass, Pc
  <2>2. TypeSeen'
    BY <1>11 DEF DiffBlind, HashLocal, TypeOK, TypeSeen, View, Remote,
       TypeLocal
  <2>3. typed' \subseteq Content /\ left' \in Nat
    BY <1>11 DEF DiffBlind, Fault, Spend, TypeOK
  <2> QED
    BY <1>11, <2>1, <2>2, <2>3 DEF DiffBlind, LiveIds, Live, TypeOK,
       TypeLocal, TypeDrive, TypeStore
<1>12. CASE Execute
  <2>1. TypeStore'
    BY <1>12, RowMark DEF Execute, RecordHashFailure, Status, TypeOK,
       TypeStore, Kind
  <2>2. TypePass'
    BY <1>12, FirstStepType DEF Execute, Goto, TypeOK, TypePass, Pc
  <2> QED
    BY <1>12, <2>1, <2>2 DEF Execute, LiveIds, Live, TypeOK, TypeLocal,
       TypeDrive, TypeSeen
<1>13. CASE NothingToDo
  <2>1. TypeStore'
    BY <1>13, RowMark DEF NothingToDo, RecordHashFailure, Status, TypeOK,
       TypeStore, Kind
  <2>2. TypePass'
    BY <1>13 DEF NothingToDo, Goto, TypeOK, TypePass, Pc
  <2> QED
    BY <1>13, <2>1, <2>2 DEF NothingToDo, LiveIds, Live, TypeOK, TypeLocal,
       TypeDrive, TypeSeen
<1>14. CASE Defer
  <2>1. TypePass'
    BY <1>14 DEF Defer, Goto, TypeOK, TypePass, Pc
  <2>2. typed' \subseteq Content /\ left' \in Nat
    BY <1>14 DEF Defer, MayDefer, Fault, Spend, TypeOK
  <2> QED
    BY <1>14, <2>1, <2>2 DEF Defer, LiveIds, Live, TypeOK, TypeLocal,
       TypeDrive, TypeStore, TypeSeen
<1>15. CASE BulkDeleteAbort
  <2>1. TypePass'
    BY <1>15 DEF BulkDeleteAbort, Goto, Forgotten, NoMode, NoEntry, NoView,
       NoRemote, NoFound, NoStat, Mode, Kind, TypeOK, TypePass, Pc
  <2>2. TypeSeen'
    BY <1>15 DEF BulkDeleteAbort, Forgotten, NoMode, NoEntry, NoView,
       NoRemote, NoFound, NoStat, Mode, Kind, TypeOK, TypeSeen, View, Remote
  <2>3. typed' \subseteq Content /\ left' \in Nat
    BY <1>15 DEF BulkDeleteAbort, Spend, TypeOK
  <2> QED
    BY <1>15, <2>1, <2>2, <2>3 DEF BulkDeleteAbort, LiveIds, Live, TypeOK,
       TypeLocal, TypeDrive, TypeStore
<1>16. CASE SaveCursor
  <2>1. TypeStore'
    BY <1>16 DEF SaveCursor, TypeOK, TypeStore, Kind, TypeSeen, View
  <2>2. TypePass'
    BY <1>16 DEF SaveCursor, Goto, Forgotten, NoMode, NoEntry, NoView,
       NoRemote, NoFound, NoStat, Mode, Kind, TypeOK, TypePass, Pc
  <2>3. TypeSeen'
    BY <1>16 DEF SaveCursor, Forgotten, NoMode, NoEntry, NoView, NoRemote,
       NoFound, NoStat, Mode, Kind, TypeOK, TypeSeen, View, Remote
  <2> QED
    BY <1>16, <2>1, <2>2, <2>3 DEF SaveCursor, LiveIds, Live, TypeOK,
       TypeLocal, TypeDrive
<1> QED
  BY <1>1, <1>2, <1>3, <1>4, <1>5, <1>6, <1>7, <1>8, <1>9, <1>10, <1>11,
     <1>12, <1>13, <1>14, <1>15, <1>16 DEF Pass

LEMMA TypeKeptUpload == ASSUME TypeOK, Upload PROVE TypeOK'
<1>1. CASE List
  <2>1. TypeStore'
    BY <1>1, RowMark DEF List, Withdraws, Begin, Status, TypeOK, TypeStore,
       Kind, TypePass
  <2>2. TypePass'
    BY <1>1 DEF List, Withdraws, Goto, TypeOK, TypePass, Pc
  <2>3. TypeSeen'
    BY <1>1 DEF List, LiveFound, NoFound, LiveIds, Live, TypeOK, TypeSeen,
       View, Remote, TypeDrive
  <2> QED
    BY <1>1, <2>1, <2>2, <2>3 DEF List, LiveIds, Live, TypeOK, TypeLocal,
       TypeDrive
<1>2. CASE Put
  <2>1. TypeDrive'
    BY <1>2 DEF Put, PutVersion, LiveIds, Live, TypeOK, TypeDrive, TypeLocal
  <2>2. TypePass'
    BY <1>2 DEF Put, Goto, TypeOK, TypePass, Pc
  <2>3. TypeSeen'
    BY <1>2 DEF Put, PutVersion, LiveIds, Live, TypeOK, TypeSeen, View,
       Remote, TypeDrive
  <2> QED
    BY <1>2, <2>1, <2>2, <2>3 DEF Put, TypeOK, TypeLocal, TypeStore
<1>3. CASE Post
  <2>1. TypeDrive'
    BY <1>3 DEF Post, PostNew, FreshIds, LiveIds, Live, TypeOK, TypeDrive,
       TypeLocal
  <2>2. TypePass'
    BY <1>3 DEF Post, Goto, TypeOK, TypePass, Pc
  <2>3. TypeSeen'
    BY <1>3 DEF Post, FreshIds, TypeOK, TypeSeen, View, Remote
  <2> QED
    BY <1>3, <2>1, <2>2, <2>3 DEF Post, TypeOK, TypeLocal, TypeStore
<1>4. CASE PostConflict
  <2>1. TypePass'
    BY <1>4 DEF PostConflict, Goto, TypeOK, TypePass, Pc
  <2> QED
    BY <1>4, <2>1 DEF PostConflict, LiveIds, Live, TypeOK, TypeLocal,
       TypeDrive, TypeStore, TypeSeen
<1>5. CASE Requery
  <2>1. TypeStore'
    BY <1>5, RowMark, RowErr DEF Requery, Withdraws, Fails, Status, TypeOK,
       TypeStore, Kind
  <2>2. TypePass'
    BY <1>5 DEF Requery, Withdraws, Fails, Goto, TypeOK, TypePass, Pc
  <2>3. TypeSeen'
    BY <1>5 DEF Requery, LiveFound, NoFound, LiveIds, Live, TypeOK, TypeSeen,
       View, Remote, TypeDrive
  <2> QED
    BY <1>5, <2>1, <2>2, <2>3 DEF Requery, LiveIds, Live, TypeOK, TypeLocal,
       TypeDrive
<1>6. CASE UploadRefused
  <2>1. TypeStore'
    BY <1>6, RowErr DEF UploadRefused, Fails, TypeOK, TypeStore, Kind
  <2>2. TypePass'
    BY <1>6 DEF UploadRefused, Fails, Goto, TypeOK, TypePass, Pc
  <2> QED
    BY <1>6, <2>1, <2>2 DEF UploadRefused, LiveIds, Live, TypeOK, TypeLocal,
       TypeDrive, TypeSeen
<1>7. CASE TransferFails
  <2>1. TypeStore'
    BY <1>7, RowErr DEF TransferFails, Fails, TypeOK, TypeStore, Kind
  <2>2. TypePass'
    BY <1>7 DEF TransferFails, Fails, Goto, TypeOK, TypePass, Pc
  <2>3. typed' \subseteq Content /\ left' \in Nat
    BY <1>7 DEF TransferFails, Fault, Spend, TypeOK
  <2> QED
    BY <1>7, <2>1, <2>2, <2>3 DEF TransferFails, LiveIds, Live, TypeOK,
       TypeLocal, TypeDrive, TypeSeen
<1>8. CASE AnswerLost
  <2>1. TypeDrive'
    BY <1>8 DEF AnswerLost, PutVersion, PostNew, TrashObject, FreshIds,
       LiveIds, Live, TypeOK, TypeDrive, TypeLocal
  <2>2. TypeStore'
    BY <1>8, RowErr DEF AnswerLost, Fails, TypeOK, TypeStore, Kind
  <2>3. TypePass'
    BY <1>8 DEF AnswerLost, Fails, Goto, TypeOK, TypePass, Pc
  <2>4. typed' \subseteq Content /\ left' \in Nat
    BY <1>8 DEF AnswerLost, Fault, Spend, TypeOK
  <2> QED
    BY <1>8, <2>1, <2>2, <2>3, <2>4 DEF AnswerLost, TypeOK, TypeLocal,
       TypeSeen
<1>9. CASE StatAfterUpload
  <2>1. TypePass'
    BY <1>9 DEF StatAfterUpload, Goto, TypeOK, TypePass, Pc
  <2> QED
    BY <1>9, <2>1 DEF StatAfterUpload, LiveIds, Live, TypeOK, TypeLocal,
       TypeDrive, TypeStore, TypeSeen
<1>10. CASE RecordUpload
  <2>1. TypeStore'
    BY <1>10, RowUp DEF RecordUpload, TypeOK, TypeStore, Kind, TypeLocal,
       TypeSeen
  <2>2. TypePass'
    BY <1>10 DEF RecordUpload, Goto, TypeOK, TypePass, Pc
  <2> QED
    BY <1>10, <2>1, <2>2 DEF RecordUpload, LiveIds, Live, TypeOK, TypeLocal,
       TypeDrive, TypeSeen
<1>11. CASE RecordUnhashed
  <2>1. TypeStore'
    BY <1>11, RowUp DEF RecordUnhashed, TypeOK, TypeStore, Kind
  <2>2. TypePass'
    BY <1>11 DEF RecordUnhashed, Goto, TypeOK, TypePass, Pc
  <2>3. typed' \subseteq Content /\ left' \in Nat
    BY <1>11 DEF RecordUnhashed, Fault, Spend, TypeOK
  <2> QED
    BY <1>11, <2>1, <2>2, <2>3 DEF RecordUnhashed, LiveIds, Live, TypeOK,
       TypeLocal, TypeDrive, TypeSeen
<1> QED
  BY <1>1, <1>2, <1>3, <1>4, <1>5, <1>6, <1>7, <1>8, <1>9, <1>10, <1>11 DEF
     Upload

LEMMA TypeKeptDownload == ASSUME TypeOK, Download PROVE TypeOK'
<1>1. CASE PreCheck
  <2>1. TypeStore'
    BY <1>1, RowMark DEF PreCheck, Protects, Begin, Status, TypeOK, TypeStore,
       Kind, TypePass
  <2>2. TypePass'
    BY <1>1 DEF PreCheck, Protects, Goto, TypeOK, TypePass, Pc
  <2>3. TypeSeen'
    BY <1>1, SizeOfType DEF PreCheck, Stat, TypeOK, TypeSeen, View, Remote,
       TypeLocal
  <2> QED
    BY <1>1, <2>1, <2>2, <2>3 DEF PreCheck, LiveIds, Live, TypeOK, TypeLocal,
       TypeDrive
<1>2. CASE Fetch
  <2>1. TypeStore'
    BY <1>2, RowErr DEF Fetch, Fails, TypeOK, TypeStore, Kind
  <2>2. TypePass'
    BY <1>2 DEF Fetch, Fails, Goto, TypeOK, TypePass, Pc, TypeDrive, TypeSeen,
       LiveIds, Live
  <2>3. TypeSeen'
    BY <1>2 DEF Fetch, LiveIds, Live, TypeOK, TypeSeen, View, Remote,
       TypeDrive
  <2> QED
    BY <1>2, <2>1, <2>2, <2>3 DEF Fetch, LiveIds, Live, TypeOK, TypeLocal,
       TypeDrive
<1>3. CASE Guard
  <2>1. TypeStore'
    BY <1>3, RowMark DEF Guard, Protects, Status, TypeOK, TypeStore, Kind
  <2>2. TypePass'
    BY <1>3 DEF Guard, Protects, Goto, TypeOK, TypePass, Pc
  <2> QED
    BY <1>3, <2>1, <2>2 DEF Guard, LiveIds, Live, TypeOK, TypeLocal,
       TypeDrive, TypeSeen
<1>4. CASE Replace
  <2>1. TypeLocal'
    BY <1>4, NoneAssumption DEF Replace, FreshStamp, InUse, TypeOK, TypeLocal,
       TypeSeen, TypePass
  <2>2. TypePass'
    BY <1>4 DEF Replace, Goto, TypeOK, TypePass, Pc
  <2> QED
    BY <1>4, <2>1, <2>2 DEF Replace, LiveIds, Live, TypeOK, TypeDrive,
       TypeStore, TypeSeen
<1>5. CASE RecordDownload
  <2>1. TypeStore'
    BY <1>5, SizeOfType DEF RecordDownload, Row, Status, TypeOK, TypeStore,
       Kind, TypeLocal, TypeSeen, View, Remote, TypePass
  <2>2. TypePass'
    BY <1>5 DEF RecordDownload, Goto, TypeOK, TypePass, Pc
  <2> QED
    BY <1>5, <2>1, <2>2 DEF RecordDownload, LiveIds, Live, TypeOK, TypeLocal,
       TypeDrive, TypeSeen
<1> QED
  BY <1>1, <1>2, <1>3, <1>4, <1>5 DEF Download

LEMMA TypeKeptConflict == ASSUME TypeOK, Conflict PROVE TypeOK'
<1>1. CASE ConflictCheck
  <2>1. TypeStore'
    BY <1>1, RowMark DEF ConflictCheck, Protects, Begin, Status, TypeOK,
       TypeStore, Kind, TypePass
  <2>2. TypePass'
    BY <1>1 DEF ConflictCheck, Protects, Goto, TypeOK, TypePass, Pc
  <2> QED
    BY <1>1, <2>1, <2>2 DEF ConflictCheck, LiveIds, Live, TypeOK, TypeLocal,
       TypeDrive, TypeSeen
<1>2. CASE Rename
  <2>1. TypeLocal'
    BY <1>2 DEF Rename, NoFile, TypeOK, TypeLocal
  <2>2. TypeStore'
    BY <1>2, RowErr DEF Rename, Fails, TypeOK, TypeStore, Kind
  <2>3. TypePass'
    BY <1>2 DEF Rename, Fails, Goto, TypeOK, TypePass, Pc
  <2> QED
    BY <1>2, <2>1, <2>2, <2>3 DEF Rename, LiveIds, Live, TypeOK, TypeDrive,
       TypeSeen
<1>3. CASE ListCopy
  <2>1. TypeLocal'
    BY <1>3 DEF ListCopy, TypeOK, TypeLocal
  <2>2. TypePass'
    BY <1>3 DEF ListCopy, Goto, TypeOK, TypePass, Pc
  <2> QED
    BY <1>3, <2>1, <2>2 DEF ListCopy, LiveIds, Live, TypeOK, TypeDrive,
       TypeStore, TypeSeen
<1>4. CASE FinishConflict
  <2>1. TypeStore'
    BY <1>4 DEF FinishConflict, TypeOK, TypeStore, Kind
  <2>2. TypePass'
    BY <1>4 DEF FinishConflict, Goto, TypeOK, TypePass, Pc
  <2> QED
    BY <1>4, <2>1, <2>2 DEF FinishConflict, LiveIds, Live, TypeOK, TypeLocal,
       TypeDrive, TypeSeen
<1> QED
  BY <1>1, <1>2, <1>3, <1>4 DEF Conflict

LEMMA TypeKeptSettle == ASSUME TypeOK, Settle PROVE TypeOK'
<1>1. CASE VerifyBeforeTrash
  <2>1. TypeStore'
    BY <1>1, RowMark DEF VerifyBeforeTrash, Protects, Begin, Status, TypeOK,
       TypeStore, Kind, TypePass
  <2>2. TypePass'
    BY <1>1 DEF VerifyBeforeTrash, Protects, Goto, TypeOK, TypePass, Pc
  <2> QED
    BY <1>1, <2>1, <2>2 DEF VerifyBeforeTrash, LiveIds, Live, TypeOK,
       TypeLocal, TypeDrive, TypeSeen
<1>2. CASE SendToTrash
  <2>1. TypeLocal'
    BY <1>2 DEF SendToTrash, NoFile, TypeOK, TypeLocal
  <2>2. TypePass'
    BY <1>2 DEF SendToTrash, Goto, TypeOK, TypePass, Pc
  <2> QED
    BY <1>2, <2>1, <2>2 DEF SendToTrash, LiveIds, Live, TypeOK, TypeDrive,
       TypeStore, TypeSeen
<1>3. CASE TrashUnavailable
  <2>1. TypePass'
    BY <1>3 DEF TrashUnavailable, Goto, TypeOK, TypePass, Pc
  <2>2. typed' \subseteq Content /\ left' \in Nat
    BY <1>3 DEF TrashUnavailable, Fault, Spend, TypeOK
  <2> QED
    BY <1>3, <2>1, <2>2 DEF TrashUnavailable, LiveIds, Live, TypeOK,
       TypeLocal, TypeDrive, TypeStore, TypeSeen
<1>4. CASE BeginRemoteTrash
  <2>1. TypeStore'
    BY <1>4 DEF BeginRemoteTrash, Begin, NoRow, Row, Status, TypeOK,
       TypeStore, Kind, TypePass
  <2>2. TypePass'
    BY <1>4 DEF BeginRemoteTrash, Goto, TypeOK, TypePass, Pc
  <2> QED
    BY <1>4, <2>1, <2>2 DEF BeginRemoteTrash, LiveIds, Live, TypeOK,
       TypeLocal, TypeDrive, TypeSeen
<1>5. CASE MoveToTrash
  <2>1. TypeDrive'
    BY <1>5 DEF MoveToTrash, TrashObject, LiveIds, Live, TypeOK, TypeDrive
  <2>2. TypePass'
    BY <1>5 DEF MoveToTrash, Goto, TypeOK, TypePass, Pc
  <2> QED
    BY <1>5, <2>1, <2>2 DEF MoveToTrash, TypeOK, TypeLocal, TypeStore,
       TypeSeen
<1>6. CASE CommitTrash
  <2>1. TypeStore'
    BY <1>6 DEF CommitTrash, NoRow, Row, Status, TypeOK, TypeStore, Kind
  <2>2. TypePass'
    BY <1>6 DEF CommitTrash, Goto, TypeOK, TypePass, Pc
  <2> QED
    BY <1>6, <2>1, <2>2 DEF CommitTrash, LiveIds, Live, TypeOK, TypeLocal,
       TypeDrive, TypeSeen
<1>7. CASE TouchBase
  <2>1. TypeStore'
    BY <1>7 DEF TouchBase, Row, Status, TypeOK, TypeStore, Kind, TypeSeen,
       View, Remote
  <2>2. TypePass'
    BY <1>7 DEF TouchBase, Goto, TypeOK, TypePass, Pc
  <2> QED
    BY <1>7, <2>1, <2>2 DEF TouchBase, LiveIds, Live, TypeOK, TypeLocal,
       TypeDrive, TypeSeen
<1>8. CASE Forget
  <2>1. TypeStore'
    BY <1>8 DEF Forget, NoRow, Row, Status, TypeOK, TypeStore, Kind
  <2>2. TypePass'
    BY <1>8 DEF Forget, Goto, TypeOK, TypePass, Pc
  <2> QED
    BY <1>8, <2>1, <2>2 DEF Forget, LiveIds, Live, TypeOK, TypeLocal,
       TypeDrive, TypeSeen
<1> QED
  BY <1>1, <1>2, <1>3, <1>4, <1>5, <1>6, <1>7, <1>8 DEF Settle

LEMMA InitType == Init => TypeOK
<1> SUFFICES ASSUME Init PROVE TypeOK
  OBVIOUS
<1> USE BoundAssumption, NoneAssumption, SizeAssumption
    DEF Init, TypeOK, TypeLocal, TypeDrive, TypeStore, TypePass, TypeSeen,
        View, Remote, Row, LiveIds, Live, NoObject, NoFile, NoRow, NoMode,
        NoEntry, NoView, NoRemote, NoFound, NoStat, Pc, Mode, Kind, Status
<1>1. CASE InitEmpty
  BY <1>1 DEF InitEmpty
<1>2. CASE InitSynced
  <2>1. PICK o \in ObjId, c \in Content, m \in Stamp :
            /\ OneObject(o, c) /\ typed = {c} /\ disk = [c |-> c, mt |-> m]
            /\ rec = [id |-> o, lmt |-> m, lsz |-> Size[c], lc |-> c,
                      rver |-> 0, rsz |-> Size[c], rc |-> c, st |-> "synced"]
    BY <1>2 DEF InitSynced
  <2> QED BY <2>1 DEF OneObject
<1>3. CASE InitRecorded
  <2>1. PICK o \in ObjId, c \in Content, d \in Content \cup {None}, m \in Stamp :
            /\ OneObject(o, c) /\ typed = {c, d} \ {None}
            /\ disk = IF d = None THEN NoFile ELSE [c |-> d, mt |-> m]
            /\ rec = [id |-> o, lmt |-> None, lsz |-> None, lc |-> None,
                      rver |-> 0, rsz |-> Size[c], rc |-> None,
                      st |-> "pending_download"]
    BY <1>3 DEF InitRecorded
  <2> QED BY <2>1 DEF OneObject
<1> QED BY <1>1, <1>2, <1>3 DEF Init

LEMMA TypeStep == TypeOK /\ [Next]_vars => TypeOK'
<1> SUFFICES ASSUME TypeOK, [Next]_vars PROVE TypeOK'
  OBVIOUS
<1>1. CASE Next
  BY <1>1, TypeKeptEnvironment, TypeKeptPass, TypeKeptUpload,
     TypeKeptDownload, TypeKeptConflict, TypeKeptSettle DEF Next, Tool
<1>2. CASE UNCHANGED vars
  BY <1>2 DEF vars, TypeOK, TypeLocal, TypeDrive, TypeStore, TypePass,
     TypeSeen, LiveIds, Live
<1> QED BY <1>1, <1>2

(* Whatever users, other PCs and failures do, no handler of the pass puts  *)
(* a value outside its domain into the folder, the drive or the database.  *)
THEOREM TypeCorrect == Spec => []TypeOK
BY InitType, TypeStep, PTL DEF Spec

-----------------------------------------------------------------------------
(* A conflict copy is listed, or recovery will list it.  The strengthening *)
(* says at which control points the journal entry must be open.            *)
CopyInv ==
    /\ pc = "cstat" => kind = "CONFLICT"
    /\ pc \in {"rename", "crecord"} => journal = "CONFLICT"
    /\ unlisted # None => journal = "CONFLICT" /\ pc \in {"crecord", "idle"}

LEMMA CopyStep == TypeOK /\ CopyInv /\ [Next]_vars => CopyInv'
<1> SUFFICES ASSUME TypeOK, CopyInv, [Next]_vars PROVE CopyInv'
  OBVIOUS
<1> USE DEF CopyInv
<1>1. CASE Environment
  BY <1>1 DEF Environment, Save, Delete, OtherWrites, OtherTrashes, Crash
<1>2. CASE Pass
  <2>1. CASE Execute
    BY <1>2, <2>1, FirstStepType, FirstStepKind DEF Execute
  <2> QED
    BY <1>2, <2>1 DEF Pass, Start, Scan, ScanSkips, HoldCollapse, Tip, Walk,
       Changes, ProbeFinds, ProbeSkips, Diff, DiffBlind, NothingToDo, Defer,
       BulkDeleteAbort, SaveCursor, Observe
<1>3. CASE Upload
  BY <1>3 DEF Upload, List, Put, Post, PostConflict, Requery, UploadRefused,
     TransferFails, AnswerLost, StatAfterUpload, RecordUpload,
     RecordUnhashed, Withdraws, Fails
<1>4. CASE Download
  BY <1>4 DEF Download, PreCheck, Fetch, Guard, Replace, RecordDownload,
     Protects, Fails
<1>5. CASE Conflict
  BY <1>5 DEF Conflict, ConflictCheck, Rename, ListCopy, FinishConflict,
     Begin, Protects, Fails
<1>6. CASE Settle
  BY <1>6 DEF Settle, VerifyBeforeTrash, SendToTrash, TrashUnavailable,
     BeginRemoteTrash, MoveToTrash, CommitTrash, TouchBase, Forget, Protects
<1>7. CASE UNCHANGED vars
  BY <1>7 DEF vars
<1> QED BY <1>1, <1>2, <1>3, <1>4, <1>5, <1>6, <1>7 DEF Next, Tool

(* executor.conflict: the journal entry is open before the rename and      *)
(* nothing but the conflicts table or recover() closes it.                 *)
THEOREM CopiesAccounted == Spec => []CopyAccounted
<1>1. Init => CopyInv
  BY DEF Init, CopyInv
<1>2. CopyInv => CopyAccounted
  BY DEF CopyInv, CopyAccounted
<1> QED BY <1>1, <1>2, CopyStep, TypeCorrect, PTL DEF Spec

-----------------------------------------------------------------------------
(* IInv is inductive when the unwatched instants are left alone.           *)
LEMMA ChangesBytes ==
    ASSUME TypeOK, Changes PROVE view'.r.c \in LiveBytes \cup {None}
<1>1. CASE ChangedIds \cap LiveIds = {}
  <2>1. view'.r = NoRemote
    BY <1>1 DEF Changes, NoView
  <2> QED BY <2>1 DEF NoRemote
<1>2. CASE ChangedIds \cap LiveIds # {}
  <2>1. PICK o \in LiveIds : view'.r = FeedEntry(o)
    BY <1>2 DEF Changes, NoView
  <2>2. FeedEntry(o).c = obj[o].c
    BY DEF FeedEntry, ListEntry
  <2> QED
    BY <2>1, <2>2 DEF LiveBytes
<1> QED BY <1>1, <1>2

LEMMA ChangesProvenance == ASSUME IInv, Changes PROVE Provenance'
BY ChangesBytes DEF IInv, Provenance, Changes, LiveBytes, LiveIds, Live

(* What diff leaves: the decision of the entry as it is then, against      *)
(* bytes the drive has.                                                    *)
Decided(rm) ==
    kind' = Decide(rec, entry', view.r, unobs, view.deleted, view.complete,
                   mode.propagate, entry'.c, rm)

LEMMA DiffDecides ==
    ASSUME IInv, Diff \/ DiffBlind
    PROVE  /\ pc' = "gate" /\ UNCHANGED <<disk, kept, rec>>
           /\ entry' \in {entry, HashLocal}
           /\ \E rm \in kept \cup {None} : Decided(rm)
<1>1. HashRemote \in kept \cup {None}
  BY DEF IInv, Provenance, HashRemote, LiveBytes
<1>2. CASE Diff
  BY <1>1, <1>2 DEF Diff, DecideWith, Decided
<1>3. CASE DiffBlind
  BY <1>1, <1>3 DEF DiffBlind, DecideWith, Decided, IInv, Provenance
<1> QED BY <1>2, <1>3

LEMMA DiffAgreed == ASSUME IInv, Diff \/ DiffBlind PROVE Agreed'
<1> SUFFICES ASSUME kind' = "TOUCH_BASE" PROVE entry'.c \in kept'
  BY DEF Agreed
<1>1. PICK rm \in kept \cup {None} : Decided(rm)
  BY DiffDecides
<1>2. entry'.c # None /\ entry'.c = rm
  BY <1>1, DecideTouch DEF Decided
<1> QED BY <1>2, DiffDecides

LEMMA DiffReplaceable == ASSUME IInv, Diff \/ DiffBlind PROVE Replaceable'
<1> SUFFICES ASSUME kind' = "DOWNLOAD_UPDATE", disk.c # None, disk.mt = entry'.mt
             PROVE  disk.c \in kept
  BY DiffDecides DEF Replaceable
<1>1. PICK rm \in kept \cup {None} : Decided(rm)
  BY DiffDecides
<1>2. /\ HasBaseline(rec)
      /\ MetaSame(rec, entry') \/ (entry'.c # None /\ entry'.c = rec.lc)
  BY <1>1, DecideUpdate DEF Decided
<1>3. entry.c = None
  BY DEF IInv, EntrySound, Diff, DiffBlind
<1>4. entry'.c \in {None, disk.c}
  BY <1>3, DiffDecides DEF HashLocal, IInv, TypeOK, TypeSeen
<1>5. CASE MetaSame(rec, entry')
  BY <1>2, <1>5 DEF MetaSame, HasBaseline, IInv, BaseSound
<1>6. CASE entry'.c # None /\ entry'.c = rec.lc
  BY <1>4, <1>6 DEF IInv, BaseSound
<1> QED BY <1>2, <1>5, <1>6

LEMMA KeptEnvironment ==
    ASSUME IInv, TypeOK', Watched, Environment PROVE IInv'
<1> USE NoneAssumption
    DEF IInv, BaseSound, Provenance, Course, EntrySound, Sent, Agreed,
        Replaceable, LiveBytes, LiveIds, Live, TypeOK, TypeLocal, TypeDrive,
        TypeStore, TypePass, TypeSeen, View, Remote, Row, Pc, Watched,
        Unwatched
<1>1. CASE Save
  BY <1>1 DEF Save, FreshStamp, InUse, NewBytes
<1>2. CASE Delete
  BY <1>2 DEF Delete, NoFile
<1>3. CASE OtherWrites
  BY <1>3 DEF OtherWrites, FreshIds, NewBytes, PostNew, PutVersion
<1>4. CASE OtherTrashes
  BY <1>4 DEF OtherTrashes, TrashObject
<1>5. CASE Crash
  BY <1>5 DEF Crash, Forgotten, NoEntry, NoFound, NoMode, NoRemote, NoStat,
     NoView
<1> QED
  BY <1>1, <1>2, <1>3, <1>4, <1>5 DEF Environment

LEMMA KeptPass ==
    ASSUME IInv, TypeOK', Watched, Pass PROVE IInv'
<1> USE NoneAssumption
    DEF IInv, BaseSound, Provenance, Course, EntrySound, Sent, Agreed,
        Replaceable, LiveBytes, LiveIds, Live, TypeOK, TypeLocal, TypeDrive,
        TypeStore, TypePass, TypeSeen, View, Remote, Row, Pc, Watched,
        Unwatched
<1>1. CASE Start
  BY <1>1 DEF Start, DownloadOps, UploadOps, Mark
<1>2. CASE Scan
  BY <1>2 DEF Scan, Observe
<1>3. CASE ScanSkips
  BY <1>3 DEF ScanSkips, Observe
<1>4. CASE HoldCollapse
  BY <1>4 DEF HoldCollapse, Forgotten, NoEntry, NoFound, NoMode, NoRemote,
     NoStat, NoView
<1>5. CASE Tip
  BY <1>5 DEF Tip, NoRemote, NoView
<1>6. CASE Walk
  BY <1>6 DEF Walk, ListEntry
<1>7. CASE Changes
  <2>1. BaseSound'
    BY <1>7 DEF Changes, ChangedIds, FeedEntry, ListEntry, NoRemote, NoView
  <2>2. Provenance'
    BY <1>7, ChangesProvenance
  <2>3. Course'
    BY <1>7 DEF Changes, ChangedIds, FeedEntry, ListEntry, NoRemote, NoView
  <2>4. EntrySound'
    BY <1>7 DEF Changes, ChangedIds, FeedEntry, ListEntry, NoRemote, NoView
  <2>5. Sent'
    BY <1>7 DEF Changes, ChangedIds, FeedEntry, ListEntry, NoRemote, NoView
  <2>6. Agreed'
    BY <1>7 DEF Changes, ChangedIds, FeedEntry, ListEntry, NoRemote, NoView
  <2>7. Replaceable'
    BY <1>7 DEF Changes, ChangedIds, FeedEntry, ListEntry, NoRemote, NoView
  <2> QED BY <2>1, <2>2, <2>3, <2>4, <2>5, <2>6, <2>7
<1>8. CASE ProbeFinds
  BY <1>8 DEF ProbeFinds, ListEntry
<1>9. CASE ProbeSkips
  BY <1>9 DEF ProbeSkips
<1>10. CASE Diff
  <2>1. BaseSound'
    BY <1>10 DEF Diff, DecideWith, HashLocal
  <2>2. Provenance'
    BY <1>10 DEF Diff, DecideWith, HashLocal
  <2>3. Course'
    BY <1>10 DEF Diff, DecideWith, HashLocal
  <2>4. EntrySound'
    BY <1>10 DEF Diff, DecideWith, HashLocal
  <2>5. Sent'
    BY <1>10 DEF Diff, DecideWith, HashLocal
  <2>6. Agreed'
    BY <1>10, DiffAgreed
  <2>7. Replaceable'
    BY <1>10, DiffReplaceable
  <2> QED BY <2>1, <2>2, <2>3, <2>4, <2>5, <2>6, <2>7
<1>11. CASE DiffBlind
  <2>1. BaseSound'
    BY <1>11 DEF DiffBlind, DecideWith, HashLocal
  <2>2. Provenance'
    BY <1>11 DEF DiffBlind, DecideWith, HashLocal
  <2>3. Course'
    BY <1>11 DEF DiffBlind, DecideWith, HashLocal
  <2>4. EntrySound'
    BY <1>11 DEF DiffBlind, DecideWith, HashLocal
  <2>5. Sent'
    BY <1>11 DEF DiffBlind, DecideWith, HashLocal
  <2>6. Agreed'
    BY <1>11, DiffAgreed
  <2>7. Replaceable'
    BY <1>11, DiffReplaceable
  <2> QED BY <2>1, <2>2, <2>3, <2>4, <2>5, <2>6, <2>7
<1>12. CASE Execute
  <2>1. BaseSound'
    BY <1>12, FirstStepType, FirstStepKind DEF Execute, RecordHashFailure,
       Mark
  <2>2. Provenance'
    BY <1>12, FirstStepType, FirstStepKind DEF Execute, RecordHashFailure,
       Mark
  <2>3. Course'
    BY <1>12, FirstStepType, FirstStepKind DEF Execute, RecordHashFailure,
       Mark
  <2>4. EntrySound'
    BY <1>12, FirstStepType, FirstStepKind DEF Execute, RecordHashFailure,
       Mark
  <2>5. Sent'
    BY <1>12, FirstStepType, FirstStepKind DEF Execute, RecordHashFailure,
       Mark
  <2>6. Agreed'
    BY <1>12, FirstStepType, FirstStepKind DEF Execute, RecordHashFailure,
       Mark
  <2>7. Replaceable'
    BY <1>12, FirstStepType, FirstStepKind DEF Execute, RecordHashFailure,
       Mark
  <2> QED BY <2>1, <2>2, <2>3, <2>4, <2>5, <2>6, <2>7
<1>13. CASE NothingToDo
  BY <1>13 DEF NothingToDo, RecordHashFailure, Mark
<1>14. CASE Defer
  BY <1>14 DEF Defer, MayDefer
<1>15. CASE BulkDeleteAbort
  BY <1>15 DEF BulkDeleteAbort, Forgotten, NoEntry, NoFound, NoMode, NoRemote,
     NoStat, NoView
<1>16. CASE SaveCursor
  BY <1>16 DEF SaveCursor, Forgotten, NoEntry, NoFound, NoMode, NoRemote,
     NoStat, NoView
<1> QED
  BY <1>1, <1>2, <1>3, <1>4, <1>5, <1>6, <1>7, <1>8, <1>9, <1>10, <1>11,
     <1>12, <1>13, <1>14, <1>15, <1>16 DEF Pass

LEMMA KeptUpload ==
    ASSUME IInv, TypeOK', Watched, Upload PROVE IInv'
<1> USE NoneAssumption
    DEF IInv, BaseSound, Provenance, Course, EntrySound, Sent, Agreed,
        Replaceable, LiveBytes, LiveIds, Live, TypeOK, TypeLocal, TypeDrive,
        TypeStore, TypePass, TypeSeen, View, Remote, Row, Pc, Watched,
        Unwatched
<1>1. CASE List
  BY <1>1 DEF List, Begin, LiveFound, NoFound, Withdraws, Mark
<1>2. CASE Put
  BY <1>2 DEF Put, PutVersion
<1>3. CASE Post
  BY <1>3 DEF Post, FreshIds, PostNew
<1>4. CASE PostConflict
  BY <1>4 DEF PostConflict
<1>5. CASE Requery
  <2>1. BaseSound'
    BY <1>5, MarkKeeps DEF Requery, Fails, LiveFound, NoFound, Withdraws,
       Status
  <2>2. Provenance'
    BY <1>5, MarkKeeps DEF Requery, Fails, LiveFound, NoFound, Withdraws,
       Status
  <2>3. Course'
    BY <1>5 DEF Requery, Fails, LiveFound, NoFound, Withdraws, Mark, MarkError
  <2>4. EntrySound'
    BY <1>5 DEF Requery, Fails, LiveFound, NoFound, Withdraws, Mark, MarkError
  <2>5. Sent'
    BY <1>5 DEF Requery, Fails, LiveFound, NoFound, Withdraws, Mark, MarkError
  <2>6. Agreed'
    BY <1>5 DEF Requery, Fails, LiveFound, NoFound, Withdraws, Mark, MarkError
  <2>7. Replaceable'
    BY <1>5 DEF Requery, Fails, LiveFound, NoFound, Withdraws, Mark, MarkError
  <2> QED BY <2>1, <2>2, <2>3, <2>4, <2>5, <2>6, <2>7
<1>6. CASE UploadRefused
  BY <1>6 DEF UploadRefused, Fails, MarkError
<1>7. CASE TransferFails
  BY <1>7 DEF TransferFails, Fails, MarkError
<1>8. CASE AnswerLost
  <2>1. BaseSound'
    BY <1>8 DEF AnswerLost, Fails, FreshIds, PostNew, PutVersion, TrashObject,
       MarkError
  <2>2. Provenance'
    BY <1>8, MarkKeeps DEF AnswerLost, Fails, FreshIds, PostNew, PutVersion,
       TrashObject, Status
  <2>3. Course'
    BY <1>8 DEF AnswerLost, Fails, FreshIds, PostNew, PutVersion, TrashObject,
       MarkError
  <2>4. EntrySound'
    BY <1>8 DEF AnswerLost, Fails, FreshIds, PostNew, PutVersion, TrashObject,
       MarkError
  <2>5. Sent'
    BY <1>8 DEF AnswerLost, Fails, FreshIds, PostNew, PutVersion, TrashObject,
       MarkError
  <2>6. Agreed'
    BY <1>8 DEF AnswerLost, Fails, FreshIds, PostNew, PutVersion, TrashObject,
       MarkError
  <2>7. Replaceable'
    BY <1>8 DEF AnswerLost, Fails, FreshIds, PostNew, PutVersion, TrashObject,
       MarkError
  <2> QED BY <2>1, <2>2, <2>3, <2>4, <2>5, <2>6, <2>7
<1>9. CASE StatAfterUpload
  <2>1. BaseSound'
    BY <1>9 DEF StatAfterUpload, Untouched
  <2>2. Provenance'
    BY <1>9 DEF StatAfterUpload, Untouched
  <2>3. Course'
    BY <1>9 DEF StatAfterUpload, Untouched
  <2>4. EntrySound'
    BY <1>9 DEF StatAfterUpload, Untouched
  <2>5. Sent'
    BY <1>9 DEF StatAfterUpload, Untouched
  <2>6. Agreed'
    BY <1>9 DEF StatAfterUpload, Untouched
  <2>7. Replaceable'
    BY <1>9 DEF StatAfterUpload, Untouched
  <2> QED BY <2>1, <2>2, <2>3, <2>4, <2>5, <2>6, <2>7
<1>10. CASE RecordUpload
  BY <1>10 DEF RecordUpload, UploadedRow
<1>11. CASE RecordUnhashed
  BY <1>11 DEF RecordUnhashed, UploadedRow
<1> QED
  BY <1>1, <1>2, <1>3, <1>4, <1>5, <1>6, <1>7, <1>8, <1>9, <1>10, <1>11 DEF
     Upload

LEMMA KeptDownload ==
    ASSUME IInv, TypeOK', Watched, Download PROVE IInv'
<1> USE NoneAssumption
    DEF IInv, BaseSound, Provenance, Course, EntrySound, Sent, Agreed,
        Replaceable, LiveBytes, LiveIds, Live, TypeOK, TypeLocal, TypeDrive,
        TypeStore, TypePass, TypeSeen, View, Remote, Row, Pc, Watched,
        Unwatched
<1>1. CASE PreCheck
  BY <1>1 DEF PreCheck, Begin, Protects, Mark, Untouched, Stat
<1>2. CASE Fetch
  <2>1. BaseSound'
    BY <1>2, MarkKeeps DEF Fetch, Fails, Status
  <2>2. Provenance'
    BY <1>2, MarkKeeps DEF Fetch, Fails, Status
  <2>3. Course'
    BY <1>2 DEF Fetch, Fails, MarkError
  <2>4. EntrySound'
    BY <1>2 DEF Fetch, Fails, MarkError
  <2>5. Sent'
    BY <1>2 DEF Fetch, Fails, MarkError
  <2>6. Agreed'
    BY <1>2 DEF Fetch, Fails, MarkError
  <2>7. Replaceable'
    BY <1>2 DEF Fetch, Fails, MarkError
  <2> QED BY <2>1, <2>2, <2>3, <2>4, <2>5, <2>6, <2>7
<1>3. CASE Guard
  BY <1>3 DEF Guard, Protects, Mark, Stat
<1>4. CASE Replace
  BY <1>4 DEF Replace, FreshStamp, InUse
<1>5. CASE RecordDownload
  BY <1>5 DEF RecordDownload
<1> QED
  BY <1>1, <1>2, <1>3, <1>4, <1>5 DEF Download

LEMMA KeptConflict ==
    ASSUME IInv, TypeOK', Watched, Conflict PROVE IInv'
<1> USE NoneAssumption
    DEF IInv, BaseSound, Provenance, Course, EntrySound, Sent, Agreed,
        Replaceable, LiveBytes, LiveIds, Live, TypeOK, TypeLocal, TypeDrive,
        TypeStore, TypePass, TypeSeen, View, Remote, Row, Pc, Watched,
        Unwatched
<1>1. CASE ConflictCheck
  BY <1>1 DEF ConflictCheck, Begin, Protects, Mark, Untouched
<1>2. CASE Rename
  <2>1. BaseSound'
    BY <1>2, MarkKeeps DEF Rename, Fails, NoFile, Status
  <2>2. Provenance'
    BY <1>2, MarkKeeps DEF Rename, Fails, NoFile, Status
  <2>3. Course'
    BY <1>2 DEF Rename, Fails, NoFile, MarkError
  <2>4. EntrySound'
    BY <1>2 DEF Rename, Fails, NoFile, MarkError
  <2>5. Sent'
    BY <1>2 DEF Rename, Fails, NoFile, MarkError
  <2>6. Agreed'
    BY <1>2 DEF Rename, Fails, NoFile, MarkError
  <2>7. Replaceable'
    BY <1>2 DEF Rename, Fails, NoFile, MarkError
  <2> QED BY <2>1, <2>2, <2>3, <2>4, <2>5, <2>6, <2>7
<1>3. CASE ListCopy
  BY <1>3 DEF ListCopy
<1>4. CASE FinishConflict
  BY <1>4 DEF FinishConflict
<1> QED
  BY <1>1, <1>2, <1>3, <1>4 DEF Conflict

LEMMA KeptSettle ==
    ASSUME IInv, TypeOK', Watched, Settle PROVE IInv'
<1> USE NoneAssumption
    DEF IInv, BaseSound, Provenance, Course, EntrySound, Sent, Agreed,
        Replaceable, LiveBytes, LiveIds, Live, TypeOK, TypeLocal, TypeDrive,
        TypeStore, TypePass, TypeSeen, View, Remote, Row, Pc, Watched,
        Unwatched
<1>1. CASE VerifyBeforeTrash
  BY <1>1 DEF VerifyBeforeTrash, Begin, Protects, Mark, Untouched
<1>2. CASE SendToTrash
  BY <1>2 DEF SendToTrash, NoFile
<1>3. CASE TrashUnavailable
  BY <1>3 DEF TrashUnavailable
<1>4. CASE BeginRemoteTrash
  BY <1>4 DEF BeginRemoteTrash, Begin, NoRow
<1>5. CASE MoveToTrash
  BY <1>5 DEF MoveToTrash, TrashObject
<1>6. CASE CommitTrash
  BY <1>6 DEF CommitTrash, NoRow
<1>7. CASE TouchBase
  BY <1>7 DEF TouchBase
<1>8. CASE Forget
  BY <1>8 DEF Forget, NoRow
<1> QED
  BY <1>1, <1>2, <1>3, <1>4, <1>5, <1>6, <1>7, <1>8 DEF Settle

LEMMA InitInv == Init => IInv
<1> SUFFICES ASSUME Init PROVE IInv
  OBVIOUS
<1> USE NoneAssumption, InitType
    DEF Init, OneObject, IInv, BaseSound, Provenance, Course, EntrySound, Sent,
        Agreed, Replaceable, LiveBytes, LiveIds, Live, NoObject, NoFile, NoRow,
        NoEntry, NoView, NoRemote
<1>1. CASE InitEmpty
  BY <1>1 DEF InitEmpty
<1>2. CASE InitSynced
  <2>1. PICK o \in ObjId, c \in Content, m \in Stamp :
            /\ OneObject(o, c) /\ typed = {c} /\ disk = [c |-> c, mt |-> m]
            /\ rec = [id |-> o, lmt |-> m, lsz |-> Size[c], lc |-> c,
                      rver |-> 0, rsz |-> Size[c], rc |-> c, st |-> "synced"]
    BY <1>2 DEF InitSynced
  <2> QED BY <1>2, <2>1 DEF InitSynced
<1>3. CASE InitRecorded
  <2>1. PICK o \in ObjId, c \in Content, d \in Content \cup {None}, m \in Stamp :
            /\ OneObject(o, c) /\ typed = {c, d} \ {None}
            /\ disk = IF d = None THEN NoFile ELSE [c |-> d, mt |-> m]
            /\ rec = [id |-> o, lmt |-> None, lsz |-> None, lc |-> None,
                      rver |-> 0, rsz |-> Size[c], rc |-> None,
                      st |-> "pending_download"]
    BY <1>3 DEF InitRecorded
  <2> QED BY <2>1
<1> QED BY <1>1, <1>2, <1>3

LEMMA InvStep == ASSUME Watched PROVE IInv /\ [Next]_vars => IInv'
<1> SUFFICES ASSUME IInv, [Next]_vars PROVE IInv'
  OBVIOUS
<1>1. TypeOK'
  BY TypeStep DEF IInv
<1>2. CASE Next
  BY <1>1, <1>2, KeptEnvironment, KeptPass, KeptUpload, KeptDownload,
     KeptConflict, KeptSettle DEF Next, Tool
<1>3. CASE UNCHANGED vars
  BY <1>1, <1>3 DEF vars, IInv, BaseSound, Provenance, Course, EntrySound,
     Sent, Agreed, Replaceable, LiveBytes, LiveIds, Live
<1> QED BY <1>2, <1>3

LEMMA Inductive == ASSUME Watched PROVE Spec => []IInv
<1>1. IInv /\ [Next]_vars => IInv'
  BY InvStep
<1> QED BY <1>1, InitInv, PTL DEF Spec

(* differ may take the recorded time for the recorded bytes, and bytes it  *)
(* recorded for bytes the drive has.                                       *)
THEOREM BaseIsSound == ASSUME Watched PROVE Spec => []BaseSound
<1>1. IInv => BaseSound
  BY DEF IInv
<1> QED BY <1>1, Inductive, PTL

(* os.replace of a download, os.replace of a conflict and send_to_trash:   *)
(* only Replace destroys bytes, and what it may destroy is on the drive.   *)
THEOREM NoSaveIsLost == ASSUME Watched PROVE Spec => NoLostSave
<1> DEFINE Lossless == pc' # pc /\ disk'.c # disk.c /\ disk.c # None
                          => disk.c \in kept' \cup bin' \cup copies'
<1>1. IInv /\ [Next]_vars => Lossless
  <2> SUFFICES ASSUME IInv, Next, pc' # pc, disk'.c # disk.c, disk.c # None
               PROVE  disk.c \in kept' \cup bin' \cup copies'
    BY DEF vars
  <2>1. Replace \/ Rename \/ SendToTrash
    <3>1. CASE Environment
      BY <3>1 DEF Environment, Save, Delete, OtherWrites, OtherTrashes, Crash
    <3>2. CASE Pass
      BY <3>2 DEF Pass, Start, Scan, ScanSkips, HoldCollapse, Tip, Walk,
         Changes, ProbeFinds, ProbeSkips, Diff, DiffBlind, Execute,
         NothingToDo, Defer, BulkDeleteAbort, SaveCursor
    <3>3. CASE Upload
      BY <3>3 DEF Upload, List, Put, Post, PostConflict, Requery,
         UploadRefused, TransferFails, AnswerLost, StatAfterUpload,
         RecordUpload, RecordUnhashed
    <3>4. CASE Download
      BY <3>4 DEF Download, PreCheck, Fetch, Guard, RecordDownload
    <3>5. CASE Conflict
      BY <3>5 DEF Conflict, ConflictCheck, ListCopy, FinishConflict
    <3>6. CASE Settle
      BY <3>6 DEF Settle, VerifyBeforeTrash, TrashUnavailable,
         BeginRemoteTrash, MoveToTrash, CommitTrash, TouchBase, Forget
    <3> QED BY <3>1, <3>2, <3>3, <3>4, <3>5, <3>6 DEF Next, Tool
  <2>2. CASE Replace
    BY <2>2 DEF Replace, IInv, Replaceable
  <2>3. CASE Rename
    BY <2>3 DEF Rename
  <2>4. CASE SendToTrash
    BY <2>4 DEF SendToTrash
  <2> QED BY <2>1, <2>2, <2>3, <2>4
<1> QED
  BY <1>1, Inductive, PTL DEF Spec, NoLostSave
=============================================================================
