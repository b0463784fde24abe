----------------------- MODULE FileSyncChanges_proofs -----------------------
(***************************************************************************)
(* Proofs about what FileSync makes of the changes of the two sides, for   *)
(* all contents, ids, times and bounds:                                    *)
(*   - where every hash can be read and what is compared stays so until    *)
(*     the rename, a conflict copy is made only of bytes that differ from  *)
(*     the drive's (OnlyForksAreCopied);                                   *)
(*   - where the folder rests during a pass, transfers succeed and a row   *)
(*     that has lost its file can be told from the next file of the name,  *)
(*     the saved cursor has passed only changes that the row has or that   *)
(*     a later pass asks for (CursorIsHonest, NothingIsMissed), although   *)
(*     other PCs write and trash between any two steps, the process dies   *)
(*     anywhere, and answers are lost.                                     *)
(***************************************************************************)
EXTENDS FileSyncVersions_proofs

USE DEF env, server, local, store, volat, Goto

(* What a conflict is decided on stays so until the file is renamed: every *)
(* hash can be read, and either nobody writes bytes twice, or nobody saves *)
(* right before the rename and no other PC writes after the observation.   *)
Discerning ==
    /\ "hash" \notin Faults
    /\ \/ ~Undo
       \/ /\ "rename" \notin SavePoints
          /\ RemotePoints \cap {"probe", "diff", "gate", "cstat", "rename"} = {}

-----------------------------------------------------------------------------
(* The file, and what is read of it.                                       *)
DiskMoves == \/ UNCHANGED disk
             \/ disk' = NoFile /\ UNCHANGED typed
             \/ Save
             \/ Replace

LEMMA DiskStep == ASSUME [Next]_vars PROVE DiskMoves
<1>1. CASE Pass \/ UNCHANGED vars
  BY <1>1 DEF Pass, Start, Scan, ScanSkips, HoldCollapse, Tip, Walk, Changes,
     ProbeFinds, ProbeSkips, Diff, DiffBlind, Execute, NothingToDo, Defer,
     BulkDeleteAbort, SaveCursor, vars, DiskMoves
<1>2. CASE Upload
  BY <1>2 DEF Upload, List, Put, Post, PostConflict, Requery, UploadRefused,
     TransferFails, AnswerLost, StatAfterUpload, RecordUpload, RecordUnhashed, DiskMoves
<1>3. CASE Download \/ Conflict
  BY <1>3 DEF Download, PreCheck, Fetch, Guard, RecordDownload,
     Conflict, ConflictCheck, Rename, ListCopy, FinishConflict, DiskMoves
<1>4. CASE Settle
  BY <1>4 DEF Settle, VerifyBeforeTrash, SendToTrash, TrashUnavailable,
     BeginRemoteTrash, MoveToTrash, CommitTrash, TouchBase, Forget, DiskMoves
<1>5. CASE Environment
  BY <1>5 DEF Environment, Delete, OtherWrites, OtherTrashes, Crash, DiskMoves
<1> QED BY <1>1, <1>2, <1>3, <1>4, <1>5 DEF Next, Tool

(* What a step does to the bytes in the temporary file.                    *)
LEMMA GotStep == ASSUME [Next]_vars PROVE got' \in {got, None} \/ Fetch
<1>1. CASE Pass \/ UNCHANGED vars
  BY <1>1 DEF Pass, Start, Scan, ScanSkips, HoldCollapse, Tip, Walk, Changes,
     ProbeFinds, ProbeSkips, Diff, DiffBlind, Execute, NothingToDo, Defer,
     BulkDeleteAbort, SaveCursor, Forgotten, vars
<1>2. CASE Upload
  BY <1>2 DEF Upload, List, Put, Post, PostConflict, Requery, UploadRefused,
     TransferFails, AnswerLost, StatAfterUpload, RecordUpload, RecordUnhashed
<1>3. CASE Download \/ Conflict
  BY <1>3 DEF Download, PreCheck, Guard, Replace, RecordDownload,
     Conflict, ConflictCheck, Rename, ListCopy, FinishConflict
<1>4. CASE Settle
  BY <1>4 DEF Settle, VerifyBeforeTrash, SendToTrash, TrashUnavailable,
     BeginRemoteTrash, MoveToTrash, CommitTrash, TouchBase, Forget
<1>5. CASE Environment
  BY <1>5 DEF Environment, Save, Delete, OtherWrites, OtherTrashes, Crash, Forgotten
<1> QED BY <1>1, <1>2, <1>3, <1>4, <1>5 DEF Next, Tool

(* And to the scanned entry: forget it, read it, hash it.                  *)
EntryMoves == \/ UNCHANGED entry
              \/ entry' = NoEntry /\ UNCHANGED disk
              \/ /\ entry' = [mt |-> disk.mt, sz |-> SizeOf(disk.c), c |-> None]
                 /\ UNCHANGED disk
              \/ entry' = [entry EXCEPT !.c = disk.c] /\ UNCHANGED disk

LEMMA EntryStep == ASSUME [Next]_vars PROVE EntryMoves
<1>1. CASE Pass \/ UNCHANGED vars
  BY <1>1 DEF Pass, Start, Scan, ScanSkips, HoldCollapse, Tip, Walk, Changes,
     ProbeFinds, ProbeSkips, Diff, DiffBlind, Execute, NothingToDo, Defer,
     BulkDeleteAbort, SaveCursor, Forgotten, HashLocal, vars, EntryMoves
<1>2. CASE Upload
  BY <1>2 DEF Upload, List, Put, Post, PostConflict, Requery, UploadRefused,
     TransferFails, AnswerLost, StatAfterUpload, RecordUpload, RecordUnhashed, EntryMoves
<1>3. CASE Download \/ Conflict
  BY <1>3 DEF Download, PreCheck, Fetch, Guard, Replace, RecordDownload,
     Conflict, ConflictCheck, Rename, ListCopy, FinishConflict, EntryMoves
<1>4. CASE Settle
  BY <1>4 DEF Settle, VerifyBeforeTrash, SendToTrash, TrashUnavailable,
     BeginRemoteTrash, MoveToTrash, CommitTrash, TouchBase, Forget, EntryMoves
<1>5. CASE Environment
  BY <1>5 DEF Environment, Save, Delete, OtherWrites, OtherTrashes, Crash, Forgotten,
     EntryMoves
<1> QED BY <1>1, <1>2, <1>3, <1>4, <1>5 DEF Next, Tool

(* All bytes anywhere were written by someone.                             *)
Written == {disk.c, got} \cup LiveBytes \subseteq typed \cup {None}

LEMMA TypedGrows == ASSUME [Next]_vars PROVE typed \subseteq typed'
<1>1. CASE Pass \/ UNCHANGED vars
  BY <1>1 DEF Pass, Start, Scan, ScanSkips, HoldCollapse, Tip, Walk, Changes,
     ProbeFinds, ProbeSkips, Diff, DiffBlind, Execute, NothingToDo, Defer,
     BulkDeleteAbort, SaveCursor, vars
<1>2. CASE Upload
  BY <1>2 DEF Upload, List, Put, Post, PostConflict, Requery, UploadRefused,
     TransferFails, AnswerLost, StatAfterUpload, RecordUpload, RecordUnhashed
<1>3. CASE Download \/ Conflict
  BY <1>3 DEF Download, PreCheck, Fetch, Guard, Replace, RecordDownload,
     Conflict, ConflictCheck, Rename, ListCopy, FinishConflict
<1>4. CASE Settle
  BY <1>4 DEF Settle, VerifyBeforeTrash, SendToTrash, TrashUnavailable,
     BeginRemoteTrash, MoveToTrash, CommitTrash, TouchBase, Forget
<1>5. CASE Environment
  BY <1>5 DEF Environment, Save, Delete, OtherWrites, OtherTrashes, Crash
<1> QED BY <1>1, <1>2, <1>3, <1>4, <1>5 DEF Next, Tool

(* The bytes a step writes to the drive are the file's, or new ones.       *)
LEMMA BytesOfPut ==
    ASSUME TypeOK, NEW o \in LiveIds, NEW c, PutVersion(o, c)
    PROVE  LiveBytes' \subseteq LiveBytes \cup {c}
BY DEF PutVersion, LiveBytes, LiveIds, Live, TypeOK, TypeDrive

LEMMA BytesOfPost ==
    ASSUME TypeOK, NEW o \in FreshIds, NEW c, PostNew(o, c)
    PROVE  LiveBytes' \subseteq LiveBytes \cup {c}
BY DEF PostNew, FreshIds, LiveBytes, LiveIds, Live, TypeOK, TypeDrive

LEMMA BytesOfTrash ==
    ASSUME TypeOK, NEW o \in LiveIds, TrashObject(o)
    PROVE  LiveBytes' \subseteq LiveBytes
BY DEF TrashObject, LiveBytes, LiveIds, Live, TypeOK, TypeDrive

LEMMA BytesStep ==
    ASSUME TypeOK, [Next]_vars
    PROVE  \/ LiveBytes' \subseteq LiveBytes \cup {disk.c}
           \/ \E c \in NewBytes : /\ typed' = typed \cup {c}
                                  /\ LiveBytes' \subseteq LiveBytes \cup {c}
<1>1. CASE UNCHANGED obj
  BY <1>1 DEF LiveBytes, LiveIds, Live
<1>2. CASE Put \/ Post \/ AnswerLost
  BY <1>2, BytesOfPut, BytesOfPost, BytesOfTrash DEF Put, Post, AnswerLost
<1>3. CASE MoveToTrash \/ OtherTrashes
  <2>1. UNCHANGED obj \/ \E o \in LiveIds : TrashObject(o)
    BY <1>3 DEF MoveToTrash, OtherTrashes
  <2> QED BY <1>1, <2>1, BytesOfTrash
<1>4. CASE OtherWrites
  <2>1. PICK c \in NewBytes :
          /\ typed' = typed \cup {c}
          /\ \/ \E o \in FreshIds : PostNew(o, c)
             \/ \E o \in LiveIds : PutVersion(o, c)
    BY <1>4 DEF OtherWrites
  <2> QED BY <2>1, BytesOfPut, BytesOfPost
<1> QED BY <1>1, <1>2, <1>3, <1>4, DriveWrites

LEMMA WrittenStep == ASSUME TypeOK, Written, [Next]_vars PROVE Written'
<1>1. typed \subseteq typed'
  BY TypedGrows
<1>2. LiveBytes' \subseteq typed' \cup {None}
  BY <1>1, BytesStep DEF Written
<1>3. got' \in typed' \cup {None}
  <2>1. CASE got' \in {got, None}
    BY <1>1, <2>1 DEF Written
  <2>2. CASE Fetch
    <3>1. got' \in {got} \cup LiveBytes
      BY <2>2 DEF Fetch, LiveBytes
    <3> QED BY <1>1, <3>1 DEF Written
  <2> QED BY <2>1, <2>2, GotStep
<1>4. disk'.c \in typed' \cup {None}
  <2>1. CASE disk' = NoFile
    BY <2>1 DEF NoFile
  <2>2. CASE UNCHANGED disk
    BY <1>1, <2>2 DEF Written
  <2>3. CASE Save
    <3>1. PICK c \in NewBytes, m \in FreshStamp :
            disk' = [c |-> c, mt |-> m] /\ typed' = typed \cup {c}
      BY <2>3 DEF Save
    <3> QED BY <3>1
  <2>4. CASE Replace
    <3>1. disk'.c = got
      BY <2>4 DEF Replace
    <3> QED BY <1>1, <3>1 DEF Written
  <2> QED BY <2>1, <2>2, <2>3, <2>4, DiskStep DEF DiskMoves
<1> QED BY <1>2, <1>3, <1>4 DEF Written

(* While the file has the time of the scan it has the scanned size and,    *)
(* when it was hashed, the hashed bytes.                                   *)
EntryFits == disk.c # None /\ entry.mt = disk.mt =>
                 entry.sz = Size[disk.c] /\ entry.c \in {None, disk.c}

LEMMA Fresh ==
    ASSUME NEW m \in FreshStamp
    PROVE  m \in Stamp /\ m # None /\ m \notin {disk.mt, entry.mt, rec.lmt, expect.mt}
BY NoneAssumption DEF FreshStamp, InUse

LEMMA EntryFitsStep == ASSUME TypeOK, EntryFits, [Next]_vars PROVE EntryFits'
<1>0. /\ entry = [mt |-> entry.mt, sz |-> entry.sz, c |-> entry.c]
      /\ (disk.c = None) <=> (disk.mt = None)
  BY DEF TypeOK, TypeSeen, TypeLocal
<1>1. CASE UNCHANGED disk
  <2>1. CASE UNCHANGED entry
    BY <1>1, <2>1 DEF EntryFits
  <2>2. CASE entry' = NoEntry
    BY <1>0, <1>1, <2>2 DEF EntryFits, NoEntry
  <2>3. CASE entry' = [mt |-> disk.mt, sz |-> SizeOf(disk.c), c |-> None]
    BY <1>1, <2>3 DEF EntryFits, SizeOf
  <2>4. CASE entry' = [entry EXCEPT !.c = disk.c]
    <3>1. entry'.mt = entry.mt /\ entry'.sz = entry.sz /\ entry'.c = disk.c
      BY <1>0, <2>4
    <3> QED BY <1>1, <3>1 DEF EntryFits
  <2> QED BY <2>1, <2>2, <2>3, <2>4, EntryStep DEF EntryMoves
<1>2. CASE disk' = NoFile
  BY <1>2 DEF NoFile, EntryFits
<1>3. CASE Save \/ Replace
  <2>1. UNCHANGED entry
    BY <1>3 DEF Save, Replace
  <2>2. disk'.mt \in FreshStamp
    BY <1>3 DEF Save, Replace
  <2> QED BY <2>1, <2>2, Fresh DEF EntryFits
<1> QED BY <1>1, <1>2, <1>3, DiskStep DEF DiskMoves

-----------------------------------------------------------------------------
(* Up to diff the view shows the file it names as it is, but for bytes     *)
(* that are nowhere in the folder; from the decision to the rename what    *)
(* lies in the folder is not what the drive has.                           *)
AsShown == /\ view.r.sz = Size[obj[view.r.id].c]
           /\ view.r.c \in {None, obj[view.r.id].c}

Sighted == pc \in {"probe", "diff"} /\ view.r.id \in LiveIds =>
               AsShown \/ (~Undo /\ obj[view.r.id].c # disk.c)

Disputed == /\ pc = "cstat" \/ (pc = "gate" /\ kind = "CONFLICT")
            /\ disk.mt = entry.mt

Differs == Disputed \/ pc = "rename" =>
               (view.r.id \in LiveIds /\ disk.c # None
                    => disk.c # obj[view.r.id].c)

ForkInv == Written /\ EntryFits /\ Sighted /\ Differs

(* The steps of others that leave the pass where it is.                    *)
Others == /\ UNCHANGED <<pc, rec, volat>>
          /\ Save \/ Delete \/ OtherWrites \/ OtherTrashes \/ UNCHANGED vars

LEMMA Comes ==
    ASSUME [Next]_vars, pc' \in {"probe", "diff", "gate", "cstat", "rename"}
    PROVE  \/ Walk \/ Changes \/ ProbeFinds \/ ProbeSkips \/ Diff \/ DiffBlind
           \/ Execute \/ ConflictCheck \/ Others
<1>1. CASE Pass
  BY <1>1 DEF Pass, Start, Scan, ScanSkips, HoldCollapse, Tip, Observe,
     NothingToDo, Defer, BulkDeleteAbort, SaveCursor
<1>2. CASE Upload
  BY <1>2 DEF Upload, List, Put, Post, PostConflict, Requery, UploadRefused,
     TransferFails, AnswerLost, StatAfterUpload, RecordUpload, RecordUnhashed,
     Fails, Withdraws
<1>3. CASE Download \/ Conflict
  BY <1>3 DEF Download, PreCheck, Fetch, Guard, Replace, RecordDownload,
     Conflict, Rename, ListCopy, FinishConflict, Fails, Protects
<1>4. CASE Settle
  BY <1>4 DEF Settle, VerifyBeforeTrash, SendToTrash, TrashUnavailable,
     BeginRemoteTrash, MoveToTrash, CommitTrash, TouchBase, Forget, Protects
<1>5. CASE Environment \/ UNCHANGED vars
  BY <1>5 DEF Environment, Save, Delete, OtherWrites, OtherTrashes, Crash, vars, Others
<1> QED BY <1>1, <1>2, <1>3, <1>4, <1>5 DEF Next, Tool

(* What others do to one file and the folder.                              *)
LEMMA OthersAct ==
    ASSUME TypeOK, Written, Others, NEW o \in LiveIds'
    PROVE  \/ /\ o \in LiveIds /\ obj'[o] = obj[o]
              /\ disk' \in {disk, NoFile} \/ (Save /\ disk'.mt # entry.mt)
           \/ /\ Save \/ pc \in RemotePoints
              /\ ~Undo => obj'[o].c # disk'.c
<1>0. obj \in [ObjId -> [st : {"none", "live", "trash"}, ver : Nat,
                         c : Content \cup {None}, rev : Nat]]
  BY DEF TypeOK, TypeDrive
<1>1. CASE Save
  <2>1. o \in LiveIds /\ obj'[o] = obj[o]
    BY <1>1 DEF Save, LiveIds, Live
  <2>2. disk'.mt \in FreshStamp
    BY <1>1 DEF Save
  <2> QED BY <1>1, <2>1, <2>2, Fresh
<1>2. CASE Delete \/ UNCHANGED vars
  BY <1>2 DEF Delete, vars, LiveIds, Live
<1>3. CASE OtherWrites
  <2>1. PICK c \in NewBytes, q \in ObjId :
          /\ \/ q \in FreshIds /\ PostNew(q, c)
             \/ q \in LiveIds /\ PutVersion(q, c)
          /\ UNCHANGED disk /\ pc \in RemotePoints
    BY <1>3 DEF OtherWrites, FreshIds, LiveIds
  <2>2. ~Undo => c # disk.c
    BY NoneAssumption DEF NewBytes, Written
  <2>3. CASE o = q
    BY <1>0, <2>1, <2>2, <2>3 DEF PostNew, PutVersion
  <2>4. CASE o # q
    BY <1>0, <2>1, <2>4 DEF PostNew, PutVersion, LiveIds, Live
  <2> QED BY <2>3, <2>4
<1>4. CASE OtherTrashes
  <2>1. PICK q \in LiveIds : TrashObject(q)
    BY <1>4 DEF OtherTrashes
  <2> QED BY <1>0, <1>4, <2>1 DEF OtherTrashes, TrashObject, LiveIds, Live
<1> QED BY <1>1, <1>2, <1>3, <1>4 DEF Others

LEMMA SavedApart ==
    ASSUME Written, Save, ~Undo, NEW o \in LiveIds
    PROVE  obj[o].c # disk'.c
<1>1. disk'.c \in Content \ typed
  BY DEF Save, NewBytes
<1> QED BY <1>1, NoneAssumption DEF Written, LiveBytes

LEMMA SightedOthers == ASSUME TypeOK, ForkInv, Discerning, Others PROVE Sighted'
<1> SUFFICES ASSUME pc \in {"probe", "diff"}, view.r.id \in LiveIds'
             PROVE  AsShown' \/ (~Undo /\ obj'[view.r.id].c # disk'.c)
  BY DEF Others, Sighted
<1> DEFINE o == view.r.id
<1>1. UNCHANGED view
  BY DEF Others
<1>2. CASE o \in LiveIds /\ obj'[o] = obj[o] /\ disk' \in {disk, NoFile}
  <2>1. obj[o].c # None
    BY <1>2 DEF TypeOK, TypeDrive
  <2> QED BY <1>1, <1>2, <2>1 DEF ForkInv, Sighted, AsShown, NoFile
<1>3. CASE o \in LiveIds /\ obj'[o] = obj[o] /\ Save
  BY <1>1, <1>3, SavedApart DEF ForkInv, Sighted, AsShown
<1>4. CASE (Save \/ pc \in RemotePoints) /\ (~Undo => obj'[o].c # disk'.c)
  <2>1. CASE ~Undo
    BY <1>4, <2>1
  <2>2. CASE Undo
    <3>1. Save
      BY <1>4, <2>2 DEF Discerning
    <3>2. o \in LiveIds /\ obj'[o] = obj[o]
      BY <3>1 DEF Save, LiveIds, Live
    <3> QED BY <1>3, <3>1, <3>2
  <2> QED BY <2>1, <2>2
<1> QED BY <1>2, <1>3, <1>4, OthersAct DEF ForkInv

LEMMA DiffersOthers == ASSUME TypeOK, ForkInv, Discerning, Others PROVE Differs'
<1> SUFFICES ASSUME Disputed' \/ pc = "rename", view.r.id \in LiveIds',
                    disk'.c # None
             PROVE  disk'.c # obj'[view.r.id].c
  BY DEF Others, Differs
<1> DEFINE o == view.r.id
<1>0. UNCHANGED <<pc, view, kind, entry>>
  BY DEF Others
<1>1. pc \in {"gate", "cstat", "rename"}
  BY <1>0 DEF Disputed
<1>2. CASE o \in LiveIds /\ obj'[o] = obj[o] /\ disk' \in {disk, NoFile}
  BY <1>0, <1>2 DEF ForkInv, Differs, Disputed, NoFile
<1>3. CASE Save
  <2>1. o \in LiveIds /\ obj'[o] = obj[o] /\ disk'.mt \in FreshStamp
    BY <1>3 DEF Save, LiveIds, Live
  <2>2. disk'.mt # entry.mt
    BY <2>1, Fresh
  <2>3. pc = "rename"
    BY <1>0, <2>2 DEF Disputed
  <2>4. ~Undo
    BY <1>3, <2>3 DEF Save, Discerning
  <2> QED BY <1>3, <2>1, <2>4, SavedApart DEF ForkInv
<1>4. CASE pc \in RemotePoints /\ (~Undo => obj'[o].c # disk'.c)
  BY <1>1, <1>4 DEF Discerning
<1> QED BY <1>2, <1>3, <1>4, OthersAct DEF ForkInv

(* A conflict is decided only where the two sides were not found equal.    *)
LEMMA DecideFork ==
    ASSUME NEW rr, NEW e, NEW r, NEW u, NEW d, NEW cm, NEW p, NEW lm, NEW rm,
           Decide(rr, e, r, u, d, cm, p, lm, rm) = "CONFLICT"
    PROVE  /\ Here(e) /\ Seen(r) /\ SameContent(e, r, lm, rm) # "yes"
           /\ rr.id = None \/ (HasBaseline(rr) /\ ~MetaSame(rr, e))
BY DEF Decide, DecideNew, DecideGone, DecideKnown

LEMMA HashedEntry ==
    ASSUME TypeOK
    PROVE  /\ HashLocal.mt = entry.mt /\ HashLocal.sz = entry.sz
           /\ ReadsLocal(rec, entry, view.r) => HashLocal.c = disk.c
           /\ ~ReadsLocal(rec, entry, view.r) => HashLocal = entry
<1>1. entry = [mt |-> entry.mt, sz |-> entry.sz, c |-> entry.c]
  BY DEF TypeOK, TypeSeen
<1> QED BY <1>1 DEF HashLocal

LEMMA DiffForks ==
    ASSUME TypeOK, ForkInv, Diff, kind' = "CONFLICT",
           disk.mt = entry.mt, disk.c # None, view.r.id \in LiveIds
    PROVE  disk.c # obj[view.r.id].c
<1> SUFFICES ASSUME disk.c = obj[view.r.id].c PROVE FALSE
  OBVIOUS
<1>1. PICK u, d, cm, p : Decide(rec, HashLocal, view.r, u, d, cm, p,
                                HashLocal.c, HashRemote) = "CONFLICT"
  BY DEF Diff, DecideWith
<1>2. /\ Here(HashLocal) /\ Seen(view.r)
      /\ SameContent(HashLocal, view.r, HashLocal.c, HashRemote) # "yes"
      /\ rec.id = None \/ (HasBaseline(rec) /\ ~MetaSame(rec, HashLocal))
  <2> DEFINE h == HashLocal
             m == HashRemote
  <2>1. Decide(rec, h, view.r, u, d, cm, p, h.c, m) = "CONFLICT"
    BY <1>1
  <2> HIDE DEF h, m
  <2>2. /\ Here(h) /\ Seen(view.r)
        /\ SameContent(h, view.r, h.c, m) # "yes"
        /\ rec.id = None \/ (HasBaseline(rec) /\ ~MetaSame(rec, h))
    BY <2>1, DecideFork
  <2> QED BY <2>2 DEF h, m
<1>3. view.r.sz = Size[disk.c] /\ view.r.c \in {None, disk.c}
  BY DEF ForkInv, Sighted, AsShown, Diff
<1>4. entry.sz = view.r.sz
  BY <1>3 DEF ForkInv, EntryFits
<1>5. ReadsLocal(rec, entry, view.r)
  BY <1>2, <1>4, HashedEntry DEF ReadsLocal, Here, MetaSame
<1>6. HashLocal.c = disk.c /\ HashLocal.sz = view.r.sz
  BY <1>4, <1>5, HashedEntry
<1>7. HashRemote = disk.c
  BY <1>3 DEF HashRemote
<1> QED BY <1>2, <1>6, <1>7 DEF SameContent

LEMMA SightedStep == ASSUME TypeOK, ForkInv, Discerning, [Next]_vars PROVE Sighted'
<1> SUFFICES ASSUME pc' \in {"probe", "diff"}, view'.r.id \in LiveIds'
             PROVE  AsShown' \/ (~Undo /\ obj'[view'.r.id].c # disk'.c)
  BY DEF Sighted
<1>1. CASE Others
  BY <1>1, SightedOthers DEF Sighted
<1>2. ASSUME NEW o \in LiveIds, UNCHANGED <<obj, disk>>,
             view'.r \in {ListEntry(o), FeedEntry(o)}
      PROVE  AsShown'
  BY <1>2 DEF ListEntry, FeedEntry, AsShown
<1>3. ASSUME UNCHANGED <<obj, disk>>, view'.r = NoRemote PROVE FALSE
  BY <1>3, NoneAssumption DEF NoRemote, LiveIds
<1>4. CASE Walk
  <2>1. ~Seen(view.r) \/ Seen(view.r)
    OBVIOUS
  <2>2. \/ LiveIds = {}
        \/ \E o \in LiveIds : view' = [view EXCEPT !.r = ListEntry(o)]
    BY <1>4 DEF Walk
  <2>3. UNCHANGED <<obj, disk>>
    BY <1>4 DEF Walk
  <2>4. LiveIds' = LiveIds
    BY <2>3 DEF LiveIds, Live
  <2>5. ASSUME NEW o \in LiveIds, view' = [view EXCEPT !.r = ListEntry(o)]
        PROVE  view'.r = ListEntry(o)
    BY <2>5 DEF TypeOK, TypeSeen, View
  <2> QED BY <1>2, <2>2, <2>3, <2>4, <2>5
<1>5. CASE Changes
  <2>1. UNCHANGED <<obj, disk>>
    BY <1>5 DEF Changes
  <2>2. view'.r = NoRemote \/ \E o \in LiveIds : view'.r = FeedEntry(o)
    BY <1>5 DEF Changes, NoView
  <2> QED BY <1>2, <1>3, <2>1, <2>2
<1>6. CASE ProbeFinds \/ ProbeSkips
  <2>1. UNCHANGED <<obj, disk>> /\ pc = "probe"
    BY <1>6 DEF ProbeFinds, ProbeSkips
  <2>2. LiveIds' = LiveIds
    BY <2>1 DEF LiveIds, Live
  <2>3. CASE UNCHANGED view
    BY <2>1, <2>2, <2>3 DEF ForkInv, Sighted, AsShown
  <2>4. CASE view' = [view EXCEPT !.r = ListEntry(rec.id)] /\ rec.id \in LiveIds
    <3>1. view'.r = ListEntry(rec.id)
      BY <2>4 DEF TypeOK, TypeSeen, View
    <3> QED BY <1>2, <2>1, <2>4, <3>1
  <2> QED BY <1>6, <2>3, <2>4 DEF ProbeFinds, ProbeSkips
<1> QED
  BY <1>1, <1>4, <1>5, <1>6, Comes DEF Diff, DiffBlind, Execute, ConflictCheck, Protects,
     FirstStep, Acting

LEMMA DiffersStep == ASSUME TypeOK, ForkInv, Discerning, [Next]_vars PROVE Differs'
<1> SUFFICES ASSUME Disputed' \/ pc' = "rename", view'.r.id \in LiveIds', disk'.c # None
             PROVE  disk'.c # obj'[view'.r.id].c
  BY DEF Differs
<1>0. pc' \in {"gate", "cstat", "rename"}
  BY DEF Disputed
<1>1. CASE Others
  BY <1>1, DiffersOthers DEF Differs
<1>2. CASE Diff
  <2>1. /\ UNCHANGED <<obj, disk, view>> /\ pc' = "gate" /\ entry' = HashLocal
    BY <1>2 DEF Diff
  <2>2. kind' = "CONFLICT" /\ disk.mt = entry.mt
    BY <2>1, HashedEntry DEF Disputed
  <2> QED BY <1>2, <2>1, <2>2, DiffForks DEF LiveIds, Live
<1>3. CASE Execute
  <2>1. UNCHANGED <<obj, disk, view, entry, kind>> /\ pc = "gate"
    BY <1>3 DEF Execute
  <2>2. pc' # "rename" /\ (pc' = "cstat" => kind = "CONFLICT")
    BY <1>3 DEF Execute, FirstStep, Acting
  <2> QED BY <2>1, <2>2 DEF ForkInv, Differs, Disputed, LiveIds, Live
<1>4. CASE ConflictCheck
  <2>1. UNCHANGED <<obj, disk, view, entry, kind>> /\ pc = "cstat" /\ Untouched
    BY <1>0, <1>4 DEF ConflictCheck, Protects
  <2> QED BY <2>1 DEF ForkInv, Differs, Disputed, Untouched, LiveIds, Live
<1>5. ~DiffBlind
  BY DEF DiffBlind, Fault, Discerning
<1> QED
  BY <1>0, <1>1, <1>2, <1>3, <1>4, <1>5, Comes DEF Walk, Changes, ProbeFinds, ProbeSkips

LEMMA ForkInit == Init => ForkInv
<1> SUFFICES ASSUME Init PROVE ForkInv
  OBVIOUS
<1>1. pc = "idle" /\ entry = NoEntry /\ got = None
  BY DEF Init
<1>2. Sighted /\ Differs
  BY <1>1 DEF Sighted, Differs, Disputed
<1>3. (disk.c = None) <=> (disk.mt = None)
  BY InitType DEF TypeOK, TypeLocal
<1>4. EntryFits
  BY <1>1, <1>3 DEF EntryFits, NoEntry
<1>5. Written
  BY <1>1 DEF Init, InitEmpty, InitSynced, InitRecorded, OneObject, NoObject, NoFile,
     Written, LiveBytes, LiveIds, Live
<1> QED BY <1>2, <1>4, <1>5 DEF ForkInv

LEMMA ForkStep == ASSUME Discerning PROVE TypeOK /\ ForkInv /\ [Next]_vars => ForkInv'
BY WrittenStep, EntryFitsStep, SightedStep, DiffersStep DEF ForkInv

(* A file is set aside as a conflict copy only if the drive has other      *)
(* bytes for the path: what diff compared with the drive's (differ.py,     *)
(* _same_content) is what conflict renames.                                *)
THEOREM OnlyForksAreCopied == ASSUME Discerning PROVE Spec => NoFakeConflict
<1>1. TypeOK /\ ForkInv /\ [Next]_vars =>
        [pc = "rename" /\ copies' # copies /\ view.r.id \in LiveIds
           => disk.c # obj[view.r.id].c]_vars
  <2> SUFFICES ASSUME ForkInv, Next, pc = "rename", copies' # copies,
                      view.r.id \in LiveIds
               PROVE  disk.c # obj[view.r.id].c
    OBVIOUS
  <2>1. disk.c # None
    <3>1. ~(Pass \/ Upload \/ Download \/ Settle \/ Environment)
      BY DEF Pass, Start, Scan, ScanSkips, HoldCollapse, Tip, Walk, Changes,
         ProbeFinds, ProbeSkips, Diff, DiffBlind, Execute, NothingToDo, Defer,
         BulkDeleteAbort, SaveCursor, Upload, List, Put, Post, PostConflict,
         Requery, UploadRefused, TransferFails, AnswerLost, StatAfterUpload,
         RecordUpload, RecordUnhashed, Download, PreCheck, Fetch, Guard, Replace,
         RecordDownload, Settle, VerifyBeforeTrash, SendToTrash, TrashUnavailable,
         BeginRemoteTrash, MoveToTrash, CommitTrash, TouchBase, Forget,
         Environment, Save, Delete, OtherWrites, OtherTrashes, Crash
    <3> QED BY <3>1 DEF Next, Tool, Conflict, ConflictCheck, Rename, ListCopy, FinishConflict
  <2> QED BY <2>1 DEF ForkInv, Differs
<1>2. Spec => []ForkInv
  BY ForkInit, ForkStep, TypeCorrect, PTL DEF Spec
<1> QED
  BY <1>1, <1>2, TypeCorrect, PTL DEF Spec, NoFakeConflict

-----------------------------------------------------------------------------
(* The user leaves the folder alone once it is scanned, transfers         *)
(* succeed, the scan can read the path, and no pass holds conflicts back.  *)
(* And either no row is left behind by its file (nobody else trashes, and  *)
(* no crash or lost answer breaks off a trash), or every file can be       *)
(* hashed and differs in size from what was there before: it is by size    *)
(* that diff tells the next file of the name from the one of the row.      *)
Whole == TrashPoints = {} /\ {"crash", "lost"} \cap Faults = {}
Exact == /\ "hash" \notin Faults /\ ~Undo
         /\ \A a, b \in Content : Size[a] = Size[b] => a = b
Attentive ==
    /\ SavePoints \subseteq {"idle", "scan"}
    /\ {"transfer", "unobserved"} \cap Faults = {}
    /\ \A m \in Modes : ~m.unattended
    /\ Whole \/ Exact

(* The files whose last change the feed has up to n, and whether a row has *)
(* that change, or is marked to be asked for.                              *)
Upto(d, n)       == {o \in ObjId : d[o].st = "live" /\ d[o].rev <= n}
Marked(r)        == r.st \notin {"none", "synced"}
KnownBy(r, d, o) == r.id = o /\ (r.rver = d[o].ver \/ Marked(r))
Told(d, r, n)    == \A o \in Upto(d, n) : KnownBy(r, d, o)

(* A row whose file was never here waits for `dsync reconcile` or, while   *)
(* there is no local file, for the next file of the name.                  *)
Unbased(r)       == r.id # None /\ r.lc = None
Heeded(d, r, n)  == \A o \in Upto(d, n) : KnownBy(r, d, o) \/ Unbased(r)

(* What a row is.                                                          *)
Rows == /\ rec.st = "none" => rec.id = None
        /\ rec.lc # None => rec.id # None
        /\ rec.id # None /\ rec.lc = None => Marked(rec)

(* The saved cursor, that of the pass, and the drive's last revision.      *)
Numbers == /\ cursor <= rev /\ view.next <= rev
           /\ pc \notin {"idle", "scan", "tip", "changes"} => cursor <= view.next

(* A file that is live was written last.                                   *)
Last == \A o \in ObjId : obj[o].rev <= rev /\ (Live(o) => obj[o].rev = rev)

(* A row whose file is gone.                                               *)
Ghost == rec.id # None /\ rec.id \notin LiveIds => Exact \/ pc = "commit"

Uploading == kind \in {"UPLOAD_NEW", "UPLOAD_VERSION"}

(* Sizes of rows are sizes of their bytes; what is uploaded is not what    *)
(* the base has.                                                           *)
Measured ==
    /\ rec.lc \in typed \cup {None}
    /\ rec.lc # None => rec.rsz = Size[rec.lc]
    /\ pc \in {"guard", "replace", "fresh"} => view.r.sz = Size[got]
    /\ pc \in {"list", "post"} \/ (pc = "gate" /\ Uploading) =>
           rec.id = None \/ disk.c # rec.lc

(* A file that takes the place of another has other bytes than are held or *)
(* recorded of that one.                                                   *)
Apart(d, id, c) == \A o \in ObjId : d[o].st = "live" /\ o # id => d[o].c # c

Touching == pc = "touch" \/ (pc = "gate" /\ kind = "TOUCH_BASE")

Parted ==
    /\ Apart(obj, rec.id, rec.lc)
    /\ pc \in {"walk", "probe", "diff"} => /\ view.r.c \in typed \cup {None}
                                           /\ Apart(obj, view.r.id, view.r.c)
    /\ Touching => Apart(obj, view.r.id, disk.c)
    /\ pc \in {"guard", "replace", "fresh"} => Apart(obj, view.r.id, got)
    /\ pc \in {"stat", "record"} => Apart(obj, found.id, disk.c)

(* The entry is what lies in the folder until the tool changes it.         *)
Scanned == \/ pc \in {"tip", "walk", "changes", "probe", "diff", "gate", "list", "put",
                      "post", "requery", "stat", "record", "cstat", "rename", "touch"}
           \/ pc = "precheck" /\ kind # "CONFLICT"
Still == Scanned => /\ entry.mt = disk.mt /\ entry.sz = SizeOf(disk.c)
                    /\ entry.c \in {None, disk.c}

(* The view names a live file, if nobody else trashes, and the decision    *)
(* fits the entry.                                                         *)
Views ==
    /\ pc \in {"idle", "scan", "tip", "changes", "walk"} => ~Seen(view.r)
    /\ Seen(view.r) => view.r.ver # None
    /\ pc = "walk" \/ Seen(view.r) => ~view.deleted
    /\ Seen(view.r) /\ pc \notin {"commit", "save"} => Exact \/ view.r.id \in LiveIds
    /\ ~unobs /\ ~mode.unattended

Fits ==
    /\ pc \in {"cstat", "rename"} \/ (pc = "gate" /\ kind = "CONFLICT") => Here(entry)
    /\ pc \in {"gate", "precheck"} /\ kind = "DOWNLOAD_NEW" => ~Here(entry)
    /\ pc = "precheck" => kind \in {"DOWNLOAD_NEW", "DOWNLOAD_UPDATE", "CONFLICT"}
    /\ pc \in {"cstat", "rename", "crecord"} => kind = "CONFLICT"
    /\ Touching =>
           Seen(view.r) /\ entry.c # None /\ entry.sz = view.r.sz
    /\ pc \in {"fetch", "guard"} => Stat = expect
    /\ pc \in {"guard", "replace", "fresh"} => Seen(view.r)
    /\ pc = "list" => Uploading
    /\ pc = "put" => found.id = rec.id \/ rec.id = None
    /\ pc \in {"stat", "record"} => /\ found.id # None
                                    /\ Exact \/ found.id \in LiveIds
    /\ pc \in {"rtrash", "rmove"} \/ (pc = "gate" /\ kind = "REMOTE_TRASH") => rec.lc # None

(* What the pass has heard up to its cursor: first the view has it, or     *)
(* nothing came and the row had it; then, by the decision, the row still   *)
(* has it, or will have it from the view, or there is nothing.             *)
Current(o) == view.r.id = o /\ view.r.ver = obj[o].ver /\ AsShown
Silent     == ~Seen(view.r) /\ ~view.deleted /\ ~view.complete
Recording  == {"DOWNLOAD_NEW", "DOWNLOAD_UPDATE", "CONFLICT", "TOUCH_BASE"}

Waits      == Unbased(rec) /\ (disk.c # None \/ view.next = cursor)

Heard == pc \in {"probe", "diff"} =>
             \A o \in Upto(obj, view.next) :
                 \/ Current(o)
                 \/ Silent /\ KnownBy(rec, obj, o)
                 \/ Silent /\ Unbased(rec) /\ view.next = cursor

Taking == \/ pc \in {"precheck", "fetch", "guard", "replace", "fresh", "cstat",
                     "rename", "crecord", "touch"}
          \/ pc = "gate" /\ kind \in Recording
InHand == Taking => \A o \in Upto(obj, view.next) : Current(o)

Noted == pc = "gate" /\ kind \notin Recording =>
             \A o \in Upto(obj, view.next) :
                 \/ KnownBy(rec, obj, o)
                 \/ rec.id = o /\ Unhashed
                 \/ Waits /\ kind \notin Acting

Settled == pc \in {"list", "put", "post", "requery", "rtrash", "rmove", "copy", "save"}
               => \A o \in Upto(obj, view.next) :
                      KnownBy(rec, obj, o) \/ (Waits /\ pc = "save")

Over    == \/ pc \in {"stat", "record", "commit", "verify", "trash", "forget"}
           \/ pc = "gate" /\ kind \in {"LOCAL_TRASH", "FORGET"}
Nothing == Over => Upto(obj, view.next) = {}

Hearing == Heard /\ InHand /\ Noted /\ Settled /\ Nothing

HearInv == /\ LiveOne /\ Written /\ Rows /\ Numbers /\ Last /\ Ghost
           /\ (Exact => Measured /\ Parted)
           /\ Still /\ Views /\ Fits /\ Hearing
           /\ Heeded(obj, rec, cursor)

-----------------------------------------------------------------------------
(* What a step leaves alone.                                               *)
LEMMA UptoKept ==
    ASSUME TypeOK, DriveMoves, NEW n \in Nat, n <= rev
    PROVE  \A o \in Upto(obj', n) : o \in Upto(obj, n) /\ obj'[o] = obj[o]
<1>0. /\ obj \in [ObjId -> [st : {"none", "live", "trash"}, ver : Nat,
                            c : Content \cup {None}, rev : Nat]]
      /\ rev \in Nat
  BY DEF TypeOK, TypeDrive
<1>1. CASE \E o \in LiveIds, c \in Content : PutVersion(o, c)
  BY <1>0, <1>1 DEF PutVersion, LiveIds, Upto
<1>2. CASE \E o \in FreshIds, c \in Content : PostNew(o, c)
  BY <1>0, <1>2 DEF PostNew, FreshIds, Upto
<1>3. CASE \E o \in LiveIds : TrashObject(o)
  BY <1>0, <1>3 DEF TrashObject, LiveIds, Upto
<1>4. CASE UNCHANGED obj
  BY <1>4 DEF Upto
<1> QED BY <1>1, <1>2, <1>3, <1>4 DEF DriveMoves

Marks == {"error", "pending_upload", "pending_download"}

RowStays == \/ UNCHANGED rec
            \/ \E st \in Marks : rec' = Mark(st)
            \/ rec' = MarkError

LEMMA RowActs ==
    ASSUME [Next]_vars
    PROVE  \/ RowStays
           \/ RecordUpload \/ RecordUnhashed \/ RecordDownload \/ TouchBase
           \/ BeginRemoteTrash \/ CommitTrash \/ Forget
<1>1. CASE Pass
  BY <1>1 DEF Pass, Start, Scan, ScanSkips, HoldCollapse, Tip, Walk, Changes,
     ProbeFinds, ProbeSkips, Diff, DiffBlind, Execute, NothingToDo, Defer,
     BulkDeleteAbort, SaveCursor, RecordHashFailure, RowStays, Marks
<1>2. CASE Upload
  BY <1>2 DEF Upload, List, Put, Post, PostConflict, Requery, UploadRefused,
     TransferFails, AnswerLost, StatAfterUpload, Withdraws, Fails, RowStays, Marks
<1>3. CASE Download \/ Conflict
  BY <1>3 DEF Download, PreCheck, Fetch, Guard, Replace,
     Conflict, ConflictCheck, Rename, ListCopy, FinishConflict, Protects, Fails,
     RowStays, Marks
<1>4. CASE Settle
  BY <1>4 DEF Settle, VerifyBeforeTrash, SendToTrash, TrashUnavailable,
     MoveToTrash, Protects, RowStays, Marks
<1>5. CASE Environment \/ UNCHANGED vars
  BY <1>5 DEF Environment, Save, Delete, OtherWrites, OtherTrashes, Crash, vars, RowStays
<1> QED BY <1>1, <1>2, <1>3, <1>4, <1>5 DEF Next, Tool

(* A row that stays, marked or not.                                        *)
LEMMA RowStaysKeeps ==
    ASSUME TypeOK, Rows, RowStays
    PROVE  /\ rec'.lc = rec.lc /\ rec'.rsz = rec.rsz /\ rec'.rver = rec.rver
           /\ rec'.id = rec.id \/ (rec.st = "none" /\ rec'.id = view.r.id)
           /\ Marked(rec) => Marked(rec')
           /\ Rows'
<1>1. CASE UNCHANGED rec
  BY <1>1 DEF Rows, Marked
<1>2. ASSUME NEW st \in Marks, rec' = Mark(st)
      PROVE  /\ rec'.lc = rec.lc /\ rec'.rsz = rec.rsz /\ rec'.rver = rec.rver
             /\ rec'.id = rec.id /\ rec'.st = st /\ Marked(rec')
  BY <1>2 DEF Mark, TypeOK, TypeStore, Row, Marked, Marks
<1>3. ASSUME rec' = MarkError
      PROVE  /\ rec'.lc = rec.lc /\ rec'.rsz = rec.rsz /\ rec'.rver = rec.rver
             /\ rec'.id = IF rec.st = "none" THEN view.r.id ELSE rec.id
             /\ rec'.st = "error" /\ Marked(rec')
  BY <1>3 DEF MarkError, TypeOK, TypeStore, Row, Marked
<1> QED BY <1>1, <1>2, <1>3 DEF RowStays, Rows, Marked, Marks

LEMMA ToldKept ==
    ASSUME TypeOK, Rows, DriveMoves, RowStays, NEW n \in Nat, n <= rev,
           Told(obj, rec, n)
    PROVE  Told(obj', rec', n)
<1> SUFFICES ASSUME NEW o \in Upto(obj', n) PROVE KnownBy(rec', obj', o)
  BY DEF Told
<1>1. o \in Upto(obj, n) /\ obj'[o] = obj[o]
  BY UptoKept
<1>2. KnownBy(rec, obj, o) /\ o # None
  BY <1>1, NoneAssumption DEF Told, Upto
<1>3. rec.st # "none"
  BY <1>2 DEF KnownBy, Rows
<1> QED BY <1>1, <1>2, <1>3, RowStaysKeeps DEF KnownBy

LEMMA HeededKept ==
    ASSUME TypeOK, Rows, DriveMoves, RowStays, NEW n \in Nat, n <= rev,
           Heeded(obj, rec, n)
    PROVE  Heeded(obj', rec', n)
<1> SUFFICES ASSUME NEW o \in Upto(obj', n)
             PROVE  KnownBy(rec', obj', o) \/ Unbased(rec')
  BY DEF Heeded
<1>1. o \in Upto(obj, n) /\ obj'[o] = obj[o]
  BY UptoKept
<1>2. (KnownBy(rec, obj, o) \/ Unbased(rec)) /\ o # None
  BY <1>1, NoneAssumption DEF Heeded, Upto
<1>3. rec.st # "none"
  BY <1>2 DEF KnownBy, Unbased, Rows
<1> QED BY <1>1, <1>2, <1>3, RowStaysKeeps DEF KnownBy, Unbased

(* Only MoveToTrash ends the life of a file, unless others trash too.      *)
LEMMA LiveKept ==
    ASSUME Attentive, TypeOK, [Next]_vars, NEW o \in LiveIds
    PROVE  Exact \/ o \in LiveIds' \/ (pc = "rmove" /\ pc' \in {"commit", "save"})
<1>0. obj \in [ObjId -> [st : {"none", "live", "trash"}, ver : Nat,
                         c : Content \cup {None}, rev : Nat]]
  BY DEF TypeOK, TypeDrive
<1>1. ASSUME NEW q \in ObjId, NEW c, PutVersion(q, c) \/ PostNew(q, c)
      PROVE  o \in LiveIds'
  BY <1>0, <1>1 DEF PutVersion, PostNew, LiveIds, Live
<1>2. CASE UNCHANGED obj
  BY <1>2 DEF LiveIds, Live
<1>3. CASE Put \/ Post
  BY <1>1, <1>3 DEF Put, Post, LiveIds, FreshIds
<1>4. CASE AnswerLost
  <2>1. pc' = "save"
    BY <1>4 DEF AnswerLost, Fails
  <2> QED BY <1>1, <1>4, <2>1 DEF AnswerLost, LiveIds, FreshIds
<1>5. CASE OtherWrites
  BY <1>1, <1>5 DEF OtherWrites, LiveIds, FreshIds
<1>6. CASE MoveToTrash \/ OtherTrashes
  BY <1>6 DEF MoveToTrash, OtherTrashes, Attentive, Whole
<1> QED BY <1>2, <1>3, <1>4, <1>5, <1>6, DriveWrites

LEMMA RevGrows == ASSUME TypeOK, [Next]_vars PROVE rev' \in Nat /\ rev <= rev'
<1>0. rev \in Nat
  BY DEF TypeOK, TypeDrive
<1>1. rev' \in {rev, rev + 1}
  <2>1. CASE Pass \/ Download \/ Conflict \/ UNCHANGED vars
    BY <2>1 DEF Pass, Start, Scan, ScanSkips, HoldCollapse, Tip, Walk, Changes,
       ProbeFinds, ProbeSkips, Diff, DiffBlind, Execute, NothingToDo, Defer,
       BulkDeleteAbort, SaveCursor, Download, PreCheck, Fetch, Guard, Replace,
       RecordDownload, Conflict, ConflictCheck, Rename, ListCopy, FinishConflict, vars
  <2>2. CASE Upload
    BY <2>2 DEF Upload, List, Put, Post, PostConflict, Requery, UploadRefused,
       TransferFails, AnswerLost, StatAfterUpload, RecordUpload, RecordUnhashed,
       PutVersion, PostNew, TrashObject
  <2>3. CASE Settle
    BY <2>3 DEF Settle, VerifyBeforeTrash, SendToTrash, TrashUnavailable,
       BeginRemoteTrash, MoveToTrash, CommitTrash, TouchBase, Forget, TrashObject
  <2>4. CASE Environment
    <3>1. CASE OtherWrites
      BY <3>1 DEF OtherWrites, PutVersion, PostNew
    <3>2. CASE ~OtherWrites
      BY <2>4, <3>2 DEF Environment, Save, Delete, OtherTrashes, Crash, TrashObject
    <3> QED BY <3>1, <3>2
  <2> QED BY <2>1, <2>2, <2>3, <2>4 DEF Next, Tool
<1> QED BY <1>0, <1>1

(* The steps of a pass that has decided keep what it saw and decided; the  *)
(* cursor is saved at the end.                                             *)
Act == Upload \/ Download \/ Conflict \/ Settle

LEMMA ActKeeps ==
    ASSUME Act
    PROVE  UNCHANGED <<view, kind, entry, mode, unobs, cursor, typed>>
BY DEF Act, Upload, List, Put, Post, PostConflict, Requery, UploadRefused,
   TransferFails, AnswerLost, StatAfterUpload, RecordUpload, RecordUnhashed,
   Download, PreCheck, Fetch, Guard, Replace, RecordDownload, Conflict,
   ConflictCheck, Rename, ListCopy, FinishConflict, Settle, VerifyBeforeTrash,
   SendToTrash, TrashUnavailable, BeginRemoteTrash, MoveToTrash, CommitTrash,
   TouchBase, Forget, Fails, Protects, Withdraws

LEMMA PassKeeps ==
    ASSUME Pass PROVE UNCHANGED <<disk, obj, rev, typed>>
BY DEF Pass, Start, Scan, ScanSkips, HoldCollapse, Tip, Walk, Changes,
   ProbeFinds, ProbeSkips, Diff, DiffBlind, Execute, NothingToDo, Defer,
   BulkDeleteAbort, SaveCursor

LEMMA ActComes ==
    ASSUME Act
    PROVE  /\ pc \notin {"idle", "scan", "tip", "walk", "changes", "probe", "diff",
                         "gate", "save"}
           /\ pc' \notin {"idle", "scan", "tip", "walk", "changes", "probe", "diff",
                          "gate", "list", "cstat", "verify", "rtrash", "touch", "forget"}
<1>1. CASE Upload
  BY <1>1 DEF Upload, List, Put, Post, PostConflict, Requery, UploadRefused,
     TransferFails, AnswerLost, StatAfterUpload, RecordUpload, RecordUnhashed,
     Fails, Withdraws
<1>2. CASE Download \/ Conflict
  BY <1>2 DEF Download, PreCheck, Fetch, Guard, Replace, RecordDownload, Conflict,
     ConflictCheck, Rename, ListCopy, FinishConflict, Fails, Protects
<1>3. CASE Settle
  BY <1>3 DEF Settle, VerifyBeforeTrash, SendToTrash, TrashUnavailable,
     BeginRemoteTrash, MoveToTrash, CommitTrash, TouchBase, Forget, Protects
<1> QED BY <1>1, <1>2, <1>3 DEF Act

LEMMA ChangesNext ==
    ASSUME TypeOK, Changes PROVE view'.next \in {cursor, rev} /\ cursor' = cursor
BY DEF Changes, NoView

LEMMA NumbersStep == ASSUME TypeOK, Numbers, [Next]_vars PROVE Numbers'
<1>0. cursor \in Nat /\ rev \in Nat /\ view.next \in Nat /\ rev' \in Nat /\ rev <= rev'
  BY RevGrows DEF TypeOK, TypeStore, TypeDrive, TypeSeen, View
<1>1. CASE Act
  BY <1>0, <1>1, ActKeeps, ActComes DEF Numbers
<1>2. CASE Pass
  <2>1. CASE Start \/ Scan \/ ScanSkips
    BY <1>0, <2>1 DEF Start, Scan, ScanSkips, Observe, Numbers
  <2>2. CASE HoldCollapse \/ BulkDeleteAbort
    BY <1>0, <2>2 DEF HoldCollapse, BulkDeleteAbort, Forgotten, NoView, Numbers
  <2>3. CASE Tip
    <3>1. view'.next = rev
      BY <2>3 DEF Tip, NoView
    <3> QED BY <1>0, <2>3, <3>1 DEF Tip, Numbers
  <2>4. CASE Walk \/ ProbeFinds
    <3>1. view'.next = view.next
      BY <2>4 DEF Walk, ProbeFinds, TypeOK, TypeSeen, View
    <3> QED BY <1>0, <2>4, <3>1 DEF Walk, ProbeFinds, Numbers
  <2>5. CASE Changes
    <3>1. cursor <= view'.next /\ view'.next <= rev
      BY <1>0, <2>5, ChangesNext DEF Numbers
    <3> QED BY <1>0, <2>5, <3>1, ChangesNext DEF Changes, Numbers
  <2>6. CASE ProbeSkips \/ Diff \/ DiffBlind \/ Execute \/ NothingToDo \/ Defer
    BY <1>0, <2>6 DEF ProbeSkips, Diff, DiffBlind, Execute, NothingToDo, Defer, Numbers
  <2>7. CASE SaveCursor
    BY <1>0, <2>7 DEF SaveCursor, Forgotten, NoView, Numbers
  <2> QED BY <1>2, <2>1, <2>2, <2>3, <2>4, <2>5, <2>6, <2>7 DEF Pass
<1>3. CASE Environment \/ UNCHANGED vars
  BY <1>0, <1>3 DEF Environment, Save, Delete, OtherWrites, OtherTrashes, Crash,
     Forgotten, NoView, vars, Numbers
<1> QED BY <1>1, <1>2, <1>3 DEF Next, Tool, Act

(* A decision that only touches the base, or that puts the drive's file    *)
(* into the trash, says what was compared.                                 *)
LEMMA DecideSame ==
    ASSUME NEW rr, NEW e, NEW r, NEW u, NEW d, NEW cm, NEW p, NEW lm, NEW rm,
           Decide(rr, e, r, u, d, cm, p, lm, rm) = "TOUCH_BASE"
    PROVE  Seen(r) /\ e.sz = r.sz /\ lm # None /\ lm = rm
BY DEF Decide, DecideNew, DecideGone, DecideKnown, SameContent

LEMMA DecideHere ==
    ASSUME NEW rr, NEW e, NEW r, NEW u, NEW d, NEW cm, NEW p, NEW lm, NEW rm, NEW k,
           k = Decide(rr, e, r, u, d, cm, p, lm, rm)
    PROVE  /\ k = "CONFLICT" => Here(e)
           /\ k = "DOWNLOAD_NEW" => ~Here(e)
           /\ k \in {"UPLOAD_NEW", "UPLOAD_VERSION"} =>
                  rr.id = None \/ (lm # None /\ lm # rr.lc)
BY DEF Decide, DecideNew, DecideGone, DecideKnown

(* The row after a pass that recorded something.                           *)
LEMMA RowsStep == ASSUME TypeOK, Rows, Views, Fits, [Next]_vars PROVE Rows'
<1>1. CASE RowStays
  BY <1>1, RowStaysKeeps
<1>2. CASE RecordUpload \/ RecordUnhashed
  <2>1. PICK m : rec' = UploadedRow(m)
    BY <1>2 DEF RecordUpload, RecordUnhashed
  <2>2. found.id # None
    BY <1>2 DEF RecordUpload, RecordUnhashed, Fits
  <2> QED BY <2>1, <2>2 DEF UploadedRow, Rows, Marked
<1>3. CASE RecordDownload
  BY <1>3 DEF RecordDownload, Rows, Marked, TypeOK, TypePass, Fits, Seen
<1>4. CASE TouchBase
  BY <1>4 DEF TouchBase, Rows, Marked, Fits, Touching, Seen
<1>5. CASE rec' = NoRow
  BY <1>5 DEF NoRow, Rows
<1> QED
  BY <1>1, <1>2, <1>3, <1>4, <1>5, RowActs
  DEF BeginRemoteTrash, CommitTrash, Forget, RowStays

(* The entry stays what lies in the folder.                                *)
LEMMA StillStep ==
    ASSUME Attentive, TypeOK, Still, Views, Fits, [Next]_vars PROVE Still'
<1> SUFFICES ASSUME Scanned'
             PROVE  /\ entry'.mt = disk'.mt /\ entry'.sz = SizeOf(disk'.c)
                    /\ entry'.c \in {None, disk'.c}
  BY DEF Still
<1>1. CASE Act
  <2>1. UNCHANGED <<entry, kind>>
    BY <1>1, ActKeeps
  <2>2. UNCHANGED disk /\ Scanned
    <3>1. CASE Upload
      BY <3>1 DEF Upload, List, Put, Post, PostConflict, Requery, UploadRefused,
         TransferFails, AnswerLost, StatAfterUpload, RecordUpload, RecordUnhashed,
         Fails, Withdraws, Scanned
    <3>2. CASE Download \/ Conflict
      BY <2>1, <3>2 DEF Download, PreCheck, Fetch, Guard, Replace, RecordDownload, Conflict,
         ConflictCheck, Rename, ListCopy, FinishConflict, Fails, Protects, Scanned, Fits
    <3>3. CASE Settle
      BY <1>1, <3>3, ActComes DEF Settle, VerifyBeforeTrash, SendToTrash, TrashUnavailable,
         BeginRemoteTrash, MoveToTrash, CommitTrash, TouchBase, Forget, Protects, Scanned
    <3> QED BY <1>1, <3>1, <3>2, <3>3 DEF Act
  <2> QED BY <2>1, <2>2 DEF Still
<1>2. CASE Pass
  <2>1. UNCHANGED disk
    BY <1>2, PassKeeps
  <2>2. CASE Scan
    BY <2>1, <2>2 DEF Scan
  <2>3. CASE Diff \/ DiffBlind
    <3>1. Scanned /\ entry' \in {entry, HashLocal}
      BY <2>3 DEF Diff, DiffBlind, Scanned
    <3> QED BY <2>1, <3>1, HashedEntry DEF Still
  <2>4. CASE Tip \/ Walk \/ Changes \/ ProbeFinds \/ ProbeSkips
    BY <2>1, <2>4 DEF Tip, Walk, Changes, ProbeFinds, ProbeSkips, Still, Scanned
  <2>5. CASE Execute
    BY <2>1, <2>5 DEF Execute, Still, Scanned
  <2>6. CASE Start \/ ScanSkips \/ HoldCollapse \/ NothingToDo \/ Defer
             \/ BulkDeleteAbort \/ SaveCursor
    BY <2>6 DEF Start, ScanSkips, HoldCollapse, NothingToDo, Defer, BulkDeleteAbort,
       SaveCursor, Fault, Attentive, Scanned
  <2> QED BY <1>2, <2>2, <2>3, <2>4, <2>5, <2>6 DEF Pass
<1>3. CASE Environment \/ UNCHANGED vars
  <2>1. CASE Save \/ Delete
    BY <2>1 DEF Save, Delete, Attentive, Scanned
  <2>2. CASE OtherWrites \/ OtherTrashes \/ UNCHANGED vars
    BY <2>2 DEF OtherWrites, OtherTrashes, vars, Still, Scanned
  <2>3. CASE Crash
    BY <2>3 DEF Crash, Scanned
  <2> QED BY <1>3, <2>1, <2>2, <2>3 DEF Environment
<1> QED BY <1>1, <1>2, <1>3 DEF Next, Tool, Act

(* The view.                                                               *)
LEMMA ViewOf ==
    ASSUME TypeOK, NEW o \in LiveIds, UNCHANGED obj, UNCHANGED <<unobs, mode>>,
           Views, view'.r \in {ListEntry(o), FeedEntry(o)}, ~view'.deleted,
           pc' \in {"probe", "diff"}
    PROVE  Views'
<1>1. o \in ObjId /\ o # None /\ obj[o].ver # None
  BY NoneAssumption DEF LiveIds, TypeOK, TypeDrive
<1>2. view'.r.id = o /\ view'.r.ver = obj[o].ver
  BY DEF ListEntry, FeedEntry
<1>3. o \in LiveIds'
  BY DEF LiveIds, Live
<1> QED BY <1>1, <1>2, <1>3 DEF Views, Seen

LEMMA ViewsStep ==
    ASSUME Attentive, TypeOK, Views, [Next]_vars PROVE Views'
<1>1. CASE Act
  <2>1. ASSUME Seen(view.r), pc' \notin {"commit", "save"}
        PROVE  Exact \/ view.r.id \in LiveIds'
    <3>1. pc \notin {"commit", "save"}
      BY <1>1, <2>1, ActComes DEF Act, Upload, List, Put, Post, PostConflict, Requery,
         UploadRefused, TransferFails, AnswerLost, StatAfterUpload, RecordUpload,
         RecordUnhashed, Download, PreCheck, Fetch, Guard, Replace, RecordDownload,
         Conflict, ConflictCheck, Rename, ListCopy, FinishConflict, Settle,
         VerifyBeforeTrash, SendToTrash, TrashUnavailable, BeginRemoteTrash,
         MoveToTrash, CommitTrash, TouchBase, Forget
    <3>2. Exact \/ view.r.id \in LiveIds
      BY <2>1, <3>1 DEF Views
    <3> QED BY <2>1, <3>2, LiveKept
  <2> QED BY <1>1, <2>1, ActKeeps, ActComes DEF Views
<1>2. CASE Pass
  <2>0. UNCHANGED obj /\ LiveIds' = LiveIds
    BY <1>2, PassKeeps DEF LiveIds, Live
  <2>1. CASE Start
    <3>1. ~mode'.unattended
      BY <2>1 DEF Start, Attentive
    <3> QED BY <2>0, <2>1, <3>1 DEF Start, Views
  <2>2. CASE Scan \/ ScanSkips
    <3>1. ~ScanSkips
      BY DEF ScanSkips, Fault, Attentive
    <3> QED BY <2>0, <2>2, <3>1 DEF Scan, Observe, Views
  <2>3. CASE HoldCollapse \/ BulkDeleteAbort \/ SaveCursor
    <3>1. view' = NoView /\ mode' = NoMode /\ unobs' = FALSE
      BY <2>3 DEF HoldCollapse, BulkDeleteAbort, SaveCursor, Forgotten
    <3> QED BY <3>1 DEF NoView, NoRemote, NoMode, Views, Seen
  <2>4. CASE Tip
    <3>1. view'.r = NoRemote /\ UNCHANGED <<unobs, mode>> /\ ~view'.deleted
      BY <2>4 DEF Tip, NoView
    <3> QED BY <3>1 DEF NoRemote, Views, Seen
  <2>5. CASE Walk
    <3>1. /\ UNCHANGED <<unobs, mode>> /\ pc' = "diff" /\ pc = "walk"
          /\ \/ UNCHANGED view
             \/ \E o \in LiveIds : view' = [view EXCEPT !.r = ListEntry(o)]
      BY <2>5 DEF Walk
    <3>2. CASE UNCHANGED view
      BY <3>1, <3>2 DEF Views
    <3>3. ASSUME NEW o \in LiveIds, view' = [view EXCEPT !.r = ListEntry(o)]
          PROVE  view'.r = ListEntry(o) /\ ~view'.deleted
      BY <3>1, <3>3 DEF TypeOK, TypeSeen, View, Views
    <3> QED BY <2>0, <3>1, <3>2, <3>3, ViewOf
  <2>6. CASE Changes
    <3>1. /\ UNCHANGED <<unobs, mode>> /\ pc' = "probe"
          /\ \/ view'.r = NoRemote
             \/ \E o \in LiveIds : view'.r = FeedEntry(o) /\ ~view'.deleted
      BY <2>6 DEF Changes, NoView
    <3>2. CASE view'.r = NoRemote
      BY <3>1, <3>2 DEF NoRemote, Views, Seen
    <3> QED BY <2>0, <3>1, <3>2, ViewOf
  <2>7. CASE ProbeFinds
    <3>1. /\ UNCHANGED <<unobs, mode>> /\ pc' = "diff" /\ pc = "probe"
          /\ \/ UNCHANGED view
             \/ /\ rec.id \in LiveIds /\ ~view.deleted
                /\ view' = [view EXCEPT !.r = ListEntry(rec.id)]
      BY <2>7 DEF ProbeFinds, Asks
    <3>2. CASE UNCHANGED view
      BY <2>0, <3>1, <3>2 DEF Views
    <3>3. CASE /\ rec.id \in LiveIds /\ ~view.deleted
               /\ view' = [view EXCEPT !.r = ListEntry(rec.id)]
      <4>1. view'.r = ListEntry(rec.id) /\ ~view'.deleted
        BY <3>3 DEF TypeOK, TypeSeen, View
      <4> QED BY <2>0, <3>1, <3>3, <4>1, ViewOf
    <3> QED BY <3>1, <3>2, <3>3
  <2>8. CASE ProbeSkips \/ Diff \/ DiffBlind
    BY <2>0, <2>8 DEF ProbeSkips, Diff, DiffBlind, Views
  <2>9. CASE Execute
    <3>1. /\ pc' \in {"list", "precheck", "cstat", "verify", "rtrash", "touch", "forget"}
          /\ UNCHANGED <<view, unobs, mode>> /\ pc = "gate"
      BY <2>9, FirstStepType DEF Execute
    <3> QED BY <2>0, <3>1 DEF Views
  <2>10. CASE NothingToDo \/ Defer
    BY <2>0, <2>10 DEF NothingToDo, Defer, Views
  <2> QED BY <1>2, <2>1, <2>2, <2>3, <2>4, <2>5, <2>6, <2>7, <2>8, <2>9, <2>10 DEF Pass
<1>3. CASE Environment \/ UNCHANGED vars
  <2>1. CASE Crash
    <3>1. view' = NoView /\ mode' = NoMode /\ unobs' = FALSE
      BY <2>1 DEF Crash, Forgotten
    <3> QED BY <3>1 DEF NoView, NoRemote, NoMode, Views, Seen
  <2>2. CASE ~Crash
    <3>1. UNCHANGED <<pc, view, mode, unobs>>
      BY <1>3, <2>2 DEF Environment, Save, Delete, OtherWrites, OtherTrashes, vars
    <3>2. ASSUME Seen(view.r), pc \notin {"commit", "save"}
          PROVE  Exact \/ view.r.id \in LiveIds'
      <4>1. Exact \/ view.r.id \in LiveIds
        BY <3>2 DEF Views
      <4> QED BY <3>1, <4>1, LiveKept
    <3> QED BY <3>1, <3>2 DEF Views
  <2> QED BY <2>1, <2>2
<1> QED BY <1>1, <1>2, <1>3 DEF Next, Tool, Act

(* Each step fits the decision it carries out.                             *)
LEMMA FitsDiff ==
    ASSUME TypeOK, Diff \/ DiffBlind
    PROVE  Fits'
<1>1. pc' = "gate" /\ UNCHANGED <<rec, view, found>>
  BY DEF Diff, DiffBlind
<1>2. entry' \in {HashLocal, entry}
  BY DEF Diff, DiffBlind
<1>3. entry'.mt = entry.mt /\ entry'.sz = entry.sz
  BY <1>2, HashedEntry
<1>4. PICK e, m : /\ kind' = DecideWith(e, m) /\ e = entry'
  BY DEF Diff, DiffBlind
<1>5. /\ kind' = "CONFLICT" => Here(entry')
      /\ kind' = "DOWNLOAD_NEW" => ~Here(entry')
  <2> DEFINE k == kind'
  <2>1. k = Decide(rec, e, view.r, unobs, view.deleted, view.complete, mode.propagate,
                   e.c, m)
    BY <1>4 DEF DecideWith
  <2> HIDE DEF k
  <2>2. (k = "CONFLICT" => Here(e)) /\ (k = "DOWNLOAD_NEW" => ~Here(e))
    BY <2>1, DecideHere
  <2> QED BY <1>4, <2>2 DEF k
<1>6. kind' = "TOUCH_BASE" => Seen(view.r) /\ entry'.sz = view.r.sz /\ entry'.c # None
  <2>1. kind' = "TOUCH_BASE" =>
          Decide(rec, e, view.r, unobs, view.deleted, view.complete, mode.propagate,
                   e.c, m) = "TOUCH_BASE"
    BY <1>4 DEF DecideWith
  <2>2. kind' = "TOUCH_BASE" => Seen(view.r) /\ e.sz = view.r.sz /\ e.c # None
    BY <2>1, DecideSame
  <2> QED BY <1>4, <2>2
<1>7. kind' = "REMOTE_TRASH" => rec.lc # None
  BY DiffKnows
<1> QED BY <1>1, <1>5, <1>6, <1>7 DEF Fits, Touching

LEMMA FitsStep ==
    ASSUME Attentive, TypeOK, Rows, Views, Fits, [Next]_vars PROVE Fits'
<1>1. CASE Pass
  <2>1. CASE Diff \/ DiffBlind
    BY <2>1, FitsDiff
  <2>2. CASE Execute
    <3>1. /\ pc = "gate" /\ kind \in Acting /\ pc' = FirstStep[kind]
          /\ UNCHANGED <<view, kind, entry>>
      BY <2>2 DEF Execute
    <3>2. rec'.lc = rec.lc
      BY <2>2, MarkKeeps DEF Execute, RecordHashFailure, Status
    <3>3. /\ pc' = "list" => Uploading
          /\ pc' = "rtrash" => kind = "REMOTE_TRASH"
          /\ pc' \notin {"rename", "crecord", "fetch", "guard", "replace", "fresh", "put",
                         "stat", "record", "rmove", "gate"}
      BY <3>1 DEF FirstStep, Acting, Uploading
    <3> QED BY <3>1, <3>2, <3>3, FirstStepKind DEF Fits, Touching, Uploading
  <2>3. CASE ~(Diff \/ DiffBlind \/ Execute)
    <3>1. pc' \in {"idle", "scan", "tip", "walk", "changes", "probe", "diff", "save"}
      BY <1>1, <2>3 DEF Pass, Start, Scan, ScanSkips, HoldCollapse, Tip, Walk, Changes,
         ProbeFinds, ProbeSkips, NothingToDo, Defer, BulkDeleteAbort, SaveCursor, Observe
    <3> QED BY <3>1 DEF Fits, Touching
  <2> QED BY <2>1, <2>2, <2>3
<1>2. CASE Upload
  <2>1. UNCHANGED <<view, kind, entry>>
    BY <1>2, ActKeeps DEF Act
  <2>2. CASE List \/ Requery
    <3>1. \/ pc' = "save" \/ pc' = "post"
          \/ /\ pc' = "put" /\ UNCHANGED rec
             /\ rec.id # None => ~OtherFile(found')
             /\ found'.id # None
      BY <2>2 DEF List, Requery, Fails, Withdraws, UnknownTarget, UnknownAfterConflict,
         OtherFile, Fits, Touching, Uploading
    <3> QED BY <3>1 DEF Fits, Touching, OtherFile
  <2>3. CASE Put \/ Post
    <3>1. Exact \/ found'.id \in LiveIds'
      <4>1. CASE Put
        <5>1. found.id \in LiveIds /\ found'.id = found.id /\ pc = "put"
          BY <4>1 DEF Put, TypeOK, TypeSeen
        <5> QED BY <5>1, LiveKept
      <4>2. CASE Post
        BY <4>2 DEF Post, PostNew, FreshIds, LiveIds, Live, TypeOK, TypeDrive
      <4> QED BY <2>3, <4>1, <4>2
    <3>2. pc' = "stat"
      BY <2>3 DEF Put, Post
    <3>3. found'.id # None
      BY <2>3, NoneAssumption DEF Put, Post, LiveIds, FreshIds, TypeOK, TypeSeen
    <3> QED BY <3>1, <3>2, <3>3 DEF Fits, Touching
  <2>4. CASE StatAfterUpload
    BY <2>4 DEF StatAfterUpload, Fits, Touching, LiveIds, Live
  <2>5. CASE PostConflict
    BY <2>5 DEF PostConflict, Fits, Touching
  <2>6. CASE UploadRefused \/ TransferFails \/ AnswerLost \/ RecordUpload \/ RecordUnhashed
    <3>1. pc' = "save"
      BY <2>6 DEF UploadRefused, TransferFails, AnswerLost, RecordUpload, RecordUnhashed, Fails
    <3> QED BY <3>1 DEF Fits, Touching
  <2> QED BY <1>2, <2>2, <2>3, <2>4, <2>5, <2>6 DEF Upload
<1>3. CASE Download
  <2>1. UNCHANGED <<view, kind, entry>>
    BY <1>3, ActKeeps DEF Act
  <2>2. CASE PreCheck
    <3>1. pc' = "save" \/ (pc' = "fetch" /\ expect' = Stat /\ UNCHANGED disk)
      BY <2>2 DEF PreCheck, Protects
    <3> QED BY <3>1 DEF Fits, Touching, Stat
  <2>3. CASE Fetch
    <3>1. pc' = "save" \/ (pc' = "guard" /\ pc = "fetch" /\ view.r.id \in LiveIds
                           /\ UNCHANGED <<disk, expect>>)
      BY <2>3 DEF Fetch, Fails
    <3>2. view.r.id \in LiveIds => Seen(view.r)
      BY NoneAssumption DEF Seen, LiveIds
    <3> QED BY <2>1, <3>1, <3>2 DEF Fits, Touching, Stat
  <2>4. CASE Guard \/ Replace \/ RecordDownload
    BY <2>1, <2>4 DEF Guard, Replace, RecordDownload, Protects, Fits, Touching
  <2> QED BY <1>3, <2>2, <2>3, <2>4 DEF Download
<1>4. CASE Conflict
  <2>1. UNCHANGED <<view, kind, entry>>
    BY <1>4, ActKeeps DEF Act
  <2> QED BY <1>4, <2>1 DEF Conflict, ConflictCheck, Rename, ListCopy, FinishConflict,
        Fails, Protects, Fits, Touching
<1>5. CASE Settle
  <2>1. UNCHANGED <<view, kind, entry>>
    BY <1>5, ActKeeps DEF Act
  <2>2. \/ pc' \in {"save", "trash", "commit"}
        \/ pc = "rtrash" /\ pc' = "rmove" /\ UNCHANGED rec
    BY <1>5 DEF Settle, VerifyBeforeTrash, SendToTrash, TrashUnavailable,
       BeginRemoteTrash, MoveToTrash, CommitTrash, TouchBase, Forget, Protects
  <2> QED BY <2>1, <2>2 DEF Fits, Touching
<1>6. CASE Environment \/ UNCHANGED vars
  <2>1. CASE Save \/ Delete
    <3>1. pc' \in {"idle", "scan"}
      BY <2>1 DEF Save, Delete, Attentive
    <3> QED BY <3>1 DEF Fits, Touching
  <2>2. CASE OtherWrites \/ OtherTrashes \/ UNCHANGED vars
    <3>1. UNCHANGED <<pc, kind, entry, view, disk, expect, rec, found>>
      BY <2>2 DEF OtherWrites, OtherTrashes, vars
    <3>2. pc \in {"stat", "record"} => Exact \/ found.id \in LiveIds'
      BY LiveKept DEF Fits, Touching
    <3> QED BY <3>1, <3>2 DEF Fits, Stat, Uploading, Touching
  <2>3. CASE Crash
    BY <2>3 DEF Crash, Fits, Touching
  <2> QED BY <1>6, <2>1, <2>2, <2>3 DEF Environment
<1> QED BY <1>1, <1>2, <1>3, <1>4, <1>5, <1>6 DEF Next, Tool

(* Rows are measured by the bytes they record, and what goes to the drive  *)
(* is not what the base has.                                               *)
LEMMA MeasuredRow ==
    ASSUME Exact, TypeOK, Written, Rows, Still, Views, Fits, Measured, [Next]_vars
    PROVE  /\ rec'.lc \in typed' \cup {None}
           /\ rec'.lc # None => rec'.rsz = Size[rec'.lc]
<1>0. typed \subseteq typed' /\ {disk.c, got} \subseteq typed \cup {None}
  BY TypedGrows DEF Written
<1>1. CASE RowStays
  BY <1>0, <1>1, RowStaysKeeps DEF Measured
<1>2. CASE RecordUpload
  <2>1. PICK m \in {entry.c, disk.c} : rec' = UploadedRow(m)
    BY <1>2 DEF RecordUpload
  <2>2. m \in {None, disk.c} /\ entry.sz = SizeOf(disk.c)
    BY <1>2, <2>1 DEF RecordUpload, Still, Scanned
  <2> QED BY <1>0, <2>1, <2>2 DEF UploadedRow, SizeOf
<1>3. ~RecordUnhashed
  BY DEF RecordUnhashed, Fault, Exact
<1>4. CASE RecordDownload
  BY <1>0, <1>4 DEF RecordDownload, Measured
<1>5. CASE TouchBase
  <2>1. /\ rec'.lc = entry.c /\ rec'.rsz = view.r.sz
        /\ entry.c = disk.c /\ entry.c # None
        /\ entry.sz = SizeOf(disk.c) /\ entry.sz = view.r.sz
    BY <1>5 DEF TouchBase, Fits, Touching, Still, Scanned
  <2> QED BY <1>0, <2>1 DEF SizeOf
<1>6. CASE rec' = NoRow
  BY <1>6 DEF NoRow
<1> QED
  BY <1>1, <1>2, <1>3, <1>4, <1>5, <1>6, RowActs
  DEF BeginRemoteTrash, CommitTrash, Forget, RowStays

LEMMA MeasuredDiff ==
    ASSUME TypeOK, Still, Diff, kind' \in {"UPLOAD_NEW", "UPLOAD_VERSION"}
    PROVE  rec'.id = None \/ disk'.c # rec'.lc
<1> DEFINE h == HashLocal
           k == kind'
<1>1. k = Decide(rec, h, view.r, unobs, view.deleted, view.complete, mode.propagate,
                 h.c, HashRemote)
  BY DEF Diff, DecideWith
<1>2. h.c \in {None, disk.c}
  BY HashedEntry DEF Diff, Still, Scanned
<1> HIDE DEF h, k
<1>3. k \in {"UPLOAD_NEW", "UPLOAD_VERSION"} =>
        rec.id = None \/ (h.c # None /\ h.c # rec.lc)
  BY <1>1, DecideHere
<1>4. UNCHANGED <<rec, disk>>
  BY DEF Diff
<1> QED BY <1>2, <1>3, <1>4 DEF k

LEMMA MeasuredStep ==
    ASSUME Attentive, Exact, TypeOK, Written, Rows, Still, Views, Fits, Measured,
           [Next]_vars
    PROVE  Measured'
<1>1. ASSUME pc' \in {"guard", "replace", "fresh"}
      PROVE  view'.r.sz = Size[got']
  <2>1. CASE Act
    <3>1. Fetch \/ Guard \/ Replace
      BY <1>1, <2>1 DEF Act, Upload, List, Put, Post, PostConflict, Requery,
         UploadRefused, TransferFails, AnswerLost, StatAfterUpload, RecordUpload,
         RecordUnhashed, Download, PreCheck, RecordDownload, Conflict, ConflictCheck,
         Rename, ListCopy, FinishConflict, Settle, VerifyBeforeTrash, SendToTrash,
         TrashUnavailable, BeginRemoteTrash, MoveToTrash, CommitTrash, TouchBase,
         Forget, Fails, Protects, Withdraws
    <3> QED BY <1>1, <3>1 DEF Fetch, Guard, Replace, Matches, Fails, Measured
  <2>2. ~Pass
    BY <1>1, FirstStepType DEF Pass, Start, Scan, ScanSkips, HoldCollapse, Tip, Walk,
       Changes, ProbeFinds, ProbeSkips, Diff, DiffBlind, Execute, NothingToDo, Defer,
       BulkDeleteAbort, SaveCursor, Observe
  <2>3. CASE Environment \/ UNCHANGED vars
    BY <1>1, <2>3 DEF Environment, Save, Delete, OtherWrites, OtherTrashes, Crash, vars,
       Measured
  <2> QED BY <2>1, <2>2, <2>3 DEF Next, Tool, Act
<1>2. ASSUME pc' \in {"list", "post"} \/ (pc' = "gate" /\ Uploading')
      PROVE  rec'.id = None \/ disk'.c # rec'.lc
  <2>1. CASE Act
    <3>1. List /\ pc' = "post"
      BY <1>2, <2>1, ActComes DEF Act, Upload, Put, Post, PostConflict, Requery,
         UploadRefused, TransferFails, AnswerLost, StatAfterUpload, RecordUpload,
         RecordUnhashed, Download, PreCheck, Fetch, Guard, Replace, RecordDownload,
         Conflict, ConflictCheck, Rename, ListCopy, FinishConflict, Settle,
         VerifyBeforeTrash, SendToTrash, TrashUnavailable, BeginRemoteTrash, MoveToTrash,
         CommitTrash, TouchBase, Forget, Fails, Protects, Withdraws
    <3>2. UNCHANGED <<rec, disk>> /\ pc = "list"
      BY <3>1 DEF List, Withdraws
    <3> QED BY <3>2 DEF Measured
  <2>2. CASE Pass
    <3>1. CASE Diff
      BY <1>2, <3>1, MeasuredDiff DEF Diff, Uploading
    <3>2. CASE Execute
      <4>1. /\ rec'.id = rec.id /\ rec'.lc = rec.lc /\ UNCHANGED <<disk, kind>>
            /\ pc = "gate"
        BY <3>2 DEF Execute, RecordHashFailure, Mark, TypeOK, TypeStore, Row
      <4>2. Uploading
        BY <1>2, <3>2 DEF Execute, FirstStep, Acting, Uploading
      <4> QED BY <4>1, <4>2 DEF Measured
    <3>3. ~DiffBlind
      BY DEF DiffBlind, Fault, Exact
    <3> QED BY <1>2, <2>2, <3>1, <3>2, <3>3 DEF Pass, Start, Scan, ScanSkips,
          HoldCollapse, Tip, Walk, Changes, ProbeFinds, ProbeSkips, NothingToDo, Defer,
          BulkDeleteAbort, SaveCursor, Observe
  <2>3. CASE Environment \/ UNCHANGED vars
    <3>1. ~Save /\ ~Delete /\ ~Crash
      BY <1>2 DEF Save, Delete, Crash, Attentive
    <3>2. UNCHANGED <<pc, kind, rec, disk>>
      BY <2>3, <3>1 DEF Environment, OtherWrites, OtherTrashes, vars
    <3> QED BY <1>2, <3>2 DEF Measured, Uploading
  <2> QED BY <2>1, <2>2, <2>3 DEF Next, Tool, Act
<1> QED BY <1>1, <1>2, MeasuredRow DEF Measured

(* A new row may name a file that is gone only if others trash.            *)
LEMMA NewId ==
    ASSUME TypeOK, Rows, Views, Fits, [Next]_vars, RowStays, rec'.id # rec.id
    PROVE  /\ rec'.id = view.r.id /\ rec'.lc = None /\ pc # "rmove"
           /\ Exact \/ view.r.id \in LiveIds
<1>1. rec.st = "none" /\ rec'.id = view.r.id
  BY RowStaysKeeps
<1>2. rec.lc = None /\ rec.id = None
  BY <1>1 DEF Rows
<1>3. pc \notin {"commit", "save"}
  <2>1. CASE Act
    BY <1>1, <1>2, <2>1 DEF Act, Upload, List, Put, Post, PostConflict, Requery,
       UploadRefused, TransferFails, AnswerLost, StatAfterUpload, RecordUpload,
       RecordUnhashed, Download, PreCheck, Fetch, Guard, Replace, RecordDownload, Conflict,
       ConflictCheck, Rename, ListCopy, FinishConflict, Settle, VerifyBeforeTrash,
       SendToTrash, TrashUnavailable, BeginRemoteTrash, MoveToTrash, CommitTrash, TouchBase,
       Forget, NoRow
  <2>2. CASE Pass
    BY <2>2 DEF Pass, Start, Scan, ScanSkips, HoldCollapse, Tip, Walk, Changes,
       ProbeFinds, ProbeSkips, Diff, DiffBlind, Execute, NothingToDo, Defer,
       BulkDeleteAbort, SaveCursor
  <2>3. CASE Environment \/ UNCHANGED vars
    BY <2>3 DEF Environment, Save, Delete, OtherWrites, OtherTrashes, Crash, vars
  <2> QED BY <2>1, <2>2, <2>3 DEF Next, Tool, Act
<1>4. pc # "rmove"
  BY <1>2 DEF Fits
<1>5. rec'.lc = None
  BY <1>2, RowStaysKeeps
<1>6. rec'.id # None
  BY <1>2
<1> QED BY <1>1, <1>3, <1>4, <1>5, <1>6 DEF Views, Seen

LEMMA GhostStep ==
    ASSUME Attentive, TypeOK, Rows, Views, Fits, Ghost, [Next]_vars
    PROVE  Ghost'
<1> SUFFICES ASSUME ~Exact, rec'.id # None, rec'.id \notin LiveIds'
             PROVE  pc' = "commit"
  BY DEF Ghost, Exact
<1>1. RowStays
  <2>1. ASSUME UNCHANGED obj, rec'.id \in LiveIds PROVE FALSE
    BY <2>1 DEF LiveIds, Live
  <2>2. ~(RecordUpload \/ RecordUnhashed)
    BY <2>1 DEF RecordUpload, RecordUnhashed, UploadedRow, Fits
  <2>3. ~(RecordDownload \/ TouchBase)
    BY <2>1 DEF RecordDownload, TouchBase, Fits, Touching, Views
  <2>4. rec' # NoRow
    BY DEF NoRow
  <2> QED BY <2>2, <2>3, <2>4, RowActs DEF BeginRemoteTrash, CommitTrash, Forget, RowStays
<1>2. rec'.id = rec.id
  <2>1. rec'.id # rec.id => rec'.id \in LiveIds'
    BY <1>1, NewId, LiveKept
  <2> QED BY <2>1
<1>3. CASE rec.id \in LiveIds
  <2>1. pc = "rmove" /\ pc' \in {"commit", "save"}
    BY <1>2, <1>3, LiveKept
  <2>2. obj' # obj
    BY <1>2, <1>3 DEF LiveIds, Live
  <2>3. pc' = "commit" \/ AnswerLost
    BY <2>1, <2>2, DriveWrites DEF Put, Post, MoveToTrash, OtherWrites, OtherTrashes
  <2> QED BY <2>3 DEF AnswerLost, Fault, Attentive, Whole
<1>4. CASE rec.id \notin LiveIds
  <2> SUFFICES ASSUME pc = "commit" PROVE pc' = "commit"
    BY <1>2, <1>4 DEF Ghost
  <2>1. ~Crash
    BY DEF Crash, Fault, Attentive, Whole
  <2>2. ~CommitTrash
    BY DEF CommitTrash, NoRow
  <2>3. ~Act
    BY <2>2 DEF Act, Upload, List, Put, Post, PostConflict, Requery, UploadRefused,
       TransferFails, AnswerLost, StatAfterUpload, RecordUpload, RecordUnhashed,
       Download, PreCheck, Fetch, Guard, Replace, RecordDownload, Conflict,
       ConflictCheck, Rename, ListCopy, FinishConflict, Settle, VerifyBeforeTrash,
       SendToTrash, TrashUnavailable, BeginRemoteTrash, MoveToTrash, TouchBase, Forget
  <2>4. ~Pass
    BY DEF Pass, Start, Scan, ScanSkips, HoldCollapse, Tip, Walk, Changes, ProbeFinds,
       ProbeSkips, Diff, DiffBlind, Execute, NothingToDo, Defer, BulkDeleteAbort,
       SaveCursor
  <2> QED
    BY <2>1, <2>3, <2>4 DEF Next, Tool, Act, Environment, Save, Delete, OtherWrites,
       OtherTrashes, vars
<1> QED BY <1>3, <1>4

(* The file written last.                                                  *)
LEMMA ServerStep ==
    ASSUME TypeOK, [Next]_vars
    PROVE  \/ UNCHANGED server
           \/ \E o \in LiveIds, c \in Content : PutVersion(o, c)
           \/ LiveIds = {} /\ \E o \in FreshIds, c \in Content : PostNew(o, c)
           \/ \E o \in LiveIds : TrashObject(o)
<1>0. disk.c # None => disk.c \in Content
  BY DEF TypeOK, TypeLocal
<1>1. CASE OtherWrites
  <2>1. PICK c \in NewBytes : IF LiveIds = {} THEN \E o \in FreshIds : PostNew(o, c)
                                              ELSE \E o \in LiveIds : PutVersion(o, c)
    BY <1>1 DEF OtherWrites
  <2>2. c \in Content
    BY <2>1 DEF NewBytes
  <2> QED BY <2>1, <2>2
<1>2. CASE OtherTrashes
  BY <1>2 DEF OtherTrashes
<1>3. CASE Put \/ Post \/ AnswerLost
  BY <1>0, <1>3 DEF Put, Post, AnswerLost
<1>4. CASE MoveToTrash
  BY <1>4 DEF MoveToTrash
<1>5. CASE ~(OtherWrites \/ OtherTrashes \/ Put \/ Post \/ AnswerLost \/ MoveToTrash)
  <2>1. CASE Pass \/ UNCHANGED vars
    BY <2>1 DEF Pass, Start, Scan, ScanSkips, HoldCollapse, Tip, Walk, Changes,
       ProbeFinds, ProbeSkips, Diff, DiffBlind, Execute, NothingToDo, Defer,
       BulkDeleteAbort, SaveCursor, vars
  <2>2. CASE Download \/ Conflict
    BY <2>2 DEF Download, PreCheck, Fetch, Guard, Replace, RecordDownload,
       Conflict, ConflictCheck, Rename, ListCopy, FinishConflict
  <2>3. CASE Upload
    BY <1>5, <2>3 DEF Upload, List, PostConflict, Requery, UploadRefused,
       TransferFails, StatAfterUpload, RecordUpload, RecordUnhashed
  <2>4. CASE Settle
    BY <1>5, <2>4 DEF Settle, VerifyBeforeTrash, SendToTrash, TrashUnavailable,
       BeginRemoteTrash, CommitTrash, TouchBase, Forget
  <2>5. CASE Environment
    BY <1>5, <2>5 DEF Environment, Save, Delete, Crash
  <2> QED BY <2>1, <2>2, <2>3, <2>4, <2>5 DEF Next, Tool
<1> QED BY <1>1, <1>2, <1>3, <1>4, <1>5

LEMMA LastStep == ASSUME TypeOK, LiveOne, Last, [Next]_vars PROVE Last'
<1>0. /\ obj \in [ObjId -> [st : {"none", "live", "trash"}, ver : Nat,
                            c : Content \cup {None}, rev : Nat]]
      /\ rev \in Nat
  BY DEF TypeOK, TypeDrive
<1>1. CASE UNCHANGED server
  BY <1>1 DEF Last, Live
<1>2. ASSUME NEW q \in ObjId, NEW c, PutVersion(q, c) \/ PostNew(q, c),
             \A o \in LiveIds : o = q
      PROVE  Last'
  <2> SUFFICES ASSUME NEW o \in ObjId
               PROVE  obj'[o].rev <= rev' /\ (obj'[o].st = "live" => obj'[o].rev = rev')
    BY DEF Last, Live
  <2>1. rev' = rev + 1 /\ obj'[q].rev = rev + 1
    BY <1>0, <1>2 DEF PutVersion, PostNew
  <2>2. o # q => obj'[o] = obj[o] /\ obj[o].st # "live"
    BY <1>0, <1>2 DEF PutVersion, PostNew, LiveIds, Live
  <2>3. obj[o].rev <= rev /\ obj[o].rev \in Nat
    BY <1>0 DEF Last
  <2> QED BY <1>0, <2>1, <2>2, <2>3
<1>3. CASE \E o \in LiveIds, c \in Content : PutVersion(o, c)
  BY <1>2, <1>3 DEF LiveOne, LiveIds
<1>4. CASE LiveIds = {} /\ \E o \in FreshIds, c \in Content : PostNew(o, c)
  BY <1>2, <1>4 DEF FreshIds
<1>5. CASE \E q \in LiveIds : TrashObject(q)
  <2>1. PICK q \in LiveIds : TrashObject(q)
    BY <1>5
  <2> SUFFICES ASSUME NEW o \in ObjId
               PROVE  obj'[o].rev <= rev' /\ (obj'[o].st = "live" => obj'[o].rev = rev')
    BY DEF Last, Live
  <2>2. rev' = rev + 1 /\ obj'[q].rev = rev + 1 /\ obj'[q].st = "trash" /\ q \in ObjId
    BY <1>0, <2>1 DEF TrashObject, LiveIds
  <2>3. o # q => obj'[o] = obj[o] /\ obj[o].st # "live"
    BY <1>0, <2>1 DEF TrashObject, LiveOne, LiveIds, Live
  <2>4. obj[o].rev <= rev /\ obj[o].rev \in Nat
    BY <1>0 DEF Last
  <2> QED BY <1>0, <2>2, <2>3, <2>4
<1> QED BY <1>1, <1>3, <1>4, <1>5, ServerStep

(* What is apart stays so: whoever else writes, writes new bytes.          *)
LEMMA ApartNone == ASSUME TypeOK, NEW id PROVE Apart(obj, id, None)
BY DEF Apart, TypeOK, TypeDrive, LiveIds, Live

LEMMA ApartLive == ASSUME LiveOne, NEW id \in LiveIds, NEW c PROVE Apart(obj, id, c)
BY DEF Apart, LiveOne, LiveIds, Live

LEMMA ApartWritten ==
    ASSUME TypeOK, NEW id, NEW c, Apart(obj, id, c), NEW q \in ObjId, NEW b,
           PutVersion(q, b) \/ PostNew(q, b), q = id \/ b # c
    PROVE  Apart(obj', id, c)
<1>0. obj \in [ObjId -> [st : {"none", "live", "trash"}, ver : Nat,
                         c : Content \cup {None}, rev : Nat]]
  BY DEF TypeOK, TypeDrive
<1> QED BY <1>0 DEF Apart, PutVersion, PostNew

LEMMA ApartTrashed ==
    ASSUME TypeOK, NEW id, NEW c, Apart(obj, id, c), NEW q \in ObjId, TrashObject(q)
    PROVE  Apart(obj', id, c)
<1>0. obj \in [ObjId -> [st : {"none", "live", "trash"}, ver : Nat,
                         c : Content \cup {None}, rev : Nat]]
  BY DEF TypeOK, TypeDrive
<1> QED BY <1>0 DEF Apart, TrashObject

LEMMA ApartOthers ==
    ASSUME TypeOK, Exact, NEW id, NEW c \in typed \cup {None}, Apart(obj, id, c),
           UNCHANGED obj \/ OtherWrites \/ OtherTrashes \/ MoveToTrash
    PROVE  Apart(obj', id, c)
<1>1. CASE UNCHANGED obj
  BY <1>1 DEF Apart
<1>2. CASE OtherWrites
  <2>1. PICK b \in NewBytes, q \in ObjId : PutVersion(q, b) \/ PostNew(q, b)
    BY <1>2 DEF OtherWrites, FreshIds, LiveIds
  <2>2. b # c
    BY NoneAssumption DEF NewBytes, Exact
  <2> QED BY <2>1, <2>2, ApartWritten
<1>3. CASE OtherTrashes \/ MoveToTrash
  <2>1. UNCHANGED obj \/ \E q \in ObjId : TrashObject(q)
    BY <1>3 DEF OtherTrashes, MoveToTrash, LiveIds
  <2> QED BY <1>1, <2>1, ApartTrashed
<1> QED BY <1>1, <1>2, <1>3

(* The row.                                                                *)
LEMMA ApartStays ==
    ASSUME TypeOK, Exact, Rows, Fits, Measured, Parted, [Next]_vars
    PROVE  Apart(obj', rec.id, rec.lc)
<1>1. Apart(obj, rec.id, rec.lc) /\ rec.lc \in typed \cup {None}
  BY DEF Parted, Measured
<1>2. rec.id = None => rec.lc = None
  BY DEF Rows
<1>3. CASE UNCHANGED obj \/ OtherWrites \/ OtherTrashes \/ MoveToTrash
  BY <1>1, <1>3, ApartOthers
<1>4. CASE Put \/ Post \/ AnswerLost
  <2>1. CASE pc = "put"
    <3>1. PutVersion(found.id, disk.c) /\ found.id \in ObjId /\ disk.c # None
      BY <1>4, <2>1 DEF Put, Post, AnswerLost, LiveIds
    <3>2. found.id = rec.id \/ disk.c # rec.lc
      BY <1>2, <2>1, <3>1 DEF Fits
    <3> QED BY <1>1, <3>1, <3>2, ApartWritten
  <2>2. CASE pc = "post"
    <3>1. disk.c # None /\ \E q \in ObjId : PostNew(q, disk.c)
      BY <1>4, <2>2 DEF Put, Post, AnswerLost, FreshIds
    <3>2. disk.c # rec.lc
      BY <1>2, <2>2, <3>1 DEF Measured
    <3> QED BY <1>1, <3>1, <3>2, ApartWritten
  <2>3. CASE pc \notin {"put", "post"}
    <3>1. \E q \in ObjId : TrashObject(q)
      BY <1>4, <2>3 DEF Put, Post, AnswerLost, LiveIds
    <3> QED BY <1>1, <3>1, ApartTrashed
  <2> QED BY <2>1, <2>2, <2>3
<1> QED BY <1>3, <1>4, DriveWrites

LEMMA PartedRow ==
    ASSUME TypeOK, Exact, Rows, Views, Still, Fits, Measured, Parted, [Next]_vars
    PROVE  Apart(obj', rec'.id, rec'.lc)
<1>0. \A id : Apart(obj', id, None)
  <2>1. TypeOK'
    BY TypeStep
  <2> QED BY <2>1 DEF Apart, TypeOK, TypeDrive, LiveIds, Live
<1>1. CASE RowStays
  <2>1. CASE rec'.id = rec.id
    BY <1>1, <2>1, RowStaysKeeps, ApartStays
  <2>2. CASE rec'.id # rec.id
    BY <1>0, <1>1, <2>2, NewId
  <2> QED BY <2>1, <2>2
<1>2. CASE RecordUpload \/ RecordUnhashed
  <2>1. PICK m \in {entry.c, disk.c, None} : rec' = UploadedRow(m)
    BY <1>2 DEF RecordUpload, RecordUnhashed
  <2>2. m \in {None, disk.c} /\ pc = "record" /\ UNCHANGED obj
    BY <1>2, <2>1 DEF RecordUpload, RecordUnhashed, Still, Scanned
  <2> QED BY <1>0, <2>1, <2>2 DEF UploadedRow, Parted, Apart
<1>3. CASE RecordDownload
  BY <1>3 DEF RecordDownload, Parted, Apart
<1>4. CASE TouchBase
  <2>1. rec'.id = view.r.id /\ rec'.lc = disk.c /\ Touching /\ UNCHANGED obj
    BY <1>4 DEF TouchBase, Fits, Touching, Still, Scanned
  <2> QED BY <2>1 DEF Parted, Apart
<1>5. CASE rec' = NoRow
  BY <1>0, <1>5 DEF NoRow
<1> QED
  BY <1>1, <1>2, <1>3, <1>4, <1>5, RowActs
  DEF BeginRemoteTrash, CommitTrash, Forget, RowStays

(* The view, and what is held between two steps.                           *)
LEMMA PartedView ==
    ASSUME TypeOK, LiveOne, Written, Parted, Pass, pc' \in {"walk", "probe", "diff"}
    PROVE  view'.r.c \in typed' \cup {None} /\ Apart(obj', view'.r.id, view'.r.c)
<1>0. UNCHANGED <<obj, typed>>
  BY PassKeeps
<1>1. \A id : Apart(obj, id, None)
  BY ApartNone
<1>2. ASSUME NEW o \in LiveIds, view'.r \in {ListEntry(o), FeedEntry(o)}
      PROVE  view'.r.id = o /\ view'.r.c \in typed \cup {None}
             /\ Apart(obj, o, view'.r.c)
  <2>1. view'.r.id = o /\ view'.r.c \in {None, obj[o].c}
    BY <1>2 DEF ListEntry, FeedEntry
  <2>2. obj[o].c \in typed \cup {None}
    BY DEF Written, LiveBytes
  <2>3. Apart(obj, o, view'.r.c)
    BY ApartLive
  <2> QED BY <2>1, <2>2, <2>3
<1>3. \/ UNCHANGED view /\ pc \in {"walk", "probe"}
      \/ view'.r = NoRemote
      \/ \E o \in LiveIds : view'.r \in {ListEntry(o), FeedEntry(o)}
  <2>1. CASE Tip \/ Changes
    BY <2>1 DEF Tip, Changes, NoView
  <2>2. CASE Walk \/ ProbeFinds \/ ProbeSkips
    <3>1. /\ pc \in {"walk", "probe"}
          /\ UNCHANGED view \/ \E o \in LiveIds : view' = [view EXCEPT !.r = ListEntry(o)]
      BY <2>2 DEF Walk, ProbeFinds, ProbeSkips
    <3>2. \A o : view' = [view EXCEPT !.r = ListEntry(o)] => view'.r = ListEntry(o)
      BY DEF TypeOK, TypeSeen, View
    <3> QED BY <3>1, <3>2
  <2> QED BY <2>1, <2>2, FirstStepType DEF Pass, Start, Scan, ScanSkips, HoldCollapse,
        Diff, DiffBlind, Execute, NothingToDo, Defer, BulkDeleteAbort, SaveCursor, Observe
<1>4. CASE UNCHANGED view /\ pc \in {"walk", "probe"}
  BY <1>0, <1>4 DEF Parted, Apart
<1>5. CASE view'.r = NoRemote
  BY <1>0, <1>1, <1>5 DEF NoRemote, Apart
<1>6. CASE \E o \in LiveIds : view'.r \in {ListEntry(o), FeedEntry(o)}
  BY <1>0, <1>2, <1>6 DEF Apart
<1> QED BY <1>3, <1>4, <1>5, <1>6

LEMMA PartedDiff ==
    ASSUME TypeOK, LiveOne, Still, Parted, Diff, kind' = "TOUCH_BASE"
    PROVE  Apart(obj, view.r.id, disk.c)
<1> DEFINE h == HashLocal
           m == HashRemote
<1>1. Decide(rec, h, view.r, unobs, view.deleted, view.complete, mode.propagate,
             h.c, m) = "TOUCH_BASE"
  BY DEF Diff, DecideWith
<1>2. h.c \in {None, disk.c}
  BY HashedEntry DEF Diff, Still, Scanned
<1> HIDE DEF h, m
<1>3. h.c # None /\ h.c = m
  BY <1>1, DecideSame
<1>4. disk.c = HashRemote /\ disk.c # None
  BY <1>2, <1>3 DEF m
<1>5. CASE view.r.c # None
  BY <1>4, <1>5 DEF HashRemote, Parted, Diff
<1>6. CASE view.r.c = None
  <2>1. view.r.id \in LiveIds
    BY <1>4, <1>6 DEF HashRemote
  <2> QED BY <2>1, ApartLive
<1> QED BY <1>5, <1>6

LEMMA PartedAct ==
    ASSUME TypeOK, LiveOne', Parted, Act
    PROVE  /\ pc' \in {"guard", "replace", "fresh"} => Apart(obj', view'.r.id, got')
           /\ pc' \in {"stat", "record"} => Apart(obj', found'.id, disk'.c)
<1>1. ASSUME pc' \in {"guard", "replace", "fresh"}
      PROVE  Apart(obj', view'.r.id, got')
  <2>1. Fetch \/ Guard \/ Replace
    BY <1>1 DEF Act, Upload, List, Put, Post, PostConflict, Requery,
       UploadRefused, TransferFails, AnswerLost, StatAfterUpload, RecordUpload,
       RecordUnhashed, Download, PreCheck, RecordDownload, Conflict, ConflictCheck,
       Rename, ListCopy, FinishConflict, Settle, VerifyBeforeTrash, SendToTrash,
       TrashUnavailable, BeginRemoteTrash, MoveToTrash, CommitTrash, TouchBase,
       Forget, Fails, Protects, Withdraws
  <2>2. CASE Fetch
    <3>1. view'.r.id \in LiveIds'
      BY <1>1, <2>2 DEF Fetch, Fails, LiveIds, Live
    <3> QED BY <3>1 DEF Apart, LiveOne, LiveIds, Live
  <2>3. CASE Guard \/ Replace
    BY <2>3 DEF Guard, Replace, Parted, Apart
  <2> QED BY <2>1, <2>2, <2>3
<1>2. ASSUME pc' \in {"stat", "record"}
      PROVE  Apart(obj', found'.id, disk'.c)
  <2>1. Put \/ Post \/ StatAfterUpload
    BY <1>2 DEF Act, Upload, List, PostConflict, Requery,
       UploadRefused, TransferFails, AnswerLost, RecordUpload,
       RecordUnhashed, Download, PreCheck, Fetch, Guard, Replace, RecordDownload,
       Conflict, ConflictCheck, Rename, ListCopy, FinishConflict, Settle,
       VerifyBeforeTrash, SendToTrash, TrashUnavailable, BeginRemoteTrash, MoveToTrash,
       CommitTrash, TouchBase, Forget, Fails, Protects, Withdraws
  <2>2. CASE Put \/ Post
    <3>1. found'.id \in LiveIds'
      BY <2>2 DEF Put, Post, PutVersion, PostNew, FreshIds, LiveIds, Live, TypeOK,
         TypeDrive, TypeSeen
    <3> QED BY <3>1 DEF Apart, LiveOne, LiveIds, Live
  <2>3. CASE StatAfterUpload
    BY <2>3 DEF StatAfterUpload, Parted, Apart
  <2> QED BY <2>1, <2>2, <2>3
<1> QED BY <1>1, <1>2

LEMMA PartedStep ==
    ASSUME Attentive, Exact, TypeOK, LiveOne, Written, Rows, Views, Still, Fits, Measured,
           Parted, [Next]_vars
    PROVE  Parted'
<1>0. LiveOne' /\ Apart(obj', rec'.id, rec'.lc)
  BY DriveStep, LiveOneKept, PartedRow
<1>1. CASE Act
  BY <1>0, <1>1, PartedAct, ActComes DEF Parted, Touching
<1>2. CASE Pass
  <2>0. UNCHANGED <<obj, disk>>
    BY <1>2, PassKeeps
  <2>1. pc' \notin {"guard", "replace", "fresh", "stat", "record"}
    BY <1>2, FirstStepType DEF Pass, Start, Scan, ScanSkips, HoldCollapse, Tip, Walk,
       Changes, ProbeFinds, ProbeSkips, Diff, DiffBlind, Execute, NothingToDo, Defer,
       BulkDeleteAbort, SaveCursor, Observe
  <2>2. ASSUME Touching'
        PROVE  Apart(obj', view'.r.id, disk'.c)
    <3>1. ~DiffBlind
      BY DEF DiffBlind, Fault, Exact
    <3>2. Diff \/ Execute
      BY <1>2, <2>2, <3>1 DEF Touching, Pass, Start, Scan, ScanSkips, HoldCollapse, Tip, Walk,
         Changes, ProbeFinds, ProbeSkips, NothingToDo, Defer, BulkDeleteAbort,
         SaveCursor, Observe
    <3>3. CASE Diff
      <4>1. kind' = "TOUCH_BASE" /\ UNCHANGED view
        BY <2>2, <3>3 DEF Diff, Touching
      <4> QED BY <2>0, <3>3, <4>1, PartedDiff
    <3>4. CASE Execute
      <4>1. UNCHANGED <<view, kind>> /\ pc = "gate" /\ kind \in Acting
            /\ pc' = FirstStep[kind]
        BY <3>4 DEF Execute
      <4>2. Touching
        BY <2>2, <4>1, FirstStepKind, FirstStepType DEF Touching
      <4> QED BY <2>0, <4>1, <4>2 DEF Parted
    <3> QED BY <3>2, <3>3, <3>4
  <2> QED BY <1>0, <1>2, <2>1, <2>2, PartedView DEF Parted
<1>3. CASE Environment \/ UNCHANGED vars
  <2>1. CASE Crash
    <3>1. pc' = "idle"
      BY <2>1 DEF Crash
    <3> QED BY <1>0, <3>1 DEF Parted, Touching
  <2>2. CASE Save \/ Delete
    <3>1. pc' \in {"idle", "scan"}
      BY <2>2 DEF Save, Delete, Attentive
    <3> QED BY <1>0, <3>1 DEF Parted, Touching
  <2>3. CASE OtherWrites \/ OtherTrashes \/ UNCHANGED vars
    <3>1. /\ UNCHANGED <<pc, view, kind, disk, got, found>>
          /\ UNCHANGED obj \/ OtherWrites \/ OtherTrashes \/ MoveToTrash
      BY <2>3 DEF OtherWrites, OtherTrashes, vars
    <3>2. typed \subseteq typed' /\ {disk.c, got} \subseteq typed \cup {None}
      BY TypedGrows DEF Written
    <3>3. pc \in {"walk", "probe", "diff"} => Apart(obj', view.r.id, view.r.c)
      BY <3>1, ApartOthers DEF Parted
    <3>4. /\ Touching => Apart(obj', view.r.id, disk.c)
          /\ pc \in {"guard", "replace", "fresh"} => Apart(obj', view.r.id, got)
          /\ pc \in {"stat", "record"} => Apart(obj', found.id, disk.c)
      BY <3>1, <3>2, ApartOthers DEF Parted
    <3> QED BY <1>0, <3>1, <3>2, <3>3, <3>4 DEF Parted, Touching
  <2> QED BY <1>3, <2>1, <2>2, <2>3 DEF Environment
<1> QED BY <1>1, <1>2, <1>3 DEF Next, Tool, Act

(* Hearing, step by step.  A file of the feed up to n that another step    *)
(* writes leaves that part of the feed.                                    *)
LEMMA HeardOn ==
    ASSUME TypeOK, Numbers, DriveMoves, UNCHANGED view, NEW o \in Upto(obj', view.next)
    PROVE  /\ o \in Upto(obj, view.next) /\ obj'[o] = obj[o] /\ o # None
           /\ Current(o) => Current(o)'
<1>1. view.next \in Nat /\ view.next <= rev
  BY DEF TypeOK, TypeSeen, View, Numbers
<1>2. o \in Upto(obj, view.next) /\ obj'[o] = obj[o]
  BY <1>1, UptoKept
<1> QED BY <1>2, NoneAssumption DEF Current, AsShown, Upto

LEMMA HearingOthers ==
    ASSUME TypeOK, Numbers, DriveMoves, Hearing,
           UNCHANGED <<pc, rec, view, kind, entry, cursor>>,
           UNCHANGED disk \/ pc \in {"idle", "scan"}
    PROVE  Hearing'
<1>1. Heard'
  BY HeardOn DEF Hearing, Heard, Silent, KnownBy, Unbased
<1>2. InHand'
  BY HeardOn DEF Hearing, InHand, Taking
<1>3. Noted'
  BY HeardOn DEF Hearing, Noted, KnownBy, Unhashed, Waits, Unbased
<1>4. Settled'
  BY HeardOn DEF Hearing, Settled, KnownBy, Waits, Unbased
<1>5. Nothing'
  BY HeardOn DEF Hearing, Nothing, Over
<1> QED BY <1>1, <1>2, <1>3, <1>4, <1>5 DEF Hearing

(* What is observed.                                                       *)
LEMMA ViewHears ==
    ASSUME TypeOK, NEW o \in LiveIds, UNCHANGED obj,
           view'.r \in {ListEntry(o), FeedEntry(o)}
    PROVE  Current(o)'
BY DEF ListEntry, FeedEntry, Current, AsShown

LEMMA HearingWalk ==
    ASSUME TypeOK, LiveOne, Walk
    PROVE  Hearing'
<1>1. pc' = "diff" /\ UNCHANGED <<obj, rec>>
  BY DEF Walk
<1>2. ASSUME NEW o \in Upto(obj', view'.next) PROVE Current(o)'
  <2>1. o \in LiveIds
    BY <1>1 DEF Upto, LiveIds, Live
  <2>2. view' = [view EXCEPT !.r = ListEntry(o)]
    BY <2>1 DEF Walk, LiveOne
  <2>3. view'.r = ListEntry(o)
    BY <2>2 DEF TypeOK, TypeSeen, View
  <2> QED BY <1>1, <2>1, <2>3, ViewHears
<1> QED BY <1>1, <1>2 DEF Hearing, Heard, InHand, Taking, Noted, Settled, Nothing, Over

LEMMA HearingChanges ==
    ASSUME TypeOK, LiveOne, Numbers, Last, Heeded(obj, rec, cursor), Changes
    PROVE  Hearing'
<1>1. pc' = "probe" /\ UNCHANGED <<obj, rec, cursor>>
  BY DEF Changes
<1>2. ASSUME NEW o \in Upto(obj', view'.next)
      PROVE  \/ Current(o)'
             \/ Silent' /\ KnownBy(rec', obj', o)
             \/ Silent' /\ Unbased(rec') /\ view'.next = cursor'
  <2>1. o \in LiveIds /\ obj[o].st = "live" /\ o \in ObjId
    BY <1>1 DEF Upto, LiveIds, Live
  <2>2. CASE o \in ChangedIds
    <3>1. view'.r = FeedEntry(o)
      BY <2>1, <2>2 DEF Changes, LiveOne, NoView
    <3> QED BY <1>1, <2>1, <3>1, ViewHears
  <2>3. CASE o \notin ChangedIds
    <3>1. o \in Upto(obj, cursor)
      BY <2>1, <2>3 DEF ChangedIds, Upto, TypeOK, TypeDrive, TypeStore
    <3>2. KnownBy(rec, obj, o) \/ Unbased(rec)
      BY <3>1 DEF Heeded
    <3>3. ChangedIds = {}
      <4>1. rev <= cursor /\ \A q \in ObjId : obj[q].rev <= cursor /\ obj[q].rev \in Nat
        BY <2>1, <3>1 DEF Last, LiveIds, Upto, TypeOK, TypeDrive, TypeStore
      <4> QED BY <4>1 DEF ChangedIds, TypeOK, TypeStore
    <3>4. /\ view'.r = NoRemote /\ ~view'.deleted /\ ~view'.complete
          /\ view'.next = cursor
      BY <3>3 DEF Changes, NoView
    <3> QED BY <1>1, <3>2, <3>4 DEF Silent, Seen, NoRemote
  <2> QED BY <2>2, <2>3
<1> QED BY <1>1, <1>2 DEF Hearing, Heard, InHand, Taking, Noted, Settled, Nothing, Over

LEMMA HearingProbe ==
    ASSUME TypeOK, LiveOne, Hearing, ProbeFinds \/ ProbeSkips
    PROVE  Hearing'
<1>1. pc = "probe" /\ pc' = "diff" /\ UNCHANGED <<obj, rec, cursor>>
  BY DEF ProbeFinds, ProbeSkips
<1>2. ASSUME NEW o \in Upto(obj', view'.next)
      PROVE  \/ Current(o)'
             \/ Silent' /\ KnownBy(rec', obj', o)
             \/ Silent' /\ Unbased(rec') /\ view'.next = cursor'
  <2>1. CASE UNCHANGED view
    BY <1>1, <1>2, <2>1 DEF Hearing, Heard, Current, AsShown, Silent
  <2>2. CASE rec.id \in LiveIds /\ view' = [view EXCEPT !.r = ListEntry(rec.id)]
    <3>1. o = rec.id
      BY <1>1, <2>2 DEF Upto, LiveIds, Live, LiveOne
    <3>2. view'.r = ListEntry(o)
      BY <2>2, <3>1 DEF TypeOK, TypeSeen, View
    <3> QED BY <1>1, <2>2, <3>1, <3>2, ViewHears
  <2> QED BY <2>1, <2>2 DEF ProbeFinds, ProbeSkips
<1> QED BY <1>1, <1>2 DEF Hearing, Heard, InHand, Taking, Noted, Settled, Nothing, Over

(* The decision.  Only a file that is seen is recorded; where a seen file  *)
(* is not, the base has its version, or has no baseline, or the local file *)
(* could not be hashed.                                                    *)
LEMMA DecideSeen ==
    ASSUME NEW rr, NEW e, NEW r, NEW u, NEW d, NEW cm, NEW p, NEW lm, NEW rm, NEW k,
           ~u, k = Decide(rr, e, r, u, d, cm, p, lm, rm)
    PROVE  /\ k \in Recording => Seen(r)
           /\ ~d /\ (Seen(r) \/ ~cm) => k \notin {"LOCAL_TRASH", "FORGET"}
           /\ Seen(r) /\ ~d /\ k \notin Recording =>
                /\ rr.id # None
                /\ \/ ~RemoteChanged(rr, r) /\ HasBaseline(rr)
                   \/ ~HasBaseline(rr)
                   \/ HasBaseline(rr) /\ Here(e) /\ ~MetaSame(rr, e) /\ lm = None
BY DEF Decide, DecideNew, DecideGone, DecideKnown, Recording

(* A row whose file was never here waits.                                  *)
LEMMA DecideUnbased ==
    ASSUME NEW rr, NEW e, NEW r, NEW u, NEW d, NEW cm, NEW p, NEW lm, NEW rm, NEW k,
           ~u, ~d, Seen(r) \/ ~cm, rr.id # None, rr.lc = None,
           k = Decide(rr, e, r, u, d, cm, p, lm, rm), k \notin Recording
    PROVE  k \notin Acting /\ (Seen(r) => Here(e))
BY DEF Decide, DecideGone, HasBaseline, Recording, Acting

(* A row whose file is gone has another size than the file there is.       *)
LEMMA GhostShows ==
    ASSUME TypeOK, LiveOne, Ghost, Exact => Measured /\ Parted, pc = "diff",
           NEW o \in LiveIds, Current(o), rec.id # None, rec.id # o
    PROVE  Exact /\ (HasBaseline(rec) => RemoteChanged(rec, view.r))
<1>1. Exact
  BY DEF LiveOne, Ghost
<1> SUFFICES ASSUME rec.lc # None PROVE RemoteChanged(rec, view.r)
  BY <1>1 DEF HasBaseline
<1>2. obj[o].c # rec.lc
  BY <1>1 DEF Parted, Apart, LiveIds, Live
<1>3. rec.lc \in Content /\ obj[o].c \in Content /\ rec.rsz = Size[rec.lc]
  BY <1>1 DEF TypeOK, TypeStore, Row, TypeDrive, LiveIds, Measured
<1>4. view.r.sz = Size[obj[o].c] /\ view.r.sz # rec.rsz
  BY <1>1, <1>2, <1>3 DEF Exact, Current, AsShown
<1>5. view.r.sz # None /\ rec.rsz # None
  BY <1>3, <1>4, SizeAssumption, NoneAssumption
<1> QED BY <1>4, <1>5 DEF RemoteChanged

LEMMA HearingDiff ==
    ASSUME TypeOK, LiveOne, Rows, Ghost, Exact => Measured /\ Parted, Still, Views, Hearing,
           Diff \/ DiffBlind
    PROVE  Hearing'
<1>0. pc = "diff" /\ pc' = "gate" /\ UNCHANGED <<obj, rec, view, disk, cursor>>
  BY DEF Diff, DiffBlind
<1>1. PICK e, m : /\ kind' = DecideWith(e, m) /\ e = entry'
  BY DEF Diff, DiffBlind
<1> DEFINE k == kind'
<1>2. /\ ~unobs
      /\ k = Decide(rec, e, view.r, unobs, view.deleted, view.complete, mode.propagate,
                    e.c, m)
  BY <1>1 DEF DecideWith, Views
<1>e. e.mt = disk.mt
  BY <1>0, <1>1, HashedEntry DEF Diff, DiffBlind, Still, Scanned
<1> HIDE DEF k
<1>3. /\ k \in Recording => Seen(view.r)
      /\ ~view.deleted /\ (Seen(view.r) \/ ~view.complete)
           => k \notin {"LOCAL_TRASH", "FORGET"}
      /\ Seen(view.r) /\ ~view.deleted /\ k \notin Recording =>
           /\ rec.id # None
           /\ \/ ~RemoteChanged(rec, view.r) /\ HasBaseline(rec)
              \/ ~HasBaseline(rec)
              \/ HasBaseline(rec) /\ Here(e) /\ ~MetaSame(rec, e) /\ e.c = None
  BY <1>2, DecideSeen
<1>w. ASSUME Unbased(rec), ~view.deleted, Seen(view.r) \/ ~view.complete, k \notin Recording
      PROVE  k \notin Acting /\ (Seen(view.r) => disk.c # None)
  <2>1. k \notin Acting /\ (Seen(view.r) => Here(e))
    BY <1>2, <1>w, DecideUnbased DEF Unbased
  <2> QED BY <1>e, <2>1 DEF Here, TypeOK, TypeLocal
<1>4. ASSUME NEW o \in Upto(obj', view'.next)
      PROVE  /\ k \in Recording => Current(o)
             /\ k \notin {"LOCAL_TRASH", "FORGET"}
             /\ k \notin Recording => \/ KnownBy(rec, obj, o)
                                      \/ rec.id = o /\ Unhashed'
                                      \/ Waits /\ k \notin Acting
  <2>0. o \in LiveIds /\ o # None /\ o \in Upto(obj, view.next)
    BY <1>0, NoneAssumption DEF Upto, LiveIds, Live
  <2>1. CASE Silent /\ KnownBy(rec, obj, o)
    BY <1>3, <2>1 DEF Silent
  <2>2. CASE Silent /\ Unbased(rec) /\ view.next = cursor
    BY <1>3, <1>w, <2>2 DEF Silent, Waits
  <2>3. CASE Current(o)
    <3>1. Seen(view.r) /\ ~view.deleted
      BY <2>0, <2>3 DEF Current, Seen, Views
    <3>2. view.r.ver = obj[o].ver /\ view.r.ver # None
      BY <2>3, <3>1 DEF Current, Views
    <3>3. SUFFICES ASSUME k \notin Recording
                   PROVE  \/ KnownBy(rec, obj, o)
                          \/ rec.id = o /\ Unhashed'
                          \/ Waits /\ k \notin Acting
      BY <1>3, <2>3, <3>1
    <3>4. /\ rec.id # None
          /\ \/ ~RemoteChanged(rec, view.r) /\ HasBaseline(rec)
             \/ ~HasBaseline(rec)
             \/ HasBaseline(rec) /\ Here(e) /\ ~MetaSame(rec, e) /\ e.c = None
      BY <1>3, <3>1, <3>3
    <3>5. rec.id # o => Exact /\ (HasBaseline(rec) => RemoteChanged(rec, view.r))
      BY <1>0, <2>0, <2>3, <3>4, GhostShows
    <3>6. CASE ~RemoteChanged(rec, view.r) /\ HasBaseline(rec)
      BY <3>2, <3>5, <3>6 DEF RemoteChanged, KnownBy
    <3>7. CASE ~HasBaseline(rec)
      <4>1. Unbased(rec)
        BY <3>4, <3>7 DEF HasBaseline, Unbased
      <4> QED BY <1>w, <3>1, <3>3, <4>1 DEF Waits
    <3>8. CASE HasBaseline(rec) /\ Here(e) /\ ~MetaSame(rec, e) /\ e.c = None
      <4>1. Unhashed'
        BY <1>0, <1>1, <3>4, <3>8 DEF Unhashed, ReadsLocal
      <4>2. ASSUME Exact PROVE FALSE
        <5>1. entry' = HashLocal
          BY <4>2 DEF Diff, DiffBlind, Fault, Exact
        <5>2. entry.mt = e.mt /\ entry.sz = e.sz
          BY <1>1, <5>1, HashedEntry
        <5>3. ReadsLocal(rec, entry, view.r)
          BY <3>4, <3>8, <5>2 DEF ReadsLocal, Here, MetaSame
        <5>4. disk.c = None /\ disk.mt # None
          BY <1>0, <1>1, <3>8, <5>1, <5>2, <5>3, HashedEntry DEF Still, Scanned, Here
        <5> QED BY <5>4 DEF TypeOK, TypeLocal
      <4> QED BY <3>5, <4>1, <4>2
    <3> QED BY <3>4, <3>6, <3>7, <3>8
  <2> QED BY <1>0, <2>0, <2>1, <2>2, <2>3 DEF Hearing, Heard
<1>5. InHand' /\ Noted' /\ Nothing'
  <2>1. \A o \in Upto(obj', view'.next) : Current(o) => Current(o)'
    BY <1>0 DEF Current, AsShown
  <2>2. InHand'
    BY <1>0, <1>4, <2>1 DEF k, InHand, Taking
  <2>3. Noted'
    BY <1>0, <1>4 DEF k, Noted, KnownBy, Waits, Unbased
  <2>4. Nothing'
    BY <1>0, <1>4 DEF k, Nothing, Over
  <2> QED BY <2>2, <2>3, <2>4
<1> QED BY <1>0, <1>5 DEF Hearing, Heard, Settled

LEMMA HearingGate ==
    ASSUME TypeOK, Rows, Views, Hearing, Execute \/ NothingToDo \/ Defer
    PROVE  Hearing'
<1>0. pc = "gate" /\ UNCHANGED <<obj, view, kind, entry, disk, cursor>>
  BY DEF Execute, NothingToDo, Defer
<1>1. CASE Execute /\ kind \in Recording
  <2>1. pc' \in {"precheck", "cstat", "touch"}
    BY <1>1 DEF Execute, FirstStep, Acting, Recording
  <2>2. InHand'
    BY <1>0, <1>1 DEF Hearing, InHand, Taking, Current, AsShown
  <2> QED BY <2>1, <2>2 DEF Hearing, Heard, Noted, Settled, Nothing, Over
<1>2. CASE Execute /\ kind \in {"LOCAL_TRASH", "FORGET"}
  <2>1. pc' \in {"verify", "forget"}
    BY <1>2 DEF Execute, FirstStep, Acting
  <2>2. Nothing'
    BY <1>0, <1>2 DEF Hearing, Nothing, Over
  <2> QED BY <2>1, <2>2 DEF Hearing, Heard, InHand, Taking, Noted, Settled
<1>3. ASSUME RecordHashFailure, kind \notin Recording, NEW o \in Upto(obj, view.next)
      PROVE  KnownBy(rec', obj, o) \/ (Waits /\ kind \notin Acting)
  <2>1. KnownBy(rec, obj, o) \/ (rec.id = o /\ Unhashed) \/ (Waits /\ kind \notin Acting)
    BY <1>0, <1>3 DEF Hearing, Noted
  <2>2. CASE Unhashed
    BY <1>3, <2>1, <2>2 DEF RecordHashFailure, Mark, KnownBy, Marked, TypeOK, TypeStore, Row
  <2> QED BY <1>3, <2>1, <2>2 DEF RecordHashFailure
<1>w. ASSUME RecordHashFailure, Waits
      PROVE  Waits'
  <2>1. rec'.id = rec.id /\ rec'.lc = rec.lc
    BY <1>w DEF RecordHashFailure, Mark, TypeOK, TypeStore, Row
  <2> QED BY <1>0, <1>w, <2>1 DEF Waits, Unbased
<1>4. CASE \/ Execute /\ kind \notin Recording \cup {"LOCAL_TRASH", "FORGET"}
           \/ NothingToDo
  <2>1. pc' \in {"list", "rtrash", "save"}
    BY <1>4 DEF Execute, NothingToDo, FirstStep, Acting, Recording
  <2>2. RecordHashFailure /\ kind \notin Recording /\ (kind \notin Acting => pc' = "save")
    BY <1>4 DEF Execute, NothingToDo, Acting, Recording, Views
  <2>3. Settled'
    BY <1>0, <1>3, <1>w, <2>2 DEF Settled, KnownBy
  <2> QED BY <2>1, <2>3 DEF Hearing, Heard, InHand, Taking, Noted, Nothing, Over
<1>5. CASE Defer
  <2>1. kind = "LOCAL_TRASH" /\ pc' = "save" /\ UNCHANGED rec
    BY <1>5 DEF Defer, MayDefer, Views
  <2>2. Upto(obj, view.next) = {}
    BY <1>0, <2>1 DEF Hearing, Nothing, Over
  <2>3. Settled'
    BY <1>0, <2>2 DEF Settled
  <2> QED BY <2>1, <2>3 DEF Hearing, Heard, InHand, Taking, Noted, Nothing, Over
<1> QED BY <1>1, <1>2, <1>4, <1>5

(* The rest of a pass keeps what it heard, unless it records it.           *)
LEMMA SettledTells ==
    ASSUME Settled, pc \in {"list", "put", "post", "requery", "rtrash", "rmove", "copy"}
    PROVE  Told(obj, rec, view.next)
BY DEF Told, Settled

LEMMA StillTold ==
    ASSUME TypeOK, Rows, Numbers, DriveMoves, RowStays, UNCHANGED view,
           Told(obj, rec, view.next)
    PROVE  Told(obj', rec', view'.next)
<1>1. view.next \in Nat /\ view.next <= rev
  BY DEF TypeOK, TypeSeen, View, Numbers
<1> QED BY <1>1, ToldKept

LEMMA StillNothing ==
    ASSUME TypeOK, Numbers, DriveMoves, UNCHANGED view, Upto(obj, view.next) = {}
    PROVE  Upto(obj', view'.next) = {} /\ Told(obj', rec', view'.next)
BY HeardOn DEF Told

(* A file written now is ahead of the feed.                                *)
LEMMA WrittenAhead ==
    ASSUME TypeOK, Numbers, LiveOne', DriveMoves, UNCHANGED view,
           NEW q \in ObjId, NEW c, PutVersion(q, c) \/ PostNew(q, c)
    PROVE  Upto(obj', view'.next) = {}
<1>0. /\ obj \in [ObjId -> [st : {"none", "live", "trash"}, ver : Nat,
                            c : Content \cup {None}, rev : Nat]]
      /\ rev \in Nat /\ view.next \in Nat /\ view.next <= rev
  BY DEF TypeOK, TypeDrive, TypeSeen, View, Numbers
<1>1. obj'[q].st = "live" /\ obj'[q].rev = rev + 1
  BY <1>0 DEF PutVersion, PostNew
<1> SUFFICES ASSUME NEW o \in Upto(obj', view'.next) PROVE FALSE
  OBVIOUS
<1>2. o \in ObjId /\ obj'[o].st = "live" /\ obj'[o].rev <= view.next
  BY DEF Upto
<1>3. o = q
  BY <1>1, <1>2 DEF LiveOne, LiveIds, Live
<1> QED BY <1>0, <1>1, <1>2, <1>3

LEMMA HearingUpload ==
    ASSUME Attentive, TypeOK, LiveOne', Rows, Numbers, DriveMoves, Fits, Hearing, Upload
    PROVE  Hearing'
<1>0. UNCHANGED <<view, kind, entry>>
  BY ActKeeps DEF Act
<1>1. CASE List \/ PostConflict \/ Requery \/ UploadRefused \/ AnswerLost
  <2>1. RowStays
    BY <1>1 DEF List, PostConflict, Requery, UploadRefused, AnswerLost, Fails, Withdraws,
       RowStays, Marks
  <2>2. pc \in {"list", "put", "post", "requery", "rmove"}
        /\ pc' \in {"put", "post", "requery", "save"}
    BY <1>1 DEF List, PostConflict, Requery, UploadRefused, AnswerLost, Fails, Withdraws
  <2>3. Told(obj', rec', view'.next)
    BY <1>0, <2>1, <2>2, StillTold, SettledTells DEF Hearing
  <2> QED BY <2>2, <2>3 DEF Hearing, Heard, InHand, Taking, Noted, Settled, Told, Nothing, Over
<1>2. CASE Put \/ Post
  <2>1. pc' = "stat"
    BY <1>2 DEF Put, Post
  <2>2. PICK q \in ObjId : PutVersion(q, disk.c) \/ PostNew(q, disk.c)
    BY <1>2 DEF Put, Post, FreshIds, LiveIds
  <2>3. Upto(obj', view'.next) = {}
    BY <1>0, <2>2, WrittenAhead
  <2> QED BY <2>1, <2>3 DEF Hearing, Heard, InHand, Taking, Noted, Settled, Nothing, Over
<1>3. CASE StatAfterUpload \/ RecordUpload \/ RecordUnhashed
  <2>1. pc \in {"stat", "record"} /\ pc' \in {"record", "save"}
    BY <1>3 DEF StatAfterUpload, RecordUpload, RecordUnhashed
  <2>2. Upto(obj, view.next) = {}
    BY <2>1 DEF Hearing, Nothing, Over
  <2>3. Upto(obj', view'.next) = {} /\ Told(obj', rec', view'.next)
    BY <1>0, <2>2, StillNothing
  <2> QED BY <2>1, <2>3 DEF Hearing, Heard, InHand, Taking, Noted, Settled, Nothing, Over
<1>4. ~TransferFails
  BY DEF TransferFails, Fault, Attentive
<1> QED BY <1>1, <1>2, <1>3, <1>4 DEF Upload

LEMMA HearingDownload ==
    ASSUME TypeOK, Still, Fits, Hearing, Download \/ Conflict
    PROVE  Hearing'
<1>0. UNCHANGED <<view, kind, entry, obj>>
  BY ActKeeps DEF Act, Download, PreCheck, Fetch, Guard, Replace, RecordDownload,
     Conflict, ConflictCheck, Rename, ListCopy, FinishConflict
<1>1. ASSUME pc' \in {"precheck", "fetch", "guard", "replace", "fresh", "rename", "crecord"}
      PROVE  Hearing'
  <2>1. Taking
    BY <1>1 DEF Download, PreCheck, Fetch, Guard, Replace, RecordDownload,
       Conflict, ConflictCheck, Rename, ListCopy, FinishConflict, Taking, Protects, Fails
  <2>2. InHand'
    BY <1>0, <2>1 DEF Hearing, InHand, Current, AsShown
  <2> QED BY <1>1, <2>2 DEF Hearing, Heard, Noted, Settled, Nothing, Over
<1>2. ASSUME pc' \in {"copy", "save"}, Told(obj', rec', view'.next)
      PROVE  Hearing'
  BY <1>2 DEF Hearing, Heard, InHand, Taking, Noted, Settled, Told, Nothing, Over
<1>3. CASE PreCheck
  <2>1. kind = "DOWNLOAD_UPDATE" => Untouched
    BY <1>3 DEF PreCheck, Still, Scanned, Untouched
  <2>2. kind = "DOWNLOAD_NEW" => disk.c = None
    BY <1>3 DEF PreCheck, Still, Scanned, Fits, Here, TypeOK, TypeLocal
  <2>3. pc' = "fetch"
    BY <1>3, <2>1, <2>2 DEF PreCheck
  <2> QED BY <1>1, <2>3
<1>4. CASE Fetch
  <2>1. CASE view.r.id \in LiveIds /\ Matches(obj[view.r.id].c)
    BY <1>1, <1>4, <2>1 DEF Fetch
  <2>2. CASE ~(view.r.id \in LiveIds /\ Matches(obj[view.r.id].c))
    <3>1. ASSUME NEW o \in Upto(obj, view.next) PROVE FALSE
      <4>1. o \in LiveIds /\ Current(o)
        BY <1>4 DEF Fetch, Hearing, InHand, Taking, Upto, LiveIds, Live
      <4> QED BY <2>2, <4>1 DEF Current, AsShown, Matches
    <3>2. Upto(obj, view.next) = {}
      BY <3>1
    <3>3. Told(obj', rec', view'.next)
      BY <1>0, <3>2 DEF Told
    <3> QED BY <1>2, <1>4, <2>2, <3>3 DEF Fetch, Fails
  <2> QED BY <2>1, <2>2
<1>5. CASE Guard \/ Replace
  BY <1>1, <1>5 DEF Guard, Replace, Fits
<1>6. CASE RecordDownload
  <2>1. pc = "fresh" /\ rec'.id = view.r.id /\ rec'.rver = view.r.ver
    BY <1>6 DEF RecordDownload
  <2>2. Told(obj', rec', view'.next)
    BY <1>0, <2>1 DEF Hearing, InHand, Taking, Current, Told, KnownBy
  <2> QED BY <1>2, <1>6, <2>2 DEF RecordDownload
<1>7. CASE ConflictCheck \/ Rename
  <2>1. disk.c # None /\ Untouched
    BY <1>7 DEF ConflictCheck, Rename, Fits, Still, Scanned, Here, Untouched, TypeOK, TypeLocal
  <2> QED BY <1>1, <1>7, <2>1 DEF ConflictCheck, Rename
<1>8. CASE ListCopy
  BY <1>1, <1>8 DEF ListCopy
<1>9. CASE FinishConflict
  <2>1. Told(obj', rec', view'.next)
    BY <1>0, <1>9, SettledTells DEF FinishConflict, Hearing, Told, KnownBy
  <2> QED BY <1>2, <1>9, <2>1 DEF FinishConflict
<1> QED BY <1>3, <1>4, <1>5, <1>6, <1>7, <1>8, <1>9 DEF Download, Conflict

LEMMA HearingSettle ==
    ASSUME TypeOK, LiveOne, Rows, Numbers, DriveMoves, Fits, Hearing, Settle
    PROVE  Hearing'
<1>0. UNCHANGED <<view, kind, entry>>
  BY ActKeeps DEF Act
<1>1. CASE VerifyBeforeTrash \/ SendToTrash \/ TrashUnavailable \/ CommitTrash \/ Forget
  <2>1. Over /\ pc # "gate" /\ pc' \in {"save", "trash", "commit"}
    BY <1>1 DEF VerifyBeforeTrash, SendToTrash, TrashUnavailable, CommitTrash, Forget,
       Protects, Over
  <2>2. Upto(obj', view'.next) = {} /\ Told(obj', rec', view'.next)
    BY <1>0, <2>1, StillNothing DEF Hearing, Nothing
  <2> QED BY <2>1, <2>2 DEF Hearing, Heard, InHand, Taking, Noted, Settled, Nothing, Over
<1>2. CASE BeginRemoteTrash
  <2>1. pc = "rtrash" /\ UNCHANGED obj
    BY <1>2 DEF BeginRemoteTrash
  <2>2. Told(obj, rec, view.next)
    BY <2>1, SettledTells DEF Hearing
  <2>3. CASE rec.id = None
    <3>1. ASSUME NEW o \in Upto(obj, view.next) PROVE FALSE
      BY <2>2, <2>3, NoneAssumption DEF Told, KnownBy, Upto
    <3>2. Upto(obj, view.next) = {}
      BY <3>1
    <3>3. Told(obj', rec', view'.next)
      BY <1>0, <3>2, StillNothing
    <3> QED BY <1>2, <2>3, <3>3 DEF BeginRemoteTrash, Hearing, Heard, InHand, Taking, Noted,
          Settled, Told, Nothing, Over
  <2>4. CASE rec.id # None
    <3>1. pc' = "rmove" /\ UNCHANGED rec
      BY <1>2, <2>4 DEF BeginRemoteTrash
    <3>2. Settled'
      BY <1>0, <2>1, <2>2, <3>1 DEF Settled, Told, KnownBy
    <3> QED BY <3>1, <3>2 DEF Hearing, Heard, InHand, Taking, Noted, Nothing, Over
  <2> QED BY <2>3, <2>4
<1>3. CASE MoveToTrash
  <2>1. pc = "rmove" /\ pc' = "commit"
    BY <1>3 DEF MoveToTrash
  <2>2. ASSUME NEW o \in Upto(obj', view'.next) PROVE FALSE
    <3>1. o \in Upto(obj, view.next) /\ obj'[o] = obj[o] /\ o \in LiveIds
      BY <1>0, HeardOn DEF Upto, LiveIds, Live
    <3>2. rec.id = o
      BY <2>1, <3>1, SettledTells DEF Hearing, Told, KnownBy
    <3>3. TrashObject(o)
      BY <1>3, <3>1, <3>2 DEF MoveToTrash
    <3> QED BY <3>1, <3>3 DEF TrashObject, LiveIds, Live, TypeOK, TypeDrive
  <2>3. Upto(obj', view'.next) = {}
    BY <2>2
  <2> QED BY <2>1, <2>3 DEF Hearing, Heard, InHand, Taking, Noted, Settled, Nothing, Over
<1>4. CASE TouchBase
  <2>1. /\ pc = "touch" /\ pc' = "save" /\ rec'.id = view.r.id /\ rec'.rver = view.r.ver
        /\ UNCHANGED obj
    BY <1>4 DEF TouchBase
  <2>2. Told(obj', rec', view'.next)
    BY <1>0, <2>1 DEF Hearing, InHand, Taking, Current, Told, KnownBy
  <2> QED BY <2>1, <2>2 DEF Hearing, Heard, InHand, Taking, Noted, Settled, Told, Nothing, Over
<1> QED BY <1>1, <1>2, <1>3, <1>4 DEF Settle

LEMMA HearingStep ==
    ASSUME Attentive, TypeOK, HearInv, [Next]_vars
    PROVE  Hearing'
<1>0. DriveMoves /\ LiveOne'
  BY DriveStep, LiveOneKept DEF HearInv
<1>1. CASE Pass
  <2>1. CASE \/ Start \/ Scan \/ ScanSkips \/ HoldCollapse \/ Tip \/ BulkDeleteAbort
             \/ SaveCursor
    <3>1. pc' \in {"idle", "scan", "tip", "changes", "walk"}
      BY <2>1 DEF Start, Scan, ScanSkips, HoldCollapse, Tip, BulkDeleteAbort, SaveCursor,
         Observe
    <3> QED BY <3>1 DEF Hearing, Heard, InHand, Taking, Noted, Settled, Nothing, Over
  <2>2. CASE Walk \/ Changes
    BY <2>2, HearingWalk, HearingChanges DEF HearInv
  <2>3. CASE ProbeFinds \/ ProbeSkips
    BY <2>3, HearingProbe DEF HearInv
  <2>4. CASE Diff \/ DiffBlind
    BY <2>4, HearingDiff DEF HearInv
  <2>5. CASE Execute \/ NothingToDo \/ Defer
    BY <2>5, HearingGate DEF HearInv
  <2> QED BY <1>1, <2>1, <2>2, <2>3, <2>4, <2>5 DEF Pass
<1>2. CASE Upload
  BY <1>0, <1>2, HearingUpload DEF HearInv
<1>3. CASE Download \/ Conflict
  BY <1>3, HearingDownload DEF HearInv
<1>4. CASE Settle
  BY <1>0, <1>4, HearingSettle DEF HearInv
<1>5. CASE Environment \/ UNCHANGED vars
  <2>1. CASE Crash
    <3>1. pc' = "idle"
      BY <2>1 DEF Crash
    <3> QED BY <3>1 DEF Hearing, Heard, InHand, Taking, Noted, Settled, Nothing, Over
  <2>2. CASE ~Crash
    <3>1. /\ UNCHANGED <<pc, rec, view, kind, entry, cursor>>
          /\ UNCHANGED disk \/ pc \in {"idle", "scan"}
      BY <1>5, <2>2 DEF Environment, Save, Delete, OtherWrites, OtherTrashes, vars, Attentive
    <3> QED BY <1>0, <3>1, HearingOthers DEF HearInv
  <2> QED BY <2>1, <2>2
<1> QED BY <1>1, <1>2, <1>3, <1>4, <1>5 DEF Next, Tool

LEMMA CursorSaved ==
    ASSUME [Next]_vars, cursor' # cursor
    PROVE  SaveCursor
<1>1. ~Act
  BY ActKeeps
<1>2. ~(Environment \/ UNCHANGED vars)
  BY DEF Environment, Save, Delete, OtherWrites, OtherTrashes, Crash, vars
<1>3. CASE Pass
  BY <1>3 DEF Pass, Start, Scan, ScanSkips, HoldCollapse, Tip, Walk, Changes,
     ProbeFinds, ProbeSkips, Diff, DiffBlind, Execute, NothingToDo, Defer,
     BulkDeleteAbort
<1> QED BY <1>1, <1>2, <1>3 DEF Next, Tool, Act

LEMMA HeededStep ==
    ASSUME Attentive, TypeOK, HearInv, [Next]_vars, Hearing', Numbers'
    PROVE  Heeded(obj', rec', cursor')
<1>0. /\ cursor \in Nat /\ cursor <= rev
      /\ obj \in [ObjId -> [st : {"none", "live", "trash"}, ver : Nat,
                            c : Content \cup {None}, rev : Nat]]
  BY DEF TypeOK, TypeStore, TypeDrive, HearInv, Numbers
<1>1. CASE SaveCursor
  <2>1. cursor' = view.next /\ UNCHANGED <<obj, rec>> /\ Settled /\ pc = "save"
    BY <1>1 DEF SaveCursor, HearInv, Hearing
  <2> QED BY <2>1 DEF Settled, Waits, Heeded, KnownBy, Unbased, Upto
<1>2. CASE ~SaveCursor /\ RowStays
  <2>1. cursor' = cursor
    BY <1>2, CursorSaved
  <2>2. Heeded(obj', rec', cursor)
    BY <1>0, <1>2, DriveStep, HeededKept DEF HearInv
  <2> QED BY <2>1, <2>2
<1>3. CASE ~SaveCursor /\ ~RowStays
  <2>1. pc' \in {"copy", "save"} /\ UNCHANGED obj
    BY <1>3, RowActs DEF RecordUpload, RecordUnhashed, RecordDownload, TouchBase,
       BeginRemoteTrash, CommitTrash, Forget, RowStays
  <2>2. \A o \in Upto(obj', view'.next) : KnownBy(rec', obj', o) \/ Unbased(rec')
    BY <2>1 DEF Hearing, Settled, Waits
  <2>3. cursor' <= view'.next
    BY <2>1 DEF Numbers
  <2>4. cursor' \in Nat /\ view'.next \in Nat
    BY TypeStep DEF TypeOK, TypeStore, TypeSeen, View
  <2>5. \A o \in Upto(obj', cursor') : o \in Upto(obj', view'.next)
    BY <1>0, <2>1, <2>3, <2>4 DEF Upto
  <2> QED BY <2>2, <2>5 DEF Heeded
<1> QED BY <1>1, <1>2, <1>3

LEMMA HearStep == ASSUME Attentive PROVE TypeOK /\ HearInv /\ [Next]_vars => HearInv'
<1> SUFFICES ASSUME TypeOK, HearInv, [Next]_vars PROVE HearInv'
  OBVIOUS
<1>1. LiveOne' /\ Written' /\ Last'
  BY DriveStep, LiveOneKept, WrittenStep, LastStep DEF HearInv
<1>2. Rows' /\ Numbers' /\ Ghost'
  BY RowsStep, NumbersStep, GhostStep DEF HearInv
<1>3. (Exact => Measured /\ Parted)'
  BY MeasuredStep, PartedStep DEF HearInv, Exact
<1>4. Still' /\ Views' /\ Fits'
  BY StillStep, ViewsStep, FitsStep DEF HearInv
<1>5. Hearing'
  BY HearingStep
<1>6. Heeded(obj, rec, cursor)'
  BY <1>2, <1>5, HeededStep
<1> QED BY <1>1, <1>2, <1>3, <1>4, <1>5, <1>6 DEF HearInv

LEMMA HearInit == Init => HearInv
<1> SUFFICES ASSUME Init PROVE HearInv
  OBVIOUS
<1>0. /\ pc = "idle" /\ view = NoView /\ entry = NoEntry /\ mode = NoMode /\ ~unobs
      /\ got = None
  BY DEF Init
<1>1. LiveOne /\ Written
  BY UpInit, ForkInit DEF UpInv, ForkInv
<1>2. Still /\ Views /\ Fits /\ Hearing
  BY <1>0 DEF NoView, NoRemote, NoMode, Seen, Still, Scanned, Views, Fits, Touching, Hearing,
     Heard, InHand, Taking, Noted, Settled, Nothing, Over
<1>3. CASE InitEmpty
  <2>1. rec = NoRow /\ rev = 0 /\ cursor = 0 /\ LiveIds = {} /\ obj = [o \in ObjId |-> NoObject]
    BY <1>3 DEF InitEmpty, NoObject, LiveIds, Live
  <2>2. Rows /\ Ghost /\ Last /\ Heeded(obj, rec, cursor)
    BY <2>1 DEF Rows, Ghost, NoRow, Last, Live, NoObject, Heeded, Upto
  <2>3. Numbers /\ Measured /\ Parted
    BY <1>0, <2>1 DEF Numbers, Measured, Parted, Apart, Touching, NoView, NoRow, NoObject
  <2> QED BY <1>1, <1>2, <2>2, <2>3 DEF HearInv
<1>4. CASE InitSynced \/ InitRecorded
  <2>1. PICK o \in ObjId, c \in Content :
          /\ OneObject(o, c) /\ typed \subseteq Content /\ c \in typed
          /\ rec.id = o /\ rec.rver = 0
          /\ \/ rec.lc = None /\ rec.st = "pending_download"
             \/ rec.lc = c /\ rec.st = "synced" /\ rec.rsz = Size[c]
    BY <1>4, NoneAssumption DEF InitSynced, InitRecorded
  <2>2. /\ obj = [x \in ObjId |-> IF x = o
                THEN [st |-> "live", ver |-> 0, c |-> c, rev |-> 1]
                ELSE NoObject]
        /\ rev = 1 /\ cursor = 1
    BY <2>1 DEF OneObject
  <2>3. LiveIds = {o} /\ obj[o].ver = 0
    BY <2>2 DEF LiveIds, Live, NoObject
  <2>4. Rows /\ Ghost /\ Heeded(obj, rec, cursor)
    BY <2>1, <2>3, NoneAssumption DEF Rows, Ghost, Marked, Heeded, Upto, KnownBy, LiveIds, Live
  <2>5. Numbers /\ Measured
    BY <1>0, <2>1, <2>2 DEF Numbers, Measured, NoView
  <2>6. Last /\ Parted
    BY <1>0, <2>1, <2>2 DEF Last, Live, Parted, Apart, Touching, NoObject
  <2> QED BY <1>1, <1>2, <2>4, <2>5, <2>6 DEF HearInv
<1> QED BY <1>3, <1>4 DEF Init

LEMMA HearAlways == ASSUME Attentive PROVE Spec => []HearInv
BY HearInit, HearStep, TypeCorrect, PTL DEF Spec

(* The saved cursor is honest in every state, between passes and within    *)
(* one: every file the drive holds whose last change it has passed is the  *)
(* file of the row, in the recorded version or marked to be asked for;     *)
(* only a row that never had its file, and so takes part in no sync until  *)
(* `dsync reconcile` or a download gives it one, may name another          *)
(* (cli/main.py, _save_cursor; remote.py, the delta; executor.py).         *)
THEOREM CursorIsHonest == ASSUME Attentive PROVE Spec => []Heeded(obj, rec, cursor)
<1>1. HearInv => Heeded(obj, rec, cursor)
  BY DEF HearInv
<1> QED BY <1>1, HearAlways, PTL

(* So no pass that saves the cursor leaves a change of the drive behind    *)
(* it, unrecorded: the feed would never mention it again.                  *)
THEOREM NothingIsMissed == ASSUME Attentive PROVE Spec => NoMissedChange
<1>1. TypeOK /\ HearInv /\ [Next]_vars =>
        [cursor' # cursor => \A o \in LiveIds : obj[o].rev <= cursor' =>
            \/ rec.id = o /\ rec.rver = obj[o].ver
            \/ rec.id = o /\ Dirty
            \/ NeedsReconcile]_vars
  <2> SUFFICES ASSUME HearInv, Next, cursor' # cursor,
                      NEW o \in LiveIds, obj[o].rev <= cursor'
               PROVE  \/ rec.id = o /\ (rec.rver = obj[o].ver \/ Dirty)
                      \/ NeedsReconcile
    OBVIOUS
  <2>1. pc = "save" /\ cursor' = view.next
    BY CursorSaved DEF SaveCursor
  <2>2. o \in Upto(obj, view.next) /\ o # None
    BY <2>1, NoneAssumption DEF Upto, LiveIds, Live
  <2>3. KnownBy(rec, obj, o) \/ Waits
    BY <2>1, <2>2 DEF HearInv, Hearing, Settled
  <2> QED
    BY <2>1, <2>2, <2>3 DEF KnownBy, Marked, Dirty, Waits, Unbased, NeedsReconcile,
       HasBaseline
<1> QED
  BY <1>1, HearAlways, TypeCorrect, PTL DEF Spec, NoMissedChange
=============================================================================
