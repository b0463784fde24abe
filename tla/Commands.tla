------------------------------ MODULE Commands ------------------------------
(***************************************************************************)
(* The commands a person types beside `dsync sync`: push, pull, reconcile, *)
(* resolve and init (cli/main.py), around one file and its conflict copy.  *)
(* They share the base with sync and each changes it in a way of its own,  *)
(* so what matters is any sequence of them, with saves, other PCs and      *)
(* failures between their steps.                                           *)
(*                                                                         *)
(* A sync pass is one step here (FileSync.tla takes it apart), decided by  *)
(* the same Differ!Decide.  The instants between a check and the effect it *)
(* guards are FileSync's windows and belong to one step too.  `init` takes *)
(* no instance lock: passes may run between its steps.                     *)
(*                                                                         *)
(* Left out: folders, moves and names; a second conflict copy keeps its    *)
(* own name and leaves the model (aside).                                  *)
(***************************************************************************)
EXTENDS Differ, FiniteSets

CONSTANTS
    Content,        \* the bytes a file may hold
    Size,           \* Content -> size in bytes
    ObjId,          \* file ids the server hands out, never twice
    Stamp,          \* modification times
    MaxEnv,         \* bound: acts of users, other PCs and failures
    Starts,         \* what profiles begin with: <<bytes here, bytes on the drive>>
    Options,        \* the commands and options in use
    Faults,         \* the failures that may happen
    SavePoints,     \* the control points at which the user may save
    OtherPoints,    \* the control points at which other PCs may write
    Trashers        \* may other PCs move files to the trash?

Slot == {"orig", "copy"}

(* Each command with the option that changes what it does.                 *)
Option == {"sync", "push", "push newer", "pull", "reconcile",
           "reconcile size", "both", "local", "remote", "init", "init force"}

Pc == {"idle", "plan", "index", "send", "again", "commit",
       "walk", "check", "fetch", "place", "match", "compare", "verify", "ask",
       "drop", "bin", "back", "row", "rows", "tip"}

FaultKind == {"crash", "item", "transfer", "lost", "hash", "trash", "recycle"}

ASSUME NoneAssumption == /\ None \notin Content /\ None \notin ObjId
                         /\ None \notin Stamp /\ None \notin Nat
ASSUME SizeAssumption == Size \in [Content -> Nat]
ASSUME SomeAssumption == ObjId # {} /\ Stamp # {}
ASSUME ChoiceAssumption ==
    /\ Starts \subseteq (Content \cup {None}) \X (Content \cup {None})
    /\ Options \subseteq Option /\ Faults \subseteq FaultKind
    /\ SavePoints \subseteq Pc /\ OtherPoints \subseteq Pc
    /\ Trashers \in BOOLEAN /\ MaxEnv \in Nat

VARIABLES
    w,          \* folder, database and drive: [disk, bin, aside, rec, obj, rev, shown]
    cursor,     \* the saved changes cursor
    settled,    \* has a sync pass of this profile ended (META_LAST_SYNC_AT)?
    listed,     \* is the conflict of the file unresolved in the conflicts table?
    typed,      \* bytes ever written by anyone (a history variable)
    due,        \* what resolve promised of the next sync (a history variable)
    left,       \* acts left to users, other PCs and failures
    pc,         \* where the running command is
    opt,        \* the command
    snap,       \* the scan: Slot -> entry
    view,       \* the walk: Slot -> remote entry
    todo,       \* the files still to be dealt with
    hold        \* the item in hand: [p, id, ver, mt, sz, c]

volat == <<pc, opt, snap, view, todo, hold>>
saved == <<cursor, settled, listed>>
vars  == <<w, saved, typed, due, left, volat>>

NoFile   == [c |-> None, mt |-> None]
NoObject == [st |-> "none", at |-> "orig", ver |-> 0, c |-> None, rev |-> 0]
NoHold   == [p |-> "orig", id |-> None, ver |-> None, mt |-> None, sz |-> None, c |-> None]
NoSnap   == [p \in Slot |-> NoEntry]
NoSight  == [p \in Slot |-> NoRemote]
NothingDue == [orig |-> None, copy |-> None]

SizeOf(c) == IF c = None THEN None ELSE Size[c]

InUse == {w.disk[p].mt : p \in Slot} \cup {w.rec[p].lmt : p \in Slot}
         \cup {snap[p].mt : p \in Slot} \cup {hold.mt}
FreshStamp(p) ==
    LET free == Stamp \ InUse
        one  == CHOOSE m \in free : TRUE
    IN  IF p = "orig" THEN one ELSE CHOOSE m \in free \ {one} : TRUE

(* Bound: two ids and two stamps are left for what a step can make.        *)
Several(S) == ~\A a, b \in S : a = b
Roomy == Several({o \in ObjId : w.obj[o].st = "none"}) /\ Several(Stamp \ InUse)

Fault(f) == f \in Faults /\ left > 0
Spend    == left' = left - 1
Goto(p)  == pc' = p

-----------------------------------------------------------------------------
(* The drive, as every command sees it.                                    *)
LiveAt(s, p) == {o \in ObjId : s.obj[o].st = "live" /\ s.obj[o].at = p}
LiveIn(s, o) == o # None /\ s.obj[o].st = "live"
Fresh(s)     == CHOOSE o \in ObjId : s.obj[o].st = "none"
MayPost(s)   == \E o \in ObjId : s.obj[o].st = "none"
BytesOf(s, o) == IF LiveIn(s, o) THEN s.obj[o].c ELSE None

(* The names of a folder are unique on the drive.                          *)
Listing(s, p) ==
    IF LiveAt(s, p) = {} THEN NoRemote
    ELSE LET o == CHOOSE o \in LiveAt(s, p) : TRUE
         IN  [id |-> o, ver |-> s.obj[o].ver, sz |-> Size[s.obj[o].c], c |-> None]

Stored(s, o, p, v, c) ==
    [s EXCEPT !.rev = @ + 1,
              !.obj[o] = [st |-> "live", at |-> p, ver |-> v, c |-> c,
                          rev |-> s.rev + 1],
              !.shown = @ \cup {[id |-> o, ver |-> v, c |-> c]}]

NewVersion(s, o, c) == Stored(s, o, s.obj[o].at, s.obj[o].ver + 1, c)
NewFile(s, p, c)    == Stored(s, Fresh(s), p, 0, c)

Trashed(s, o) ==
    IF ~LiveIn(s, o) THEN s
    ELSE [s EXCEPT !.rev = @ + 1,
                   !.obj[o] = [@ EXCEPT !.st = "trash", !.rev = s.rev + 1]]

(* The folder and the base.                                                *)
EntryAt(s, p) == [mt |-> s.disk[p].mt, sz |-> SizeOf(s.disk[p].c), c |-> None]
SameStat(s, p, e) == s.disk[p].mt = e.mt /\ SizeOf(s.disk[p].c) = e.sz

RowOf(id, mt, sz, md5, ver, rsz, st) ==
    [id |-> id, lmt |-> mt, lsz |-> sz, lc |-> md5, rver |-> ver, rsz |-> rsz,
     rc |-> md5, st |-> st]

Recorded(s, p, row) == [s EXCEPT !.rec[p] = row]
Marked(s, p, status) == [s EXCEPT !.rec[p].st = status]

(* _record_error: an existing row keeps its base.                          *)
Erred(s, p) == Marked(s, p, "error")

Binned(s, p) == [s EXCEPT !.bin = @ \cup ({s.disk[p].c} \ {None}),
                          !.disk[p] = NoFile]

Downloaded(s, p, r, c, m) ==
    [s EXCEPT !.disk[p] = [c |-> c, mt |-> m],
              !.rec[p] = RowOf(r.id, m, Size[c], c, r.ver, r.sz, "synced")]

(* A conflict copy has a new name: whatever has the name of the slot leaves *)
(* the model with its row and its drive file.                              *)
SetAside(s, p) ==
    LET free == [s EXCEPT !.aside = @ \cup ({s.disk.copy.c} \ {None}),
                          !.rec.copy = NoRow,
                          !.disk.copy = s.disk.orig,
                          !.obj = [o \in ObjId |->
                              IF s.obj[o].at = "copy"
                              THEN [s.obj[o] EXCEPT !.at = "away"] ELSE s.obj[o]]]
    IN  IF p = "copy" THEN [s EXCEPT !.aside = @ \cup ({s.disk.copy.c} \ {None}),
                                     !.disk.copy = NoFile]
        ELSE [free EXCEPT !.disk.orig = NoFile]

-----------------------------------------------------------------------------
(* sync: one pass over the file and its copy.                              *)
Heard(s, p) == {o \in LiveAt(s, p) : s.obj[o].rev > cursor}
Asked(s, p) == /\ s.rec[p].id # None
               /\ s.rec[p].st # "synced" \/ s.disk[p].c = None
               /\ s.rec[p].id \in LiveAt(s, p)

Sees(s, p, full) ==
    IF full \/ (Asked(s, p) /\ Heard(s, p) = {}) THEN Listing(s, p)
    ELSE IF Heard(s, p) = {} THEN NoRemote
    ELSE [Listing(s, p) EXCEPT !.c = s.obj[Listing(s, p).id].c]

Tombstone(s, p) == /\ s.rec[p].id # None /\ Heard(s, p) = {}
                   /\ s.obj[s.rec[p].id].st = "trash"
                   /\ s.obj[s.rec[p].id].rev > cursor

Decision(s, p, full, r) ==
    Decide(s.rec[p], EntryAt(s, p), r, FALSE, ~full /\ Tombstone(s, p), full, TRUE,
           s.disk[p].c, BytesOf(s, r.id))

(* upload withdraws before a file or a version this PC does not know.      *)
Uploaded(s, p) ==
    LET r == Listing(s, p)
        e == EntryAt(s, p)
        c == s.disk[p].c
    IN  IF r.id = None
        THEN LET t == NewFile(s, p, c)
             IN  Recorded(t, p, RowOf(Fresh(s), e.mt, e.sz, c, 0, e.sz, "synced"))
        ELSE IF r.id # s.rec[p].id \/ (s.rec[p].rver # None /\ r.ver > s.rec[p].rver)
        THEN Marked(s, p, "pending_upload")
        ELSE Recorded(NewVersion(s, r.id, c), p,
                      RowOf(r.id, e.mt, e.sz, c, r.ver + 1, e.sz, "synced"))

Copied(s, p, r) ==
    LET t == Downloaded(SetAside(s, p), p, r, s.obj[r.id].c, FreshStamp(p))
    IN  IF p = "copy" THEN t ELSE Uploaded(t, "copy")

Acted(s, p, k, r) ==
    CASE k \in {"UPLOAD_NEW", "UPLOAD_VERSION"} -> Uploaded(s, p)
      [] k \in {"DOWNLOAD_NEW", "DOWNLOAD_UPDATE"} ->
             Downloaded(s, p, r, s.obj[r.id].c, FreshStamp(p))
      [] k = "CONFLICT"     -> Copied(s, p, r)
      [] k = "LOCAL_TRASH"  -> Recorded(Binned(s, p), p, NoRow)
      [] k = "REMOTE_TRASH" -> Recorded(Trashed(s, s.rec[p].id), p, NoRow)
      [] k = "FORGET"       -> Recorded(s, p, NoRow)
      [] k = "TOUCH_BASE"   ->
             Recorded(s, p, RowOf(r.id, s.disk[p].mt, SizeOf(s.disk[p].c),
                                  s.disk[p].c, r.ver, r.sz, "synced"))
      [] OTHER -> s

(* An item that fails is marked, with the id of its decision.              *)
Spoilt(s, p, k, r) ==
    IF k \notin Acting THEN s
    ELSE Erred([s EXCEPT !.rec[p].id =
                    IF s.rec[p].st = "none" THEN r.id ELSE @], p)

Step(s, p, k, r, bad) == IF p \in bad THEN Spoilt(s, p, k[p], r[p])
                         ELSE Acted(s, p, k[p], r[p])

(* The first pass of a profile is a full one (_decide_full_pass).  The     *)
(* decisions are taken before the first action.                            *)
SyncPass(full, bad) ==
    /\ pc \in {"idle", "rows", "tip"} /\ "sync" \in Options /\ Roomy
    /\ settled \/ full
    /\ IF bad = {} THEN UNCHANGED left ELSE Fault("item") /\ Spend
    /\ \E r \in {[p \in Slot |-> Sees(w, p, full)]} :
       \E k \in {[p \in Slot |-> Decision(w, p, full, r[p])]} :
       \E mid \in {Step(w, "copy", k, r, bad)} :
          /\ w' = Step(mid, "orig", k, r, bad)
          /\ listed' = (listed \/ (k.orig = "CONFLICT" /\ "orig" \notin bad))
    /\ cursor' = w.rev /\ settled' = TRUE
    /\ due' = IF bad = {} THEN NothingDue
              ELSE IF listed' # listed THEN [due EXCEPT !.copy = None] ELSE due
    /\ UNCHANGED <<typed, volat>>

Sync == \E full \in BOOLEAN, bad \in SUBSET Slot : SyncPass(full, bad)

-----------------------------------------------------------------------------
(* How a command begins and ends.                                          *)
AtRest ==
    /\ pc' = "idle" /\ opt' = "sync" /\ snap' = NoSnap /\ view' = NoSight
    /\ todo' = {} /\ hold' = NoHold

Begin(o, p) == /\ pc = "idle" /\ o \in Options
               /\ opt' = o /\ Goto(p)

ScanBoth == snap' = [p \in Slot |-> EntryAt(w, p)]

(* The next item of the list, or the end of the command.                   *)
NextItem(p, at) ==
    IF todo = {p} THEN AtRest
    ELSE /\ todo' = todo \ {p} /\ Goto(at) /\ hold' = NoHold
         /\ UNCHANGED <<opt, snap, view>>

ItemFails(p, at) == w' = Erred(w, p) /\ NextItem(p, at)

(* What hashing the files of the scan returns: the bytes of now; those in  *)
(* blind are locked.                                                       *)
Hashed(p, blind) == IF p \in blind THEN None ELSE w.disk[p].c

Unhashed(needed, blind) ==
    IF blind = {} THEN UNCHANGED left
    ELSE /\ blind \subseteq {p \in Slot : needed[p]} /\ Fault("hash") /\ Spend

-----------------------------------------------------------------------------
(* push.                                                                   *)
StartPush == \E o \in {"push", "push newer"} :
    /\ Begin(o, "plan") /\ ScanBoth
    /\ UNCHANGED <<w, saved, typed, due, left, view, todo, hold>>

Unchanged(rec, e) == rec.id # None /\ MetaSame(rec, e)

(* Files without a baseline are held back, but only where the base knows   *)
(* that the drive has them.                                                *)
HeldBack(rec) == rec.id # None /\ rec.lc = None /\ opt # "push newer"

Pushes(rec, e, md5) == /\ Here(e) /\ ~Unchanged(rec, e) /\ md5 # None
                       /\ ~HeldBack(rec)

PlanPush == \E blind \in SUBSET Slot :
    LET hashes == [p \in Slot |-> Here(snap[p]) /\ ~Unchanged(w.rec[p], snap[p])]
        items  == {p \in Slot : Pushes(w.rec[p], snap[p], Hashed(p, blind))}
    IN  /\ pc = "plan" /\ Unhashed(hashes, blind)
        /\ w' = [w EXCEPT !.rec = [p \in Slot |->
                    IF hashes[p] /\ Hashed(p, blind) = None
                    THEN [w.rec[p] EXCEPT !.st = "error"] ELSE w.rec[p]]]
        /\ IF items = {} THEN AtRest
           ELSE /\ todo' = items /\ Goto("index")
                /\ snap' = [p \in Slot |-> IF p \in items
                        THEN [snap[p] EXCEPT !.c = Hashed(p, blind)] ELSE snap[p]]
                /\ UNCHANGED <<opt, view, hold>>
        /\ UNCHANGED <<saved, typed, due>>

(* The parent folder is listed once and remembered (_dir_index), until a   *)
(* 409 shows that it is out of date (_forget_index).                       *)
LoadIndex ==
    /\ pc = "index" /\ Goto("send")
    /\ view' = [p \in Slot |-> Listing(w, p)]
    /\ UNCHANGED <<w, saved, typed, due, left, opt, snap, todo, hold>>

(* The bytes are those of the scanned baseline: no transfer.               *)
OnlyTouched(p) == w.rec[p].id # None /\ w.rec[p].lc = snap[p].c

Touch(p) ==
    /\ pc = "send" /\ OnlyTouched(p)
    /\ w' = Recorded(w, p, [w.rec[p] EXCEPT !.lmt = snap[p].mt, !.lsz = snap[p].sz,
                                            !.st = "synced"])
    /\ NextItem(p, "send")
    /\ UNCHANGED <<saved, typed, due, left>>

InHand(p, id, ver) == hold' = [NoHold EXCEPT !.p = p, !.id = id, !.ver = ver]

PutOnto(p, o) ==
    /\ w' = NewVersion(w, o, w.disk[p].c)
    /\ InHand(p, o, w.obj[o].ver + 1) /\ Goto("commit")
    /\ UNCHANGED <<opt, snap, todo>>

(* Mutation: the file is not opened before the request.                    *)
SendVanished(p) ==
    /\ pc = "send" /\ ~OnlyTouched(p) /\ view[p].id # None
    /\ IF LiveIn(w, view[p].id) THEN PutOnto(p, view[p].id) /\ UNCHANGED view
       ELSE ItemFails(p, "send")
    /\ UNCHANGED <<saved, typed, due, left>>

(* Where the index has the name: a new version, whatever version it has.   *)
SendVersion(p) ==
    /\ pc = "send" /\ ~OnlyTouched(p) /\ view[p].id # None
    /\ IF w.disk[p].c # None /\ LiveIn(w, view[p].id)
       THEN PutOnto(p, view[p].id) /\ UNCHANGED view ELSE ItemFails(p, "send")
    /\ UNCHANGED <<saved, typed, due, left>>

(* Where it has not: a new file, unless the drive answers 409.             *)
SendNew(p) ==
    /\ pc = "send" /\ ~OnlyTouched(p) /\ view[p].id = None
    /\ IF w.disk[p].c = None THEN ItemFails(p, "send")
       ELSE IF LiveAt(w, p) # {}
       THEN /\ InHand(p, None, None) /\ Goto("again")
            /\ UNCHANGED <<w, opt, snap, view, todo>>
       ELSE /\ MayPost(w) /\ w' = NewFile(w, p, w.disk[p].c)
            /\ InHand(p, Fresh(w), 0) /\ Goto("commit")
            /\ UNCHANGED <<opt, snap, view, todo>>
    /\ UNCHANGED <<saved, typed, due, left>>

(* After a 409: a new version of what is there now.  The index is dropped  *)
(* and listed again, here after the upload, or for the next file.          *)
SendAgain ==
    /\ pc = "again"
    /\ IF w.disk[hold.p].c # None /\ LiveAt(w, hold.p) # {}
       THEN /\ PutOnto(hold.p, Listing(w, hold.p).id)
            /\ view' = [p \in Slot |-> Listing(w', p)]
       ELSE ItemFails(hold.p, "index")
    /\ UNCHANGED <<saved, typed, due, left>>

(* Mutation: the row gets the stat of after the transfer.                  *)
CommitLatest ==
    LET e == IF w.disk[hold.p].c = None THEN snap[hold.p] ELSE EntryAt(w, hold.p)
    IN  /\ pc = "commit"
        /\ w' = Recorded(w, hold.p, RowOf(hold.id, e.mt, e.sz, snap[hold.p].c,
                                         hold.ver, e.sz, "synced"))
        /\ NextItem(hold.p, "send")
        /\ UNCHANGED <<saved, typed, due, left>>

(* The stat after the transfer decides whether the row is settled.         *)
CommitPush ==
    LET p     == hold.p
        moved == w.disk[p].c # None /\ ~SameStat(w, p, snap[p])
    IN  /\ pc = "commit"
        /\ w' = Recorded(w, p, RowOf(hold.id, snap[p].mt, snap[p].sz, snap[p].c,
                    hold.ver, snap[p].sz, IF moved THEN "pending_upload" ELSE "synced"))
        /\ NextItem(p, "send")
        /\ UNCHANGED <<saved, typed, due, left>>

(* The drive has the file, the answer is lost.                             *)
PushAnswerLost(p) ==
    /\ pc = "send" /\ ~OnlyTouched(p) /\ w.disk[p].c # None
    /\ Fault("lost") /\ Spend
    /\ \/ /\ LiveIn(w, view[p].id)
          /\ w' = Erred(NewVersion(w, view[p].id, w.disk[p].c), p)
       \/ /\ view[p].id = None /\ LiveAt(w, p) = {} /\ MayPost(w)
          /\ w' = Erred(NewFile(w, p, w.disk[p].c), p)
    /\ NextItem(p, "send")
    /\ UNCHANGED <<saved, typed, due>>

Push == \/ StartPush \/ PlanPush \/ LoadIndex \/ SendAgain \/ CommitPush
        \/ \E p \in todo : \/ Touch(p) \/ SendVersion(p) \/ SendNew(p)
                           \/ PushAnswerLost(p)

-----------------------------------------------------------------------------
(* pull.                                                                   *)
StartPull ==
    /\ Begin("pull", "walk") /\ ScanBoth
    /\ UNCHANGED <<w, saved, typed, due, left, view, todo, hold>>

(* A file the base does not know is as good as edited.                     *)
LocalModified(rec, e, md5) ==
    \/ rec.lc = None
    \/ ~MetaSame(rec, e) /\ md5 # rec.lc

SameRemote(rec, r) == rec.rver = r.ver /\ (rec.rsz = None \/ rec.rsz = r.sz)

(* The same drive file under another path of the base.                     *)
Twin(p, r) == \E q \in Slot \ {p} : w.rec[q].id = r.id

Pulls(p, r, md5) ==
    /\ Seen(r)
    /\ IF Here(snap[p])
       THEN ~LocalModified(w.rec[p], snap[p], md5) /\ ~SameRemote(w.rec[p], r)
       ELSE ~Twin(p, r)

PlanPull == \E blind \in SUBSET Slot :
    LET seen   == [p \in Slot |-> Listing(w, p)]
        hashes == [p \in Slot |-> /\ Here(snap[p]) /\ Seen(seen[p])
                                  /\ w.rec[p].lc # None
                                  /\ ~MetaSame(w.rec[p], snap[p])]
        items  == {p \in Slot : Pulls(p, seen[p], Hashed(p, blind))}
    IN  /\ pc = "walk" /\ opt = "pull" /\ Unhashed(hashes, blind)
        /\ IF items = {} THEN AtRest
           ELSE /\ todo' = items /\ view' = seen /\ Goto("check")
                /\ UNCHANGED <<opt, snap, hold>>
        /\ UNCHANGED <<w, saved, typed, due>>

(* Before the transfer: as scanned, or gone since.                         *)
AsScanned(p) == IF Here(snap[p])
                THEN w.disk[p].c = None \/ SameStat(w, p, snap[p])
                ELSE w.disk[p].c = None

CheckPull(p) ==
    /\ pc = "check"
    /\ IF AsScanned(p)
       THEN /\ hold' = [NoHold EXCEPT !.p = p, !.mt = w.disk[p].mt,
                                      !.sz = SizeOf(w.disk[p].c)]
            /\ Goto("fetch") /\ UNCHANGED <<opt, snap, view, todo>>
       ELSE NextItem(p, "check")
    /\ UNCHANGED <<w, saved, typed, due, left>>

(* The bytes of now, in the size of the walk.                              *)
Fetch ==
    LET p == hold.p
        c == BytesOf(w, view[p].id)
    IN  /\ pc = "fetch"
        /\ IF c # None /\ SizeOf(c) = view[p].sz
           THEN /\ hold' = [hold EXCEPT !.c = c] /\ Goto("place")
                /\ UNCHANGED <<w, opt, snap, view, todo>>
           ELSE ItemFails(p, "check")
        /\ UNCHANGED <<saved, typed, due, left>>

(* Mutation: no guard.                                                     *)
Unwatched(p) == TRUE

(* pre_replace_guard, then os.replace and the row.                         *)
StillThere(p) == w.disk[p].mt = hold.mt /\ SizeOf(w.disk[p].c) = hold.sz

Place ==
    /\ pc = "place" /\ Roomy
    /\ w' = IF StillThere(hold.p)
            THEN Downloaded(w, hold.p, view[hold.p], hold.c, FreshStamp(hold.p)) ELSE w
    /\ NextItem(hold.p, "check")
    /\ UNCHANGED <<saved, typed, due, left>>

TransferFails ==
    /\ \/ pc = "fetch" /\ ItemFails(hold.p, "check")
       \/ pc = "again" /\ ItemFails(hold.p, "index")
       \/ \E p \in todo : pc = "send" /\ ~OnlyTouched(p) /\ ItemFails(p, "send")
    /\ Fault("transfer") /\ Spend
    /\ UNCHANGED <<saved, typed, due>>

Pull == StartPull \/ PlanPull \/ Fetch \/ Place \/ \E p \in todo : CheckPull(p)

-----------------------------------------------------------------------------
(* reconcile.                                                              *)
Target(p) == Here(snap[p]) /\ w.rec[p].id # None /\ w.rec[p].lc = None
Orphan(p) == Here(snap[p]) /\ w.rec[p].id = None /\ w.rec[p].lc = None

StartReconcile == \E o \in {"reconcile", "reconcile size"} :
    /\ Begin(o, "match") /\ ScanBoth
    /\ UNCHANGED <<w, saved, typed, due, left, view, todo, hold>>

(* The counterpart of a file is the one of its row, or else the one a walk *)
(* of the drive finds under its name.                                      *)
Match ==
    LET items == {p \in Slot : Target(p) \/ (Orphan(p) /\ Seen(Listing(w, p)))}
    IN  /\ pc = "match"
        /\ IF items = {} THEN AtRest
           ELSE /\ todo' = items /\ Goto("compare")
                /\ view' = [p \in Slot |->
                     IF Target(p) THEN [id |-> w.rec[p].id, ver |-> w.rec[p].rver,
                                        sz |-> w.rec[p].rsz, c |-> None]
                     ELSE Listing(w, p)]
                /\ UNCHANGED <<opt, snap, hold>>
        /\ UNCHANGED <<w, saved, typed, due, left>>

(* --trust-size compares the size of the row instead of the bytes.         *)
BySize(p) == opt = "reconcile size"
OtherSize(p) == BySize(p) /\ view[p].sz # None /\ view[p].sz # snap[p].sz

(* Mutation: the file is hashed again for the row.                         *)
HashedAgain(p, md5) == RowOf(view[p].id, snap[p].mt, snap[p].sz, w.disk[p].c,
                             view[p].ver, snap[p].sz, "synced")

(* The row: the scan's stat, and the hash that was compared.               *)
Baselined(p, md5) == RowOf(view[p].id, snap[p].mt, snap[p].sz, md5, view[p].ver,
                           snap[p].sz, "synced")

(* The files still to be compared.  One that differs stays in the list     *)
(* without its counterpart, until all are compared and the person is asked. *)
Pending == {p \in todo : Seen(view[p])}

Compared(p, rest) ==
    IF rest = {} THEN AtRest
    ELSE /\ todo' = rest /\ view' = [view EXCEPT ![p] = NoRemote] /\ hold' = NoHold
         /\ Goto(IF Pending = {p} THEN "ask" ELSE "compare")
         /\ UNCHANGED <<opt, snap>>

Same(p, md5) == w' = Recorded(w, p, Baselined(p, md5)) /\ Compared(p, todo \ {p})
Differs(p)   == w' = w /\ Compared(p, todo)
Failed(p)    == w' = w /\ Compared(p, todo \ {p})

(* The file is hashed as it is now, then the drive's as it is by then.     *)
HashTarget(p) ==
    LET md5 == w.disk[p].c
    IN  /\ pc = "compare"
        /\ IF OtherSize(p) THEN Differs(p)
           ELSE IF md5 = None THEN Failed(p)
           ELSE IF BySize(p) THEN Same(p, md5)
           ELSE /\ hold' = [NoHold EXCEPT !.p = p, !.c = md5] /\ Goto("verify")
                /\ UNCHANGED <<w, opt, snap, view, todo>>
        /\ UNCHANGED <<saved, typed, due, left>>

CompareTarget ==
    LET p == hold.p
        c == BytesOf(w, view[p].id)
    IN  /\ pc = "verify"
        /\ IF c = None THEN Failed(p)
           ELSE IF c = hold.c THEN Same(p, c) ELSE Differs(p)
        /\ UNCHANGED <<saved, typed, due, left>>

(* The file is locked, or the drive's cannot be downloaded.                *)
CompareFails ==
    /\ \/ \E p \in Pending : pc = "compare" /\ ~OtherSize(p) /\ Failed(p)
       \/ pc = "verify" /\ Failed(hold.p)
    /\ Fault("hash") /\ Spend
    /\ UNCHANGED <<saved, typed, due>>

(* The person is asked about each file that differs: 2 makes room for the  *)
(* drive's file, 3 leaves it; 1 is blocked.                                *)
AskRemote(p) ==
    /\ pc = "ask" /\ NextItem(p, "ask")
    /\ w' = IF w.disk[p].c # None THEN SetAside(w, p) ELSE w
    /\ due' = NothingDue
    /\ UNCHANGED <<saved, typed, left>>

AskSkip(p) ==
    /\ pc = "ask" /\ NextItem(p, "ask")
    /\ UNCHANGED <<w, saved, typed, due, left>>

Reconcile == \/ StartReconcile \/ Match \/ CompareTarget \/ CompareFails
             \/ \E p \in Pending : HashTarget(p)
             \/ \E p \in todo : AskRemote(p) \/ AskSkip(p)

-----------------------------------------------------------------------------
(* resolve.                                                                *)
Closed == listed' = FALSE /\ UNCHANGED <<cursor, settled>>

ResolveBoth ==
    /\ pc = "idle" /\ listed /\ Closed
    /\ \/ "both" \in Options
       \/ {"local", "remote"} \cap Options # {} /\ w.disk.copy.c = None
    /\ UNCHANGED <<w, typed, due, left, volat>>

StartResolve == \E o \in {"local", "remote"} :
    /\ listed /\ w.disk.copy.c # None
    /\ Begin(o, "drop")
    /\ UNCHANGED <<w, saved, typed, due, left, snap, view, todo, hold>>

(* The drive's file of the copy goes first; that it could not be moved to  *)
(* the trash is only said.  Its row goes either way.                       *)
DropRemoteCopy == \E ok \in BOOLEAN :
    LET row  == w.rec.copy
        gone == IF ok /\ row.id # None THEN Trashed(w, row.id) ELSE w
    IN  /\ pc = "drop" /\ Goto("bin")
        /\ IF ok THEN UNCHANGED left ELSE row.id # None /\ Fault("trash") /\ Spend
        /\ w' = Recorded(gone, "copy", NoRow)
        /\ due' = [NothingDue EXCEPT !.copy = IF LiveAt(w', "copy") = {}
                                           THEN w.disk.copy.c ELSE None]
        /\ UNCHANGED <<saved, typed, opt, snap, view, todo, hold>>

(* remote: the copy goes to the recycle bin, and that is all.              *)
BinCopy ==
    /\ pc = "bin" /\ opt = "remote"
    /\ w' = Binned(w, "copy")
    /\ Closed /\ AtRest
    /\ UNCHANGED <<typed, due, left>>

(* local: the drive's bytes go to the recycle bin, the copy comes back.    *)
BinOriginal ==
    /\ pc = "bin" /\ opt = "local" /\ Goto("back")
    /\ w' = Binned(w, "orig")
    /\ UNCHANGED <<saved, typed, due, left, opt, snap, view, todo, hold>>

BringBack ==
    /\ pc = "back"
    /\ IF w.disk.copy.c = None
       THEN AtRest /\ w' = w /\ due' = NothingDue
       ELSE /\ w' = [w EXCEPT !.disk.orig = w.disk.copy, !.disk.copy = NoFile]
            /\ Goto("row") /\ UNCHANGED <<due, opt, snap, view, todo, hold>>
    /\ UNCHANGED <<saved, typed, left>>

(* Mutation: the row of the chosen bytes.                                  *)
RestoredAsChosen(row) ==
    [row EXCEPT !.lmt = w.disk.orig.mt, !.lsz = SizeOf(w.disk.orig.c),
                !.lc = w.disk.orig.c, !.st = "pending_upload"]

(* The baseline (local_md5 or remote_md5: every row here has both or none) *)
(* stays what the drive holds; without its stat the next pass              *)
(* has to hash the file.  With a baseline and no unseen version, the next  *)
(* pass owes the drive the chosen bytes.                                   *)
Restored(row) == [row EXCEPT !.lmt = None, !.lsz = None,
                             !.st = IF row.lc = None THEN "error" ELSE "pending_upload"]

Owes(row) == /\ row.lc # None /\ LiveIn(w, row.id)
             /\ row.rver = w.obj[row.id].ver

RecordChoice ==
    /\ pc = "row"
    /\ w' = Recorded(w, "orig", Restored(w.rec.orig))
    /\ due' = IF Owes(w.rec.orig) THEN [due EXCEPT !.orig = w.disk.orig.c]
              ELSE NothingDue
    /\ Closed /\ AtRest
    /\ UNCHANGED <<typed, left>>

(* TrashUnavailable ends the command; the conflict stays unresolved.       *)
BinRefuses ==
    /\ pc = "bin" /\ Fault("recycle") /\ Spend
    /\ AtRest /\ due' = NothingDue
    /\ UNCHANGED <<w, saved, typed>>

Resolve == \/ ResolveBoth \/ StartResolve \/ DropRemoteCopy \/ BinCopy
           \/ BinOriginal \/ BringBack \/ RecordChoice \/ BinRefuses

-----------------------------------------------------------------------------
(* init: a walk of the drive becomes the base, then the cursor moves to the *)
(* end of the feed.  Nothing is downloaded and no instance lock is taken.  *)
StartInit == \E o \in {"init", "init force"} :
    /\ o = "init" => ~settled /\ cursor = 0 /\ \A p \in Slot : w.rec[p] = NoRow
    /\ Begin(o, "rows")
    /\ snap' = [p \in Slot |-> [mt |-> w.rec[p].lmt, sz |-> w.rec[p].lsz, c |-> w.rec[p].lc]]
    /\ view' = [p \in Slot |-> Listing(w, p)]
    /\ UNCHANGED <<w, saved, typed, due, left, todo, hold>>

(* A row with a baseline keeps its local half; the remote half is the      *)
(* walk's.  Rows of files the walk did not find stay.                      *)
Enrolled(p) ==
    LET r == view[p]  o == snap[p]
    IN  IF o.c # None THEN RowOf(r.id, o.mt, o.sz, o.c, r.ver, r.sz, "synced")
        ELSE RowOf(r.id, None, None, None, r.ver, r.sz, "pending_download")

InitRows ==
    /\ pc = "rows" /\ Goto("tip")
    /\ w' = [w EXCEPT !.rec = [p \in Slot |->
                IF Seen(view[p]) THEN Enrolled(p) ELSE w.rec[p]]]
    /\ UNCHANGED <<saved, typed, due, left, opt, snap, view, todo, hold>>

InitTip ==
    /\ pc = "tip" /\ cursor' = w.rev /\ AtRest
    /\ UNCHANGED <<w, settled, listed, typed, due, left>>

InitSteps == StartInit \/ InitRows \/ InitTip

-----------------------------------------------------------------------------
(* Everyone else.                                                          *)
Act == left > 0 /\ Spend /\ due' = NothingDue

Save == \E c \in Content \ typed :
    /\ Act /\ pc \in SavePoints /\ Roomy
    /\ w' = [w EXCEPT !.disk.orig = [c |-> c, mt |-> FreshStamp("orig")]]
    /\ typed' = typed \cup {c}
    /\ UNCHANGED <<saved, volat>>

(* Explorer moves what it deletes to the recycle bin.                      *)
Delete == \E p \in Slot :
    /\ Act /\ pc \in SavePoints \cup {"back"} /\ w.disk[p].c # None
    /\ w' = Binned(w, p)
    /\ UNCHANGED <<saved, typed, volat>>

OtherWrites == \E c \in Content \ typed :
    /\ Act /\ pc \in OtherPoints /\ Roomy
    /\ w' = IF LiveAt(w, "orig") = {} THEN NewFile(w, "orig", c)
            ELSE NewVersion(w, Listing(w, "orig").id, c)
    /\ typed' = typed \cup {c}
    /\ UNCHANGED <<saved, volat>>

OtherTrashes == \E p \in Slot :
    /\ Trashers /\ Act /\ pc \in OtherPoints /\ LiveAt(w, p) # {}
    /\ w' = Trashed(w, Listing(w, p).id)
    /\ UNCHANGED <<saved, typed, volat>>

(* The process ends between two steps.                                     *)
Crash ==
    /\ "crash" \in Faults /\ Act /\ pc # "idle" /\ AtRest
    /\ UNCHANGED <<w, saved, typed>>

Env == Save \/ Delete \/ OtherWrites \/ OtherTrashes \/ Crash

-----------------------------------------------------------------------------
(* A profile before its first command: a file here, one there, or neither. *)
First == CHOOSE o \in ObjId : TRUE

Bare(c, d) ==
    LET here == IF c = None THEN NoFile ELSE [c |-> c, mt |-> CHOOSE m \in Stamp : TRUE]
        new  == [disk |-> [p \in Slot |-> IF p = "orig" THEN here ELSE NoFile],
                 bin |-> {}, aside |-> {}, rec |-> [p \in Slot |-> NoRow],
                 obj |-> [o \in ObjId |-> NoObject], rev |-> 0, shown |-> {}]
    IN  IF d = None THEN new ELSE Stored(new, First, "orig", 0, d)

Init ==
    /\ \E s \in Starts : w = Bare(s[1], s[2]) /\ typed = {s[1], s[2]} \ {None}
    /\ cursor = 0 /\ settled = FALSE /\ listed = FALSE
    /\ due = NothingDue /\ left = MaxEnv
    /\ pc = "idle" /\ opt = "sync" /\ snap = NoSnap /\ view = NoSight
    /\ todo = {} /\ hold = NoHold

CommandSteps == \/ Push \/ Pull \/ Reconcile \/ Resolve \/ InitSteps \/ TransferFails

Next == Sync \/ CommandSteps \/ Env

Spec == Init /\ [][Next]_vars

(* A command that began goes on; a person who was told runs `dsync sync`   *)
(* and `dsync reconcile` and, asked, answers 2 now and then.               *)
Running == pc # "idle" /\ CommandSteps

FairSpec ==
    /\ Spec
    /\ WF_vars(Running)
    /\ SF_vars(SyncPass(TRUE, {}))
    /\ SF_vars(StartReconcile)
    /\ \A p \in Slot : SF_vars(p \in todo /\ AskRemote(p))

-----------------------------------------------------------------------------
Disk == [c : Content, mt : Stamp] \cup {NoFile}
Num  == Nat \cup {None}
Row  == [id : ObjId \cup {None}, lmt : Stamp \cup {None}, lsz : Num,
         lc : Content \cup {None}, rver : Num, rsz : Num,
         rc : Content \cup {None}, st : Status]

Object == [st : {"live", "trash"}, at : Slot \cup {"away"}, ver : Nat,
           c : Content, rev : Nat] \cup {NoObject}

World == [disk : [Slot -> Disk], bin : SUBSET Content, aside : SUBSET Content,
          rec : [Slot -> Row], obj : [ObjId -> Object], rev : Nat,
          shown : SUBSET [id : ObjId, ver : Nat, c : Content]]

Entry == [mt : Stamp \cup {None}, sz : Num, c : Content \cup {None}]
Sight == [id : ObjId \cup {None}, ver : Num, sz : Num, c : {None}]
Item  == [p : Slot, id : ObjId \cup {None}, ver : Num, mt : Stamp \cup {None},
          sz : Num, c : Content \cup {None}]
Due   == [orig : Content \cup {None}, copy : Content \cup {None}]

(* Type: in particular a file has bytes and a stamp or neither, and what   *)
(* the drive keeps are the bytes of some file, whatever disappeared        *)
(* between the scan and the transfer (_PushExecutor.upload).               *)
TypeOK ==
    /\ w \in World
    /\ cursor \in 0..w.rev /\ settled \in BOOLEAN /\ listed \in BOOLEAN
    /\ typed \subseteq Content /\ left \in 0..MaxEnv /\ due \in Due
    /\ pc \in Pc /\ opt \in Option /\ todo \subseteq Slot
    /\ snap \in [Slot -> Entry] /\ view \in [Slot -> Sight] /\ hold \in Item
    /\ pc = "place" => hold.c # None

Kept == w.bin \cup w.aside \cup {w.disk[p].c : p \in Slot} \cup {v.c : v \in w.shown}

(* No command makes the bytes of a file disappear: what the folder held    *)
(* before a step is afterwards still in it, in the recycle bin or among    *)
(* the versions of the drive (push transfers, pull writes over files,      *)
(* reconcile renames, resolve exchanges; main.py: "no choice deletes a     *)
(* file for good").  Only a person who saves overwrites.                   *)
NothingLost ==
    [][typed' = typed => \A p \in Slot : w.disk[p].c \in Kept' \cup {None}]_vars

(* The baseline is "the content that last agreed with the drive"           *)
(* (main.py:2880), whichever command wrote it: where a row has one, a file *)
(* that still has its stat has its bytes, and a file with its bytes was    *)
(* once that drive file's, in the version of the row or a later one.       *)
BaseHonest ==
    \A p \in Slot :
        LET rec == w.rec[p]
            d   == w.disk[p]
        IN  rec.lc # None /\ d.c # None =>
            /\ rec.lmt = d.mt => rec.lc = d.c
            /\ rec.lc = d.c => \E v \in w.shown :
                   /\ v.id = rec.id /\ v.c = rec.lc
                   /\ rec.rver # None => v.ver >= rec.rver

(* What resolve promised is what the next pass does: "local" brings the    *)
(* chosen bytes to the drive, and the discarded copy does not come back    *)
(* (main.py:2820, 2880): under its name is nothing, or the copy that a new *)
(* conflict of that pass makes of the file.                                *)
ChoiceStands ==
    [][pc = "idle" /\ due # NothingDue /\ due' = NothingDue /\ left' = left =>
           /\ due.orig # None =>
                \E o \in LiveAt(w', "orig") : w'.obj[o].c = due.orig
           /\ due.copy # None =>
                \/ w'.disk.copy = NoFile
                \/ listed' # listed /\ w'.disk.copy.c = w.disk.orig.c]_vars

(* reconcile fails for ever on a file of the folder that has a row without *)
(* a baseline whose drive file is gone, and sync holds it back for ever.   *)
Stranded(p) == /\ w.disk[p].c # None /\ w.rec[p].id # None /\ w.rec[p].lc = None
               /\ w.rec[p].id \notin LiveAt(w, p)

(* A drive file that took the place of the one the row names, with the     *)
(* same version number and size, is taken for it (differ.py:118).          *)
Mistaken(p) ==
    \E o \in LiveAt(w, p) : /\ w.rec[p].id # o /\ w.rec[p].rver = w.obj[o].ver
                            /\ w.rec[p].rsz = Size[w.obj[o].c]

InStep(p) ==
    IF w.disk[p].c = None THEN LiveAt(w, p) = {}
    ELSE \E o \in LiveAt(w, p) : w.obj[o].c = w.disk[p].c

(* Whatever was typed in whatever order, a person who goes on with `sync`  *)
(* and `reconcile` ends with a folder in step with the drive: no command   *)
(* leaves a row that neither of the two can settle, but the two above.     *)
Converges == <>[](\A p \in Slot : InStep(p) \/ Stranded(p) \/ Mistaken(p))

-----------------------------------------------------------------------------
(* Why NothingLost and BaseHonest hold: the inductive invariant of the     *)
(* proof in Commands_proofs.tla.  It needs that nobody asks for a baseline *)
(* that was never compared, that nobody saves between resolve's last look  *)
(* and its replace, and that old bytes do not come back (resolve local)    *)
(* to a file that was saved while push sent it.                            *)
Pushing == {"index", "send", "again", "commit"}

Compares == {"reconcile size", "init force"} \cap Options = {}
NoReturn == "local" \notin Options
Steady   == /\ Compares /\ "back" \notin SavePoints
            /\ NoReturn \/ SavePoints \cap Pushing = {}

(* The drive shows what it has, and the files have times of their own; all *)
(* bytes are somebody's (T).                                               *)
Version(id, ver, c) == [id |-> id, ver |-> ver, c |-> c]
DriveSound(s, T) == \A o \in ObjId :
    /\ s.obj[o].st # "none" => Version(o, s.obj[o].ver, s.obj[o].c) \in s.shown
    /\ s.obj[o].c \in T \cup {None}
FilesSound(s, T) ==
    /\ s.disk.orig.mt = s.disk.copy.mt => s.disk.orig.mt = None
    /\ \A p \in Slot : s.disk[p].c \in T \cup {None}

(* What is known of a drive file is not ahead of it.                       *)
Known(s, id, ver) ==
    /\ id # None => s.obj[id].st # "none"
    /\ ver # None => id # None /\ ver <= s.obj[id].ver

(* A baseline was shown by the drive file of its row, but for a file that  *)
(* was saved while it was sent, and does not have the old bytes any more.  *)
WasShown(s, id, ver, c) ==
    \E v \in s.shown : v.id = id /\ v.c = c /\ (ver # None => v.ver >= ver)
Outdated(s, p, c) == NoReturn /\ p = "orig" /\ s.disk[p].c # c

(* The time of a baseline means its bytes, wherever a file has it.         *)
RowSound(s, T, p, row) ==
    /\ Known(s, row.id, row.rver)
    /\ row.st = "none" => row.rver = None /\ row.lc = None
    /\ row.lc # None =>
         /\ row.lc \in T
         /\ \A q \in Slot : row.lmt = s.disk[q].mt => s.disk[q].c \in {row.lc, None}
         /\ WasShown(s, row.id, row.rver, row.lc) \/ Outdated(s, p, row.lc)

Sound(s, T) == /\ DriveSound(s, T) /\ FilesSound(s, T)
               /\ \A p \in Slot : RowSound(s, T, p, s.rec[p])

(* What a command holds in memory is not ahead of the drive either.        *)
Remembered ==
    /\ \A p \in Slot : Known(w, view[p].id, view[p].ver)
    /\ Known(w, hold.id, hold.ver)
    /\ pc \notin {"idle"} => opt \in Options
    /\ pc \in {"back", "row"} => opt = "local"
    /\ pc = "back" => w.disk.orig = NoFile
    /\ pc = "rows" => \A p \in Slot : snap[p].c = None
    /\ pc \in {"again", "commit", "fetch", "place", "verify"} => hold.p \in todo

(* The scan: no other file has come by the time of a scanned one.          *)
Scanning == {"plan", "walk", "check", "fetch", "place", "match", "compare", "verify"}
            \cup Pushing
Scanned  == pc \in Scanning => \A p, q \in Slot :
    p # q /\ snap[p].mt # None => w.disk[q].mt # snap[p].mt

(* push: what was hashed is what is sent, unless somebody saves.           *)
Sent(p) == /\ snap[p].mt # None /\ snap[p].c \in typed
           /\ w.disk[p].mt = snap[p].mt => w.disk[p].c = snap[p].c
           /\ ~NoReturn \/ p = "copy" => w.disk[p].c \in {None, snap[p].c}
Sends == /\ pc \in Pushing => \A p \in todo : Sent(p)
         /\ pc = "commit" => LET p == hold.p IN
               /\ hold.id # None /\ hold.ver # None
               /\ \/ Version(hold.id, hold.ver, snap[p].c) \in w.shown
                  \/ Outdated(w, p, snap[p].c)

(* pull: what it may write over was shown, and what it got too.  reconcile: *)
(* the hash in hand is of the file, while that has the time of the scan.   *)
Receives ==
    /\ pc \in {"check", "fetch", "place"} => \A p \in todo :
          /\ view[p].id # None
          /\ snap[p].mt # None /\ w.disk[p].mt = snap[p].mt
                => w.disk[p].c \in {v.c : v \in w.shown}
    /\ pc \in {"fetch", "place"} => hold.mt \in {None, snap[hold.p].mt}
    /\ pc = "place" => /\ hold.c \in typed
                       /\ WasShown(w, view[hold.p].id, view[hold.p].ver, hold.c)
    /\ pc = "verify" => /\ hold.c \in typed
                        /\ w.disk[hold.p].mt = snap[hold.p].mt
                              => w.disk[hold.p].c \in {hold.c, None}

IInv == /\ TypeOK /\ Sound(w, typed)
        /\ Remembered /\ Scanned /\ Sends /\ Receives
-----------------------------------------------------------------------------
(* Why ChoiceStands holds.  Besides the above, nobody saves between push's *)
(* scan and its hashing: the row would have the size of the old bytes and  *)
(* the hash of the new, and the next pass take the drive's file for changed.*)
Firm == Steady /\ (NoReturn \/ "plan" \notin SavePoints)

(* The drive has one file of a name; what it showed of a file in its last  *)
(* version is the file.                                                    *)
OneOfAName(s) == \A p \in Slot : \A a, b \in LiveAt(s, p) : a = b
InOrder(s) == \A v \in s.shown :
    /\ s.obj[v.id].st # "none" /\ v.ver <= s.obj[v.id].ver
    /\ v.ver = s.obj[v.id].ver => v.c = s.obj[v.id].c

(* The id that a row or a command has for a path is that of a file there,  *)
(* or of one that left the model with a conflict copy.                     *)
AtHome(s, p, id) == id # None =>
    /\ s.obj[id].st # "none"
    /\ s.obj[id].at \in IF p = "orig" THEN {"orig"} ELSE {"copy", "away"}

(* What a row says of the drive's file fits its baseline.                  *)
Weighed(row) == ~NoReturn /\ row.lc # None =>
    row.rc = row.lc /\ row.rsz \in {None, Size[row.lc]}

Ordered(s) == /\ OneOfAName(s) /\ InOrder(s)
              /\ \A p \in Slot : AtHome(s, p, s.rec[p].id) /\ Weighed(s.rec[p])

(* The size and the hash a command has of a file are of the same bytes; a  *)
(* file that was saved since the scan has bytes the drive has not.         *)
Held ==
    /\ \A p \in Slot : AtHome(w, p, view[p].id)
    /\ AtHome(w, hold.p, hold.id)
    /\ pc \in Pushing /\ ~NoReturn =>
          \A p \in todo : snap[p].c # None /\ snap[p].sz = Size[snap[p].c]
    /\ pc \in {"plan", "match", "compare", "verify"} /\ ~NoReturn => \A p \in Slot :
          \/ w.disk[p].c = None \/ SameStat(w, p, snap[p])
          \/ pc # "plan" /\ w.disk[p].c \notin {w.obj[o].c : o \in ObjId}
    /\ pc = "verify" /\ ~NoReturn =>
          \/ SizeOf(hold.c) = snap[hold.p].sz
          \/ hold.c \notin {w.obj[o].c : o \in ObjId}
    /\ pc = "place" => SizeOf(hold.c) = view[hold.p].sz

(* A conflict is of a profile that has been synced; so is a resolution.    *)
Resolving == {"drop", "bin", "back", "row"}
Experienced == listed \/ pc \in Resolving \/ due # NothingDue => settled

(* What "local" promised, until a pass without failures has been: the      *)
(* chosen bytes are there, and the drive has them too or what the base     *)
(* says it has.                                                            *)
Chosen(s, c) == LET row == s.rec.orig IN
    /\ s.disk.orig.c = c /\ row.lc # None /\ LiveIn(s, row.id)
    /\ s.obj[row.id].c = c \/ (row.lmt = None /\ row.rver = s.obj[row.id].ver)

HasChosen(s, id, c) == id = s.rec.orig.id /\ s.obj[id].c = c

Promised == due.orig # None =>
    /\ Chosen(w, due.orig) /\ ~NoReturn /\ ~listed
    /\ pc \notin Resolving \cup {"rows", "tip"}
    /\ pc = "walk" => snap.orig.mt # None
    /\ pc \in {"compare", "verify", "ask"} => "orig" \notin todo
    /\ pc \in Pushing /\ "orig" \in todo => snap.orig.c = due.orig
    /\ pc = "commit" /\ hold.p = "orig" => HasChosen(w, hold.id, due.orig)
    /\ pc \in {"check", "fetch", "place"} /\ "orig" \in todo =>
          HasChosen(w, view.orig.id, due.orig)
    /\ pc = "place" /\ hold.p = "orig" => hold.c = due.orig

(* What both choices promised of the copy: it is gone, on both sides.      *)
Vanished(s) == s.disk.copy = NoFile /\ s.rec.copy = NoRow /\ LiveAt(s, "copy") = {}

Dropped == due.copy # None =>
    /\ pc \notin {"drop", "rows", "tip"} /\ (pc \in Resolving \/ ~listed)
    /\ w.rec.copy = NoRow /\ LiveAt(w, "copy") = {}
    /\ pc \in {"bin", "back"} \/ Vanished(w)
    /\ pc \in {"plan", "walk", "match"} => snap.copy.mt = None
    /\ pc \in Pushing \cup {"check", "fetch", "place", "compare", "verify", "ask"} =>
          "copy" \notin todo

KeepsWord == /\ Ordered(w) /\ Held /\ Experienced /\ Promised /\ Dropped
=============================================================================
