-------------------------- MODULE Commands_proofs --------------------------
(***************************************************************************)
(* Proofs about Commands for every content, id, stamp, profile and choice  *)
(* of options, faults and control points at which others act: its types;   *)
(* under Steady, that the base is honest and that nothing is lost; under   *)
(* Firm, that what a person chose for a conflict comes about.              *)
(*                                                                         *)
(* The argument: the world w stays Sound, and what a command holds between *)
(* two of its steps (Minds) is never ahead of it.  First what each         *)
(* operation makes of a world, field by field; then that it only adds to   *)
(* what was shown and handed out (Grows), keeps Sound, and keeps the bytes *)
(* (Keeps); then a sync pass, which is a chain of such operations; then    *)
(* the types; then one lemma per command, with a step per action.  Last    *)
(* the same once more for the promises: operations keep the drive Ordered  *)
(* and leave the other file Apart, a pass redeems what is Chosen, and each *)
(* command in turn keeps its word.                                         *)
(***************************************************************************)
EXTENDS Commands, TLAPS

-----------------------------------------------------------------------------
LEMMA SizeOfType ==
    ASSUME NEW c \in Content \cup {None} PROVE SizeOf(c) \in Num
BY SizeAssumption DEF SizeOf, Num

LEMMA StoredIs ==
    ASSUME NEW s \in World, NEW o \in ObjId, NEW p \in Slot \cup {"away"},
           NEW v \in Nat, NEW c \in Content
    PROVE  LET t == Stored(s, o, p, v, c)
           IN  /\ t \in World
               /\ <<t.disk, t.bin, t.aside, t.rec>> = <<s.disk, s.bin, s.aside, s.rec>>
               /\ t.rev = s.rev + 1
               /\ t.shown = s.shown \cup {Version(o, v, c)}
               /\ t.obj = [s.obj EXCEPT ![o] =
                     [st |-> "live", at |-> p, ver |-> v, c |-> c, rev |-> s.rev + 1]]
<1> DEFINE new == [st |-> "live", at |-> p, ver |-> v, c |-> c, rev |-> s.rev + 1]
           t == Stored(s, o, p, v, c)
<1>1. new \in Object /\ s.rev \in Nat
  BY DEF World, Object
<1>2. Version(o, v, c) \in [id : ObjId, ver : Nat, c : Content]
  BY DEF Version
<1> HIDE DEF new
<1>3. /\ <<t.disk, t.bin, t.aside, t.rec>> = <<s.disk, s.bin, s.aside, s.rec>>
      /\ t.rev = s.rev + 1
      /\ t.shown = s.shown \cup {Version(o, v, c)}
      /\ t.obj = [s.obj EXCEPT ![o] = new]
  BY DEF World, Stored, Version, new
<1>5. /\ s.shown \cup {Version(o, v, c)} \in SUBSET [id : ObjId, ver : Nat, c : Content]
      /\ [s.obj EXCEPT ![o] = new] \in [ObjId -> Object]
      /\ s.rev + 1 \in Nat
  BY <1>1, <1>2 DEF World
<1>6. t \in World
  <2> DEFINE V == SUBSET [id : ObjId, ver : Nat, c : Content]
             S == SUBSET Content
             D == [Slot -> Disk]
             R == [Slot -> Row]
             O == [ObjId -> Object]
             W == [disk : D, bin : S, aside : S, rec : R, obj : O, rev : Nat, shown : V]
  <2>1. s \in W
    BY DEF World
  <2>2. t.shown \in V /\ t.obj \in O /\ t.rev \in Nat
    BY <1>3, <1>5
  <2>3. t = [s EXCEPT !.rev = t.rev, !.obj = t.obj, !.shown = t.shown]
    BY <2>1 DEF Stored
  <2> HIDE DEF V, S, D, R, O, t
  <2>4. t \in W
    BY <2>1, <2>2, <2>3
  <2> QED BY <2>4 DEF World, V, S, D, R, O
<1> QED BY <1>3, <1>6 DEF new

(* What the drive was ever given.                                          *)
Made == [st : {"live", "trash"}, at : Slot \cup {"away"}, ver : Nat,
         c : Content, rev : Nat]

LEMMA ObjectType ==
    ASSUME NEW x \in Object
    PROVE  /\ x.st # "none" <=> x \in Made
           /\ x \in Made \/ x = NoObject
           /\ Made \subseteq Object
BY DEF Object, Made, NoObject

LEMMA TrashedIs ==
    ASSUME NEW s \in World, NEW o \in ObjId \cup {None}
    PROVE  LET t == Trashed(s, o)
           IN  /\ t \in World
               /\ <<t.disk, t.bin, t.aside, t.rec, t.shown>>
                     = <<s.disk, s.bin, s.aside, s.rec, s.shown>>
               /\ t.rev >= s.rev
               /\ \A x \in ObjId :
                     /\ t.obj[x].at = s.obj[x].at /\ t.obj[x].c = s.obj[x].c
                     /\ t.obj[x].ver = s.obj[x].ver
                     /\ t.obj[x].st = "none" <=> s.obj[x].st = "none"
<1> DEFINE t == Trashed(s, o)
<1>0. s.rev \in Nat /\ s.obj \in [ObjId -> Object]
  BY DEF World
<1>1. CASE ~LiveIn(s, o)
  <2>1. t = s
    BY <1>1 DEF Trashed
  <2> QED BY <1>0, <2>1
<1>2. CASE LiveIn(s, o)
  <2> DEFINE n   == s.rev + 1
             new == [s.obj[o] EXCEPT !.st = "trash", !.rev = n]
  <2>0. n \in Nat
    BY <1>0
  <2>1. o \in ObjId /\ s.obj[o] \in Object
    BY <1>0, <1>2 DEF LiveIn
  <2>2. /\ new \in Object /\ new.st = "trash" /\ new.at = s.obj[o].at
        /\ new.c = s.obj[o].c /\ new.ver = s.obj[o].ver
    <3> HIDE DEF n
    <3>1. s.obj[o] \in Made
      BY <1>2, <2>1, ObjectType DEF LiveIn
    <3> QED BY <2>0, <3>1 DEF Object, Made
  <2>3. /\ <<t.disk, t.bin, t.aside, t.rec, t.shown>>
              = <<s.disk, s.bin, s.aside, s.rec, s.shown>>
        /\ t.rev = s.rev + 1 /\ t.obj = [s.obj EXCEPT ![o] = new]
        /\ t = [s EXCEPT !.rev = t.rev, !.obj = t.obj]
    BY <1>2 DEF World, Trashed
  <2> HIDE DEF t, new
  <2>4. s.rev + 1 \in Nat /\ [s.obj EXCEPT ![o] = new] \in [ObjId -> Object]
    BY <1>0, <2>1, <2>2
  <2>5. t.rev \in Nat /\ t.obj \in [ObjId -> Object]
    BY <2>3, <2>4
  <2>6. t \in World
    BY <2>3, <2>5 DEF World
  <2>7. s.obj[o].st = "live"
    BY <1>2 DEF LiveIn
  <2>8. t.rev >= s.rev
    BY <1>0, <2>3
  <2>9. ASSUME NEW x \in ObjId
        PROVE  /\ t.obj[x].at = s.obj[x].at /\ t.obj[x].c = s.obj[x].c
               /\ t.obj[x].ver = s.obj[x].ver
               /\ t.obj[x].st = "none" <=> s.obj[x].st = "none"
    BY <1>0, <2>1, <2>2, <2>3, <2>7
  <2> QED BY <2>3, <2>6, <2>8, <2>9 DEF t
<1> QED BY <1>1, <1>2

LEMMA RecordedIs ==
    ASSUME NEW s \in World, NEW p \in Slot, NEW row \in Row
    PROVE  LET t == Recorded(s, p, row)
           IN  /\ t \in World /\ t.rec = [s.rec EXCEPT ![p] = row]
               /\ <<t.disk, t.bin, t.aside, t.obj, t.rev, t.shown>>
                     = <<s.disk, s.bin, s.aside, s.obj, s.rev, s.shown>>
BY DEF World, Recorded

LEMMA MarkedIs ==
    ASSUME NEW s \in World, NEW p \in Slot, NEW st \in Status
    PROVE  LET t   == Marked(s, p, st)
               row == [s.rec[p] EXCEPT !.st = st]
           IN  /\ t = Recorded(s, p, row)
               /\ row \in Row /\ row.id = s.rec[p].id /\ row.rver = s.rec[p].rver
               /\ row.lc = s.rec[p].lc /\ row.lmt = s.rec[p].lmt /\ row.st = st
<1>1. s.rec[p] \in Row
  BY DEF World
<1> QED BY <1>1 DEF World, Marked, Recorded, Row

LEMMA NoFileType == NoFile \in Disk /\ NoFile.c = None /\ NoFile.mt = None
BY DEF NoFile, Disk

LEMMA NoRowType == NoRow \in Row
BY DEF NoRow, Row, Num, Status

LEMMA DiskType ==
    ASSUME NEW d \in Disk
    PROVE  /\ d.c \in Content \cup {None} /\ d.mt \in Stamp \cup {None}
           /\ d.c = None <=> d.mt = None
           /\ d.c = None => d = NoFile
BY NoneAssumption DEF Disk, NoFile

LEMMA BinnedIs ==
    ASSUME NEW s \in World, NEW p \in Slot
    PROVE  LET t == Binned(s, p)
           IN  /\ t \in World /\ t.disk = [s.disk EXCEPT ![p] = NoFile]
               /\ t.bin = s.bin \cup ({s.disk[p].c} \ {None})
               /\ <<t.aside, t.rec, t.obj, t.rev, t.shown>>
                     = <<s.aside, s.rec, s.obj, s.rev, s.shown>>
<1> DEFINE t == Binned(s, p)
<1>1. s.disk[p].c \in Content \cup {None} /\ s.disk \in [Slot -> Disk] /\ s.bin \subseteq Content
  BY DiskType DEF World
<1>2. /\ t.disk = [s.disk EXCEPT ![p] = NoFile]
      /\ t.bin = s.bin \cup ({s.disk[p].c} \ {None})
      /\ <<t.aside, t.rec, t.obj, t.rev, t.shown>>
            = <<s.aside, s.rec, s.obj, s.rev, s.shown>>
      /\ t = [s EXCEPT !.disk = t.disk, !.bin = t.bin]
  BY DEF World, Binned
<1> HIDE DEF t
<1>3. t.disk \in [Slot -> Disk] /\ t.bin \in SUBSET Content
  BY <1>1, <1>2, NoFileType
<1>4. t \in World
  BY <1>2, <1>3 DEF World
<1> QED BY <1>2, <1>4 DEF t

LEMMA SetAsideIs ==
    ASSUME NEW s \in World, NEW p \in Slot
    PROVE  LET t == SetAside(s, p)
           IN  /\ t \in World
               /\ t.disk = [q \in Slot |-> IF q = p THEN NoFile ELSE
                                IF q = "copy" THEN s.disk.orig ELSE s.disk[q]]
               /\ t.rec = IF p = "copy" THEN s.rec ELSE [s.rec EXCEPT !.copy = NoRow]
               /\ t.aside = s.aside \cup ({s.disk.copy.c} \ {None})
               /\ <<t.bin, t.rev, t.shown>> = <<s.bin, s.rev, s.shown>>
               /\ \A o \in ObjId :
                     /\ t.obj[o].st = s.obj[o].st /\ t.obj[o].c = s.obj[o].c
                     /\ t.obj[o].ver = s.obj[o].ver
                     /\ t.obj[o].at = "copy" => p = "copy"
                     /\ s.obj[o].at = "orig" => t.obj[o].at = "orig"
<1> DEFINE t == SetAside(s, p)
           aside == [o \in ObjId |-> IF s.obj[o].at = "copy"
                        THEN [s.obj[o] EXCEPT !.at = "away"] ELSE s.obj[o]]
<1>0. /\ s.disk \in [Slot -> Disk] /\ s.obj \in [ObjId -> Object]
      /\ s.rec \in [Slot -> Row] /\ s.aside \subseteq Content
      /\ s.disk.copy.c \in Content \cup {None}
  BY DiskType DEF World, Slot
<1>1. ASSUME NEW o \in ObjId
      PROVE  /\ aside[o] \in Object
             /\ aside[o].st = s.obj[o].st /\ aside[o].c = s.obj[o].c
             /\ aside[o].ver = s.obj[o].ver
             /\ aside[o].at # "copy"
             /\ s.obj[o].at = "orig" => aside[o].at = "orig"
  <2>1. s.obj[o] \in Object
    BY <1>0
  <2>2. CASE s.obj[o] \in Made
    <3>1. [s.obj[o] EXCEPT !.at = "away"] \in Made
      BY <2>2 DEF Made
    <3> QED BY <2>1, <2>2, <3>1, ObjectType DEF Made
  <2>3. CASE s.obj[o] = NoObject
    BY <2>1, <2>3 DEF NoObject
  <2> QED BY <2>1, <2>2, <2>3 DEF Object, Made
<1>2. aside \in [ObjId -> Object]
  BY <1>1
<1>3. CASE p = "copy"
  <2>1. /\ t.disk = [s.disk EXCEPT !.copy = NoFile]
        /\ t.aside = s.aside \cup ({s.disk.copy.c} \ {None})
        /\ <<t.bin, t.rec, t.obj, t.rev, t.shown>>
              = <<s.bin, s.rec, s.obj, s.rev, s.shown>>
        /\ t = [s EXCEPT !.disk = t.disk, !.aside = t.aside]
    BY <1>3 DEF World, SetAside
  <2>2. t.disk = [q \in Slot |-> IF q = p THEN NoFile ELSE
                                IF q = "copy" THEN s.disk.orig ELSE s.disk[q]]
    BY <1>0, <1>3, <2>1
  <2> HIDE DEF t
  <2>3. t.disk \in [Slot -> Disk] /\ t.aside \in SUBSET Content
    BY <1>0, <2>1, NoFileType
  <2>4. t \in World
    BY <2>1, <2>3 DEF World
  <2> QED BY <1>3, <2>1, <2>2, <2>4 DEF t
<1>4. CASE p = "orig"
  <2>1. /\ t.disk = [s.disk EXCEPT !.copy = s.disk.orig, !.orig = NoFile]
        /\ t.rec = [s.rec EXCEPT !.copy = NoRow]
        /\ t.aside = s.aside \cup ({s.disk.copy.c} \ {None})
        /\ t.obj = aside
        /\ <<t.bin, t.rev, t.shown>> = <<s.bin, s.rev, s.shown>>
        /\ t = [s EXCEPT !.disk = t.disk, !.rec = t.rec, !.aside = t.aside, !.obj = t.obj]
    <3> DEFINE beside == s.aside \cup ({s.disk.copy.c} \ {None})
               free == [s EXCEPT !.aside = beside, !.rec.copy = NoRow,
                                 !.disk.copy = s.disk.orig, !.obj = aside]
    <3>1. t = [free EXCEPT !.disk.orig = NoFile]
      BY <1>4 DEF SetAside
    <3> HIDE DEF aside, beside
    <3>2. free = [s EXCEPT !.aside = beside, !.rec = [s.rec EXCEPT !.copy = NoRow],
                           !.disk = [s.disk EXCEPT !.copy = s.disk.orig], !.obj = aside]
      BY DEF World
    <3> HIDE DEF t, free
    <3> QED BY <3>1, <3>2 DEF World, beside
  <2>2. t.disk = [q \in Slot |-> IF q = p THEN NoFile ELSE
                                IF q = "copy" THEN s.disk.orig ELSE s.disk[q]]
    BY <1>0, <1>4, <2>1 DEF Slot
  <2> HIDE DEF t, aside
  <2>3. /\ t.disk \in [Slot -> Disk] /\ t.aside \in SUBSET Content
        /\ t.rec \in [Slot -> Row] /\ t.obj \in [ObjId -> Object]
    <3>1. "copy" \in Slot /\ "orig" \in Slot
      BY DEF Slot
    <3>2. t.disk \in [Slot -> Disk]
      BY <1>0, <2>1, <3>1, NoFileType
    <3>3. t.rec \in [Slot -> Row]
      BY <1>0, <2>1, <3>1, NoRowType
    <3> QED BY <1>0, <1>2, <2>1, <3>2, <3>3
  <2>4. t \in World
    BY <2>1, <2>3 DEF World
  <2> QED BY <1>1, <1>4, <2>1, <2>2, <2>4 DEF t
<1> QED BY <1>3, <1>4 DEF Slot

LEMMA DownloadedIs ==
    ASSUME NEW s \in World, NEW p \in Slot, NEW r, NEW c \in Content, NEW m \in Stamp,
           r.id \in ObjId \cup {None}, r.ver \in Num, r.sz \in Num
    PROVE  LET t == Downloaded(s, p, r, c, m)
               row == RowOf(r.id, m, Size[c], c, r.ver, r.sz, "synced")
           IN  /\ t \in World /\ row \in Row
               /\ t.disk = [s.disk EXCEPT ![p] = [c |-> c, mt |-> m]]
               /\ t.rec  = [s.rec EXCEPT ![p] = row]
               /\ <<t.bin, t.aside, t.obj, t.rev, t.shown>>
                     = <<s.bin, s.aside, s.obj, s.rev, s.shown>>
<1> DEFINE t   == Downloaded(s, p, r, c, m)
           row == RowOf(r.id, m, Size[c], c, r.ver, r.sz, "synced")
           d   == [c |-> c, mt |-> m]
<1>1. row \in Row /\ d \in Disk
  BY SizeAssumption DEF RowOf, Row, Num, Disk, Status
<1>2. /\ t.disk = [s.disk EXCEPT ![p] = d] /\ t.rec  = [s.rec EXCEPT ![p] = row]
      /\ <<t.bin, t.aside, t.obj, t.rev, t.shown>>
             = <<s.bin, s.aside, s.obj, s.rev, s.shown>>
      /\ t = [s EXCEPT !.disk = t.disk, !.rec = t.rec]
  BY DEF World, Downloaded
<1> HIDE DEF t, row, d
<1>3. t.disk \in [Slot -> Disk] /\ t.rec \in [Slot -> Row]
  BY <1>1, <1>2 DEF World
<1>4. t \in World
  BY <1>2, <1>3 DEF World
<1> QED BY <1>1, <1>2, <1>4 DEF t, row, d
-----------------------------------------------------------------------------
(* Nothing that was shown or handed out is taken back.                     *)
Grows(s, t) ==
    /\ s.shown \subseteq t.shown /\ s.rev <= t.rev
    /\ \A o \in ObjId : s.obj[o].st # "none" =>
          t.obj[o].st # "none" /\ s.obj[o].ver <= t.obj[o].ver

LEMMA WorldType ==
    ASSUME NEW s \in World
    PROVE  /\ s.disk \in [Slot -> Disk] /\ s.rec \in [Slot -> Row]
           /\ s.obj \in [ObjId -> Object] /\ s.rev \in Nat
           /\ s.bin \subseteq Content /\ s.aside \subseteq Content
           /\ s.shown \subseteq [id : ObjId, ver : Nat, c : Content]
           /\ \A o \in ObjId : /\ s.obj[o].ver \in Nat /\ s.obj[o].c \in Content \cup {None}
                               /\ s.obj[o].st # "none" => s.obj[o].c \in Content
BY DEF World, Object, NoObject

LEMMA GrowsSelf == ASSUME NEW s \in World PROVE Grows(s, s)
BY WorldType DEF Grows

LEMMA GrowsOn ==
    ASSUME NEW s \in World, NEW t \in World, NEW u \in World, Grows(s, t), Grows(t, u)
    PROVE  Grows(s, u)
BY WorldType DEF Grows

LEMMA KnownKept ==
    ASSUME NEW s \in World, NEW t \in World, Grows(s, t),
           NEW id \in ObjId \cup {None}, NEW ver \in Num, Known(s, id, ver)
    PROVE  Known(t, id, ver)
BY WorldType, NoneAssumption DEF Known, Grows, Num

LEMMA WasShownKept ==
    ASSUME NEW s \in World, NEW t \in World, Grows(s, t),
           NEW id, NEW ver, NEW c, WasShown(s, id, ver, c)
    PROVE  WasShown(t, id, ver, c)
BY DEF WasShown, Grows

LEMMA RowType ==
    ASSUME NEW row \in Row
    PROVE  /\ row.id \in ObjId \cup {None} /\ row.rver \in Num
           /\ row.lc \in Content \cup {None} /\ row.lmt \in Stamp \cup {None}
BY DEF Row

LEMMA RowKept ==
    ASSUME NEW s \in World, NEW t \in World, Grows(s, t), NEW T, NEW U, T \subseteq U,
           NEW p \in Slot, NEW row \in Row, RowSound(s, T, p, row),
           \A q \in Slot : row.lmt = t.disk[q].mt =>
                t.disk[q].c = None \/ \E x \in Slot : t.disk[q] = s.disk[x],
           NoReturn /\ p = "orig" =>
                t.disk.orig.c = s.disk.orig.c \/ t.disk.orig.c \notin T
    PROVE  RowSound(t, U, p, row)
<1>1. Known(t, row.id, row.rver)
  BY KnownKept, RowType DEF RowSound
<1>2. WasShown(s, row.id, row.rver, row.lc) => WasShown(t, row.id, row.rver, row.lc)
  BY WasShownKept
<1>3. row.lc \in T /\ Outdated(s, p, row.lc) => Outdated(t, p, row.lc)
  BY DEF Outdated
<1> QED BY <1>1, <1>2, <1>3 DEF RowSound

(* Only the drive changes.                                                 *)
LEMMA SoundDrive ==
    ASSUME NEW s \in World, NEW t \in World, NEW T, NEW U, T \subseteq U, Sound(s, T),
           Grows(s, t), t.disk = s.disk, t.rec = s.rec, DriveSound(t, U)
    PROVE  Sound(t, U)
<1>1. ASSUME NEW p \in Slot PROVE RowSound(t, U, p, t.rec[p])
  <2>1. s.rec[p] \in Row /\ RowSound(s, T, p, s.rec[p])
    BY WorldType DEF Sound
  <2> QED BY <2>1, RowKept
<1>2. FilesSound(t, U)
  BY DEF Sound, FilesSound
<1> QED BY <1>1, <1>2 DEF Sound

LEMMA SoundStored ==
    ASSUME NEW s \in World, NEW T \in SUBSET Content, NEW U \in SUBSET Content,
           T \subseteq U, Sound(s, T),
           NEW o \in ObjId, NEW p \in Slot \cup {"away"}, NEW v \in Nat, NEW c \in U,
           s.obj[o].st = "none" \/ s.obj[o].ver <= v
    PROVE  LET t == Stored(s, o, p, v, c)
           IN  /\ t \in World /\ Sound(t, U) /\ Grows(s, t)
               /\ t.disk = s.disk /\ t.rec = s.rec
               /\ Version(o, v, c) \in t.shown
               /\ t.obj[o].st # "none" /\ t.obj[o].ver = v
<1> DEFINE t == Stored(s, o, p, v, c)
<1>1. c \in Content
  OBVIOUS
<1>2. /\ t \in World /\ t.disk = s.disk /\ t.rec = s.rec /\ t.rev = s.rev + 1
      /\ t.shown = s.shown \cup {Version(o, v, c)}
      /\ t.obj = [s.obj EXCEPT ![o] =
            [st |-> "live", at |-> p, ver |-> v, c |-> c, rev |-> s.rev + 1]]
  BY <1>1, StoredIs
<1> HIDE DEF t
<1>3. Grows(s, t)
  BY <1>2, WorldType DEF Grows
<1>4. DriveSound(t, U)
  BY <1>2, WorldType DEF DriveSound, Sound
<1>5. Sound(t, U)
  BY <1>2, <1>3, <1>4, SoundDrive
<1>6. t.obj[o].st # "none" /\ t.obj[o].ver = v
  BY <1>2, WorldType
<1> QED BY <1>2, <1>3, <1>5, <1>6 DEF t

LEMMA SoundTrashed ==
    ASSUME NEW s \in World, NEW T, Sound(s, T), NEW o \in ObjId \cup {None}
    PROVE  Trashed(s, o) \in World /\ Sound(Trashed(s, o), T) /\ Grows(s, Trashed(s, o))
<1> DEFINE t == Trashed(s, o)
<1>1. /\ t \in World
      /\ <<t.disk, t.rec, t.shown>> = <<s.disk, s.rec, s.shown>>
      /\ t.rev >= s.rev
      /\ \A x \in ObjId : /\ t.obj[x].c = s.obj[x].c /\ t.obj[x].ver = s.obj[x].ver
                          /\ t.obj[x].st = "none" <=> s.obj[x].st = "none"
  BY TrashedIs
<1> HIDE DEF t
<1>2. Grows(s, t)
  BY <1>1, WorldType DEF Grows
<1>3. DriveSound(t, T)
  BY <1>1 DEF DriveSound, Sound
<1>4. Sound(t, T)
  BY <1>1, <1>2, <1>3, SoundDrive
<1> QED BY <1>1, <1>2, <1>4 DEF t

(* A row is written.                                                       *)
LEMMA SoundRecorded ==
    ASSUME NEW s \in World, NEW T, Sound(s, T), NEW p \in Slot, NEW row \in Row,
           RowSound(s, T, p, row)
    PROVE  LET t == Recorded(s, p, row)
           IN  t \in World /\ Sound(t, T) /\ Grows(s, t) /\ t.disk = s.disk
<1> DEFINE t == Recorded(s, p, row)
<1>1. /\ t \in World /\ t.rec = [s.rec EXCEPT ![p] = row]
      /\ <<t.disk, t.obj, t.rev, t.shown>> = <<s.disk, s.obj, s.rev, s.shown>>
  BY RecordedIs
<1> HIDE DEF t
<1>2. Grows(s, t)
  BY <1>1, WorldType DEF Grows
<1>3. DriveSound(t, T) /\ FilesSound(t, T)
  BY <1>1 DEF DriveSound, FilesSound, Sound
<1>4. ASSUME NEW q \in Slot PROVE RowSound(s, T, q, t.rec[q])
  BY <1>1, WorldType DEF Sound
<1>5. ASSUME NEW q \in Slot PROVE RowSound(t, T, q, t.rec[q])
  BY <1>1, <1>4 DEF RowSound, Known, WasShown, Outdated
<1> QED BY <1>1, <1>2, <1>3, <1>5 DEF Sound, t

(* A new status leaves the base of a row alone.                            *)
LEMMA SoundMarked ==
    ASSUME NEW s \in World, NEW T, Sound(s, T), NEW p \in Slot,
           NEW st \in Status \ {"none"}
    PROVE  LET t == Marked(s, p, st)
           IN  t \in World /\ Sound(t, T) /\ Grows(s, t) /\ t.disk = s.disk
<1> DEFINE row == [s.rec[p] EXCEPT !.st = st]
<1>1. /\ Marked(s, p, st) = Recorded(s, p, row)
      /\ row \in Row /\ row.id = s.rec[p].id /\ row.rver = s.rec[p].rver
      /\ row.lc = s.rec[p].lc /\ row.lmt = s.rec[p].lmt /\ row.st = st
  BY MarkedIs
<1> HIDE DEF row
<1>2. RowSound(s, T, p, s.rec[p])
  BY DEF Sound
<1>3. RowSound(s, T, p, row)
  BY <1>1, <1>2 DEF RowSound
<1> QED BY <1>1, <1>3, SoundRecorded

LEMMA NoRowSound ==
    ASSUME NEW s \in World, NEW T, NEW p \in Slot PROVE RowSound(s, T, p, NoRow)
BY DEF RowSound, NoRow, Known

(* A file leaves its place.                                                *)
LEMMA SoundBinned ==
    ASSUME NEW s \in World, NEW T \in SUBSET Content, Sound(s, T), NEW p \in Slot
    PROVE  LET t == Binned(s, p)
           IN  t \in World /\ Sound(t, T) /\ Grows(s, t)
<1> DEFINE t == Binned(s, p)
<1>1. /\ t \in World /\ t.disk = [s.disk EXCEPT ![p] = NoFile]
      /\ <<t.rec, t.obj, t.rev, t.shown>> = <<s.rec, s.obj, s.rev, s.shown>>
  BY BinnedIs
<1> HIDE DEF t
<1>2. Grows(s, t)
  BY <1>1, WorldType DEF Grows
<1>3. \A q \in Slot : t.disk[q] \in {s.disk[q], NoFile}
  BY <1>1, WorldType
<1>4. DriveSound(t, T) /\ FilesSound(t, T)
  BY <1>1, <1>3, NoFileType DEF DriveSound, FilesSound, Sound, Slot
<1>5. ASSUME NEW q \in Slot PROVE RowSound(t, T, q, t.rec[q])
  <2>1. s.rec[q] \in Row /\ RowSound(s, T, q, s.rec[q]) /\ t.rec[q] = s.rec[q]
    BY <1>1, WorldType DEF Sound
  <2>2. NoFile.c = None /\ None \notin T
    BY NoFileType, NoneAssumption
  <2>3. /\ t.disk.orig.c = s.disk.orig.c \/ t.disk.orig.c \notin T
        /\ \A x \in Slot : t.disk[x].c = None \/ \E y \in Slot : t.disk[x] = s.disk[y]
    BY <1>3, <2>2 DEF Slot
  <2>4. t \in World
    BY <1>1
  <2>5. RowSound(t, T, q, s.rec[q])
    BY <1>2, <2>1, <2>3, <2>4, RowKept
  <2> QED BY <2>1, <2>5
<1> QED BY <1>1, <1>2, <1>4, <1>5 DEF Sound, t

LEMMA SoundSetAside ==
    ASSUME NEW s \in World, NEW T \in SUBSET Content, Sound(s, T), NEW p \in Slot
    PROVE  LET t == SetAside(s, p)
           IN  t \in World /\ Sound(t, T) /\ Grows(s, t)
<1> DEFINE t == SetAside(s, p)
<1>1. /\ t \in World
      /\ t.disk = [q \in Slot |-> IF q = p THEN NoFile ELSE
                       IF q = "copy" THEN s.disk.orig ELSE s.disk[q]]
      /\ t.rec = IF p = "copy" THEN s.rec ELSE [s.rec EXCEPT !.copy = NoRow]
      /\ <<t.bin, t.rev, t.shown>> = <<s.bin, s.rev, s.shown>>
      /\ \A o \in ObjId : /\ t.obj[o].st = s.obj[o].st /\ t.obj[o].c = s.obj[o].c
                          /\ t.obj[o].ver = s.obj[o].ver
  BY SetAsideIs
<1> HIDE DEF t
<1>2. Grows(s, t)
  BY <1>1, WorldType DEF Grows
<1>3. DriveSound(t, T)
  BY <1>1 DEF DriveSound, Sound
<1>4. /\ t.disk.orig \in {s.disk.orig, NoFile}
      /\ t.disk.copy \in {s.disk.orig, NoFile}
      /\ t.disk.orig = NoFile \/ t.disk.copy = NoFile
  BY <1>1 DEF Slot
<1>5. FilesSound(t, T)
  BY <1>4, NoFileType DEF FilesSound, Sound, Slot
<1>6. ASSUME NEW q \in Slot PROVE RowSound(t, T, q, t.rec[q])
  <2>1. s.rec[q] \in Row /\ RowSound(s, T, q, s.rec[q])
    BY WorldType DEF Sound
  <2>2. NoFile.c = None /\ None \notin T
    BY NoFileType, NoneAssumption
  <2>3. /\ t.disk.orig.c = s.disk.orig.c \/ t.disk.orig.c \notin T
        /\ \A x \in Slot : t.disk[x].c = None \/ \E y \in Slot : t.disk[x] = s.disk[y]
    BY <1>4, <2>2 DEF Slot
  <2>4. RowSound(t, T, q, s.rec[q])
    BY <1>1, <1>2, <2>1, <2>3, RowKept
  <2>5. t.rec[q] \in {s.rec[q], NoRow}
    BY <1>1, WorldType DEF Slot
  <2> QED BY <1>1, <2>4, <2>5, NoRowSound
<1> QED BY <1>1, <1>2, <1>3, <1>5, <1>6 DEF Sound, t

(* A file comes from the drive, with a time that nobody has.               *)
LEMMA SoundDownloaded ==
    ASSUME NEW s \in World, NEW T \in SUBSET Content, Sound(s, T), NEW p \in Slot,
           NEW r, r.id \in ObjId \cup {None}, r.ver \in Num, r.sz \in Num,
           NEW c \in T, NEW m \in Stamp,
           \A q \in Slot : m # s.disk[q].mt /\ m # s.rec[q].lmt,
           Known(s, r.id, r.ver), WasShown(s, r.id, r.ver, c)
    PROVE  LET t == Downloaded(s, p, r, c, m)
           IN  t \in World /\ Sound(t, T) /\ Grows(s, t)
<1> DEFINE t   == Downloaded(s, p, r, c, m)
           row == RowOf(r.id, m, Size[c], c, r.ver, r.sz, "synced")
<1>1. /\ t \in World /\ row \in Row
      /\ t.disk = [s.disk EXCEPT ![p] = [c |-> c, mt |-> m]]
      /\ t.rec  = [s.rec EXCEPT ![p] = row]
      /\ <<t.obj, t.rev, t.shown>> = <<s.obj, s.rev, s.shown>>
  BY DownloadedIs
<1>2. row.id = r.id /\ row.rver = r.ver /\ row.lc = c /\ row.lmt = m /\ row.st = "synced"
  BY DEF RowOf
<1> HIDE DEF t, row
<1>3. Grows(s, t)
  BY <1>1, WorldType DEF Grows
<1>4. m # None /\ c # None /\ c \in Content
  BY NoneAssumption
<1>5. /\ t.disk[p].c = c /\ t.disk[p].mt = m
      /\ \A q \in Slot \ {p} : t.disk[q] = s.disk[q] /\ t.rec[q] = s.rec[q]
      /\ t.rec[p] = row
  BY <1>1, WorldType
<1>6. DriveSound(t, T)
  BY <1>1 DEF DriveSound, Sound
<1>7. FilesSound(t, T)
  BY <1>4, <1>5 DEF FilesSound, Sound, Slot
<1>8. RowSound(t, T, p, row)
  <2>1. Known(t, r.id, r.ver) /\ WasShown(t, r.id, r.ver, c)
    BY <1>1 DEF Known, WasShown
  <2>2. ASSUME NEW q \in Slot, m = t.disk[q].mt PROVE t.disk[q].c = c
    BY <1>5, <2>2
  <2> QED BY <1>2, <1>4, <2>1, <2>2 DEF RowSound
<1>9. ASSUME NEW q \in Slot, q # p PROVE RowSound(t, T, q, s.rec[q])
  <2>1. s.rec[q] \in Row /\ RowSound(s, T, q, s.rec[q])
    BY WorldType DEF Sound
  <2>2. ASSUME NEW x \in Slot, s.rec[q].lmt = t.disk[x].mt
        PROVE  t.disk[x].c = None \/ \E y \in Slot : t.disk[x] = s.disk[y]
    BY <1>5, <2>2
  <2>3. NoReturn /\ q = "orig" => t.disk.orig.c = s.disk.orig.c \/ t.disk.orig.c \notin T
    BY <1>5, <1>9
  <2> QED BY <1>1, <1>3, <2>1, <2>2, <2>3, RowKept
<1> QED BY <1>1, <1>3, <1>5, <1>6, <1>7, <1>8, <1>9 DEF Sound, t

-----------------------------------------------------------------------------
(* What the drive answers, and the ids and times that are left.            *)
Vacant(s) == {o \in ObjId : s.obj[o].st = "none"}

LEMMA FreshIs ==
    ASSUME NEW s, MayPost(s)
    PROVE  Fresh(s) \in ObjId /\ s.obj[Fresh(s)].st = "none"
BY DEF MayPost, Fresh

LEMMA FreshStamps ==
    ASSUME Several(Stamp \ InUse)
    PROVE  /\ FreshStamp("orig") \in Stamp \ InUse
           /\ FreshStamp("copy") \in Stamp \ InUse
           /\ FreshStamp("orig") # FreshStamp("copy")
<1> DEFINE free == Stamp \ InUse
           one  == CHOOSE m \in free : TRUE
           two  == CHOOSE m \in free \ {one} : TRUE
<1>1. PICK a \in free, b \in free : a # b
  BY DEF Several
<1> HIDE DEF free
<1>2. one \in free
  BY <1>1
<1> HIDE DEF one
<1>3. \E m : m \in free \ {one}
  BY <1>1
<1>4. two \in free \ {one}
  BY <1>3
<1> HIDE DEF two
<1>5. FreshStamp("orig") = one /\ FreshStamp("copy") = two
  BY DEF FreshStamp, free, one, two
<1> QED BY <1>2, <1>4, <1>5 DEF free

LEMMA SeveralLeft ==
    ASSUME NEW s, NEW t, Several(Vacant(s)), NEW x, Vacant(s) \subseteq Vacant(t) \cup {x}
    PROVE  MayPost(t)
BY DEF Several, Vacant, MayPost

LEMMA ListingIs ==
    ASSUME NEW s \in World, NEW p \in Slot
    PROVE  LET r == Listing(s, p)
           IN  /\ r \in Sight /\ Known(s, r.id, r.ver)
               /\ LiveAt(s, p) = {} => r = NoRemote
               /\ LiveAt(s, p) # {} => /\ r.id \in LiveAt(s, p) /\ r.id # None
                                       /\ r.ver = s.obj[r.id].ver
<1> DEFINE r == Listing(s, p)
<1>1. CASE LiveAt(s, p) = {}
  <2>1. r = NoRemote /\ None \in Num
    BY <1>1 DEF Listing, Num
  <2> QED BY <1>1, <2>1 DEF NoRemote, Known, Sight
<1>2. CASE LiveAt(s, p) # {}
  <2> DEFINE o == CHOOSE o \in LiveAt(s, p) : TRUE
  <2>1. o \in LiveAt(s, p)
    BY <1>2
  <2>2. o \in ObjId /\ s.obj[o].st = "live"
    BY <2>1 DEF LiveAt
  <2>3. /\ s.obj[o].ver \in Nat /\ s.obj[o].c \in Content
    BY <2>2, WorldType
  <2> HIDE DEF o
  <2>4. r = [id |-> o, ver |-> s.obj[o].ver, sz |-> Size[s.obj[o].c], c |-> None]
    BY <1>2 DEF Listing, o
  <2>5. Size[s.obj[o].c] \in Nat
    BY <2>3, SizeAssumption
  <2>6. r \in Sight
    BY <2>2, <2>3, <2>4, <2>5 DEF Sight, Num
  <2>7. Known(s, r.id, r.ver)
    BY <2>2, <2>3, <2>4, NoneAssumption DEF Known
  <2> QED BY <1>2, <2>1, <2>2, <2>4, <2>6, <2>7, NoneAssumption
<1> QED BY <1>1, <1>2

LEMMA SeesIs ==
    ASSUME w \in World, NEW p \in Slot, NEW full \in BOOLEAN
    PROVE  LET r == Sees(w, p, full)
           IN  /\ r.id \in ObjId \cup {None} /\ r.ver \in Num /\ r.sz \in Num
               /\ Known(w, r.id, r.ver)
               /\ r.id # None => w.obj[r.id].st = "live" /\ r.ver = w.obj[r.id].ver
<1> DEFINE l == Listing(w, p)
           r == Sees(w, p, full)
<1>1. /\ l \in Sight /\ Known(w, l.id, l.ver)
      /\ l.id # None => w.obj[l.id].st = "live" /\ l.ver = w.obj[l.id].ver
  BY ListingIs DEF LiveAt, NoRemote
<1>2. r \in {l, NoRemote, [l EXCEPT !.c = w.obj[l.id].c]}
  BY DEF Sees
<1> HIDE DEF l, r
<1>3. /\ r.id = l.id /\ r.ver = l.ver /\ r.sz = l.sz
      \/ r = NoRemote
  BY <1>1, <1>2 DEF Sight
<1> QED BY <1>1, <1>3 DEF Sight, NoRemote, Known, Num, r

-----------------------------------------------------------------------------
(* What one step of a sync pass does to the world s.                       *)
KeptBy(s) == s.bin \cup s.aside \cup {s.disk[p].c : p \in Slot} \cup {v.c : v \in s.shown}
Keeps(s, t) == KeptBy(s) \subseteq KeptBy(t) \cup {None}

(* Only one id is taken, and the other file and its row stay.              *)
Local(s, t, p) ==
    /\ \E x \in ObjId : Vacant(s) \subseteq Vacant(t) \cup {x}
    /\ \A q \in Slot \ {p} : t.rec[q] = s.rec[q] /\ t.disk[q] = s.disk[q]

(* The time m is nobody's.                                                 *)
Free(s, m) == /\ m # None
              /\ \A q \in Slot : s.disk[q].mt # m /\ s.rec[q].lmt # m

LEMMA SomeId ==
    ASSUME NEW s, NEW t, Vacant(s) \subseteq Vacant(t)
    PROVE  \E x \in ObjId : Vacant(s) \subseteq Vacant(t) \cup {x}
BY SomeAssumption

LEMMA KeepsOn ==
    ASSUME NEW s, NEW t, NEW u, Keeps(s, t), Keeps(t, u) PROVE Keeps(s, u)
BY DEF Keeps

LEMMA StoredStep ==
    ASSUME NEW s \in World, NEW o \in ObjId, NEW p \in Slot \cup {"away"},
           NEW v \in Nat, NEW c \in Content
    PROVE  LET t == Stored(s, o, p, v, c)
           IN  Keeps(s, t) /\ Vacant(s) \subseteq Vacant(t) \cup {o}
<1> DEFINE t == Stored(s, o, p, v, c)
<1>1. /\ t.disk = s.disk /\ t.bin = s.bin /\ t.aside = s.aside
      /\ t.shown = s.shown \cup {Version(o, v, c)}
      /\ \A x \in ObjId \ {o} : t.obj[x] = s.obj[x]
  BY DEF World, Stored, Version
<1> HIDE DEF t
<1> QED BY <1>1 DEF Keeps, KeptBy, Vacant, t

LEMMA RecordedStep ==
    ASSUME NEW s \in World, NEW p \in Slot, NEW row \in Row
    PROVE  LET t == Recorded(s, p, row)
           IN  /\ t \in World /\ Grows(s, t) /\ Keeps(s, t)
               /\ t.disk = s.disk /\ t.rec[p] = row /\ Vacant(t) = Vacant(s)
               /\ \A q \in Slot \ {p} : t.rec[q] = s.rec[q]
<1> DEFINE t == Recorded(s, p, row)
<1>1. /\ t \in World /\ t.rec = [s.rec EXCEPT ![p] = row]
      /\ <<t.disk, t.bin, t.aside, t.obj, t.rev, t.shown>>
            = <<s.disk, s.bin, s.aside, s.obj, s.rev, s.shown>>
  BY RecordedIs
<1> HIDE DEF t
<1>2. Grows(s, t) /\ Keeps(s, t) /\ Vacant(t) = Vacant(s)
  BY <1>1, WorldType DEF Grows, Keeps, KeptBy, Vacant
<1> QED BY <1>1, <1>2, WorldType DEF t

(* A file is on the drive: its row says so.                                *)
LEMMA SentRowSound ==
    ASSUME NEW s \in World, NEW T \in SUBSET Content, Sound(s, T), NEW p \in Slot,
           s.disk[p].c # None,
           NEW row, NEW o \in ObjId, s.obj[o].st # "none",
           Version(o, s.obj[o].ver, s.disk[p].c) \in s.shown,
           row.id = o, row.rver = s.obj[o].ver, row.lc = s.disk[p].c,
           row.lmt = s.disk[p].mt, row.st # "none"
    PROVE  RowSound(s, T, p, row)
<1>1. /\ s.disk[p] \in Disk /\ s.obj[o].ver \in Nat
  BY WorldType
<1>2. s.disk[p].mt # None
  BY <1>1, DiskType
<1>3. Known(s, row.id, row.rver)
  BY <1>1, NoneAssumption DEF Known
<1>4. WasShown(s, row.id, row.rver, row.lc)
  BY <1>1 DEF WasShown, Version
<1>5. row.lc \in T
  BY DEF Sound, FilesSound
<1>6. ASSUME NEW q \in Slot, row.lmt = s.disk[q].mt PROVE s.disk[q].c = row.lc
  BY <1>2, <1>6 DEF Sound, FilesSound, Slot
<1> QED BY <1>3, <1>4, <1>5, <1>6 DEF RowSound

LEMMA UploadedStep ==
    ASSUME NEW s \in World, NEW p \in Slot, s.disk[p].c # None, MayPost(s)
    PROVE  LET t == Uploaded(s, p)
           IN  /\ t \in World /\ Grows(s, t) /\ Keeps(s, t) /\ Local(s, t, p)
               /\ t.disk = s.disk
               /\ \A m : Free(s, m) => Free(t, m)
               /\ \A T \in SUBSET Content : Sound(s, T) => Sound(t, T)
<1> DEFINE r == Listing(s, p)
           e == EntryAt(s, p)
           c == s.disk[p].c
           t == Uploaded(s, p)
<1>0. /\ s.disk[p] \in Disk /\ c \in Content /\ e.mt \in Stamp /\ e.sz \in Nat
      /\ e.mt = s.disk[p].mt
  BY WorldType, DiskType, SizeAssumption DEF EntryAt, SizeOf
<1> HIDE DEF e, c, t
<1>1. ASSUME NEW o \in ObjId, NEW v \in Nat,
             s.obj[o].st = "none" \/ s.obj[o].ver <= v,
             t = Recorded(Stored(s, o, p, v, c), p, RowOf(o, e.mt, e.sz, c, v, e.sz, "synced"))
      PROVE  /\ t \in World /\ Grows(s, t) /\ Keeps(s, t) /\ Local(s, t, p)
             /\ t.disk = s.disk
             /\ \A m : Free(s, m) => Free(t, m)
             /\ \A T \in SUBSET Content : Sound(s, T) => Sound(t, T)
  <2> DEFINE u   == Stored(s, o, p, v, c)
             row == RowOf(o, e.mt, e.sz, c, v, e.sz, "synced")
  <2>1. /\ u \in World /\ u.disk = s.disk /\ u.rec = s.rec /\ u.rev = s.rev + 1
        /\ u.shown = s.shown \cup {Version(o, v, c)}
        /\ u.obj = [s.obj EXCEPT ![o] =
              [st |-> "live", at |-> p, ver |-> v, c |-> c, rev |-> s.rev + 1]]
    BY <1>0, StoredIs
  <2>2. Keeps(s, u) /\ Vacant(s) \subseteq Vacant(u) \cup {o}
    BY <1>0, StoredStep
  <2>3. row \in Row /\ row.id = o /\ row.lmt = e.mt /\ row.lc = c /\ row.rver = v
        /\ row.st = "synced"
    BY <1>0 DEF RowOf, Row, Num, Status
  <2> HIDE DEF u, row
  <2>4. u.obj[o].st = "live" /\ u.obj[o].ver = v /\ Version(o, v, c) \in u.shown
    BY <2>1, WorldType
  <2>5. Grows(s, u)
    BY <1>1, <2>1, WorldType DEF Grows
  <2>6. t = Recorded(u, p, row)
    BY <1>1 DEF u, row
  <2>7. /\ t \in World /\ Grows(u, t) /\ Keeps(u, t)
        /\ t.disk = u.disk /\ t.rec[p] = row /\ Vacant(t) = Vacant(u)
        /\ \A q \in Slot \ {p} : t.rec[q] = u.rec[q]
    BY <2>1, <2>3, <2>6, RecordedStep
  <2>8. Grows(s, t) /\ Keeps(s, t)
    BY <2>1, <2>2, <2>5, <2>7, GrowsOn, KeepsOn
  <2>9. Local(s, t, p)
    BY <2>1, <2>2, <2>7 DEF Local
  <2>10. ASSUME NEW m, Free(s, m) PROVE Free(t, m)
    BY <1>0, <2>1, <2>3, <2>7, <2>10 DEF Free
  <2>11. ASSUME NEW T \in SUBSET Content, Sound(s, T) PROVE Sound(t, T)
    <3>1. c \in T
      BY <1>0, <2>11, NoneAssumption DEF Sound, FilesSound, c
    <3>2. Sound(u, T)
      BY <1>1, <2>11, <3>1, SoundStored DEF u
    <3>3. RowSound(u, T, p, row)
      BY <1>0, <2>1, <2>3, <2>4, <3>2, SentRowSound DEF c
    <3> QED BY <2>1, <2>3, <2>6, <3>2, <3>3, SoundRecorded
  <2> QED BY <2>1, <2>7, <2>8, <2>9, <2>10, <2>11
<1>2. CASE r.id = None
  <2>1. Fresh(s) \in ObjId /\ s.obj[Fresh(s)].st = "none"
    BY FreshIs
  <2>2. t = Recorded(Stored(s, Fresh(s), p, 0, c), p,
                     RowOf(Fresh(s), e.mt, e.sz, c, 0, e.sz, "synced"))
    BY <1>2 DEF Uploaded, NewFile, t, c, e
  <2> QED BY <1>1, <2>1, <2>2 DEF t
<1>3. CASE r.id # None /\ (r.id # s.rec[p].id \/ (s.rec[p].rver # None /\ r.ver > s.rec[p].rver))
  <2> DEFINE row == [s.rec[p] EXCEPT !.st = "pending_upload"]
  <2>1. t = Marked(s, p, "pending_upload")
    BY <1>3 DEF Uploaded, t
  <2>2. t = Recorded(s, p, row) /\ row \in Row /\ row.lmt = s.rec[p].lmt
    BY <2>1, MarkedIs DEF Status
  <2> HIDE DEF row
  <2>3. /\ t \in World /\ Grows(s, t) /\ Keeps(s, t)
        /\ t.disk = s.disk /\ t.rec[p] = row /\ Vacant(t) = Vacant(s)
        /\ \A q \in Slot \ {p} : t.rec[q] = s.rec[q]
    BY <2>2, RecordedStep
  <2>4. Local(s, t, p)
    BY <2>3, SomeId DEF Local
  <2>5. ASSUME NEW m, Free(s, m) PROVE Free(t, m)
    BY <2>2, <2>3, <2>5 DEF Free
  <2>6. ASSUME NEW T \in SUBSET Content, Sound(s, T) PROVE Sound(t, T)
    BY <2>1, <2>6, SoundMarked DEF Status
  <2> QED BY <2>3, <2>4, <2>5, <2>6 DEF t
<1>4. CASE /\ r.id # None
           /\ ~(r.id # s.rec[p].id \/ (s.rec[p].rver # None /\ r.ver > s.rec[p].rver))
  <2>1. LiveAt(s, p) # {} /\ r.id \in LiveAt(s, p) /\ r.ver = s.obj[r.id].ver
    BY <1>4, ListingIs DEF NoRemote
  <2> DEFINE o == r.id
             v == r.ver + 1
  <2>2. o \in ObjId /\ s.obj[o].at = p /\ s.obj[o].ver \in Nat /\ r.ver = s.obj[o].ver
    BY <2>1, WorldType DEF LiveAt
  <2>3. v \in Nat /\ s.obj[o].ver <= v
    BY <2>2
  <2>4. t = Recorded(Stored(s, o, p, v, c), p, RowOf(o, e.mt, e.sz, c, v, e.sz, "synced"))
    BY <1>4, <2>2 DEF Uploaded, NewVersion, t, c, e
  <2> HIDE DEF o, v
  <2> QED BY <1>1, <2>2, <2>3, <2>4 DEF t
<1> QED BY <1>2, <1>3, <1>4

(* The decision k on the file p, which saw r on the drive, is taken on a   *)
(* world that had the file and the row that s has.                         *)
Taken(s, p, k, r) ==
    /\ r.id \in ObjId \cup {None} /\ r.ver \in Num /\ r.sz \in Num
    /\ Known(s, r.id, r.ver)
    /\ k \in {"UPLOAD_NEW", "UPLOAD_VERSION", "CONFLICT"} => s.disk[p].c # None
    /\ k \in {"DOWNLOAD_NEW", "DOWNLOAD_UPDATE", "CONFLICT", "TOUCH_BASE"} =>
          r.id # None /\ s.obj[r.id].ver >= r.ver
    /\ k = "DOWNLOAD_NEW" => s.disk[p].c = None
    /\ k = "DOWNLOAD_UPDATE" => s.rec[p].lc # None /\ (MetaSame(s.rec[p], EntryAt(s, p))
                                                     \/ s.disk[p].c = s.rec[p].lc)
    /\ k = "TOUCH_BASE" => s.disk[p].c # None

Told(s, p, k, r) == k = "TOUCH_BASE" => WasShown(s, r.id, r.ver, s.disk[p].c)

(* What a step of the pass changes and keeps.                              *)
Moves(s, t, p, m) ==
    /\ t \in World /\ Grows(s, t)
    /\ p = "copy" => Local(s, t, p) /\ \A x : Free(s, x) /\ x # m => Free(t, x)
Holds(s, t) == \A T \in SUBSET Content : Sound(s, T) => Sound(t, T) /\ Keeps(s, t)

LEMMA DownloadedStep ==
    ASSUME NEW s \in World, NEW p \in Slot, NEW r, NEW c \in Content, NEW m \in Stamp,
           Free(s, m),
           r.id \in ObjId \cup {None}, r.ver \in Num, r.sz \in Num,
           Known(s, r.id, r.ver)
    PROVE  LET t == Downloaded(s, p, r, c, m)
           IN  /\ t \in World /\ Grows(s, t) /\ Local(s, t, p) /\ Vacant(t) = Vacant(s)
               /\ t.disk[p].c = c
               /\ \A x : Free(s, x) /\ x # m => Free(t, x)
               /\ s.disk[p].c \in KeptBy(t) \cup {None} => Keeps(s, t)
               /\ \A T \in SUBSET Content :
                     Sound(s, T) /\ c \in T /\ WasShown(s, r.id, r.ver, c) => Sound(t, T)
<1> DEFINE t   == Downloaded(s, p, r, c, m)
           row == RowOf(r.id, m, Size[c], c, r.ver, r.sz, "synced")
<1>1. /\ t \in World /\ row \in Row
      /\ t.disk = [s.disk EXCEPT ![p] = [c |-> c, mt |-> m]]
      /\ t.rec  = [s.rec EXCEPT ![p] = row]
      /\ <<t.bin, t.aside, t.obj, t.rev, t.shown>>
            = <<s.bin, s.aside, s.obj, s.rev, s.shown>>
  BY DownloadedIs
<1>2. row.lmt = m
  BY DEF RowOf
<1>3. ASSUME NEW T \in SUBSET Content, Sound(s, T), c \in T, WasShown(s, r.id, r.ver, c)
      PROVE  Sound(t, T)
  BY <1>3, SoundDownloaded DEF Free
<1> HIDE DEF t, row
<1>4. Grows(s, t) /\ Vacant(t) = Vacant(s)
  BY <1>1, WorldType DEF Grows, Vacant
<1>5. /\ t.disk[p].c = c /\ t.disk[p].mt = m /\ t.rec[p] = row
      /\ \A q \in Slot \ {p} : t.disk[q] = s.disk[q] /\ t.rec[q] = s.rec[q]
  BY <1>1, WorldType
<1>6. Local(s, t, p)
  BY <1>4, <1>5, SomeId DEF Local
<1>7. ASSUME NEW x, Free(s, x), x # m PROVE Free(t, x)
  BY <1>2, <1>5, <1>7 DEF Free
<1>8. s.disk[p].c \in KeptBy(t) \cup {None} => Keeps(s, t)
  BY <1>1, <1>5 DEF Keeps, KeptBy
<1> QED BY <1>1, <1>3, <1>4, <1>5, <1>6, <1>7, <1>8 DEF t

LEMMA BinnedStep ==
    ASSUME NEW s \in World, NEW p \in Slot
    PROVE  LET t == Binned(s, p)
           IN  /\ t \in World /\ Grows(s, t) /\ Keeps(s, t) /\ Local(s, t, p)
               /\ \A x : Free(s, x) => Free(t, x)
<1> DEFINE t == Binned(s, p)
<1>1. /\ t \in World /\ t.disk = [s.disk EXCEPT ![p] = NoFile]
      /\ t.bin = s.bin \cup ({s.disk[p].c} \ {None})
      /\ <<t.aside, t.rec, t.obj, t.rev, t.shown>>
             = <<s.aside, s.rec, s.obj, s.rev, s.shown>>
  BY BinnedIs
<1> HIDE DEF t
<1>2. Grows(s, t) /\ Vacant(t) = Vacant(s)
  BY <1>1, WorldType DEF Grows, Vacant
<1>3. /\ t.disk[p] = NoFile /\ t.rec = s.rec
      /\ \A q \in Slot \ {p} : t.disk[q] = s.disk[q]
  BY <1>1, WorldType
<1>4. Local(s, t, p)
  BY <1>2, <1>3, SomeId DEF Local
<1>5. Keeps(s, t)
  BY <1>1, <1>3 DEF Keeps, KeptBy
<1>6. ASSUME NEW x, Free(s, x) PROVE Free(t, x)
  BY <1>3, <1>6, NoFileType DEF Free
<1> QED BY <1>1, <1>2, <1>4, <1>5, <1>6 DEF t

LEMMA SetAsideStep ==
    ASSUME NEW s \in World, NEW p \in Slot
    PROVE  LET t == SetAside(s, p)
           IN  /\ t \in World /\ Grows(s, t) /\ Keeps(s, t) /\ Vacant(t) = Vacant(s)
               /\ p = "copy" => Local(s, t, p)
               /\ t.disk[p] = NoFile
               /\ p = "orig" => t.disk.copy = s.disk.orig
               /\ t.rec[p] = s.rec[p]
               /\ \A x \in ObjId : t.obj[x].st = s.obj[x].st /\ t.obj[x].ver = s.obj[x].ver
                                   /\ t.obj[x].c = s.obj[x].c
               /\ \A x : Free(s, x) => Free(t, x)
<1> DEFINE t == SetAside(s, p)
<1>1. /\ t \in World
      /\ t.disk = [q \in Slot |-> IF q = p THEN NoFile ELSE
                       IF q = "copy" THEN s.disk.orig ELSE s.disk[q]]
      /\ t.rec = IF p = "copy" THEN s.rec ELSE [s.rec EXCEPT !.copy = NoRow]
      /\ t.aside = s.aside \cup ({s.disk.copy.c} \ {None})
      /\ <<t.bin, t.rev, t.shown>> = <<s.bin, s.rev, s.shown>>
      /\ \A o \in ObjId : /\ t.obj[o].st = s.obj[o].st /\ t.obj[o].c = s.obj[o].c
                          /\ t.obj[o].ver = s.obj[o].ver
  BY SetAsideIs
<1> HIDE DEF t
<1>2. Grows(s, t) /\ Vacant(t) = Vacant(s)
  BY <1>1, WorldType DEF Grows, Vacant
<1>3. /\ t.disk[p] = NoFile
      /\ p = "orig" => t.disk.copy = s.disk.orig
      /\ p = "copy" => t.disk.orig = s.disk.orig /\ t.rec = s.rec
      /\ t.rec[p] = s.rec[p]
      /\ \A q \in Slot : t.rec[q] \in {s.rec[q], NoRow}
  BY <1>1, WorldType DEF Slot
<1>4. p = "copy" => Local(s, t, p)
  BY <1>2, <1>3, SomeId DEF Local, Slot
<1>5. Keeps(s, t)
  BY <1>1, <1>3 DEF Keeps, KeptBy, Slot
<1>6. ASSUME NEW x, Free(s, x) PROVE Free(t, x)
  BY <1>3, <1>6, NoFileType DEF Free, Slot, NoRow
<1> QED BY <1>1, <1>2, <1>3, <1>4, <1>5, <1>6 DEF t

LEMMA FetchedIs ==
    ASSUME NEW s \in World, NEW r, r.id \in ObjId \cup {None}, r.ver \in Num,
           Known(s, r.id, r.ver), r.id # None
    PROVE  /\ s.obj[r.id].c \in Content
           /\ \A T \in SUBSET Content : Sound(s, T) /\ s.obj[r.id].ver >= r.ver =>
                 s.obj[r.id].c \in T /\ WasShown(s, r.id, r.ver, s.obj[r.id].c)
<1> DEFINE o == r.id
<1>1. o \in ObjId /\ s.obj[o].st # "none"
  BY DEF Known
<1>2. s.obj[o].c \in Content
  BY <1>1, WorldType
<1> HIDE DEF o
<1>3. ASSUME NEW T \in SUBSET Content, Sound(s, T), s.obj[o].ver >= r.ver
      PROVE  s.obj[o].c \in T /\ WasShown(s, o, r.ver, s.obj[o].c)
  <2>1. Version(o, s.obj[o].ver, s.obj[o].c) \in s.shown
    BY <1>1, <1>3 DEF Sound, DriveSound
  <2>2. s.obj[o].c \in T
    BY <1>1, <1>2, <1>3, NoneAssumption DEF Sound, DriveSound
  <2>3. WasShown(s, o, r.ver, s.obj[o].c)
    BY <1>3, <2>1 DEF WasShown, Version
  <2> QED BY <2>2, <2>3
<1> QED BY <1>2, <1>3 DEF o

LEMMA CopiedStep ==
    ASSUME NEW s \in World, NEW p \in Slot, NEW r, MayPost(s), Taken(s, p, "CONFLICT", r),
           FreshStamp(p) \in Stamp, Free(s, FreshStamp(p))
    PROVE  Moves(s, Copied(s, p, r), p, FreshStamp(p)) /\ Holds(s, Copied(s, p, r))
<1> DEFINE m == FreshStamp(p)
           c == s.obj[r.id].c
           u == SetAside(s, p)
           d == Downloaded(u, p, r, c, m)
           t == Copied(s, p, r)
<1>1. /\ r.id \in ObjId \cup {None} /\ r.ver \in Num /\ r.sz \in Num
      /\ Known(s, r.id, r.ver) /\ r.id # None /\ s.obj[r.id].ver >= r.ver
      /\ s.disk[p].c # None
  BY DEF Taken
<1>2. /\ c \in Content
      /\ \A T \in SUBSET Content : Sound(s, T) => c \in T /\ WasShown(s, r.id, r.ver, c)
  BY <1>1, FetchedIs
<1>3. /\ u \in World /\ Grows(s, u) /\ Keeps(s, u) /\ Vacant(u) = Vacant(s)
      /\ p = "copy" => Local(s, u, p)
      /\ u.disk[p] = NoFile
      /\ p = "orig" => u.disk.copy = s.disk.orig
      /\ \A x : Free(s, x) => Free(u, x)
  BY SetAsideStep
<1>4. \A T \in SUBSET Content : Sound(s, T) => Sound(u, T)
  BY SoundSetAside
<1>5. t = IF p = "copy" THEN d ELSE Uploaded(d, "copy")
  BY DEF Copied
<1> HIDE DEF c, u, t
<1>6. Known(u, r.id, r.ver) /\ Free(u, m) /\ m \in Stamp
  BY <1>1, <1>3, KnownKept
<1> HIDE DEF m
<1>7. /\ d \in World /\ Grows(u, d) /\ Local(u, d, p) /\ Vacant(d) = Vacant(u)
      /\ \A x : Free(u, x) /\ x # m => Free(d, x)
      /\ u.disk[p].c \in KeptBy(d) \cup {None} => Keeps(u, d)
      /\ \A T \in SUBSET Content :
            Sound(u, T) /\ c \in T /\ WasShown(u, r.id, r.ver, c) => Sound(d, T)
  BY <1>1, <1>2, <1>3, <1>6, DownloadedStep
<1> HIDE DEF d
<1>8. Grows(s, d) /\ Keeps(s, d)
  <2>1. Keeps(u, d)
    BY <1>3, <1>7, NoFileType
  <2> QED BY <1>3, <1>7, <2>1, GrowsOn, KeepsOn
<1>9. ASSUME NEW T \in SUBSET Content, Sound(s, T) PROVE Sound(d, T)
  <2>1. WasShown(u, r.id, r.ver, c)
    BY <1>2, <1>3, <1>9, WasShownKept
  <2> QED BY <1>2, <1>4, <1>7, <1>9, <2>1
<1>10. CASE p = "copy"
  <2>1. t = d
    BY <1>5, <1>10
  <2>2. Local(s, d, p)
    BY <1>3, <1>7, <1>10 DEF Local
  <2>3. ASSUME NEW x, Free(s, x), x # m PROVE Free(d, x)
    BY <1>3, <1>7, <2>3
  <2> QED BY <1>7, <1>8, <1>9, <1>10, <2>1, <2>2, <2>3 DEF Moves, Holds, t, m
<1>11. CASE p = "orig"
  <2>1. t = Uploaded(d, "copy")
    BY <1>5, <1>11
  <2>2. "copy" \in Slot /\ d.disk.copy.c # None
    BY <1>1, <1>3, <1>7, <1>11 DEF Local, Slot
  <2>3. MayPost(d)
    BY <1>3, <1>7 DEF MayPost, Vacant
  <2>4. /\ t \in World /\ Grows(d, t) /\ Keeps(d, t)
        /\ \A T \in SUBSET Content : Sound(d, T) => Sound(t, T)
    BY <1>7, <2>1, <2>2, <2>3, UploadedStep
  <2>5. Grows(s, t) /\ Keeps(s, t)
    BY <1>7, <1>8, <2>4, GrowsOn, KeepsOn
  <2> QED BY <1>9, <1>11, <2>4, <2>5 DEF Moves, Holds, t
<1> QED BY <1>10, <1>11 DEF Slot

(* An item of the pass that succeeds.                                      *)
LEMMA ActedStep ==
    ASSUME NEW s \in World, NEW p \in Slot, NEW k, NEW r, MayPost(s), Taken(s, p, k, r),
           FreshStamp(p) \in Stamp, Free(s, FreshStamp(p))
    PROVE  /\ Moves(s, Acted(s, p, k, r), p, FreshStamp(p))
           /\ Told(s, p, k, r) => Holds(s, Acted(s, p, k, r))
<1> DEFINE m == FreshStamp(p)
           t == Acted(s, p, k, r)
<1>0. /\ r.id \in ObjId \cup {None} /\ r.ver \in Num /\ r.sz \in Num
      /\ Known(s, r.id, r.ver) /\ s.disk[p] \in Disk /\ s.rec[p] \in Row
  BY WorldType DEF Taken
<1>1. CASE k \in {"UPLOAD_NEW", "UPLOAD_VERSION"}
  <2>1. t = Uploaded(s, p)
    BY <1>1 DEF Acted
  <2>2. s.disk[p].c # None
    BY <1>1 DEF Taken
  <2> QED BY <2>1, <2>2, UploadedStep DEF Moves, Holds
<1>2. CASE k \in {"DOWNLOAD_NEW", "DOWNLOAD_UPDATE"}
  <2> DEFINE c == s.obj[r.id].c
  <2>1. t = Downloaded(s, p, r, c, m)
    BY <1>2 DEF Acted
  <2>2. r.id # None /\ s.obj[r.id].ver >= r.ver
    BY <1>2 DEF Taken
  <2>3. /\ c \in Content
        /\ \A T \in SUBSET Content : Sound(s, T) => c \in T /\ WasShown(s, r.id, r.ver, c)
    BY <1>0, <2>2, FetchedIs
  <2> HIDE DEF c, t, m
  <2>4. /\ t \in World /\ Grows(s, t) /\ Local(s, t, p)
        /\ \A x : Free(s, x) /\ x # m => Free(t, x)
        /\ s.disk[p].c \in KeptBy(t) \cup {None} => Keeps(s, t)
        /\ \A T \in SUBSET Content :
              Sound(s, T) /\ c \in T /\ WasShown(s, r.id, r.ver, c) => Sound(t, T)
    BY <1>0, <2>1, <2>3, DownloadedStep DEF m
  <2>5. ASSUME NEW T \in SUBSET Content, Sound(s, T)
        PROVE  s.disk[p].c \in KeptBy(t) \cup {None}
    <3>1. CASE k = "DOWNLOAD_NEW"
      BY <3>1 DEF Taken
    <3>2. CASE k = "DOWNLOAD_UPDATE" /\ s.disk[p].c # None
      <4>1. s.rec[p].lc # None /\ (MetaSame(s.rec[p], EntryAt(s, p))
                                   \/ s.disk[p].c = s.rec[p].lc)
        BY <3>2 DEF Taken
      <4>2. RowSound(s, T, p, s.rec[p])
        BY <2>5 DEF Sound
      <4>3. s.disk[p].c = s.rec[p].lc
        BY <3>2, <4>1, <4>2 DEF RowSound, MetaSame, EntryAt
      <4>4. WasShown(s, s.rec[p].id, s.rec[p].rver, s.rec[p].lc)
        BY <4>1, <4>2, <4>3 DEF RowSound, Outdated
      <4>5. s.disk[p].c \in {v.c : v \in s.shown}
        BY <4>3, <4>4 DEF WasShown
      <4> QED BY <2>4, <4>5 DEF Grows, KeptBy
    <3> QED BY <1>2, <3>1, <3>2
  <2> QED BY <2>3, <2>4, <2>5 DEF Moves, Holds, t, m
<1>3. CASE k = "CONFLICT"
  BY <1>3, CopiedStep DEF Acted
<1>4. CASE k \in {"LOCAL_TRASH", "FORGET"}
  <2> DEFINE u == IF k = "FORGET" THEN s ELSE Binned(s, p)
  <2>1. t = Recorded(u, p, NoRow)
    BY <1>4 DEF Acted
  <2>2. /\ u \in World /\ Grows(s, u) /\ Keeps(s, u) /\ Local(s, u, p)
        /\ \A x : Free(s, x) => Free(u, x)
    <3>1. Local(s, s, p)
      BY SomeId DEF Local
    <3> QED BY <3>1, BinnedStep, GrowsSelf DEF Keeps
  <2>3. \A T \in SUBSET Content : Sound(s, T) => Sound(u, T)
    BY SoundBinned
  <2> HIDE DEF u
  <2>4. /\ t \in World /\ Grows(u, t) /\ Keeps(u, t)
        /\ t.disk = u.disk /\ t.rec[p] = NoRow /\ Vacant(t) = Vacant(u)
        /\ \A q \in Slot \ {p} : t.rec[q] = u.rec[q]
    BY <2>1, <2>2, RecordedStep, NoRowType
  <2>5. \A T \in SUBSET Content : Sound(s, T) => Sound(t, T)
    BY <2>1, <2>2, <2>3, NoRowSound, NoRowType, SoundRecorded
  <2>6. Grows(s, t) /\ Keeps(s, t)
    BY <2>2, <2>4, GrowsOn, KeepsOn
  <2>7. Local(s, t, p)
    BY <2>2, <2>4 DEF Local
  <2>8. ASSUME NEW x, Free(s, x) PROVE Free(t, x)
    BY <2>2, <2>4, <2>8 DEF Free, NoRow
  <2> QED BY <2>4, <2>5, <2>6, <2>7, <2>8 DEF Moves, Holds
<1>5. CASE k = "REMOTE_TRASH"
  <2> DEFINE u == Trashed(s, s.rec[p].id)
  <2>0. s.rec[p].id \in ObjId \cup {None}
    BY <1>0, RowType
  <2>1. t = Recorded(u, p, NoRow)
    BY <1>5 DEF Acted
  <2>2. /\ u \in World
        /\ <<u.disk, u.bin, u.aside, u.rec, u.shown>>
              = <<s.disk, s.bin, s.aside, s.rec, s.shown>>
        /\ u.rev >= s.rev
        /\ \A x \in ObjId : /\ u.obj[x].at = s.obj[x].at /\ u.obj[x].c = s.obj[x].c
                            /\ u.obj[x].ver = s.obj[x].ver
                            /\ u.obj[x].st = "none" <=> s.obj[x].st = "none"
    BY <2>0, TrashedIs
  <2>3. \A T \in SUBSET Content : Sound(s, T) => Sound(u, T)
    BY <2>0, SoundTrashed
  <2> HIDE DEF u
  <2>4. Grows(s, u) /\ Keeps(s, u) /\ Vacant(s) = Vacant(u)
    BY <2>2, WorldType DEF Grows, Keeps, KeptBy, Vacant
  <2>5. /\ t \in World /\ Grows(u, t) /\ Keeps(u, t)
        /\ t.disk = u.disk /\ t.rec[p] = NoRow /\ Vacant(t) = Vacant(u)
        /\ \A q \in Slot \ {p} : t.rec[q] = u.rec[q]
    BY <2>1, <2>2, RecordedStep, NoRowType
  <2>6. \A T \in SUBSET Content : Sound(s, T) => Sound(t, T)
    BY <2>1, <2>2, <2>3, NoRowSound, NoRowType, SoundRecorded
  <2>7. Grows(s, t) /\ Keeps(s, t)
    BY <2>2, <2>4, <2>5, GrowsOn, KeepsOn
  <2>8. Local(s, t, p)
    BY <2>2, <2>4, <2>5, SomeId DEF Local
  <2>9. ASSUME NEW x, Free(s, x) PROVE Free(t, x)
    BY <2>2, <2>5, <2>9 DEF Free, NoRow
  <2> QED BY <2>5, <2>6, <2>7, <2>8, <2>9 DEF Moves, Holds
<1>6. CASE k = "TOUCH_BASE"
  <2> DEFINE c   == s.disk[p].c
             row == RowOf(r.id, s.disk[p].mt, SizeOf(c), c, r.ver, r.sz, "synced")
  <2>1. t = Recorded(s, p, row)
    BY <1>6 DEF Acted
  <2>2. c \in Content /\ s.disk[p].mt \in Stamp
    BY <1>0, <1>6, DiskType DEF Taken
  <2>3. /\ row \in Row /\ row.id = r.id /\ row.rver = r.ver /\ row.lc = c
        /\ row.lmt = s.disk[p].mt /\ row.st = "synced"
    BY <1>0, <2>2, SizeOfType DEF RowOf, Row, Status
  <2>4. ASSUME NEW T \in SUBSET Content, Sound(s, T), Told(s, p, k, r)
        PROVE  RowSound(s, T, p, row)
    <3>0. WasShown(s, r.id, r.ver, c)
      BY <1>6, <2>4 DEF Told
    <3>1. c \in T
      BY <2>2, <2>4, NoneAssumption DEF Sound, FilesSound
    <3>2. ASSUME NEW q \in Slot, row.lmt = s.disk[q].mt PROVE s.disk[q].c = c
      BY <2>2, <2>3, <2>4, <3>2, NoneAssumption DEF Sound, FilesSound, Slot
    <3> QED BY <1>0, <2>2, <2>3, <3>0, <3>1, <3>2 DEF RowSound
  <2> HIDE DEF row, c
  <2>5. /\ t \in World /\ Grows(s, t) /\ Keeps(s, t)
        /\ t.disk = s.disk /\ t.rec[p] = row /\ Vacant(t) = Vacant(s)
        /\ \A q \in Slot \ {p} : t.rec[q] = s.rec[q]
    BY <2>1, <2>3, RecordedStep
  <2>6. Told(s, p, k, r) => \A T \in SUBSET Content : Sound(s, T) => Sound(t, T)
    BY <2>1, <2>3, <2>4, SoundRecorded
  <2>7. Local(s, t, p)
    BY <2>5, SomeId DEF Local
  <2>8. ASSUME NEW x, Free(s, x) PROVE Free(t, x)
    BY <2>3, <2>5, <2>8 DEF Free
  <2> QED BY <2>5, <2>6, <2>7, <2>8 DEF Moves, Holds
<1>7. CASE k \notin Acting
  <2>1. t = s
    BY <1>7 DEF Acted, Acting
  <2>2. Local(s, s, p)
    BY SomeId DEF Local
  <2> QED BY <2>1, <2>2, GrowsSelf DEF Moves, Holds, Keeps
<1> QED BY <1>1, <1>2, <1>3, <1>4, <1>5, <1>6, <1>7 DEF Acting

(* An item of the pass that fails.                                         *)
LEMMA SpoiltStep ==
    ASSUME NEW s \in World, NEW p \in Slot, NEW k, NEW r, NEW m,
           r.id \in ObjId \cup {None}, Known(s, r.id, r.ver)
    PROVE  Moves(s, Spoilt(s, p, k, r), p, m) /\ Holds(s, Spoilt(s, p, k, r))
<1> DEFINE t   == Spoilt(s, p, k, r)
           row == [s.rec[p] EXCEPT !.id = IF s.rec[p].st = "none" THEN r.id ELSE @,
                                   !.st = "error"]
<1>0. s.rec[p] \in Row
  BY WorldType
<1>1. CASE k \notin Acting
  <2>1. t = s
    BY <1>1 DEF Spoilt
  <2>2. Local(s, s, p)
    BY SomeId DEF Local
  <2> QED BY <2>1, <2>2, GrowsSelf DEF Moves, Holds, Keeps
<1>2. CASE k \in Acting
  <2>1. /\ row \in Row /\ row.lmt = s.rec[p].lmt /\ row.lc = s.rec[p].lc
        /\ row.rver = s.rec[p].rver /\ row.st = "error"
        /\ row.id = IF s.rec[p].st = "none" THEN r.id ELSE s.rec[p].id
    BY <1>0 DEF Row, Status
  <2>2. t = Recorded(s, p, row)
    BY <1>0, <1>2 DEF Spoilt, Erred, Marked, Recorded, World
  <2> HIDE DEF row, t
  <2>3. /\ t \in World /\ Grows(s, t) /\ Keeps(s, t)
        /\ t.disk = s.disk /\ t.rec[p] = row /\ Vacant(t) = Vacant(s)
        /\ \A q \in Slot \ {p} : t.rec[q] = s.rec[q]
    BY <2>1, <2>2, RecordedStep
  <2>4. ASSUME NEW T \in SUBSET Content, Sound(s, T) PROVE Sound(t, T)
    <3>1. RowSound(s, T, p, s.rec[p])
      BY <2>4 DEF Sound
    <3>2. RowSound(s, T, p, row)
      <4>1. CASE s.rec[p].st = "none"
        BY <2>1, <3>1, <4>1 DEF RowSound, Known
      <4>2. CASE s.rec[p].st # "none"
        BY <2>1, <3>1, <4>2 DEF RowSound
      <4> QED BY <4>1, <4>2
    <3> QED BY <2>1, <2>2, <2>4, <3>2, SoundRecorded
  <2>5. Local(s, t, p)
    BY <2>3, SomeId DEF Local
  <2>6. ASSUME NEW x, Free(s, x) PROVE Free(t, x)
    BY <2>1, <2>3, <2>6 DEF Free
  <2> QED BY <2>3, <2>4, <2>5, <2>6 DEF Moves, Holds, t
<1> QED BY <1>1, <1>2

LEMMA StepStep ==
    ASSUME NEW s \in World, NEW p \in Slot, NEW k, NEW r, NEW bad, MayPost(s),
           Taken(s, p, k[p], r[p]), FreshStamp(p) \in Stamp, Free(s, FreshStamp(p))
    PROVE  LET t == Step(s, p, k, r, bad)
           IN  /\ Moves(s, t, p, FreshStamp(p))
               /\ Told(s, p, k[p], r[p]) => Holds(s, t)
<1>1. CASE p \in bad
  BY <1>1, SpoiltStep DEF Step, Taken
<1>2. CASE p \notin bad
  BY <1>2, ActedStep DEF Step
<1> QED BY <1>1, <1>2

(* What the comparison decides of the world it read.                       *)
LEMMA DecisionTaken ==
    ASSUME w \in World, NEW p \in Slot, NEW full \in BOOLEAN
    PROVE  LET r == Sees(w, p, full)
               k == Decision(w, p, full, r)
           IN  /\ Taken(w, p, k, r)
               /\ \A T \in SUBSET Content : Sound(w, T) => Told(w, p, k, r)
<1> DEFINE r == Sees(w, p, full)
           k == Decision(w, p, full, r)
           e == EntryAt(w, p)
           lm == w.disk[p].c
           rm == BytesOf(w, r.id)
<1>1. /\ r.id \in ObjId \cup {None} /\ r.ver \in Num /\ r.sz \in Num
      /\ Known(w, r.id, r.ver)
      /\ r.id # None => w.obj[r.id].st = "live" /\ r.ver = w.obj[r.id].ver
  BY SeesIs
<1>2. /\ w.disk[p] \in Disk /\ \A o \in ObjId : w.obj[o].ver \in Nat
  BY WorldType
<1> HIDE DEF r
<1>3. /\ k \in {"UPLOAD_NEW", "UPLOAD_VERSION", "CONFLICT"} => Here(e)
      /\ k \in {"DOWNLOAD_NEW", "DOWNLOAD_UPDATE", "CONFLICT", "TOUCH_BASE"} => Seen(r)
      /\ k = "DOWNLOAD_NEW" => ~Here(e)
      /\ k = "DOWNLOAD_UPDATE" =>
            HasBaseline(w.rec[p]) /\ (MetaSame(w.rec[p], e) \/ lm = w.rec[p].lc)
      /\ k = "TOUCH_BASE" => lm = rm /\ lm # None
  <2> DEFINE gone == ~full /\ Tombstone(w, p)
  <2>1. k = Decide(w.rec[p], e, r, FALSE, gone, full, TRUE, lm, rm)
    BY DEF Decision
  <2> HIDE DEF k, e, lm, rm, gone
  <2> QED BY <2>1 DEF Decide, DecideNew, DecideGone, DecideKnown, SameContent
<1> HIDE DEF k
<1>4. Here(e) <=> w.disk[p].c # None
  BY <1>2, DiskType DEF Here, EntryAt
<1>5. Taken(w, p, k, r)
  BY <1>1, <1>2, <1>3, <1>4 DEF Taken, Seen, HasBaseline
<1>6. ASSUME NEW T \in SUBSET Content, Sound(w, T), k = "TOUCH_BASE"
      PROVE  WasShown(w, r.id, r.ver, w.disk[p].c)
  <2>1. /\ r.id \in ObjId /\ r.id # None /\ w.obj[r.id].st # "none"
        /\ w.obj[r.id].ver >= r.ver /\ w.obj[r.id].c = w.disk[p].c
    BY <1>1, <1>2, <1>3, <1>6 DEF Seen, BytesOf, LiveIn
  <2> QED BY <1>1, <1>6, <2>1, FetchedIs
<1> QED BY <1>5, <1>6 DEF Told, r, k

LEMMA PassStep ==
    ASSUME w \in World, NEW full \in BOOLEAN, NEW bad \in SUBSET Slot, SyncPass(full, bad)
    PROVE  w' \in World /\ Grows(w, w') /\ Holds(w, w')
<1> DEFINE r   == [p \in Slot |-> Sees(w, p, full)]
           k   == [p \in Slot |-> Decision(w, p, full, r[p])]
           mid == Step(w, "copy", k, r, bad)
<1>1. w' = Step(mid, "orig", k, r, bad)
  BY DEF SyncPass
<1>2. /\ mid = Step(w, "copy", k, r, bad)
      /\ \A p \in Slot : r[p] = Sees(w, p, full) /\ k[p] = Decision(w, p, full, Sees(w, p, full))
  OBVIOUS
<1> HIDE DEF r, k, mid
<1>3. ASSUME NEW p \in Slot
      PROVE  /\ Taken(w, p, k[p], r[p])
             /\ \A T \in SUBSET Content : Sound(w, T) => Told(w, p, k[p], r[p])
  BY <1>2, DecisionTaken
<1>4. /\ FreshStamp("orig") \in Stamp \ InUse /\ FreshStamp("copy") \in Stamp \ InUse
      /\ FreshStamp("orig") # FreshStamp("copy") /\ Several(Vacant(w))
  BY FreshStamps DEF SyncPass, Roomy, Vacant
<1>5. Free(w, FreshStamp("orig")) /\ Free(w, FreshStamp("copy"))
  BY <1>4, NoneAssumption DEF Free, InUse
<1>6. MayPost(w)
  BY <1>4, SeveralLeft, SomeAssumption
<1> DEFINE mc == FreshStamp("copy")
           mo == FreshStamp("orig")
<1>7. /\ Moves(w, mid, "copy", mc)
      /\ Told(w, "copy", k["copy"], r["copy"]) => Holds(w, mid)
  BY <1>2, <1>3, <1>4, <1>5, <1>6, StepStep DEF Slot
<1> HIDE DEF mc, mo
<1>8. /\ mid \in World /\ Grows(w, mid) /\ MayPost(mid) /\ Free(mid, mo)
      /\ mid.disk.orig = w.disk.orig /\ mid.rec.orig = w.rec.orig
  <2>1. /\ mid \in World /\ Grows(w, mid) /\ Local(w, mid, "copy")
        /\ \A x : Free(w, x) /\ x # mc => Free(mid, x)
    BY <1>7 DEF Moves
  <2>2. MayPost(mid)
    BY <1>4, <2>1, SeveralLeft DEF Local
  <2>3. Free(mid, mo)
    BY <1>4, <1>5, <2>1 DEF mc, mo
  <2> QED BY <2>1, <2>2, <2>3 DEF Local, Slot
<1>9. Taken(mid, "orig", k["orig"], r["orig"])
  <2>1. Taken(w, "orig", k["orig"], r["orig"])
    BY <1>3 DEF Slot
  <2> DEFINE ro == r["orig"]
  <2>2. Known(mid, ro.id, ro.ver)
    BY <1>8, <2>1, KnownKept DEF Taken
  <2>3. ro.id # None => mid.obj[ro.id].ver >= w.obj[ro.id].ver
    BY <1>8, <2>1 DEF Taken, Known, Grows
  <2>4. EntryAt(mid, "orig") = EntryAt(w, "orig")
    BY <1>8 DEF EntryAt
  <2>5. ro.id # None => mid.obj[ro.id].ver >= ro.ver
    BY <1>2, <2>1, <2>3, SeesIs DEF Taken, Slot
  <2> DEFINE ko == k["orig"]
  <2>6. Taken(w, "orig", ko, ro)
    BY <2>1
  <2> HIDE DEF ro, ko
  <2>7. Taken(mid, "orig", ko, ro)
    BY <1>8, <2>2, <2>4, <2>5, <2>6 DEF Taken
  <2> QED BY <2>7 DEF ro, ko
<1>10. /\ Moves(mid, w', "orig", mo)
       /\ Told(mid, "orig", k["orig"], r["orig"]) => Holds(mid, w')
  BY <1>1, <1>4, <1>8, <1>9, StepStep DEF Slot, mo
<1>11. w' \in World /\ Grows(w, w')
  BY <1>8, <1>10, GrowsOn DEF Moves
<1>12. ASSUME NEW T \in SUBSET Content, Sound(w, T) PROVE Sound(w', T) /\ Keeps(w, w')
  <2>1. Told(w, "orig", k["orig"], r["orig"]) /\ Told(w, "copy", k["copy"], r["copy"])
    BY <1>3, <1>12 DEF Slot
  <2>2. Told(mid, "orig", k["orig"], r["orig"])
    BY <1>8, <2>1, WasShownKept DEF Told
  <2>3. Sound(mid, T) /\ Keeps(w, mid)
    BY <1>7, <1>12, <2>1 DEF Holds
  <2>4. Sound(w', T) /\ Keeps(mid, w')
    BY <1>10, <2>2, <2>3 DEF Holds
  <2> QED BY <2>3, <2>4, KeepsOn
<1> QED BY <1>11, <1>12 DEF Holds

-----------------------------------------------------------------------------
(* Type correctness, command by command.  Memory is what a command holds,  *)
(* Ledger what a step may do to everything that is not the world.          *)
Memory ==
    /\ pc \in Pc /\ opt \in Option /\ todo \in SUBSET Slot
    /\ snap \in [Slot -> Entry] /\ view \in [Slot -> Sight] /\ hold \in Item
    /\ pc = "place" => hold.c # None

Ledger ==
    /\ cursor' \in {cursor, w.rev} /\ settled' \in BOOLEAN /\ listed' \in BOOLEAN
    /\ typed' \in SUBSET Content /\ typed \subseteq typed'
    /\ left' \in 0..MaxEnv /\ due' \in Due

Typed == w' \in World /\ Grows(w, w') /\ Ledger /\ Memory'

LEMMA TypeParts ==
    ASSUME TypeOK
    PROVE  /\ w \in World /\ Memory /\ cursor \in Nat /\ cursor <= w.rev /\ w.rev \in Nat
           /\ settled \in BOOLEAN /\ listed \in BOOLEAN /\ typed \in SUBSET Content
           /\ left \in 0..MaxEnv /\ due \in Due
BY WorldType DEF TypeOK, Memory

LEMMA TypedStep == ASSUME TypeOK, Typed PROVE TypeOK'
<1>1. /\ w' \in World /\ w'.rev \in Nat /\ w.rev <= w'.rev /\ w.rev \in Nat
      /\ cursor \in Nat /\ cursor <= w.rev
  BY TypeParts, WorldType DEF Typed, Grows
<1>2. cursor' \in 0..w'.rev
  BY <1>1 DEF Typed, Ledger
<1> QED BY <1>1, <1>2 DEF Typed, Ledger, Memory, TypeOK

LEMMA LeftType ==
    ASSUME left \in 0..MaxEnv, UNCHANGED left \/ (left > 0 /\ Spend)
    PROVE  left' \in 0..MaxEnv
BY ChoiceAssumption DEF Spend

LEMMA NoneTypes ==
    /\ None \in Num /\ NoHold \in Item /\ NothingDue \in Due
    /\ NoSnap \in [Slot -> Entry] /\ NoSight \in [Slot -> Sight]
BY DEF Num, NoHold, Item, NothingDue, Due, NoSnap, NoSight, Entry, Sight, NoEntry,
       NoRemote, Slot

LEMMA RestType == ASSUME AtRest PROVE Memory' /\ pc' = "idle"
BY NoneTypes DEF AtRest, Memory, Pc, Option

LEMMA NextItemType ==
    ASSUME Memory, NEW p, NEW at \in Pc \ {"place"}, NextItem(p, at)
    PROVE  Memory'
<1>1. CASE todo = {p}
  BY <1>1, RestType DEF NextItem
<1>2. CASE todo # {p}
  BY <1>2, NoneTypes DEF NextItem, Memory, Goto
<1> QED BY <1>1, <1>2

LEMMA EntryType ==
    ASSUME NEW s \in World, NEW p \in Slot PROVE EntryAt(s, p) \in Entry
BY WorldType, DiskType, SizeOfType DEF EntryAt, Entry

LEMMA ScanType == ASSUME w \in World, ScanBoth PROVE snap' \in [Slot -> Entry]
BY EntryType DEF ScanBoth

LEMMA ViewType ==
    ASSUME NEW s \in World PROVE [p \in Slot |-> Listing(s, p)] \in [Slot -> Sight]
BY ListingIs

LEMMA ErredStep ==
    ASSUME NEW s \in World, NEW p \in Slot
    PROVE  LET t == Erred(s, p)
           IN  t \in World /\ Grows(s, t) /\ Keeps(s, t) /\ t.disk = s.disk
<1> DEFINE row == [s.rec[p] EXCEPT !.st = "error"]
<1>1. "error" \in Status
  BY DEF Status
<1>2. Erred(s, p) = Recorded(s, p, row) /\ row \in Row
  BY <1>1, MarkedIs DEF Erred
<1> HIDE DEF row
<1> QED BY <1>2, RecordedStep

LEMMA FailType ==
    ASSUME w \in World, Memory, NEW p \in Slot, NEW at \in Pc \ {"place"}, ItemFails(p, at)
    PROVE  w' \in World /\ Grows(w, w') /\ Memory'
<1>1. w' \in World /\ Grows(w, w')
  BY ErredStep DEF ItemFails
<1> QED BY <1>1, NextItemType DEF ItemFails

LEMMA RowsIs ==
    ASSUME NEW s \in World, NEW rows \in [Slot -> Row]
    PROVE  LET t == [s EXCEPT !.rec = rows]
           IN  /\ t \in World /\ t.rec = rows /\ Grows(s, t) /\ Keeps(s, t)
               /\ <<t.disk, t.bin, t.aside, t.obj, t.rev, t.shown>>
                     = <<s.disk, s.bin, s.aside, s.obj, s.rev, s.shown>>
<1> DEFINE t == [s EXCEPT !.rec = rows]
<1>1. /\ t \in World /\ t.rec = rows
      /\ <<t.disk, t.bin, t.aside, t.obj, t.rev, t.shown>>
            = <<s.disk, s.bin, s.aside, s.obj, s.rev, s.shown>>
  BY DEF World
<1> HIDE DEF t
<1>2. Grows(s, t) /\ Keeps(s, t)
  BY <1>1, WorldType DEF Grows, Keeps, KeptBy
<1> QED BY <1>1, <1>2 DEF t

LEMMA SyncType == ASSUME TypeOK, Sync PROVE Typed
<1>1. PICK full \in BOOLEAN, bad \in SUBSET Slot : SyncPass(full, bad)
  BY DEF Sync
<1>2. w' \in World /\ Grows(w, w')
  BY <1>1, PassStep, TypeParts
<1>3. left' \in 0..MaxEnv
  BY <1>1, LeftType, TypeParts DEF SyncPass, Fault
<1>4. due' \in Due
  <2>1. due \in Due
    BY TypeParts
  <2>2. [due EXCEPT !.copy = None] \in Due
    BY <2>1 DEF Due
  <2> QED BY <1>1, <2>1, <2>2, NoneTypes DEF SyncPass
<1>5. Ledger
  BY <1>1, <1>3, <1>4, TypeParts DEF SyncPass, Ledger
<1>6. Memory'
  BY <1>1, TypeParts DEF SyncPass, volat, Memory
<1> QED BY <1>2, <1>5, <1>6 DEF Typed

LEMMA StoredType ==
    ASSUME NEW s \in World, NEW o \in ObjId, NEW p \in Slot \cup {"away"},
           NEW v \in Nat, NEW c \in Content
    PROVE  Stored(s, o, p, v, c) \in World
BY StoredIs, Zenon

LEMMA StoredGrows ==
    ASSUME NEW s \in World, NEW o \in ObjId, NEW p \in Slot \cup {"away"},
           NEW v \in Nat, NEW c \in Content, s.obj[o].st = "none" \/ s.obj[o].ver <= v
    PROVE  Grows(s, Stored(s, o, p, v, c))
<1> DEFINE t == Stored(s, o, p, v, c)
<1>1. /\ t.rev = s.rev + 1 /\ s.shown \subseteq t.shown
      /\ t.obj[o].st = "live" /\ t.obj[o].ver = v
      /\ \A x \in ObjId \ {o} : t.obj[x] = s.obj[x]
  BY DEF World, Stored
<1> HIDE DEF t
<1> QED BY <1>1, WorldType DEF Grows, t

LEMMA VersionType ==
    ASSUME TypeOK, NEW p \in Slot, NEW o \in ObjId, LiveIn(w, o), w.disk[p].c # None
    PROVE  LET t == NewVersion(w, o, w.disk[p].c) IN t \in World /\ Grows(w, t)
<1> DEFINE c == w.disk[p].c
           v == w.obj[o].ver + 1
<1>1. /\ c \in Content /\ w.obj[o] \in Object /\ w.obj[o].st # "none" /\ w.obj[o].ver \in Nat
  BY TypeParts, WorldType, DiskType DEF LiveIn
<1>2. w.obj[o].at \in Slot \cup {"away"} /\ v \in Nat /\ w.obj[o].ver <= v
  BY <1>1, ObjectType DEF Made
<1>3. NewVersion(w, o, c) = Stored(w, o, w.obj[o].at, v, c)
  BY DEF NewVersion
<1> HIDE DEF c, v
<1>4. NewVersion(w, o, c) \in World
  BY <1>1, <1>2, <1>3, TypeParts, StoredType
<1>5. Grows(w, NewVersion(w, o, c))
  BY <1>1, <1>2, <1>3, TypeParts, StoredGrows
<1> QED BY <1>4, <1>5 DEF c

LEMMA PutOntoType ==
    ASSUME TypeOK, NEW p \in Slot, NEW o \in ObjId, LiveIn(w, o),
           w.disk[p].c # None, PutOnto(p, o),
           view' = view \/ view' = [q \in Slot |-> Listing(w', q)]
    PROVE  w' \in World /\ Grows(w, w') /\ Memory'
<1>1. w' \in World /\ Grows(w, w')
  BY VersionType DEF PutOnto
<1>2. hold' = [NoHold EXCEPT !.p = p, !.id = o, !.ver = w.obj[o].ver + 1]
  BY DEF PutOnto, InHand
<1>3. w.obj[o].ver + 1 \in Nat
  BY TypeParts, WorldType
<1>4. hold' \in Item
  BY <1>2, <1>3, NoneTypes DEF Item, NoHold, Num
<1>5. view' \in [Slot -> Sight]
  BY <1>1, ViewType, TypeParts DEF Memory
<1>6. Memory'
  BY <1>4, <1>5, TypeParts DEF PutOnto, Goto, Memory, Pc
<1> QED BY <1>1, <1>6

LEMMA PostType ==
    ASSUME TypeOK, NEW p \in Slot, w.disk[p].c # None, MayPost(w)
    PROVE  LET t == NewFile(w, p, w.disk[p].c)
           IN  t \in World /\ Grows(w, t) /\ Fresh(w) \in ObjId
<1> DEFINE c == w.disk[p].c
<1>1. c \in Content
  BY TypeParts, WorldType, DiskType
<1>2. Fresh(w) \in ObjId /\ w.obj[Fresh(w)].st = "none"
  BY FreshIs
<1>3. NewFile(w, p, c) = Stored(w, Fresh(w), p, 0, c)
  BY DEF NewFile
<1> HIDE DEF c
<1>4. NewFile(w, p, c) \in World
  BY <1>1, <1>2, <1>3, TypeParts, StoredType
<1>5. Grows(w, NewFile(w, p, c))
  BY <1>1, <1>2, <1>3, TypeParts, StoredGrows
<1> QED BY <1>2, <1>4, <1>5 DEF c

LEMMA Unmoved == ASSUME TypeOK, w' = w PROVE w' \in World /\ Grows(w, w')
BY TypeParts, GrowsSelf

LEMMA PushType == ASSUME TypeOK, Push PROVE Typed
<1>0. /\ w \in World /\ Memory /\ w.rec \in [Slot -> Row] /\ todo \subseteq Slot
      /\ hold.p \in Slot
  BY TypeParts, WorldType DEF Memory, Item
<1>1. CASE StartPush
  <2>1. Memory'
    BY <1>0, <1>1, ScanType DEF StartPush, Begin, Goto, Memory, Pc, Option
  <2>2. Ledger
    BY <1>1, TypeParts DEF StartPush, saved, Ledger
  <2> QED BY <1>1, <2>1, <2>2, Unmoved DEF StartPush, Typed
<1>2. CASE PlanPush
  <2>1. PICK blind \in SUBSET Slot :
           LET hashes == [p \in Slot |-> Here(snap[p]) /\ ~Unchanged(w.rec[p], snap[p])]
               items  == {p \in Slot : Pushes(w.rec[p], snap[p], Hashed(p, blind))}
           IN  /\ pc = "plan" /\ Unhashed(hashes, blind)
               /\ w' = [w EXCEPT !.rec = [p \in Slot |->
                           IF hashes[p] /\ Hashed(p, blind) = None
                           THEN [w.rec[p] EXCEPT !.st = "error"] ELSE w.rec[p]]]
               /\ IF items = {} THEN AtRest
                  ELSE /\ todo' = items /\ Goto("index")
                       /\ snap' = [p \in Slot |-> IF p \in items
                               THEN [snap[p] EXCEPT !.c = Hashed(p, blind)] ELSE snap[p]]
                       /\ UNCHANGED <<opt, view, hold>>
               /\ UNCHANGED <<saved, typed, due>>
    BY <1>2 DEF PlanPush
  <2> DEFINE hashes == [p \in Slot |-> Here(snap[p]) /\ ~Unchanged(w.rec[p], snap[p])]
             items  == {p \in Slot : Pushes(w.rec[p], snap[p], Hashed(p, blind))}
             rows   == [p \in Slot |-> IF hashes[p] /\ Hashed(p, blind) = None
                           THEN [w.rec[p] EXCEPT !.st = "error"] ELSE w.rec[p]]
  <2>2. rows \in [Slot -> Row]
    BY <1>0 DEF Row, Status
  <2>3. w' = [w EXCEPT !.rec = rows]
    BY <2>1
  <2> HIDE DEF rows
  <2>4. w' \in World /\ Grows(w, w')
    BY <1>0, <2>2, <2>3, RowsIs
  <2>5. Memory'
    <3>1. CASE items = {}
      BY <2>1, <3>1, RestType
    <3>2. CASE items # {}
      <4>1. /\ todo' = items /\ pc' = "index" /\ UNCHANGED <<opt, view, hold>>
            /\ snap' = [p \in Slot |-> IF p \in items
                   THEN [snap[p] EXCEPT !.c = Hashed(p, blind)] ELSE snap[p]]
        BY <2>1, <3>2 DEF Goto
      <4>2. ASSUME NEW p \in Slot PROVE Hashed(p, blind) \in Content \cup {None}
        BY <1>0, WorldType, DiskType DEF Hashed
      <4>3. snap' \in [Slot -> Entry]
        BY <1>0, <4>1, <4>2 DEF Memory, Entry
      <4> QED BY <1>0, <4>1, <4>3 DEF Memory, Pc
    <3> QED BY <3>1, <3>2
  <2>6. left' \in 0..MaxEnv
    BY <2>1, LeftType, TypeParts DEF Unhashed, Fault
  <2>7. Ledger
    BY <2>1, <2>6, TypeParts DEF saved, Ledger
  <2> QED BY <2>4, <2>5, <2>7 DEF Typed
<1>3. CASE LoadIndex
  <2>1. Memory'
    BY <1>0, <1>3, ViewType DEF LoadIndex, Goto, Memory, Pc
  <2>2. Ledger
    BY <1>3, TypeParts DEF LoadIndex, saved, Ledger
  <2> QED BY <1>3, <2>1, <2>2, Unmoved DEF LoadIndex, Typed
<1>4. ASSUME NEW p \in todo, Touch(p) PROVE Typed
  <2> DEFINE row == [w.rec[p] EXCEPT !.lmt = snap[p].mt, !.lsz = snap[p].sz,
                                     !.st = "synced"]
  <2>1. p \in Slot /\ w.rec[p] \in Row /\ snap[p] \in Entry
    BY <1>0 DEF Memory
  <2>2. row \in Row
    BY <2>1 DEF Entry, Row, Status
  <2>3. w' = Recorded(w, p, row)
    BY <1>4 DEF Touch
  <2> HIDE DEF row
  <2>4. w' \in World /\ Grows(w, w')
    BY <1>0, <2>1, <2>2, <2>3, RecordedStep
  <2>5. Memory'
    BY <1>0, <1>4, NextItemType DEF Touch, Pc
  <2>6. Ledger
    BY <1>4, TypeParts DEF Touch, saved, Ledger
  <2> QED BY <2>4, <2>5, <2>6 DEF Typed
<1>5. ASSUME NEW p \in todo, SendVersion(p) PROVE Typed
  <2>1. p \in Slot /\ view[p].id \in ObjId
    BY <1>0, <1>5 DEF SendVersion, Memory, Sight
  <2>2. w' \in World /\ Grows(w, w') /\ Memory'
    <3>1. CASE w.disk[p].c # None /\ LiveIn(w, view[p].id)
      BY <1>5, <2>1, <3>1, PutOntoType DEF SendVersion
    <3>2. CASE ~(w.disk[p].c # None /\ LiveIn(w, view[p].id))
      BY <1>0, <1>5, <2>1, <3>2, FailType DEF SendVersion, Pc
    <3> QED BY <3>1, <3>2
  <2>3. Ledger
    BY <1>5, TypeParts DEF SendVersion, saved, Ledger
  <2> QED BY <2>2, <2>3 DEF Typed
<1>6. ASSUME NEW p \in todo, SendNew(p) PROVE Typed
  <2>1. p \in Slot
    BY <1>0
  <2>2. w' \in World /\ Grows(w, w') /\ Memory'
    <3>1. CASE w.disk[p].c = None
      BY <1>0, <1>6, <2>1, <3>1, FailType DEF SendNew, Pc
    <3>2. CASE w.disk[p].c # None /\ LiveAt(w, p) # {}
      <4>1. hold' = [NoHold EXCEPT !.p = p, !.id = None, !.ver = None]
        BY <1>6, <3>2 DEF SendNew, InHand
      <4>2. hold' \in Item
        BY <2>1, <4>1, NoneTypes DEF Item, NoHold
      <4>3. Memory'
        BY <1>0, <1>6, <3>2, <4>2 DEF SendNew, Goto, Memory, Pc
      <4> QED BY <1>6, <3>2, <4>3, Unmoved DEF SendNew
    <3>3. CASE w.disk[p].c # None /\ LiveAt(w, p) = {}
      <4>1. /\ MayPost(w) /\ w' = NewFile(w, p, w.disk[p].c)
            /\ hold' = [NoHold EXCEPT !.p = p, !.id = Fresh(w), !.ver = 0]
            /\ pc' = "commit" /\ UNCHANGED <<opt, snap, view, todo>>
        BY <1>6, <3>3 DEF SendNew, InHand, Goto
      <4>2. w' \in World /\ Grows(w, w') /\ Fresh(w) \in ObjId
        BY <2>1, <3>3, <4>1, PostType
      <4>3. hold' \in Item
        BY <2>1, <4>1, <4>2, NoneTypes DEF Item, NoHold, Num
      <4> QED BY <1>0, <4>1, <4>2, <4>3 DEF Memory, Pc
    <3> QED BY <3>1, <3>2, <3>3
  <2>3. Ledger
    BY <1>6, TypeParts DEF SendNew, saved, Ledger
  <2> QED BY <2>2, <2>3 DEF Typed
<1>7. CASE SendAgain
  <2> DEFINE p == hold.p
             o == Listing(w, p).id
  <2>1. w' \in World /\ Grows(w, w') /\ Memory'
    <3>1. CASE w.disk[p].c # None /\ LiveAt(w, p) # {}
      <4>1. LiveIn(w, o) /\ o \in ObjId
        BY <1>0, <3>1, ListingIs DEF LiveAt, LiveIn
      <4> QED BY <1>0, <1>7, <3>1, <4>1, PutOntoType DEF SendAgain
    <3>2. CASE ~(w.disk[p].c # None /\ LiveAt(w, p) # {})
      BY <1>0, <1>7, <3>2, FailType DEF SendAgain, Pc
    <3> QED BY <3>1, <3>2
  <2>2. Ledger
    BY <1>7, TypeParts DEF SendAgain, saved, Ledger
  <2> QED BY <2>1, <2>2 DEF Typed
<1>8. CASE CommitPush
  <2> DEFINE p == hold.p
             st == IF w.disk[p].c # None /\ ~SameStat(w, p, snap[p])
                   THEN "pending_upload" ELSE "synced"
             row == RowOf(hold.id, snap[p].mt, snap[p].sz, snap[p].c, hold.ver, snap[p].sz, st)
  <2>1. st \in Status
    BY DEF Status
  <2>2. w' = Recorded(w, p, row)
    BY <1>8 DEF CommitPush
  <2> HIDE DEF st
  <2>3. row \in Row
    BY <1>0, <2>1 DEF RowOf, Row, Memory, Entry, Item
  <2> HIDE DEF row
  <2>4. w' \in World /\ Grows(w, w')
    BY <1>0, <2>2, <2>3, RecordedStep
  <2>5. Memory'
    BY <1>0, <1>8, NextItemType DEF CommitPush, Pc
  <2>6. Ledger
    BY <1>8, TypeParts DEF CommitPush, saved, Ledger
  <2> QED BY <2>4, <2>5, <2>6 DEF Typed
<1>9. ASSUME NEW p \in todo, PushAnswerLost(p) PROVE Typed
  <2>1. p \in Slot /\ w.disk[p].c # None /\ view[p].id \in ObjId \cup {None}
    BY <1>0, <1>9 DEF PushAnswerLost, Memory, Sight
  <2>2. PICK u \in World : Grows(w, u) /\ w' = Erred(u, p)
    <3>1. CASE LiveIn(w, view[p].id) /\ w' = Erred(NewVersion(w, view[p].id, w.disk[p].c), p)
      BY <2>1, <3>1, VersionType DEF LiveIn
    <3>2. CASE MayPost(w) /\ w' = Erred(NewFile(w, p, w.disk[p].c), p)
      BY <2>1, <3>2, PostType
    <3> QED BY <1>9, <3>1, <3>2 DEF PushAnswerLost
  <2>3. w' \in World /\ Grows(w, w')
    BY <1>0, <2>1, <2>2, ErredStep, GrowsOn
  <2>4. Memory'
    BY <1>0, <1>9, NextItemType DEF PushAnswerLost, Pc
  <2>5. left' \in 0..MaxEnv
    BY <1>9, LeftType, TypeParts DEF PushAnswerLost, Fault
  <2>6. Ledger
    BY <1>9, <2>5, TypeParts DEF PushAnswerLost, saved, Ledger
  <2> QED BY <2>3, <2>4, <2>6 DEF Typed
<1> QED BY <1>1, <1>2, <1>3, <1>4, <1>5, <1>6, <1>7, <1>8, <1>9 DEF Push

LEMMA DownloadedType ==
    ASSUME NEW s \in World, NEW p \in Slot, NEW r, NEW c \in Content, NEW m \in Stamp,
           r.id \in ObjId \cup {None}, r.ver \in Num, r.sz \in Num
    PROVE  LET t == Downloaded(s, p, r, c, m) IN t \in World /\ Grows(s, t)
<1> DEFINE t   == Downloaded(s, p, r, c, m)
           row == RowOf(r.id, m, Size[c], c, r.ver, r.sz, "synced")
<1>1. /\ t \in World /\ row \in Row
      /\ t.disk = [s.disk EXCEPT ![p] = [c |-> c, mt |-> m]]
      /\ t.rec  = [s.rec EXCEPT ![p] = row]
      /\ <<t.bin, t.aside, t.obj, t.rev, t.shown>>
            = <<s.bin, s.aside, s.obj, s.rev, s.shown>>
  BY DownloadedIs
<1> HIDE DEF t, row
<1>2. Grows(s, t)
  BY <1>1, WorldType DEF Grows
<1> QED BY <1>1, <1>2 DEF t

LEMMA PullType == ASSUME TypeOK, Pull PROVE Typed
<1>0. /\ w \in World /\ Memory /\ w.rec \in [Slot -> Row] /\ todo \subseteq Slot
      /\ w.disk \in [Slot -> Disk] /\ hold \in Item /\ hold.p \in Slot
  BY TypeParts, WorldType DEF Memory, Item
<1>1. CASE StartPull
  <2>1. Memory'
    BY <1>0, <1>1, ScanType DEF StartPull, Begin, Goto, Memory, Pc, Option
  <2>2. Ledger
    BY <1>1, TypeParts DEF StartPull, saved, Ledger
  <2> QED BY <1>1, <2>1, <2>2, Unmoved DEF StartPull, Typed
<1>2. CASE PlanPull
  <2>1. PICK items \in SUBSET Slot :
           /\ w' = w /\ (UNCHANGED left \/ (Fault("hash") /\ Spend))
           /\ IF items = {} THEN AtRest
              ELSE /\ todo' = items /\ view' = [p \in Slot |-> Listing(w, p)]
                   /\ Goto("check") /\ UNCHANGED <<opt, snap, hold>>
           /\ UNCHANGED <<saved, typed, due>>
    BY <1>2 DEF PlanPull, Unhashed
  <2>2. Memory'
    <3>1. CASE items = {}
      BY <2>1, <3>1, RestType
    <3>2. CASE items # {}
      BY <1>0, <2>1, <3>2, ViewType DEF Goto, Memory, Pc
    <3> QED BY <3>1, <3>2
  <2>3. left' \in 0..MaxEnv
    BY <2>1, LeftType, TypeParts DEF Fault
  <2>4. Ledger
    BY <2>1, <2>3, TypeParts DEF saved, Ledger
  <2> QED BY <2>1, <2>2, <2>4, Unmoved DEF Typed
<1>3. ASSUME NEW p \in todo, CheckPull(p) PROVE Typed
  <2>1. p \in Slot /\ w' = w
    BY <1>0, <1>3 DEF CheckPull
  <2>2. Memory'
    <3>1. CASE AsScanned(p)
      <4>1. /\ hold' = [NoHold EXCEPT !.p = p, !.mt = w.disk[p].mt, !.sz = SizeOf(w.disk[p].c)]
            /\ pc' = "fetch" /\ UNCHANGED <<opt, snap, view, todo>>
        BY <1>3, <3>1 DEF CheckPull, Goto
      <4>2. w.disk[p].mt \in Stamp \cup {None} /\ SizeOf(w.disk[p].c) \in Num
        BY <1>0, <2>1, DiskType, SizeOfType
      <4>3. hold' \in Item
        BY <2>1, <4>1, <4>2, NoneTypes DEF Item, NoHold
      <4> QED BY <1>0, <4>1, <4>3 DEF Memory, Pc
    <3>2. CASE ~AsScanned(p)
      BY <1>0, <1>3, <3>2, NextItemType DEF CheckPull, Pc
    <3> QED BY <3>1, <3>2
  <2>3. Ledger
    BY <1>3, TypeParts DEF CheckPull, saved, Ledger
  <2> QED BY <2>1, <2>2, <2>3, Unmoved DEF Typed
<1>4. CASE Fetch
  <2> DEFINE p == hold.p
             c == BytesOf(w, view[p].id)
  <2>1. w' \in World /\ Grows(w, w') /\ Memory'
    <3>1. CASE c # None /\ SizeOf(c) = view[p].sz
      <4>1. view[p].id \in ObjId
        BY <1>0, <3>1 DEF BytesOf, LiveIn, Memory, Sight
      <4>2. c \in Content
        BY <1>0, <3>1, <4>1, WorldType DEF BytesOf
      <4>3. /\ hold' = [hold EXCEPT !.c = c] /\ w' = w
            /\ pc' = "place" /\ UNCHANGED <<opt, snap, view, todo>>
        BY <1>4, <3>1 DEF Fetch, Goto
      <4>4. hold' \in Item /\ hold'.c # None
        BY <1>0, <3>1, <4>2, <4>3 DEF Item
      <4>5. Memory'
        BY <1>0, <4>3, <4>4 DEF Memory, Pc
      <4> QED BY <4>3, <4>5, Unmoved
    <3>2. CASE ~(c # None /\ SizeOf(c) = view[p].sz)
      BY <1>0, <1>4, <3>2, FailType DEF Fetch, Pc
    <3> QED BY <3>1, <3>2
  <2>2. Ledger
    BY <1>4, TypeParts DEF Fetch, saved, Ledger
  <2> QED BY <2>1, <2>2 DEF Typed
<1>5. CASE Place
  <2> DEFINE p == hold.p
             r == view[p]
             m == FreshStamp(p)
  <2>1. p \in Slot /\ r \in Sight /\ hold.c \in Content
    BY <1>0, <1>5 DEF Place, Memory, Item
  <2>2. m \in Stamp
    BY <2>1, <1>5, FreshStamps DEF Place, Roomy, Slot
  <2>3. r.id \in ObjId \cup {None} /\ r.ver \in Num /\ r.sz \in Num
    BY <2>1 DEF Sight
  <2>4. w' = w \/ w' = Downloaded(w, p, r, hold.c, m)
    BY <1>5 DEF Place
  <2> HIDE DEF p, r, m
  <2>5. w' \in World /\ Grows(w, w')
    <3>1. CASE w' = w
      BY <3>1, Unmoved
    <3>2. CASE w' = Downloaded(w, p, r, hold.c, m)
      BY <1>0, <2>1, <2>2, <2>3, <3>2, DownloadedType
    <3> QED BY <2>4, <3>1, <3>2
  <2>6. Memory'
    BY <1>0, <1>5, NextItemType DEF Place, Pc
  <2>7. Ledger
    BY <1>5, TypeParts DEF Place, saved, Ledger
  <2> QED BY <2>5, <2>6, <2>7 DEF Typed
<1> QED BY <1>1, <1>2, <1>3, <1>4, <1>5 DEF Pull

LEMMA TransferType == ASSUME TypeOK, TransferFails PROVE Typed
<1>0. w \in World /\ Memory /\ todo \subseteq Slot /\ hold.p \in Slot
  BY TypeParts DEF Memory, Item
<1>1. PICK p \in Slot, at \in {"check", "send", "index"} : ItemFails(p, at)
  BY <1>0 DEF TransferFails
<1>2. w' \in World /\ Grows(w, w') /\ Memory'
  BY <1>0, <1>1, FailType DEF Pc
<1>3. left' \in 0..MaxEnv
  BY LeftType, TypeParts DEF TransferFails, Fault
<1>4. Ledger
  BY <1>3, TypeParts DEF TransferFails, saved, Ledger
<1> QED BY <1>2, <1>4 DEF Typed

(* A file is compared: its row is written, or nothing is.                  *)
LEMMA BaselinedType ==
    ASSUME TypeOK, NEW p \in Slot, NEW md5 \in Content \cup {None}
    PROVE  Baselined(p, md5) \in Row
<1>1. view[p] \in Sight /\ snap[p] \in Entry
  BY TypeParts DEF Memory
<1> QED BY <1>1 DEF Baselined, RowOf, Row, Sight, Entry, Status

LEMMA ComparedType ==
    ASSUME Memory, NEW p \in Slot, NEW rest \in SUBSET todo, Compared(p, rest)
    PROVE  Memory'
<1>1. CASE rest = {}
  BY <1>1, RestType DEF Compared
<1>2. CASE rest # {}
  <2>1. NoRemote \in Sight /\ NoHold \in Item
    BY NoneTypes DEF NoSight, Slot
  <2> QED BY <1>2, <2>1 DEF Compared, Memory, Goto, Pc
<1> QED BY <1>1, <1>2

LEMMA TargetType ==
    ASSUME TypeOK, NEW p \in Slot, NEW md5 \in Content \cup {None},
           Differs(p) \/ Failed(p) \/ Same(p, md5)
    PROVE  w' \in World /\ Grows(w, w') /\ Memory'
<1>1. PICK rest \in SUBSET todo : Compared(p, rest)
  BY DEF Differs, Failed, Same
<1>2. Memory'
  BY <1>1, ComparedType, TypeParts
<1>3. w' \in World /\ Grows(w, w')
  <2>1. CASE w' = w
    BY <2>1, Unmoved
  <2>2. CASE w' = Recorded(w, p, Baselined(p, md5))
    BY <2>2, BaselinedType, RecordedStep, TypeParts
  <2> QED BY <2>1, <2>2 DEF Differs, Failed, Same
<1> QED BY <1>2, <1>3

LEMMA ReconcileType == ASSUME TypeOK, Reconcile PROVE Typed
<1>0. /\ w \in World /\ Memory /\ w.rec \in [Slot -> Row] /\ todo \subseteq Slot
      /\ w.disk \in [Slot -> Disk]
  BY TypeParts, WorldType DEF Memory
<1>1. CASE StartReconcile
  <2>1. Memory'
    BY <1>0, <1>1, ScanType DEF StartReconcile, Begin, Goto, Memory, Pc, Option
  <2>2. Ledger
    BY <1>1, TypeParts DEF StartReconcile, saved, Ledger
  <2> QED BY <1>1, <2>1, <2>2, Unmoved DEF StartReconcile, Typed
<1>2. CASE Match
  <2> DEFINE items == {p \in Slot : Target(p) \/ (Orphan(p) /\ Seen(Listing(w, p)))}
  <2>1. Memory'
    <3>1. CASE items = {}
      BY <1>2, <3>1, RestType DEF Match
    <3>2. CASE items # {}
      <4>1. /\ todo' = items /\ pc' = "compare" /\ UNCHANGED <<opt, snap, hold>>
            /\ view' = [p \in Slot |->
                 IF Target(p) THEN [id |-> w.rec[p].id, ver |-> w.rec[p].rver,
                                    sz |-> w.rec[p].rsz, c |-> None]
                 ELSE Listing(w, p)]
        BY <1>2, <3>2 DEF Match, Goto
      <4>2. ASSUME NEW p \in Slot
            PROVE  /\ Listing(w, p) \in Sight
                   /\ [id |-> w.rec[p].id, ver |-> w.rec[p].rver,
                       sz |-> w.rec[p].rsz, c |-> None] \in Sight
        BY <1>0, ListingIs DEF Row, Sight
      <4>3. view' \in [Slot -> Sight]
        BY <4>1, <4>2
      <4> QED BY <1>0, <4>1, <4>3 DEF Memory, Pc
    <3> QED BY <3>1, <3>2
  <2>2. Ledger
    BY <1>2, TypeParts DEF Match, saved, Ledger
  <2> QED BY <1>2, <2>1, <2>2, Unmoved DEF Match, Typed
<1>3. ASSUME NEW p \in Pending, HashTarget(p) PROVE Typed
  <2>1. p \in todo /\ p \in Slot /\ w.disk[p].c \in Content \cup {None}
    BY <1>0, DiskType DEF Pending
  <2>2. w' \in World /\ Grows(w, w') /\ Memory'
    <3>1. CASE Differs(p) \/ Failed(p) \/ Same(p, w.disk[p].c)
      BY <2>1, <3>1, TargetType
    <3>2. CASE /\ hold' = [NoHold EXCEPT !.p = p, !.c = w.disk[p].c] /\ Goto("verify")
               /\ UNCHANGED <<w, opt, snap, view, todo>>
      <4>1. hold' \in Item
        BY <1>0, <2>1, <3>2, NoneTypes DEF Item, NoHold
      <4> QED BY <1>0, <3>2, <4>1, Unmoved DEF Memory, Goto, Pc
    <3> QED BY <1>3, <3>1, <3>2 DEF HashTarget
  <2>3. Ledger
    BY <1>3, TypeParts DEF HashTarget, saved, Ledger
  <2> QED BY <2>2, <2>3 DEF Typed
<1>5. CASE CompareTarget
  <2> DEFINE c == BytesOf(w, view[hold.p].id)
  <2>1. hold.p \in Slot /\ view[hold.p].id \in ObjId \cup {None}
    BY <1>0 DEF Memory, Item, Sight
  <2>2. c \in Content \cup {None}
    BY <1>0, <2>1, WorldType DEF BytesOf, LiveIn
  <2>3. w' \in World /\ Grows(w, w') /\ Memory'
    BY <1>5, <2>1, <2>2, TargetType DEF CompareTarget
  <2>4. Ledger
    BY <1>5, TypeParts DEF CompareTarget, saved, Ledger
  <2> QED BY <2>3, <2>4 DEF Typed
<1>6. CASE CompareFails
  <2>1. PICK p \in Slot : Failed(p)
    BY <1>0, <1>6 DEF CompareFails, Pending, Memory, Item
  <2>2. w' \in World /\ Grows(w, w') /\ Memory'
    BY <2>1, NoneTypes, TargetType
  <2>3. left' \in 0..MaxEnv
    BY <1>6, LeftType, TypeParts DEF CompareFails, Fault
  <2>4. Ledger
    BY <1>6, <2>3, TypeParts DEF CompareFails, saved, Ledger
  <2> QED BY <2>2, <2>4 DEF Typed
<1>4. ASSUME NEW p \in todo, AskRemote(p) \/ AskSkip(p) PROVE Typed
  <2>1. w' \in {w, SetAside(w, p)} /\ NextItem(p, "ask") /\ p \in Slot
    BY <1>0, <1>4 DEF AskRemote, AskSkip
  <2>2. w' \in World /\ Grows(w, w')
    BY <1>0, <2>1, SetAsideStep, Unmoved
  <2>3. Memory'
    BY <1>0, <2>1, NextItemType DEF Pc
  <2>4. Ledger
    BY <1>4, TypeParts, NoneTypes DEF AskRemote, AskSkip, saved, Ledger
  <2> QED BY <2>2, <2>3, <2>4 DEF Typed
<1> QED BY <1>1, <1>2, <1>3, <1>4, <1>5, <1>6 DEF Reconcile

LEMMA TrashedGrows ==
    ASSUME NEW s \in World, NEW o \in ObjId \cup {None}
    PROVE  Trashed(s, o) \in World /\ Grows(s, Trashed(s, o)) /\ Keeps(s, Trashed(s, o))
<1> DEFINE t == Trashed(s, o)
<1>1. /\ t \in World
      /\ <<t.disk, t.bin, t.aside, t.rec, t.shown>>
            = <<s.disk, s.bin, s.aside, s.rec, s.shown>>
      /\ t.rev >= s.rev
      /\ \A x \in ObjId : /\ t.obj[x].at = s.obj[x].at /\ t.obj[x].c = s.obj[x].c
                          /\ t.obj[x].ver = s.obj[x].ver
                          /\ t.obj[x].st = "none" <=> s.obj[x].st = "none"
  BY TrashedIs
<1> HIDE DEF t
<1> QED BY <1>1, WorldType DEF Grows, Keeps, KeptBy, t

(* Somebody saves; another PC writes.                                      *)
LEMMA SavedIs ==
    ASSUME NEW s \in World, NEW c \in Content, NEW m \in Stamp
    PROVE  LET t == [s EXCEPT !.disk.orig = [c |-> c, mt |-> m]]
           IN  /\ t \in World /\ Grows(s, t)
               /\ t.disk.orig = [c |-> c, mt |-> m] /\ t.disk.copy = s.disk.copy
               /\ <<t.bin, t.aside, t.rec, t.obj, t.rev, t.shown>>
                     = <<s.bin, s.aside, s.rec, s.obj, s.rev, s.shown>>
<1> DEFINE d == [c |-> c, mt |-> m]
           t == [s EXCEPT !.disk.orig = d]
<1>1. d \in Disk /\ s.disk \in [Slot -> Disk] /\ "orig" \in Slot /\ "copy" \in Slot
  BY WorldType DEF Disk, Slot
<1> HIDE DEF d
<1>2. /\ t.disk = [s.disk EXCEPT !.orig = d]
      /\ <<t.bin, t.aside, t.rec, t.obj, t.rev, t.shown>>
            = <<s.bin, s.aside, s.rec, s.obj, s.rev, s.shown>>
      /\ t = [s EXCEPT !.disk = t.disk]
  BY DEF World
<1> HIDE DEF t
<1>3. t.disk \in [Slot -> Disk] /\ t.disk.orig = d /\ t.disk.copy = s.disk.copy
  BY <1>1, <1>2
<1>4. t \in World
  BY <1>2, <1>3 DEF World
<1>5. Grows(s, t)
  BY <1>2, WorldType DEF Grows
<1> QED BY <1>2, <1>3, <1>4, <1>5 DEF t, d

LEMMA WrittenIs ==
    ASSUME TypeOK, Roomy, NEW c \in Content,
           w' = IF LiveAt(w, "orig") = {} THEN NewFile(w, "orig", c)
                ELSE NewVersion(w, Listing(w, "orig").id, c)
    PROVE  /\ w' \in World /\ Grows(w, w')
           /\ \E o \in ObjId, p \in Slot \cup {"away"}, v \in Nat :
                 /\ w' = Stored(w, o, p, v, c)
                 /\ w.obj[o].st = "none" \/ w.obj[o].ver <= v
<1>1. PICK o \in ObjId, p \in Slot \cup {"away"}, v \in Nat :
         /\ w' = Stored(w, o, p, v, c)
         /\ w.obj[o].st = "none" \/ w.obj[o].ver <= v
  <2>1. CASE LiveAt(w, "orig") = {}
    <3>1. MayPost(w)
      BY SeveralLeft, SomeAssumption DEF Roomy, Vacant
    <3>2. Fresh(w) \in ObjId /\ w.obj[Fresh(w)].st = "none"
      BY <3>1, FreshIs
    <3>3. w' = Stored(w, Fresh(w), "orig", 0, c) /\ "orig" \in Slot /\ 0 \in Nat
      BY <2>1 DEF NewFile, Slot
    <3> QED BY <3>2, <3>3
  <2>2. CASE LiveAt(w, "orig") # {}
    <3> DEFINE o == Listing(w, "orig").id
    <3>1. o \in ObjId /\ w.obj[o].at = "orig"
      BY <2>2, TypeParts, ListingIs DEF LiveAt, Slot
    <3>2. w.obj[o].ver \in Nat
      BY <3>1, TypeParts, WorldType
    <3>3. w.obj[o].ver + 1 \in Nat /\ w.obj[o].ver <= w.obj[o].ver + 1
      BY <3>2
    <3>4. w' = Stored(w, o, "orig", w.obj[o].ver + 1, c) /\ "orig" \in Slot
      BY <2>2, <3>1 DEF NewVersion, Slot
    <3> HIDE DEF o
    <3> QED BY <3>1, <3>3, <3>4
  <2> QED BY <2>1, <2>2
<1>2. w' \in World /\ Grows(w, w')
  BY <1>1, TypeParts, StoredType, StoredGrows
<1> QED BY <1>1, <1>2

LEMMA BackType ==
    ASSUME NEW s \in World
    PROVE  LET t == [s EXCEPT !.disk.orig = s.disk.copy, !.disk.copy = NoFile]
           IN  /\ t \in World /\ Grows(s, t)
               /\ t.disk.orig = s.disk.copy /\ t.disk.copy = NoFile
               /\ <<t.bin, t.aside, t.rec, t.obj, t.rev, t.shown>>
                     = <<s.bin, s.aside, s.rec, s.obj, s.rev, s.shown>>
<1> DEFINE t == [s EXCEPT !.disk.orig = s.disk.copy, !.disk.copy = NoFile]
<1>1. s.disk \in [Slot -> Disk] /\ "orig" \in Slot /\ "copy" \in Slot
  BY WorldType DEF Slot
<1>2. /\ t.disk = [s.disk EXCEPT !.orig = s.disk.copy, !.copy = NoFile]
      /\ <<t.bin, t.aside, t.rec, t.obj, t.rev, t.shown>>
            = <<s.bin, s.aside, s.rec, s.obj, s.rev, s.shown>>
      /\ t = [s EXCEPT !.disk = t.disk]
  BY DEF World
<1> HIDE DEF t
<1>3. t.disk \in [Slot -> Disk]
  BY <1>1, <1>2, NoFileType
<1>4. t \in World
  BY <1>2, <1>3 DEF World
<1>5. t.disk.orig = s.disk.copy /\ t.disk.copy = NoFile
  BY <1>1, <1>2
<1>6. Grows(s, t)
  BY <1>2, WorldType DEF Grows
<1> QED BY <1>2, <1>4, <1>5, <1>6 DEF t

LEMMA ResolveType == ASSUME TypeOK, Resolve PROVE Typed
<1>0. /\ w \in World /\ Memory /\ w.rec \in [Slot -> Row] /\ w.disk \in [Slot -> Disk]
      /\ "orig" \in Slot /\ "copy" \in Slot
      /\ w.disk.orig.c \in Content \cup {None} /\ w.disk.copy.c \in Content \cup {None}
  BY TypeParts, WorldType, DiskType DEF Slot
<1>1. CASE ResolveBoth
  BY <1>1, TypeParts, Unmoved DEF ResolveBoth, Closed, volat, Memory, Ledger, Typed
<1>2. CASE StartResolve
  <2>1. Memory'
    BY <1>0, <1>2 DEF StartResolve, Begin, Goto, Memory, Pc, Option
  <2>2. Ledger
    BY <1>2, TypeParts DEF StartResolve, saved, Ledger
  <2> QED BY <1>2, <2>1, <2>2, Unmoved DEF StartResolve, Typed
<1>3. CASE DropRemoteCopy
  <2>1. PICK ok \in BOOLEAN :
           LET row  == w.rec.copy
               gone == IF ok /\ row.id # None THEN Trashed(w, row.id) ELSE w
           IN  /\ Goto("bin")
               /\ IF ok THEN UNCHANGED left ELSE row.id # None /\ Fault("trash") /\ Spend
               /\ w' = Recorded(gone, "copy", NoRow)
               /\ due' = [NothingDue EXCEPT !.copy = IF LiveAt(w', "copy") = {}
                                                  THEN w.disk.copy.c ELSE None]
               /\ UNCHANGED <<saved, typed, opt, snap, view, todo, hold>>
    BY <1>3 DEF DropRemoteCopy
  <2> DEFINE gone == IF ok /\ w.rec.copy.id # None THEN Trashed(w, w.rec.copy.id) ELSE w
  <2>2. gone \in World /\ Grows(w, gone)
    <3>1. w.rec.copy.id \in ObjId \cup {None}
      BY <1>0, RowType
    <3>2. gone \in {w, Trashed(w, w.rec.copy.id)}
      OBVIOUS
    <3> HIDE DEF gone
    <3> QED BY <1>0, <3>1, <3>2, TrashedGrows, GrowsSelf
  <2>3. w' = Recorded(gone, "copy", NoRow)
    BY <2>1
  <2> HIDE DEF gone
  <2>4. w' \in World /\ Grows(w, w')
    BY <1>0, <2>2, <2>3, RecordedStep, NoRowType, GrowsOn
  <2>5. Memory'
    BY <1>0, <2>1 DEF Goto, Memory, Pc
  <2>6. left' \in 0..MaxEnv
    BY <2>1, LeftType, TypeParts DEF Fault
  <2>7. due' \in Due
    BY <1>0, <2>1 DEF NothingDue, Due
  <2>8. Ledger
    BY <2>1, <2>6, <2>7, TypeParts DEF saved, Ledger
  <2> QED BY <2>4, <2>5, <2>8 DEF Typed
<1>4. CASE BinCopy
  <2>1. w' \in World /\ Grows(w, w')
    BY <1>0, <1>4, BinnedStep DEF BinCopy
  <2>2. Memory'
    BY <1>4, RestType DEF BinCopy
  <2>3. Ledger
    BY <1>4, TypeParts DEF BinCopy, Closed, Ledger
  <2> QED BY <2>1, <2>2, <2>3 DEF Typed
<1>5. CASE BinOriginal
  <2>1. w' \in World /\ Grows(w, w')
    BY <1>0, <1>5, BinnedStep DEF BinOriginal
  <2>2. Memory'
    BY <1>0, <1>5 DEF BinOriginal, Goto, Memory, Pc
  <2>3. Ledger
    BY <1>5, TypeParts DEF BinOriginal, saved, Ledger
  <2> QED BY <2>1, <2>2, <2>3 DEF Typed
<1>6. CASE BringBack
  <2>1. w' \in World /\ Grows(w, w') /\ Memory' /\ due' \in Due
    <3>1. CASE w.disk.copy.c = None
      BY <1>6, <3>1, RestType, Unmoved, NoneTypes DEF BringBack
    <3>2. CASE w.disk.copy.c # None
      <4>1. Memory'
        BY <1>0, <1>6, <3>2 DEF BringBack, Goto, Memory, Pc
      <4> QED BY <1>0, <1>6, <3>2, <4>1, BackType, TypeParts DEF BringBack
    <3> QED BY <3>1, <3>2
  <2>2. Ledger
    BY <1>6, <2>1, TypeParts DEF BringBack, saved, Ledger
  <2> QED BY <2>1, <2>2 DEF Typed
<1>7. CASE RecordChoice
  <2>1. Restored(w.rec.orig) \in Row
    BY <1>0 DEF Restored, Row, Num, Status
  <2>2. w' \in World /\ Grows(w, w')
    BY <1>0, <1>7, <2>1, RecordedStep DEF RecordChoice
  <2>3. Memory'
    BY <1>7, RestType DEF RecordChoice
  <2>4. due' \in Due
    BY <1>0, <1>7, TypeParts, NoneTypes DEF RecordChoice, Due
  <2>5. Ledger
    BY <1>7, <2>4, TypeParts DEF RecordChoice, Closed, Ledger
  <2> QED BY <2>2, <2>3, <2>5 DEF Typed
<1>8. CASE BinRefuses
  <2>1. left' \in 0..MaxEnv
    BY <1>8, LeftType, TypeParts DEF BinRefuses, Fault
  <2>2. Ledger
    BY <1>8, <2>1, TypeParts, NoneTypes DEF BinRefuses, saved, Ledger
  <2> QED BY <1>8, <2>2, RestType, Unmoved DEF BinRefuses, Typed
<1> QED BY <1>1, <1>2, <1>3, <1>4, <1>5, <1>6, <1>7, <1>8 DEF Resolve

LEMMA InitType == ASSUME TypeOK, InitSteps PROVE Typed
<1>0. w \in World /\ Memory /\ w.rec \in [Slot -> Row]
  BY TypeParts, WorldType
<1>1. CASE StartInit
  <2>1. ASSUME NEW p \in Slot
        PROVE  [mt |-> w.rec[p].lmt, sz |-> w.rec[p].lsz, c |-> w.rec[p].lc] \in Entry
    BY <1>0 DEF Row, Entry
  <2>2. snap' \in [Slot -> Entry] /\ view' \in [Slot -> Sight]
    BY <1>0, <1>1, <2>1, ViewType DEF StartInit
  <2>3. Memory'
    BY <1>0, <1>1, <2>2 DEF StartInit, Begin, Goto, Memory, Pc, Option
  <2>4. Ledger
    BY <1>1, TypeParts DEF StartInit, saved, Ledger
  <2> QED BY <1>1, <2>3, <2>4, Unmoved DEF StartInit, Typed
<1>2. CASE InitRows
  <2> DEFINE rows == [p \in Slot |-> IF Seen(view[p]) THEN Enrolled(p) ELSE w.rec[p]]
  <2>1. ASSUME NEW p \in Slot PROVE Enrolled(p) \in Row
    <3>1. view[p] \in Sight /\ snap[p] \in Entry
      BY <1>0 DEF Memory
    <3> QED BY <3>1 DEF Enrolled, RowOf, Row, Sight, Entry, Num, Status
  <2>2. rows \in [Slot -> Row]
    BY <1>0, <2>1
  <2>3. w' = [w EXCEPT !.rec = rows]
    BY <1>2 DEF InitRows
  <2> HIDE DEF rows
  <2>4. w' \in World /\ Grows(w, w')
    BY <1>0, <2>2, <2>3, RowsIs
  <2>5. Memory'
    BY <1>0, <1>2 DEF InitRows, Goto, Memory, Pc
  <2>6. Ledger
    BY <1>2, TypeParts DEF InitRows, saved, Ledger
  <2> QED BY <2>4, <2>5, <2>6 DEF Typed
<1>3. CASE InitTip
  BY <1>3, TypeParts, RestType, Unmoved DEF InitTip, Ledger, Typed
<1> QED BY <1>1, <1>2, <1>3 DEF InitSteps

LEMMA EnvType == ASSUME TypeOK, Env PROVE Typed
<1>0. /\ w \in World /\ Memory /\ w.rec \in [Slot -> Row] /\ w.disk \in [Slot -> Disk]
      /\ "orig" \in Slot
  BY TypeParts, WorldType DEF Slot
<1>1. Act => left' \in 0..MaxEnv /\ due' \in Due
  BY LeftType, TypeParts, NoneTypes DEF Act
<1>2. UNCHANGED volat => Memory'
  BY <1>0 DEF volat, Memory
<1>3. ASSUME NEW c \in Content, Act, UNCHANGED saved, typed' = typed \cup {c} PROVE Ledger
  BY <1>1, <1>3, TypeParts DEF saved, Ledger
<1>4. ASSUME Act, UNCHANGED saved, typed' = typed PROVE Ledger
  BY <1>1, <1>4, TypeParts DEF saved, Ledger
<1>5. CASE Save
  <2>1. PICK c \in Content \ typed :
           /\ Act /\ Roomy /\ typed' = typed \cup {c} /\ UNCHANGED saved /\ UNCHANGED volat
           /\ w' = [w EXCEPT !.disk.orig = [c |-> c, mt |-> FreshStamp("orig")]]
    BY <1>5 DEF Save
  <2>2. w' \in World /\ Grows(w, w')
    BY <1>0, <2>1, FreshStamps, SavedIs DEF Roomy
  <2> QED BY <1>2, <1>3, <2>1, <2>2 DEF Typed
<1>6. CASE Delete
  <2>1. PICK p \in Slot : /\ Act /\ w' = Binned(w, p) /\ typed' = typed
                          /\ UNCHANGED saved /\ UNCHANGED volat
    BY <1>6 DEF Delete
  <2> QED BY <1>0, <1>2, <1>4, <2>1, BinnedStep DEF Typed
<1>7. CASE OtherWrites
  <2>1. PICK c \in Content \ typed :
           /\ Act /\ Roomy /\ typed' = typed \cup {c} /\ UNCHANGED saved /\ UNCHANGED volat
           /\ w' = IF LiveAt(w, "orig") = {} THEN NewFile(w, "orig", c)
                   ELSE NewVersion(w, Listing(w, "orig").id, c)
    BY <1>7 DEF OtherWrites
  <2>2. w' \in World /\ Grows(w, w')
    BY <2>1, WrittenIs
  <2> QED BY <1>2, <1>3, <2>1, <2>2 DEF Typed
<1>8. CASE OtherTrashes
  <2>1. PICK p \in Slot : /\ Act /\ w' = Trashed(w, Listing(w, p).id) /\ typed' = typed
                          /\ UNCHANGED saved /\ UNCHANGED volat
    BY <1>8 DEF OtherTrashes
  <2>2. Listing(w, p).id \in ObjId \cup {None}
    BY <1>0, ListingIs DEF Sight
  <2> QED BY <1>0, <1>2, <1>4, <2>1, <2>2, TrashedGrows DEF Typed
<1>9. CASE Crash
  BY <1>4, <1>9, RestType, Unmoved DEF Crash, Typed
<1> QED BY <1>5, <1>6, <1>7, <1>8, <1>9 DEF Env

(* The steps of a command and of everybody else keep the types.            *)
LEMMA NextType == ASSUME TypeOK, [Next]_vars PROVE Typed
<1>1. CASE UNCHANGED vars
  BY <1>1, TypeParts, Unmoved DEF vars, saved, volat, Typed, Ledger, Memory
<1> QED BY <1>1, SyncType, PushType, PullType, ReconcileType, ResolveType, InitType,
           TransferType, EnvType DEF Next, CommandSteps

LEMMA BareIs ==
    ASSUME NEW c \in Content \cup {None}, NEW d \in Content \cup {None}
    PROVE  /\ Bare(c, d) \in World /\ Bare(c, d).rev \in Nat
           /\ \A p \in Slot : Bare(c, d).rec[p] = NoRow
           /\ Bare(c, d).disk.copy = NoFile /\ Bare(c, d).disk.orig.c = c
           /\ DriveSound(Bare(c, d), {c, d} \ {None})
<1> DEFINE here == IF c = None THEN NoFile ELSE [c |-> c, mt |-> CHOOSE m \in Stamp : TRUE]
           disk == [p \in Slot |-> IF p = "orig" THEN here ELSE NoFile]
           rec  == [p \in Slot |-> NoRow]
           obj  == [o \in ObjId |-> NoObject]
           new  == [disk |-> disk, bin |-> {}, aside |-> {}, rec |-> rec,
                    obj |-> obj, rev |-> 0, shown |-> {}]
<1>1. here \in Disk /\ here.c = c
  BY SomeAssumption, NoFileType DEF Disk
<1> HIDE DEF here
<1>2. disk \in [Slot -> Disk] /\ disk.copy = NoFile /\ disk.orig = here
  BY <1>1, NoFileType DEF Slot
<1>3. rec \in [Slot -> Row] /\ obj \in [ObjId -> Object]
  BY NoRowType DEF Object
<1>4. \A o \in ObjId : obj[o].st = "none" /\ obj[o].c = None
  BY DEF NoObject
<1>5. \A p \in Slot : rec[p] = NoRow
  OBVIOUS
<1> HIDE DEF disk, rec, obj
<1>6. new \in World
  BY <1>2, <1>3 DEF World
<1>7. DriveSound(new, {c, d} \ {None})
  BY <1>4 DEF DriveSound
<1>8. /\ new.rec = rec /\ new.disk = disk /\ new.rev = 0 /\ new.shown = {} /\ new.obj = obj
  OBVIOUS
<1> HIDE DEF new
<1>9. CASE d = None
  <2>1. Bare(c, d) = new
    BY <1>9 DEF Bare, new, disk, rec, obj, here
  <2> QED BY <1>1, <1>2, <1>5, <1>6, <1>7, <1>8, <2>1
<1>10. CASE d # None
  <2>1. First \in ObjId /\ "orig" \in Slot
    BY SomeAssumption DEF First, Slot
  <2>2. Bare(c, d) = Stored(new, First, "orig", 0, d)
    BY <1>10 DEF Bare, new, disk, rec, obj, here
  <2> DEFINE t == Stored(new, First, "orig", 0, d)
             made == [st |-> "live", at |-> "orig", ver |-> 0, c |-> d, rev |-> new.rev + 1]
  <2>3. t \in World
    BY <1>6, <1>10, <2>1, StoredType
  <2>4. /\ t.disk = new.disk /\ t.rec = new.rec /\ t.rev \in Nat
        /\ t.shown = {Version(First, 0, d)}
        /\ t.obj = [obj EXCEPT ![First] = made]
    BY <1>6, <1>8 DEF Stored, World, Version
  <2> HIDE DEF t
  <2>5. /\ made.c = d /\ made.ver = 0
    OBVIOUS
  <2> HIDE DEF made
  <2>6. /\ t.obj[First] = made /\ \A o \in ObjId \ {First} : t.obj[o] = obj[o]
    BY <1>3, <2>1, <2>4
  <2>7. DriveSound(t, {c, d} \ {None})
    BY <1>4, <1>10, <2>4, <2>5, <2>6 DEF DriveSound
  <2> QED BY <1>1, <1>2, <1>5, <1>8, <2>2, <2>3, <2>4, <2>7 DEF t
<1> QED BY <1>9, <1>10

LEMMA StartIs ==
    ASSUME Init
    PROVE  \E c, d \in Content \cup {None} :
              /\ w = Bare(c, d) /\ typed = {c, d} \ {None}
              /\ cursor = 0 /\ settled = FALSE /\ listed = FALSE
              /\ due = NothingDue /\ left = MaxEnv
              /\ pc = "idle" /\ opt = "sync" /\ snap = NoSnap /\ view = NoSight
              /\ todo = {} /\ hold = NoHold
<1>1. PICK s \in Starts : w = Bare(s[1], s[2]) /\ typed = {s[1], s[2]} \ {None}
  BY DEF Init
<1>2. s[1] \in Content \cup {None} /\ s[2] \in Content \cup {None}
  BY ChoiceAssumption
<1> QED BY <1>1, <1>2 DEF Init

LEMMA StartType == ASSUME Init PROVE TypeOK
<1>1. PICK c \in Content \cup {None}, d \in Content \cup {None} :
              /\ w = Bare(c, d) /\ typed = {c, d} \ {None}
              /\ cursor = 0 /\ settled = FALSE /\ listed = FALSE
              /\ due = NothingDue /\ left = MaxEnv
              /\ pc = "idle" /\ opt = "sync" /\ snap = NoSnap /\ view = NoSight
              /\ todo = {} /\ hold = NoHold
  BY StartIs
<1>2. w \in World /\ w.rev \in Nat
  BY <1>1, BareIs
<1>3. cursor \in 0..w.rev /\ left \in 0..MaxEnv /\ typed \subseteq Content
  BY <1>1, <1>2, ChoiceAssumption
<1> QED BY <1>1, <1>2, <1>3, NoneTypes DEF TypeOK, Pc, Option

(* The folder, the base, the drive and the memory of every command are     *)
(* always of their types, whatever is typed when: in particular the drive  *)
(* never keeps a version without bytes, and pull has bytes in hand when it *)
(* replaces a file.                                                        *)
THEOREM TypeCorrect == Spec => []TypeOK
<1>1. Init => TypeOK
  BY StartType
<1>2. TypeOK /\ [Next]_vars => TypeOK'
  BY NextType, TypedStep
<1> QED BY <1>1, <1>2, PTL DEF Spec

-----------------------------------------------------------------------------
(* What the commands hold, between their steps.                            *)
Minds == Remembered /\ Scanned /\ Sends /\ Receives

(* A step keeps what the folder, the base and the drive say of each other, *)
(* and nothing disappears but what a person saves over.                    *)
Good == Sound(w', typed') /\ (typed' = typed => Keeps(w, w'))

LEMMA IInvParts ==
    ASSUME IInv
    PROVE  /\ TypeOK /\ Sound(w, typed) /\ Remembered /\ Scanned /\ Sends /\ Receives
           /\ w \in World /\ typed \in SUBSET Content /\ todo \subseteq Slot
           /\ w.disk \in [Slot -> Disk] /\ w.rec \in [Slot -> Row]
           /\ snap \in [Slot -> Entry] /\ view \in [Slot -> Sight] /\ hold \in Item
           /\ hold.p \in Slot
BY TypeParts, WorldType DEF IInv, Memory, Item

LEMMA RestMinds == ASSUME AtRest PROVE Minds'
<1>1. /\ pc' = "idle" /\ hold'.id = None /\ hold'.ver = None
      /\ \A p \in Slot : view'[p].id = None /\ view'[p].ver = None
  BY DEF AtRest, NoHold, NoSight, NoRemote
<1>2. Remembered'
  BY <1>1 DEF Remembered, Known
<1>3. Scanned' /\ Sends' /\ Receives'
  BY <1>1 DEF Scanned, Sends, Receives, Scanning, Pushing
<1> QED BY <1>2, <1>3 DEF Minds

(* What is known stays known.                                              *)
LEMMA KnownOn ==
    ASSUME IInv, w' \in World, Grows(w, w')
    PROVE  /\ \A p \in Slot : Known(w', view[p].id, view[p].ver)
           /\ Known(w', hold.id, hold.ver)
<1>1. ASSUME NEW p \in Slot PROVE Known(w', view[p].id, view[p].ver)
  <2>1. view[p] \in Sight /\ Known(w, view[p].id, view[p].ver)
    BY IInvParts DEF Remembered
  <2> QED BY <2>1, IInvParts, KnownKept DEF Sight
<1>2. Known(w', hold.id, hold.ver)
  <2>1. hold \in Item /\ Known(w, hold.id, hold.ver)
    BY IInvParts DEF Remembered
  <2> QED BY <2>1, IInvParts, KnownKept DEF Item
<1> QED BY <1>1, <1>2

(* The next item: only a file that was dealt with may have changed.        *)
LEMMA NextItemMinds ==
    ASSUME IInv, NEW p \in todo, NEW at \in {"index", "send", "check", "ask"},
           NextItem(p, at),
           w' \in World, Grows(w, w'), typed' = typed, pc # "idle",
           at \in {"index", "send"} => pc \in Pushing /\ w'.disk = w.disk,
           at = "check" => pc \in {"check", "fetch", "place"},
           at = "check" => \A q \in Slot : \/ w'.disk[q] = w.disk[q]
                                           \/ q = p /\ w'.disk[q].mt \notin InUse
    PROVE  Minds'
<1>1. CASE todo = {p}
  BY <1>1, RestMinds DEF NextItem
<1>2. CASE todo # {p}
  <2>1. /\ todo' = todo \ {p} /\ pc' = at /\ hold' = NoHold
        /\ opt' = opt /\ snap' = snap /\ view' = view
    BY <1>2 DEF NextItem, Goto
  <2>2. Remembered'
    BY <2>1, KnownOn, IInvParts DEF Remembered, Known, NoHold
  <2>3. Scanned'
    <3>1. ASSUME NEW x \in Slot, NEW y \in Slot, x # y, snap[x].mt # None, at # "ask"
          PROVE  w'.disk[y].mt # snap[x].mt
      <4>1. w.disk[y].mt # snap[x].mt
        BY <3>1, IInvParts DEF Scanned, Scanning, Pushing
      <4>2. snap[x].mt \in InUse
        BY DEF InUse
      <4> QED BY <3>1, <4>1, <4>2
    <3> QED BY <2>1, <3>1 DEF Scanned, Scanning, Pushing
  <2>4. Sends'
    <3>1. ASSUME at \in {"index", "send"}, NEW x \in todo, x # p PROVE Sent(x)'
      BY <2>1, <3>1, IInvParts DEF Sends, Sent
    <3> QED BY <2>1, <3>1 DEF Sends, Pushing
  <2>5. Receives'
    <3>1. ASSUME at = "check", NEW x \in todo, x # p
          PROVE  /\ view[x].id # None
                 /\ snap[x].mt # None /\ w'.disk[x].mt = snap[x].mt
                       => w'.disk[x].c \in {v.c : v \in w'.shown}
      <4>1. w'.disk[x] = w.disk[x] /\ w.shown \subseteq w'.shown
        BY <3>1, IInvParts DEF Grows
      <4> QED BY <3>1, <4>1, IInvParts DEF Receives
    <3> QED BY <2>1, <3>1 DEF Receives
  <2> QED BY <2>2, <2>3, <2>4, <2>5 DEF Minds
<1> QED BY <1>1, <1>2

(* Somebody else acts while a command waits: files may go, and the file    *)
(* may be saved where a save is allowed.                                   *)
LEMMA OthersMinds ==
    ASSUME IInv, UNCHANGED volat, w' \in World, Grows(w, w'), typed \subseteq typed',
           \A q \in Slot : \/ w'.disk[q] \in {w.disk[q], NoFile}
                           \/ /\ q = "orig" /\ w'.disk[q].mt \notin InUse
                              /\ w'.disk[q].c \notin typed
                              /\ pc # "back" /\ (pc \in Pushing => NoReturn)
    PROVE  Minds'
<1>0. /\ opt' = opt /\ snap' = snap /\ view' = view /\ hold' = hold /\ pc' = pc
      /\ todo' = todo /\ w.shown \subseteq w'.shown
  BY DEF volat, Grows
<1>1. Remembered'
  <2>1. pc = "back" => w'.disk.orig = NoFile
    BY IInvParts DEF Remembered, Slot
  <2> QED BY <1>0, <2>1, KnownOn, IInvParts DEF Remembered
<1>2. ASSUME NEW x \in Slot, NEW y \in Slot, snap[x].mt # None, w'.disk[y].mt = snap[x].mt
      PROVE  w'.disk[y] = w.disk[y]
  <2>1. snap[x].mt \in InUse
    BY DEF InUse
  <2> QED BY <1>2, <2>1, NoFileType
<1>3. Scanned'
  <2>1. ASSUME NEW x \in Slot, NEW y \in Slot, x # y, snap[x].mt # None, pc \in Scanning
        PROVE  w'.disk[y].mt # snap[x].mt
    BY <1>2, <2>1, IInvParts DEF Scanned
  <2> QED BY <1>0, <2>1 DEF Scanned
<1>4. Sends'
  <2>1. ASSUME pc \in Pushing, NEW x \in todo PROVE Sent(x)'
    <3>1. x \in Slot /\ Sent(x)
      BY <2>1, IInvParts DEF Sends
    <3>2. snap[x].mt # None /\ snap[x].c \in typed'
      BY <3>1 DEF Sent
    <3>3. w'.disk[x].mt = snap[x].mt => w'.disk[x].c = snap[x].c
      BY <1>2, <3>1, <3>2 DEF Sent
    <3>4. ~NoReturn \/ x = "copy" => w'.disk[x].c \in {None, snap[x].c}
      BY <2>1, <3>1, NoFileType DEF Sent
    <3> QED BY <1>0, <3>2, <3>3, <3>4 DEF Sent
  <2>2. ASSUME pc = "commit"
        PROVE  LET p == hold.p IN
               /\ hold.id # None /\ hold.ver # None
               /\ \/ Version(hold.id, hold.ver, snap[p].c) \in w'.shown
                  \/ Outdated(w', p, snap[p].c)
    <3> DEFINE p == hold.p
    <3>1. /\ hold.id # None /\ hold.ver # None
          /\ \/ Version(hold.id, hold.ver, snap[p].c) \in w.shown
             \/ Outdated(w, p, snap[p].c)
      BY <2>2, IInvParts DEF Sends
    <3>2. Sent(p) /\ p \in Slot
      BY <2>2, IInvParts DEF Sends, Remembered, Pushing
    <3>3. snap[p].c \in typed /\ snap[p].c # None
      BY <3>2, IInvParts, NoneAssumption DEF Sent
    <3>4. Outdated(w, p, snap[p].c) => Outdated(w', p, snap[p].c)
      BY <3>2, <3>3, NoFileType DEF Outdated
    <3> QED BY <1>0, <3>1, <3>4
  <2> QED BY <1>0, <2>1, <2>2 DEF Sends
<1>5. Receives'
  <2>1. ASSUME pc \in {"check", "fetch", "place"}, NEW x \in todo
        PROVE  /\ view[x].id # None
               /\ snap[x].mt # None /\ w'.disk[x].mt = snap[x].mt
                     => w'.disk[x].c \in {v.c : v \in w'.shown}
    <3>1. x \in Slot
      BY <2>1, IInvParts
    <3> QED BY <1>0, <1>2, <2>1, <3>1, IInvParts DEF Receives
  <2>2. pc = "place" => /\ hold.c \in typed'
                        /\ WasShown(w', view[hold.p].id, view[hold.p].ver, hold.c)
    BY IInvParts, WasShownKept DEF Receives
  <2>3. ASSUME pc = "verify", w'.disk[hold.p].mt = snap[hold.p].mt
        PROVE  w'.disk[hold.p].c \in {hold.c, None}
    <3>1. hold.p \in Slot /\ snap[hold.p].mt \in InUse
      BY IInvParts DEF InUse
    <3>2. w'.disk[hold.p] \in {w.disk[hold.p], NoFile}
      BY <2>3, <3>1
    <3> QED BY <2>3, <3>2, NoFileType, IInvParts DEF Receives
  <2>4. pc = "verify" => hold.c \in typed'
    BY IInvParts DEF Receives
  <2> QED BY <1>0, <2>1, <2>2, <2>3, <2>4, IInvParts DEF Receives
<1> QED BY <1>1, <1>3, <1>4, <1>5 DEF Minds

LEMMA QuietGood == ASSUME IInv, w' = w, typed' = typed PROVE Good
BY IInvParts DEF Good, Keeps

(* Nothing of the world changes, and the command goes to a control point   *)
(* where it holds nothing that matters.                                    *)
LEMMA FailSound ==
    ASSUME IInv, NEW p \in todo, NEW at \in {"index", "send", "check"}, ItemFails(p, at),
           typed' = typed,
           at \in {"index", "send"} => pc \in Pushing,
           at = "check" => pc \in {"check", "fetch", "place"}
    PROVE  Good /\ Minds'
<1>1. p \in Slot /\ w' = Erred(w, p) /\ NextItem(p, at)
  BY IInvParts DEF ItemFails
<1>2. w' \in World /\ Grows(w, w') /\ Keeps(w, w') /\ w'.disk = w.disk
  BY <1>1, IInvParts, ErredStep
<1>3. Sound(w', typed)
  BY <1>1, IInvParts, SoundMarked DEF Erred, Status
<1>4. Minds'
  BY <1>1, <1>2, NextItemMinds DEF Pushing
<1> QED BY <1>2, <1>3, <1>4 DEF Good

LEMMA StoredGood ==
    ASSUME IInv, NEW o \in ObjId, NEW p \in Slot \cup {"away"}, NEW v \in Nat,
           NEW c \in typed', typed \subseteq typed', typed' \in SUBSET Content,
           w.obj[o].st = "none" \/ w.obj[o].ver <= v, w' = Stored(w, o, p, v, c)
    PROVE  /\ Good /\ w' \in World /\ Grows(w, w')
           /\ w'.disk = w.disk /\ w'.rec = w.rec
           /\ Version(o, v, c) \in w'.shown
           /\ w'.obj[o].st # "none" /\ w'.obj[o].ver = v
<1>1. c \in Content /\ w \in World /\ Sound(w, typed) /\ typed \in SUBSET Content
  BY IInvParts
<1>2. /\ w' \in World /\ Sound(w', typed') /\ Grows(w, w')
      /\ w'.disk = w.disk /\ w'.rec = w.rec
      /\ Version(o, v, c) \in w'.shown
      /\ w'.obj[o].st # "none" /\ w'.obj[o].ver = v
  BY <1>1, SoundStored
<1>3. Keeps(w, w')
  BY <1>1, StoredStep
<1> QED BY <1>2, <1>3 DEF Good

(* push: the drive has what was hashed, or a file that was saved since.    *)
LEMMA SentSound ==
    ASSUME IInv, pc \in Pushing, NEW p \in todo, w.disk[p].c # None, typed' = typed,
           NEW o \in ObjId, NEW at \in Slot \cup {"away"}, NEW v \in Nat,
           w.obj[o].st = "none" \/ w.obj[o].ver <= v,
           w' = Stored(w, o, at, v, w.disk[p].c),
           hold' = [NoHold EXCEPT !.p = p, !.id = o, !.ver = v],
           pc' = "commit", UNCHANGED <<opt, snap, todo>>,
           view' = view \/ view' = [q \in Slot |-> Listing(w', q)]
    PROVE  Good /\ Minds'
<1> DEFINE c == w.disk[p].c
<1>1. p \in Slot /\ c \in typed
  BY IInvParts DEF Sound, FilesSound
<1>2. typed \subseteq typed' /\ typed' \in SUBSET Content /\ c \in typed'
  BY <1>1, IInvParts
<1>3. /\ Good /\ w' \in World /\ Grows(w, w')
      /\ w'.disk = w.disk /\ w'.rec = w.rec
      /\ Version(o, v, c) \in w'.shown
      /\ w'.obj[o].st # "none" /\ w'.obj[o].ver = v
  BY <1>2, StoredGood
<1>4. hold'.p = p /\ hold'.id = o /\ hold'.ver = v
  BY DEF NoHold
<1>5. Remembered'
  <2>1. Known(w', o, v)
    BY <1>3, NoneAssumption DEF Known
  <2>2. \A q \in Slot : Known(w', view'[q].id, view'[q].ver)
    BY <1>3, KnownOn, ListingIs
  <2> QED BY <1>3, <1>4, <2>1, <2>2, IInvParts DEF Remembered, Pushing
<1>6. Scanned'
  BY <1>3, IInvParts DEF Scanned, Scanning, Pushing
<1>7. ASSUME NEW x \in todo PROVE Sent(x)'
  BY <1>3, IInvParts DEF Sends, Sent
<1>8. Version(o, v, snap[p].c) \in w'.shown \/ Outdated(w', p, snap[p].c)
  <2>1. Sent(p)
    BY IInvParts DEF Sends
  <2>2. CASE ~NoReturn \/ p = "copy"
    <3>1. c = snap[p].c
      BY <2>1, <2>2 DEF Sent
    <3> QED BY <1>3, <3>1
  <2>3. CASE NoReturn /\ p # "copy"
    <3>1. c # snap[p].c => Outdated(w', p, snap[p].c)
      BY <1>1, <1>3, <2>3 DEF Outdated, Slot
    <3> QED BY <1>3, <3>1
  <2> QED BY <2>2, <2>3
<1>9. Sends'
  BY <1>4, <1>7, <1>8, NoneAssumption DEF Sends, Pushing
<1>10. Receives'
  BY DEF Receives
<1> QED BY <1>3, <1>5, <1>6, <1>9, <1>10 DEF Minds

LEMMA PutOntoSound ==
    ASSUME IInv, pc \in Pushing, NEW p \in todo, w.disk[p].c # None, typed' = typed,
           NEW o \in ObjId, LiveIn(w, o), PutOnto(p, o),
           view' = view \/ view' = [q \in Slot |-> Listing(w', q)]
    PROVE  Good /\ Minds'
<1> DEFINE v == w.obj[o].ver + 1
<1>1. w.obj[o] \in Object /\ w.obj[o].st # "none" /\ w.obj[o].ver \in Nat
  BY IInvParts, WorldType DEF LiveIn
<1>2. w.obj[o].at \in Slot \cup {"away"} /\ v \in Nat /\ w.obj[o].ver <= v
  BY <1>1, ObjectType DEF Made
<1>3. /\ w' = Stored(w, o, w.obj[o].at, v, w.disk[p].c)
      /\ hold' = [NoHold EXCEPT !.p = p, !.id = o, !.ver = v]
      /\ pc' = "commit" /\ UNCHANGED <<opt, snap, todo>>
  BY DEF PutOnto, NewVersion, InHand, Goto
<1> HIDE DEF v
<1> QED BY <1>2, <1>3, SentSound

(* What a file whose baseline push writes says of the drive file.          *)
LEMMA CommitSound ==
    ASSUME IInv, pc = "commit", NEW st \in Status \ {"none"}, NEW sz, NEW rsz
    PROVE  RowSound(w, typed, hold.p,
                    RowOf(hold.id, snap[hold.p].mt, sz, snap[hold.p].c, hold.ver, rsz, st))
<1> DEFINE p   == hold.p
           row == RowOf(hold.id, snap[p].mt, sz, snap[p].c, hold.ver, rsz, st)
<1>1. /\ row.id = hold.id /\ row.rver = hold.ver /\ row.lc = snap[p].c
      /\ row.lmt = snap[p].mt /\ row.st = st
  BY DEF RowOf
<1>2. p \in todo /\ p \in Slot /\ Sent(p)
  BY IInvParts DEF Remembered, Sends, Pushing
<1>3. Known(w, hold.id, hold.ver)
  BY IInvParts DEF Remembered
<1>4. /\ \/ Version(hold.id, hold.ver, snap[p].c) \in w.shown
         \/ Outdated(w, p, snap[p].c)
      /\ hold.id # None /\ hold.ver # None
  BY IInvParts DEF Sends
<1>5. hold.ver \in Nat
  BY <1>4, IInvParts DEF Item, Num
<1> HIDE DEF p, row
<1>6. ASSUME NEW q \in Slot, row.lmt = w.disk[q].mt PROVE w.disk[q].c = snap[p].c
  <2>1. CASE q = p
    BY <1>1, <1>2, <1>6, <2>1 DEF Sent
  <2>2. CASE q # p
    BY <1>1, <1>2, <1>6, <2>2, IInvParts DEF Sent, Scanned, Scanning, Pushing
  <2> QED BY <2>1, <2>2
<1>7. WasShown(w, row.id, row.rver, row.lc) \/ Outdated(w, p, row.lc)
  BY <1>1, <1>4, <1>5 DEF WasShown, Version
<1>8. row.lc \in typed
  BY <1>1, <1>2 DEF Sent
<1> QED BY <1>1, <1>3, <1>6, <1>7, <1>8 DEF RowSound, p, row

LEMMA SoundRows ==
    ASSUME NEW s \in World, NEW T, Sound(s, T), NEW rows \in [Slot -> Row],
           \A p \in Slot : RowSound(s, T, p, rows[p])
    PROVE  Sound([s EXCEPT !.rec = rows], T)
<1> DEFINE t == [s EXCEPT !.rec = rows]
<1>1. /\ t \in World /\ t.rec = rows /\ Grows(s, t) /\ Keeps(s, t)
      /\ <<t.disk, t.bin, t.aside, t.obj, t.rev, t.shown>>
            = <<s.disk, s.bin, s.aside, s.obj, s.rev, s.shown>>
  BY RowsIs
<1> HIDE DEF t
<1>2. DriveSound(t, T) /\ FilesSound(t, T)
  BY <1>1 DEF Sound, DriveSound, FilesSound
<1>3. ASSUME NEW p \in Slot PROVE RowSound(t, T, p, t.rec[p])
  BY <1>1 DEF RowSound, Known, WasShown, Outdated
<1> QED BY <1>2, <1>3 DEF Sound, t

(* A command that begins with a scan.                                      *)
LEMMA StartScanSound ==
    ASSUME IInv, w' = w, typed' = typed, ScanBoth, opt' \in Options,
           pc' \in {"plan", "walk", "match"}, UNCHANGED <<view, todo, hold>>
    PROVE  Good /\ Minds'
<1>1. ASSUME NEW x \in Slot, NEW y \in Slot, x # y, snap'[x].mt # None
      PROVE  w.disk[y].mt # snap'[x].mt
  <2>1. snap'[x].mt = w.disk[x].mt
    BY DEF ScanBoth, EntryAt
  <2> QED BY <1>1, <2>1, IInvParts DEF Sound, FilesSound, Slot
<1>2. Remembered'
  BY IInvParts DEF Remembered
<1>3. Scanned'
  BY <1>1 DEF Scanned
<1>4. Sends' /\ Receives'
  BY DEF Sends, Receives, Pushing
<1> QED BY <1>2, <1>3, <1>4, QuietGood DEF Minds

LEMMA PushSound == ASSUME IInv, Steady, Push PROVE Good /\ Minds'
<1>0. typed' = typed
  BY DEF Push, StartPush, PlanPush, LoadIndex, Touch, SendVersion, SendNew, SendAgain,
         CommitPush, PushAnswerLost
<1>1. CASE StartPush
  BY <1>0, <1>1, StartScanSound DEF StartPush, Begin, Goto
<1>2. CASE PlanPush
  <2>1. PICK blind \in SUBSET Slot :
           LET hashes == [p \in Slot |-> Here(snap[p]) /\ ~Unchanged(w.rec[p], snap[p])]
               items  == {p \in Slot : Pushes(w.rec[p], snap[p], Hashed(p, blind))}
           IN  /\ pc = "plan"
               /\ w' = [w EXCEPT !.rec = [p \in Slot |->
                           IF hashes[p] /\ Hashed(p, blind) = None
                           THEN [w.rec[p] EXCEPT !.st = "error"] ELSE w.rec[p]]]
               /\ IF items = {} THEN AtRest
                  ELSE /\ todo' = items /\ Goto("index")
                       /\ snap' = [p \in Slot |-> IF p \in items
                               THEN [snap[p] EXCEPT !.c = Hashed(p, blind)] ELSE snap[p]]
                       /\ UNCHANGED <<opt, view, hold>>
    BY <1>2 DEF PlanPush
  <2> DEFINE hashes == [p \in Slot |-> Here(snap[p]) /\ ~Unchanged(w.rec[p], snap[p])]
             items  == {p \in Slot : Pushes(w.rec[p], snap[p], Hashed(p, blind))}
             rows   == [p \in Slot |-> IF hashes[p] /\ Hashed(p, blind) = None
                           THEN [w.rec[p] EXCEPT !.st = "error"] ELSE w.rec[p]]
  <2>2. ASSUME NEW p \in Slot
        PROVE  rows[p] \in Row /\ RowSound(w, typed, p, rows[p])
    <3> DEFINE row == [w.rec[p] EXCEPT !.st = "error"]
    <3>1. w.rec[p] \in Row /\ RowSound(w, typed, p, w.rec[p])
      BY IInvParts DEF Sound
    <3>2. /\ row \in Row /\ row.id = w.rec[p].id /\ row.rver = w.rec[p].rver
          /\ row.lc = w.rec[p].lc /\ row.lmt = w.rec[p].lmt /\ row.st = "error"
      BY <3>1 DEF Row, Status
    <3>3. rows[p] \in {row, w.rec[p]}
      OBVIOUS
    <3> HIDE DEF row, rows
    <3>4. RowSound(w, typed, p, row)
      BY <3>1, <3>2 DEF RowSound
    <3> QED BY <3>1, <3>2, <3>3, <3>4
  <2>3. w' = [w EXCEPT !.rec = rows] /\ rows \in [Slot -> Row]
    BY <2>1, <2>2
  <2> HIDE DEF rows
  <2>4. /\ w' \in World /\ Grows(w, w') /\ Keeps(w, w')
        /\ w'.disk = w.disk /\ Sound(w', typed)
    BY <2>2, <2>3, IInvParts, RowsIs, SoundRows
  <2>5. CASE items = {}
    BY <1>0, <2>1, <2>4, <2>5, RestMinds DEF Good
  <2>6. CASE items # {}
    <3>1. /\ todo' = items /\ pc' = "index" /\ UNCHANGED <<opt, view, hold>>
          /\ snap' = [p \in Slot |-> IF p \in items
                 THEN [snap[p] EXCEPT !.c = Hashed(p, blind)] ELSE snap[p]]
          /\ pc = "plan"
      BY <2>1, <2>6 DEF Goto
    <3>2. ASSUME NEW p \in Slot
          PROVE  /\ snap'[p].mt = snap[p].mt
                 /\ p \in items => snap'[p].c = Hashed(p, blind)
      BY <3>1, IInvParts DEF Entry
    <3>3. ASSUME NEW p \in items PROVE Sent(p)'
      <4>1. p \in Slot /\ snap[p].mt # None /\ Hashed(p, blind) # None
        BY DEF Pushes, Here
      <4>2. Hashed(p, blind) = w.disk[p].c
        BY <4>1 DEF Hashed
      <4>3. w.disk[p].c \in typed
        BY <4>1, <4>2, IInvParts DEF Sound, FilesSound
      <4> QED BY <1>0, <2>4, <3>2, <4>1, <4>2, <4>3 DEF Sent
    <3>4. Remembered'
      BY <2>4, <3>1, KnownOn, IInvParts DEF Remembered
    <3>5. Scanned'
      BY <2>4, <3>1, <3>2, IInvParts DEF Scanned, Scanning
    <3>6. Sends'
      BY <3>1, <3>3 DEF Sends
    <3>7. Receives'
      BY <3>1 DEF Receives
    <3> QED BY <1>0, <2>4, <3>4, <3>5, <3>6, <3>7 DEF Good, Minds
  <2> QED BY <2>5, <2>6
<1>3. CASE LoadIndex
  <2>1. /\ pc = "index" /\ pc' = "send" /\ view' = [p \in Slot |-> Listing(w, p)]
        /\ w' = w /\ opt' = opt /\ snap' = snap /\ todo' = todo /\ hold' = hold
    BY <1>3 DEF LoadIndex, Goto
  <2>2. \A p \in Slot : Known(w', view'[p].id, view'[p].ver)
    BY <2>1, ListingIs, IInvParts
  <2>3. Remembered'
    BY <2>1, <2>2, IInvParts DEF Remembered
  <2>4. Scanned'
    BY <2>1, IInvParts DEF Scanned, Scanning, Pushing
  <2>5. Sends'
    BY <1>0, <2>1, IInvParts DEF Sends, Sent, Pushing
  <2>6. Receives'
    BY <2>1 DEF Receives
  <2> QED BY <1>0, <2>1, <2>3, <2>4, <2>5, <2>6, QuietGood DEF Minds
<1>4. ASSUME NEW p \in todo, Touch(p) PROVE Good /\ Minds'
  <2> DEFINE row == [w.rec[p] EXCEPT !.lmt = snap[p].mt, !.lsz = snap[p].sz,
                                     !.st = "synced"]
  <2>1. /\ p \in Slot /\ w.rec[p] \in Row /\ snap[p] \in Entry
        /\ RowSound(w, typed, p, w.rec[p]) /\ Sent(p) /\ pc = "send"
    BY <1>4, IInvParts DEF Touch, Sound, Sends, Pushing
  <2>2. /\ row \in Row /\ row.id = w.rec[p].id /\ row.rver = w.rec[p].rver
        /\ row.lc = w.rec[p].lc /\ row.lmt = snap[p].mt /\ row.st = "synced"
    BY <2>1 DEF Entry, Row, Status
  <2>3. w' = Recorded(w, p, row) /\ NextItem(p, "send") /\ w.rec[p].lc = snap[p].c
    BY <1>4 DEF Touch, OnlyTouched
  <2> HIDE DEF row
  <2>4. ASSUME NEW q \in Slot, snap[p].mt = w.disk[q].mt PROVE w.disk[q].c = snap[p].c
    BY <2>1, <2>4, IInvParts DEF Sent, Scanned, Scanning, Pushing
  <2>5. RowSound(w, typed, p, row)
    BY <2>1, <2>2, <2>3, <2>4 DEF RowSound
  <2>6. w' \in World /\ Sound(w', typed) /\ Grows(w, w') /\ w'.disk = w.disk
    BY <2>1, <2>2, <2>3, <2>5, IInvParts, SoundRecorded
  <2>7. Keeps(w, w')
    BY <2>1, <2>2, <2>3, IInvParts, RecordedStep
  <2>8. Minds'
    BY <1>0, <2>1, <2>3, <2>6, NextItemMinds DEF Pushing
  <2> QED BY <1>0, <2>6, <2>7, <2>8 DEF Good
<1>5. ASSUME NEW p \in todo, SendVersion(p) PROVE Good /\ Minds'
  <2>1. pc \in Pushing /\ p \in Slot /\ view[p].id \in ObjId
    BY <1>5, IInvParts DEF SendVersion, Pushing, Sight
  <2>2. CASE w.disk[p].c # None /\ LiveIn(w, view[p].id)
    BY <1>0, <1>5, <2>1, <2>2, PutOntoSound DEF SendVersion
  <2>3. CASE ~(w.disk[p].c # None /\ LiveIn(w, view[p].id))
    BY <1>0, <1>5, <2>1, <2>3, FailSound DEF SendVersion
  <2> QED BY <2>2, <2>3
<1>6. ASSUME NEW p \in todo, SendNew(p) PROVE Good /\ Minds'
  <2>1. pc = "send" /\ pc \in Pushing /\ p \in Slot
    BY <1>6, IInvParts DEF SendNew, Pushing
  <2>2. CASE w.disk[p].c = None
    BY <1>0, <1>6, <2>1, <2>2, FailSound DEF SendNew
  <2>3. CASE w.disk[p].c # None /\ LiveAt(w, p) # {}
    <3>1. /\ hold' = [NoHold EXCEPT !.p = p, !.id = None, !.ver = None] /\ pc' = "again"
          /\ w' = w /\ opt' = opt /\ snap' = snap /\ todo' = todo /\ view' = view
      BY <1>6, <2>3 DEF SendNew, InHand, Goto
    <3>2. hold'.p = p /\ hold'.id = None /\ hold'.ver = None
      BY <3>1 DEF NoHold
    <3>3. Remembered'
      BY <2>1, <3>1, <3>2, IInvParts DEF Remembered, Known
    <3>4. Scanned'
      BY <2>1, <3>1, IInvParts DEF Scanned, Scanning
    <3>5. Sends'
      BY <1>0, <2>1, <3>1, IInvParts DEF Sends, Sent
    <3>6. Receives'
      BY <3>1 DEF Receives
    <3> QED BY <1>0, <3>1, <3>3, <3>4, <3>5, <3>6, QuietGood DEF Minds
  <2>4. CASE w.disk[p].c # None /\ LiveAt(w, p) = {}
    <3>1. /\ MayPost(w) /\ w' = Stored(w, Fresh(w), p, 0, w.disk[p].c)
          /\ hold' = [NoHold EXCEPT !.p = p, !.id = Fresh(w), !.ver = 0]
          /\ pc' = "commit" /\ UNCHANGED <<opt, snap, view, todo>>
      BY <1>6, <2>4 DEF SendNew, InHand, Goto, NewFile
    <3>2. Fresh(w) \in ObjId /\ w.obj[Fresh(w)].st = "none" /\ 0 \in Nat
      BY <3>1, FreshIs
    <3> QED BY <1>0, <2>1, <2>4, <3>1, <3>2, SentSound
  <2> QED BY <2>2, <2>3, <2>4
<1>7. CASE SendAgain
  <2> DEFINE p == hold.p
             o == Listing(w, p).id
  <2>1. pc \in Pushing /\ p \in todo /\ p \in Slot
    BY <1>7, IInvParts DEF SendAgain, Pushing, Remembered
  <2>2. CASE w.disk[p].c # None /\ LiveAt(w, p) # {}
    <3>1. LiveIn(w, o) /\ o \in ObjId
      BY <2>1, <2>2, ListingIs, IInvParts DEF LiveAt, LiveIn
    <3> QED BY <1>0, <1>7, <2>1, <2>2, <3>1, PutOntoSound DEF SendAgain
  <2>3. CASE ~(w.disk[p].c # None /\ LiveAt(w, p) # {})
    BY <1>0, <1>7, <2>1, <2>3, FailSound DEF SendAgain
  <2> QED BY <2>2, <2>3
<1>8. CASE CommitPush
  <2> DEFINE p == hold.p
             st == IF w.disk[p].c # None /\ ~SameStat(w, p, snap[p])
                   THEN "pending_upload" ELSE "synced"
             row == RowOf(hold.id, snap[p].mt, snap[p].sz, snap[p].c, hold.ver, snap[p].sz, st)
  <2>1. st \in Status \ {"none"}
    BY DEF Status
  <2>2. w' = Recorded(w, p, row) /\ pc = "commit" /\ NextItem(p, "send")
    BY <1>8 DEF CommitPush
  <2>3. p \in todo /\ p \in Slot /\ pc \in Pushing
    BY <2>2, IInvParts DEF Remembered, Pushing
  <2> HIDE DEF st
  <2>4. RowSound(w, typed, p, row)
    BY <2>1, <2>2, CommitSound
  <2>5. row \in Row
    BY <2>1, IInvParts DEF RowOf, Row, Entry, Item
  <2> HIDE DEF row, p
  <2>6. w' \in World /\ Sound(w', typed) /\ Grows(w, w') /\ w'.disk = w.disk
    BY <2>2, <2>3, <2>4, <2>5, IInvParts, SoundRecorded
  <2>7. Keeps(w, w')
    BY <2>2, <2>3, <2>5, IInvParts, RecordedStep
  <2>8. Minds'
    BY <1>0, <2>2, <2>3, <2>6, NextItemMinds DEF Pushing
  <2> QED BY <1>0, <2>6, <2>7, <2>8 DEF Good
<1>9. ASSUME NEW p \in todo, PushAnswerLost(p) PROVE Good /\ Minds'
  <2> DEFINE c == w.disk[p].c
  <2>1. /\ p \in Slot /\ c # None /\ view[p].id \in ObjId \cup {None}
        /\ pc \in Pushing /\ NextItem(p, "send") /\ w.disk[p] \in Disk
    BY <1>9, IInvParts DEF PushAnswerLost, Pushing, Sight
  <2>2. PICK o \in ObjId, at \in Slot \cup {"away"}, v \in Nat :
           /\ w.obj[o].st = "none" \/ w.obj[o].ver <= v
           /\ w' = Erred(Stored(w, o, at, v, c), p)
    <3>1. CASE LiveIn(w, view[p].id) /\ w' = Erred(NewVersion(w, view[p].id, c), p)
      <4> DEFINE o == view[p].id
                 v == w.obj[o].ver + 1
      <4>1. o \in ObjId /\ w.obj[o] \in Object /\ w.obj[o].st # "none" /\ w.obj[o].ver \in Nat
        BY <2>1, <3>1, IInvParts, WorldType DEF LiveIn
      <4>2. w.obj[o].at \in Slot \cup {"away"} /\ v \in Nat /\ w.obj[o].ver <= v
        BY <4>1, ObjectType DEF Made
      <4>3. w' = Erred(Stored(w, o, w.obj[o].at, v, c), p)
        BY <3>1 DEF NewVersion
      <4> HIDE DEF o, v, c
      <4> QED BY <4>1, <4>2, <4>3
    <3>2. CASE MayPost(w) /\ w' = Erred(NewFile(w, p, c), p)
      <4>1. Fresh(w) \in ObjId /\ w.obj[Fresh(w)].st = "none" /\ 0 \in Nat
        BY <3>2, FreshIs
      <4>2. w' = Erred(Stored(w, Fresh(w), p, 0, c), p)
        BY <3>2 DEF NewFile
      <4> HIDE DEF c
      <4> QED BY <2>1, <4>1, <4>2
    <3> QED BY <1>9, <3>1, <3>2 DEF PushAnswerLost
  <2> DEFINE u == Stored(w, o, at, v, c)
  <2>3. c \in typed /\ c \in Content
    BY <2>1, IInvParts DEF Sound, FilesSound
  <2> HIDE DEF c
  <2>4. u \in World /\ Sound(u, typed) /\ Grows(w, u) /\ u.disk = w.disk
    <3>1. w \in World /\ typed \in SUBSET Content /\ Sound(w, typed)
      BY IInvParts
    <3>2. w.obj[o].st = "none" \/ w.obj[o].ver <= v
      BY <2>2
    <3> QED BY <2>3, <3>1, <3>2, SoundStored
  <2>5. Keeps(w, u)
    BY <2>3, IInvParts, StoredStep
  <2>6. w' = Erred(u, p)
    BY <2>2
  <2> HIDE DEF u
  <2>7. w' \in World /\ Grows(u, w') /\ Keeps(u, w') /\ w'.disk = u.disk
    BY <2>1, <2>4, <2>6, ErredStep
  <2>8. Sound(w', typed)
    BY <2>1, <2>4, <2>6, SoundMarked DEF Erred, Status
  <2>9. Grows(w, w') /\ Keeps(w, w') /\ w'.disk = w.disk
    BY <2>4, <2>5, <2>7, GrowsOn, KeepsOn, IInvParts
  <2>10. Minds'
    BY <1>0, <2>1, <2>7, <2>9, NextItemMinds DEF Pushing
  <2> QED BY <1>0, <2>8, <2>9, <2>10 DEF Good
<1> QED BY <1>1, <1>2, <1>3, <1>4, <1>5, <1>6, <1>7, <1>8, <1>9 DEF Push

(* pull: what may be written over was on the drive.                        *)
LEMMA PullSound == ASSUME IInv, Steady, Pull PROVE Good /\ Minds'
<1>0. typed' = typed
  BY DEF Pull, StartPull, PlanPull, CheckPull, Fetch, Place
<1>1. CASE StartPull
  BY <1>0, <1>1, StartScanSound DEF StartPull, Begin, Goto
<1>2. CASE PlanPull
  <2>1. PICK blind \in SUBSET Slot :
           LET seen  == [p \in Slot |-> Listing(w, p)]
               items == {p \in Slot : Pulls(p, seen[p], Hashed(p, blind))}
           IN  /\ pc = "walk" /\ w' = w
               /\ IF items = {} THEN AtRest
                  ELSE /\ todo' = items /\ view' = seen /\ Goto("check")
                       /\ UNCHANGED <<opt, snap, hold>>
    BY <1>2 DEF PlanPull
  <2> DEFINE seen  == [p \in Slot |-> Listing(w, p)]
             items == {p \in Slot : Pulls(p, seen[p], Hashed(p, blind))}
  <2>2. CASE items = {}
    BY <1>0, <2>1, <2>2, RestMinds, QuietGood
  <2>3. CASE items # {}
    <3>1. /\ todo' = items /\ view' = seen /\ pc' = "check" /\ w' = w /\ pc = "walk"
          /\ opt' = opt /\ snap' = snap /\ hold' = hold
      BY <2>1, <2>3 DEF Goto
    <3>2. ASSUME NEW p \in items
          PROVE  /\ seen[p].id # None
                 /\ snap[p].mt # None /\ w.disk[p].mt = snap[p].mt
                       => w.disk[p].c \in {v.c : v \in w.shown}
      <4>1. p \in Slot /\ Seen(seen[p])
        BY DEF Pulls
      <4>2. ASSUME snap[p].mt # None, w.disk[p].mt = snap[p].mt
            PROVE  w.disk[p].c \in {v.c : v \in w.shown}
        <5>1. ~LocalModified(w.rec[p], snap[p], Hashed(p, blind))
          BY <4>1, <4>2 DEF Pulls, Here
        <5>2. /\ w.rec[p].lc # None
              /\ MetaSame(w.rec[p], snap[p]) \/ Hashed(p, blind) = w.rec[p].lc
          BY <5>1 DEF LocalModified
        <5>3. w.disk[p].c # None
          BY <4>1, <4>2, IInvParts, DiskType
        <5>4. RowSound(w, typed, p, w.rec[p])
          BY <4>1, IInvParts DEF Sound
        <5>5. w.disk[p].c = w.rec[p].lc
          <6>1. CASE MetaSame(w.rec[p], snap[p])
            BY <4>1, <4>2, <5>2, <5>3, <5>4, <6>1 DEF MetaSame, RowSound
          <6>2. CASE Hashed(p, blind) = w.rec[p].lc
            BY <5>2, <6>2 DEF Hashed
          <6> QED BY <5>2, <6>1, <6>2
        <5>6. WasShown(w, w.rec[p].id, w.rec[p].rver, w.rec[p].lc)
          BY <5>2, <5>4, <5>5 DEF RowSound, Outdated
        <5> QED BY <5>5, <5>6 DEF WasShown
      <4> QED BY <4>1, <4>2 DEF Seen
    <3>3. \A p \in Slot : Known(w, seen[p].id, seen[p].ver)
      BY ListingIs, IInvParts
    <3> HIDE DEF seen, items
    <3>4. Remembered'
      BY <3>1, <3>3, IInvParts DEF Remembered
    <3>5. Scanned'
      BY <3>1, IInvParts DEF Scanned, Scanning
    <3>6. Sends'
      BY <3>1 DEF Sends, Pushing
    <3>7. Receives'
      BY <3>1, <3>2 DEF Receives
    <3> QED BY <1>0, <3>1, <3>4, <3>5, <3>6, <3>7, QuietGood DEF Minds
  <2> QED BY <2>2, <2>3
<1>3. ASSUME NEW p \in todo, CheckPull(p) PROVE Good /\ Minds'
  <2>1. p \in Slot /\ w' = w /\ pc = "check" /\ w.disk[p] \in Disk
    BY <1>3, IInvParts DEF CheckPull
  <2>2. CASE AsScanned(p)
    <3>1. /\ hold' = [NoHold EXCEPT !.p = p, !.mt = w.disk[p].mt, !.sz = SizeOf(w.disk[p].c)]
          /\ pc' = "fetch" /\ opt' = opt /\ snap' = snap /\ view' = view /\ todo' = todo
      BY <1>3, <2>2 DEF CheckPull, Goto
    <3>2. hold'.p = p /\ hold'.id = None /\ hold'.ver = None /\ hold'.mt = w.disk[p].mt
      BY <3>1 DEF NoHold
    <3>3. w.disk[p].mt \in {None, snap[p].mt}
      BY <2>1, <2>2, DiskType DEF AsScanned, SameStat
    <3>4. Remembered'
      BY <2>1, <3>1, <3>2, IInvParts DEF Remembered, Known
    <3>5. Scanned'
      BY <2>1, <3>1, IInvParts DEF Scanned, Scanning
    <3>6. Sends'
      BY <3>1 DEF Sends, Pushing
    <3>7. Receives'
      BY <2>1, <3>1, <3>2, <3>3, IInvParts DEF Receives
    <3> QED BY <1>0, <2>1, <3>4, <3>5, <3>6, <3>7, QuietGood DEF Minds
  <2>3. CASE ~AsScanned(p)
    <3>1. NextItem(p, "check")
      BY <1>3, <2>3 DEF CheckPull
    <3>2. w' \in World /\ Grows(w, w')
      BY <2>1, IInvParts, Unmoved
    <3> QED BY <1>0, <2>1, <3>1, <3>2, NextItemMinds, QuietGood
  <2> QED BY <2>2, <2>3
<1>4. CASE Fetch
  <2> DEFINE p == hold.p
             r == view[p]
             c == BytesOf(w, r.id)
  <2>1. pc = "fetch" /\ p \in Slot /\ p \in todo
    BY <1>4, IInvParts DEF Fetch, Remembered
  <2>2. CASE c # None /\ SizeOf(c) = r.sz
    <3>1. /\ hold' = [hold EXCEPT !.c = c] /\ w' = w /\ pc' = "place"
          /\ opt' = opt /\ snap' = snap /\ view' = view /\ todo' = todo
      BY <1>4, <2>2 DEF Fetch, Goto
    <3>2. /\ hold'.p = p /\ hold'.id = hold.id /\ hold'.ver = hold.ver
          /\ hold'.mt = hold.mt /\ hold'.c = c
      BY <3>1, IInvParts DEF Item
    <3>3. /\ r \in Sight /\ Known(w, r.id, r.ver) /\ r.id # None
          /\ r.id \in ObjId /\ c = w.obj[r.id].c
      BY <2>1, <2>2, IInvParts DEF Remembered, BytesOf, LiveIn, Sight
    <3>4. w.obj[r.id].c \in typed /\ WasShown(w, r.id, r.ver, w.obj[r.id].c)
      <4>1. r.ver \in Num
        BY <3>3 DEF Sight
      <4>2. CASE r.ver # None
        <5>1. w.obj[r.id].ver >= r.ver
          BY <3>3, <4>1, <4>2, IInvParts, WorldType DEF Known, Num
        <5> QED BY <3>3, <4>1, <5>1, IInvParts, FetchedIs
      <4>3. CASE r.ver = None
        <5>1. Version(r.id, w.obj[r.id].ver, w.obj[r.id].c) \in w.shown
          BY <3>3, IInvParts DEF Sound, DriveSound, Known
        <5>2. w.obj[r.id].c \in typed
          BY <2>2, <3>3, IInvParts DEF Sound, DriveSound
        <5> QED BY <4>3, <5>1, <5>2 DEF WasShown, Version
      <4> QED BY <4>2, <4>3
    <3> HIDE DEF r, c
    <3>5. Remembered'
      BY <2>1, <3>1, <3>2, IInvParts DEF Remembered
    <3>6. Scanned'
      BY <2>1, <3>1, IInvParts DEF Scanned, Scanning
    <3>7. Sends'
      BY <3>1 DEF Sends, Pushing
    <3>8. Receives'
      BY <1>0, <2>1, <3>1, <3>2, <3>3, <3>4, IInvParts DEF Receives, r
    <3> QED BY <1>0, <3>1, <3>5, <3>6, <3>7, <3>8, QuietGood DEF Minds
  <2>3. CASE ~(c # None /\ SizeOf(c) = r.sz)
    <3>1. ItemFails(p, "check")
      BY <1>4, <2>3 DEF Fetch
    <3> QED BY <1>0, <2>1, <3>1, FailSound
  <2> QED BY <2>2, <2>3
<1>5. CASE Place
  <2> DEFINE p == hold.p
             r == view[p]
             m == FreshStamp(p)
             c == hold.c
  <2>1. /\ pc = "place" /\ p \in Slot /\ p \in todo /\ NextItem(p, "check")
        /\ w' = IF StillThere(p) THEN Downloaded(w, p, r, c, m) ELSE w
    BY <1>5, IInvParts DEF Place, Remembered
  <2>2. m \in Stamp /\ m \notin InUse
    BY <2>1, <1>5, FreshStamps DEF Place, Roomy, Slot
  <2>3. /\ r \in Sight /\ Known(w, r.id, r.ver)
        /\ c \in typed /\ WasShown(w, r.id, r.ver, c) /\ c \in Content
    BY <2>1, IInvParts DEF Remembered, Receives
  <2>4. r.id \in ObjId \cup {None} /\ r.ver \in Num /\ r.sz \in Num
    BY <2>3 DEF Sight
  <2>5. Free(w, m)
    BY <2>2, NoneAssumption DEF Free, InUse
  <2>6. StillThere(p) => w.disk[p].c \in {v.c : v \in w.shown} \cup {None}
    <3>1. w.disk[p] \in Disk
      BY <2>1, IInvParts
    <3>2. StillThere(p) => w.disk[p].mt \in {None, snap[p].mt}
      BY <2>1, IInvParts DEF StillThere, Receives
    <3>3. w.disk[p].mt # None /\ w.disk[p].mt = snap[p].mt
             => w.disk[p].c \in {v.c : v \in w.shown}
      BY <2>1, IInvParts DEF Receives
    <3> QED BY <3>1, <3>2, <3>3, DiskType
  <2> HIDE DEF p, r, m, c
  <2>7. CASE ~StillThere(p)
    <3>1. w' = w /\ w' \in World /\ Grows(w, w')
      BY <2>1, <2>7, IInvParts, Unmoved
    <3> QED BY <1>0, <2>1, <3>1, NextItemMinds, QuietGood
  <2>8. CASE StillThere(p)
    <3> DEFINE t == Downloaded(w, p, r, c, m)
    <3>1. /\ t \in World /\ Grows(w, t) /\ Local(w, t, p)
          /\ w.disk[p].c \in KeptBy(t) \cup {None} => Keeps(w, t)
          /\ \A T \in SUBSET Content :
                Sound(w, T) /\ c \in T /\ WasShown(w, r.id, r.ver, c) => Sound(t, T)
      BY <2>1, <2>2, <2>3, <2>4, <2>5, IInvParts, DownloadedStep
    <3>2. t.disk[p].mt = m
      BY <2>1, IInvParts, WorldType DEF Downloaded, World
    <3> HIDE DEF t
    <3>3. Sound(t, typed)
      BY <2>3, <3>1, IInvParts
    <3>4. Keeps(w, t)
      BY <2>6, <2>8, <3>1 DEF Grows, KeptBy
    <3>5. w' = t
      BY <2>1, <2>8 DEF t
    <3>6. \A q \in Slot : \/ w'.disk[q] = w.disk[q]
                          \/ q = p /\ w'.disk[q].mt \notin InUse
      BY <2>2, <3>1, <3>2, <3>5 DEF Local
    <3>7. Minds'
      BY <1>0, <2>1, <3>1, <3>5, <3>6, NextItemMinds
    <3> QED BY <1>0, <3>3, <3>4, <3>5, <3>7 DEF Good
  <2> QED BY <2>7, <2>8
<1> QED BY <1>1, <1>2, <1>3, <1>4, <1>5 DEF Pull

LEMMA TransferSound == ASSUME IInv, TransferFails PROVE Good /\ Minds'
<1>1. typed' = typed
  BY DEF TransferFails
<1>2. CASE pc = "fetch" /\ ItemFails(hold.p, "check")
  BY <1>1, <1>2, FailSound, IInvParts DEF Remembered
<1>3. CASE pc = "again" /\ ItemFails(hold.p, "index")
  BY <1>1, <1>3, FailSound, IInvParts DEF Remembered, Pushing
<1>4. ASSUME NEW p \in todo, pc = "send", ItemFails(p, "send") PROVE Good /\ Minds'
  BY <1>1, <1>4, FailSound DEF Pushing
<1> QED BY <1>2, <1>3, <1>4 DEF TransferFails

(* What a drive file that is there holds was shown, in a version that is   *)
(* not older than one that is known.                                       *)
LEMMA LiveBytes ==
    ASSUME NEW s \in World, NEW T \in SUBSET Content, Sound(s, T),
           NEW id \in ObjId \cup {None}, NEW ver \in Num, Known(s, id, ver),
           BytesOf(s, id) # None
    PROVE  BytesOf(s, id) \in T /\ WasShown(s, id, ver, BytesOf(s, id))
<1>1. id \in ObjId /\ s.obj[id].st # "none" /\ BytesOf(s, id) = s.obj[id].c
  BY DEF BytesOf, LiveIn
<1>2. Version(id, s.obj[id].ver, s.obj[id].c) \in s.shown /\ s.obj[id].c \in T
  BY <1>1 DEF Sound, DriveSound
<1>3. ver # None => s.obj[id].ver >= ver
  BY <1>1, WorldType DEF Known, Num
<1> QED BY <1>1, <1>2, <1>3 DEF WasShown, Version

(* A file that was compared and is the drive's.                            *)
LEMMA BaselinedSound ==
    ASSUME IInv, NEW p \in Slot, pc = "verify", p = hold.p,
           BytesOf(w, view[p].id) = hold.c
    PROVE  Baselined(p, hold.c) \in Row /\ RowSound(w, typed, p, Baselined(p, hold.c))
<1> DEFINE row == Baselined(p, hold.c)
<1>1. /\ view[p] \in Sight /\ snap[p] \in Entry /\ hold.c \in typed
      /\ w.disk[p].mt = snap[p].mt => w.disk[p].c \in {hold.c, None}
  BY IInvParts DEF Receives
<1>2. hold.c \in Content /\ hold.c # None
  BY <1>1, IInvParts, NoneAssumption
<1>3. row \in Row
  BY <1>2, IInvParts, BaselinedType
<1>4. /\ row.id = view[p].id /\ row.rver = view[p].ver /\ row.lc = hold.c
      /\ row.lmt = snap[p].mt /\ row.st = "synced"
  BY DEF Baselined, RowOf
<1> HIDE DEF row
<1>5. Known(w, row.id, row.rver)
  BY <1>1, <1>4, IInvParts DEF Remembered
<1>6. row.lc \in typed /\ WasShown(w, row.id, row.rver, row.lc)
  <2>1. view[p].id \in ObjId \cup {None} /\ view[p].ver \in Num
    BY <1>1 DEF Sight
  <2>2. BytesOf(w, view[p].id) # None /\ Known(w, view[p].id, view[p].ver)
    BY <1>2, <1>4, <1>5
  <2>3. WasShown(w, view[p].id, view[p].ver, BytesOf(w, view[p].id))
    BY <2>1, <2>2, IInvParts, LiveBytes
  <2> QED BY <1>1, <1>4, <2>3
<1>7. ASSUME NEW q \in Slot, row.lmt = w.disk[q].mt
      PROVE  w.disk[q].c \in {row.lc, None}
  <2>1. CASE q = p
    BY <1>1, <1>4, <1>7, <2>1
  <2>2. CASE q # p /\ snap[p].mt # None
    BY <1>4, <1>7, <2>2, IInvParts DEF Scanned, Scanning
  <2>3. CASE snap[p].mt = None
    <3>1. w.disk[q] \in Disk /\ w.disk[q].mt = None
      BY <1>4, <1>7, <2>3, IInvParts
    <3> QED BY <3>1, DiskType
  <2> QED BY <2>1, <2>2, <2>3
<1>8. RowSound(w, typed, p, row)
  BY <1>4, <1>5, <1>6, <1>7 DEF RowSound
<1> QED BY <1>3, <1>8 DEF row

(* On to the next file to compare, or to the question.                     *)
LEMMA ComparedMinds ==
    ASSUME IInv, NEW p \in todo, NEW rest \in SUBSET todo, Compared(p, rest),
           pc \in {"compare", "verify"},
           w' \in World, Grows(w, w'), w'.disk = w.disk
    PROVE  Minds'
<1>1. CASE rest = {}
  BY <1>1, RestMinds DEF Compared
<1>2. CASE rest # {}
  <2>1. /\ todo' = rest /\ view' = [view EXCEPT ![p] = NoRemote] /\ hold' = NoHold
        /\ pc' \in {"ask", "compare"} /\ opt' = opt /\ snap' = snap
    BY <1>2 DEF Compared, Goto
  <2>2. \A q \in Slot : Known(w', view'[q].id, view'[q].ver)
    BY <2>1, KnownOn, IInvParts DEF Known, NoRemote
  <2>3. Remembered'
    BY <2>1, <2>2, IInvParts DEF Remembered, Known, NoHold
  <2>4. Scanned'
    BY <2>1, IInvParts DEF Scanned, Scanning, Pushing
  <2>5. Sends' /\ Receives'
    BY <2>1 DEF Sends, Receives, Pushing
  <2> QED BY <2>3, <2>4, <2>5 DEF Minds
<1> QED BY <1>1, <1>2

LEMMA TargetSound ==
    ASSUME IInv, NEW p \in todo, pc \in {"compare", "verify"}, typed' = typed,
           \/ Differs(p) \/ Failed(p)
           \/ /\ Same(p, hold.c) /\ pc = "verify" /\ p = hold.p
              /\ BytesOf(w, view[p].id) = hold.c
    PROVE  Good /\ Minds'
<1>1. PICK rest \in SUBSET todo : Compared(p, rest)
  BY DEF Differs, Failed, Same
<1>2. CASE w' = w
  <2>1. w' \in World /\ Grows(w, w') /\ w'.disk = w.disk
    BY <1>2, IInvParts, Unmoved
  <2> QED BY <1>1, <1>2, <2>1, ComparedMinds, QuietGood
<1>3. CASE /\ w' = Recorded(w, p, Baselined(p, hold.c)) /\ pc = "verify" /\ p = hold.p
           /\ BytesOf(w, view[p].id) = hold.c
  <2>1. p \in Slot /\ Baselined(p, hold.c) \in Row
        /\ RowSound(w, typed, p, Baselined(p, hold.c))
    BY <1>3, IInvParts, BaselinedSound
  <2>2. w' \in World /\ Sound(w', typed) /\ Grows(w, w') /\ w'.disk = w.disk
    BY <1>3, <2>1, IInvParts, SoundRecorded
  <2>3. Keeps(w, w')
    BY <1>3, <2>1, IInvParts, RecordedStep
  <2>4. Minds'
    BY <1>1, <2>2, ComparedMinds
  <2> QED BY <2>2, <2>3, <2>4 DEF Good
<1> QED BY <1>2, <1>3 DEF Differs, Failed, Same

LEMMA ReconcileSound == ASSUME IInv, Steady, Reconcile PROVE Good /\ Minds'
<1>0. typed' = typed
  BY DEF Reconcile, StartReconcile, Match, HashTarget, CompareTarget, CompareFails, AskRemote,
         AskSkip
<1>1. CASE StartReconcile
  BY <1>0, <1>1, StartScanSound DEF StartReconcile, Begin, Goto
<1>2. CASE Match
  <2> DEFINE items == {p \in Slot : Target(p) \/ (Orphan(p) /\ Seen(Listing(w, p)))}
  <2>1. CASE items = {}
    BY <1>0, <1>2, <2>1, RestMinds, QuietGood DEF Match
  <2>2. CASE items # {}
    <3>1. /\ todo' = items /\ pc' = "compare" /\ pc = "match" /\ w' = w
          /\ opt' = opt /\ snap' = snap /\ hold' = hold
          /\ view' = [p \in Slot |->
               IF Target(p) THEN [id |-> w.rec[p].id, ver |-> w.rec[p].rver,
                                  sz |-> w.rec[p].rsz, c |-> None]
               ELSE Listing(w, p)]
      BY <1>2, <2>2 DEF Match, Goto
    <3>2. ASSUME NEW p \in Slot PROVE Known(w, view'[p].id, view'[p].ver)
      <4>1. Known(w, w.rec[p].id, w.rec[p].rver)
        BY IInvParts DEF Sound, RowSound
      <4>2. Known(w, Listing(w, p).id, Listing(w, p).ver)
        BY IInvParts, ListingIs
      <4> QED BY <3>1, <4>1, <4>2
    <3>3. Remembered'
      BY <3>1, <3>2, IInvParts DEF Remembered
    <3>4. Scanned'
      BY <3>1, IInvParts DEF Scanned, Scanning
    <3>5. Sends' /\ Receives'
      BY <3>1 DEF Sends, Receives, Pushing
    <3> QED BY <1>0, <3>1, <3>3, <3>4, <3>5, QuietGood DEF Minds
  <2> QED BY <2>1, <2>2
<1>3. ASSUME NEW p \in Pending, HashTarget(p) PROVE Good /\ Minds'
  <2>1. /\ pc = "compare" /\ p \in todo /\ p \in Slot
        /\ opt \in Options /\ opt # "reconcile size"
    BY <1>3, IInvParts DEF HashTarget, Pending, Remembered, Steady, Compares
  <2>2. CASE Differs(p) \/ Failed(p)
    BY <1>0, <2>1, <2>2, TargetSound
  <2>3. CASE /\ w.disk[p].c # None
             /\ hold' = [NoHold EXCEPT !.p = p, !.c = w.disk[p].c] /\ Goto("verify")
             /\ UNCHANGED <<w, opt, snap, view, todo>>
    <3>1. /\ hold'.p = p /\ hold'.c = w.disk[p].c /\ hold'.id = None /\ hold'.ver = None
          /\ pc' = "verify" /\ w.disk[p].c \in typed
          /\ w' = w /\ opt' = opt /\ snap' = snap /\ view' = view /\ todo' = todo
      BY <2>1, <2>3, IInvParts DEF NoHold, Goto, Sound, FilesSound
    <3>2. Remembered'
      <4>1. \A q \in Slot : Known(w, view[q].id, view[q].ver)
        BY IInvParts DEF Remembered
      <4>2. Known(w, hold'.id, hold'.ver)
        BY <3>1 DEF Known
      <4> QED BY <2>1, <3>1, <4>1, <4>2 DEF Remembered
    <3>3. Scanned'
      BY <2>1, <3>1, IInvParts DEF Scanned, Scanning
    <3>4. Sends' /\ Receives'
      BY <1>0, <3>1 DEF Sends, Receives, Pushing
    <3> QED BY <1>0, <3>1, <3>2, <3>3, <3>4, QuietGood DEF Minds
  <2> QED BY <1>3, <2>1, <2>2, <2>3 DEF HashTarget, BySize
<1>5. CASE CompareTarget
  <2>1. pc = "verify" /\ hold.p \in todo
    BY <1>5, IInvParts DEF CompareTarget, Remembered
  <2> QED BY <1>0, <1>5, <2>1, TargetSound DEF CompareTarget
<1>6. CASE CompareFails
  <2>1. PICK p \in todo : Failed(p) /\ pc \in {"compare", "verify"}
    BY <1>6, IInvParts DEF CompareFails, Pending, Remembered
  <2> QED BY <1>0, <2>1, TargetSound
<1>4. ASSUME NEW p \in todo, AskRemote(p) \/ AskSkip(p) PROVE Good /\ Minds'
  <2>1. w' \in {w, SetAside(w, p)} /\ NextItem(p, "ask") /\ p \in Slot /\ pc = "ask"
    BY <1>4, IInvParts DEF AskRemote, AskSkip
  <2>2. w' \in World /\ Grows(w, w') /\ Keeps(w, w')
    BY <2>1, IInvParts, SetAsideStep, Unmoved, QuietGood, <1>0 DEF Good
  <2>3. Sound(w', typed)
    BY <2>1, IInvParts, SoundSetAside
  <2>4. Minds'
    BY <1>0, <2>1, <2>2, NextItemMinds
  <2> QED BY <1>0, <2>2, <2>3, <2>4 DEF Good
<1> QED BY <1>1, <1>2, <1>3, <1>4, <1>5, <1>6 DEF Reconcile

(* The copy takes the place of a file that is gone.                        *)
LEMMA BackStep ==
    ASSUME NEW s \in World, NEW T \in SUBSET Content, Sound(s, T),
           ~NoReturn, s.disk.orig = NoFile
    PROVE  LET t == [s EXCEPT !.disk.orig = s.disk.copy, !.disk.copy = NoFile]
           IN  t \in World /\ Grows(s, t) /\ Sound(t, T) /\ Keeps(s, t)
<1> DEFINE t == [s EXCEPT !.disk.orig = s.disk.copy, !.disk.copy = NoFile]
<1>1. /\ t \in World /\ Grows(s, t)
      /\ t.disk.orig = s.disk.copy /\ t.disk.copy = NoFile
      /\ <<t.bin, t.aside, t.rec, t.obj, t.rev, t.shown>>
            = <<s.bin, s.aside, s.rec, s.obj, s.rev, s.shown>>
  BY BackType
<1> HIDE DEF t
<1>2. DriveSound(t, T) /\ FilesSound(t, T)
  BY <1>1, NoFileType DEF Sound, DriveSound, FilesSound, Slot
<1>3. ASSUME NEW p \in Slot PROVE RowSound(t, T, p, t.rec[p])
  <2>1. s.rec[p] \in Row /\ RowSound(s, T, p, s.rec[p]) /\ t.rec[p] = s.rec[p]
    BY <1>1, WorldType DEF Sound
  <2>2. \A x \in Slot : t.disk[x].c = None \/ \E y \in Slot : t.disk[x] = s.disk[y]
    BY <1>1, NoFileType DEF Slot
  <2>3. RowSound(t, T, p, s.rec[p])
    BY <1>1, <2>1, <2>2, RowKept
  <2> QED BY <2>1, <2>3
<1>4. Keeps(s, t)
  BY <1>1, NoFileType DEF Keeps, KeptBy, Slot
<1> QED BY <1>1, <1>2, <1>3, <1>4 DEF Sound, t

LEMMA ResolveSound == ASSUME IInv, Steady, Resolve PROVE Good /\ Minds'
<1>0. typed' = typed
  BY DEF Resolve, ResolveBoth, StartResolve, DropRemoteCopy, BinCopy, BinOriginal,
         BringBack, RecordChoice, BinRefuses
<1>1. CASE ResolveBoth
  <2>1. w' = w /\ UNCHANGED volat /\ w' \in World /\ Grows(w, w')
    BY <1>1, IInvParts, Unmoved DEF ResolveBoth
  <2> QED BY <1>0, <2>1, OthersMinds, QuietGood
<1>2. CASE StartResolve
  <2>1. /\ w' = w /\ pc' = "drop" /\ opt' \in Options
        /\ snap' = snap /\ view' = view /\ todo' = todo /\ hold' = hold
    BY <1>2 DEF StartResolve, Begin, Goto
  <2>2. Remembered'
    BY <2>1, IInvParts DEF Remembered
  <2>3. Scanned' /\ Sends' /\ Receives'
    BY <2>1 DEF Scanned, Scanning, Sends, Receives, Pushing
  <2> QED BY <1>0, <2>1, <2>2, <2>3, QuietGood DEF Minds
<1>3. CASE DropRemoteCopy
  <2>1. PICK ok \in BOOLEAN :
           LET row  == w.rec.copy
               gone == IF ok /\ row.id # None THEN Trashed(w, row.id) ELSE w
           IN  /\ pc = "drop" /\ Goto("bin")
               /\ w' = Recorded(gone, "copy", NoRow)
               /\ UNCHANGED <<opt, snap, view, todo, hold>>
    BY <1>3 DEF DropRemoteCopy
  <2> DEFINE gone == IF ok /\ w.rec.copy.id # None THEN Trashed(w, w.rec.copy.id) ELSE w
  <2>2. gone \in World /\ Grows(w, gone) /\ Sound(gone, typed) /\ Keeps(w, gone)
    <3>1. w.rec.copy.id \in ObjId \cup {None}
      BY IInvParts, RowType DEF Slot
    <3>2. gone \in {w, Trashed(w, w.rec.copy.id)}
      OBVIOUS
    <3>3. Keeps(w, w)
      BY DEF Keeps
    <3> HIDE DEF gone
    <3> QED BY <3>1, <3>2, <3>3, IInvParts, TrashedGrows, SoundTrashed, GrowsSelf
  <2>3. w' = Recorded(gone, "copy", NoRow) /\ "copy" \in Slot
    BY <2>1 DEF Slot
  <2> HIDE DEF gone
  <2>4. w' \in World /\ Grows(w, w') /\ Keeps(w, w')
    BY <2>2, <2>3, IInvParts, RecordedStep, NoRowType, GrowsOn, KeepsOn
  <2>5. Sound(w', typed)
    BY <2>2, <2>3, SoundRecorded, NoRowType, NoRowSound
  <2>6. /\ pc' = "bin" /\ pc = "drop" /\ opt' = opt
        /\ snap' = snap /\ view' = view /\ todo' = todo /\ hold' = hold
    BY <2>1 DEF Goto
  <2>7. Remembered'
    BY <2>4, <2>6, KnownOn, IInvParts DEF Remembered
  <2>8. Scanned' /\ Sends' /\ Receives'
    BY <2>6 DEF Scanned, Scanning, Sends, Receives, Pushing
  <2> QED BY <1>0, <2>4, <2>5, <2>7, <2>8 DEF Good, Minds
<1>4. CASE BinCopy
  <2>1. w' = Binned(w, "copy") /\ AtRest /\ "copy" \in Slot
    BY <1>4 DEF BinCopy, Slot
  <2>2. Sound(w', typed) /\ Keeps(w, w')
    BY <2>1, IInvParts, SoundBinned, BinnedStep
  <2> QED BY <1>0, <2>1, <2>2, RestMinds DEF Good
<1>5. CASE BinOriginal
  <2>1. /\ w' = Binned(w, "orig") /\ "orig" \in Slot /\ pc = "bin" /\ pc' = "back"
        /\ opt = "local" /\ opt' = opt
        /\ snap' = snap /\ view' = view /\ todo' = todo /\ hold' = hold
    BY <1>5 DEF BinOriginal, Goto, Slot
  <2>2. w' \in World /\ Grows(w, w') /\ Sound(w', typed) /\ Keeps(w, w')
    BY <2>1, IInvParts, SoundBinned, BinnedStep
  <2>3. w'.disk.orig = NoFile
    BY <2>1, IInvParts, BinnedIs
  <2>4. Remembered'
    BY <2>1, <2>2, <2>3, KnownOn, IInvParts DEF Remembered
  <2>5. Scanned' /\ Sends' /\ Receives'
    BY <2>1 DEF Scanned, Scanning, Sends, Receives, Pushing
  <2> QED BY <1>0, <2>2, <2>4, <2>5 DEF Good, Minds
<1>6. CASE BringBack
  <2>1. pc = "back" /\ opt = "local" /\ opt \in Options /\ w.disk.orig = NoFile /\ ~NoReturn
    BY <1>6, IInvParts DEF BringBack, Remembered, NoReturn
  <2>2. CASE w.disk.copy.c = None
    BY <1>0, <1>6, <2>2, RestMinds, QuietGood DEF BringBack
  <2>3. CASE w.disk.copy.c # None
    <3>1. /\ w' = [w EXCEPT !.disk.orig = w.disk.copy, !.disk.copy = NoFile]
          /\ pc' = "row" /\ opt' = opt
          /\ snap' = snap /\ view' = view /\ todo' = todo /\ hold' = hold
      BY <1>6, <2>3 DEF BringBack, Goto
    <3>2. w' \in World /\ Grows(w, w') /\ Sound(w', typed) /\ Keeps(w, w')
      BY <2>1, <3>1, IInvParts, BackStep
    <3>3. Remembered'
      BY <2>1, <3>1, <3>2, KnownOn, IInvParts DEF Remembered
    <3>4. Scanned' /\ Sends' /\ Receives'
      BY <3>1 DEF Scanned, Scanning, Sends, Receives, Pushing
    <3> QED BY <1>0, <3>2, <3>3, <3>4 DEF Good, Minds
  <2> QED BY <2>2, <2>3
<1>7. CASE RecordChoice
  <2> DEFINE old == w.rec.orig
             row == Restored(old)
  <2>1. w' = Recorded(w, "orig", row) /\ AtRest /\ "orig" \in Slot
    BY <1>7 DEF RecordChoice, Slot
  <2>2. old \in Row /\ RowSound(w, typed, "orig", old)
    BY <2>1, IInvParts DEF Sound
  <2>3. row \in Row
    BY <2>2 DEF Restored, Row, Num, Status
  <2>4. /\ row.id = old.id /\ row.rver = old.rver /\ row.lc = old.lc /\ row.lmt = None
        /\ row.st # "none"
    BY <2>2 DEF Restored, Row
  <2> HIDE DEF old, row
  <2>5. \A q \in Slot : w.disk[q].mt = None => w.disk[q].c = None
    BY IInvParts, DiskType
  <2>6. RowSound(w, typed, "orig", row)
    BY <2>2, <2>4, <2>5 DEF RowSound
  <2>7. Sound(w', typed) /\ Keeps(w, w')
    BY <2>1, <2>3, <2>6, IInvParts, SoundRecorded, RecordedStep
  <2> QED BY <1>0, <2>1, <2>7, RestMinds DEF Good
<1>8. CASE BinRefuses
  BY <1>0, <1>8, RestMinds, QuietGood DEF BinRefuses
<1> QED BY <1>1, <1>2, <1>3, <1>4, <1>5, <1>6, <1>7, <1>8 DEF Resolve

(* init: what it enrols has no baseline of its own.                        *)
LEMMA InitSound == ASSUME IInv, Steady, InitSteps PROVE Good /\ Minds'
<1>0. typed' = typed
  BY DEF InitSteps, StartInit, InitRows, InitTip
<1>1. CASE StartInit
  <2>1. PICK o \in {"init", "init force"} :
           /\ o = "init" => \A p \in Slot : w.rec[p] = NoRow
           /\ o \in Options /\ opt' = o /\ pc' = "rows" /\ w' = w
           /\ snap' = [p \in Slot |-> [mt |-> w.rec[p].lmt, sz |-> w.rec[p].lsz,
                                       c |-> w.rec[p].lc]]
           /\ view' = [p \in Slot |-> Listing(w, p)]
           /\ todo' = todo /\ hold' = hold
    BY <1>1 DEF StartInit, Begin, Goto
  <2>2. o = "init"
    BY <2>1 DEF Steady, Compares
  <2>3. \A p \in Slot : snap'[p].c = None
    BY <2>1, <2>2 DEF NoRow
  <2>4. \A p \in Slot : Known(w, view'[p].id, view'[p].ver)
    BY <2>1, IInvParts, ListingIs
  <2>5. Remembered'
    BY <2>1, <2>3, <2>4, IInvParts DEF Remembered
  <2>6. Scanned' /\ Sends' /\ Receives'
    BY <2>1 DEF Scanned, Scanning, Sends, Receives, Pushing
  <2> QED BY <1>0, <2>1, <2>5, <2>6, QuietGood DEF Minds
<1>2. CASE InitRows
  <2> DEFINE rows == [p \in Slot |-> IF Seen(view[p]) THEN Enrolled(p) ELSE w.rec[p]]
  <2>1. /\ pc = "rows" /\ pc' = "tip" /\ w' = [w EXCEPT !.rec = rows]
        /\ opt' = opt /\ snap' = snap /\ view' = view /\ todo' = todo /\ hold' = hold
    BY <1>2 DEF InitRows, Goto
  <2>2. ASSUME NEW p \in Slot
        PROVE  Enrolled(p) \in Row /\ RowSound(w, typed, p, Enrolled(p))
    <3>1. snap[p].c = None /\ Known(w, view[p].id, view[p].ver) /\ view[p] \in Sight
      BY <2>1, IInvParts DEF Remembered
    <3>2. Enrolled(p) = RowOf(view[p].id, None, None, None, view[p].ver, view[p].sz,
                              "pending_download")
      BY <3>1 DEF Enrolled
    <3>3. Enrolled(p) \in Row
      BY <3>1, <3>2 DEF RowOf, Row, Sight, Num, Status
    <3>4. /\ Enrolled(p).id = view[p].id /\ Enrolled(p).rver = view[p].ver
          /\ Enrolled(p).lc = None /\ Enrolled(p).st = "pending_download"
      BY <3>2 DEF RowOf
    <3> QED BY <3>1, <3>3, <3>4 DEF RowSound
  <2>3. ASSUME NEW p \in Slot PROVE rows[p] \in Row /\ RowSound(w, typed, p, rows[p])
    <3>1. w.rec[p] \in Row /\ RowSound(w, typed, p, w.rec[p])
      BY IInvParts DEF Sound
    <3> QED BY <2>2, <3>1
  <2>4. rows \in [Slot -> Row] /\ \A p \in Slot : RowSound(w, typed, p, rows[p])
    BY <2>3
  <2> HIDE DEF rows
  <2>5. w' \in World /\ Grows(w, w') /\ Keeps(w, w')
    BY <2>1, <2>4, IInvParts, RowsIs
  <2>6. Sound(w', typed)
    BY <2>1, <2>4, IInvParts, SoundRows
  <2>7. Remembered'
    BY <2>1, <2>5, KnownOn, IInvParts DEF Remembered
  <2>8. Scanned' /\ Sends' /\ Receives'
    BY <2>1 DEF Scanned, Scanning, Sends, Receives, Pushing
  <2> QED BY <1>0, <2>5, <2>6, <2>7, <2>8 DEF Good, Minds
<1>3. CASE InitTip
  BY <1>0, <1>3, RestMinds, QuietGood DEF InitTip
<1> QED BY <1>1, <1>2, <1>3 DEF InitSteps

LEMMA SyncSound == ASSUME IInv, Sync PROVE Good /\ Minds'
<1>1. PICK full \in BOOLEAN, bad \in SUBSET Slot : SyncPass(full, bad)
  BY DEF Sync
<1>2. w' \in World /\ Grows(w, w') /\ Holds(w, w')
  BY <1>1, IInvParts, PassStep
<1>3. typed' = typed /\ UNCHANGED volat /\ pc \in {"idle", "rows", "tip"}
  BY <1>1 DEF SyncPass
<1>4. Good
  BY <1>2, <1>3, IInvParts DEF Holds, Good
<1>5. /\ pc' = pc /\ opt' = opt /\ snap' = snap /\ view' = view /\ todo' = todo
      /\ hold' = hold
  BY <1>3 DEF volat
<1>6. Remembered'
  BY <1>2, <1>3, <1>5, KnownOn, IInvParts DEF Remembered
<1>7. Scanned' /\ Sends' /\ Receives'
  BY <1>3, <1>5 DEF Scanned, Scanning, Sends, Receives, Pushing
<1> QED BY <1>4, <1>6, <1>7 DEF Minds

(* Bytes that nobody had, with a time that nobody had.                     *)
LEMMA SavedSound ==
    ASSUME NEW s \in World, NEW T \in SUBSET Content, Sound(s, T),
           NEW c \in Content \ T, NEW m \in Stamp, Free(s, m)
    PROVE  Sound([s EXCEPT !.disk.orig = [c |-> c, mt |-> m]], T \cup {c})
<1> DEFINE t == [s EXCEPT !.disk.orig = [c |-> c, mt |-> m]]
           U == T \cup {c}
<1>1. /\ t \in World /\ Grows(s, t)
      /\ t.disk.orig = [c |-> c, mt |-> m] /\ t.disk.copy = s.disk.copy
      /\ <<t.bin, t.aside, t.rec, t.obj, t.rev, t.shown>>
            = <<s.bin, s.aside, s.rec, s.obj, s.rev, s.shown>>
  BY SavedIs
<1>2. t.disk.orig.c = c /\ t.disk.orig.mt = m
  BY <1>1
<1> HIDE DEF t
<1>3. DriveSound(t, U)
  BY <1>1 DEF Sound, DriveSound
<1>4. FilesSound(t, U)
  BY <1>1, <1>2 DEF Sound, FilesSound, Free, Slot
<1>5. ASSUME NEW p \in Slot PROVE RowSound(t, U, p, t.rec[p])
  <2>1. /\ s.rec[p] \in Row /\ RowSound(s, T, p, s.rec[p]) /\ t.rec[p] = s.rec[p]
        /\ s.rec[p].lmt # m
    BY <1>1, WorldType DEF Sound, Free
  <2>2. \A x \in Slot : s.rec[p].lmt = t.disk[x].mt => t.disk[x] = s.disk[x]
    BY <1>1, <1>2, <2>1 DEF Slot
  <2>3. RowSound(t, U, p, s.rec[p])
    BY <1>1, <1>2, <2>1, <2>2, RowKept
  <2> QED BY <2>1, <2>3
<1> QED BY <1>3, <1>4, <1>5 DEF Sound, t

LEMMA EnvSound == ASSUME IInv, Steady, Env PROVE Good /\ Minds'
<1>1. CASE Save
  <2>1. PICK c \in Content \ typed :
           /\ pc \in SavePoints /\ Roomy /\ typed' = typed \cup {c} /\ UNCHANGED volat
           /\ w' = [w EXCEPT !.disk.orig = [c |-> c, mt |-> FreshStamp("orig")]]
    BY <1>1 DEF Save
  <2> DEFINE m == FreshStamp("orig")
  <2>2. m \in Stamp /\ m \notin InUse
    BY <2>1, FreshStamps DEF Roomy
  <2>3. pc # "back" /\ (pc \in Pushing => NoReturn)
    BY <2>1 DEF Steady
  <2>4. Free(w, m)
    BY <2>2, NoneAssumption DEF Free, InUse
  <2>5. w' = [w EXCEPT !.disk.orig = [c |-> c, mt |-> m]]
    BY <2>1
  <2> HIDE DEF m
  <2>6. Sound(w', typed') /\ typed' # typed
    BY <2>1, <2>2, <2>4, <2>5, IInvParts, SavedSound
  <2>7. /\ w' \in World /\ Grows(w, w')
        /\ w'.disk.orig = [c |-> c, mt |-> m] /\ w'.disk.copy = w.disk.copy
    BY <2>2, <2>5, IInvParts, SavedIs
  <2>8. \A q \in Slot : \/ w'.disk[q] = w.disk[q]
                        \/ /\ q = "orig" /\ w'.disk[q].mt \notin InUse
                           /\ w'.disk[q].c \notin typed
    BY <2>2, <2>7 DEF Slot
  <2>9. Minds'
    BY <2>1, <2>3, <2>7, <2>8, OthersMinds
  <2> QED BY <2>6, <2>9 DEF Good
<1>2. CASE Delete
  <2>1. PICK p \in Slot : w' = Binned(w, p) /\ typed' = typed /\ UNCHANGED volat
    BY <1>2 DEF Delete
  <2>2. w' \in World /\ Grows(w, w') /\ Sound(w', typed) /\ Keeps(w, w')
    BY <2>1, IInvParts, SoundBinned, BinnedStep
  <2>3. w'.disk = [w.disk EXCEPT ![p] = NoFile]
    BY <2>1, IInvParts, BinnedIs
  <2>4. \A q \in Slot : w'.disk[q] \in {w.disk[q], NoFile}
    BY <2>3, IInvParts
  <2>5. Minds'
    BY <2>1, <2>2, <2>4, OthersMinds
  <2> QED BY <2>1, <2>2, <2>5 DEF Good
<1>3. CASE OtherWrites
  <2>1. PICK c \in Content \ typed :
           /\ Roomy /\ typed' = typed \cup {c} /\ UNCHANGED volat
           /\ w' = IF LiveAt(w, "orig") = {} THEN NewFile(w, "orig", c)
                   ELSE NewVersion(w, Listing(w, "orig").id, c)
    BY <1>3 DEF OtherWrites
  <2>2. PICK o \in ObjId, p \in Slot \cup {"away"}, v \in Nat :
           /\ w' = Stored(w, o, p, v, c)
           /\ w.obj[o].st = "none" \/ w.obj[o].ver <= v
    BY <2>1, IInvParts, WrittenIs
  <2>3. c \in typed' /\ typed \subseteq typed' /\ typed' \in SUBSET Content
    BY <2>1, IInvParts
  <2>4. Good /\ w' \in World /\ Grows(w, w') /\ w'.disk = w.disk
    BY <2>2, <2>3, StoredGood
  <2>5. Minds'
    BY <2>1, <2>3, <2>4, OthersMinds
  <2> QED BY <2>4, <2>5
<1>4. CASE OtherTrashes
  <2>1. PICK p \in Slot :
           w' = Trashed(w, Listing(w, p).id) /\ typed' = typed /\ UNCHANGED volat
    BY <1>4 DEF OtherTrashes
  <2>2. Listing(w, p).id \in ObjId \cup {None}
    BY IInvParts, ListingIs DEF Sight
  <2>3. w' \in World /\ Grows(w, w') /\ Sound(w', typed) /\ Keeps(w, w')
    BY <2>1, <2>2, IInvParts, SoundTrashed, TrashedGrows
  <2>4. w'.disk = w.disk
    BY <2>1, <2>2, IInvParts, TrashedIs
  <2>5. Minds'
    BY <2>1, <2>3, <2>4, OthersMinds
  <2> QED BY <2>1, <2>3, <2>5 DEF Good
<1>5. CASE Crash
  BY <1>5, RestMinds, QuietGood DEF Crash
<1> QED BY <1>1, <1>2, <1>3, <1>4, <1>5 DEF Env

(* Every step keeps the invariant, and loses nothing.                      *)
LEMMA NextSound == ASSUME IInv, Steady, [Next]_vars PROVE Good /\ IInv'
<1>1. Good /\ Minds'
  <2>1. CASE UNCHANGED vars
    <3>1. w' = w /\ typed' = typed /\ UNCHANGED volat
      BY <2>1 DEF vars, volat
    <3>2. w' \in World /\ Grows(w, w')
      BY <3>1, IInvParts, Unmoved
    <3> QED BY <3>1, <3>2, OthersMinds, QuietGood
  <2> QED BY <2>1, SyncSound, PushSound, PullSound, ReconcileSound, ResolveSound,
             InitSound, TransferSound, EnvSound DEF Next, CommandSteps
<1>2. TypeOK'
  BY NextType, TypedStep, IInvParts
<1> QED BY <1>1, <1>2 DEF Good, Minds, IInv

LEMMA StartSound == ASSUME Init PROVE IInv
<1>1. PICK c \in Content \cup {None}, d \in Content \cup {None} :
              /\ w = Bare(c, d) /\ typed = {c, d} \ {None}
              /\ pc = "idle" /\ view = NoSight /\ hold = NoHold
  BY StartIs
<1>2. /\ w \in World /\ w.disk.copy = NoFile /\ w.disk.orig.c = c
      /\ \A p \in Slot : w.rec[p] = NoRow
      /\ DriveSound(w, typed)
  BY <1>1, BareIs
<1>3. FilesSound(w, typed)
  BY <1>1, <1>2, NoFileType DEF FilesSound, Slot
<1>4. Sound(w, typed)
  BY <1>2, <1>3, NoRowSound DEF Sound
<1>5. Remembered
  BY <1>1 DEF Remembered, Known, NoHold, NoSight, NoRemote
<1>6. Scanned /\ Sends /\ Receives
  BY <1>1 DEF Scanned, Sends, Receives, Scanning, Pushing
<1> QED BY <1>4, <1>5, <1>6, StartType DEF IInv

LEMMA IInvHolds == ASSUME Steady PROVE Spec => []IInv
<1>1. Init => IInv
  BY StartSound
<1>2. IInv /\ [Next]_vars => IInv'
  BY NextSound
<1> QED BY <1>1, <1>2, PTL DEF Spec

(* The baseline of a row is content that agreed with the drive once,       *)
(* whatever was typed in whatever order and wherever a command ended: a    *)
(* file that still has the time of its row has the bytes of the baseline,  *)
(* and a file with the bytes of its baseline was the drive file of its     *)
(* row, in the version of the row or a later one.                          *)
THEOREM BaseIsHonest == ASSUME Steady PROVE Spec => []BaseHonest
<1>1. IInv => BaseHonest
  <2> SUFFICES ASSUME IInv, NEW p \in Slot, w.rec[p].lc # None, w.disk[p].c # None
               PROVE  /\ w.rec[p].lmt = w.disk[p].mt => w.rec[p].lc = w.disk[p].c
                      /\ w.rec[p].lc = w.disk[p].c => \E v \in w.shown :
                            /\ v.id = w.rec[p].id /\ v.c = w.rec[p].lc
                            /\ w.rec[p].rver # None => v.ver >= w.rec[p].rver
    BY DEF BaseHonest
  <2>1. RowSound(w, typed, p, w.rec[p])
    BY IInvParts DEF Sound
  <2> QED BY <2>1 DEF RowSound, Outdated, WasShown
<1> QED BY <1>1, IInvHolds, PTL

(* No step of a command, of a sync pass or of another PC makes the bytes   *)
(* of a file disappear: they are still in the folder, in the recycle bin,  *)
(* under another name or among the versions of the drive.                  *)
THEOREM NothingIsLost == ASSUME Steady PROVE Spec => NothingLost
<1>1. IInv /\ [Next]_vars =>
         [typed' = typed => \A p \in Slot : w.disk[p].c \in Kept' \cup {None}]_vars
  <2> SUFFICES ASSUME IInv, [Next]_vars, typed' = typed, NEW p \in Slot
               PROVE  w.disk[p].c \in Kept' \cup {None}
    OBVIOUS
  <2>1. Keeps(w, w')
    BY NextSound DEF Good
  <2> QED BY <2>1 DEF Keeps, KeptBy, Kept
<1> QED BY <1>1, IInvHolds, PTL DEF NothingLost, Spec
-----------------------------------------------------------------------------
(* ChoiceStands.  First the order of the drive: one file of a name, the    *)
(* versions it showed, and where the rows' files are.                      *)
Lined(s) == OneOfAName(s) /\ InOrder(s)

(* No file moves but out of the model.                                     *)
Stays(s, t) == \A o \in ObjId : s.obj[o].st # "none" =>
    /\ t.obj[o].st # "none"
    /\ \/ t.obj[o].at = s.obj[o].at
       \/ s.obj[o].at = "copy" /\ t.obj[o].at = "away"

(* The file q, its row and its drive files are as they were.               *)
Apart(s, t, q) ==
    /\ t.disk[q] = s.disk[q] /\ t.rec[q] = s.rec[q]
    /\ LiveAt(t, q) = LiveAt(s, q)
    /\ \A o \in LiveAt(s, q) : t.obj[o] = s.obj[o]

LEMMA AtHomeKept ==
    ASSUME NEW s, NEW t, Stays(s, t), NEW p \in Slot, NEW id \in ObjId \cup {None},
           AtHome(s, p, id)
    PROVE  AtHome(t, p, id)
BY DEF AtHome, Stays

LEMMA StaysOn ==
    ASSUME NEW s, NEW t, NEW u, Stays(s, t), Stays(t, u) PROVE Stays(s, u)
BY DEF Stays

LEMMA ApartOn ==
    ASSUME NEW s, NEW t, NEW u, NEW q, Apart(s, t, q), Apart(t, u, q)
    PROVE  Apart(s, u, q)
BY DEF Apart

LEMMA RowIds ==
    ASSUME NEW s \in World
    PROVE  /\ \A p \in Slot : s.rec[p] \in Row /\ s.rec[p].id \in ObjId \cup {None}
           /\ \A v \in s.shown : v.id \in ObjId /\ v.ver \in Nat
           /\ \A o \in ObjId : s.obj[o] \in Object /\ s.obj[o].ver \in Nat
BY WorldType, RowType

(* Files go to the trash or out of the model.                              *)
LEMMA LinedSame ==
    ASSUME NEW s \in World, NEW t \in World, Lined(s), t.shown = s.shown,
           \A o \in ObjId :
              /\ t.obj[o].c = s.obj[o].c /\ t.obj[o].ver = s.obj[o].ver
              /\ t.obj[o].st = "none" <=> s.obj[o].st = "none"
              /\ t.obj[o].st = "live" => s.obj[o].st = "live"
              /\ \/ t.obj[o].at = s.obj[o].at
                 \/ s.obj[o].at = "copy" /\ t.obj[o].at = "away"
    PROVE  Lined(t) /\ Stays(s, t)
<1>1. Stays(s, t)
  BY DEF Stays
<1>2. ASSUME NEW p \in Slot PROVE LiveAt(t, p) \subseteq LiveAt(s, p)
  BY DEF LiveAt, Slot
<1>3. OneOfAName(t)
  BY <1>2 DEF Lined, OneOfAName
<1>4. InOrder(t)
  BY RowIds DEF Lined, InOrder
<1> QED BY <1>1, <1>3, <1>4 DEF Lined

LEMMA LinedStored ==
    ASSUME NEW s \in World, Lined(s), NEW o \in ObjId, NEW p \in Slot \cup {"away"},
           NEW v \in Nat, NEW c \in Content,
           \/ /\ s.obj[o].st = "live" /\ s.obj[o].at = p /\ v = s.obj[o].ver + 1
           \/ s.obj[o].st = "none" /\ LiveAt(s, p) = {}
    PROVE  LET t == Stored(s, o, p, v, c)
           IN  /\ t \in World /\ Lined(t) /\ Stays(s, t)
               /\ <<t.disk, t.rec>> = <<s.disk, s.rec>>
               /\ t.obj[o].c = c /\ t.obj[o].ver = v /\ o \in LiveAt(t, p)
               /\ \A x \in ObjId \ {o} : t.obj[x] = s.obj[x]
               /\ \A q \in Slot \ {p} : Apart(s, t, q)
<1> DEFINE t == Stored(s, o, p, v, c)
<1>1. /\ t \in World /\ t.disk = s.disk /\ t.rec = s.rec
      /\ t.shown = s.shown \cup {Version(o, v, c)}
      /\ t.obj = [s.obj EXCEPT ![o] =
            [st |-> "live", at |-> p, ver |-> v, c |-> c, rev |-> s.rev + 1]]
  BY StoredIs
<1> HIDE DEF t
<1>2. /\ t.obj[o] = [st |-> "live", at |-> p, ver |-> v, c |-> c, rev |-> s.rev + 1]
      /\ \A x \in ObjId \ {o} : t.obj[x] = s.obj[x]
  BY <1>1, WorldType
<1>3. /\ t.obj[o].st = "live" /\ t.obj[o].at = p /\ t.obj[o].ver = v /\ t.obj[o].c = c
  BY <1>2
<1>4. Stays(s, t)
  BY <1>2, <1>3 DEF Stays
<1>5. OneOfAName(t)
  BY <1>2, <1>3 DEF Lined, OneOfAName, LiveAt
<1>6. InOrder(t)
  <2>1. ASSUME NEW x \in t.shown
        PROVE  /\ t.obj[x.id].st # "none" /\ x.ver <= t.obj[x.id].ver
               /\ x.ver = t.obj[x.id].ver => x.c = t.obj[x.id].c
    <3>1. CASE x = Version(o, v, c)
      BY <1>3, <3>1 DEF Version
    <3>2. CASE x \in s.shown
      <4>1. /\ x.id \in ObjId /\ x.ver \in Nat /\ s.obj[x.id].ver \in Nat
            /\ s.obj[x.id].st # "none" /\ x.ver <= s.obj[x.id].ver
            /\ x.ver = s.obj[x.id].ver => x.c = s.obj[x.id].c
        BY <3>2, RowIds DEF Lined, InOrder
      <4>2. CASE x.id = o
        BY <1>3, <4>1, <4>2
      <4>3. CASE x.id # o
        BY <1>2, <4>1, <4>3
      <4> QED BY <4>2, <4>3
    <3> QED BY <1>1, <2>1, <3>1, <3>2
  <2> QED BY <2>1 DEF InOrder
<1>7. ASSUME NEW q \in Slot \ {p} PROVE Apart(s, t, q)
  BY <1>1, <1>2, <1>3, <1>7 DEF Apart, LiveAt
<1> QED BY <1>1, <1>2, <1>3, <1>4, <1>5, <1>6, <1>7 DEF Lined, LiveAt, t

(* The rows that are new have to fit.                                      *)
LEMMA OrderedBy ==
    ASSUME NEW s \in World, NEW t \in World, Ordered(s), Lined(t), Stays(s, t),
           \A p \in Slot : \/ t.rec[p] = s.rec[p]
                           \/ AtHome(t, p, t.rec[p].id) /\ Weighed(t.rec[p])
    PROVE  Ordered(t)
BY AtHomeKept, RowIds DEF Ordered, Lined

LEMMA OrderedLined == ASSUME NEW s, Ordered(s) PROVE Lined(s)
BY DEF Ordered, Lined

LEMMA NoRowFits == ASSUME NEW s, NEW p PROVE AtHome(s, p, NoRow.id) /\ Weighed(NoRow)
BY DEF AtHome, Weighed, NoRow

LEMMA SameDrive ==
    ASSUME NEW s \in World, NEW t \in World, Ordered(s),
           t.obj = s.obj, t.shown = s.shown,
           \A p \in Slot : \/ t.rec[p] = s.rec[p]
                           \/ AtHome(s, p, t.rec[p].id) /\ Weighed(t.rec[p])
    PROVE  /\ Ordered(t) /\ Stays(s, t)
           /\ \A q \in Slot : t.disk[q] = s.disk[q] /\ t.rec[q] = s.rec[q] => Apart(s, t, q)
<1>1. Lined(t) /\ Stays(s, t)
  BY OrderedLined, LinedSame
<1>2. \A p \in Slot : AtHome(s, p, t.rec[p].id) => AtHome(t, p, t.rec[p].id)
  BY DEF AtHome
<1>3. Ordered(t)
  BY <1>1, <1>2, OrderedBy
<1>4. ASSUME NEW q \in Slot, t.disk[q] = s.disk[q], t.rec[q] = s.rec[q]
      PROVE  Apart(s, t, q)
  BY <1>4 DEF Apart, LiveAt
<1> QED BY <1>1, <1>3, <1>4

LEMMA MarkedOrder ==
    ASSUME NEW s \in World, Ordered(s), NEW p \in Slot, NEW st \in Status
    PROVE  LET t == Marked(s, p, st)
           IN  /\ t \in World /\ Ordered(t) /\ Stays(s, t) /\ t.disk = s.disk
               /\ t.obj = s.obj /\ t.shown = s.shown
               /\ t.rec[p] = [s.rec[p] EXCEPT !.st = st]
               /\ \A q \in Slot \ {p} : t.rec[q] = s.rec[q] /\ Apart(s, t, q)
<1> DEFINE t   == Marked(s, p, st)
           row == [s.rec[p] EXCEPT !.st = st]
<1>1. t = Recorded(s, p, row) /\ row \in Row /\ row.id = s.rec[p].id /\ row.lc = s.rec[p].lc
  BY MarkedIs
<1>2. row.rc = s.rec[p].rc /\ row.rsz = s.rec[p].rsz
  BY RowIds DEF Row
<1> HIDE DEF row, t
<1>3. /\ t \in World /\ t.rec = [s.rec EXCEPT ![p] = row]
      /\ <<t.disk, t.obj, t.shown>> = <<s.disk, s.obj, s.shown>>
  BY <1>1, RecordedIs
<1>4. AtHome(s, p, row.id) /\ Weighed(row)
  BY <1>1, <1>2 DEF Ordered, AtHome, Weighed
<1>5. /\ t.rec[p] = row /\ \A q \in Slot \ {p} : t.rec[q] = s.rec[q]
  BY <1>3, WorldType
<1>6. /\ Ordered(t) /\ Stays(s, t)
      /\ \A q \in Slot : t.disk[q] = s.disk[q] /\ t.rec[q] = s.rec[q] => Apart(s, t, q)
  BY <1>3, <1>4, <1>5, SameDrive
<1> QED BY <1>3, <1>5, <1>6 DEF t, row

(* What the operations of a pass make of it.                               *)
LEMMA SentOrder ==
    ASSUME NEW s \in World, Ordered(s), NEW p \in Slot, NEW o \in ObjId, NEW v \in Nat,
           NEW c \in Content,
           \/ /\ s.obj[o].st = "live" /\ s.obj[o].at = p /\ v = s.obj[o].ver + 1
           \/ s.obj[o].st = "none" /\ LiveAt(s, p) = {},
           NEW row \in Row, row.id = o, row.lc = c, row.rc = c, row.rsz = Size[c]
    PROVE  LET t == Recorded(Stored(s, o, p, v, c), p, row)
           IN  /\ t \in World /\ Ordered(t) /\ Stays(s, t) /\ t.disk = s.disk
               /\ t.rec[p] = row /\ t.obj[o].c = c /\ o \in LiveAt(t, p)
               /\ \A q \in Slot \ {p} : Apart(s, t, q)
<1> DEFINE u == Stored(s, o, p, v, c)
           t == Recorded(u, p, row)
<1>1. /\ u \in World /\ Lined(u) /\ Stays(s, u) /\ u.disk = s.disk /\ u.rec = s.rec
      /\ u.obj[o].c = c /\ u.obj[o].ver = v /\ o \in LiveAt(u, p)
      /\ \A q \in Slot \ {p} : Apart(s, u, q)
  BY LinedStored, OrderedLined
<1> HIDE DEF u
<1>2. Ordered(u)
  BY <1>1, OrderedBy
<1>3. /\ t \in World /\ t.rec = [u.rec EXCEPT ![p] = row]
      /\ <<t.disk, t.obj, t.shown>> = <<u.disk, u.obj, u.shown>>
  BY <1>1, RecordedIs
<1> HIDE DEF t
<1>4. /\ t.rec[p] = row /\ \A q \in Slot \ {p} : t.rec[q] = u.rec[q]
  BY <1>1, <1>3, WorldType
<1>5. AtHome(u, p, row.id) /\ Weighed(row)
  BY <1>1 DEF AtHome, Weighed, LiveAt, Slot
<1>6. /\ Ordered(t) /\ Stays(u, t)
      /\ \A q \in Slot : t.disk[q] = u.disk[q] /\ t.rec[q] = u.rec[q] => Apart(u, t, q)
  BY <1>1, <1>2, <1>3, <1>4, <1>5, SameDrive
<1>7. Stays(s, t) /\ \A q \in Slot \ {p} : Apart(s, t, q)
  BY <1>1, <1>3, <1>4, <1>6, StaysOn, ApartOn
<1> QED BY <1>1, <1>3, <1>4, <1>6, <1>7 DEF LiveAt, t, u

(* The name on the drive is that of the one file there.                    *)
LEMMA ListingOne ==
    ASSUME NEW s \in World, Lined(s), NEW p \in Slot
    PROVE  LET r == Listing(s, p)
           IN  /\ r.id \in ObjId \cup {None} /\ AtHome(s, p, r.id)
               /\ r.c = None
               /\ r.id = None <=> LiveAt(s, p) = {}
               /\ r.id # None => /\ LiveAt(s, p) = {r.id}
                                 /\ r.ver = s.obj[r.id].ver /\ r.ver \in Nat
                                 /\ r.sz = Size[s.obj[r.id].c]
                                 /\ s.obj[r.id].c \in Content
<1> DEFINE r == Listing(s, p)
<1>1. CASE LiveAt(s, p) = {}
  BY <1>1, ListingIs DEF NoRemote, AtHome
<1>2. CASE LiveAt(s, p) # {}
  <2> DEFINE o == CHOOSE o \in LiveAt(s, p) : TRUE
  <2>1. o \in LiveAt(s, p)
    BY <1>2
  <2>2. o \in ObjId /\ s.obj[o].st = "live" /\ s.obj[o].at = p
    BY <2>1 DEF LiveAt
  <2>3. s.obj[o].c \in Content /\ s.obj[o].ver \in Nat
    BY <2>2, WorldType
  <2> HIDE DEF o
  <2>4. r = [id |-> o, ver |-> s.obj[o].ver, sz |-> Size[s.obj[o].c], c |-> None]
    BY <1>2 DEF Listing, o
  <2>5. LiveAt(s, p) = {o}
    BY <2>1 DEF Lined, OneOfAName
  <2>6. AtHome(s, p, o)
    BY <2>2 DEF AtHome, Slot
  <2> HIDE DEF r
  <2> QED BY <2>2, <2>3, <2>4, <2>5, <2>6, NoneAssumption DEF r
<1> QED BY <1>1, <1>2

LEMMA UploadedOrder ==
    ASSUME NEW s \in World, Ordered(s), NEW p \in Slot, s.disk[p].c # None, MayPost(s)
    PROVE  LET t == Uploaded(s, p)
               r == Listing(s, p)
           IN  /\ t \in World /\ Ordered(t) /\ Stays(s, t) /\ t.disk = s.disk
               /\ \A q \in Slot \ {p} : Apart(s, t, q)
               /\ r.id # None /\ r.id = s.rec[p].id =>
                     \/ /\ t = Marked(s, p, "pending_upload")
                        /\ r.ver # s.rec[p].rver
                     \/ /\ t.rec[p].id = r.id /\ r.id \in LiveAt(t, p)
                        /\ t.obj[r.id].c = s.disk[p].c /\ t.rec[p].lc = s.disk[p].c
<1> DEFINE r == Listing(s, p)
           e == EntryAt(s, p)
           c == s.disk[p].c
           t == Uploaded(s, p)
<1>0. /\ s.disk[p] \in Disk /\ c \in Content /\ e.mt \in Stamp /\ e.sz = Size[c]
      /\ e.sz \in Nat
  BY WorldType, DiskType, SizeAssumption DEF EntryAt, SizeOf
<1>1. /\ r.id \in ObjId \cup {None}
      /\ r.id = None <=> LiveAt(s, p) = {}
      /\ r.id # None => LiveAt(s, p) = {r.id} /\ r.ver = s.obj[r.id].ver /\ r.ver \in Nat
  BY ListingOne, OrderedLined
<1>2. CASE r.id = None
  <2> DEFINE o == Fresh(s)
             row == RowOf(o, e.mt, e.sz, c, 0, e.sz, "synced")
  <2>1. o \in ObjId /\ s.obj[o].st = "none" /\ LiveAt(s, p) = {}
    BY <1>1, <1>2, FreshIs
  <2>2. t = Recorded(Stored(s, o, p, 0, c), p, row)
    BY <1>2 DEF Uploaded, NewFile
  <2> HIDE DEF r, e, c, t, o
  <2>3. row \in Row /\ row.id = o /\ row.lc = c /\ row.rc = c /\ row.rsz = Size[c]
    BY <1>0, <2>1 DEF RowOf, Row, Num, Status
  <2> HIDE DEF row
  <2> QED BY <1>0, <1>2, <2>1, <2>2, <2>3, SentOrder DEF r, t
<1>3. CASE r.id # None /\ (r.id # s.rec[p].id \/ (s.rec[p].rver # None /\ r.ver > s.rec[p].rver))
  <2>1. t = Marked(s, p, "pending_upload")
    BY <1>3 DEF Uploaded
  <2>2. r.id = s.rec[p].id => r.ver # s.rec[p].rver
    BY <1>1, <1>3
  <2> DEFINE u == Marked(s, p, "pending_upload")
  <2>3. "pending_upload" \in Status
    BY DEF Status
  <2>4. /\ u \in World /\ Ordered(u) /\ Stays(s, u) /\ u.disk = s.disk
        /\ \A q \in Slot \ {p} : Apart(s, u, q)
    BY <2>3, MarkedOrder
  <2> HIDE DEF r, t, u
  <2>5. t = u
    BY <2>1 DEF u
  <2> QED BY <2>2, <2>4, <2>5 DEF r, t, u
<1>4. CASE r.id # None /\ ~(r.id # s.rec[p].id \/ (s.rec[p].rver # None /\ r.ver > s.rec[p].rver))
  <2> DEFINE row == RowOf(r.id, e.mt, e.sz, c, r.ver + 1, e.sz, "synced")
             v   == r.ver + 1
  <2>1. t = Recorded(NewVersion(s, r.id, c), p, row)
    BY <1>4 DEF Uploaded
  <2> HIDE DEF r, e, c, t
  <2>2. /\ r.id \in ObjId /\ s.obj[r.id].st = "live" /\ s.obj[r.id].at = p
        /\ v = s.obj[r.id].ver + 1 /\ v \in Nat
    BY <1>1, <1>4 DEF LiveAt
  <2>3. t = Recorded(Stored(s, r.id, p, v, c), p, row)
    BY <1>1, <1>4, <2>1, <2>2 DEF NewVersion
  <2>4. row \in Row /\ row.id = r.id /\ row.lc = c /\ row.rc = c /\ row.rsz = Size[c]
    BY <1>0, <2>2 DEF RowOf, Row, Num, Status
  <2> HIDE DEF row, v
  <2>5. /\ t \in World /\ Ordered(t) /\ Stays(s, t) /\ t.disk = s.disk
        /\ t.rec[p] = row /\ t.obj[r.id].c = c /\ r.id \in LiveAt(t, p)
        /\ \A q \in Slot \ {p} : Apart(s, t, q)
    BY <1>0, <2>2, <2>3, <2>4, SentOrder
  <2> QED BY <2>4, <2>5 DEF r, c, t
<1> QED BY <1>2, <1>3, <1>4

LEMMA DownloadedOrder ==
    ASSUME NEW s \in World, Ordered(s), NEW p \in Slot, NEW r, NEW c \in Content,
           NEW m \in Stamp, r.id \in ObjId \cup {None}, r.ver \in Num, r.sz \in Num,
           AtHome(s, p, r.id), r.sz \in {None, Size[c]}
    PROVE  LET t == Downloaded(s, p, r, c, m)
           IN  /\ t \in World /\ Ordered(t) /\ Stays(s, t) /\ t.obj = s.obj
               /\ t.disk[p].c = c /\ t.rec[p].id = r.id /\ t.rec[p].lc = c
               /\ \A q \in Slot \ {p} : t.disk[q] = s.disk[q] /\ Apart(s, t, q)
<1> DEFINE t   == Downloaded(s, p, r, c, m)
           row == RowOf(r.id, m, Size[c], c, r.ver, r.sz, "synced")
<1>1. /\ t \in World /\ row \in Row
      /\ t.disk = [s.disk EXCEPT ![p] = [c |-> c, mt |-> m]]
      /\ t.rec  = [s.rec EXCEPT ![p] = row]
      /\ <<t.bin, t.aside, t.obj, t.rev, t.shown>>
            = <<s.bin, s.aside, s.obj, s.rev, s.shown>>
  BY DownloadedIs
<1>2. row.id = r.id /\ row.lc = c /\ row.rc = c /\ row.rsz = r.sz
  BY DEF RowOf
<1> HIDE DEF t, row
<1>3. /\ t.rec[p] = row /\ t.disk[p].c = c
      /\ \A q \in Slot \ {p} : t.rec[q] = s.rec[q] /\ t.disk[q] = s.disk[q]
  BY <1>1, WorldType
<1>4. AtHome(s, p, row.id) /\ Weighed(row)
  BY <1>2 DEF Weighed
<1>5. /\ Ordered(t) /\ Stays(s, t)
      /\ \A q \in Slot : t.disk[q] = s.disk[q] /\ t.rec[q] = s.rec[q] => Apart(s, t, q)
  BY <1>1, <1>3, <1>4, SameDrive
<1> QED BY <1>1, <1>2, <1>3, <1>5 DEF t

LEMMA RecordedOrder ==
    ASSUME NEW s \in World, Ordered(s), NEW p \in Slot, NEW row \in Row,
           AtHome(s, p, row.id), Weighed(row)
    PROVE  LET t == Recorded(s, p, row)
           IN  /\ t \in World /\ Ordered(t) /\ Stays(s, t)
               /\ t.disk = s.disk /\ t.obj = s.obj /\ t.shown = s.shown /\ t.rec[p] = row
               /\ \A q \in Slot \ {p} : t.rec[q] = s.rec[q] /\ Apart(s, t, q)
<1> DEFINE t == Recorded(s, p, row)
<1>1. /\ t \in World /\ t.rec = [s.rec EXCEPT ![p] = row]
      /\ <<t.disk, t.bin, t.aside, t.obj, t.rev, t.shown>>
            = <<s.disk, s.bin, s.aside, s.obj, s.rev, s.shown>>
  BY RecordedIs
<1> HIDE DEF t
<1>2. t.rec[p] = row /\ \A q \in Slot \ {p} : t.rec[q] = s.rec[q]
  BY <1>1, WorldType
<1>3. /\ Ordered(t) /\ Stays(s, t)
      /\ \A q \in Slot : t.disk[q] = s.disk[q] /\ t.rec[q] = s.rec[q] => Apart(s, t, q)
  BY <1>1, <1>2, SameDrive
<1> QED BY <1>1, <1>2, <1>3 DEF t

LEMMA BinnedOrder ==
    ASSUME NEW s \in World, Ordered(s), NEW p \in Slot
    PROVE  LET t == Binned(s, p)
           IN  /\ t \in World /\ Ordered(t) /\ Stays(s, t)
               /\ t.rec = s.rec /\ t.obj = s.obj /\ t.shown = s.shown
               /\ t.disk[p] = NoFile
               /\ \A q \in Slot \ {p} : t.disk[q] = s.disk[q] /\ Apart(s, t, q)
<1> DEFINE t == Binned(s, p)
<1>1. /\ t \in World /\ t.disk = [s.disk EXCEPT ![p] = NoFile]
      /\ <<t.aside, t.rec, t.obj, t.rev, t.shown>>
            = <<s.aside, s.rec, s.obj, s.rev, s.shown>>
  BY BinnedIs
<1> HIDE DEF t
<1>2. /\ t.disk[p] = NoFile /\ \A q \in Slot \ {p} : t.disk[q] = s.disk[q]
      /\ t.rec = s.rec /\ t.obj = s.obj /\ t.shown = s.shown
  BY <1>1, WorldType
<1>3. /\ Ordered(t) /\ Stays(s, t)
      /\ \A q \in Slot : t.disk[q] = s.disk[q] /\ t.rec[q] = s.rec[q] => Apart(s, t, q)
  BY <1>1, <1>2, SameDrive
<1> QED BY <1>1, <1>2, <1>3 DEF t

LEMMA TrashedOrder ==
    ASSUME NEW s \in World, Ordered(s), NEW p \in Slot, NEW o \in ObjId \cup {None},
           AtHome(s, p, o)
    PROVE  LET t == Trashed(s, o)
           IN  /\ t \in World /\ Ordered(t) /\ Stays(s, t)
               /\ t.disk = s.disk /\ t.rec = s.rec
               /\ \A x \in ObjId : t.obj[x].c = s.obj[x].c
               /\ \A q \in Slot \ {p} : Apart(s, t, q)
<1> DEFINE t == Trashed(s, o)
<1>1. /\ t \in World /\ t.disk = s.disk /\ t.rec = s.rec /\ t.shown = s.shown
      /\ \A x \in ObjId :
            /\ t.obj[x].at = s.obj[x].at /\ t.obj[x].c = s.obj[x].c
            /\ t.obj[x].ver = s.obj[x].ver
            /\ t.obj[x].st = "none" <=> s.obj[x].st = "none"
  BY TrashedIs
<1>2. CASE ~LiveIn(s, o)
  <2>1. t = s
    BY <1>2 DEF Trashed
  <2> QED BY <2>1 DEF Stays, Apart
<1>3. CASE LiveIn(s, o)
  <2>1. /\ o \in ObjId /\ s.obj[o] \in Object /\ s.obj[o].st = "live"
        /\ s.obj[o].at \in IF p = "orig" THEN {"orig"} ELSE {"copy", "away"}
    BY <1>3, WorldType DEF LiveIn, AtHome
  <2>2. \A x \in ObjId \ {o} : t.obj[x] = s.obj[x]
    BY <1>3, WorldType DEF Trashed, World
  <2> HIDE DEF t
  <2>3. Lined(t) /\ Stays(s, t)
    <3>1. \A x \in ObjId : t.obj[x].st = "live" => s.obj[x].st = "live"
      BY <2>1, <2>2
    <3> QED BY <1>1, <3>1, OrderedLined, LinedSame
  <2>4. Ordered(t)
    BY <1>1, <2>3, OrderedBy
  <2>5. ASSUME NEW q \in Slot \ {p} PROVE Apart(s, t, q)
    <3>1. s.obj[o].at # q /\ t.obj[o].at # q
      BY <1>1, <2>1, <2>5 DEF Slot
    <3> QED BY <1>1, <2>1, <2>2, <3>1 DEF Apart, LiveAt
  <2> QED BY <1>1, <2>3, <2>4, <2>5 DEF t
<1> QED BY <1>2, <1>3

LEMMA SetAsideOrder ==
    ASSUME NEW s \in World, Ordered(s), NEW p \in Slot
    PROVE  LET t == SetAside(s, p)
           IN  /\ t \in World /\ Ordered(t) /\ Stays(s, t) /\ Vacant(t) = Vacant(s)
               /\ p = "copy" => Apart(s, t, "orig") /\ t.obj = s.obj
               /\ p = "orig" => /\ t.disk.copy = s.disk.orig
                                /\ \A o \in LiveAt(s, "orig") : t.obj[o] = s.obj[o]
<1> DEFINE t == SetAside(s, p)
<1>1. /\ t \in World
      /\ t.disk = [q \in Slot |-> IF q = p THEN NoFile ELSE
                       IF q = "copy" THEN s.disk.orig ELSE s.disk[q]]
      /\ t.rec = IF p = "copy" THEN s.rec ELSE [s.rec EXCEPT !.copy = NoRow]
      /\ t.shown = s.shown
      /\ \A o \in ObjId : t.obj[o].st = s.obj[o].st
  BY SetAsideIs
<1>2. t.obj = IF p = "copy" THEN s.obj
              ELSE [o \in ObjId |-> IF s.obj[o].at = "copy"
                                    THEN [s.obj[o] EXCEPT !.at = "away"] ELSE s.obj[o]]
  BY DEF SetAside, World, Slot
<1>3. ASSUME NEW o \in ObjId
      PROVE  /\ t.obj[o].c = s.obj[o].c /\ t.obj[o].ver = s.obj[o].ver
             /\ \/ t.obj[o].at = s.obj[o].at
                \/ s.obj[o].at = "copy" /\ t.obj[o].at = "away"
             /\ p = "copy" \/ s.obj[o].at # "copy" => t.obj[o] = s.obj[o]
  BY <1>2, RowIds DEF Object, NoObject
<1> HIDE DEF t
<1>4. Lined(t) /\ Stays(s, t)
  BY <1>1, <1>3, OrderedLined, LinedSame
<1>5. \A q \in Slot : t.rec[q] = s.rec[q] \/ t.rec[q] = NoRow
  BY <1>1, WorldType
<1>6. Ordered(t)
  BY <1>1, <1>4, <1>5, NoRowFits, OrderedBy
<1>7. Vacant(t) = Vacant(s)
  BY <1>1 DEF Vacant
<1>8. p = "copy" => Apart(s, t, "orig") /\ t.obj = s.obj
  BY <1>1, <1>2 DEF Apart, LiveAt, Slot
<1>9. ASSUME p = "orig", NEW o \in LiveAt(s, "orig") PROVE t.obj[o] = s.obj[o]
  BY <1>3, <1>9 DEF LiveAt
<1> QED BY <1>1, <1>4, <1>6, <1>7, <1>8, <1>9 DEF t, Slot

-----------------------------------------------------------------------------
(* The order through one step of a sync pass: what the pass saw of a file  *)
(* is the one file of that name.                                           *)
Shows(s, p, k, r) ==
    /\ r.id # None => /\ LiveAt(s, p) = {r.id} /\ r.sz = Size[s.obj[r.id].c]
                      /\ s.obj[r.id].c \in Content
    /\ k = "TOUCH_BASE" => r.id # None /\ s.disk[p].c = s.obj[r.id].c

(* A step puts things in order, and leaves the other file alone unless it  *)
(* makes a conflict copy.                                                  *)
Orders(s, t, p, k) ==
    /\ t \in World /\ Ordered(t) /\ Stays(s, t)
    /\ p = "copy" \/ k # "CONFLICT" => \A q \in Slot \ {p} : Apart(s, t, q)
    /\ p = "orig" /\ k = "CONFLICT" => t.disk.copy.c = s.disk.orig.c

LEMMA SeenHome ==
    ASSUME NEW s, NEW p \in Slot, NEW k, NEW r, r.id \in ObjId \cup {None}, Shows(s, p, k, r)
    PROVE  AtHome(s, p, r.id) /\ (r.id # None => r.id \in ObjId)
BY DEF Shows, AtHome, LiveAt, Slot

LEMMA CopiedOrder ==
    ASSUME NEW s \in World, Ordered(s), NEW p \in Slot, NEW r, MayPost(s),
           Taken(s, p, "CONFLICT", r), Shows(s, p, "CONFLICT", r),
           FreshStamp(p) \in Stamp
    PROVE  Orders(s, Copied(s, p, r), p, "CONFLICT")
<1> DEFINE m == FreshStamp(p)
           c == s.obj[r.id].c
           u == SetAside(s, p)
           d == Downloaded(u, p, r, c, m)
           t == Copied(s, p, r)
<1>1. /\ r.id \in ObjId \cup {None} /\ r.ver \in Num /\ r.sz \in Num /\ r.id # None
      /\ s.disk[p].c # None /\ c \in Content /\ r.sz = Size[c] /\ AtHome(s, p, r.id)
  BY SeenHome DEF Taken, Shows
<1>2. /\ u \in World /\ Ordered(u) /\ Stays(s, u) /\ Vacant(u) = Vacant(s)
      /\ p = "copy" => Apart(s, u, "orig")
      /\ p = "orig" => u.disk.copy = s.disk.orig
  BY SetAsideOrder
<1>3. t = IF p = "copy" THEN d ELSE Uploaded(d, "copy")
  BY DEF Copied
<1> HIDE DEF c, u, t, m
<1>4. AtHome(u, p, r.id)
  BY <1>1, <1>2, AtHomeKept
<1>5. /\ d \in World /\ Ordered(d) /\ Stays(u, d) /\ d.obj = u.obj
      /\ \A q \in Slot \ {p} : d.disk[q] = u.disk[q] /\ Apart(u, d, q)
  BY <1>1, <1>2, <1>4, DownloadedOrder DEF m
<1> HIDE DEF d
<1>6. CASE p = "copy"
  <2>1. t = d
    BY <1>3, <1>6
  <2>2. Apart(s, d, "orig")
    BY <1>2, <1>5, <1>6, ApartOn DEF Slot
  <2>3. Stays(s, d)
    BY <1>2, <1>5, StaysOn
  <2> QED BY <1>5, <1>6, <2>1, <2>2, <2>3 DEF Orders, Slot, t
<1>7. CASE p = "orig"
  <2>1. t = Uploaded(d, "copy") /\ "copy" \in Slot
    BY <1>3, <1>7 DEF Slot
  <2>2. d.disk.copy = s.disk.orig
    BY <1>2, <1>5, <1>7 DEF Slot
  <2>3. MayPost(d)
    BY <1>2, <1>5 DEF MayPost, Vacant
  <2>4. d.disk.copy.c # None
    BY <1>1, <1>7, <2>2
  <2>5. t \in World /\ Ordered(t) /\ Stays(d, t) /\ t.disk = d.disk
    BY <1>5, <2>1, <2>3, <2>4, UploadedOrder
  <2>6. Stays(s, t)
    BY <1>2, <1>5, <2>5, StaysOn
  <2> QED BY <1>7, <2>2, <2>5, <2>6 DEF Orders, t
<1> QED BY <1>6, <1>7 DEF Slot

LEMMA ActedOrder ==
    ASSUME NEW s \in World, Ordered(s), NEW p \in Slot, NEW k, NEW r, MayPost(s),
           Taken(s, p, k, r), Shows(s, p, k, r), FreshStamp(p) \in Stamp
    PROVE  Orders(s, Acted(s, p, k, r), p, k)
<1> DEFINE t == Acted(s, p, k, r)
<1>0. /\ r.id \in ObjId \cup {None} /\ r.ver \in Num /\ r.sz \in Num
      /\ s.disk[p] \in Disk /\ s.rec[p] \in Row /\ AtHome(s, p, r.id)
  BY WorldType, SeenHome DEF Taken
<1>1. CASE k \in {"UPLOAD_NEW", "UPLOAD_VERSION"}
  <2>1. t = Uploaded(s, p) /\ s.disk[p].c # None
    BY <1>1 DEF Acted, Taken
  <2> HIDE DEF t
  <2>2. /\ t \in World /\ Ordered(t) /\ Stays(s, t) /\ \A q \in Slot \ {p} : Apart(s, t, q)
    BY <2>1, UploadedOrder
  <2> QED BY <1>1, <2>2 DEF Orders, t
<1>2. CASE k \in {"DOWNLOAD_NEW", "DOWNLOAD_UPDATE"}
  <2> DEFINE c == s.obj[r.id].c
             m == FreshStamp(p)
  <2>1. t = Downloaded(s, p, r, c, m)
    BY <1>2 DEF Acted
  <2>2. c \in Content /\ r.sz = Size[c]
    BY <1>2 DEF Taken, Shows
  <2> HIDE DEF t, c
  <2>3. /\ t \in World /\ Ordered(t) /\ Stays(s, t) /\ \A q \in Slot \ {p} : Apart(s, t, q)
    BY <1>0, <2>1, <2>2, DownloadedOrder
  <2> QED BY <1>2, <2>3 DEF Orders, t
<1>3. CASE k = "CONFLICT"
  BY <1>3, CopiedOrder DEF Acted
<1>4. CASE k \in {"LOCAL_TRASH", "REMOTE_TRASH", "FORGET"}
  <2> DEFINE u == CASE k = "LOCAL_TRASH" -> Binned(s, p)
                    [] k = "REMOTE_TRASH" -> Trashed(s, s.rec[p].id)
                    [] OTHER -> s
  <2>1. t = Recorded(u, p, NoRow)
    BY <1>4 DEF Acted
  <2>2. s.rec[p].id \in ObjId \cup {None} /\ AtHome(s, p, s.rec[p].id)
    BY RowIds DEF Ordered
  <2>3. u \in World /\ Ordered(u) /\ Stays(s, u) /\ \A q \in Slot \ {p} : Apart(s, u, q)
    <3>1. CASE k = "LOCAL_TRASH"
      BY <3>1, BinnedOrder
    <3>2. CASE k = "REMOTE_TRASH"
      BY <2>2, <3>2, TrashedOrder
    <3>3. CASE k = "FORGET"
      BY <3>3 DEF Stays, Apart
    <3> QED BY <1>4, <3>1, <3>2, <3>3
  <2> HIDE DEF u, t
  <2>4. /\ t \in World /\ Ordered(t) /\ Stays(u, t)
        /\ \A q \in Slot \ {p} : Apart(u, t, q)
    BY <2>1, <2>3, NoRowType, NoRowFits, RecordedOrder
  <2>5. Stays(s, t) /\ \A q \in Slot \ {p} : Apart(s, t, q)
    BY <2>3, <2>4, StaysOn, ApartOn
  <2> QED BY <1>4, <2>4, <2>5 DEF Orders, t
<1>5. CASE k = "TOUCH_BASE"
  <2> DEFINE c   == s.disk[p].c
             row == RowOf(r.id, s.disk[p].mt, SizeOf(c), c, r.ver, r.sz, "synced")
  <2>1. t = Recorded(s, p, row)
    BY <1>5 DEF Acted
  <2>2. c \in Content /\ s.disk[p].mt \in Stamp /\ r.sz = Size[c]
    BY <1>0, <1>5, DiskType DEF Taken, Shows
  <2>3. /\ row \in Row /\ row.id = r.id /\ row.lc = c /\ row.rc = c /\ row.rsz = Size[c]
    BY <1>0, <2>2, SizeOfType DEF RowOf, Row, Status
  <2> HIDE DEF row, c, t
  <2>4. AtHome(s, p, row.id) /\ Weighed(row)
    BY <1>0, <2>3 DEF Weighed
  <2>5. /\ t \in World /\ Ordered(t) /\ Stays(s, t) /\ \A q \in Slot \ {p} : Apart(s, t, q)
    BY <2>1, <2>3, <2>4, RecordedOrder
  <2> QED BY <1>5, <2>5 DEF Orders, t
<1>6. CASE k \notin Acting
  <2>1. t = s /\ k # "CONFLICT"
    BY <1>6 DEF Acted, Acting
  <2> QED BY <2>1 DEF Orders, Stays, Apart
<1> QED BY <1>1, <1>2, <1>3, <1>4, <1>5, <1>6 DEF Acting

LEMMA SpoiltOrder ==
    ASSUME NEW s \in World, Ordered(s), NEW p \in Slot, NEW k, NEW r,
           r.id \in ObjId \cup {None}, Shows(s, p, k, r)
    PROVE  LET t == Spoilt(s, p, k, r)
           IN  /\ t \in World /\ Ordered(t) /\ Stays(s, t)
               /\ t.disk = s.disk /\ t.obj = s.obj
               /\ \A q \in Slot \ {p} : Apart(s, t, q)
               /\ s.rec[p].st # "none" =>
                     /\ t.rec[p].id = s.rec[p].id /\ t.rec[p].lc = s.rec[p].lc
                     /\ t.rec[p].lmt = s.rec[p].lmt /\ t.rec[p].rver = s.rec[p].rver
<1> DEFINE t   == Spoilt(s, p, k, r)
           row == [s.rec[p] EXCEPT !.id = IF s.rec[p].st = "none" THEN r.id ELSE @,
                                   !.st = "error"]
<1>0. s.rec[p] \in Row /\ AtHome(s, p, s.rec[p].id) /\ Weighed(s.rec[p]) /\ AtHome(s, p, r.id)
  BY WorldType, SeenHome DEF Ordered
<1>1. CASE k \notin Acting
  <2>1. t = s
    BY <1>1 DEF Spoilt
  <2> QED BY <2>1 DEF Stays, Apart
<1>2. CASE k \in Acting
  <2>1. /\ row \in Row /\ row.lmt = s.rec[p].lmt /\ row.lc = s.rec[p].lc
        /\ row.rver = s.rec[p].rver /\ row.rc = s.rec[p].rc /\ row.rsz = s.rec[p].rsz
        /\ row.id = IF s.rec[p].st = "none" THEN r.id ELSE s.rec[p].id
    BY <1>0 DEF Row, Status
  <2>2. t = Recorded(s, p, row)
    BY <1>0, <1>2 DEF Spoilt, Erred, Marked, Recorded, World
  <2> HIDE DEF row, t
  <2>3. AtHome(s, p, row.id) /\ Weighed(row)
    BY <1>0, <2>1 DEF Weighed
  <2>4. /\ t \in World /\ Ordered(t) /\ Stays(s, t)
        /\ t.disk = s.disk /\ t.obj = s.obj /\ t.rec[p] = row
        /\ \A q \in Slot \ {p} : Apart(s, t, q)
    BY <2>1, <2>2, <2>3, RecordedOrder
  <2> QED BY <2>1, <2>4 DEF t
<1> QED BY <1>1, <1>2

LEMMA StepOrder ==
    ASSUME NEW s \in World, Ordered(s), NEW p \in Slot, NEW k, NEW r, NEW bad,
           MayPost(s), Taken(s, p, k[p], r[p]), Shows(s, p, k[p], r[p]),
           FreshStamp(p) \in Stamp
    PROVE  Orders(s, Step(s, p, k, r, bad), p, IF p \in bad THEN "none" ELSE k[p])
<1>1. CASE p \in bad
  <2> DEFINE rp == r[p]
             t  == Spoilt(s, p, k[p], rp)
  <2>1. rp.id \in ObjId \cup {None} /\ Shows(s, p, k[p], rp)
    BY DEF Taken
  <2> HIDE DEF rp
  <2>2. /\ t \in World /\ Ordered(t) /\ Stays(s, t) /\ \A q \in Slot \ {p} : Apart(s, t, q)
    BY <2>1, SpoiltOrder
  <2> QED BY <1>1, <2>2 DEF Orders, Step, rp
<1>2. CASE p \notin bad
  BY <1>2, ActedOrder DEF Step
<1> QED BY <1>1, <1>2

LEMMA SeesOne ==
    ASSUME w \in World, Lined(w), NEW p \in Slot, NEW full \in BOOLEAN
    PROVE  LET r == Sees(w, p, full)
           IN  r.id # None => /\ LiveAt(w, p) = {r.id} /\ r.id \in ObjId
                              /\ r.sz = Size[w.obj[r.id].c] /\ w.obj[r.id].c \in Content
                              /\ r.ver = w.obj[r.id].ver /\ r.c \in {None, w.obj[r.id].c}
<1> DEFINE l == Listing(w, p)
           r == Sees(w, p, full)
<1>1. /\ l \in Sight /\ l.c = None
      /\ l.id # None => /\ LiveAt(w, p) = {l.id} /\ l.id \in ObjId
                        /\ l.sz = Size[w.obj[l.id].c] /\ w.obj[l.id].c \in Content
                        /\ l.ver = w.obj[l.id].ver
  BY ListingIs, ListingOne
<1>2. r \in {l, NoRemote, [l EXCEPT !.c = w.obj[l.id].c]}
  BY DEF Sees
<1> HIDE DEF l, r
<1>3. \/ /\ r.id = l.id /\ r.ver = l.ver /\ r.sz = l.sz /\ r.c \in {None, w.obj[l.id].c}
      \/ r = NoRemote
  BY <1>1, <1>2 DEF Sight
<1> QED BY <1>1, <1>3 DEF NoRemote, r

LEMMA DecisionShows ==
    ASSUME w \in World, Lined(w), NEW p \in Slot, NEW full \in BOOLEAN
    PROVE  LET r == Sees(w, p, full) IN Shows(w, p, Decision(w, p, full, r), r)
<1> DEFINE r == Sees(w, p, full)
           k == Decision(w, p, full, r)
           e == EntryAt(w, p)
           lm == w.disk[p].c
           rm == BytesOf(w, r.id)
<1>1. r.id # None => /\ LiveAt(w, p) = {r.id} /\ r.sz = Size[w.obj[r.id].c]
                     /\ w.obj[r.id].c \in Content
  BY SeesOne
<1> HIDE DEF r
<1>2. k = "TOUCH_BASE" => lm = rm /\ lm # None
  <2> DEFINE gone == ~full /\ Tombstone(w, p)
  <2>1. k = Decide(w.rec[p], e, r, FALSE, gone, full, TRUE, lm, rm)
    BY DEF Decision
  <2> HIDE DEF k, e, lm, rm, gone
  <2> QED BY <2>1 DEF Decide, DecideNew, DecideGone, DecideKnown, SameContent
<1> HIDE DEF k
<1>3. k = "TOUCH_BASE" => r.id # None /\ w.disk[p].c = w.obj[r.id].c
  BY <1>2 DEF BytesOf, LiveIn
<1> QED BY <1>1, <1>3 DEF Shows, r, k

(* A baseline without an unseen version is what the drive holds.           *)
LEMMA BaseStands ==
    ASSUME NEW s \in World, NEW T, Ordered(s), ~NoReturn, NEW p \in Slot,
           RowSound(s, T, p, s.rec[p]), s.rec[p].lc # None, LiveIn(s, s.rec[p].id),
           s.rec[p].rver = s.obj[s.rec[p].id].ver
    PROVE  s.rec[p].lc = s.obj[s.rec[p].id].c
<1> DEFINE id == s.rec[p].id
<1>1. id \in ObjId /\ s.obj[id].ver \in Nat
  BY RowIds DEF LiveIn
<1>2. PICK v \in s.shown : v.id = id /\ v.c = s.rec[p].lc /\ v.ver >= s.obj[id].ver
  BY <1>1, NoneAssumption DEF RowSound, Outdated, WasShown
<1>3. v.ver \in Nat /\ v.ver <= s.obj[id].ver /\ (v.ver = s.obj[id].ver => v.c = s.obj[id].c)
  BY <1>2, RowIds DEF Ordered, InOrder
<1> QED BY <1>1, <1>2, <1>3

(* What the next pass decides of a chosen file: never that it is a         *)
(* conflict, and to send it where the drive has other bytes.               *)
LEMMA ChosenDecision ==
    ASSUME w \in World, NEW T, Ordered(w), ~NoReturn, RowSound(w, T, "orig", w.rec.orig),
           NEW c \in Content, Chosen(w, c), NEW full \in BOOLEAN
    PROVE  LET r == Sees(w, "orig", full)
               k == Decision(w, "orig", full, r)
           IN  /\ k \in {"none", "UPLOAD_VERSION", "DOWNLOAD_UPDATE", "TOUCH_BASE"}
               /\ w.obj[w.rec.orig.id].c # c => k = "UPLOAD_VERSION"
<1> DEFINE r   == Sees(w, "orig", full)
           k   == Decision(w, "orig", full, r)
           row == w.rec.orig
           o   == row.id
           e   == EntryAt(w, "orig")
           rm  == BytesOf(w, r.id)
           gone == ~full /\ Tombstone(w, "orig")
<1>0. "orig" \in Slot
  BY DEF Slot
<1>1. /\ w.disk.orig.c = c /\ row.lc # None /\ LiveIn(w, o) /\ o \in ObjId
      /\ w.obj[o].c = c \/ (row.lmt = None /\ row.rver = w.obj[o].ver)
      /\ w.obj[o].c \in Content /\ c # None
  BY <1>0, RowIds, WorldType, NoneAssumption DEF Chosen, LiveIn
<1>2. LiveAt(w, "orig") = {o}
  <2>1. o \in LiveAt(w, "orig")
    BY <1>0, <1>1 DEF Ordered, AtHome, LiveAt, LiveIn
  <2> QED BY <1>0, <2>1 DEF Ordered, OneOfAName
<1>3. r.id # None => /\ r.id = o /\ r.sz = Size[w.obj[o].c] /\ r.ver = w.obj[o].ver
                     /\ r.c \in {None, w.obj[o].c}
  BY <1>0, <1>2, SeesOne, OrderedLined
<1>4. full => r.id # None
  BY <1>0, <1>2, ListingOne, OrderedLined DEF Sees
<1>5. ~gone
  BY <1>1 DEF Tombstone, LiveIn
<1>6. /\ e.mt # None /\ e.sz = Size[c]
  BY <1>0, <1>1, WorldType, DiskType DEF EntryAt, SizeOf
<1>7. w.obj[o].c # c => row.lc = w.obj[o].c
  BY <1>0, <1>1, BaseStands
<1>8. row.rc = row.lc /\ row.rsz \in {None, Size[row.lc]}
  BY <1>0, <1>1 DEF Ordered, Weighed
<1>9. k = Decide(row, e, r, FALSE, gone, full, TRUE, c, rm)
  BY <1>1 DEF Decision
<1>10. r.id # None => rm = w.obj[o].c
  BY <1>1, <1>3 DEF BytesOf
<1> HIDE DEF k, e, r, row, rm, gone, o
<1>11. k = DecideKnown(row, e, r, FALSE, TRUE, c, rm)
  BY <1>1, <1>4, <1>5, <1>6, <1>9, NoneAssumption
     DEF Decide, Here, Seen, HasBaseline, LiveIn, o
<1>12. k \in {"none", "UPLOAD_VERSION", "DOWNLOAD_UPDATE", "TOUCH_BASE", "CONFLICT"}
  BY <1>1, <1>11 DEF DecideKnown
<1>13. CASE w.obj[o].c = c
  <2>1. Seen(r) => SameContent(e, r, c, rm) = "yes"
    BY <1>1, <1>3, <1>6, <1>10, <1>13 DEF SameContent, Seen
  <2>2. k # "CONFLICT"
    BY <2>1, <1>11 DEF DecideKnown
  <2> QED BY <1>12, <1>13, <2>2 DEF k, r, o, row
<1>14. CASE w.obj[o].c # c
  <2>1. ~MetaSame(row, e) /\ c # row.lc
    BY <1>1, <1>7, <1>14 DEF MetaSame
  <2>2. Seen(r) => ~RemoteChanged(row, r)
    BY <1>1, <1>3, <1>7, <1>8, <1>14 DEF RemoteChanged, Seen
  <2>3. k = "UPLOAD_VERSION"
    BY <1>1, <1>11, <2>1, <2>2 DEF DecideKnown
  <2> QED BY <2>3 DEF k, r
<1> QED BY <1>13, <1>14

(* And what it then makes of it.                                           *)
LEMMA ChosenStep ==
    ASSUME w \in World, NEW s \in World, Ordered(w), Ordered(s), Apart(w, s, "orig"),
           NEW c \in Content, Chosen(w, c), w.rec.orig.st # "none",
           NEW k, NEW r, NEW bad, MayPost(s), FreshStamp("orig") \in Stamp,
           Taken(s, "orig", k["orig"], r["orig"]), Shows(s, "orig", k["orig"], r["orig"]),
           k["orig"] \in {"none", "UPLOAD_VERSION", "DOWNLOAD_UPDATE", "TOUCH_BASE"},
           w.obj[w.rec.orig.id].c # c => k["orig"] = "UPLOAD_VERSION"
    PROVE  LET t == Step(s, "orig", k, r, bad)
           IN  /\ Chosen(t, c)
               /\ "orig" \notin bad => t.obj[t.rec.orig.id].c = c
<1> DEFINE ko  == k["orig"]
           ro  == r["orig"]
           t   == Step(s, "orig", k, r, bad)
           o   == s.rec.orig.id
<1>0. "orig" \in Slot
  BY DEF Slot
<1>1. /\ s.disk.orig.c = c /\ s.rec.orig = w.rec.orig /\ s.rec.orig.lc # None
      /\ o \in LiveAt(w, "orig")
  BY <1>0, RowIds DEF Apart, Chosen, LiveIn, Ordered, AtHome, LiveAt
<1>2. /\ s.obj[o] = w.obj[o] /\ LiveAt(s, "orig") = {o} /\ o \in ObjId
      /\ o # None /\ s.obj[o].st = "live"
  BY <1>0, <1>1, NoneAssumption DEF Apart, Ordered, OneOfAName, LiveAt
<1>3. /\ s.obj[o].c = c \/ (s.rec.orig.lmt = None /\ s.rec.orig.rver = s.obj[o].ver)
      /\ s.obj[o].c # c => ko = "UPLOAD_VERSION"
  BY <1>1, <1>2 DEF Chosen
<1>4. /\ ro.id \in ObjId \cup {None} /\ ro.ver \in Num /\ ro.sz \in Num
      /\ Shows(s, "orig", ko, ro) /\ Taken(s, "orig", ko, ro)
      /\ ko \in {"none", "UPLOAD_VERSION", "DOWNLOAD_UPDATE", "TOUCH_BASE"}
      /\ ko \in {"DOWNLOAD_UPDATE", "TOUCH_BASE"} => ro.id = o
  BY <1>2 DEF Taken, Shows
<1>5. t = IF "orig" \in bad THEN Spoilt(s, "orig", ko, ro) ELSE Acted(s, "orig", ko, ro)
  BY DEF Step
<1> HIDE DEF ko, ro, t
<1>6. CASE "orig" \in bad
  <2>1. /\ t.disk = s.disk /\ t.obj = s.obj
        /\ t.rec.orig.id = o /\ t.rec.orig.lc = s.rec.orig.lc
        /\ t.rec.orig.lmt = s.rec.orig.lmt /\ t.rec.orig.rver = s.rec.orig.rver
    BY <1>0, <1>1, <1>4, <1>5, <1>6, SpoiltOrder
  <2> QED BY <1>1, <1>2, <1>3, <1>6, <2>1 DEF Chosen, LiveIn, t
<1>7. CASE "orig" \notin bad /\ ko = "none"
  <2>1. t = s
    BY <1>5, <1>7 DEF Acted
  <2> QED BY <1>1, <1>2, <1>3, <1>7, <2>1 DEF Chosen, LiveIn, t
<1>8. CASE "orig" \notin bad /\ ko = "UPLOAD_VERSION"
  <2> DEFINE l == Listing(s, "orig")
             u == Marked(s, "orig", "pending_upload")
  <2>1. t = Uploaded(s, "orig") /\ s.disk.orig.c # None
    BY <1>1, <1>5, <1>8, NoneAssumption DEF Acted
  <2>2. l.id = o /\ l.ver = s.obj[o].ver
    BY <1>0, <1>2, ListingOne, OrderedLined
  <2>3. \/ t = u /\ l.ver # s.rec.orig.rver
        \/ /\ t.rec.orig.id = o /\ o \in LiveAt(t, "orig")
           /\ t.obj[o].c = c /\ t.rec.orig.lc = c
    BY <1>0, <1>1, <1>2, <2>1, <2>2, UploadedOrder
  <2>4. /\ u.obj = s.obj /\ u.disk = s.disk
        /\ u.rec.orig = [s.rec.orig EXCEPT !.st = "pending_upload"]
    BY <1>0, MarkedOrder DEF Status
  <2>5. /\ u.rec.orig.id = o /\ u.rec.orig.lc = s.rec.orig.lc
    BY <1>0, <2>4, RowIds DEF Row
  <2>6. t.disk = s.disk
    BY <1>0, <2>1, UploadedOrder
  <2> HIDE DEF l, u, o
  <2>7. CASE t = u /\ l.ver # s.rec.orig.rver
    <3>1. s.obj[o].c = c
      BY <1>3, <2>2, <2>7
    <3> QED BY <1>1, <1>2, <2>4, <2>5, <2>7, <3>1 DEF Chosen, LiveIn, t, o
  <2>8. CASE /\ t.rec.orig.id = o /\ o \in LiveAt(t, "orig")
             /\ t.obj[o].c = c /\ t.rec.orig.lc = c
    BY <1>1, <1>2, <2>6, <2>8, NoneAssumption DEF Chosen, LiveIn, LiveAt, t
  <2> QED BY <2>3, <2>7, <2>8
<1>9. CASE "orig" \notin bad /\ ko = "DOWNLOAD_UPDATE"
  <2> DEFINE m == FreshStamp("orig")
  <2>1. t = Downloaded(s, "orig", ro, c, m) /\ ro.id = o
    BY <1>3, <1>4, <1>5, <1>9 DEF Acted
  <2>2. ro.sz = Size[c] /\ AtHome(s, "orig", ro.id)
    BY <1>0, <1>2, <1>3, <1>4, <1>9, <2>1, SeenHome DEF Shows
  <2> HIDE DEF m, o
  <2>3. t.obj = s.obj /\ t.disk.orig.c = c /\ t.rec.orig.id = o /\ t.rec.orig.lc = c
    BY <1>0, <1>4, <2>1, <2>2, DownloadedOrder DEF m
  <2> QED BY <1>2, <1>3, <1>9, <2>3, NoneAssumption DEF Chosen, LiveIn, t
<1>10. CASE "orig" \notin bad /\ ko = "TOUCH_BASE"
  <2> DEFINE row == RowOf(ro.id, s.disk.orig.mt, SizeOf(c), c, ro.ver, ro.sz, "synced")
  <2>1. t = Recorded(s, "orig", row)
    BY <1>1, <1>5, <1>10 DEF Acted
  <2>2. s.disk.orig \in Disk
    BY <1>0, WorldType
  <2>3. row \in Row /\ row.id = o /\ row.lc = c
    BY <1>1, <1>4, <1>10, <2>2, DiskType, SizeOfType DEF RowOf, Row, Status
  <2> HIDE DEF row, o
  <2>4. t.rec = [s.rec EXCEPT !["orig"] = row] /\ t.disk = s.disk /\ t.obj = s.obj
    BY <1>0, <2>1, <2>3, RecordedIs
  <2>5. t.rec.orig = row
    BY <1>0, <2>4, WorldType
  <2> QED BY <1>1, <1>2, <1>3, <1>10, <2>3, <2>4, <2>5, NoneAssumption DEF Chosen, LiveIn, t
<1> QED BY <1>4, <1>6, <1>7, <1>8, <1>9, <1>10

(* The file that the first half of the pass left alone is as it was seen.  *)
LEMMA StillShows ==
    ASSUME NEW s \in World, Apart(w, s, "orig"), w \in World, NEW k, NEW r,
           Taken(w, "orig", k, r), Shows(w, "orig", k, r)
    PROVE  Taken(s, "orig", k, r) /\ Shows(s, "orig", k, r)
<1>0. "orig" \in Slot
  BY DEF Slot
<1>1. s.disk.orig = w.disk.orig /\ s.rec.orig = w.rec.orig /\ LiveAt(s, "orig") = LiveAt(w, "orig")
  BY DEF Apart
<1>2. r.id # None => /\ s.obj[r.id] = w.obj[r.id] /\ r.id \in LiveAt(w, "orig")
                     /\ r.id \in ObjId /\ s.obj[r.id].st = "live"
  BY DEF Apart, Shows, LiveAt
<1>3. Shows(s, "orig", k, r)
  BY <1>1, <1>2 DEF Shows
<1>4. Known(s, r.id, r.ver)
  BY <1>2 DEF Taken, Known
<1>5. EntryAt(s, "orig") = EntryAt(w, "orig")
  BY <1>1 DEF EntryAt
<1>6. Taken(s, "orig", k, r)
  BY <1>1, <1>2, <1>4, <1>5 DEF Taken
<1> QED BY <1>3, <1>6

LEMMA GoneDecision ==
    ASSUME w \in World, Lined(w), Vanished(w), NEW full \in BOOLEAN
    PROVE  Decision(w, "copy", full, Sees(w, "copy", full)) = "none"
<1> DEFINE r == Sees(w, "copy", full)
           e == EntryAt(w, "copy")
<1>1. r.id = None
  <2>1. LiveAt(w, "copy") = {} /\ "copy" \in Slot
    BY DEF Vanished, Slot
  <2> QED BY <2>1, SeesOne
<1>2. e.mt = None /\ w.rec.copy.id = None /\ w.rec.copy.st = "none"
  BY DEF EntryAt, Vanished, NoFile, NoRow
<1> HIDE DEF r, e
<1>3. Decision(w, "copy", full, r) = "none"
  <2> DEFINE gone == ~full /\ Tombstone(w, "copy")
             lm == w.disk.copy.c
             rm == BytesOf(w, r.id)
  <2>1. Decision(w, "copy", full, r)
           = Decide(w.rec.copy, e, r, FALSE, gone, full, TRUE, lm, rm)
    BY DEF Decision, e
  <2> HIDE DEF gone, lm, rm
  <2> QED BY <1>1, <1>2, <2>1 DEF Decide, DecideNew, Here, Seen
<1> QED BY <1>3 DEF r

LEMMA PassOrder ==
    ASSUME IInv, Ordered(w), NEW full \in BOOLEAN, NEW bad \in SUBSET Slot,
           SyncPass(full, bad)
    PROVE  /\ Ordered(w') /\ Stays(w, w')
           /\ \A c \in Content : Chosen(w, c) /\ ~NoReturn =>
                 /\ Chosen(w', c) /\ listed' = listed
                 /\ bad = {} => w'.obj[w'.rec.orig.id].c = c
           /\ Vanished(w) =>
                 /\ w'.disk.copy.c \in {None, w.disk.orig.c}
                 /\ ~listed' => Vanished(w')
<1> DEFINE r   == [p \in Slot |-> Sees(w, p, full)]
           k   == [p \in Slot |-> Decision(w, p, full, r[p])]
           mid == Step(w, "copy", k, r, bad)
<1>0. w \in World /\ Lined(w) /\ Sound(w, typed) /\ "orig" \in Slot /\ "copy" \in Slot
  BY IInvParts, OrderedLined DEF Slot
<1>1. /\ w' = Step(mid, "orig", k, r, bad)
      /\ listed' = (listed \/ (k.orig = "CONFLICT" /\ "orig" \notin bad))
  BY DEF SyncPass
<1>2. /\ mid = Step(w, "copy", k, r, bad)
      /\ \A p \in Slot : r[p] = Sees(w, p, full) /\ k[p] = Decision(w, p, full, Sees(w, p, full))
  OBVIOUS
<1> HIDE DEF r, k, mid
<1>3. ASSUME NEW p \in Slot
      PROVE  Taken(w, p, k[p], r[p]) /\ Shows(w, p, k[p], r[p])
  BY <1>0, <1>2, DecisionTaken, DecisionShows
<1>4. /\ FreshStamp("orig") \in Stamp \ InUse /\ FreshStamp("copy") \in Stamp \ InUse
      /\ Several(Vacant(w))
  BY FreshStamps DEF SyncPass, Roomy, Vacant
<1>5. Free(w, FreshStamp("copy")) /\ MayPost(w)
  BY <1>4, NoneAssumption, SeveralLeft, SomeAssumption DEF Free, InUse
<1> DEFINE kc == IF "copy" \in bad THEN "none" ELSE k["copy"]
           ko == IF "orig" \in bad THEN "none" ELSE k["orig"]
<1>6. Orders(w, mid, "copy", kc) /\ Moves(w, mid, "copy", FreshStamp("copy"))
  BY <1>0, <1>2, <1>3, <1>4, <1>5, StepOrder, StepStep
<1>7. /\ mid \in World /\ Ordered(mid) /\ Stays(w, mid) /\ Apart(w, mid, "orig")
  BY <1>0, <1>6 DEF Orders
<1>8. MayPost(mid)
  <2>1. Local(w, mid, "copy")
    BY <1>6 DEF Moves
  <2> QED BY <1>4, <2>1, SeveralLeft DEF Local
<1>9. Taken(mid, "orig", k["orig"], r["orig"]) /\ Shows(mid, "orig", k["orig"], r["orig"])
  <2> DEFINE kk == k["orig"]
             rr == r["orig"]
  <2>1. Taken(w, "orig", kk, rr) /\ Shows(w, "orig", kk, rr)
    BY <1>0, <1>3
  <2> HIDE DEF kk, rr
  <2>2. Taken(mid, "orig", kk, rr) /\ Shows(mid, "orig", kk, rr)
    BY <1>0, <1>7, <2>1, StillShows
  <2> QED BY <2>2 DEF kk, rr
<1>10. Orders(mid, w', "orig", ko)
  BY <1>0, <1>1, <1>4, <1>7, <1>8, <1>9, StepOrder
<1>11. Ordered(w') /\ Stays(w, w')
  BY <1>7, <1>10, StaysOn DEF Orders
<1>12. ASSUME NEW c \in Content, Chosen(w, c), ~NoReturn
       PROVE  /\ Chosen(w', c) /\ listed' = listed
              /\ bad = {} => w'.obj[w'.rec.orig.id].c = c
  <2>1. RowSound(w, typed, "orig", w.rec.orig)
    BY <1>0 DEF Sound
  <2>2. w.rec.orig.st # "none"
    BY <1>12, <2>1 DEF RowSound, Chosen
  <2>3. /\ k["orig"] \in {"none", "UPLOAD_VERSION", "DOWNLOAD_UPDATE", "TOUCH_BASE"}
        /\ w.obj[w.rec.orig.id].c # c => k["orig"] = "UPLOAD_VERSION"
    BY <1>0, <1>2, <1>12, <2>1, ChosenDecision
  <2>4. /\ Chosen(w', c)
        /\ "orig" \notin bad => w'.obj[w'.rec.orig.id].c = c
    BY <1>0, <1>1, <1>4, <1>7, <1>8, <1>9, <1>12, <2>2, <2>3, ChosenStep
  <2>5. listed' = listed
    BY <1>1, <2>3, IInvParts DEF TypeOK
  <2> QED BY <2>4, <2>5
<1>13. ASSUME Vanished(w)
       PROVE  /\ w'.disk.copy.c \in {None, w.disk.orig.c}
              /\ ~listed' => Vanished(w')
  <2>1. k["copy"] = "none"
    BY <1>0, <1>2, <1>13, GoneDecision
  <2>2. mid = w
    BY <1>2, <2>1 DEF Step, Spoilt, Acted, Acting
  <2>3. CASE ko = "CONFLICT"
    BY <1>1, <1>10, <2>2, <2>3 DEF Orders
  <2>4. CASE ko # "CONFLICT"
    <3>1. Apart(w, w', "copy")
      BY <1>0, <1>10, <2>2, <2>4 DEF Orders
    <3>2. Vanished(w')
      BY <1>13, <3>1 DEF Apart, Vanished
    <3> QED BY <3>2 DEF Vanished, NoFile
  <2> QED BY <2>3, <2>4
<1> QED BY <1>11, <1>12, <1>13

-----------------------------------------------------------------------------
(* KeepsWord, command by command.  First what a step has to show of the    *)
(* world when a command goes on or ends.                                   *)
Stands ==
    /\ w' \in World /\ Ordered(w') /\ Stays(w, w')
    /\ listed' = listed /\ settled' = settled /\ due' \in {due, NothingDue}
    /\ due'.orig # None => Chosen(w', due'.orig)
    /\ due'.copy # None => Vanished(w')

LEMMA WordParts ==
    ASSUME KeepsWord
    PROVE  Ordered(w) /\ Held /\ Experienced /\ Promised /\ Dropped
BY DEF KeepsWord

LEMMA NothingIs == NothingDue.orig = None /\ NothingDue.copy = None
BY DEF NothingDue

LEMMA HeldIds ==
    ASSUME IInv
    PROVE  /\ \A p \in Slot : view[p].id \in ObjId \cup {None}
           /\ hold.id \in ObjId \cup {None} /\ hold.p \in Slot
BY IInvParts DEF Sight, Item

LEMMA HomeOn ==
    ASSUME IInv, KeepsWord, Stays(w, w')
    PROVE  /\ \A p \in Slot : AtHome(w', p, view[p].id)
           /\ AtHome(w', hold.p, hold.id)
<1>1. Held
  BY WordParts
<1>2. ASSUME NEW p \in Slot PROVE AtHome(w', p, view[p].id)
  BY <1>1, <1>2, HeldIds, AtHomeKept DEF Held
<1>3. AtHome(w', hold.p, hold.id)
  BY <1>1, HeldIds, AtHomeKept DEF Held
<1> QED BY <1>2, <1>3

(* Everything that was promised is gone, or is as it was.                  *)
LEMMA StillDue ==
    ASSUME due' \in {due, NothingDue}
    PROVE  /\ due'.orig # None => due'.orig = due.orig
           /\ due'.copy # None => due'.copy = due.copy
           /\ due' # NothingDue => due' = due
BY NothingIs

LEMMA ExperiencedOn ==
    ASSUME KeepsWord, listed' = listed, settled' = settled, due' \in {due, NothingDue},
           pc' \in Resolving => pc \in Resolving
    PROVE  Experienced'
BY WordParts, StillDue DEF Experienced

LEMMA RestWord ==
    ASSUME KeepsWord, Stands, AtRest, pc \notin Resolving PROVE KeepsWord'
<1>1. /\ pc' = "idle" /\ hold'.id = None /\ todo' = {}
      /\ \A p \in Slot : view'[p].id = None
  BY DEF AtRest, NoHold, NoSight, NoRemote
<1>2. Held'
  BY <1>1 DEF Held, AtHome, Pushing
<1>3. Experienced'
  BY <1>1, ExperiencedOn DEF Stands, Resolving
<1>4. Promised'
  BY <1>1, WordParts, StillDue DEF Promised, Stands, Resolving, Pushing
<1>5. Dropped'
  BY <1>1, WordParts, StillDue DEF Dropped, Stands, Resolving, Pushing, Vanished
<1> QED BY <1>2, <1>3, <1>4, <1>5 DEF KeepsWord, Stands

(* The next item.                                                          *)
LEMMA NextItemWord ==
    ASSUME IInv, KeepsWord, NEW p \in todo, NEW at \in {"index", "send", "check", "ask"},
           NextItem(p, at), Stands,
           at \in {"index", "send"} => pc \in Pushing,
           at = "check" => pc \in {"check", "fetch", "place"},
           at = "ask"   => pc = "ask",
           at = "check" /\ p # "orig" /\ "orig" \in todo /\ due'.orig # None =>
                HasChosen(w', view.orig.id, due.orig)
    PROVE  KeepsWord'
<1>0. pc \notin Resolving
  BY DEF Pushing, Resolving
<1>1. CASE todo = {p}
  BY <1>0, <1>1, RestWord DEF NextItem
<1>2. CASE todo # {p}
  <2>1. /\ todo' = todo \ {p} /\ pc' = at /\ hold' = NoHold
        /\ opt' = opt /\ snap' = snap /\ view' = view
    BY <1>2 DEF NextItem, Goto
  <2>2. Held'
    BY <2>1, HomeOn, WordParts, IInvParts DEF Held, AtHome, NoHold, Pushing, Stands
  <2>3. Experienced'
    BY <2>1, ExperiencedOn DEF Stands, Resolving
  <2>4. Promised'
    BY <2>1, WordParts, StillDue DEF Promised, Stands, Resolving, Pushing
  <2>5. Dropped'
    BY <2>1, <1>0, WordParts, StillDue DEF Dropped, Stands, Resolving, Pushing, Vanished
  <2> QED BY <2>2, <2>3, <2>4, <2>5 DEF KeepsWord, Stands
<1> QED BY <1>1, <1>2

(* A promise is about files that are there, or gone.                       *)
LEMMA DueFacts ==
    ASSUME IInv, KeepsWord
    PROVE  /\ due.orig # None =>
                 /\ due.orig \in Content /\ Chosen(w, due.orig) /\ ~NoReturn /\ ~listed
                 /\ w.rec.orig.id \in ObjId /\ w.obj[w.rec.orig.id].st = "live"
                 /\ w.obj[w.rec.orig.id].at = "orig"
                 /\ LiveAt(w, "orig") = {w.rec.orig.id}
           /\ due.copy # None /\ pc \notin {"bin", "back"} => Vanished(w)
<1>1. ASSUME due.orig # None
      PROVE  /\ due.orig \in Content /\ Chosen(w, due.orig) /\ ~NoReturn /\ ~listed
             /\ w.rec.orig.id \in ObjId /\ w.obj[w.rec.orig.id].st = "live"
             /\ w.obj[w.rec.orig.id].at = "orig"
             /\ LiveAt(w, "orig") = {w.rec.orig.id}
  <2>1. due.orig \in Content
    BY <1>1, IInvParts DEF TypeOK, Due
  <2>2. Chosen(w, due.orig) /\ ~NoReturn /\ ~listed
    BY <1>1, WordParts DEF Promised
  <2>3. /\ w.rec.orig.id \in ObjId /\ w.obj[w.rec.orig.id].st = "live"
        /\ w.obj[w.rec.orig.id].at = "orig"
    BY <2>2, IInvParts, RowIds, WordParts DEF Chosen, LiveIn, Ordered, AtHome, Slot
  <2>4. LiveAt(w, "orig") = {w.rec.orig.id}
    BY <2>3, WordParts DEF Ordered, OneOfAName, LiveAt, Slot
  <2> QED BY <2>1, <2>2, <2>3, <2>4
<1>2. due.copy # None /\ pc \notin {"bin", "back"} => Vanished(w)
  BY WordParts DEF Dropped
<1> QED BY <1>1, <1>2

LEMMA ChosenSame ==
    ASSUME NEW s, NEW t, NEW c, Chosen(s, c), t.disk.orig.c = s.disk.orig.c,
           t.obj = s.obj, t.rec.orig.id = s.rec.orig.id, t.rec.orig.lc = s.rec.orig.lc,
           t.rec.orig.lmt = s.rec.orig.lmt, t.rec.orig.rver = s.rec.orig.rver
    PROVE  Chosen(t, c)
BY DEF Chosen, LiveIn

LEMMA ErredWord ==
    ASSUME NEW s \in World, Ordered(s), NEW p \in Slot
    PROVE  LET t == Erred(s, p)
           IN  /\ t \in World /\ Ordered(t) /\ Stays(s, t) /\ t.disk = s.disk /\ t.obj = s.obj
               /\ t.rec.orig.id = s.rec.orig.id
               /\ \A c : Chosen(s, c) => Chosen(t, c)
               /\ p = "orig" /\ Vanished(s) => Vanished(t)
<1> DEFINE t == Erred(s, p)
<1>1. t = Marked(s, p, "error") /\ "error" \in Status
  BY DEF Erred, Status
<1> HIDE DEF t
<1>2. /\ t \in World /\ Ordered(t) /\ Stays(s, t) /\ t.disk = s.disk
      /\ t.obj = s.obj /\ t.rec[p] = [s.rec[p] EXCEPT !.st = "error"]
      /\ \A q \in Slot \ {p} : t.rec[q] = s.rec[q] /\ Apart(s, t, q)
  BY <1>1, MarkedOrder
<1>3. /\ t.rec.orig.id = s.rec.orig.id /\ t.rec.orig.lc = s.rec.orig.lc
      /\ t.rec.orig.lmt = s.rec.orig.lmt /\ t.rec.orig.rver = s.rec.orig.rver
  BY <1>2, RowIds DEF Slot, Row
<1>4. ASSUME NEW c, Chosen(s, c) PROVE Chosen(t, c)
  BY <1>2, <1>3, <1>4, ChosenSame
<1>5. p = "orig" /\ Vanished(s) => Vanished(t)
  BY <1>2 DEF Slot, Vanished, Apart
<1> QED BY <1>2, <1>3, <1>4, <1>5 DEF t

LEMMA FailWord ==
    ASSUME IInv, KeepsWord, NEW p \in todo, NEW at \in {"index", "send", "check"},
           ItemFails(p, at), UNCHANGED <<due, listed, settled>>,
           at \in {"index", "send"} => pc \in Pushing,
           at = "check" => pc \in {"check", "fetch", "place"}
    PROVE  KeepsWord'
<1>1. p \in Slot /\ w' = Erred(w, p) /\ NextItem(p, at)
  BY IInvParts DEF ItemFails
<1>2. /\ w' \in World /\ Ordered(w') /\ Stays(w, w') /\ w'.obj = w.obj
      /\ w'.rec.orig.id = w.rec.orig.id
      /\ \A c : Chosen(w, c) => Chosen(w', c)
      /\ p = "orig" /\ Vanished(w) => Vanished(w')
  BY <1>1, IInvParts, WordParts, ErredWord
<1>3. due.copy # None => p = "orig" /\ Vanished(w)
  <2>1. pc \notin {"bin", "back"}
    BY DEF Pushing
  <2> QED BY <1>1, <2>1, DueFacts, WordParts DEF Dropped, Pushing, Slot
<1>4. Stands
  BY <1>2, <1>3, DueFacts DEF Stands
<1>5. at = "check" /\ "orig" \in todo /\ due.orig # None => HasChosen(w', view.orig.id, due.orig)
  BY <1>2, WordParts DEF Promised, HasChosen
<1> QED BY <1>1, <1>4, <1>5, NextItemWord

(* The drive gets bytes: of a chosen file the chosen ones.                 *)
Receivable(p, o, at, v) ==
    \/ /\ LiveIn(w, o) /\ AtHome(w, p, o)
       /\ at = w.obj[o].at /\ v = w.obj[o].ver + 1
    \/ w.obj[o].st = "none" /\ LiveAt(w, p) = {} /\ at = p

LEMMA StoredWord ==
    ASSUME IInv, KeepsWord, NEW p \in Slot, NEW o \in ObjId, NEW v \in Nat,
           NEW c \in Content, NEW at \in Slot \cup {"away"}, Receivable(p, o, at, v),
           due.orig # None /\ p = "orig" => c = due.orig,
           due.copy # None => p = "orig" /\ Vanished(w)
    PROVE  LET t == Stored(w, o, at, v, c)
           IN  /\ t \in World /\ Ordered(t) /\ Stays(w, t)
               /\ t.disk = w.disk /\ t.rec = w.rec
               /\ t.obj[o].c = c /\ AtHome(t, p, o)
               /\ due.orig # None => /\ Chosen(t, due.orig)
                                     /\ p = "orig" => HasChosen(t, o, due.orig)
               /\ due.copy # None => Vanished(t)
<1> DEFINE t == Stored(w, o, at, v, c)
<1>0. w \in World /\ Ordered(w) /\ Lined(w)
  BY IInvParts, WordParts, OrderedLined
<1>1. \/ w.obj[o].st = "live" /\ w.obj[o].at = at /\ v = w.obj[o].ver + 1
      \/ w.obj[o].st = "none" /\ LiveAt(w, at) = {}
  BY DEF Receivable, LiveIn
<1>2. /\ t \in World /\ Lined(t) /\ Stays(w, t) /\ t.disk = w.disk /\ t.rec = w.rec
      /\ t.obj[o].c = c /\ t.obj[o].ver = v /\ o \in LiveAt(t, at)
      /\ \A x \in ObjId \ {o} : t.obj[x] = w.obj[x]
      /\ \A q \in Slot \ {at} : Apart(w, t, q)
  BY <1>0, <1>1, LinedStored
<1> HIDE DEF t
<1>3. Ordered(t)
  BY <1>0, <1>2, OrderedBy
<1>4. at \in IF p = "orig" THEN {"orig"} ELSE {"copy", "away"}
  BY DEF Receivable, AtHome, LiveIn, Slot
<1>5. AtHome(t, p, o)
  BY <1>2, <1>4 DEF AtHome, LiveAt
<1>6. ASSUME due.orig # None
      PROVE  Chosen(t, due.orig) /\ (p = "orig" => HasChosen(t, o, due.orig))
  <2> DEFINE x == w.rec.orig.id
  <2>1. /\ Chosen(w, due.orig) /\ x \in ObjId /\ w.obj[x].st = "live"
        /\ w.obj[x].at = "orig" /\ LiveAt(w, "orig") = {x}
    BY <1>6, DueFacts
  <2>2. CASE p = "orig"
    <3>1. o = x
      BY <1>4, <2>1, <2>2 DEF Receivable, LiveIn, LiveAt
    <3> QED BY <1>2, <1>6, <2>1, <2>2, <3>1 DEF Chosen, HasChosen, LiveIn, LiveAt
  <2>3. CASE p # "orig"
    <3>1. o # x
      BY <1>4, <2>1, <2>3 DEF Receivable, LiveIn
    <3> QED BY <1>2, <2>1, <2>3, <3>1 DEF Chosen, LiveIn
  <2> QED BY <2>2, <2>3
<1>7. ASSUME due.copy # None PROVE Vanished(t)
  BY <1>2, <1>4, <1>7 DEF Apart, Vanished, Slot
<1> QED BY <1>2, <1>3, <1>5, <1>6, <1>7 DEF t

LEMMA PushDue ==
    ASSUME IInv, KeepsWord, pc \in Pushing, NEW p \in todo
    PROVE  /\ p \in Slot /\ (due.copy # None => p = "orig" /\ Vanished(w))
           /\ due.orig # None => w.disk.orig.c = due.orig
           /\ due.orig # None /\ p = "orig" => snap[p].c = due.orig
<1>1. pc \notin {"bin", "back"}
  BY DEF Pushing
<1> QED BY <1>1, DueFacts, IInvParts, WordParts DEF Chosen, Dropped, Promised, Slot

(* push sends a file.                                                      *)
LEMMA SentWord ==
    ASSUME IInv, KeepsWord, pc \in {"send", "again"}, NEW p \in todo, w.disk[p].c # None,
           NEW o \in ObjId, NEW at \in Slot \cup {"away"}, NEW v \in Nat,
           Receivable(p, o, at, v), w' = Stored(w, o, at, v, w.disk[p].c),
           hold' = [NoHold EXCEPT !.p = p, !.id = o, !.ver = v], pc' = "commit",
           UNCHANGED <<opt, snap, todo, due, listed, settled>>,
           view' = view \/ view' = [q \in Slot |-> Listing(w', q)]
    PROVE  KeepsWord'
<1> DEFINE c == w.disk[p].c
<1>1. /\ p \in Slot /\ c \in Content /\ pc \in Pushing
      /\ due.copy # None => p = "orig" /\ Vanished(w)
      /\ due.orig # None /\ p = "orig" => c = due.orig
  <2>1. pc \in Pushing
    BY DEF Pushing
  <2>2. w.disk[p].c \in Content \cup {None}
    BY <2>1, PushDue, IInvParts, DiskType
  <2> QED BY <2>1, <2>2, PushDue
<1>2. hold'.p = p /\ hold'.id = o
  BY DEF NoHold
<1>3. /\ w' \in World /\ Ordered(w') /\ Stays(w, w') /\ w'.rec = w.rec
      /\ AtHome(w', p, o)
      /\ due.orig # None => /\ Chosen(w', due.orig)
                            /\ p = "orig" => HasChosen(w', o, due.orig)
      /\ due.copy # None => Vanished(w')
  BY <1>1, StoredWord
<1> HIDE DEF c
<1>4. Held'
  <2>1. \A q \in Slot : AtHome(w', q, view'[q].id)
    BY <1>3, HomeOn, ListingOne, OrderedLined
  <2> QED BY <1>1, <1>2, <1>3, <2>1, WordParts DEF Held, Pushing
<1>5. Experienced'
  BY ExperiencedOn DEF Resolving
<1>6. Promised'
  BY <1>1, <1>2, <1>3, WordParts DEF Promised, Resolving, Pushing
<1>7. Dropped'
  BY <1>1, <1>3, WordParts DEF Dropped, Resolving, Pushing, Vanished
<1> QED BY <1>3, <1>4, <1>5, <1>6, <1>7 DEF KeepsWord

LEMMA PutOntoWord ==
    ASSUME IInv, KeepsWord, pc \in {"send", "again"}, NEW p \in todo, w.disk[p].c # None,
           NEW o \in ObjId, LiveIn(w, o), AtHome(w, p, o), PutOnto(p, o),
           UNCHANGED <<due, listed, settled>>,
           view' = view \/ view' = [q \in Slot |-> Listing(w', q)]
    PROVE  KeepsWord'
<1> DEFINE v == w.obj[o].ver + 1
           at == w.obj[o].at
<1>1. w.obj[o] \in Object /\ w.obj[o].st # "none" /\ w.obj[o].ver \in Nat
  BY IInvParts, WorldType DEF LiveIn
<1>2. at \in Slot \cup {"away"} /\ v \in Nat /\ Receivable(p, o, at, v)
  BY <1>1, ObjectType DEF Made, Receivable
<1>3. /\ w' = Stored(w, o, at, v, w.disk[p].c)
      /\ hold' = [NoHold EXCEPT !.p = p, !.id = o, !.ver = v]
      /\ pc' = "commit" /\ UNCHANGED <<opt, snap, todo>>
  BY DEF PutOnto, NewVersion, InHand, Goto
<1> HIDE DEF v, at
<1> QED BY <1>2, <1>3, SentWord

(* A command begins with a scan.                                           *)
LEMMA StartScanWord ==
    ASSUME IInv, KeepsWord, w' = w, pc = "idle", ScanBoth,
           pc' \in {"plan", "walk", "match"},
           UNCHANGED <<view, todo, hold, due, listed, settled>>
    PROVE  KeepsWord'
<1>1. \A p \in Slot : snap'[p].mt = w.disk[p].mt /\ snap'[p].sz = SizeOf(w.disk[p].c)
  BY DEF ScanBoth, EntryAt
<1>2. Held'
  BY <1>1, WordParts DEF Held, SameStat, Pushing
<1>3. Experienced'
  BY ExperiencedOn DEF Resolving
<1>4. due.orig # None => snap'.orig.mt # None
  <2>1. due.orig # None => w.disk.orig.c = due.orig /\ w.disk.orig \in Disk
    BY DueFacts, IInvParts DEF Chosen, Slot
  <2> QED BY <1>1, <2>1, DiskType DEF Slot
<1>5. due.copy # None => Vanished(w) /\ snap'.copy.mt = None
  BY <1>1, DueFacts DEF Vanished, NoFile, Slot
<1>6. Promised'
  BY <1>4, WordParts DEF Promised, Resolving, Pushing
<1>7. Dropped'
  BY <1>5, WordParts DEF Dropped, Resolving, Pushing
<1> QED BY <1>2, <1>3, <1>6, <1>7, WordParts DEF KeepsWord

LEMMA PlanPushWord == ASSUME IInv, KeepsWord, Firm, PlanPush PROVE KeepsWord'
<1>1. PICK blind \in SUBSET Slot :
         LET hashes == [p \in Slot |-> Here(snap[p]) /\ ~Unchanged(w.rec[p], snap[p])]
             items  == {p \in Slot : Pushes(w.rec[p], snap[p], Hashed(p, blind))}
         IN  /\ pc = "plan"
             /\ w' = [w EXCEPT !.rec = [p \in Slot |->
                         IF hashes[p] /\ Hashed(p, blind) = None
                         THEN [w.rec[p] EXCEPT !.st = "error"] ELSE w.rec[p]]]
             /\ IF items = {} THEN AtRest
                ELSE /\ todo' = items /\ Goto("index")
                     /\ snap' = [p \in Slot |-> IF p \in items
                             THEN [snap[p] EXCEPT !.c = Hashed(p, blind)] ELSE snap[p]]
                     /\ UNCHANGED <<opt, view, hold>>
             /\ UNCHANGED <<saved, due>>
  BY DEF PlanPush
<1> DEFINE hashes == [p \in Slot |-> Here(snap[p]) /\ ~Unchanged(w.rec[p], snap[p])]
           items  == {p \in Slot : Pushes(w.rec[p], snap[p], Hashed(p, blind))}
           rows   == [p \in Slot |-> IF hashes[p] /\ Hashed(p, blind) = None
                         THEN [w.rec[p] EXCEPT !.st = "error"] ELSE w.rec[p]]
<1>2. ASSUME NEW p \in Slot
      PROVE  /\ rows[p] \in Row /\ rows[p].id = w.rec[p].id /\ rows[p].lc = w.rec[p].lc
             /\ rows[p].rver = w.rec[p].rver /\ rows[p].lmt = w.rec[p].lmt
             /\ rows[p].rc = w.rec[p].rc /\ rows[p].rsz = w.rec[p].rsz
             /\ snap[p].mt = None => rows[p] = w.rec[p]
  <2> DEFINE row == [w.rec[p] EXCEPT !.st = "error"]
  <2>1. w.rec[p] \in Row
    BY IInvParts
  <2>2. /\ row \in Row /\ row.id = w.rec[p].id /\ row.rver = w.rec[p].rver
        /\ row.lc = w.rec[p].lc /\ row.lmt = w.rec[p].lmt
        /\ row.rc = w.rec[p].rc /\ row.rsz = w.rec[p].rsz
    BY <2>1 DEF Row, Status
  <2>3. rows[p] \in {row, w.rec[p]} /\ (snap[p].mt = None => rows[p] = w.rec[p])
    BY DEF Here
  <2> HIDE DEF row, rows
  <2> QED BY <2>1, <2>2, <2>3
<1>3. w' = [w EXCEPT !.rec = rows] /\ rows \in [Slot -> Row] /\ pc = "plan"
  BY <1>1, <1>2
<1> HIDE DEF rows
<1>4. /\ w' \in World /\ w'.rec = rows
      /\ w'.disk = w.disk /\ w'.obj = w.obj /\ w'.shown = w.shown
  BY <1>3, IInvParts, RowsIs
<1>5. Ordered(w') /\ Stays(w, w')
  <2>1. \A p \in Slot : AtHome(w, p, rows[p].id) /\ Weighed(rows[p])
    BY <1>2, WordParts DEF Ordered, AtHome, Weighed
  <2> QED BY <1>4, <2>1, IInvParts, WordParts, SameDrive
<1>6. due.orig # None => Chosen(w', due.orig)
  BY <1>2, <1>4, DueFacts, ChosenSame DEF Slot
<1>7. due.copy # None => Vanished(w') /\ snap.copy.mt = None
  BY <1>2, <1>3, <1>4, DueFacts, WordParts DEF Dropped, Vanished, LiveAt, Slot
<1>8. Stands /\ due' = due
  BY <1>1, <1>4, <1>5, <1>6, <1>7 DEF Stands, saved
<1>9. CASE items = {}
  BY <1>1, <1>3, <1>8, <1>9, RestWord DEF Resolving
<1>10. CASE items # {}
  <2>1. /\ todo' = items /\ pc' = "index" /\ UNCHANGED <<opt, view, hold>>
        /\ snap' = [p \in Slot |-> IF p \in items
               THEN [snap[p] EXCEPT !.c = Hashed(p, blind)] ELSE snap[p]]
    BY <1>1, <1>10 DEF Goto
  <2>2. ASSUME NEW p \in items
        PROVE  /\ p \in Slot /\ snap[p].mt # None /\ snap'[p].sz = snap[p].sz
               /\ snap'[p].c = w.disk[p].c /\ w.disk[p].c # None
    BY <2>1, IInvParts DEF Entry, Pushes, Here, Hashed
  <2> HIDE DEF items, hashes
  <2>3. ~NoReturn => \A p \in items : snap'[p].c # None /\ snap'[p].sz = Size[snap'[p].c]
    BY <1>3, <2>2, WordParts DEF Held, SameStat, SizeOf
  <2>4. Held'
    BY <1>5, <2>1, <2>3, HomeOn DEF Held, Pushing
  <2>5. Experienced'
    BY <1>8, <2>1, ExperiencedOn DEF Stands, Resolving
  <2>6. Promised'
    <3>1. due.orig # None /\ "orig" \in items => snap'.orig.c = due.orig
      BY <2>2, DueFacts DEF Chosen
    <3> QED BY <1>6, <1>8, <2>1, <3>1, WordParts DEF Promised, Stands, Resolving, Pushing
  <2>7. Dropped'
    <3>1. due.copy # None => "copy" \notin items
      BY <1>7, <2>2
    <3> QED BY <1>3, <1>7, <1>8, <2>1, <3>1, WordParts
            DEF Dropped, Stands, Resolving, Pushing, Vanished
  <2> QED BY <1>5, <2>4, <2>5, <2>6, <2>7 DEF KeepsWord
<1> QED BY <1>9, <1>10

LEMMA PushWord == ASSUME IInv, KeepsWord, Firm, Push PROVE KeepsWord'
<1>0. UNCHANGED <<due, listed, settled>>
  BY DEF Push, StartPush, PlanPush, LoadIndex, Touch, SendVersion, SendNew, SendAgain,
         CommitPush, PushAnswerLost, saved
<1>1. CASE StartPush
  BY <1>0, <1>1, StartScanWord DEF StartPush, Begin, Goto
<1>2. CASE PlanPush
  BY <1>2, PlanPushWord
<1>3. CASE LoadIndex
  <2>1. /\ pc = "index" /\ pc' = "send" /\ view' = [p \in Slot |-> Listing(w, p)]
        /\ w' = w /\ opt' = opt /\ snap' = snap /\ todo' = todo /\ hold' = hold
    BY <1>3 DEF LoadIndex, Goto
  <2>2. \A p \in Slot : AtHome(w', p, view'[p].id)
    BY <2>1, ListingOne, IInvParts, WordParts, OrderedLined
  <2>3. Held'
    BY <2>1, <2>2, WordParts DEF Held, Pushing
  <2>4. Experienced'
    BY <1>0, <2>1, ExperiencedOn DEF Resolving
  <2>5. Promised'
    BY <1>0, <2>1, WordParts DEF Promised, Resolving, Pushing
  <2>6. Dropped'
    BY <1>0, <2>1, WordParts DEF Dropped, Resolving, Pushing
  <2> QED BY <2>1, <2>3, <2>4, <2>5, <2>6, WordParts DEF KeepsWord
<1>4. ASSUME NEW p \in todo, Touch(p) PROVE KeepsWord'
  <2> DEFINE row == [w.rec[p] EXCEPT !.lmt = snap[p].mt, !.lsz = snap[p].sz,
                                     !.st = "synced"]
  <2>1. pc = "send" /\ pc \in Pushing
    BY <1>4 DEF Touch, Pushing
  <2>2. /\ p \in Slot /\ w.rec[p] \in Row /\ snap[p] \in Entry
        /\ due.copy # None => p = "orig" /\ Vanished(w)
        /\ due.orig # None /\ p = "orig" => snap[p].c = due.orig
    BY <2>1, PushDue, IInvParts
  <2>3. /\ row \in Row /\ row.id = w.rec[p].id /\ row.rver = w.rec[p].rver
        /\ row.lc = w.rec[p].lc /\ row.rc = w.rec[p].rc /\ row.rsz = w.rec[p].rsz
    BY <2>2 DEF Entry, Row, Status
  <2>4. w' = Recorded(w, p, row) /\ NextItem(p, "send") /\ w.rec[p].lc = snap[p].c
    BY <1>4 DEF Touch, OnlyTouched
  <2> HIDE DEF row
  <2>5. AtHome(w, p, row.id) /\ Weighed(row)
    BY <2>2, <2>3, WordParts DEF Ordered, Weighed
  <2>6. /\ w' \in World /\ Ordered(w') /\ Stays(w, w')
        /\ w'.disk = w.disk /\ w'.obj = w.obj /\ w'.rec[p] = row
        /\ \A q \in Slot \ {p} : w'.rec[q] = w.rec[q] /\ Apart(w, w', q)
    BY <2>2, <2>3, <2>4, <2>5, IInvParts, WordParts, RecordedOrder
  <2>7. ASSUME due.orig # None PROVE Chosen(w', due.orig)
    <3>1. CASE p = "orig"
      <4>1. w.obj[w.rec.orig.id].c = due.orig
        <5>1. /\ Chosen(w, due.orig) /\ ~NoReturn /\ w.rec.orig.lc = due.orig
              /\ RowSound(w, typed, "orig", w.rec.orig)
          BY <2>2, <2>4, <2>7, <3>1, DueFacts, IInvParts DEF Sound, Slot
        <5> QED BY <2>2, <3>1, <5>1, BaseStands, IInvParts, WordParts DEF Chosen
      <4> QED BY <2>3, <2>6, <2>7, <3>1, <4>1, DueFacts DEF Chosen, LiveIn
    <3>2. CASE p # "orig"
      BY <2>6, <2>7, <3>2, DueFacts, ChosenSame DEF Slot
    <3> QED BY <3>1, <3>2
  <2>8. due.copy # None => Vanished(w')
    BY <2>2, <2>6 DEF Apart, Vanished, Slot
  <2>9. Stands
    BY <1>0, <2>6, <2>7, <2>8 DEF Stands
  <2> QED BY <2>1, <2>4, <2>9, NextItemWord
<1>5. ASSUME NEW p \in todo, SendVersion(p) PROVE KeepsWord'
  <2>1. pc = "send" /\ pc \in Pushing /\ p \in Slot /\ view[p].id \in ObjId
    BY <1>5, IInvParts DEF SendVersion, Pushing, Sight
  <2>2. CASE w.disk[p].c # None /\ LiveIn(w, view[p].id)
    <3>1. AtHome(w, p, view[p].id)
      BY <2>1, WordParts DEF Held
    <3> QED BY <1>0, <1>5, <2>1, <2>2, <3>1, PutOntoWord DEF SendVersion
  <2>3. CASE ~(w.disk[p].c # None /\ LiveIn(w, view[p].id))
    BY <1>0, <1>5, <2>1, <2>3, FailWord DEF SendVersion
  <2> QED BY <2>2, <2>3
<1>6. ASSUME NEW p \in todo, SendNew(p) PROVE KeepsWord'
  <2>1. pc = "send" /\ pc \in Pushing /\ p \in Slot
    BY <1>6, IInvParts DEF SendNew, Pushing
  <2>2. CASE w.disk[p].c = None
    BY <1>0, <1>6, <2>1, <2>2, FailWord DEF SendNew
  <2>3. CASE w.disk[p].c # None /\ LiveAt(w, p) # {}
    <3>1. /\ hold' = [NoHold EXCEPT !.p = p, !.id = None, !.ver = None] /\ pc' = "again"
          /\ w' = w /\ opt' = opt /\ snap' = snap /\ todo' = todo /\ view' = view
      BY <1>6, <2>3 DEF SendNew, InHand, Goto
    <3>2. hold'.p = p /\ hold'.id = None
      BY <3>1 DEF NoHold
    <3>3. Held'
      BY <2>1, <3>1, <3>2, WordParts DEF Held, AtHome, Pushing
    <3>4. Experienced'
      BY <1>0, <3>1, ExperiencedOn DEF Resolving
    <3>5. Promised'
      BY <1>0, <2>1, <3>1, WordParts DEF Promised, Resolving, Pushing
    <3>6. Dropped'
      BY <1>0, <2>1, <3>1, WordParts DEF Dropped, Resolving, Pushing
    <3> QED BY <3>1, <3>3, <3>4, <3>5, <3>6, WordParts DEF KeepsWord
  <2>4. CASE w.disk[p].c # None /\ LiveAt(w, p) = {}
    <3>1. /\ MayPost(w) /\ w' = Stored(w, Fresh(w), p, 0, w.disk[p].c)
          /\ hold' = [NoHold EXCEPT !.p = p, !.id = Fresh(w), !.ver = 0]
          /\ pc' = "commit" /\ UNCHANGED <<opt, snap, view, todo>>
      BY <1>6, <2>4 DEF SendNew, InHand, Goto, NewFile
    <3>2. Fresh(w) \in ObjId /\ 0 \in Nat /\ Receivable(p, Fresh(w), p, 0)
      BY <2>4, <3>1, FreshIs DEF Receivable
    <3> QED BY <1>0, <2>1, <2>4, <3>1, <3>2, SentWord
  <2> QED BY <2>2, <2>3, <2>4
<1>7. CASE SendAgain
  <2> DEFINE p == hold.p
             o == Listing(w, p).id
  <2>1. pc = "again" /\ pc \in Pushing /\ p \in todo /\ p \in Slot
    BY <1>7, IInvParts DEF SendAgain, Pushing, Remembered
  <2>2. CASE w.disk[p].c # None /\ LiveAt(w, p) # {}
    <3>1. LiveIn(w, o) /\ o \in ObjId
      BY <2>1, <2>2, ListingIs, IInvParts DEF LiveAt, LiveIn
    <3>2. AtHome(w, p, o)
      BY <2>1, ListingOne, IInvParts, WordParts, OrderedLined
    <3> QED BY <1>0, <1>7, <2>1, <2>2, <3>1, <3>2, PutOntoWord DEF SendAgain
  <2>3. CASE ~(w.disk[p].c # None /\ LiveAt(w, p) # {})
    BY <1>0, <1>7, <2>1, <2>3, FailWord DEF SendAgain
  <2> QED BY <2>2, <2>3
<1>8. CASE CommitPush
  <2> DEFINE p == hold.p
             st == IF w.disk[p].c # None /\ ~SameStat(w, p, snap[p])
                   THEN "pending_upload" ELSE "synced"
             row == RowOf(hold.id, snap[p].mt, snap[p].sz, snap[p].c, hold.ver, snap[p].sz, st)
  <2>1. st \in Status
    BY DEF Status
  <2>2. w' = Recorded(w, p, row) /\ pc = "commit" /\ NextItem(p, "send")
    BY <1>8 DEF CommitPush
  <2>3. p \in todo /\ pc \in Pushing
    BY <2>2, IInvParts DEF Remembered, Pushing
  <2>4. /\ p \in Slot /\ (due.copy # None => p = "orig" /\ Vanished(w))
        /\ due.orig # None /\ p = "orig" => snap[p].c = due.orig
    BY <2>3, PushDue
  <2> HIDE DEF st
  <2>5. /\ row \in Row /\ row.id = hold.id /\ row.lc = snap[p].c
        /\ row.rc = snap[p].c /\ row.rsz = snap[p].sz
    BY <2>1, IInvParts DEF RowOf, Row, Entry, Item
  <2>6. AtHome(w, p, row.id) /\ Weighed(row)
    BY <2>3, <2>4, <2>5, WordParts DEF Held, Weighed
  <2> HIDE DEF row, p
  <2>7. /\ w' \in World /\ Ordered(w') /\ Stays(w, w')
        /\ w'.disk = w.disk /\ w'.obj = w.obj /\ w'.rec[p] = row
        /\ \A q \in Slot \ {p} : w'.rec[q] = w.rec[q] /\ Apart(w, w', q)
    BY <2>2, <2>4, <2>5, <2>6, IInvParts, WordParts, RecordedOrder
  <2>8. ASSUME due.orig # None PROVE Chosen(w', due.orig)
    <3>1. CASE p = "orig"
      <4>1. HasChosen(w, hold.id, due.orig)
        BY <2>2, <2>8, <3>1, WordParts DEF Promised, p
      <4> QED BY <2>4, <2>5, <2>7, <2>8, <3>1, <4>1, DueFacts DEF Chosen, HasChosen, LiveIn
    <3>2. CASE p # "orig"
      BY <2>7, <2>8, <3>2, DueFacts, ChosenSame DEF Slot
    <3> QED BY <3>1, <3>2
  <2>9. due.copy # None => Vanished(w')
    BY <2>4, <2>7 DEF Apart, Vanished, Slot
  <2>10. Stands
    BY <1>0, <2>7, <2>8, <2>9 DEF Stands
  <2> QED BY <2>2, <2>3, <2>10, NextItemWord
<1>9. ASSUME NEW p \in todo, PushAnswerLost(p) PROVE KeepsWord'
  <2> DEFINE c == w.disk[p].c
  <2>1. /\ c # None /\ view[p].id \in ObjId \cup {None} /\ p \in Slot
        /\ pc = "send" /\ pc \in Pushing /\ NextItem(p, "send") /\ w.disk[p] \in Disk
    BY <1>9, IInvParts DEF PushAnswerLost, Pushing, Sight
  <2>2. PICK o \in ObjId, at \in Slot \cup {"away"}, v \in Nat :
           Receivable(p, o, at, v) /\ w' = Erred(Stored(w, o, at, v, c), p)
    <3>1. CASE LiveIn(w, view[p].id) /\ w' = Erred(NewVersion(w, view[p].id, c), p)
      <4> DEFINE o == view[p].id
                 v == w.obj[o].ver + 1
      <4>1. o \in ObjId /\ w.obj[o] \in Object /\ w.obj[o].st # "none" /\ w.obj[o].ver \in Nat
        BY <2>1, <3>1, IInvParts, WorldType DEF LiveIn
      <4>2. w.obj[o].at \in Slot \cup {"away"} /\ v \in Nat /\ AtHome(w, p, o)
        BY <2>1, <4>1, ObjectType, WordParts DEF Made, Held
      <4>3. w' = Erred(Stored(w, o, w.obj[o].at, v, c), p)
        BY <3>1 DEF NewVersion
      <4>4. Receivable(p, o, w.obj[o].at, v)
        BY <3>1, <4>2 DEF Receivable
      <4> HIDE DEF o, v, c
      <4> QED BY <4>1, <4>2, <4>3, <4>4
    <3>2. CASE LiveAt(w, p) = {} /\ MayPost(w) /\ w' = Erred(NewFile(w, p, c), p)
      <4>1. Fresh(w) \in ObjId /\ 0 \in Nat /\ Receivable(p, Fresh(w), p, 0)
        BY <3>2, FreshIs DEF Receivable
      <4>2. w' = Erred(Stored(w, Fresh(w), p, 0, c), p)
        BY <3>2 DEF NewFile
      <4> HIDE DEF c
      <4> QED BY <2>1, <4>1, <4>2
    <3> QED BY <1>9, <3>1, <3>2 DEF PushAnswerLost
  <2> DEFINE u == Stored(w, o, at, v, c)
  <2>3. /\ c \in Content /\ (due.copy # None => p = "orig" /\ Vanished(w))
        /\ due.orig # None /\ p = "orig" => c = due.orig
    BY <2>1, PushDue, DiskType
  <2> HIDE DEF c
  <2>4. /\ u \in World /\ Ordered(u) /\ Stays(w, u)
        /\ due.orig # None => Chosen(u, due.orig)
        /\ due.copy # None => Vanished(u)
    BY <2>1, <2>2, <2>3, StoredWord
  <2>5. w' = Erred(u, p)
    BY <2>2
  <2> HIDE DEF u
  <2>6. /\ w' \in World /\ Ordered(w') /\ Stays(u, w')
        /\ \A x : Chosen(u, x) => Chosen(w', x)
        /\ p = "orig" /\ Vanished(u) => Vanished(w')
    BY <2>1, <2>4, <2>5, ErredWord
  <2>7. Stands
    BY <1>0, <2>3, <2>4, <2>6, StaysOn DEF Stands
  <2> QED BY <2>1, <2>7, NextItemWord
<1> QED BY <1>1, <1>2, <1>3, <1>4, <1>5, <1>6, <1>7, <1>8, <1>9 DEF Push

LEMMA PlanPullWord == ASSUME IInv, KeepsWord, PlanPull PROVE KeepsWord'
<1>1. PICK blind \in SUBSET Slot :
         LET seen   == [p \in Slot |-> Listing(w, p)]
             items  == {p \in Slot : Pulls(p, seen[p], Hashed(p, blind))}
         IN  /\ pc = "walk"
             /\ IF items = {} THEN AtRest
                ELSE /\ todo' = items /\ view' = seen /\ Goto("check")
                     /\ UNCHANGED <<opt, snap, hold>>
             /\ UNCHANGED <<w, saved, due>>
  BY DEF PlanPull
<1> DEFINE seen  == [p \in Slot |-> Listing(w, p)]
           items == {p \in Slot : Pulls(p, seen[p], Hashed(p, blind))}
<1>2. pc = "walk" /\ w' = w /\ UNCHANGED <<due, listed, settled>>
  BY <1>1 DEF saved
<1>3. Stands
  BY <1>2, IInvParts, WordParts, DueFacts DEF Stands, Stays
<1>4. CASE items = {}
  BY <1>1, <1>2, <1>3, <1>4, RestWord DEF Resolving
<1>5. CASE items # {}
  <2>1. /\ todo' = items /\ view' = seen /\ pc' = "check"
        /\ opt' = opt /\ snap' = snap /\ hold' = hold
    BY <1>1, <1>5 DEF Goto
  <2>2. ASSUME NEW p \in Slot
        PROVE  /\ seen[p].id \in ObjId \cup {None} /\ AtHome(w, p, seen[p].id)
               /\ seen[p].id # None => /\ LiveAt(w, p) = {seen[p].id}
                                       /\ seen[p].ver = w.obj[seen[p].id].ver
                                       /\ seen[p].sz = Size[w.obj[seen[p].id].c]
    BY IInvParts, WordParts, OrderedLined, ListingOne
  <2>3. ASSUME NEW p \in items PROVE p \in Slot /\ seen[p].id # None
    BY DEF Pulls, Seen
  <2>4. Held'
    BY <1>2, <2>1, <2>2, WordParts DEF Held, Pushing
  <2>5. Experienced'
    BY <1>2, <2>1, ExperiencedOn DEF Resolving
  <2>6. ASSUME due.orig # None, "orig" \in items
        PROVE  HasChosen(w, seen["orig"].id, due.orig)
    <3> DEFINE row == w.rec.orig
               o   == row.id
               r   == seen["orig"]
    <3>1. /\ Chosen(w, due.orig) /\ ~NoReturn /\ LiveAt(w, "orig") = {o}
          /\ RowSound(w, typed, "orig", row) /\ "orig" \in Slot
          /\ AtHome(w, "orig", o) /\ Weighed(row)
      BY <2>6, DueFacts, IInvParts, WordParts DEF Sound, Ordered, Slot
    <3>2. r.id = o /\ r.ver = w.obj[o].ver /\ r.sz = Size[w.obj[o].c]
      BY <2>2, <2>3, <2>6, <3>1
    <3>3. snap["orig"].mt # None
      BY <1>2, <2>6, WordParts DEF Promised
    <3>4. ~SameRemote(row, r)
      BY <2>6, <3>3 DEF Pulls, Here
    <3>5. w.obj[o].c # due.orig => row.lc = w.obj[o].c /\ row.rver = w.obj[o].ver
      BY <3>1, BaseStands, IInvParts, WordParts DEF Chosen
    <3> HIDE DEF r, row
    <3>6. row.lc # None /\ (row.rsz = None \/ row.rsz = Size[row.lc])
      BY <3>1 DEF Weighed, Chosen, row
    <3>7. w.obj[o].c = due.orig
      BY <3>2, <3>4, <3>5, <3>6 DEF SameRemote
    <3> QED BY <3>2, <3>7 DEF HasChosen, r, row
  <2>7. Promised'
    BY <1>2, <2>1, <2>6, WordParts DEF Promised, Resolving, Pushing
  <2>8. Dropped'
    <3>1. due.copy # None => Vanished(w)
      BY <1>2, DueFacts
    <3>2. due.copy # None => "copy" \notin items
      BY <2>2, <2>3, <3>1 DEF Vanished, Slot
    <3> QED BY <1>2, <2>1, <3>1, <3>2, WordParts DEF Dropped, Resolving, Pushing
  <2> QED BY <1>2, <2>4, <2>5, <2>7, <2>8, WordParts DEF KeepsWord
<1> QED BY <1>4, <1>5

LEMMA PullDue ==
    ASSUME IInv, KeepsWord, pc \in {"check", "fetch", "place"}, NEW p \in todo
    PROVE  /\ p \in Slot /\ (due.copy # None => p = "orig" /\ Vanished(w))
           /\ due.orig # None /\ "orig" \in todo => HasChosen(w, view.orig.id, due.orig)
BY DueFacts, IInvParts, WordParts DEF Dropped, Promised, Slot

LEMMA PullWord == ASSUME IInv, KeepsWord, Pull PROVE KeepsWord'
<1>0. UNCHANGED <<due, listed, settled>>
  BY DEF Pull, StartPull, PlanPull, CheckPull, Fetch, Place, saved
<1>1. CASE StartPull
  BY <1>0, <1>1, StartScanWord DEF StartPull, Begin, Goto
<1>2. CASE PlanPull
  BY <1>2, PlanPullWord
<1>3. ASSUME NEW p \in todo, CheckPull(p) PROVE KeepsWord'
  <2>1. pc = "check" /\ w' = w
    BY <1>3 DEF CheckPull
  <2>2. /\ p \in Slot /\ (due.copy # None => p = "orig" /\ Vanished(w))
        /\ due.orig # None /\ "orig" \in todo => HasChosen(w, view.orig.id, due.orig)
    BY <2>1, PullDue
  <2>3. Stands
    BY <1>0, <2>1, <2>2, IInvParts, WordParts, DueFacts DEF Stands, Stays
  <2>4. CASE AsScanned(p)
    <3>1. /\ hold'.p = p /\ hold'.id = None /\ pc' = "fetch"
          /\ opt' = opt /\ snap' = snap /\ view' = view /\ todo' = todo
      BY <1>3, <2>4 DEF CheckPull, NoHold, Goto
    <3>2. Held'
      BY <2>1, <2>2, <3>1, WordParts DEF Held, AtHome, Pushing
    <3>3. Experienced'
      BY <1>0, <3>1, ExperiencedOn DEF Resolving
    <3>4. Promised'
      BY <1>0, <2>1, <3>1, WordParts DEF Promised, Resolving, Pushing
    <3>5. Dropped'
      BY <1>0, <2>1, <3>1, WordParts DEF Dropped, Resolving, Pushing
    <3> QED BY <2>1, <3>2, <3>3, <3>4, <3>5, WordParts DEF KeepsWord
  <2>5. CASE ~AsScanned(p)
    <3>1. NextItem(p, "check")
      BY <1>3, <2>5 DEF CheckPull
    <3> QED BY <1>0, <2>1, <2>2, <2>3, <3>1, NextItemWord
  <2> QED BY <2>4, <2>5
<1>4. CASE Fetch
  <2> DEFINE p == hold.p
             c == BytesOf(w, view[p].id)
  <2>1. pc = "fetch" /\ p \in todo
    BY <1>4, IInvParts DEF Fetch, Remembered
  <2>2. /\ p \in Slot /\ (due.copy # None => p = "orig" /\ Vanished(w))
        /\ due.orig # None /\ "orig" \in todo => HasChosen(w, view.orig.id, due.orig)
    BY <2>1, PullDue
  <2>3. CASE c # None /\ SizeOf(c) = view[p].sz
    <3>1. /\ hold' = [hold EXCEPT !.c = c] /\ pc' = "place" /\ w' = w
          /\ opt' = opt /\ snap' = snap /\ view' = view /\ todo' = todo
      BY <1>4, <2>3 DEF Fetch, Goto
    <3>2. hold'.p = p /\ hold'.id = hold.id /\ hold'.c = c
      BY <3>1, IInvParts DEF Item
    <3>3. Held'
      BY <2>1, <2>3, <3>1, <3>2, WordParts DEF Held, Pushing
    <3>4. Experienced'
      BY <1>0, <3>1, ExperiencedOn DEF Resolving
    <3>5. due.orig # None /\ p = "orig" => c = due.orig
      BY <2>1, <2>2, DueFacts DEF HasChosen, BytesOf, Chosen
    <3>6. Promised'
      BY <1>0, <2>1, <3>1, <3>2, <3>5, WordParts DEF Promised, Resolving, Pushing
    <3>7. Dropped'
      BY <1>0, <2>1, <3>1, WordParts DEF Dropped, Resolving, Pushing
    <3> QED BY <3>1, <3>3, <3>4, <3>6, <3>7, WordParts DEF KeepsWord
  <2>4. CASE ~(c # None /\ SizeOf(c) = view[p].sz)
    <3>1. ItemFails(p, "check")
      BY <1>4, <2>4 DEF Fetch
    <3> QED BY <1>0, <2>1, <3>1, FailWord
  <2> QED BY <2>3, <2>4
<1>5. CASE Place
  <2> DEFINE p == hold.p
             m == FreshStamp(p)
             c == hold.c
             r == view[p]
  <2>1. pc = "place" /\ p \in todo /\ NextItem(p, "check") /\ m \in Stamp
    <3>1. pc = "place" /\ p \in todo /\ p \in Slot /\ NextItem(p, "check")
      BY <1>5, IInvParts DEF Place, Remembered
    <3>2. FreshStamp("orig") \in Stamp /\ FreshStamp("copy") \in Stamp
      BY <1>5, FreshStamps DEF Place, Roomy
    <3> QED BY <3>1, <3>2 DEF Slot
  <2>2. /\ p \in Slot /\ (due.copy # None => p = "orig" /\ Vanished(w))
        /\ due.orig # None /\ "orig" \in todo => HasChosen(w, view.orig.id, due.orig)
    BY <2>1, PullDue
  <2>3. CASE StillThere(p)
    <3>1. w' = Downloaded(w, p, r, c, m)
      BY <1>5, <2>3 DEF Place
    <3>2. /\ r.id \in ObjId \cup {None} /\ r.ver \in Num /\ r.sz \in Num
          /\ c \in Content /\ r.sz = Size[c] /\ AtHome(w, p, r.id)
      <4>1. r \in Sight /\ c \in Content \cup {None} /\ c # None
        BY <2>1, <2>2, IInvParts DEF Item, TypeOK
      <4>2. SizeOf(c) = r.sz /\ AtHome(w, p, r.id)
        BY <2>1, <2>2, WordParts DEF Held
      <4> QED BY <4>1, <4>2 DEF Sight, SizeOf
    <3>3. due.orig # None /\ p = "orig" => c = due.orig /\ r.id = w.rec.orig.id
                                           /\ w.obj[r.id].c = due.orig
      BY <2>1, <2>2, WordParts DEF Promised, HasChosen
    <3> HIDE DEF p, m, c, r
    <3>4. /\ w' \in World /\ Ordered(w') /\ Stays(w, w') /\ w'.obj = w.obj
          /\ w'.disk[p].c = c /\ w'.rec[p].id = r.id /\ w'.rec[p].lc = c
          /\ \A q \in Slot \ {p} : w'.disk[q] = w.disk[q] /\ Apart(w, w', q)
      BY <2>1, <2>2, <3>1, <3>2, IInvParts, WordParts, DownloadedOrder
    <3>5. ASSUME due.orig # None PROVE Chosen(w', due.orig)
      <4>1. CASE p = "orig"
        BY <3>2, <3>3, <3>4, <3>5, <4>1, NoneAssumption, DueFacts DEF Chosen, LiveIn
      <4>2. CASE p # "orig"
        BY <3>4, <3>5, <4>2, DueFacts, ChosenSame DEF Slot, Apart
      <4> QED BY <4>1, <4>2
    <3>6. due.copy # None => Vanished(w')
      BY <2>2, <3>4 DEF Apart, Vanished, Slot
    <3>7. Stands
      BY <1>0, <3>4, <3>5, <3>6 DEF Stands
    <3>8. p # "orig" /\ "orig" \in todo /\ due.orig # None =>
             HasChosen(w', view.orig.id, due.orig)
      BY <2>2, <3>4 DEF HasChosen, Apart, Slot
    <3> QED BY <1>0, <2>1, <3>7, <3>8, NextItemWord
  <2>4. CASE ~StillThere(p)
    <3>1. w' = w
      BY <1>5, <2>4 DEF Place
    <3>2. Stands
      BY <1>0, <2>2, <3>1, IInvParts, WordParts, DueFacts DEF Stands, Stays
    <3> QED BY <1>0, <2>1, <2>2, <3>1, <3>2, NextItemWord
  <2> QED BY <2>3, <2>4
<1> QED BY <1>1, <1>2, <1>3, <1>4, <1>5 DEF Pull

LEMMA TransferWord == ASSUME IInv, KeepsWord, TransferFails PROVE KeepsWord'
<1>0. UNCHANGED <<due, listed, settled>>
  BY DEF TransferFails, saved
<1>1. CASE pc = "fetch" /\ ItemFails(hold.p, "check")
  BY <1>0, <1>1, IInvParts, FailWord DEF Remembered
<1>2. CASE pc = "again" /\ ItemFails(hold.p, "index")
  BY <1>0, <1>2, IInvParts, FailWord DEF Remembered, Pushing
<1>3. ASSUME NEW p \in todo, pc = "send", ItemFails(p, "send") PROVE KeepsWord'
  BY <1>0, <1>3, FailWord DEF Pushing
<1> QED BY <1>1, <1>2, <1>3 DEF TransferFails

LEMMA MatchWord == ASSUME IInv, KeepsWord, Match PROVE KeepsWord'
<1> DEFINE items == {p \in Slot : Target(p) \/ (Orphan(p) /\ Seen(Listing(w, p)))}
<1>1. pc = "match" /\ w' = w /\ UNCHANGED <<due, listed, settled>>
  BY DEF Match, saved
<1>2. Stands
  BY <1>1, IInvParts, WordParts, DueFacts DEF Stands, Stays
<1>3. CASE items = {}
  <2>1. AtRest
    BY <1>3 DEF Match
  <2> QED BY <1>1, <1>2, <2>1, RestWord DEF Resolving
<1>4. CASE items # {}
  <2>1. /\ todo' = items /\ pc' = "compare" /\ opt' = opt /\ snap' = snap /\ hold' = hold
        /\ view' = [p \in Slot |->
             IF Target(p) THEN [id |-> w.rec[p].id, ver |-> w.rec[p].rver,
                                sz |-> w.rec[p].rsz, c |-> None]
             ELSE Listing(w, p)]
    BY <1>4 DEF Match, Goto
  <2>2. ASSUME NEW p \in Slot PROVE AtHome(w, p, view'[p].id)
    <3>1. AtHome(w, p, w.rec[p].id)
      BY WordParts DEF Ordered
    <3>2. AtHome(w, p, Listing(w, p).id)
      BY IInvParts, WordParts, OrderedLined, ListingOne
    <3> QED BY <2>1, <3>1, <3>2
  <2>3. Held'
    BY <1>1, <2>1, <2>2, WordParts DEF Held, SameStat, Pushing
  <2>4. Experienced'
    BY <1>1, <2>1, ExperiencedOn DEF Resolving
  <2>5. due.orig # None => "orig" \notin items
    BY DueFacts DEF Chosen, Target, Orphan
  <2>6. due.copy # None => Vanished(w) /\ "copy" \notin items
    <3>1. due.copy # None => Vanished(w) /\ snap.copy.mt = None
      BY <1>1, WordParts, DueFacts DEF Dropped
    <3> QED BY <3>1 DEF Target, Orphan, Here
  <2> HIDE DEF items
  <2>7. Promised'
    BY <1>1, <2>1, <2>5, WordParts DEF Promised, Resolving, Pushing
  <2>8. Dropped'
    BY <1>1, <2>1, <2>6, WordParts DEF Dropped, Resolving, Pushing
  <2> QED BY <1>1, <2>3, <2>4, <2>7, <2>8, WordParts DEF KeepsWord
<1> QED BY <1>3, <1>4

(* A file is compared: the row that may be written names the drive's file, *)
(* and no promise was about a file that is compared.                       *)
LEMMA ComparedWord ==
    ASSUME IInv, KeepsWord, NEW p \in todo, NEW rest \in SUBSET todo, Compared(p, rest),
           pc \in {"compare", "verify"}, UNCHANGED <<due, listed, settled>>,
           \/ w' = w
           \/ \E row \in Row : /\ w' = Recorded(w, p, row)
                               /\ AtHome(w, p, row.id) /\ Weighed(row)
    PROVE  KeepsWord'
<1>1. /\ p \in Slot /\ w' \in World /\ Ordered(w') /\ Stays(w, w')
      /\ w'.disk = w.disk /\ w'.obj = w.obj
      /\ \A q \in Slot \ {p} : Apart(w, w', q)
  BY IInvParts, WordParts, RecordedOrder DEF Stays, Apart
<1>2. due.orig # None => Chosen(w', due.orig)
  <2>1. due.orig # None => p # "orig" /\ "orig" \in Slot /\ Chosen(w, due.orig)
    BY WordParts DEF Promised, Slot
  <2> QED BY <1>1, <2>1, ChosenSame DEF Apart
<1>3. due.copy # None => Vanished(w')
  <2>1. due.copy # None => p # "copy" /\ "copy" \in Slot /\ Vanished(w)
    BY DueFacts, WordParts DEF Dropped, Slot
  <2> QED BY <1>1, <2>1 DEF Apart, Vanished
<1>4. Stands
  BY <1>1, <1>2, <1>3 DEF Stands
<1>5. CASE rest = {}
  BY <1>4, <1>5, RestWord DEF Resolving, Compared
<1>6. CASE rest # {}
  <2>1. /\ todo' = rest /\ view' = [view EXCEPT ![p] = NoRemote] /\ hold' = NoHold
        /\ pc' \in {"ask", "compare"} /\ opt' = opt /\ snap' = snap
    BY <1>6 DEF Compared, Goto
  <2>2. \A q \in Slot : AtHome(w', q, view'[q].id)
    BY <1>1, <2>1, HomeOn, IInvParts DEF AtHome, NoRemote
  <2>3. Held'
    BY <1>1, <2>1, <2>2, WordParts DEF Held, AtHome, NoHold, SameStat, Pushing
  <2>4. Experienced'
    BY <2>1, ExperiencedOn DEF Resolving
  <2>5. Promised'
    BY <1>2, <2>1, WordParts DEF Promised, Resolving, Pushing
  <2>6. Dropped'
    BY <1>3, <2>1, WordParts DEF Dropped, Resolving, Pushing, Vanished
  <2> QED BY <1>1, <2>3, <2>4, <2>5, <2>6 DEF KeepsWord
<1> QED BY <1>5, <1>6

LEMMA BaselinedWord ==
    ASSUME IInv, KeepsWord, NEW p \in Slot, pc = "verify", p = hold.p,
           BytesOf(w, view[p].id) = hold.c
    PROVE  /\ Baselined(p, hold.c) \in Row
           /\ AtHome(w, p, Baselined(p, hold.c).id) /\ Weighed(Baselined(p, hold.c))
<1> DEFINE row == Baselined(p, hold.c)
<1>1. hold.c \in Content /\ hold.c # None /\ view[p].id \in ObjId \cup {None}
  BY IInvParts, HeldIds, NoneAssumption DEF Receives
<1>2. row \in Row
  BY <1>1, IInvParts, BaselinedType
<1>3. row.id = view[p].id /\ row.lc = hold.c /\ row.rc = hold.c /\ row.rsz = snap[p].sz
  BY DEF Baselined, RowOf
<1>4. hold.c \in {w.obj[o].c : o \in ObjId}
  BY <1>1 DEF BytesOf, LiveIn
<1>5. ~NoReturn => snap[p].sz = Size[hold.c]
  BY <1>1, <1>4, WordParts DEF Held, SizeOf
<1>6. AtHome(w, p, view[p].id)
  BY WordParts DEF Held
<1> HIDE DEF row
<1> QED BY <1>2, <1>3, <1>5, <1>6 DEF Weighed, row

LEMMA CompareWord ==
    ASSUME IInv, KeepsWord, Firm,
           CompareTarget \/ CompareFails \/ \E p \in Pending : HashTarget(p)
    PROVE  KeepsWord'
<1>1. ASSUME NEW p \in Pending, HashTarget(p) PROVE KeepsWord'
  <2>1. /\ pc = "compare" /\ p \in todo /\ p \in Slot /\ opt # "reconcile size"
        /\ UNCHANGED <<due, listed, settled>>
    BY <1>1, IInvParts DEF HashTarget, Pending, Remembered, Firm, Steady, Compares, saved
  <2>2. CASE Differs(p) \/ Failed(p)
    BY <2>1, <2>2, ComparedWord DEF Differs, Failed
  <2>3. CASE /\ w.disk[p].c # None
             /\ hold' = [NoHold EXCEPT !.p = p, !.c = w.disk[p].c] /\ Goto("verify")
             /\ UNCHANGED <<w, opt, snap, view, todo>>
    <3>1. /\ hold'.p = p /\ hold'.c = w.disk[p].c /\ hold'.id = None /\ pc' = "verify"
          /\ w' = w /\ snap' = snap /\ view' = view /\ todo' = todo
      BY <2>3 DEF NoHold, Goto
    <3>2. ~NoReturn => \/ SizeOf(w.disk[p].c) = snap[p].sz
                       \/ w.disk[p].c \notin {w.obj[o].c : o \in ObjId}
      BY <2>1, <2>3, WordParts DEF Held, SameStat
    <3>3. Held'
      <4>1. AtHome(w, p, None)
        BY DEF AtHome
      <4>2. pc' = "verify" /\ ~NoReturn => \A q \in Slot :
               \/ w'.disk[q].c = None \/ SameStat(w', q, snap'[q])
               \/ w'.disk[q].c \notin {w'.obj[o].c : o \in ObjId}
        BY <2>1, <3>1, WordParts DEF Held
      <4> QED BY <3>1, <3>2, <4>1, <4>2, WordParts DEF Held, Pushing
    <3>4. Experienced'
      BY <2>1, <3>1, ExperiencedOn DEF Resolving
    <3>5. Promised'
      BY <2>1, <3>1, WordParts DEF Promised, Resolving, Pushing
    <3>6. Dropped'
      BY <2>1, <3>1, WordParts DEF Dropped, Resolving, Pushing
    <3> QED BY <3>1, <3>3, <3>4, <3>5, <3>6, WordParts DEF KeepsWord
  <2> QED BY <1>1, <2>1, <2>2, <2>3 DEF HashTarget, BySize
<1>2. CASE CompareTarget
  <2>1. /\ pc = "verify" /\ hold.p \in todo /\ hold.p \in Slot
        /\ UNCHANGED <<due, listed, settled>>
    BY <1>2, IInvParts DEF CompareTarget, Remembered, saved
  <2>2. CASE Differs(hold.p) \/ Failed(hold.p)
    BY <2>1, <2>2, ComparedWord DEF Differs, Failed
  <2>3. CASE Same(hold.p, hold.c) /\ BytesOf(w, view[hold.p].id) = hold.c
    <3>1. \E row \in Row : /\ w' = Recorded(w, hold.p, row)
                           /\ AtHome(w, hold.p, row.id) /\ Weighed(row)
      BY <2>1, <2>3, BaselinedWord DEF Same
    <3>2. Compared(hold.p, todo \ {hold.p})
      BY <2>3 DEF Same
    <3> QED BY <2>1, <3>1, <3>2, ComparedWord
  <2> QED BY <1>2, <2>2, <2>3 DEF CompareTarget
<1>3. CASE CompareFails
  <2>1. PICK p \in todo : /\ Failed(p) /\ pc \in {"compare", "verify"}
                          /\ UNCHANGED <<due, listed, settled>>
    BY <1>3, IInvParts DEF CompareFails, Pending, Remembered, saved
  <2> QED BY <2>1, ComparedWord DEF Failed
<1> QED BY <1>1, <1>2, <1>3

LEMMA ReconcileWord == ASSUME IInv, KeepsWord, Firm, Reconcile PROVE KeepsWord'
<1>1. CASE StartReconcile
  BY <1>1, StartScanWord DEF StartReconcile, Begin, Goto, saved
<1>2. ASSUME NEW p \in todo, AskRemote(p) PROVE KeepsWord'
  <2>1. /\ NextItem(p, "ask") /\ p \in Slot /\ pc = "ask" /\ due' = NothingDue
        /\ w' = w \/ w' = SetAside(w, p)
        /\ listed' = listed /\ settled' = settled
    BY <1>2, IInvParts DEF AskRemote, saved
  <2>2. w' \in World /\ Ordered(w') /\ Stays(w, w')
    <3>1. Stays(w, w)
      BY DEF Stays
    <3> QED BY <2>1, <3>1, IInvParts, WordParts, SetAsideOrder
  <2>3. Stands
    BY <2>1, <2>2, NothingIs DEF Stands
  <2> QED BY <2>1, <2>3, NextItemWord
<1>3. ASSUME NEW p \in todo, AskSkip(p) PROVE KeepsWord'
  <2>1. NextItem(p, "ask") /\ pc = "ask" /\ w' = w /\ UNCHANGED <<due, listed, settled>>
    BY <1>3 DEF AskSkip, saved
  <2>2. Stands
    BY <2>1, IInvParts, WordParts, DueFacts DEF Stands, Stays
  <2> QED BY <2>1, <2>2, NextItemWord
<1> QED BY <1>1, <1>2, <1>3, MatchWord, CompareWord DEF Reconcile

LEMMA RestHeld ==
    ASSUME AtRest
    PROVE  Held' /\ pc' = "idle" /\ todo' = {}
BY DEF AtRest, NoHold, NoSight, NoRemote, Held, AtHome, Pushing

LEMMA NothingWord ==
    ASSUME w' \in World, Ordered(w'), Held', due' = NothingDue,
           listed' \/ pc' \in Resolving => settled'
    PROVE  KeepsWord'
BY NothingIs DEF KeepsWord, Experienced, Promised, Dropped

(* While a conflict is resolved nothing of the file itself is promised.    *)
LEMMA ResolvingDue ==
    ASSUME KeepsWord, pc \in Resolving
    PROVE  /\ due.orig = None /\ settled
           /\ due.copy # None => w.rec.copy = NoRow /\ LiveAt(w, "copy") = {}
BY WordParts DEF Promised, Experienced, Dropped

LEMMA DropWord == ASSUME IInv, KeepsWord, DropRemoteCopy PROVE KeepsWord'
<1>1. PICK ok \in BOOLEAN :
         LET row  == w.rec.copy
             gone == IF ok /\ row.id # None THEN Trashed(w, row.id) ELSE w
         IN  /\ pc = "drop" /\ Goto("bin")
             /\ w' = Recorded(gone, "copy", NoRow)
             /\ due' = [NothingDue EXCEPT !.copy = IF LiveAt(w', "copy") = {}
                                                THEN w.disk.copy.c ELSE None]
             /\ UNCHANGED <<saved, opt, snap, view, todo, hold>>
  BY DEF DropRemoteCopy
<1> DEFINE gone == IF ok /\ w.rec.copy.id # None THEN Trashed(w, w.rec.copy.id) ELSE w
<1>2. w.rec.copy.id \in ObjId \cup {None} /\ AtHome(w, "copy", w.rec.copy.id)
      /\ "copy" \in Slot
  BY IInvParts, RowIds, WordParts DEF Ordered, Slot
<1>3. gone \in World /\ Ordered(gone) /\ Stays(w, gone)
  <2>1. gone = w \/ gone = Trashed(w, w.rec.copy.id)
    OBVIOUS
  <2>2. Stays(w, w)
    BY DEF Stays
  <2> HIDE DEF gone
  <2> QED BY <1>2, <2>1, <2>2, IInvParts, WordParts, TrashedOrder
<1>4. w' = Recorded(gone, "copy", NoRow)
  BY <1>1
<1> HIDE DEF gone
<1>5. w' \in World /\ Ordered(w') /\ Stays(gone, w') /\ w'.rec["copy"] = NoRow
  BY <1>2, <1>3, <1>4, NoRowType, NoRowFits, RecordedOrder
<1>6. Stays(w, w')
  BY <1>3, <1>5, StaysOn
<1>7. /\ pc = "drop" /\ pc' = "bin" /\ opt' = opt /\ snap' = snap /\ view' = view
      /\ todo' = todo /\ hold' = hold /\ listed' = listed /\ settled' = settled
  BY <1>1 DEF Goto, saved
<1>8. due'.orig = None /\ (due'.copy # None => LiveAt(w', "copy") = {})
  BY <1>1 DEF NothingDue
<1>9. Held'
  BY <1>6, <1>7, HomeOn DEF Held, Pushing
<1>10. Experienced'
  BY <1>7, ResolvingDue DEF Experienced, Resolving
<1>11. Promised'
  BY <1>8 DEF Promised
<1>12. Dropped'
  BY <1>5, <1>7, <1>8 DEF Dropped, Resolving, Pushing
<1> QED BY <1>5, <1>9, <1>10, <1>11, <1>12 DEF KeepsWord

LEMMA ChoiceWord == ASSUME IInv, KeepsWord, RecordChoice PROVE KeepsWord'
<1> DEFINE old == w.rec.orig
           row == Restored(old)
<1>1. /\ w' = Recorded(w, "orig", row) /\ AtRest /\ pc = "row" /\ "orig" \in Slot
      /\ listed' = FALSE /\ settled' = settled
  BY DEF RecordChoice, Closed, Slot
<1>2. old \in Row /\ AtHome(w, "orig", old.id) /\ Weighed(old) /\ ~NoReturn
  <2>1. opt \in Options /\ opt = "local"
    BY <1>1, IInvParts DEF Remembered
  <2> QED BY <1>1, <2>1, IInvParts, WordParts DEF Ordered, NoReturn
<1>3. row \in Row
  BY <1>2 DEF Restored, Row, Num, Status
<1>4. /\ row.id = old.id /\ row.rver = old.rver /\ row.lc = old.lc /\ row.lmt = None
      /\ row.rc = old.rc /\ row.rsz = old.rsz
  BY <1>2 DEF Restored, Row
<1> HIDE DEF row
<1>5. Weighed(row)
  BY <1>2, <1>4 DEF Weighed
<1>6. /\ w' \in World /\ Ordered(w') /\ Stays(w, w')
      /\ w'.disk = w.disk /\ w'.obj = w.obj /\ w'.rec["orig"] = row
      /\ \A q \in Slot \ {"orig"} : Apart(w, w', q)
  BY <1>1, <1>2, <1>3, <1>4, <1>5, IInvParts, WordParts, RecordedOrder
<1>7. due.copy # None => Vanished(w')
  <2>1. due.copy # None => Vanished(w)
    BY <1>1, DueFacts
  <2> QED BY <1>6, <2>1 DEF Apart, Vanished, Slot
<1>8. /\ due'.orig # None => Owes(old) /\ due'.orig = w.disk.orig.c
      /\ due'.copy # None => due'.copy = due.copy
  <2>1. due \in Due
    BY IInvParts DEF TypeOK
  <2>2. CASE Owes(old)
    BY <2>1, <2>2, ResolvingDue DEF RecordChoice, Due
  <2>3. CASE ~Owes(old)
    BY <2>3, NothingIs DEF RecordChoice
  <2> QED BY <2>2, <2>3
<1>9. due'.orig # None => Chosen(w', due'.orig)
  BY <1>4, <1>6, <1>8 DEF Owes, Chosen, LiveIn
<1>10. Held' /\ pc' = "idle"
  BY <1>1, RestHeld
<1>11. Experienced'
  BY <1>1, ResolvingDue DEF Experienced, Resolving
<1>12. Promised'
  BY <1>1, <1>2, <1>9, <1>10 DEF Promised, Resolving, Pushing
<1>13. Dropped'
  BY <1>1, <1>7, <1>8, <1>10 DEF Dropped, Resolving, Pushing, Vanished
<1> QED BY <1>6, <1>10, <1>11, <1>12, <1>13 DEF KeepsWord

LEMMA ResolveWord == ASSUME IInv, KeepsWord, Resolve PROVE KeepsWord'
<1>1. CASE ResolveBoth
  <2>1. /\ pc = "idle" /\ listed /\ listed' = FALSE /\ settled' = settled
        /\ w' = w /\ due' = due
        /\ pc' = pc /\ opt' = opt /\ snap' = snap /\ view' = view /\ todo' = todo
        /\ hold' = hold
    BY <1>1 DEF ResolveBoth, Closed, volat
  <2>2. due.orig = None /\ due.copy = None
    BY <2>1, WordParts DEF Promised, Dropped, Resolving
  <2>3. Held'
    BY <2>1, WordParts DEF Held, Pushing
  <2>4. Experienced'
    BY <2>1, WordParts DEF Experienced
  <2> QED BY <2>1, <2>2, <2>3, <2>4, WordParts DEF KeepsWord, Promised, Dropped
<1>2. CASE StartResolve
  <2>1. /\ pc = "idle" /\ listed /\ listed' = listed /\ settled' = settled
        /\ w' = w /\ due' = due /\ pc' = "drop"
        /\ snap' = snap /\ view' = view /\ todo' = todo /\ hold' = hold
    BY <1>2 DEF StartResolve, Begin, Goto, saved
  <2>2. due.orig = None /\ due.copy = None
    BY <2>1, WordParts DEF Promised, Dropped, Resolving
  <2>3. Held'
    BY <2>1, WordParts DEF Held, Pushing
  <2>4. Experienced'
    BY <2>1, WordParts DEF Experienced
  <2> QED BY <2>1, <2>2, <2>3, <2>4, WordParts DEF KeepsWord, Promised, Dropped
<1>3. CASE DropRemoteCopy
  BY <1>3, DropWord
<1>4. CASE BinCopy
  <2>1. /\ w' = Binned(w, "copy") /\ AtRest /\ "copy" \in Slot /\ pc = "bin"
        /\ listed' = FALSE /\ settled' = settled /\ due' = due
    BY <1>4 DEF BinCopy, Closed, Slot
  <2>2. /\ w' \in World /\ Ordered(w') /\ w'.rec = w.rec /\ w'.obj = w.obj
        /\ w'.disk["copy"] = NoFile
    BY <2>1, IInvParts, WordParts, BinnedOrder
  <2>3. due.orig = None /\ settled /\ (due.copy # None => Vanished(w'))
    BY <2>1, <2>2, ResolvingDue DEF Resolving, Vanished, LiveAt
  <2>4. Held' /\ pc' = "idle"
    BY <2>1, RestHeld
  <2>5. Experienced' /\ Promised'
    BY <2>1, <2>3 DEF Experienced, Promised
  <2>6. Dropped'
    BY <2>1, <2>3, <2>4 DEF Dropped, Resolving, Pushing, Vanished
  <2> QED BY <2>2, <2>4, <2>5, <2>6 DEF KeepsWord
<1>5. CASE BinOriginal
  <2>1. /\ w' = Binned(w, "orig") /\ "orig" \in Slot /\ pc = "bin" /\ pc' = "back"
        /\ UNCHANGED <<due, listed, settled>>
        /\ opt' = opt /\ snap' = snap /\ view' = view /\ todo' = todo /\ hold' = hold
    BY <1>5 DEF BinOriginal, Goto, Slot, saved
  <2>2. /\ w' \in World /\ Ordered(w') /\ Stays(w, w') /\ w'.rec = w.rec /\ w'.obj = w.obj
    BY <2>1, IInvParts, WordParts, BinnedOrder
  <2>3. /\ due.orig = None
        /\ due.copy # None => w'.rec.copy = NoRow /\ LiveAt(w', "copy") = {}
    BY <2>1, <2>2, ResolvingDue DEF Resolving, LiveAt
  <2>4. Held'
    BY <2>1, <2>2, HomeOn DEF Held, Pushing
  <2>5. Experienced' /\ Promised'
    BY <2>1, <2>3, ResolvingDue DEF Experienced, Promised, Resolving
  <2>6. Dropped'
    BY <2>1, <2>3 DEF Dropped, Resolving, Pushing
  <2> QED BY <2>2, <2>4, <2>5, <2>6 DEF KeepsWord
<1>6. CASE BringBack
  <2>1. pc = "back" /\ listed' = listed /\ settled' = settled /\ settled
    BY <1>6, ResolvingDue DEF BringBack, saved, Resolving
  <2>2. CASE w.disk.copy.c = None
    <3>1. AtRest /\ w' = w /\ due' = NothingDue
      BY <1>6, <2>2 DEF BringBack
    <3> QED BY <2>1, <3>1, RestHeld, NothingWord, IInvParts, WordParts
  <2>3. CASE w.disk.copy.c # None
    <3>1. /\ w' = [w EXCEPT !.disk.orig = w.disk.copy, !.disk.copy = NoFile]
          /\ pc' = "row" /\ due' = due /\ opt' = opt /\ snap' = snap /\ view' = view
          /\ todo' = todo /\ hold' = hold
      BY <1>6, <2>3 DEF BringBack, Goto
    <3>2. /\ w' \in World /\ w'.disk.copy = NoFile
          /\ w'.rec = w.rec /\ w'.obj = w.obj /\ w'.shown = w.shown
      BY <3>1, IInvParts, BackType
    <3>3. Ordered(w') /\ Stays(w, w')
      BY <3>2, IInvParts, WordParts, SameDrive
    <3>4. due.orig = None /\ (due.copy # None => Vanished(w'))
      BY <2>1, <3>2, ResolvingDue DEF Resolving, Vanished, LiveAt
    <3>5. Held'
      BY <3>1, <3>3, HomeOn DEF Held, Pushing
    <3>6. Experienced' /\ Promised'
      BY <2>1, <3>1, <3>4 DEF Experienced, Promised
    <3>7. Dropped'
      BY <3>1, <3>4 DEF Dropped, Resolving, Pushing, Vanished
    <3> QED BY <3>2, <3>3, <3>5, <3>6, <3>7 DEF KeepsWord
  <2> QED BY <2>2, <2>3
<1>7. CASE RecordChoice
  BY <1>7, ChoiceWord
<1>8. CASE BinRefuses
  <2>1. AtRest /\ w' = w /\ due' = NothingDue /\ settled' = settled /\ pc = "bin"
    BY <1>8 DEF BinRefuses, saved
  <2>2. settled
    BY <2>1, ResolvingDue DEF Resolving
  <2> QED BY <2>1, <2>2, RestHeld, NothingWord, IInvParts, WordParts
<1> QED BY <1>1, <1>2, <1>3, <1>4, <1>5, <1>6, <1>7, <1>8 DEF Resolve

LEMMA InitWord == ASSUME IInv, KeepsWord, Firm, InitSteps PROVE KeepsWord'
<1>1. CASE StartInit
  <2>1. PICK o \in {"init", "init force"} :
           /\ o = "init" => ~settled
           /\ o \in Options /\ pc' = "rows" /\ w' = w /\ pc = "idle"
           /\ view' = [p \in Slot |-> Listing(w, p)]
           /\ todo' = todo /\ hold' = hold /\ due' = due
           /\ listed' = listed /\ settled' = settled
    BY <1>1 DEF StartInit, Begin, Goto, saved
  <2>2. ~settled
    BY <2>1 DEF Firm, Steady, Compares
  <2>3. ~listed /\ due = NothingDue
    BY <2>2, WordParts DEF Experienced
  <2>4. \A p \in Slot : AtHome(w, p, view'[p].id)
    BY <2>1, IInvParts, WordParts, OrderedLined, ListingOne
  <2>5. Held'
    BY <2>1, <2>4, WordParts DEF Held, Pushing
  <2> QED BY <2>1, <2>3, <2>5, NothingWord, IInvParts, WordParts DEF Resolving
<1>2. CASE InitRows
  <2> DEFINE rows == [p \in Slot |-> IF Seen(view[p]) THEN Enrolled(p) ELSE w.rec[p]]
  <2>1. /\ pc = "rows" /\ pc' = "tip" /\ w' = [w EXCEPT !.rec = rows]
        /\ UNCHANGED <<due, listed, settled>>
        /\ opt' = opt /\ snap' = snap /\ view' = view /\ todo' = todo /\ hold' = hold
    BY <1>2 DEF InitRows, Goto, saved
  <2>2. due.orig = None /\ due.copy = None
    BY <2>1, WordParts DEF Promised, Dropped
  <2>3. ASSUME NEW p \in Slot
        PROVE  Enrolled(p) \in Row /\ AtHome(w, p, Enrolled(p).id) /\ Weighed(Enrolled(p))
    <3>1. snap[p].c = None /\ AtHome(w, p, view[p].id) /\ view[p] \in Sight
      BY <2>1, IInvParts, WordParts DEF Remembered, Held
    <3>2. Enrolled(p) = RowOf(view[p].id, None, None, None, view[p].ver, view[p].sz,
                              "pending_download")
      BY <3>1 DEF Enrolled
    <3>3. Enrolled(p) \in Row
      BY <3>1, <3>2 DEF RowOf, Row, Sight, Num, Status
    <3>4. Enrolled(p).id = view[p].id /\ Enrolled(p).lc = None
      BY <3>2 DEF RowOf
    <3> QED BY <3>1, <3>3, <3>4 DEF Weighed
  <2>4. ASSUME NEW p \in Slot
        PROVE  /\ rows[p] \in Row
               /\ rows[p] = w.rec[p] \/ (AtHome(w, p, rows[p].id) /\ Weighed(rows[p]))
    BY <2>3, <2>4, IInvParts
  <2>5. rows \in [Slot -> Row]
    BY <2>4
  <2> HIDE DEF rows
  <2>6. w' \in World /\ w'.rec = rows /\ w'.obj = w.obj /\ w'.shown = w.shown
    BY <2>1, <2>5, IInvParts, RowsIs
  <2>7. Ordered(w') /\ Stays(w, w')
    BY <2>4, <2>6, IInvParts, WordParts, SameDrive
  <2>8. Held'
    BY <2>1, <2>7, HomeOn DEF Held, Pushing
  <2>9. Experienced'
    BY <2>1, ExperiencedOn DEF Resolving
  <2> QED BY <2>1, <2>2, <2>6, <2>7, <2>8, <2>9 DEF KeepsWord, Promised, Dropped
<1>3. CASE InitTip
  <2>1. pc = "tip" /\ w' = w /\ AtRest /\ UNCHANGED <<due, listed, settled>>
    BY <1>3 DEF InitTip
  <2>2. Stands
    BY <2>1, IInvParts, WordParts, DueFacts DEF Stands, Stays
  <2> QED BY <2>1, <2>2, RestWord DEF Resolving
<1> QED BY <1>1, <1>2, <1>3 DEF InitSteps

(* What others do ends every promise.                                      *)
LEMMA OthersWord ==
    ASSUME IInv, KeepsWord, w' \in World, Ordered(w'), Stays(w, w'),
           due' = NothingDue, UNCHANGED <<volat, saved>>,
           pc \in {"plan", "match", "compare", "verify"} /\ ~NoReturn => \A p \in Slot :
              \/ w'.disk[p].c = None \/ w'.disk[p] = w.disk[p]
              \/ pc # "plan" /\ w'.disk[p].c \notin {w.obj[o].c : o \in ObjId},
           \A p \in Slot : w'.disk[p].c # None =>
              {w'.obj[o].c : o \in ObjId}
                 \subseteq {w.obj[o].c : o \in ObjId} \cup {x \in Content : x # w'.disk[p].c},
           \A c \in typed : (\E o \in ObjId : w'.obj[o].c = c)
                               => \E o \in ObjId : w.obj[o].c = c
    PROVE  KeepsWord'
<1>1. /\ pc' = pc /\ opt' = opt /\ snap' = snap /\ view' = view /\ todo' = todo
      /\ hold' = hold /\ listed' = listed /\ settled' = settled
  BY DEF volat, saved
<1>2. /\ \A p \in Slot : AtHome(w', p, view[p].id)
      /\ AtHome(w', hold.p, hold.id)
  BY HomeOn
<1>3. ASSUME pc \in {"plan", "match", "compare", "verify"}, ~NoReturn, NEW p \in Slot
      PROVE  \/ w'.disk[p].c = None \/ SameStat(w', p, snap[p])
             \/ pc # "plan" /\ w'.disk[p].c \notin {w'.obj[o].c : o \in ObjId}
  <2>1. \/ w.disk[p].c = None \/ SameStat(w, p, snap[p])
        \/ pc # "plan" /\ w.disk[p].c \notin {w.obj[o].c : o \in ObjId}
    BY <1>3, WordParts DEF Held
  <2>2. w'.disk[p] = w.disk[p] => (SameStat(w', p, snap[p]) <=> SameStat(w, p, snap[p]))
    BY DEF SameStat
  <2>3. \/ w'.disk[p].c = None \/ w'.disk[p] = w.disk[p]
        \/ pc # "plan" /\ w'.disk[p].c \notin {w.obj[o].c : o \in ObjId}
    BY <1>3
  <2>4. w'.disk[p].c # None =>
           {w'.obj[o].c : o \in ObjId}
              \subseteq {w.obj[o].c : o \in ObjId} \cup {x \in Content : x # w'.disk[p].c}
    OBVIOUS
  <2> DEFINE had == {w.obj[o].c : o \in ObjId}
             has == {w'.obj[o].c : o \in ObjId}
  <2>5. w'.disk[p].c # None /\ w'.disk[p].c \notin had => w'.disk[p].c \notin has
    BY <2>4
  <2> HIDE DEF had, has
  <2>6. CASE w'.disk[p] = w.disk[p]
    BY <2>1, <2>2, <2>5, <2>6 DEF had, has
  <2>7. CASE w'.disk[p] # w.disk[p]
    BY <2>3, <2>5, <2>7 DEF had, has
  <2> QED BY <2>6, <2>7
<1>4. pc = "verify" /\ ~NoReturn => \/ SizeOf(hold.c) = snap[hold.p].sz
                                    \/ hold.c \notin {w'.obj[o].c : o \in ObjId}
  <2>1. pc = "verify" => hold.c \in typed
    BY IInvParts DEF Receives
  <2> QED BY <2>1, WordParts DEF Held
<1>5. Held'
  BY <1>1, <1>2, <1>3, <1>4, WordParts DEF Held, Pushing
<1>6. listed' \/ pc' \in Resolving => settled'
  BY <1>1, WordParts DEF Experienced
<1> QED BY <1>5, <1>6, NothingWord

LEMMA EnvWord == ASSUME IInv, KeepsWord, Firm, Env PROVE KeepsWord'
<1>1. /\ DriveSound(w, typed) /\ FilesSound(w, typed) /\ None \notin Content
      /\ typed \subseteq Content
  BY IInvParts, NoneAssumption DEF Sound
<1>2. CASE Save
  <2>1. PICK c \in Content \ typed :
           /\ pc \in SavePoints /\ Roomy /\ UNCHANGED <<volat, saved>> /\ due' = NothingDue
           /\ w' = [w EXCEPT !.disk.orig = [c |-> c, mt |-> FreshStamp("orig")]]
    BY <1>2 DEF Save, Act
  <2>2. FreshStamp("orig") \in Stamp
    BY <2>1, FreshStamps DEF Roomy
  <2> DEFINE m == FreshStamp("orig")
  <2>3. /\ w' \in World /\ w'.disk.orig.c = c /\ w'.disk.copy = w.disk.copy
        /\ w'.rec = w.rec /\ w'.obj = w.obj /\ w'.shown = w.shown
    <3>1. w' = [w EXCEPT !.disk.orig = [c |-> c, mt |-> m]] /\ m \in Stamp
      BY <2>1, <2>2
    <3> HIDE DEF m
    <3>2. /\ w' \in World /\ w'.disk.orig = [c |-> c, mt |-> m]
          /\ w'.disk.copy = w.disk.copy
          /\ <<w'.bin, w'.aside, w'.rec, w'.obj, w'.rev, w'.shown>>
                = <<w.bin, w.aside, w.rec, w.obj, w.rev, w.shown>>
      BY <3>1, IInvParts, SavedIs
    <3> QED BY <3>2
  <2>4. Ordered(w') /\ Stays(w, w')
    BY <2>3, IInvParts, WordParts, SameDrive
  <2>5. ~NoReturn => pc # "plan"
    BY <2>1 DEF Firm
  <2>6. c \notin {w.obj[o].c : o \in ObjId}
    BY <1>1, <2>1 DEF DriveSound
  <2> QED BY <2>1, <2>3, <2>4, <2>5, <2>6, OthersWord DEF Slot
<1>3. CASE Delete
  <2>1. PICK p \in Slot :
           w' = Binned(w, p) /\ UNCHANGED <<volat, saved>> /\ due' = NothingDue
    BY <1>3 DEF Delete, Act
  <2>2. /\ w' \in World /\ Ordered(w') /\ Stays(w, w') /\ w'.obj = w.obj
        /\ w'.disk[p] = NoFile /\ \A q \in Slot \ {p} : w'.disk[q] = w.disk[q]
    BY <2>1, IInvParts, WordParts, BinnedOrder
  <2>3. \A q \in Slot : w'.disk[q].c = None \/ w'.disk[q] = w.disk[q]
    BY <2>2, NoFileType
  <2> QED BY <2>1, <2>2, <2>3, OthersWord
<1>4. CASE OtherWrites
  <2>1. PICK c \in Content \ typed :
           /\ Roomy /\ UNCHANGED <<volat, saved>> /\ due' = NothingDue
           /\ w' = IF LiveAt(w, "orig") = {} THEN NewFile(w, "orig", c)
                   ELSE NewVersion(w, Listing(w, "orig").id, c)
    BY <1>4 DEF OtherWrites, Act
  <2>2. PICK o \in ObjId, v \in Nat :
           /\ w' = Stored(w, o, "orig", v, c)
           /\ \/ /\ w.obj[o].st = "live" /\ w.obj[o].at = "orig" /\ v = w.obj[o].ver + 1
              \/ w.obj[o].st = "none" /\ LiveAt(w, "orig") = {}
    <3>1. CASE LiveAt(w, "orig") = {}
      <4>1. MayPost(w)
        BY <2>1, SeveralLeft, SomeAssumption DEF Roomy, Vacant
      <4>2. Fresh(w) \in ObjId /\ w.obj[Fresh(w)].st = "none" /\ 0 \in Nat
        BY <4>1, FreshIs
      <4> QED BY <2>1, <3>1, <4>2 DEF NewFile
    <3>2. CASE LiveAt(w, "orig") # {}
      <4> DEFINE x == Listing(w, "orig").id
      <4>1. x \in LiveAt(w, "orig") /\ w \in World
        BY <3>2, IInvParts, ListingIs DEF Slot
      <4>2. x \in ObjId /\ w.obj[x].st = "live" /\ w.obj[x].at = "orig"
        BY <4>1 DEF LiveAt
      <4>3. w.obj[x].ver + 1 \in Nat
        BY <4>1, <4>2, RowIds
      <4>4. w' = Stored(w, x, "orig", w.obj[x].ver + 1, c)
        BY <2>1, <3>2, <4>2 DEF NewVersion
      <4> HIDE DEF x
      <4> QED BY <4>2, <4>3, <4>4
    <3> QED BY <3>1, <3>2
  <2>3. w \in World /\ Lined(w) /\ Ordered(w) /\ "orig" \in Slot
    BY IInvParts, WordParts, OrderedLined DEF Slot
  <2>4. /\ w' \in World /\ Lined(w') /\ Stays(w, w') /\ w'.disk = w.disk /\ w'.rec = w.rec
        /\ w'.obj[o].c = c /\ \A x \in ObjId \ {o} : w'.obj[x] = w.obj[x]
    BY <2>2, <2>3, LinedStored
  <2>5. Ordered(w')
    BY <2>3, <2>4, OrderedBy
  <2>6. {w'.obj[x].c : x \in ObjId} \subseteq {w.obj[x].c : x \in ObjId} \cup {c}
    BY <2>4
  <2>7. \A p \in Slot : w'.disk[p].c # c
    BY <1>1, <2>1, <2>4 DEF FilesSound
  <2>8. ASSUME NEW x \in typed, \E y \in ObjId : w'.obj[y].c = x
        PROVE  \E y \in ObjId : w.obj[y].c = x
    BY <2>1, <2>4, <2>8
  <2> QED BY <2>1, <2>4, <2>5, <2>6, <2>7, <2>8, OthersWord
<1>5. CASE OtherTrashes
  <2>1. PICK p \in Slot :
           /\ w' = Trashed(w, Listing(w, p).id)
           /\ UNCHANGED <<volat, saved>> /\ due' = NothingDue
    BY <1>5 DEF OtherTrashes, Act
  <2>2. Listing(w, p).id \in ObjId \cup {None} /\ AtHome(w, p, Listing(w, p).id)
    BY IInvParts, WordParts, OrderedLined, ListingOne
  <2>3. /\ w' \in World /\ Ordered(w') /\ Stays(w, w') /\ w'.disk = w.disk
        /\ \A x \in ObjId : w'.obj[x].c = w.obj[x].c
    BY <2>1, <2>2, IInvParts, WordParts, TrashedOrder
  <2>4. {w'.obj[o].c : o \in ObjId} = {w.obj[o].c : o \in ObjId}
    BY <2>3
  <2> QED BY <2>1, <2>3, <2>4, OthersWord
<1>6. CASE Crash
  <2>1. w' = w /\ AtRest /\ due' = NothingDue /\ listed' = listed /\ settled' = settled
    BY <1>6 DEF Crash, Act, saved
  <2>2. listed => settled
    BY WordParts DEF Experienced
  <2>3. pc' = "idle" /\ Held'
    BY <2>1, RestHeld
  <2> QED BY <2>1, <2>2, <2>3, NothingWord, IInvParts, WordParts DEF Resolving
<1> QED BY <1>2, <1>3, <1>4, <1>5, <1>6 DEF Env

LEMMA SyncWord == ASSUME IInv, KeepsWord, Sync PROVE KeepsWord'
<1>1. PICK full \in BOOLEAN, bad \in SUBSET Slot : SyncPass(full, bad)
  BY DEF Sync
<1>2. /\ pc' = pc /\ opt' = opt /\ snap' = snap /\ view' = view /\ todo' = todo
      /\ hold' = hold /\ settled' = TRUE /\ pc \in {"idle", "rows", "tip"}
  BY <1>1 DEF SyncPass, volat
<1>3. /\ w' \in World /\ Ordered(w') /\ Stays(w, w')
      /\ \A c \in Content : Chosen(w, c) /\ ~NoReturn => Chosen(w', c) /\ listed' = listed
      /\ Vanished(w) => (~listed' => Vanished(w'))
  BY <1>1, IInvParts, WordParts, PassStep, PassOrder
<1>4. /\ due'.orig # None => due'.orig = due.orig
      /\ due'.copy # None => due'.copy = due.copy /\ listed' = listed
  <2>1. due' = NothingDue \/ due' = [due EXCEPT !.copy = None] \/ (due' = due /\ listed' = listed)
    BY <1>1 DEF SyncPass
  <2>2. due \in Due
    BY IInvParts DEF TypeOK
  <2> QED BY <2>1, <2>2, NothingIs DEF Due
<1>5. Held'
  BY <1>2, <1>3, HomeOn DEF Held, Pushing
<1>6. Experienced'
  BY <1>2 DEF Experienced
<1>7. Promised'
  <2>1. due.orig # None => /\ due.orig \in Content /\ Chosen(w, due.orig) /\ ~NoReturn
                           /\ ~listed /\ pc = "idle"
    BY <1>2, DueFacts, WordParts DEF Promised
  <2> QED BY <1>2, <1>3, <1>4, <2>1 DEF Promised, Resolving, Pushing
<1>8. Dropped'
  <2>1. due.copy # None => Vanished(w) /\ ~listed /\ pc = "idle"
    BY <1>2, DueFacts, WordParts DEF Dropped, Resolving
  <2> QED BY <1>2, <1>3, <1>4, <2>1 DEF Dropped, Vanished, Resolving, Pushing
<1> QED BY <1>3, <1>5, <1>6, <1>7, <1>8 DEF KeepsWord

LEMMA NextWord == ASSUME IInv, KeepsWord, Firm, [Next]_vars PROVE KeepsWord'
<1>1. CASE UNCHANGED vars
  <2>1. /\ w' = w /\ due' = due /\ listed' = listed /\ settled' = settled /\ pc' = pc
        /\ snap' = snap /\ view' = view /\ todo' = todo /\ hold' = hold
    BY <1>1 DEF vars, saved, volat
  <2> QED BY <2>1, WordParts DEF KeepsWord, Held, Experienced, Promised, Dropped
<1> QED BY <1>1, SyncWord, PushWord, PullWord, ReconcileWord, ResolveWord, InitWord,
           TransferWord, EnvWord DEF Next, CommandSteps

LEMMA BareOrder ==
    ASSUME NEW c \in Content \cup {None}, NEW d \in Content \cup {None}
    PROVE  Ordered(Bare(c, d))
<1> DEFINE new == Bare(c, None)
           t   == Bare(c, d)
<1>1. new \in World /\ t \in World /\ \A p \in Slot : t.rec[p] = NoRow
  BY BareIs
<1>2. new.shown = {} /\ \A o \in ObjId : new.obj[o].st = "none"
  BY DEF Bare, NoObject
<1>3. d # None => t = Stored(new, First, "orig", 0, d)
  BY DEF Bare
<1> HIDE DEF new, t
<1>4. Lined(new)
  BY <1>2 DEF Lined, OneOfAName, InOrder, LiveAt
<1>5. Lined(t)
  <2>1. CASE d = None
    BY <1>4, <2>1 DEF t, new
  <2>2. CASE d # None
    <3>1. First \in ObjId /\ LiveAt(new, "orig") = {} /\ new.obj[First].st = "none"
      BY <1>2, SomeAssumption DEF First, LiveAt
    <3> QED BY <1>1, <1>3, <1>4, <2>2, <3>1, LinedStored DEF Slot
  <2> QED BY <2>1, <2>2
<1> QED BY <1>1, <1>5, NoRowFits DEF Ordered, Lined, t

LEMMA StartWord == ASSUME Init PROVE KeepsWord
<1>1. PICK c \in Content \cup {None}, d \in Content \cup {None} :
         /\ w = Bare(c, d) /\ settled = FALSE /\ listed = FALSE /\ due = NothingDue
         /\ pc = "idle" /\ view = NoSight /\ hold = NoHold /\ todo = {}
  BY StartIs
<1>2. Ordered(w)
  BY <1>1, BareOrder
<1>3. Held
  BY <1>1 DEF Held, AtHome, NoSight, NoRemote, NoHold, Pushing
<1> QED BY <1>1, <1>2, <1>3, NothingIs
        DEF KeepsWord, Experienced, Promised, Dropped, Resolving

(* Only a pass without failures redeems a promise at rest.                 *)
LEMMA PassRedeems ==
    ASSUME IInv, Next, pc = "idle", due # NothingDue, due' = NothingDue, left' = left
    PROVE  \E full \in BOOLEAN : SyncPass(full, {})
<1>1. left \in Nat /\ left' # left - 1
  BY IInvParts, ChoiceAssumption DEF TypeOK
<1>2. ~CommandSteps
  <2>1. ~Push /\ ~Pull
    BY DEF Push, StartPush, PlanPush, LoadIndex, SendAgain, CommitPush, Touch, SendVersion,
           SendNew, PushAnswerLost, Pull, StartPull, PlanPull, Fetch, Place, CheckPull
  <2>2. ~Reconcile /\ ~InitSteps /\ ~TransferFails
    BY DEF Reconcile, StartReconcile, Match, HashTarget, CompareTarget, CompareFails, AskRemote,
         AskSkip, InitSteps,
           StartInit, InitRows, InitTip, TransferFails
  <2>3. ~Resolve
    BY DEF Resolve, ResolveBoth, StartResolve, DropRemoteCopy, BinCopy, BinOriginal,
           BringBack, RecordChoice, BinRefuses
  <2> QED BY <2>1, <2>2, <2>3 DEF CommandSteps
<1>3. ~Env
  BY <1>1 DEF Env, Save, Delete, OtherWrites, OtherTrashes, Crash, Act, Spend
<1>4. PICK full \in BOOLEAN, bad \in SUBSET Slot : SyncPass(full, bad)
  BY <1>2, <1>3 DEF Next, Sync
<1>5. bad = {}
  BY <1>1, <1>4 DEF SyncPass, Spend
<1> QED BY <1>4, <1>5

(* What resolve promised of the next pass is what that pass does, whatever *)
(* else was typed in between: after "local" the drive has the bytes the    *)
(* person chose, and after "local" and "remote" the discarded copy does    *)
(* not come back; what is under its name was put there by a new conflict.  *)
(* Failures of single files only put it off.                               *)
THEOREM ChoicesStand == ASSUME Firm PROVE Spec => ChoiceStands
<1>1. Init => IInv /\ KeepsWord
  BY StartSound, StartWord
<1>2. IInv /\ KeepsWord /\ [Next]_vars => (IInv /\ KeepsWord)'
  BY NextSound, NextWord DEF Firm
<1>3. IInv /\ KeepsWord /\ [Next]_vars =>
         [pc = "idle" /\ due # NothingDue /\ due' = NothingDue /\ left' = left =>
             /\ due.orig # None =>
                  \E o \in LiveAt(w', "orig") : w'.obj[o].c = due.orig
             /\ due.copy # None =>
                  \/ w'.disk.copy = NoFile
                  \/ listed' # listed /\ w'.disk.copy.c = w.disk.orig.c]_vars
  <2> SUFFICES ASSUME IInv, KeepsWord, Next, pc = "idle", due # NothingDue,
                      due' = NothingDue, left' = left
               PROVE  /\ due.orig # None =>
                           \E o \in LiveAt(w', "orig") : w'.obj[o].c = due.orig
                      /\ due.copy # None =>
                           \/ w'.disk.copy = NoFile
                           \/ listed' # listed /\ w'.disk.copy.c = w.disk.orig.c
    BY DEF vars
  <2>1. PICK full \in BOOLEAN : SyncPass(full, {})
    BY PassRedeems
  <2>2. /\ w' \in World /\ Ordered(w')
        /\ \A c \in Content : Chosen(w, c) /\ ~NoReturn =>
              Chosen(w', c) /\ w'.obj[w'.rec.orig.id].c = c
        /\ Vanished(w) => /\ w'.disk.copy.c \in {None, w.disk.orig.c}
                          /\ ~listed' => Vanished(w')
    BY <2>1, IInvParts, WordParts, PassStep, PassOrder
  <2>3. ASSUME due.orig # None PROVE \E o \in LiveAt(w', "orig") : w'.obj[o].c = due.orig
    <3> DEFINE o == w'.rec.orig.id
    <3>1. LiveIn(w', o) /\ w'.obj[o].c = due.orig
      BY <2>2, <2>3, DueFacts DEF Chosen
    <3>2. o \in ObjId \cup {None} /\ AtHome(w', "orig", o)
      BY <2>2, RowIds DEF Ordered, Slot
    <3>3. o \in LiveAt(w', "orig")
      BY <3>1, <3>2 DEF LiveIn, LiveAt, AtHome
    <3> QED BY <3>1, <3>3
  <2>4. ASSUME due.copy # None
        PROVE  \/ w'.disk.copy = NoFile
               \/ listed' # listed /\ w'.disk.copy.c = w.disk.orig.c
    <3>1. Vanished(w) /\ ~listed
      BY <2>4, DueFacts, WordParts DEF Dropped, Resolving
    <3>2. w'.disk.copy \in Disk
      BY <2>2, WorldType DEF Slot
    <3>3. w'.disk.copy.c = None => w'.disk.copy = NoFile
      BY <3>2, DiskType
    <3>4. CASE listed'
      BY <2>2, <3>1, <3>3, <3>4
    <3>5. CASE ~listed'
      BY <2>2, <3>1, <3>5 DEF Vanished
    <3> QED BY <3>4, <3>5
  <2> QED BY <2>3, <2>4
<1> QED BY <1>1, <1>2, <1>3, PTL DEF ChoiceStands, Spec
=============================================================================
