------------------------------ MODULE TreePlan ------------------------------
(***************************************************************************)
(* What a pass over a whole folder decides and in which order it does it:  *)
(* diff with moves and folders (core/differ.py, diff, _remote_move,        *)
(* _detect_local_moves, _decide_dir) and the plan (core/planner.py, with   *)
(* the unattended gates of cli/main.py).  Pure operators; TreeSync.tla     *)
(* runs them.                                                              *)
(*                                                                         *)
(* A path is the sequence of its names.  The argument look is what a pass  *)
(* knows when it compares:                                                 *)
(*   rows     the base: [id, lc, ver, rc, st] of each path                 *)
(*   snap     the scan: the content of each path, Folder, or None          *)
(*   ent      the remote view: [id, ver, c] of each path                   *)
(*   del, out paths seen deleted, or moved out of the synced folder        *)
(*   whole    is the view a full walk?                                     *)
(*   unread   files whose bytes cannot be read                             *)
(*   unobs    paths the scan had to skip                                   *)
(* The sizes of different contents differ here (FileSync has equal ones),  *)
(* so a size, a time and an MD5 tell the same: the content.                *)
(***************************************************************************)
EXTENDS Differ, FiniteSets, FiniteSetsExt, SequencesExt

CONSTANTS
    FilePath,       \* paths that can hold a file
    DirPath,        \* paths that can hold a folder
    Folder,         \* what a path with a folder holds
    Limit,          \* bulk_delete_abort_count
    AutoLimit       \* deletions an unattended pass may do

Path == FilePath \cup DirPath

IsDir(p) == p \in DirPath

(* With a path come the folders above it; a name is a folder's or a file's *)
(* wherever it is, and a file may have any name of a file in any folder.   *)
ASSUME PathAssumption ==
    /\ FilePath \cap DirPath = {} /\ IsFiniteSet(Path)
    /\ Path \subseteq Seq(UNION {Range(p) : p \in Path}) \ {<<>>}
    /\ \A p \in Path : \A n \in 1 .. Len(p) - 1 : SubSeq(p, 1, n) \in DirPath
    /\ \A p, q \in Path : Last(p) = Last(q) => (IsDir(p) <=> IsDir(q))
    /\ \A p, q \in FilePath : Front(p) \o <<Last(q)>> \in FilePath
ASSUME LimitsAssumption == Limit \in Nat /\ AutoLimit \in Nat

MoveKinds == {"LOCAL_MOVE", "REMOTE_MOVE"}
DirKinds  == {"MKDIR_LOCAL", "MKDIR_REMOTE"}
Passive   == {"REPORT", "PROTECT"}

Unknown   == [id |-> None, ver |-> None, c |-> None]
Unlisted  == [id |-> None, lc |-> None, ver |-> None, rc |-> None, st |-> "none"]

Under(p, q)  == IsStrictPrefix(q, p)
Within(p, q) == IsPrefix(q, p)

Decision(kind, p, to, e, r, id) ==
    [kind |-> kind, path |-> p, to |-> to, e |-> e, r |-> r, id |-> id]

(* A decision about a path that stays where it is.                         *)
At(look, kind, p) ==
    Decision(kind, p, p, look.snap[p], look.ent[p], look.rows[p].id)
-----------------------------------------------------------------------------
(* Moves on the drive: the object of a row is seen at another path, unless *)
(* a row there has it already.                                             *)
Targets(look, p) == {q \in Path \ {p} :
    /\ look.rows[p].id # None /\ look.ent[q].id = look.rows[p].id
    /\ look.rows[q].id # look.rows[p].id}

MovedRemote(look) == {p \in Path : Targets(look, p) # {}}
Target(look, p)   == CHOOSE q \in Targets(look, p) : TRUE

(* Moves on the disk: exactly one file without a row has the content of    *)
(* exactly one row without a file.                                         *)
GoneFiles(look) == {p \in FilePath \ look.del :
    /\ look.rows[p].id # None /\ look.rows[p].lc # None /\ look.snap[p] = None}

FreshFiles(look) == {q \in FilePath :
    /\ look.snap[q] # None /\ look.rows[q].st = "none" /\ look.ent[q].id = None}

Candidates(look) == {x \in GoneFiles(look) \X FreshFiles(look) :
    /\ look.snap[x[2]] = look.rows[x[1]].lc
    /\ \A q \in FreshFiles(look) \ {x[2]} : look.snap[q] # look.snap[x[2]]
    /\ \A p \in GoneFiles(look) \ {x[1]} : look.rows[p].lc # look.rows[x[1]].lc}

Pairs(look) == {x \in Candidates(look) : x[2] \notin look.unread}

Arrivals(look) == {x[2] : x \in Pairs(look)}
                    \cup {Target(look, p) : p \in MovedRemote(look)}
-----------------------------------------------------------------------------
(* The rows of Differ.                                                     *)
FileRow(w) == [id |-> w.id, lmt |-> w.lc, lsz |-> w.lc, lc |-> w.lc,
               rver |-> w.ver, rsz |-> w.rc, rc |-> None, st |-> w.st]
FileEntry(c)  == [mt |-> c, sz |-> c, c |-> c]
FileRemote(r) == [id |-> r.id, ver |-> r.ver, sz |-> r.c, c |-> None]

Blind(look, p) == \E u \in look.unobs : Within(p, u)
LocalMd5(look, p) == IF p \in look.unread THEN None ELSE look.snap[p]
RemoteNew(look, p, q) ==
    RemoteChanged(FileRow(look.rows[p]), FileRemote(look.ent[q]))

(* The new place of a moved file: received unless a file is there already. *)
FetchAt(look, q) ==
    IF look.snap[q] = None
    THEN {Decision("DOWNLOAD_NEW", q, q, None, look.ent[q], None)}
    ELSE {Decision("REPORT", q, q, look.snap[q], look.ent[q], None)}

(* Row 13: a changed content follows the file to its new place.            *)
MoveThenUpdate(look, p) ==
    LET q == Target(look, p)
    IN  {Decision("LOCAL_MOVE", p, q, look.snap[p], look.ent[q], look.rows[p].id)}
          \cup IF ~IsDir(p) /\ RemoteNew(look, p, q)
               THEN {Decision("DOWNLOAD_UPDATE", q, q, look.snap[p], look.ent[q],
                              look.rows[p].id)}
               ELSE {}

(* Rows 12 and 13.  Without a baseline, or with changes on both sides, the *)
(* local file stays where it is.                                           *)
RemoteMove(look, p) ==
    LET q      == Target(look, p)
        w      == look.rows[p]
        edited == LocalMd5(look, p) \notin {None, w.lc}
    IN  IF look.snap[p] = None
        THEN {Decision(IF IsDir(q) THEN "MKDIR_LOCAL" ELSE "DOWNLOAD_NEW",
                       q, q, None, look.ent[q], w.id),
              At(look, "FORGET", p)}
        ELSE IF ~IsDir(p) /\ (w.lc = None \/ (edited /\ RemoteNew(look, p, q)))
             THEN {At(look, "PROTECT", p)} \cup FetchAt(look, q)
        ELSE MoveThenUpdate(look, p)

(* Mutation: a folder that is gone on the drive stays on the disk.         *)
DecideDirStays(w, here, seen, absent, observed, propagate) ==
    IF here THEN "none"
    ELSE IF seen /\ w.st # "synced" THEN "MKDIR_LOCAL"
    ELSE IF absent THEN "FORGET"
    ELSE IF observed /\ propagate THEN "REMOTE_TRASH"
    ELSE "REPORT"

(* _decide_dir.  A folder that is not on the disk was deleted there only   *)
(* if it has ever been there: if its row is synced.                        *)
DecideDir(w, here, seen, absent, observed, propagate) ==
    IF here /\ (seen \/ ~observed) THEN "none"
    ELSE IF ~here /\ seen /\ w.st # "synced" THEN "MKDIR_LOCAL"
    ELSE IF here THEN IF propagate THEN "LOCAL_TRASH" ELSE "REPORT"
    ELSE IF absent THEN "FORGET"
    ELSE IF observed /\ propagate THEN "REMOTE_TRASH"
    ELSE "REPORT"

(* A folder key without a row, or whose row has no id.                     *)
DecideNewDir(here, seen) ==
    IF here /\ ~seen THEN "MKDIR_REMOTE"
    ELSE IF ~here /\ seen THEN "MKDIR_LOCAL"
    ELSE IF here THEN "TOUCH_BASE"
    ELSE "none"

FolderKind(look, p, propagate) ==
    LET w        == look.rows[p]
        here     == look.snap[p] # None
        seen     == look.ent[p].id # None
        absent   == p \in look.del \/ (~seen /\ look.whole)
        observed == look.whole \/ seen \/ p \in look.del
    IN  IF ~here /\ w.st # "none" /\ Blind(look, p) THEN "REPORT"
        ELSE IF w.id = None THEN DecideNewDir(here, seen)
        ELSE DecideDir(w, here, seen, absent, observed, propagate)

FileKind(look, p, propagate) ==
    Decide(FileRow(look.rows[p]), FileEntry(look.snap[p]), FileRemote(look.ent[p]),
           Blind(look, p), p \in look.del, look.whole, propagate,
           LocalMd5(look, p), look.ent[p].c)

(* The order of the cases: moves, targets of moves, the rest.              *)
DecisionsFor(look, p, propagate, away, pairs, arrivals) ==
    IF p \in away THEN RemoteMove(look, p)
    ELSE IF \E x \in pairs : x[1] = p
         THEN LET q == (CHOOSE x \in pairs : x[1] = p)[2]
              IN  {Decision("REMOTE_MOVE", p, q, look.snap[q], Unknown,
                            look.rows[p].id)}
    ELSE IF p \in arrivals THEN {}
    ELSE IF p \in look.out THEN {At(look, "REPORT", p)}
    ELSE {At(look, IF IsDir(p) THEN FolderKind(look, p, propagate)
                               ELSE FileKind(look, p, propagate), p)}

(* Files the comparison tried to read and could not.                       *)
HashFailures(look) == {p \in look.unread :
    \/ p \in {x[2] : x \in Candidates(look)}
    \/ /\ p \notin Arrivals(look) \cup look.out
       /\ ReadsLocal(FileRow(look.rows[p]), FileEntry(look.snap[p]),
                     FileRemote(look.ent[p]))}

DiffOf(look, propagate) ==
    LET away     == MovedRemote(look)
        pairs    == Pairs(look)
        arrivals == Arrivals(look)
    IN  {d \in UNION {DecisionsFor(look, p, propagate, away, pairs, arrivals) : p \in Path} :
            d.kind # "none"}
-----------------------------------------------------------------------------
(* The plan.                                                               *)
Trashes(D)    == {d \in D : d.kind \in TrashKinds}
DirTrashes(D) == {d \in Trashes(D) : IsDir(d.path)}
Live(D)       == {d \in D : d.kind \notin Passive}

(* Mutation: a folder goes whatever is still to be done in it.             *)
NeverBlocked(d, D) == FALSE

(* Something that is not a deletion is still to be done in the folder.     *)
Blocked(d, D) == \E o \in D : o.kind \notin TrashKinds /\ Under(o.path, d.path)

Covered(d, D) == d.kind \in TrashKinds /\ \E t \in DirTrashes(D) :
    ~Blocked(t, D) /\ t.kind = d.kind /\ Under(d.path, t.path)

Collapsed(D) ==
    {d \in D : ~(d \in DirTrashes(D) /\ Blocked(d, D)) /\ ~Covered(d, D)}

Settled(D) ==
    {d \in D : ~\E m \in D : m.kind \in MoveKinds /\ IsDir(m.path)
                                /\ Under(d.path, m.path)}

(* Mutation: a folder counts as one deletion.                              *)
SizePlain(d, rows) == 1

(* How much a deletion takes away, counted in rows.                        *)
SizeOfTrash(d, rows) ==
    IF ~IsDir(d.path) THEN 1
    ELSE LET n == Cardinality({p \in Path : rows[p].st # "none" /\ Within(p, d.path)})
         IN  IF n = 0 THEN 1 ELSE n

Effective(D, rows) == MapThenSumSet(LAMBDA d : SizeOfTrash(d, rows), Trashes(D))

(* Too many deletions: nothing is done (the ratio applies from 20 rows on).*)
BulkAbort(D, rows) == Trashes(D) # {} /\ Limit > 0 /\ Effective(D, rows) >= Limit

(* Unattended: deletions beyond the grade and conflicts wait for a person. *)
HeldBack(D, rows) ==
    {d \in D : d.kind = "CONFLICT"
                  \/ (d.kind \in TrashKinds /\ Effective(D, rows) > AutoLimit)}

Planned(D, trashable) ==
    Settled(Collapsed({d \in Live(D) : trashable \/ d.kind # "LOCAL_TRASH"}))

Rank(kind) ==
    CASE kind \in DirKinds                 -> 0
      [] kind \in MoveKinds                -> 1
      [] kind \in {"TOUCH_BASE", "FORGET"} -> 3
      [] kind \in TrashKinds               -> 4
      [] OTHER                             -> 2

(* Actions of the same rank and depth run in the order of their keys; here *)
(* in any order.                                                           *)
Before(a, b) ==
    \/ Rank(a.kind) < Rank(b.kind)
    \/ Rank(a.kind) = Rank(b.kind) /\ Len(a.path) < Len(b.path)
=============================================================================
