------------------------------ MODULE TreeSync ------------------------------
(***************************************************************************)
(* A pass over a whole folder tree: the remote view of a full walk or of   *)
(* the change feed (core/remote.py), the plan (TreePlan) and its execution *)
(* one action after another (core/executor.py), while users and other PCs  *)
(* act between the actions.                                                *)
(*                                                                         *)
(* FileSync takes one file apart into its stats, transfers and records;    *)
(* here an action is one step, and scan, view and plan are another.  What  *)
(* TreeSync adds is what paths do to each other: folders, moves, order.    *)
(*                                                                         *)
(* Left out: names (case, normal forms, what Windows refuses), a file      *)
(* where a folder was, the remote root's own moves, a feed or a probe      *)
(* cut short, the executor's listing of a folder (read anew here).         *)
(***************************************************************************)
EXTENDS TreePlan

CONSTANTS
    Content,        \* what a file may hold
    Outside,        \* where an object moved out of the synced folder is
    Id,             \* ids the drive gives to objects, in their order
    Trees,          \* sets of paths a run may begin with
    Modes,          \* how passes are run
    Acts,           \* what users, other PCs and failures may do
    Rare,           \* those of them that use up two of the bound
    MaxEnv          \* bound: how often

Act  == {"save", "delete", "rename", "put", "create", "trash", "move", "movedir",
         "out", "crash", "unread", "unobs", "recycle", "fail"}
Mode == [full : BOOLEAN, propagate : BOOLEAN, unattended : BOOLEAN,
         allowed : BOOLEAN]
ASSUME ContentAssumption == /\ None \notin Content /\ Folder \notin Content
                            /\ None # Folder
ASSUME IdAssumption == /\ Id \subseteq Nat \ {0} /\ IsFiniteSet(Id)
                       /\ None \notin Nat /\ None \notin Path
ASSUME OutsideAssumption == Outside \notin Path \cup {None}
ASSUME TreesAssumption ==
    \A t \in Trees : /\ t \subseteq Path /\ 1 .. Cardinality(t) \subseteq Id
                     /\ \A p \in t : \A q \in Path : Under(p, q) => q \in t
ASSUME ChoicesAssumption == /\ Modes \subseteq Mode /\ None \notin Mode
                           /\ Acts \subseteq Act /\ Rare \subseteq Act
                           /\ MaxEnv \in Nat

VARIABLES
    disk,           \* the local folder
    obj,            \* the drive: where each object is and what it holds
    kept,           \* contents the drive has, in old versions and its trash
                    \* too, and those of conflict copies
    feed,           \* objects changed since the saved cursor, the latest last
    news,           \* those of them changed since the view of the running pass
    rows,           \* the files table
    snap, unobs,    \* the scan of the running pass, what it skipped, and
    unread,         \* which files could not be read
    todo,           \* the actions the pass has yet to do
    mode,           \* the running pass, or None
    took,           \* history: what the last pass has put into a recycle bin
    claimed,        \* history: <<object, version, content>> a row recorded as
                    \* sent when other bytes were
    left            \* bound

drive  == <<obj, kept, feed, news>>
pass   == <<snap, unobs, unread, todo, mode, took>>
vars   == <<disk, drive, rows, pass, claimed, left>>

Unused  == [at |-> None, c |-> None, ver |-> 0]
Nothing == [p \in Path |-> None]

Cost(a) == IF a \in Rare THEN 2 ELSE 1
May(a)  == a \in Acts /\ left >= Cost(a) /\ left' = left - Cost(a)

Parents(p)  == {q \in Path : Under(p, q)}
Subtree(p)  == {q \in Path : Within(q, p)}
Image(x, p, q) == q \o SubSeq(x, Len(p) + 1, Len(x))

OnDrive(p)  == {i \in Id : obj[i].at = p}
InTree(p)   == {i \in Id : obj[i].at \in Subtree(p)}
Free(p)     == OnDrive(p) = {}
Rooted(p)   == \A q \in Parents(p) : ~Free(q)
Homed(p)    == \A q \in Parents(p) : disk[q] = Folder
Holds(p)    == IF IsDir(p) THEN {Folder} ELSE Content

(* Ids are given in their order.  Bound: there are enough for what a step  *)
(* can make, a chain of folders and a file.                                *)
NewIds(o) == {i \in Id : o[i] = Unused}
NewId(o)  == CHOOSE i \in NewIds(o) : \A j \in NewIds(o) : i <= j
Roomy     == \A p \in Path : Cardinality(NewIds(obj)) > Cardinality(Parents(p))
Placed(p, c) == [at |-> p, c |-> c, ver |-> 1]

(* The feed names an object once, at its latest change.                    *)
Fed(S)     == SelectSeq(feed, LAMBDA i : i \notin S) \o SetToSeq(S)
Changed(S) == feed' = Fed(S) /\ news' = news \cup S

FolderRow(i)  == [Unlisted EXCEPT !.id = i, !.st = "synced"]
FileRowOf(i, o) == [id |-> i, lc |-> o.c, ver |-> o.ver, rc |-> o.c, st |-> "synced"]

(* A folder that was synced, whatever is in it.                            *)
InitTree(tree, what, ids) ==
    /\ disk = [p \in Path |-> IF p \in tree THEN what[p] ELSE None]
    /\ obj = [i \in Id |-> IF i <= Len(ids) THEN Placed(ids[i], what[ids[i]])
                                            ELSE Unused]
    /\ rows = [p \in Path |->
         IF p \notin tree THEN Unlisted
         ELSE LET i == CHOOSE n \in DOMAIN ids : ids[n] = p
              IN  IF IsDir(p) THEN FolderRow(i) ELSE FileRowOf(i, Placed(p, what[p]))]
    /\ kept = {what[p] : p \in tree \cap FilePath}

Init ==
    /\ \E tree \in Trees : \E what \in [tree -> Content \cup {Folder}] :
          /\ \A p \in tree : what[p] \in Holds(p)
          /\ InitTree(tree, what, SetToSeq(tree))
    /\ feed = <<>> /\ news = {}
    /\ snap = Nothing /\ unobs = {} /\ unread = {} /\ todo = {} /\ mode = None /\ took = {}
    /\ claimed = {} /\ left = MaxEnv
-----------------------------------------------------------------------------
(* Users of the folder, in any program.  A save does not bring back what   *)
(* the file's own record or plan knows: an undone save has runs of its own *)
(* in FileSync.                                                            *)
Known(p) == {disk[p], rows[p].lc} \cup {a.e : a \in {a \in todo : a.path = p}}

Save(p) ==
    /\ May("save") /\ Homed(p)
    /\ \E c \in Holds(p) \ Known(p) : disk' = [disk EXCEPT ![p] = c]
    /\ UNCHANGED <<drive, rows, pass, claimed>>

Without(p) == [x \in Path |-> IF Within(x, p) THEN None ELSE disk[x]]

Delete(p) ==
    /\ May("delete") /\ disk[p] # None
    /\ disk' = Without(p)
    /\ UNCHANGED <<drive, rows, pass, claimed>>

(* What the disk has of the tree p, at q.                                  *)
Shifted(p, q) ==
    [x \in Path |->
        IF Within(x, q) THEN IF Image(x, q, p) \in Path THEN disk[Image(x, q, p)]
                                                        ELSE None
        ELSE IF Within(x, p) THEN None
        ELSE disk[x]]

WithParents(d, p) == [x \in Path |-> IF Under(p, x) THEN Folder ELSE d[x]]

Relocated(p, q) == WithParents(Shifted(p, q), q)

(* A tree can move where the instance has a path for all that is in it.    *)
Movable(p, q, S) ==
    /\ IsDir(p) <=> IsDir(q)
    /\ ~Within(p, q) /\ ~Within(q, p)
    /\ \A x \in S : Image(x, p, q) \in Path

LocalTree(p) == {x \in Subtree(p) : disk[x] # None}

Rename(p, q) ==
    /\ May("rename") /\ disk[p] # None /\ disk[q] = None /\ Homed(q)
    /\ Movable(p, q, LocalTree(p))
    /\ disk' = Relocated(p, q)
    /\ UNCHANGED <<drive, rows, pass, claimed>>

User == \/ \E p \in Path : Save(p) \/ Delete(p)
        \/ \E p, q \in Path : Rename(p, q)
-----------------------------------------------------------------------------
(* Other PCs and the web page.                                             *)
OtherWrites(i) ==
    /\ May("put") /\ obj[i].at \in FilePath
    /\ \E c \in Content \ {obj[i].c} :
          /\ obj' = [obj EXCEPT ![i].c = c, ![i].ver = @ + 1]
          /\ kept' = kept \cup {c}
    /\ Changed({i})
    /\ UNCHANGED <<disk, rows, pass, claimed>>

(* What is created is not what the row of its path knows: an object that   *)
(* replaces its equal passes for unchanged (FileSync has it).              *)
OtherCreates(p) ==
    /\ May("create") /\ Roomy /\ Free(p) /\ Rooted(p)
    /\ \E c \in Holds(p) \ {rows[p].rc} :
          /\ obj' = [obj EXCEPT ![NewId(obj)] = Placed(p, c)]
          /\ kept' = kept \cup ({c} \cap Content)
    /\ Changed({NewId(obj)})
    /\ UNCHANGED <<disk, rows, pass, claimed>>

Gone(o, S, where) == [i \in Id |-> IF i \in S THEN [o[i] EXCEPT !.at = where] ELSE o[i]]

(* The feed names the folder; whether it names what was in it is not known.*)
OtherTrashes(i) ==
    /\ May("trash") /\ obj[i].at \in Path
    /\ obj' = Gone(obj, InTree(obj[i].at), None)
    /\ \E S \in {{i}, InTree(obj[i].at)} : Changed(S)
    /\ UNCHANGED <<disk, kept, rows, pass, claimed>>

Carried(i, q) ==
    LET p == obj[i].at
    IN  [j \in Id |-> IF j \in InTree(p) THEN [obj[j] EXCEPT !.at = Image(@, p, q)]
                                         ELSE obj[j]]

(* A folder's move or new name is no event of what is in it.               *)
OtherMoves(i, q) ==
    /\ May(IF IsDir(q) THEN "movedir" ELSE "move")
    /\ obj[i].at \in Path /\ Free(q) /\ Rooted(q)
    /\ Movable(obj[i].at, q, {obj[j].at : j \in InTree(obj[i].at)})
    /\ obj' = Carried(i, q) /\ Changed({i})
    /\ UNCHANGED <<disk, kept, rows, pass, claimed>>

OtherMovesOut(i) ==
    /\ May("out") /\ obj[i].at \in Path
    /\ obj' = Gone(obj, InTree(obj[i].at), Outside) /\ Changed({i})
    /\ UNCHANGED <<disk, kept, rows, pass, claimed>>

Others == \/ \E i \in Id : OtherWrites(i) \/ OtherTrashes(i) \/ OtherMovesOut(i)
          \/ \E p \in Path : OtherCreates(p)
          \/ \E i \in Id, q \in Path : OtherMoves(i, q)
-----------------------------------------------------------------------------
(* The remote view.                                                        *)
EntryOf(i) == [id |-> i, ver |-> IF obj[i].c = Folder THEN None ELSE obj[i].ver,
               c |-> obj[i].c]

FullEntries == [p \in Path |-> IF Free(p) THEN Unknown
                               ELSE EntryOf(CHOOSE i \in Id : obj[i].at = p)]

RowsOf(i)   == {p \in Path : rows[p].id = i}
FolderAt(n) == obj[feed[n]].at \in DirPath

(* A folder in the feed is listed again with all that is in it (B4), once. *)
Relists(n) == /\ FolderAt(n)
              /\ ~\E m \in 1 .. n - 1 :
                    FolderAt(m) /\ Under(obj[feed[n]].at, obj[feed[m]].at)

(* What item n of the feed shows, and what it takes away.                  *)
Shows(n, p) == obj[feed[n]].at = p
                  \/ (Relists(n) /\ Under(p, obj[feed[n]].at) /\ ~Free(p))

Takes(n, p, where) == obj[feed[n]].at = where /\ p \in RowsOf(feed[n])

(* The later word wins, but a move out of the folder hides nothing.        *)
FeedShows == {p \in Path : \E n \in DOMAIN feed :
    Shows(n, p) /\ \A m \in n + 1 .. Len(feed) : ~Takes(m, p, None)}

FeedTakes(where) == {p \in Path : \E n \in DOMAIN feed :
    Takes(n, p, where) /\ \A m \in n + 1 .. Len(feed) : ~Shows(m, p)}

Spoken == FeedShows \cup FeedTakes(None) \cup FeedTakes(Outside)

(* Of what the feed does not speak of, what failed and what is not on the  *)
(* disk is asked for; the latter rarely where deletions are only reported. *)
Dirty      == {p \in Path \ Spoken : rows[p].id # None /\ rows[p].st # "synced"}
Lost(scan) == {p \in Path \ Spoken : rows[p].id # None /\ scan[p] = None}

AskedAt(S)  == {q \in Path : \E p \in S : obj[rows[p].id].at = q}
AskedOut(S) == {p \in S : obj[rows[p].id].at = Outside}

Look(m, scan, blind, cold, asked) ==
    LET seen == FeedShows \cup AskedAt(asked)
    IN  [rows |-> rows, snap |-> scan, whole |-> m.full, unread |-> cold,
         unobs |-> blind,
         ent |-> IF m.full THEN FullEntries
                 ELSE [p \in Path |-> IF p \in seen THEN FullEntries[p] ELSE Unknown],
         del |-> IF m.full THEN {} ELSE FeedTakes(None) \ AskedAt(asked),
         out |-> IF m.full THEN {}
                 ELSE ((FeedTakes(Outside) \cup AskedOut(asked))
                         \ AskedAt(asked)) \ FeedTakes(None)]
-----------------------------------------------------------------------------
(* A pass begins: scan, view, decisions, gates.  One that the gates stop    *)
(* does nothing.                                                           *)
Marked(w, st, p, id) ==
    IF w[p].st = "none" THEN [Unlisted EXCEPT !.id = id, !.st = st]
                        ELSE [w[p] EXCEPT !.st = st]

Scanned(blind) ==
    [p \in Path |-> IF \E u \in blind : Within(p, u) THEN None ELSE disk[p]]

(* Unattended, a folder that lost half of what the base knows is left alone.*)
LocalCollapse(m, scan) ==
    /\ m.unattended
    /\ 2 * Cardinality({p \in Path : scan[p] # None})
         < Cardinality({p \in Path : rows[p].st # "none"})

Begin(m, blind, cold, trashable) ==
    \E asked \in {Dirty \cup Lost(Scanned(blind))}
                    \cup IF m.propagate THEN {} ELSE {Dirty} :
    LET scan == Scanned(blind)
        look == Look(m, scan, blind, cold, asked)
        plan == Planned(DiffOf(look, m.propagate), trashable)
        acts == IF m.unattended THEN plan \ HeldBack(plan, rows) ELSE plan
    IN  /\ mode = None
        /\ IF LocalCollapse(m, scan) \/ (~m.allowed /\ BulkAbort(plan, rows))
           THEN UNCHANGED <<rows, todo, took, news, feed, mode, snap, unobs, unread>>
           ELSE /\ rows' = [p \in Path |-> IF p \in HashFailures(look)
                                    THEN Marked(rows, "error", p, None) ELSE rows[p]]
                /\ todo' = acts /\ took' = {} /\ news' = {}
                /\ IF acts = {}
                   THEN feed' = <<>> /\ UNCHANGED <<mode, snap, unobs, unread>>
                   ELSE /\ mode' = m /\ snap' = scan /\ unobs' = blind
                        /\ unread' = cold /\ UNCHANGED feed
        /\ UNCHANGED <<disk, obj, kept, claimed>>

BeginWell == \E m \in Modes : Begin(m, {}, {}, TRUE) /\ UNCHANGED left

BeginBadly == \E m \in Modes :
    \/ May("unread")  /\ \E p \in FilePath : disk[p] # None /\ Begin(m, {}, {p}, TRUE)
    \/ May("unobs")   /\ \E p \in Path : disk[p] # None /\ Begin(m, {p}, {}, TRUE)
    \/ May("recycle") /\ Begin(m, {}, {}, FALSE)
-----------------------------------------------------------------------------
(* Execution.  What an action makes of the world: the disk, the drive, the *)
(* rows, the objects changed (ids), what went into a bin (gone) and what a *)
(* row says was sent and was not (claims).                                 *)
Now == [disk |-> disk, obj |-> obj, kept |-> kept, rows |-> rows,
        ids |-> {}, gone |-> {}, claims |-> {}]

(* Mutation: what failed is left as it was.                                *)
FailedQuietly(a, w) == w

(* _mark.  A new row gets the object's id unless another row has it.       *)
Failed(a, w) ==
    LET id == IF a.r.id # None /\ {p \in Path : w.rows[p].id = a.r.id} \subseteq {a.path}
              THEN a.r.id ELSE None
    IN  [w EXCEPT !.rows[a.path] = Marked(w.rows, "error", a.path, id)]

Kept(a, st, w) == [w EXCEPT !.rows[a.path] = Marked(w.rows, st, a.path, None)]
Protected(a)   == Kept(a, "pending_download", Now)

(* ensure_remote_folder, for the folders in S: a chain.                    *)
Ensured(S) ==
    LET miss  == {q \in S : Free(q)}
        above(q) == Cardinality({x \in miss : Under(q, x)})
        below(i) == Cardinality({j \in NewIds(obj) : j < i})
        id(q) == IF Free(q) THEN CHOOSE i \in NewIds(obj) : below(i) = above(q)
                            ELSE CHOOSE i \in Id : obj[i].at = q
    IN  [Now EXCEPT
          !.obj = [i \in Id |-> IF \E q \in miss : id(q) = i
                                THEN Placed(CHOOSE q \in miss : id(q) = i, Folder)
                                ELSE obj[i]],
          !.rows = [q \in Path |-> IF q \in S THEN FolderRow(id(q)) ELSE rows[q]],
          !.ids  = {id(q) : q \in miss}]

MkdirRemote(a) == Ensured(Parents(a.path) \cup {a.path})

MkdirLocal(a) ==
    [Now EXCEPT !.disk = WithParents([disk EXCEPT ![a.path] = Folder], a.path),
                !.rows[a.path] = FolderRow(a.r.id)]

(* What the upload found under the name is not what the base knows: nothing*)
(* is overwritten.                                                         *)
OtherFound(a, i) == \/ a.kind = "UPLOAD_NEW" /\ rows[a.path].id # i
                    \/ rows[a.path].id \notin {None, i}

Ahead(a, i) == rows[a.path].ver # None /\ obj[i].ver > rows[a.path].ver

(* The row of an upload says what was scanned; if the file has changed     *)
(* since, the next pass sends it again.  Without a row no MD5 was taken.   *)
UploadRow(a, i, ver) ==
    LET moved == disk[a.path] # a.e
    IN  [id |-> i, lc |-> IF moved /\ a.id = None THEN None ELSE a.e,
         ver |-> ver, rc |-> a.e, st |-> IF moved THEN "pending_upload" ELSE "synced"]

Sent(a, w, i, o) ==
    [w EXCEPT !.obj[i] = o, !.kept = @ \cup {o.c}, !.ids = @ \cup {i},
              !.rows[a.path] = UploadRow(a, i, o.ver),
              !.claims = {<<i, o.ver, c>> : c \in {UploadRow(a, i, o.ver).lc} \ {None, o.c}}]

Upload(a) ==
    LET p == a.path
        w == Ensured(Parents(p))
    IN  IF Free(p)
        THEN IF disk[p] = None THEN Failed(a, w)
             ELSE Sent(a, w, NewId(w.obj), Placed(p, disk[p]))
        ELSE LET i == CHOOSE i \in Id : obj[i].at = p
             IN  IF OtherFound(a, i) \/ Ahead(a, i) THEN Kept(a, "pending_upload", w)
                 ELSE IF disk[p] = None THEN Failed(a, w)
                 ELSE Sent(a, w, i, [obj[i] EXCEPT !.c = disk[p], !.ver = @ + 1])

(* Mutation: the folder of what is received is taken for granted.          *)
ReceivedBare(a, w) ==
    [w EXCEPT !.disk[a.path] = a.r.c,
              !.rows[a.path] = [id |-> a.r.id, lc |-> a.r.c, ver |-> a.r.ver,
                                rc |-> a.r.c, st |-> "synced"]]

(* The bytes must be those the view announced.                             *)
Received(a, w) ==
    LET o == obj[a.r.id]
    IN  IF o.at = None \/ o.c # a.r.c THEN Failed(a, w)
        ELSE [w EXCEPT
               !.disk = WithParents([w.disk EXCEPT ![a.path] = a.r.c], a.path),
               !.rows[a.path] = [id |-> a.r.id, lc |-> a.r.c, ver |-> a.r.ver,
                                 rc |-> a.r.c, st |-> "synced"]]

(* Mutation: the disk is not looked at.                                    *)
DownloadBlind(a) == Received(a, Now)

(* A file that is there must be the one that was compared.                 *)
Download(a) == IF disk[a.path] \in {None, a.e} THEN Received(a, Now) ELSE Protected(a)

(* The local file becomes a copy under another name.                       *)
SetAside(a) == [Now EXCEPT !.disk[a.path] = None, !.kept = @ \cup {a.e}]

Conflict(a) == IF disk[a.path] # a.e THEN Protected(a) ELSE Received(a, SetAside(a))
-----------------------------------------------------------------------------
(* Mutation: a move takes the new version for received.                    *)
MovedRowAdvanced(a) ==
    [id |-> a.r.id, lc |-> rows[a.path].lc, ver |-> a.r.ver, rc |-> a.r.c,
     st |-> "synced"]

(* A file takes its baseline along.  A new content is still to come.       *)
MovedRow(a) ==
    LET w == rows[a.path]
    IN  IF RemoteChanged(FileRow(w), FileRemote(a.r))
        THEN [w EXCEPT !.id = a.r.id, !.st = "pending_download"]
        ELSE [id |-> a.r.id, lc |-> w.lc, ver |-> a.r.ver, rc |-> a.r.c,
              st |-> "synced"]

(* Rows in the way at the target: the whole renaming of rows is refused.   *)
RowsInTheWay(p, q) == \E x \in Subtree(p) :
    /\ rows[x].st # "none" /\ Image(x, p, q) \in Path
    /\ rows[Image(x, p, q)].st # "none"

(* The rows of the tree p go to q; those of the others there stay.         *)
RowsShifted(p, q) ==
    LET from(x) == Image(x, q, p)
    IN  [x \in Path |->
            IF Within(x, q) /\ from(x) \in Path /\ rows[from(x)].st # "none"
            THEN rows[from(x)]
            ELSE IF Within(x, p) THEN Unlisted ELSE rows[x]]

(* The folders above the new place are made before the move is tried.      *)
LocalMove(a) ==
    LET p == a.path
        q == a.to
        w == [Now EXCEPT !.disk = Relocated(p, q)]
        r == RowsShifted(p, q)
    IN  IF disk[q] # None THEN Protected(a)
        ELSE IF disk[p] = None \/ Under(q, p)
             THEN Failed(a, [Now EXCEPT !.disk = WithParents(disk, q)])
        ELSE IF RowsInTheWay(p, q) THEN Failed(a, w)
        ELSE [w EXCEPT !.rows = [r EXCEPT ![q] = IF IsDir(q) THEN FolderRow(a.r.id)
                                                             ELSE MovedRow(a)]]

(* Only what differs between the two paths is told to the drive: folder,   *)
(* name, or both.                                                          *)
Landing(a) ==
    LET at == obj[a.id].at
    IN  (IF Front(a.to) = Front(a.path) THEN Front(at) ELSE Front(a.to))
          \o <<IF Last(a.to) = Last(a.path) THEN Last(at) ELSE Last(a.to)>>

RemoteMoveTo(a) ==
    LET w == Ensured(Parents(a.to))
        v == [w EXCEPT !.obj[a.id].at = Landing(a), !.ids = @ \cup {a.id}]
        r == [w.rows EXCEPT ![a.path] = Unlisted]
    IN  IF obj[a.id].at \notin Path THEN Failed(a, w)
        ELSE IF Landing(a) # obj[a.id].at /\ ~Free(Landing(a)) THEN Failed(a, w)
        ELSE IF rows[a.to].st # "none" THEN Failed(a, v)
        ELSE [v EXCEPT !.rows = [r EXCEPT ![a.to] =
                 [rows[a.path] EXCEPT !.id = a.id, !.lc = a.e, !.st = "synced"]]]
-----------------------------------------------------------------------------
Forgotten(p) == [x \in Path |-> IF Within(x, p) /\ (IsDir(p) \/ x = p) THEN Unlisted
                                ELSE rows[x]]

(* Mutation: what has appeared in a folder since the scan is not looked at.*)
ChangedSinceHere(a) == ~IsDir(a.path) /\ disk[a.path] \notin {None, a.e}

(* Files, not folders, are compared with the scan.                         *)
ChangedSince(a) ==
    \/ \E u \in unobs : Within(a.path, u) \/ Under(u, a.path)
    \/ ~IsDir(a.path) /\ disk[a.path] \notin {None, a.e}
    \/ IsDir(a.path) /\ \E x \in FilePath : /\ Under(x, a.path) /\ disk[x] # None
                                            /\ snap[x] # disk[x]

LocalTrash(a) ==
    IF ChangedSince(a) THEN Protected(a)
    ELSE [Now EXCEPT !.disk = Without(a.path), !.rows = Forgotten(a.path),
                     !.gone = {<<"disk", x>> : x \in {x \in LocalTree(a.path) : snap[x] # None}}]

(* By its id, wherever it is now; what is trashed already is no error.     *)
RemoteTrash(a) ==
    LET at == IF a.id = None THEN None ELSE obj[a.id].at
        S  == IF at \in Path THEN InTree(at) ELSE {a.id} \cap Id
        in == IF at = None THEN {} ELSE S
    IN  IF a.id = None THEN [Now EXCEPT !.rows[a.path] = Unlisted]
        ELSE [Now EXCEPT !.obj = Gone(obj, in, None), !.rows = Forgotten(a.path),
                         !.ids = in, !.gone = {<<"drive", i>> : i \in in \ news}]

TouchBase(a) ==
    [Now EXCEPT !.rows[a.path] =
        IF IsDir(a.path) THEN FolderRow(a.r.id)
        ELSE [id |-> a.r.id, lc |-> a.e, ver |-> a.r.ver, rc |-> a.r.c, st |-> "synced"]]

Forget(a) == [Now EXCEPT !.rows = Forgotten(a.path)]

Does(a) ==
    CASE a.kind = "MKDIR_REMOTE"                             -> MkdirRemote(a)
      [] a.kind = "MKDIR_LOCAL"                              -> MkdirLocal(a)
      [] a.kind \in {"UPLOAD_NEW", "UPLOAD_VERSION"}         -> Upload(a)
      [] a.kind \in {"DOWNLOAD_NEW", "DOWNLOAD_UPDATE"}      -> Download(a)
      [] a.kind = "CONFLICT"                                 -> Conflict(a)
      [] a.kind = "LOCAL_MOVE"                               -> LocalMove(a)
      [] a.kind = "REMOTE_MOVE"                              -> RemoteMoveTo(a)
      [] a.kind = "LOCAL_TRASH"                              -> LocalTrash(a)
      [] a.kind = "REMOTE_TRASH"                             -> RemoteTrash(a)
      [] a.kind = "TOUCH_BASE"                               -> TouchBase(a)
      [] OTHER                                               -> Forget(a)

(* An action cut short by an error or a crash: before it has done anything,*)
(* or a conflict with its copy made and nothing received.                  *)
Halves(a) == {Now} \cup IF a.kind = "CONFLICT" /\ disk[a.path] = a.e
                        THEN {SetAside(a)} ELSE {}
-----------------------------------------------------------------------------
(* An action runs when all before it are done.                             *)
Ready(a) == a \in todo /\ \A b \in todo : ~Before(b, a)

Becomes(w) ==
    /\ disk' = w.disk /\ obj' = w.obj /\ kept' = w.kept /\ rows' = w.rows
    /\ took' = took \cup w.gone /\ claimed' = claimed \cup w.claims
    /\ news' = news \cup w.ids

(* With the last action the cursor is saved.                               *)
Finish(a, w) ==
    /\ Becomes(w) /\ todo' = todo \ {a}
    /\ IF todo = {a}
       THEN /\ feed' = SelectSeq(Fed(w.ids), LAMBDA i : i \in news')
            /\ mode' = None /\ snap' = Nothing /\ unobs' = {} /\ unread' = {}
       ELSE feed' = Fed(w.ids) /\ UNCHANGED <<mode, snap, unobs, unread>>

(* Bound: the instance has a path for all that a move brings to its place. *)
Fitting(a) == a.kind = "LOCAL_MOVE" => \A x \in LocalTree(a.path) :
                                           Image(x, a.path, a.to) \in Path

Do == \E a \in todo :
    /\ Ready(a) /\ Roomy /\ Fitting(a)
    /\ Finish(a, Does(a)) /\ UNCHANGED left

(* The drive refuses, a lock, no space; a recycle bin that fails leaves no *)
(* mark.                                                                   *)
Fail == \E a \in todo :
    /\ May("fail") /\ Ready(a) /\ a.kind \notin {"TOUCH_BASE", "FORGET"}
    /\ \E w \in Halves(a) :
          Finish(a, IF a.kind = "LOCAL_TRASH" THEN w ELSE Failed(a, w))

(* What ensure_remote_folder has recorded is recorded at once.             *)
Made(a) == CASE a.kind = "MKDIR_REMOTE" -> MkdirRemote(a).rows
             [] a.kind \in {"UPLOAD_NEW", "UPLOAD_VERSION", "REMOTE_MOVE"} ->
                    Ensured(Parents(a.to)).rows
             [] OTHER -> rows

(* The end of the process; recover marks the path of an action begun.      *)
Recovered(a, w) ==
    LET p  == a.path
        r  == IF w = Now THEN rows ELSE Made(a)
        st == IF a.kind \in {"UPLOAD_NEW", "UPLOAD_VERSION", "REMOTE_MOVE",
                             "MKDIR_REMOTE", "REMOTE_TRASH"}
              THEN "pending_upload" ELSE "pending_download"
    IN  IF a.kind \in {"TOUCH_BASE", "FORGET"} THEN rows
        ELSE [r EXCEPT ![p] = Marked(r, st, p, None)]

Dies(w) ==
    /\ Becomes(w) /\ feed' = Fed(w.ids)
    /\ todo' = {} /\ mode' = None /\ snap' = Nothing /\ unobs' = {} /\ unread' = {}

(* Between two actions, or before the cursor is saved, there is none to    *)
(* mark.                                                                   *)
Crash == \E a \in todo :
    /\ May("crash") /\ Ready(a) /\ Roomy /\ Fitting(a)
    /\ \/ \E w \in {Now, Does(a)} : Dies(w)
       \/ \E w \in Halves(a) \cup {Does(a)} :
             Dies([w EXCEPT !.rows = Recovered(a, w)])

Tool == BeginWell \/ BeginBadly \/ Do \/ Fail \/ Crash
Next == User \/ Others \/ Tool

Spec == Init /\ [][Next]_vars

(* Passes are begun again and again, and a pass goes on.                   *)
FairSpec == Spec /\ WF_vars(BeginWell) /\ WF_vars(Do)
-----------------------------------------------------------------------------
Object == [at : Path \cup {None, Outside}, c : Content \cup {Folder, None}, ver : Nat]
Row    == [id : Id \cup {None}, lc : Content \cup {None}, ver : Nat \cup {None},
           rc : Content \cup {None}, st : Status]

(* Types; what is on either side hangs in folders; the drive has one object*)
(* of a name; a running pass has something to do.                          *)
TypeOK ==
    /\ disk \in [Path -> Content \cup {Folder, None}]
    /\ \A p \in Path : disk[p] # None => disk[p] \in Holds(p) /\ Homed(p)
    /\ obj \in [Id -> Object]
    /\ \A i \in Id : obj[i].at \in Path => obj[i].c \in Holds(obj[i].at) /\ Rooted(obj[i].at)
    /\ \A p \in Path : Cardinality(OnDrive(p)) <= 1
    /\ kept \subseteq Content /\ claimed \subseteq Id \X Nat \X Content
    /\ rows \in [Path -> Row]
    /\ news \subseteq Id /\ left \in 0 .. MaxEnv
    /\ mode \in Modes \cup {None} /\ (mode = None <=> todo = {})

Works == todo # {} /\ todo' # todo

Claimed == {x[3] : x \in claimed}

(* Files in the recycle bin as the scan saw them, with their folder.       *)
Recycled(bin) == {snap[x] : x \in {x \in FilePath :
    <<"disk", x>> \in bin /\ \E d \in Parents(x) : <<"disk", d>> \in bin}}

(* No action of a pass takes a content off the disk that is to be had      *)
(* nowhere else: on the drive, in its versions, or in a conflict copy.     *)
(* Whatever users save, delete or rename between the actions; but a row can*)
(* say that a content was sent when the file held another as it was (the   *)
(* scan's MD5 is recorded), and that content counts as safe from then on.  *)
(* Two that the code does lose so: what only the bin has of a file that was*)
(* protected or reported and went with its folder, just as it was scanned; *)
(* and an edit of a file that the comparison could not read, when it was   *)
(* moved and changed on the drive (_remote_move takes it for unedited).    *)
NothingLost ==
    [][Works => (Range(disk) \cap Content) \ Range(disk')
                    \subseteq kept' \cup Claimed' \cup Recycled(took')
                               \cup {snap[x] : x \in unread}]_vars

(* What a row calls synced is what the object had at that version: a wrong *)
(* baseline turns the other side's changes into nothing or into a conflict.*)
(* But for the upload that recorded another content than it sent (claimed).*)
BaseSoundTree == \A p \in FilePath : \A i \in Id :
    rows[p].id = i /\ rows[p].st = "synced" /\ rows[p].ver = obj[i].ver
        => rows[p].lc = obj[i].c \/ <<i, rows[p].ver, rows[p].lc>> \in claimed

(* A pass puts into the drive's trash only what this folder has had: with  *)
(* a folder go no files, and no contents, it never received.               *)
(* Except what changed since the view.                                     *)
TrashOnlyHeld ==
    [][Works => \A i \in Id \ news : obj[i].at # None /\ obj'[i].at = None =>
          \E p \in Path : /\ rows[p].id = i \/ (p = obj[i].at /\ rows[p].id # None)
                          /\ obj[i].c \in {Folder, rows[p].lc}]_vars

(* A pass that nobody allowed to delete in bulk takes away less than the   *)
(* limit, on both sides together, counted in files and folders: of what was*)
(* at its place when the pass began.  What a move has brought there since  *)
(* goes with the folder it came to, uncounted.                             *)
BulkGate == [][mode # None /\ ~mode.allowed => Cardinality(took') < Limit]_vars

(* The feed is passed over only when what it said is known: between passes *)
(* each file of the drive has a row at its place that knows its content or *)
(* is marked unfinished, or the next pass hears of it or of a folder above *)
(* it: the feed has it, or its row is one to ask for.                      *)
Unfinished(p) == rows[p].st \notin {"none", "synced"}

Heard(i) == Contains(feed, i)
              \/ \E p \in RowsOf(i) : Unfinished(p) \/ disk[p] = None

NothingMissed == mode = None =>
    \A i \in Id : obj[i].at \in FilePath =>
        \/ rows[obj[i].at].rc = obj[i].c \/ Unfinished(obj[i].at)
        \/ \E j \in Id : obj[j].at \in Path /\ Within(obj[i].at, obj[j].at) /\ Heard(j)

InStepTree(p) ==
    disk[p] = IF Free(p) THEN None ELSE obj[CHOOSE i \in Id : obj[i].at = p].c

(* A file under a row without a baseline waits for `dsync reconcile`.      *)
Waits(p) == p \in FilePath /\ disk[p] # None /\ rows[p].id # None /\ rows[p].lc = None

(* When users, other PCs and failures rest, both sides come to hold the    *)
(* same tree and stay so, but for what waits for a person: folders go when *)
(* what is in them is settled, and nothing is revived or sent for ever.    *)
Converges == <>[](\A p \in Path : InStepTree(p) \/ Waits(p))
-----------------------------------------------------------------------------
(* Why TypeOK holds: the inductive invariant of the proof in               *)
(* TreeSync_proofs.tla.  An id that a row or an action of the plan has is  *)
(* that of an object of the kind of its path.                              *)
Sight == [id : Id \cup {None}, ver : Nat \cup {None}, c : Content \cup {Folder, None}]

Fits(o, i, p) == i # None => i \in Id /\ o[i].c \in Holds(p)

RowsFit(r, o) == \A p \in Path : Fits(o, r[p].id, p)

Receives == {"DOWNLOAD_NEW", "DOWNLOAD_UPDATE", "CONFLICT"}
OfFiles  == Receives \cup {"UPLOAD_NEW", "UPLOAD_VERSION", "REMOTE_MOVE"}

Sensible(a, o) ==
    /\ a.path \in Path /\ a.to \in Path /\ (IsDir(a.to) <=> IsDir(a.path))
    /\ a.e \in Holds(a.path) \cup {None}
    /\ Fits(o, a.id, a.path)
    /\ a.r \in Sight /\ Fits(o, a.r.id, a.path)
    /\ a.r.c \in Holds(a.path) \cup {None} /\ (a.r.id # None => a.r.c # None)
    /\ a.kind \in OfFiles => ~IsDir(a.path)
    /\ a.kind \in DirKinds => IsDir(a.path)
    /\ a.kind \in Receives => a.r.id # None
    /\ a.kind = "CONFLICT" => a.e # None
    /\ a.kind = "REMOTE_MOVE" => a.id # None
    /\ a.kind \in {"UPLOAD_NEW", "UPLOAD_VERSION"} => a.to = a.path

IInv == TypeOK /\ RowsFit(rows, obj) /\ \A a \in todo : Sensible(a, obj)

(* Why BaseSoundTree holds.  What is recorded of an object, content c at   *)
(* version v, is not ahead of it and right while it keeps that version; k  *)
(* are the records known to be wrong.                                      *)
Recorded(i, v, c, o, k) ==
    v # None => /\ v <= o[i].ver
                /\ v = o[i].ver /\ c # None => c = o[i].c \/ <<i, v, c>> \in k

RowsSound(r, o, k) ==
    /\ \A p \in Path : r[p].st = "none" => r[p].id = None
    /\ \A p \in FilePath :
          /\ r[p].st = "synced" => r[p].lc # None
          /\ r[p].id # None => Recorded(r[p].id, r[p].ver, r[p].lc, o, k)

(* What an action for a file knows.  The row of a move is still the one    *)
(* that it was planned for.                                                *)
Informed(a, r, o) ==
    /\ a.r.id # None => a.r.ver # None /\ Recorded(a.r.id, a.r.ver, a.r.c, o, {})
    /\ a.kind = "TOUCH_BASE" => a.e = a.r.c /\ a.e # None
    /\ a.kind \in MoveKinds =>
          a.id # None /\ r[a.path].id = a.id /\ r[a.path].lc # None
    /\ a.kind = "LOCAL_MOVE" => a.r.id = a.id
    /\ a.kind = "REMOTE_MOVE" => a.e = r[a.path].lc

(* A path moves once, and nothing else is done in a folder that moves.     *)
Apart(D) == \A a, b \in D : a.kind \in MoveKinds =>
    /\ b.kind \in MoveKinds /\ b.path = a.path => b = a
    /\ IsDir(a.path) => ~Under(b.path, a.path)

SInv == /\ IInv /\ RowsSound(rows, obj, claimed) /\ Apart(todo)
        /\ \A a \in todo : ~IsDir(a.path) => Informed(a, rows, obj)

(* Why NothingLost holds.  The drive has had what it has, and what a row   *)
(* knows is safe; k are the contents that are.                             *)
DriveKept(o, k) == \A i \in Id : o[i].c \in Content => o[i].c \in k
RowsKept(r, k)  == \A p \in Path : r[p].lc \in k \cup {None}

(* What an action is to find on the disk and to replace or to take away is *)
(* safe, or was not read.                                                  *)
Careful(a, k, scan, blind) ==
    /\ a.kind = "DOWNLOAD_NEW" => a.e = None
    /\ a.kind = "DOWNLOAD_UPDATE" => a.e \in k \cup {scan[x] : x \in blind}
    /\ a.kind = "LOCAL_TRASH" => scan[a.path] # None /\ (IsDir(a.path) \/ a.e \in k)
    /\ a.kind = "TOUCH_BASE" => IsDir(a.path) \/ a.e \in k

KInv == /\ SInv /\ DriveKept(obj, kept) /\ RowsKept(rows, kept \cup Claimed)
        /\ \A a \in todo : Careful(a, kept \cup Claimed, snap, unread)
=============================================================================
