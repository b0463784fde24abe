----------------------------- MODULE ChangeFeed -----------------------------
(***************************************************************************)
(* How a sync pass learns what happened on the drive: it reads the changes *)
(* since its cursor page by page (DriveAPI.iter_changes, RemoteCollector.  *)
(* delta) or takes a new cursor and lists every folder (advance_to_tip,    *)
(* walk), one request after another while other PCs write, and saves the   *)
(* cursor when the work is done (cli/main.py).  CatchUp says what that is  *)
(* good for.                                                               *)
(*                                                                         *)
(* The drive is a root with files and one folder.  The changes feed names  *)
(* an object once, at its latest revision; the answer to a request is what *)
(* the drive is at that instant.  A pass keeps what it heard by path and   *)
(* not by id (RemoteView), and what the differ makes of that for the rows  *)
(* of each file is taken for done: how, FileSync and TreeSync are about,   *)
(* and so is what the folder's own row does to the rows under it.  A       *)
(* request either gets its answer or the pass ends.                        *)
(***************************************************************************)
EXTENDS Naturals, FiniteSets, Sequences, SequencesExt

CONSTANTS
    File,           \* files: ids, listed in their order
    Dir,            \* the folder, an id too
    Label,          \* the names it may have
    Root,           \* the synced folder itself
    None,           \* not there, never or no longer
    Out,            \* on the drive, outside the synced folder
    Silent,         \* nothing was heard
    FeedSize,       \* changes asked for in one request
    ListSize,       \* files asked for in one request
    MaxItems,       \* changes a pass takes
    MaxPages,       \* requests for changes a pass makes
    MaxRev,         \* bound: the drive's revisions
    MaxFaults,      \* bound: what goes wrong in passes
    Starts          \* what profiles begin with: <<where files are, the folder's
                    \* name, the last revision, has it been synced?>>

Obj == File \cup {Dir}

FileState == [in : Label \cup {Root}, v : Nat]

ASSUME IdAssumption == /\ File \subseteq Nat /\ IsFiniteSet(File)
                       /\ Dir \in Nat \ File
ASSUME NameAssumption ==
    /\ {Root, None, Out, Silent} \cap (Label \cup Nat) = {}
    /\ Cardinality({Root, None, Out, Silent}) = 4
    /\ \A x \in {Root, None, Out, Silent} : x \notin FileState
ASSUME SizeAssumption == /\ {FeedSize, ListSize, MaxItems, MaxPages} \subseteq Nat \ {0}
                         /\ {MaxRev, MaxFaults} \subseteq Nat
ASSUME StartAssumption ==
    Starts \subseteq [File -> {Root, Dir}] \X Label \X (Nat \ {0}) \X BOOLEAN

VARIABLES
    at,             \* File -> Root, Dir, Out or None
    label,          \* the folder's name, None when it is in the trash
    ver,            \* File -> the version of its contents
    rev,            \* Obj -> the revision of its last change
    top,            \* the last revision
    told,           \* File -> the rows the profile's base has of it
    cursor,         \* the saved cursor
    lost,           \* files whose news was lost (a history variable)
    pc,             \* where the pass is
    whole,          \* is it a full pass?
    from,           \* the cursor of the next request for changes
    page,           \* the changes of the last answer, not yet taken
    last, safe,     \* the last revision taken; the last taken to its end
    seen,           \* changes taken
    asked,          \* requests for changes
    tip,            \* the search for the tip: [lo, hi]
    list,           \* the listing: [dir, in, off, got]
    deep,           \* the name under which the folder is listed, or None
    heard,          \* File -> what the pass's view has of it
    missed,         \* files whose news this pass has lost so far
    left            \* faults left

drive == <<at, label, ver, rev, top>>
base  == <<told, cursor, lost>>
feed  == <<from, page, last, safe, seen, asked>>
walk  == <<list, deep>>
vars  == <<drive, base, pc, whole, feed, tip, walk, heard, missed, left>>

Pc == {"idle", "page", "item", "list", "ask", "tip", "double", "bisect", "sure", "act"}

NoList == [dir |-> None, in |-> None, off |-> 0, got |-> {}]
NoTip  == [lo |-> 0, hi |-> 0]

(* What a view has of a file: the places it was seen at, in the order in   *)
(* which they were first named; what became of the place the base knows,   *)
(* deleted (None) or moved out (Out); and whether it was asked for.        *)
Heard   == [places : Seq(FileState), gone : {Silent, None, Out}, probed : BOOLEAN]
Unheard == [places |-> <<>>, gone |-> Silent, probed |-> FALSE]
Nothing == [o \in File |-> Unheard]

(* A file as any answer describes it, and what its news is about: a folder *)
(* that changes its name changes the path of everything in it, and none of *)
(* it has a change of its own (R8).                                        *)
Is(o) == IF at[o] \in {None, Out} THEN at[o]
         ELSE [in |-> IF at[o] = Root THEN Root ELSE label, v |-> ver[o]]

NewsOf(o) == IF at[o] = Dir /\ rev[Dir] > rev[o] THEN rev[Dir] ELSE rev[o]

Inside == {o \in File : at[o] = Dir}

Rest == /\ whole = FALSE /\ from = 0 /\ page = {} /\ last = 0 /\ safe = 0
        /\ seen = 0 /\ asked = 0 /\ tip = NoTip /\ list = NoList /\ deep = None
        /\ heard = Nothing /\ missed = {}

Rests == /\ pc' = "idle" /\ whole' = FALSE /\ from' = 0 /\ page' = {}
         /\ last' = 0 /\ safe' = 0 /\ seen' = 0 /\ asked' = 0 /\ tip' = NoTip
         /\ list' = NoList /\ deep' = None /\ heard' = Nothing /\ missed' = {}

(* A profile in step with the drive, or one that has not synced yet.       *)
Init ==
    /\ \E s \in Starts :
          /\ at = s[1] /\ label = s[2] /\ top = s[3]
          /\ ver = [o \in File |-> 0] /\ rev = [o \in Obj |-> top]
          /\ cursor = (IF s[4] THEN top ELSE 0)
          /\ told = [o \in File |-> IF s[4] THEN {Is(o)} ELSE {}]
    /\ lost = {} /\ left = MaxFaults
    /\ pc = "idle" /\ Rest
-----------------------------------------------------------------------------
(* Other PCs.  Each act is one revision, or two: the drive gives a folder  *)
(* and what it takes along to the trash one revision or one after another. *)
Changes(S) ==
    /\ top < MaxRev /\ top' = top + 1
    /\ rev' = [o \in Obj |-> IF o \in S THEN top' ELSE rev[o]]
    /\ UNCHANGED <<base, pc, whole, feed, tip, walk, heard, missed, left>>

There(d) == d = Dir => label # None

(* A new file, or one out of the trash.                                    *)
Create(o) ==
    /\ at[o] = None
    /\ \E d \in {Root, Dir} : There(d) /\ at' = [at EXCEPT ![o] = d]
    /\ Changes({o}) /\ UNCHANGED <<label, ver>>

Edit(o) ==
    /\ at[o] \in {Root, Dir}
    /\ ver' = [ver EXCEPT ![o] = @ + 1]
    /\ Changes({o}) /\ UNCHANGED <<at, label>>

Move(o) ==
    /\ at[o] # None
    /\ \E d \in {Root, Dir, Out} \ {at[o]} : There(d) /\ at' = [at EXCEPT ![o] = d]
    /\ Changes({o}) /\ UNCHANGED <<label, ver>>

Trash(o) ==
    /\ at[o] \in {Root, Dir}
    /\ at' = [at EXCEPT ![o] = None]
    /\ Changes({o}) /\ UNCHANGED <<label, ver>>

Rename ==
    /\ label # None
    /\ label' \in Label \ {label}
    /\ Changes({Dir}) /\ UNCHANGED <<at, ver>>

(* No revision has more changes than a pass takes.                         *)
TrashDir ==
    /\ label # None /\ label' = None
    /\ at' = [o \in File |-> IF at[o] = Dir THEN None ELSE at[o]]
    /\ \/ Cardinality(Inside) < MaxItems /\ Changes(Inside \cup {Dir})
       \/ /\ Cardinality(Inside) \in 1 .. MaxItems /\ top + 2 <= MaxRev
          /\ top' = top + 2
          /\ rev' = [o \in Obj |-> IF o = Dir THEN top + 2
                                   ELSE IF at[o] = Dir THEN top + 1 ELSE rev[o]]
          /\ UNCHANGED <<base, pc, whole, feed, tip, walk, heard, missed, left>>
    /\ UNCHANGED ver

Others == \/ \E o \in File : Create(o) \/ Edit(o) \/ Move(o) \/ Trash(o)
          \/ Rename \/ TrashDir
-----------------------------------------------------------------------------
(* A pass begins, with a delta or, always the first time, in full.         *)
BeginDelta ==
    /\ pc = "idle" /\ cursor > 0
    /\ pc' = "page" /\ from' = cursor /\ last' = cursor /\ safe' = cursor
    /\ UNCHANGED <<drive, base, whole, page, seen, asked, tip, walk, heard,
                   missed, left>>

BeginFull ==
    /\ pc = "idle"
    /\ pc' = "tip" /\ whole' = TRUE /\ tip' = [lo |-> cursor, hi |-> cursor]
    /\ UNCHANGED <<drive, base, feed, walk, heard, missed, left>>
-----------------------------------------------------------------------------
(* Changes: the objects with a later revision, in order.  A page is the    *)
(* first of them, as many as the server likes (R11).                       *)
After(r) == {o \in Obj : rev[o] > r}

Before(a, b) == a.rev < b.rev \/ (a.rev = b.rev /\ a.o < b.o)

Item(o) == [o |-> o, rev |-> rev[o], is |-> IF o = Dir THEN label ELSE Is(o)]

IsPage(S, r) ==
    LET all == {Item(o) : o \in After(r)}
    IN  /\ S \subseteq all /\ S # {} /\ Cardinality(S) <= FeedSize
        /\ \A a \in S : \A b \in all \ S : Before(a, b)

Final(S)  == CHOOSE a \in S : \A b \in S \ {a} : Before(b, a)
Foremost(S) == CHOOSE a \in S : \A b \in S \ {a} : Before(a, b)

(* The next request names the revision only: what the page has left of its *)
(* last revision is not asked for again.                                   *)
Severed(S) == {o \in File : rev[o] = Final(S).rev /\ o \notin {a.o : a \in S}}

(* All that is to be read has been read.                                   *)
ReadUp == /\ pc' = "ask" /\ page' = {}
          /\ from' = 0 /\ safe' = 0 /\ seen' = 0 /\ asked' = 0

GetChanges ==
    /\ pc = "page"
    /\ IF After(from) = {} \/ asked = MaxPages
       THEN ReadUp /\ UNCHANGED <<last, missed>>
       ELSE /\ \E S \in SUBSET {Item(o) : o \in After(from)} :
                 /\ IsPage(S, from)
                 /\ page' = S /\ from' = Final(S).rev
                 /\ missed' = missed \cup Severed(S)
            /\ asked' = asked + 1 /\ pc' = "item"
            /\ UNCHANGED <<last, safe, seen>>
    /\ UNCHANGED <<drive, base, whole, tip, walk, heard, left>>

(* Mutations: the cursor stays at what was taken; it always goes back.     *)
CutAtLast(a) == last
CutAtSafe(a) == safe

(* The cut after MaxItems: the cursor goes back to the last revision that  *)
(* was taken to its end.                                                   *)
CutAt(a) == IF a.rev <= last THEN safe ELSE last

Truncate ==
    /\ pc = "item" /\ seen = MaxItems
    /\ last' = CutAt(Foremost(page)) /\ ReadUp
    /\ UNCHANGED <<drive, base, whole, tip, walk, heard, missed, left>>

(* The row by which the base knows an id: the first, when there are two.   *)
Row(o)   == CHOOSE r \in told[o] : TRUE
Known(o) == IF told[o] = {} THEN None ELSE Row(o).in

(* A dict keeps a key where it was first put.                              *)
Put(s, e) == IF \E n \in DOMAIN s : s[n].in = e.in
             THEN [n \in DOMAIN s |-> IF s[n].in = e.in THEN e ELSE s[n]]
             ELSE Append(s, e)

Drop(s, d) == IF \E n \in DOMAIN s : s[n].in = d
              THEN RemoveAt(s, CHOOSE n \in DOMAIN s : s[n].in = d) ELSE s

(* The view is kept by path: what takes a file away says only its id, so it*)
(* means something when the base knows that id (B3), and then it is put at *)
(* the path the base knows.                                                *)
Hears(o, x) ==
    IF x \in {None, Out}
    THEN IF told[o] = {} THEN heard[o]
         ELSE IF x = None
         THEN [heard[o] EXCEPT !.gone = None, !.places = Drop(@, Known(o))]
         ELSE [heard[o] EXCEPT !.gone = IF @ = None THEN None ELSE Out]
    ELSE [heard[o] EXCEPT !.places = Put(@, x),
                          !.gone = IF x.in = Known(o) THEN Silent ELSE @]

(* An older entry, at a place the file has been to meanwhile, is left in   *)
(* the view and will be taken for the latest.                              *)
Outlived(o, x) ==
    LET s == Hears(o, x).places
    IN  IF x \in {None, Out} THEN x = None /\ told[o] # {} /\ s # <<>>
                             ELSE Last(s).in # x.in

Takes(a) ==
    /\ pc = "item" /\ seen < MaxItems
    /\ a = Foremost(page)
    /\ safe' = (IF a.rev > last THEN last ELSE safe)
    /\ last' = a.rev /\ seen' = seen + 1 /\ page' = page \ {a}
    /\ UNCHANGED <<drive, base, whole, from, asked, tip, left>>

Onward(rest) == IF rest = {} THEN "page" ELSE "item"

TakeFile(a) ==
    /\ a.o \in File /\ Takes(a)
    /\ heard' = [heard EXCEPT ![a.o] = Hears(a.o, a.is)]
    /\ missed' = (missed \ {a.o}) \cup {o \in {a.o} : Outlived(o, a.is)}
    /\ pc' = Onward(page') /\ UNCHANGED walk

(* A folder is listed again with all that is in it (B4), once in a pass.   *)
Relists(a) == a.is # None /\ deep = None

TakeDir(a) ==
    /\ a.o = Dir /\ Takes(a)
    /\ IF Relists(a)
       THEN /\ deep' = a.is /\ pc' = "list"
            /\ list' = [dir |-> Dir, in |-> a.is, off |-> 0, got |-> {}]
            /\ UNCHANGED missed
       ELSE /\ pc' = Onward(page') /\ UNCHANGED walk
            /\ missed' = IF a.is = None THEN missed ELSE missed \cup Inside
    /\ UNCHANGED heard
-----------------------------------------------------------------------------
(* A listing: the children of a folder by page number, until as many were  *)
(* seen as the last answer counted.  What has moved up to an earlier page  *)
(* meanwhile is not seen.                                                  *)
Children(d) == {o \in File : at[o] = d}
                 \cup (IF d = Root /\ label # None THEN {Dir} ELSE {})

Place(o, S) == Cardinality({b \in S : b < o})

OnPage(S, off) == {o \in S : Place(o, S) >= off /\ Place(o, S) < off + ListSize}

Slipped(S) == {o \in S : Place(o, S) < list.off /\ o \notin list.got}

(* Files that go unheard with an object: a folder that is not seen is not  *)
(* listed.                                                                 *)
With(S) == (S \cap File) \cup (IF Dir \in S THEN Inside ELSE {})

Entry(o) == [in |-> list.in, v |-> ver[o]]

ListingDone ==
    IF whole
    THEN IF list.dir = Root /\ deep' # None
         THEN pc' = "list" /\ list' = [dir |-> Dir, in |-> deep', off |-> 0, got |-> {}]
         ELSE pc' = "act" /\ list' = NoList
    ELSE pc' = Onward(page) /\ list' = NoList

ListPage ==
    LET S == Children(list.dir)
        P == OnPage(S, list.off)
        n == list.off + Cardinality(P)
    IN  /\ pc = "list"
        /\ heard' = [o \in File |-> IF o \in P THEN Hears(o, Entry(o)) ELSE heard[o]]
        /\ missed' = (missed \ P) \cup With(Slipped(S))
                       \cup {o \in P \cap File : Outlived(o, Entry(o))}
        /\ deep' = IF Dir \in P THEN label ELSE deep
        /\ IF P = {} \/ n >= Cardinality(S)
           THEN ListingDone
           ELSE pc' = "list" /\ list' = [list EXCEPT !.off = n, !.got = @ \cup P]
        /\ UNCHANGED <<drive, base, whole, feed, tip, left>>

(* A listing after a change may fail: the pass goes on without it.         *)
RelistFails ==
    /\ pc = "list" /\ ~whole /\ left > 0 /\ left' = left - 1
    /\ missed' = missed \cup (Inside \ list.got)
    /\ pc' = Onward(page) /\ list' = NoList
    /\ UNCHANGED <<drive, base, whole, feed, tip, deep, heard>>
-----------------------------------------------------------------------------
(* Files that are asked for one by one: unfinished rows, and what is gone  *)
(* from the disk; each once, and only when nothing was heard of the place  *)
(* the base knows.  There is no telling what becomes of one in the trash.  *)
Observed(o) == \/ heard[o].gone # Silent
               \/ \E e \in ToSet(heard[o].places) : e.in = Known(o)

Probe(o) ==
    /\ pc = "ask" /\ told[o] # {} /\ ~Observed(o) /\ ~heard[o].probed
    /\ at[o] # None
    /\ heard' = [heard EXCEPT ![o] = [Hears(o, Is(o)) EXCEPT !.probed = TRUE]]
    /\ missed' = (missed \ {o}) \cup {b \in {o} : Outlived(b, Is(b))}
    /\ UNCHANGED <<drive, base, pc, whole, feed, tip, walk, left>>

Asked ==
    /\ pc = "ask" /\ pc' = "act"
    /\ UNCHANGED <<drive, base, whole, feed, tip, walk, heard, missed, left>>
-----------------------------------------------------------------------------
(* advance_to_tip: is anything after lo?  Double until nothing is after hi,*)
(* close in, and make sure.                                                *)
Search(lo, hi) == tip' = [lo |-> lo, hi |-> hi]

TipKept == UNCHANGED <<drive, base, whole, feed, heard, missed, left>>

(* The walk of the root begins.                                            *)
WalkRoot == /\ pc' = "list" /\ UNCHANGED deep
            /\ list' = [dir |-> Root, in |-> Root, off |-> 0, got |-> {}]

AnyAfter ==
    /\ pc = "tip"
    /\ IF After(tip.lo) = {}
       THEN WalkRoot /\ UNCHANGED tip
       ELSE /\ pc' = "double" /\ UNCHANGED walk
            /\ Search(tip.lo, 2 * (IF tip.lo = 0 THEN 1 ELSE tip.lo))
    /\ TipKept

Double ==
    /\ pc = "double"
    /\ IF After(tip.hi) # {} THEN Search(tip.hi, 2 * tip.hi) /\ UNCHANGED pc
                             ELSE pc' = "bisect" /\ UNCHANGED tip
    /\ UNCHANGED walk /\ TipKept

(* Mutation: one revision is left between them.                            *)
BisectEarly ==
    LET mid == (tip.lo + tip.hi) \div 2
    IN  /\ pc = "bisect"
        /\ IF tip.hi - tip.lo <= 2 THEN pc' = "sure" /\ UNCHANGED tip
           ELSE /\ IF After(mid) # {} THEN Search(mid, tip.hi) ELSE Search(tip.lo, mid)
                /\ UNCHANGED pc
        /\ UNCHANGED walk /\ TipKept

Bisect ==
    LET mid == (tip.lo + tip.hi) \div 2
    IN  /\ pc = "bisect"
        /\ IF tip.hi - tip.lo <= 1 THEN pc' = "sure" /\ UNCHANGED tip
           ELSE /\ IF After(mid) # {} THEN Search(mid, tip.hi) ELSE Search(tip.lo, mid)
                /\ UNCHANGED pc
        /\ UNCHANGED walk /\ TipKept

MakeSure ==
    /\ pc = "sure"
    /\ IF After(tip.hi) = {}
       THEN WalkRoot /\ Search(tip.hi, tip.hi)
       ELSE /\ \E o \in After(tip.hi) : Search(tip.hi, rev[o])
            /\ UNCHANGED <<pc, walk>>
    /\ TipKept
-----------------------------------------------------------------------------
(* What the differ makes of the view (differ.py:236).  The last entry is   *)
(* what an id is by (by_file_id).  A row elsewhere has moved there, which  *)
(* nobody asks the drive about, and whatever was heard at its own place is *)
(* not looked at; of two rows one finds the place taken.                   *)
Latest(o) == Last(heard[o].places)

Places(S) == {e.in : e \in S}

Moves(o) == /\ told[o] # {} /\ heard[o].places # <<>>
            /\ Latest(o).in \notin Places(told[o])

(* What is in the trash by now cannot be received, but it can be moved.    *)
Moved(o) == (told[o] \ {Row(o)})
              \cup {IF at[o] = None THEN [Latest(o) EXCEPT !.v = Row(o).v] ELSE Latest(o)}

(* A row in its place: a deletion is done, what has left the folder is only*)
(* reported, and absence from a full view is a deletion.                   *)
Stays(o, r) ==
    LET seenHere == {e \in ToSet(heard[o].places) : e.in = r.in}
    IN  IF r.in = Known(o) /\ heard[o].gone # Silent
        THEN IF heard[o].gone = None THEN {} ELSE {r}
        ELSE IF seenHere # {} THEN IF at[o] = None THEN {r} ELSE seenHere
        ELSE IF whole THEN {} ELSE {r}

(* Entries where no row is are new files.                                  *)
New(o) == IF at[o] = None THEN {}
          ELSE {e \in ToSet(heard[o].places) : e.in \notin Places(told[o])}

(* Mutation: a file that left the folder gets a row that says so.          *)
LearnedOut(o) ==
    New(o) \cup IF heard[o].gone = Out THEN {Out}
               ELSE IF Moves(o) THEN Moved(o) ELSE UNION {Stays(o, r) : r \in told[o]}

Learned(o) ==
    New(o) \cup IF Moves(o) THEN Moved(o) ELSE UNION {Stays(o, r) : r \in told[o]}

Cursor == IF whole THEN tip.lo ELSE last

Mistold(c) == {o \in missed : NewsOf(o) <= c}

(* Two rows of one id: delta passes keep both.                             *)
Doubled(S) == \E r, s \in S : r # s

(* The pass has nothing to say that puts a lost file right.                *)
NotRighted(o) == ~whole /\ (heard[o] = Unheard \/ Doubled(told[o]))

(* The pass does what it was told and saves its cursor.                    *)
Save ==
    /\ pc = "act"
    /\ told' = [o \in File |-> Learned(o)]
    /\ cursor' = Cursor
    /\ lost' = {o \in lost : NotRighted(o)} \cup Mistold(Cursor)
                 \cup {o \in File : Doubled(Learned(o))}
    /\ Rests /\ UNCHANGED <<drive, left>>

(* The process ends, or a request has no answer in all its retries.        *)
Abort ==
    /\ pc \notin {"idle", "act"} /\ left > 0 /\ left' = left - 1
    /\ Rests /\ UNCHANGED <<drive, base>>

(* The process ends with some of the work done.                            *)
BreakOff ==
    /\ pc = "act" /\ left > 0 /\ left' = left - 1
    /\ \E S \in SUBSET File :
         /\ told' = [o \in File |-> IF o \in S THEN Learned(o) ELSE told[o]]
         /\ lost' = lost \cup (missed \cap S) \cup {o \in S : Doubled(Learned(o))}
    /\ Rests /\ UNCHANGED <<drive, cursor>>

Step == \/ GetChanges \/ Truncate \/ \E a \in page : TakeFile(a) \/ TakeDir(a)
        \/ ListPage \/ Asked \/ AnyAfter \/ Double \/ Bisect \/ MakeSure \/ Save

Next == \/ Others \/ BeginDelta \/ BeginFull \/ Step
        \/ RelistFails \/ (\E o \in File : Probe(o)) \/ Abort \/ BreakOff

Spec == Init /\ [][Next]_vars

(* Passes go on and begin again: the runner starts one every period.       *)
FairSpec == Spec /\ WF_vars(Step) /\ WF_vars(BeginDelta \/ BeginFull)
-----------------------------------------------------------------------------
TypeOK ==
    /\ at \in [File -> {Root, Dir, Out, None}] /\ label \in Label \cup {None}
    /\ ver \in [File -> Nat] /\ rev \in [Obj -> Nat] /\ top \in Nat
    /\ told \in [File -> SUBSET FileState] /\ cursor \in Nat
    /\ lost \subseteq File /\ missed \subseteq File
    /\ pc \in Pc /\ whole \in BOOLEAN
    /\ {from, last, safe, seen, asked, left} \subseteq Nat
    /\ page \subseteq [o : Obj, rev : Nat,
                       is : FileState \cup Label \cup {None, Out}]
    /\ tip \in [lo : Nat, hi : Nat]
    /\ list \in [dir : {Root, Dir, None}, in : Label \cup {Root, None},
                 off : Nat, got : SUBSET Obj]
    /\ deep \in Label \cup {None}
    /\ heard \in [File -> Heard]
    /\ seen <= MaxItems /\ asked <= MaxPages

(* Neither reading nor searching leads past what the drive has given out:  *)
(* a change to come is always after the cursor, whatever is written between*)
(* the requests (drive.py:542: above the tip it cannot be, in principle).  *)
NeverAhead == /\ cursor <= top /\ last <= top
              /\ whole /\ pc \in {"list", "act"} => tip.lo <= top

CU == INSTANCE CatchUp WITH
        State <- FileState, now <- [o \in File |-> Is(o)],
        rev <- [o \in File |-> NewsOf(o)]

(* CatchUp's promise, kept by every step: what is known of each file is    *)
(* what the drive has, unless a later change is still to be heard or the   *)
(* news was lost in one of the ways `missed` names; and a delta pass loses *)
(* only what was new to it.                                                *)
Promise == CU!Spec

(* When nobody writes any more and no more passes fail, each file in the   *)
(* folder is known as it is, but for those whose news was lost.            *)
CatchesUp == <>[](\A o \in File \ lost : Is(o) # Out => told[o] = CU!Known(o))
=============================================================================
