------------------------- MODULE ChangeFeed_proofs -------------------------
(***************************************************************************)
(* Proofs about ChangeFeed for every drive, every size of pages, every     *)
(* limit on what a pass takes and every number of faults: it implements    *)
(* CatchUp.                                                                *)
(*                                                                         *)
(* The argument: for every file that is not excused, what the pass has     *)
(* heard is right up to the revision it has read to (Read).  Excused are   *)
(* the files whose news was lost, or outlived by an older entry of the     *)
(* view, and those whose news is in the pass's hands and not taken yet.    *)
(* When the pass ends its hands are empty.  A file that would get a second *)
(* row is lost at that moment, and Right says nothing of it.               *)
(***************************************************************************)
EXTENDS ChangeFeed, SequenceTheorems, FiniteSetTheorems, WellFoundedInduction, TLAPS

(* The rows the pass would give a file, right up to revision k.            *)
Right(o, k) == NewsOf(o) <= k /\ Is(o) # Out /\ ~Doubled(Learned(o))
                 => Learned(o) = CU!Known(o)

(* The revision up to which the pass has read: the next request asks for   *)
(* what comes after it; after a cut, what it will save.                    *)
Reading == {"page", "item", "list"}
Read == IF whole THEN tip.lo ELSE IF pc \in Reading THEN from ELSE last

(* What the pass has in its hands and has not taken yet.                   *)
OnPaper(o) == \E a \in page : a.o = o \/ (a.o = Dir /\ at[o] = Dir)

Unlisted(o) ==
    /\ pc = "list"
    /\ (at[o] = list.dir /\ o \notin list.got) \/ (list.dir = Root /\ at[o] = Dir)

Excused(o) == \/ o \in missed \/ OnPaper(o) \/ Unlisted(o)
              \/ o \in lost /\ NotRighted(o)

(* A file and the folder share a revision when they went together.         *)
Together(k) == label # None => \A o \in File : rev[o] = rev[Dir] => rev[o] <= k

DriveInv ==
    /\ \A o \in Obj : 0 < rev[o] /\ rev[o] <= top
    /\ label = None => Inside = {}
    /\ cursor > 0 => Together(cursor)

BaseInv == /\ cursor <= top
           /\ \A o \in File \ lost : CU!Promised(o, told, cursor)
           /\ \A o \in File \ lost : ~Doubled(told[o])

IdleInv == pc = "idle" => Rest

ItemInv(a) ==
    /\ cursor < a.rev /\ last <= a.rev /\ a.rev <= from /\ a.rev <= rev[a.o]
    /\ a.rev = last => safe < last
    /\ a.o \in File => /\ a.is \in FileState \cup {None, Out}
                       /\ a.is = Is(a.o) \/ NewsOf(a.o) > from
    /\ a.o = Dir => /\ a.is \in Label \cup {None}
                    /\ a.is = label \/ rev[Dir] > from
                    /\ a.rev = last => label = None
                    /\ \A b \in page : a.rev = b.rev /\ b.o # Dir => label = None

(* A file without news was heard of, if at all, where it is.               *)
Heeded == \A o \in File : \/ NewsOf(o) > cursor
                          \/ \A n \in DOMAIN heard[o].places : heard[o].places[n] = Is(o)

DeltaInv ==
    pc # "idle" /\ ~whole =>
      /\ pc \in Reading \cup {"ask", "act"}
      /\ 0 < cursor /\ cursor <= last /\ last <= top
      /\ pc \in Reading => /\ cursor <= safe /\ safe <= last
                           /\ last <= from /\ from <= top
                           /\ page = {} => last = from
                           /\ page # {} => \E a \in page : a.rev = from
      /\ pc = "item" => page # {}
      /\ pc \notin {"item", "list"} => page = {}
      /\ \A a \in page : ItemInv(a) /\ \A b \in page : a.o = b.o => a = b
      /\ \A o \in missed : NewsOf(o) > cursor
      /\ Heeded
      /\ pc = "list" => /\ list.dir = Dir /\ list.in \in Label /\ rev[Dir] > cursor
                        /\ list.in = label \/ rev[Dir] > from

FullInv ==
    whole =>
      /\ pc \in {"tip", "double", "bisect", "sure", "list", "act"}
      /\ page = {} /\ last = 0 /\ cursor <= tip.lo /\ tip.lo <= tip.hi
      /\ pc \notin {"list", "act"} => heard = Nothing /\ missed = {} /\ deep = None
      /\ pc = "tip" => tip.lo <= top
      /\ pc \in {"double", "bisect"} => tip.lo < top
      /\ pc = "sure" => tip.hi <= top
      /\ pc \in {"list", "act"} => /\ tip.lo <= top /\ 0 < tip.lo /\ Together(tip.lo)
      /\ pc = "list" => 
           /\ \/ list.dir = Root /\ list.in = Root
              \/ list.dir = Dir /\ list.in \in Label /\ (list.in = label \/ rev[Dir] > tip.lo)
           /\ deep # None => deep = label \/ rev[Dir] > tip.lo
           /\ list.dir = Root /\ Dir \in list.got => deep # None

PassInv == pc \in Reading \cup {"ask", "act"} =>
             \A o \in File : Excused(o) \/ Right(o, Read)

IInv == DriveInv /\ BaseInv /\ IdleInv /\ DeltaInv /\ FullInv /\ PassInv
-----------------------------------------------------------------------------
(* Numbers and order.                                                      *)

(* A set of numbers has a least one.                                       *)
LEMMA Least ==
    ASSUME NEW S \in SUBSET Nat, S # {}
    PROVE  \E n \in S : \A m \in S : n <= m
<1> DEFINE R == OpToRel(<, Nat)
<1>1. IsWellFoundedOn(R, Nat)
  BY NatLessThanWellFounded
<1>2. \A m, k \in Nat : m < k => <<m, k>> \in R
  BY DEF OpToRel
<1> HIDE DEF R
<1>3. PICK n \in S : \A m \in S : <<m, n>> \notin R
  BY <1>1, WFMin
<1>4. \A m \in S : ~ (m < n)
  BY <1>2, <1>3
<1> QED BY <1>4

(* A bounded one has a greatest.                                           *)
LEMMA Greatest ==
    ASSUME NEW S \in SUBSET Nat, S # {}, NEW k \in Nat, \A m \in S : m <= k
    PROVE  \E n \in S : \A m \in S : m <= n
<1> DEFINE D == {k - m : m \in S}
<1>1. D \in SUBSET Nat /\ D # {}
  <2>1. \A m \in S : m \in Nat /\ m <= k /\ k - m \in Nat
    OBVIOUS
  <2> QED BY <2>1
<1>2. PICK j \in D : \A i \in D : j <= i
  <2> HIDE DEF D
  <2> QED BY <1>1, Least
<1>3. PICK n \in S : j = k - n
  OBVIOUS
<1>4. ASSUME NEW m \in S PROVE m <= n
  <2>1. k - m \in D
    OBVIOUS
  <2>2. k - n <= k - m
    BY <1>2, <1>3, <2>1
  <2> QED BY <2>2
<1> QED BY <1>4

(* So has one that is finite: a least set of the later ones is one number. *)
LEMMA LastOf ==
    ASSUME NEW S \in SUBSET Nat, S # {}, IsFiniteSet(S)
    PROVE  \E n \in S : \A m \in S : m <= n
<1> DEFINE Ends == {D \in SUBSET S : D # {} /\ \A i \in D : \A j \in S : i <= j => j \in D}
           R == StrictSubsetOrdering(S)
<1>1. IsWellFoundedOn(R, SUBSET S)
  BY FS_StrictSubsetOrderingWellFounded, FS_FiniteSubsetsOfFinite
<1>2. Ends \subseteq SUBSET S /\ S \in Ends
  OBVIOUS
<1>3. \A C, D \in SUBSET S : C \subseteq D /\ C # D => <<C, D>> \in R
  BY DEF StrictSubsetOrdering
<1>4. PICK D \in Ends : \A C \in Ends : <<C, D>> \notin R
  <2> HIDE DEF R, Ends
  <2> QED BY <1>1, <1>2, WFMin
<1> HIDE DEF R
<1>5. PICK n \in D : \A m \in D : n <= m
  BY Least
<1>6. D \ {n} \notin Ends
  BY <1>3, <1>4
<1>7. \A i \in D \ {n} : \A j \in S : i <= j => j \in D \ {n}
  BY <1>5
<1>8. D = {n}
  BY <1>6, <1>7
<1> QED BY <1>8

(* What the changes of an answer are ordered by.                           *)
Ordered(S, k) == S \subseteq [o : Obj, rev : Nat,
                              is : FileState \cup Label \cup {None, Out}]
                 /\ \A a \in S : a.rev <= k

LEMMA ObjNat == Obj \subseteq Nat /\ File \subseteq Obj /\ Dir \in Obj /\ Dir \notin File
BY IdAssumption DEF Obj

(* Different changes of an answer concern different objects, so one comes  *)
(* first and one comes last.                                               *)
LEMMA ForemostIs ==
    ASSUME NEW S, NEW k \in Nat, Ordered(S, k), S # {},
           \A a, b \in S : a.o = b.o => a = b
    PROVE  /\ Foremost(S) \in S
           /\ \A b \in S : Foremost(S).rev <= b.rev
<1>0. \A a \in S : a.rev \in Nat /\ a.o \in Obj /\ a.o \in Nat
  BY ObjNat DEF Ordered
<1> DEFINE Revs == {a.rev : a \in S}
<1>1. PICK r \in Revs : \A m \in Revs : r <= m
  <2>1. Revs \in SUBSET Nat /\ Revs # {}
    BY <1>0
  <2> HIDE DEF Revs
  <2> QED BY <2>1, Least
<1> DEFINE Objs == {a.o : a \in {b \in S : b.rev = r}}
<1>2. PICK n \in Objs : \A m \in Objs : n <= m
  <2>1. Objs \in SUBSET Nat /\ Objs # {}
    BY <1>0
  <2> HIDE DEF Objs
  <2> QED BY <2>1, Least
<1>3. PICK a \in S : a.rev = r /\ a.o = n
  OBVIOUS
<1>4. \A b \in S \ {a} : Before(a, b)
  <2> TAKE b \in S \ {a}
  <2>1. b.rev \in Nat /\ a.rev \in Nat /\ a.rev <= b.rev /\ b.o \in Nat /\ a.o \in Nat
    BY <1>0, <1>1, <1>3
  <2>2. CASE b.rev = r
    <3>1. n <= b.o
      BY <1>2, <2>2
    <3> QED BY <1>3, <2>1, <2>2, <3>1 DEF Before
  <2> QED BY <1>3, <2>1, <2>2 DEF Before
<1>5. /\ Foremost(S) \in S
      /\ \A b \in S \ {Foremost(S)} : Before(Foremost(S), b)
  BY <1>4, Zenon DEF Foremost
<1> QED BY <1>5 DEF Before, Ordered

LEMMA FinalIs ==
    ASSUME NEW S, NEW k \in Nat, Ordered(S, k), S # {},
           \A a, b \in S : a.o = b.o => a = b
    PROVE  /\ Final(S) \in S
           /\ \A b \in S \ {Final(S)} : Before(b, Final(S))
<1>0. \A a \in S : a.rev \in Nat /\ a.o \in Obj /\ a.o \in Nat
  BY ObjNat DEF Ordered
<1> DEFINE Revs == {a.rev : a \in S}
<1>1. PICK r \in Revs : \A m \in Revs : m <= r
  <2>1. Revs \in SUBSET Nat /\ Revs # {} /\ \A m \in Revs : m <= k
    BY <1>0 DEF Ordered
  <2> HIDE DEF Revs
  <2> QED BY <2>1, Greatest
<1> DEFINE Objs == {a.o : a \in {b \in S : b.rev = r}}
<1>2. PICK n \in Objs : \A m \in Objs : m <= n
  <2>1. Objs # {} /\ Objs \in SUBSET Obj /\ Objs \in SUBSET Nat
    BY <1>0
  <2>2. IsFiniteSet(Obj)
    BY IdAssumption, FS_AddElement DEF Obj
  <2> HIDE DEF Objs
  <2>3. IsFiniteSet(Objs)
    BY <2>1, <2>2, FS_Subset
  <2> QED BY <2>1, <2>3, LastOf
<1>3. PICK a \in S : a.rev = r /\ a.o = n
  OBVIOUS
<1>4. \A b \in S \ {a} : Before(b, a)
  <2> TAKE b \in S \ {a}
  <2>1. b.rev \in Nat /\ a.rev \in Nat /\ b.rev <= a.rev /\ b.o \in Nat /\ a.o \in Nat
    BY <1>0, <1>1, <1>3
  <2>2. CASE b.rev = r
    <3>1. b.o <= n
      BY <1>2, <2>2
    <3> QED BY <1>3, <2>1, <2>2, <3>1 DEF Before
  <2> QED BY <1>3, <2>1, <2>2 DEF Before
<1> QED BY <1>4, Zenon DEF Final
-----------------------------------------------------------------------------
(* Types.                                                                  *)

(* Nothing is taken for something else.                                    *)
LEMMA Distinct ==
    /\ Root # None /\ Root # Out /\ Root # Silent
    /\ None # Out /\ None # Silent /\ Out # Silent
    /\ \A x \in {Root, None, Out, Silent} :
         x \notin Label /\ x \notin Nat /\ x \notin FileState /\ x # Dir /\ x \notin File
<1> DEFINE A == {} \cup {Root}
           B == A \cup {None}
           C == B \cup {Out}
           D == C \cup {Silent}
<1>1. IsFiniteSet(A) /\ Cardinality(A) = 1
  BY FS_EmptySet, FS_AddElement
<1>2. IsFiniteSet(B) /\ Cardinality(B) = (IF None \in A THEN 1 ELSE 2)
  <2> HIDE DEF A
  <2> QED BY <1>1, FS_AddElement
<1>3. IsFiniteSet(C) /\ Cardinality(C) = (IF Out \in B THEN Cardinality(B) ELSE Cardinality(B) + 1)
  <2> HIDE DEF B
  <2> QED BY <1>2, FS_AddElement
<1>4. Cardinality(D) = (IF Silent \in C THEN Cardinality(C) ELSE Cardinality(C) + 1)
  <2> HIDE DEF C
  <2> QED BY <1>3, FS_AddElement
<1>5. D = {Root, None, Out, Silent}
  OBVIOUS
<1>6. Cardinality(D) = 4
  BY <1>5, NameAssumption
<1> HIDE DEF D
<1>7. None \notin A /\ Out \notin B /\ Silent \notin C
  <2> HIDE DEF A, B, C
  <2> QED BY <1>2, <1>3, <1>4, <1>6
<1>8. \A x \in {Root, None, Out, Silent} :
         x \notin Label /\ x \notin Nat /\ x \notin FileState /\ x # Dir /\ x \notin File
  BY NameAssumption, IdAssumption
<1> QED BY <1>7, <1>8

(* What a file is, and how recent its news is.                             *)
LEMMA IsType ==
    ASSUME TypeOK, DriveInv, NEW o \in File
    PROVE  /\ Is(o) \in FileState \cup {None, Out}
           /\ Is(o) = None <=> at[o] = None
           /\ Is(o) = Out <=> at[o] = Out
           /\ at[o] = Root => Is(o) = [in |-> Root, v |-> ver[o]]
           /\ at[o] = Dir => Is(o) = [in |-> label, v |-> ver[o]] /\ label \in Label
           /\ NewsOf(o) \in Nat /\ rev[o] \in Nat
           /\ rev[o] <= NewsOf(o) /\ NewsOf(o) <= top
           /\ at[o] = Dir => rev[Dir] <= NewsOf(o)
           /\ NewsOf(o) = rev[o] \/ (at[o] = Dir /\ NewsOf(o) = rev[Dir])
<1>1. at[o] \in {Root, Dir, Out, None} /\ ver[o] \in Nat /\ rev[o] \in Nat
  BY ObjNat DEF TypeOK
<1>2. rev[Dir] \in Nat /\ rev[Dir] <= top /\ rev[o] <= top /\ top \in Nat
  BY ObjNat DEF TypeOK, DriveInv
<1>3. at[o] = Dir => label \in Label
  BY DEF DriveInv, TypeOK, Inside
<1>4. NewsOf(o) = rev[o] \/ (at[o] = Dir /\ NewsOf(o) = rev[Dir])
  BY DEF NewsOf
<1>5. /\ NewsOf(o) \in Nat /\ rev[o] <= NewsOf(o) /\ NewsOf(o) <= top
      /\ at[o] = Dir => rev[Dir] <= NewsOf(o)
  BY <1>1, <1>2 DEF NewsOf
<1>6. CASE at[o] \in {None, Out}
  BY <1>1, <1>4, <1>5, <1>6, Distinct DEF Is
<1>7. CASE at[o] = Root
  <2>1. Is(o) = [in |-> Root, v |-> ver[o]]
    BY <1>7, Distinct DEF Is
  <2>2. Is(o) \in FileState
    BY <1>1, <2>1 DEF FileState
  <2> QED BY <1>1, <1>4, <1>5, <1>7, <2>1, <2>2, Distinct
<1>8. CASE at[o] = Dir
  <2>1. Is(o) = [in |-> label, v |-> ver[o]]
    BY <1>8, Distinct DEF Is
  <2>2. Is(o) \in FileState
    BY <1>1, <1>3, <1>8, <2>1 DEF FileState
  <2> QED BY <1>1, <1>3, <1>4, <1>5, <1>8, <2>1, <2>2, Distinct
<1> QED BY <1>1, <1>6, <1>7, <1>8

-----------------------------------------------------------------------------
(* What a view has of a file.                                              *)
LEMMA KnownIs ==
    ASSUME NEW o \in File
    PROVE  CU!Known(o) = IF Is(o) = None THEN {} ELSE {Is(o)}
BY DEF CU!Known

(* An entry takes the place of the one with its key, if there is one.      *)
LEMMA PutIs ==
    ASSUME NEW s \in Seq(FileState), NEW e \in FileState
    PROVE  /\ Put(s, e) \in Seq(FileState) /\ Put(s, e) # <<>>
           /\ e \in ToSet(Put(s, e))
           /\ \A n \in DOMAIN Put(s, e) : Put(s, e)[n].in = e.in => Put(s, e)[n] = e
           /\ \A n \in DOMAIN Put(s, e) : Put(s, e)[n] = e \/ \E m \in DOMAIN s : Put(s, e)[n] = s[m]
           /\ Last(Put(s, e)) \in ToSet(Put(s, e))
           /\ Last(Put(s, e)).in = e.in => Last(Put(s, e)) = e
<1> DEFINE t == Put(s, e)
<1>0. Len(s) \in Nat /\ DOMAIN s = 1 .. Len(s) /\ \A n \in DOMAIN s : s[n] \in FileState
  BY LenProperties, ElementOfSeq
<1>1. CASE \E n \in DOMAIN s : s[n].in = e.in
  <2>1. t = [n \in DOMAIN s |-> IF s[n].in = e.in THEN e ELSE s[n]]
    BY <1>1 DEF Put
  <2>2. /\ DOMAIN t = 1 .. Len(s) /\ \A n \in DOMAIN t : t[n] \in FileState
        /\ \A n \in DOMAIN t : t[n] = IF s[n].in = e.in THEN e ELSE s[n]
    BY <1>0, <2>1
  <2>3. t \in Seq(FileState) /\ Len(t) = Len(s)
    <3>1. t = [n \in 1 .. Len(s) |-> t[n]]
      BY <1>0, <2>1
    <3> HIDE DEF t
    <3>2. t \in Seq(FileState)
      BY <1>0, <2>2, <3>1, IsASeq
    <3> QED BY <1>0, <2>2, <3>2, LenProperties
  <2>4. PICK m \in DOMAIN s : s[m].in = e.in
    BY <1>1
  <2>5. t[m] = e /\ m \in DOMAIN t /\ Len(t) \in DOMAIN t
    BY <1>0, <2>2, <2>3, <2>4
  <2> HIDE DEF t
  <2>6. t # <<>>
    BY <2>5
  <2> QED BY <1>0, <2>2, <2>3, <2>5, <2>6 DEF t, ToSet, Last
<1>2. CASE ~ \E n \in DOMAIN s : s[n].in = e.in
  <2>1. t = Append(s, e)
    BY <1>2 DEF Put
  <2>2. /\ t \in Seq(FileState) /\ t # <<>> /\ Len(t) = Len(s) + 1
        /\ \A n \in 1 .. Len(s) : t[n] = s[n]
        /\ t[Len(s) + 1] = e
    BY <2>1, AppendProperties
  <2>3. DOMAIN t = 1 .. Len(s) + 1
    BY <2>2, LenProperties
  <2> HIDE DEF t
  <2>4. \A n \in DOMAIN t : n \in DOMAIN s \/ n = Len(s) + 1
    BY <1>0, <2>3
  <2>5. Len(t) \in DOMAIN t /\ t[Len(t)] = e
    BY <1>0, <2>2, <2>3
  <2>6. \A n \in DOMAIN t : t[n] = e \/ (n \in DOMAIN s /\ t[n] = s[n])
    BY <1>0, <2>2, <2>4
  <2> QED BY <1>2, <2>2, <2>5, <2>6 DEF t, ToSet, Last
<1> QED BY <1>1, <1>2

LEMMA DropType ==
    ASSUME NEW s \in Seq(FileState), NEW d
    PROVE  Drop(s, d) \in Seq(FileState)
<1>1. CASE \E n \in DOMAIN s : s[n].in = d
  <2> DEFINE n == CHOOSE m \in DOMAIN s : s[m].in = d
  <2>1. n \in DOMAIN s /\ Drop(s, d) = SubSeq(s, 1, n - 1) \o SubSeq(s, n + 1, Len(s))
    BY <1>1 DEF Drop, RemoveAt
  <2> HIDE DEF n
  <2>2. n \in 1 .. Len(s) /\ Len(s) \in Nat
    BY <2>1, LenProperties
  <2>3. /\ SubSeq(s, 1, n - 1) \in Seq(FileState)
        /\ SubSeq(s, n + 1, Len(s)) \in Seq(FileState)
    <3>1. \A m \in 1 .. Len(s) : s[m] \in FileState
      BY ElementOfSeq
    <3> QED BY <2>2, <3>1, SubSeqProperties
  <2> QED BY <2>1, <2>3, ConcatProperties
<1>2. CASE ~ \E n \in DOMAIN s : s[n].in = d
  BY <1>2 DEF Drop
<1> QED BY <1>1, <1>2

LEMMA HearsType ==
    ASSUME TypeOK, NEW o \in File, NEW x \in FileState \cup {None, Out}
    PROVE  Hears(o, x) \in Heard
<1>1. heard[o] \in Heard
  BY DEF TypeOK
<1>2. heard[o].places \in Seq(FileState) /\ heard[o].gone \in {Silent, None, Out}
  BY <1>1 DEF Heard
<1>3. CASE x \in FileState
  <2>1. x \notin {None, Out}
    BY <1>3, Distinct
  <2>2. Hears(o, x) = [heard[o] EXCEPT !.places = Put(@, x),
                                       !.gone = IF x.in = Known(o) THEN Silent ELSE @]
    BY <2>1 DEF Hears
  <2>3. Put(heard[o].places, x) \in Seq(FileState)
    BY <1>2, <1>3, PutIs
  <2> QED BY <1>1, <1>2, <2>2, <2>3 DEF Heard
<1>4. CASE x = None
  <2>1. Drop(heard[o].places, Known(o)) \in Seq(FileState)
    BY <1>2, DropType
  <2>2. Hears(o, x) = heard[o]
        \/ Hears(o, x) = [heard[o] EXCEPT !.gone = None, !.places = Drop(@, Known(o))]
    BY <1>4 DEF Hears
  <2> QED BY <1>1, <2>1, <2>2 DEF Heard
<1>5. CASE x = Out
  <2>1. Hears(o, x) = heard[o]
        \/ Hears(o, x) = [heard[o] EXCEPT !.gone = IF @ = None THEN None ELSE Out]
    BY <1>5, Distinct DEF Hears
  <2> QED BY <1>1, <2>1 DEF Heard
<1> QED BY <1>3, <1>4, <1>5

LEMMA UnheardType == Unheard \in Heard /\ Nothing \in [File -> Heard]
<1>1. <<>> \in Seq(FileState)
  BY EmptySeq
<1> QED BY <1>1 DEF Unheard, Heard, Nothing

(* The row a base knows a file by, and the entry a file is by in the view. *)
LEMMA RowIs ==
    ASSUME TypeOK, NEW o \in File
    PROVE  /\ told[o] \subseteq FileState
           /\ told[o] # {} => Row(o) \in told[o] /\ Known(o) = Row(o).in
           /\ heard[o].places \in Seq(FileState)
           /\ ToSet(heard[o].places) \subseteq FileState
           /\ heard[o].places # <<>> => Latest(o) \in ToSet(heard[o].places)
           /\ heard[o].places = <<>> => ToSet(heard[o].places) = {}
<1>1. told[o] \subseteq FileState /\ heard[o] \in Heard
  BY DEF TypeOK
<1>2. told[o] # {} => Row(o) \in told[o] /\ Known(o) = Row(o).in
  BY DEF Row, Known
<1> DEFINE s == heard[o].places
<1>3. s \in Seq(FileState)
  BY <1>1 DEF Heard
<1> HIDE DEF s
<1>4. Len(s) \in Nat /\ DOMAIN s = 1 .. Len(s) /\ \A n \in DOMAIN s : s[n] \in FileState
  BY <1>3, LenProperties, ElementOfSeq
<1>5. s # <<>> => Len(s) \in DOMAIN s
  BY <1>3, <1>4, EmptySeq
<1>6. s = <<>> => DOMAIN s = {}
  OBVIOUS
<1> QED BY <1>1, <1>2, <1>3, <1>4, <1>5, <1>6 DEF s, ToSet, Latest, Last

(* What the pass makes of a file are rows.                                 *)
LEMMA LearnedType ==
    ASSUME TypeOK, NEW o \in File
    PROVE  Learned(o) \subseteq FileState
<1>1. New(o) \subseteq FileState
  BY RowIs DEF New
<1>2. CASE Moves(o)
  <2>1. Latest(o) \in FileState /\ Row(o) \in FileState /\ told[o] \subseteq FileState
    BY <1>2, RowIs DEF Moves
  <2>2. [Latest(o) EXCEPT !.v = Row(o).v] \in FileState
    BY <2>1 DEF FileState
  <2>3. Moved(o) \subseteq FileState
    BY <2>1, <2>2 DEF Moved
  <2> QED BY <1>1, <1>2, <2>3 DEF Learned
<1>3. CASE ~Moves(o)
  <2>1. \A r \in told[o] : Stays(o, r) \subseteq FileState
    BY RowIs DEF Stays
  <2> QED BY <1>1, <1>3, <2>1 DEF Learned
<1> QED BY <1>2, <1>3

(* What is made of a file's view depends on nothing else.                  *)
LEMMA LearnedSame ==
    ASSUME NEW o \in File,
           at'[o] = at[o], told'[o] = told[o], heard'[o] = heard[o], whole' = whole
    PROVE  Learned(o)' = Learned(o)
<1>1. Row(o)' = Row(o) /\ Latest(o)' = Latest(o)
  BY DEF Row, Latest
<1>2. Known(o)' = Known(o)
  BY <1>1 DEF Known
<1>3. Moves(o)' = Moves(o) /\ Moved(o)' = Moved(o) /\ New(o)' = New(o)
  BY <1>1 DEF Moves, Moved, New
<1>4. \A r : Stays(o, r)' = Stays(o, r)
  BY <1>2 DEF Stays
<1> QED BY <1>3, <1>4 DEF Learned
-----------------------------------------------------------------------------
(* The profile begins knowing what a profile knows.                        *)
LEMMA InitInv == Init => TypeOK /\ IInv
<1> SUFFICES ASSUME Init PROVE TypeOK /\ IInv
  OBVIOUS
<1>1. PICK s \in Starts :
          /\ at = s[1] /\ label = s[2] /\ top = s[3]
          /\ ver = [o \in File |-> 0] /\ rev = [o \in Obj |-> top]
          /\ cursor = (IF s[4] THEN top ELSE 0)
          /\ told = [o \in File |-> IF s[4] THEN {Is(o)} ELSE {}]
  BY DEF Init
<1>2. /\ at \in [File -> {Root, Dir}] /\ label \in Label
      /\ top \in Nat \ {0} /\ cursor \in {0, top}
  BY <1>1, StartAssumption
<1>3. rev \in [Obj -> Nat] /\ ver \in [File -> Nat]
  BY <1>1, <1>2
<1>4. DriveInv
  BY <1>1, <1>2, <1>3, Distinct, ObjNat DEF DriveInv, Together
<1>5. \A o \in File : Is(o) \in FileState
  BY <1>2, <1>3, Distinct, ObjNat DEF Is, FileState
<1>6. told \in [File -> SUBSET FileState]
  BY <1>1, <1>5
<1>7. pc = "idle" /\ Rest /\ lost = {} /\ left = MaxFaults
  BY DEF Init
<1>8. TypeOK
  <2>1. heard \in [File -> Heard] /\ missed \subseteq File
    BY <1>7, UnheardType DEF Rest
  <2>2. /\ tip \in [lo : Nat, hi : Nat] /\ deep \in Label \cup {None}
        /\ list \in [dir : {Root, Dir, None}, in : Label \cup {Root, None},
                     off : Nat, got : SUBSET Obj]
    BY <1>7 DEF Rest, NoTip, NoList
  <2>3. /\ {from, last, safe, seen, asked, left} \subseteq Nat
        /\ seen <= MaxItems /\ asked <= MaxPages
    <3>1. /\ MaxFaults \in Nat /\ MaxItems \in Nat /\ MaxPages \in Nat
          /\ from = 0 /\ last = 0 /\ safe = 0 /\ seen = 0 /\ asked = 0
      BY <1>7, SizeAssumption DEF Rest
    <3> QED BY <1>7, <3>1
  <2>5. pc \in Pc /\ whole \in BOOLEAN /\ page = {}
    BY <1>7, Zenon DEF Rest, Pc
  <2>4. /\ at \in [File -> {Root, Dir, Out, None}] /\ label \in Label \cup {None}
        /\ ver \in [File -> Nat] /\ rev \in [Obj -> Nat] /\ top \in Nat /\ cursor \in Nat
    BY <1>2, <1>3
  <2> QED BY <1>6, <1>7, <2>1, <2>2, <2>3, <2>4, <2>5 DEF TypeOK
<1>9. BaseInv
  <2>1. \A o \in File : NewsOf(o) = top
    BY <1>1, ObjNat DEF NewsOf
  <2>2. \A o \in File : ~Doubled(told[o])
    BY <1>1 DEF Doubled
  <2>3. CASE cursor = top
    <3>1. \A o \in File : told[o] = CU!Known(o)
      BY <1>1, <1>2, <1>5, <2>3, KnownIs, Distinct
    <3> QED BY <1>2, <2>3, <2>2, <3>1 DEF BaseInv, CU!Promised
  <2>4. CASE cursor = 0
    BY <1>2, <2>1, <2>4, <2>2 DEF BaseInv, CU!Promised
  <2> QED BY <1>2, <2>3, <2>4
<1> QED
  BY <1>4, <1>7, <1>8, <1>9
  DEF IInv, IdleInv, DeltaInv, FullInv, PassInv, Rest, Reading
-----------------------------------------------------------------------------
(* What other PCs do to what a pass knows: for each file either nothing, or*)
(* its news is more recent than anything the drive has told anyone.        *)
Aside == UNCHANGED <<base, pc, whole, feed, tip, walk, heard, missed, left>>

DriveType == /\ at \in [File -> {Root, Dir, Out, None}] /\ label \in Label \cup {None}
             /\ ver \in [File -> Nat] /\ rev \in [Obj -> Nat] /\ top \in Nat

Untouched(o) == at'[o] = at[o] /\ Is(o)' = Is(o) /\ NewsOf(o)' = NewsOf(o)
Fresh(o)     == top < NewsOf(o)' /\ NewsOf(o)' <= top'

Settled ==
    /\ top < top' /\ DriveType'
    /\ \A o \in File : Untouched(o) \/ Fresh(o)
    /\ (label' = label /\ rev'[Dir] = rev[Dir]) \/ top < rev'[Dir]
    /\ \A o \in Obj : rev[o] <= rev'[o] /\ rev'[o] <= top'
    /\ label = None => label' = None
    /\ label' = None => \A o \in File : at'[o] # Dir
    /\ \A k \in Nat : k <= top /\ Together(k) => Together(k)'
    /\ Aside

LEMMA FileChanges ==
    ASSUME TypeOK, DriveInv, NEW o \in File, Changes({o}),
           at' \in [File -> {Root, Dir, Out, None}], ver' \in [File -> Nat],
           \A q \in File \ {o} : at'[q] = at[q] /\ ver'[q] = ver[q],
           at'[o] = Dir => label # None, label' = label
    PROVE  Settled
<1> USE ObjNat
<1>1. top' = top + 1 /\ top \in Nat
  BY DEF Changes, TypeOK
<1>2. rev \in [Obj -> Nat] /\ rev' \in [Obj -> Nat]
  BY <1>1 DEF Changes, TypeOK
<1>3. /\ rev'[o] = top + 1 /\ \A q \in Obj \ {o} : rev'[q] = rev[q]
      /\ \A q \in Obj : rev[q] <= top /\ rev[q] \in Nat /\ 0 < rev[q]
  BY <1>1, <1>2 DEF Changes, DriveInv
<1>4. o # Dir /\ rev'[Dir] = rev[Dir]
  BY <1>3
<1>5. \A q \in File \ {o} : Untouched(q)
  BY <1>3, <1>4 DEF Untouched, Is, NewsOf
<1>6. Fresh(o)
  BY <1>1, <1>3, <1>4 DEF Fresh, NewsOf
<1>7. DriveType'
  BY <1>1, <1>2 DEF DriveType, TypeOK
<1>8. label' = None => \A q \in File : at'[q] # Dir
  BY DEF DriveInv, Inside
<1>9. \A q \in Obj : rev[q] <= rev'[q] /\ rev'[q] <= top'
  BY <1>1, <1>3
<1>10. \A k \in Nat : Together(k) => Together(k)'
  <2>1. rev'[o] # rev'[Dir]
    BY <1>1, <1>3, <1>4
  <2> QED BY <1>3, <1>4, <2>1 DEF Together
<1>11. Aside
  BY DEF Changes, Aside
<1> QED BY <1>1, <1>4, <1>5, <1>6, <1>7, <1>8, <1>9, <1>10, <1>11 DEF Settled

LEMMA OthersSettle ==
    ASSUME TypeOK, DriveInv, Others
    PROVE  Settled
<1> USE ObjNat
<1>0. /\ at \in [File -> {Root, Dir, Out, None}] /\ ver \in [File -> Nat]
      /\ rev \in [Obj -> Nat] /\ top \in Nat /\ label \in Label \cup {None}
      /\ \A q \in Obj : rev[q] <= top /\ rev[q] \in Nat /\ 0 < rev[q]
  BY DEF TypeOK, DriveInv
<1>1. ASSUME NEW o \in File, Create(o) \/ Edit(o) \/ Move(o) \/ Trash(o)
      PROVE  Settled
  <2>1. /\ at' \in [File -> {Root, Dir, Out, None}] /\ ver' \in [File -> Nat]
        /\ \A q \in File \ {o} : at'[q] = at[q] /\ ver'[q] = ver[q]
    <3>1. CASE Create(o)
      BY <1>0, <3>1 DEF Create
    <3>2. CASE Edit(o)
      BY <1>0, <3>2 DEF Edit
    <3>3. CASE Move(o)
      BY <1>0, <3>3 DEF Move
    <3>4. CASE Trash(o)
      BY <1>0, <3>4 DEF Trash
    <3> QED BY <1>1, <3>1, <3>2, <3>3, <3>4
  <2>2. at'[o] = Dir => label # None
    <3>1. at[o] = Dir => label # None
      BY DEF DriveInv, Inside
    <3>2. Dir # None
      BY Distinct
    <3> QED BY <1>0, <1>1, <3>1, <3>2 DEF Create, Edit, Move, Trash, There
  <2>3. Changes({o}) /\ label' = label
    BY <1>1 DEF Create, Edit, Move, Trash
  <2> QED BY <2>1, <2>2, <2>3, FileChanges
<1>2. CASE Rename
  <2>1. /\ at' = at /\ ver' = ver /\ label' \in Label /\ top' = top + 1
        /\ rev' = [q \in Obj |-> IF q \in {Dir} THEN top' ELSE rev[q]]
        /\ Aside
    BY <1>2 DEF Rename, Changes, Aside
  <2>2. rev'[Dir] = top + 1 /\ \A q \in Obj \ {Dir} : rev'[q] = rev[q]
    BY <2>1
  <2>3. \A q \in File : Untouched(q) \/ Fresh(q)
    <3> TAKE q \in File
    <3>1. CASE at[q] = Dir
      BY <1>0, <2>1, <2>2, <3>1 DEF Fresh, NewsOf
    <3>2. CASE at[q] # Dir
      BY <1>0, <2>1, <2>2, <3>2 DEF Untouched, Is, NewsOf
    <3> QED BY <3>1, <3>2
  <2>4. DriveType'
    BY <1>0, <2>1 DEF DriveType
  <2>5. \A k \in Nat : k <= top /\ Together(k) => Together(k)'
    BY <1>0, <2>1, <2>2 DEF Together
  <2>6. \A o \in Obj : rev[o] <= rev'[o] /\ rev'[o] <= top'
    BY <1>0, <2>1, <2>2
  <2> QED BY <1>0, <1>2, <2>1, <2>2, <2>3, <2>4, <2>5, <2>6, Distinct DEF Settled, Rename
<1>3. CASE TrashDir
  <2>1. /\ label' = None /\ ver' = ver
        /\ at' = [o \in File |-> IF at[o] = Dir THEN None ELSE at[o]]
        /\ Aside
    BY <1>3 DEF TrashDir, Changes, Aside
  <2>2. /\ top' \in Nat /\ top < top' /\ top < rev'[Dir] /\ rev' \in [Obj -> Nat]
        /\ \A o \in Inside : top < rev'[o] /\ rev'[o] <= top'
        /\ \A o \in File \ Inside : rev'[o] = rev[o]
        /\ rev'[Dir] <= top'
    <3>1. CASE Changes(Inside \cup {Dir})
      BY <1>0, <3>1 DEF Changes, Inside
    <3>2. CASE /\ top' = top + 2
               /\ rev' = [o \in Obj |-> IF o = Dir THEN top + 2
                                   ELSE IF at[o] = Dir THEN top + 1 ELSE rev[o]]
      <4>1. rev'[Dir] = top + 2 /\ rev' \in [Obj -> Nat]
        BY <1>0, <3>2
      <4>2. \A o \in File : rev'[o] = IF at[o] = Dir THEN top + 1 ELSE rev[o]
        BY <3>2
      <4> QED BY <1>0, <3>2, <4>1, <4>2 DEF Inside
    <3> QED BY <1>3, <3>1, <3>2 DEF TrashDir
  <2>3. \A q \in File : Untouched(q) \/ Fresh(q)
    <3> TAKE q \in File
    <3>1. CASE at[q] = Dir
      <4>1. at'[q] # Dir /\ q \in Inside
        BY <2>1, <3>1, Distinct DEF Inside
      <4> QED BY <2>2, <4>1 DEF Fresh, NewsOf
    <3>2. CASE at[q] # Dir
      BY <1>0, <2>1, <2>2, <3>2 DEF Untouched, Is, NewsOf, Inside
    <3> QED BY <3>1, <3>2
  <2>4. DriveType'
    BY <1>0, <2>1, <2>2 DEF DriveType
  <2>5. \A o \in File : at'[o] # Dir
    BY <2>1, Distinct
  <2>6. \A o \in Obj : rev[o] <= rev'[o] /\ rev'[o] <= top'
    <3>1. \A o \in Obj : o = Dir \/ o \in File
      BY DEF Obj
    <3> QED BY <1>0, <2>2, <3>1
  <2> QED BY <2>1, <2>2, <2>3, <2>4, <2>5, <2>6 DEF Settled, Together
<1> QED BY <1>1, <1>2, <1>3 DEF Others
(* What the pass has read, it has read from what the drive has given out.  *)
LEMMA ReadBound ==
    ASSUME TypeOK, IInv, pc \in Reading \cup {"ask", "act"}
    PROVE  Read \in Nat /\ Read <= top
<1>1. CASE whole
  BY <1>1 DEF Read, IInv, FullInv, TypeOK, Reading
<1>2. CASE ~whole
  BY <1>2 DEF Read, IInv, DeltaInv, TypeOK, Reading
<1> QED BY <1>1, <1>2

(* What others do breaks nothing of it.                                    *)
LEMMA SettledInv ==
    ASSUME TypeOK, IInv, Settled
    PROVE  TypeOK' /\ IInv'
<1> USE ObjNat
<1>0. UNCHANGED <<told, cursor, lost, pc, whole, from, page, last, safe, seen,
                  asked, tip, list, deep, heard, missed, left>>
  BY DEF Settled, Aside, base, feed, walk
<1>1. TypeOK'
  <2>1. DriveType'
    BY DEF Settled
  <2> QED BY <1>0, <2>1 DEF DriveType, TypeOK
<1>2. /\ top \in Nat /\ top' \in Nat /\ top < top' /\ cursor \in Nat
      /\ \A o \in Obj : rev[o] \in Nat /\ rev'[o] \in Nat /\ rev[o] <= rev'[o]
                        /\ rev'[o] <= top' /\ 0 < rev'[o]
  <2>1. /\ rev \in [Obj -> Nat] /\ top \in Nat /\ cursor \in Nat
        /\ rev' \in [Obj -> Nat] /\ top' \in Nat
    BY <1>1 DEF TypeOK
  <2>2. /\ top < top' /\ \A o \in Obj : rev[o] <= rev'[o] /\ rev'[o] <= top'
    BY DEF Settled
  <2>3. \A o \in Obj : 0 < rev[o]
    BY DEF IInv, DriveInv
  <2> QED BY <2>1, <2>2, <2>3
<1>3. \A o \in File : Untouched(o) \/ Fresh(o)
  BY DEF Settled
<1>4. \A o \in File : NewsOf(o) \in Nat /\ NewsOf(o)' \in Nat
  BY <1>2 DEF NewsOf
<1>5. DriveInv'
  <2>1. /\ \A k \in Nat : k <= top /\ Together(k) => Together(k)'
        /\ cursor > 0 => Together(cursor)
        /\ cursor \in Nat /\ cursor <= top
    BY <1>2 DEF Settled, IInv, BaseInv, DriveInv
  <2>2. (cursor > 0 => Together(cursor))'
    BY <1>0, <2>1 DEF Together
  <2>3. label' = None => Inside' = {}
    BY DEF Settled, Inside
  <2> QED BY <1>2, <2>2, <2>3 DEF DriveInv
<1>6. BaseInv'
  <2>1. cursor <= top /\ \A o \in File \ lost : CU!Promised(o, told, cursor)
    BY DEF IInv, BaseInv
  <2>2. \A o \in File \ lost : CU!Promised(o, told, cursor)'
    <3> TAKE o \in File \ lost
    <3>1. CASE Untouched(o)
      BY <1>0, <2>1, <3>1 DEF CU!Promised, CU!Known, Untouched
    <3>2. CASE Fresh(o)
      BY <1>0, <1>2, <1>4, <2>1, <3>2 DEF CU!Promised, Fresh
    <3> QED BY <1>3, <3>1, <3>2
  <2>3. \A o \in File \ lost : ~Doubled(told[o])'
    BY <1>0 DEF IInv, BaseInv, Doubled
  <2> QED BY <1>0, <1>2, <2>1, <2>2, <2>3 DEF BaseInv
<1>7. IdleInv'
  BY <1>0 DEF IInv, IdleInv, Rest
<1>8. DeltaInv'
  <2> SUFFICES ASSUME pc # "idle", ~whole PROVE DeltaInv'
    BY <1>0 DEF DeltaInv
  <2>1. DeltaInv /\ last \in Nat /\ from \in Nat
    BY DEF IInv, TypeOK
  <2>2. /\ pc \in Reading => from <= top
        /\ pc \notin {"item", "list"} => page = {}
    BY <2>1 DEF DeltaInv
  <2>3. page # {} => from <= top
    BY <2>2 DEF Reading
  <2>4. ASSUME NEW a \in page PROVE ItemInv(a)'
    <3>1. ItemInv(a) /\ a.rev \in Nat /\ a.o \in Obj
      BY <2>1 DEF DeltaInv, TypeOK
    <3>2. a.o \in File => a.is = Is(a.o)' \/ NewsOf(a.o)' > from
      <4> HAVE a.o \in File
      <4>0. a.is = Is(a.o) \/ NewsOf(a.o) > from
        BY <3>1 DEF ItemInv
      <4>1. CASE Untouched(a.o)
        BY <4>0, <4>1 DEF Untouched, Is, NewsOf
      <4>2. CASE Fresh(a.o)
        <5>1. PICK q \in File : q = a.o
          OBVIOUS
        <5>2. NewsOf(q)' > top /\ NewsOf(q)' \in Nat /\ from <= top
          BY <1>4, <2>3, <4>2, <5>1 DEF Fresh
        <5>3. NewsOf(q)' > from
          BY <1>2, <2>1, <5>2
        <5> QED BY <5>1, <5>3 DEF NewsOf
      <4> QED BY <1>3, <4>1, <4>2
    <3>3. a.o = Dir => a.is = label' \/ rev'[Dir] > from
      <4>1. a.o = Dir => a.is = label \/ rev[Dir] > from
        BY <3>1 DEF ItemInv
      <4>2. (label' = label /\ rev'[Dir] = rev[Dir]) \/ top < rev'[Dir]
        BY DEF Settled
      <4>3. from <= top /\ from \in Nat /\ top \in Nat /\ rev'[Dir] \in Nat
        BY <1>2, <2>1, <2>3
      <4> QED BY <4>1, <4>2, <4>3
    <3>4. /\ a.rev <= rev'[a.o]
          /\ label = None => label' = None
      <4>1. a.rev <= rev[a.o] /\ a.rev \in Nat
        BY <3>1 DEF ItemInv
      <4>2. rev[a.o] \in Nat /\ rev'[a.o] \in Nat /\ rev[a.o] <= rev'[a.o]
        BY <1>2, <3>1
      <4>3. label = None => label' = None
        BY DEF Settled
      <4> QED BY <4>1, <4>2, <4>3
    <3> QED BY <1>0, <3>1, <3>2, <3>3, <3>4 DEF ItemInv
  <2>5. \A o \in missed : NewsOf(o)' > cursor
    <3> TAKE o \in missed
    <3>1. o \in File /\ NewsOf(o) > cursor /\ cursor <= top
      BY <2>1 DEF DeltaInv, TypeOK, IInv, BaseInv
    <3> QED BY <1>2, <1>3, <1>4, <3>1 DEF Untouched, Fresh
  <2>6. pc = "list" => /\ list.dir = Dir /\ list.in \in Label /\ rev'[Dir] > cursor
                       /\ list.in = label' \/ rev'[Dir] > from
    <3> HAVE pc = "list"
    <3>1. /\ list.dir = Dir /\ list.in \in Label /\ rev[Dir] > cursor
          /\ list.in = label \/ rev[Dir] > from
          /\ from <= top
      BY <2>1 DEF DeltaInv, Reading
    <3> QED BY <1>2, <2>1, <3>1 DEF Settled
  <2>7. Heeded'
    <3> SUFFICES ASSUME NEW o \in File
                 PROVE  (\/ NewsOf(o) > cursor
                         \/ \A n \in DOMAIN heard[o].places : heard[o].places[n] = Is(o))'
      BY DEF Heeded
    <3>1. Heeded /\ cursor <= top
      BY <2>1 DEF DeltaInv, IInv, BaseInv
    <3>2. CASE Untouched(o)
      BY <1>0, <3>1, <3>2 DEF Heeded, Untouched
    <3>3. CASE Fresh(o)
      BY <1>0, <1>2, <1>4, <3>1, <3>3 DEF Fresh
    <3> QED BY <1>3, <3>2, <3>3
  <2> QED
    BY <1>0, <1>2, <2>1, <2>4, <2>5, <2>6, <2>7 DEF DeltaInv
<1>9. FullInv'
  <2> SUFFICES ASSUME whole PROVE FullInv'
    BY <1>0 DEF FullInv
  <2>1. FullInv /\ tip.lo \in Nat /\ tip.hi \in Nat
    BY DEF IInv, TypeOK
  <2>2. /\ \A k \in Nat : k <= top /\ Together(k) => Together(k)'
        /\ pc \in {"list", "act"} => Together(tip.lo) /\ tip.lo <= top
    BY <2>1 DEF FullInv, Settled
  <2>3. (pc \in {"list", "act"} => Together(tip.lo))'
    BY <1>0, <2>1, <2>2 DEF Together
  <2>4. pc = "list" =>
           /\ \/ list.dir = Root /\ list.in = Root
              \/ list.dir = Dir /\ list.in \in Label /\ (list.in = label' \/ rev'[Dir] > tip.lo)
           /\ deep # None => deep = label' \/ rev'[Dir] > tip.lo
    BY <1>2, <2>1 DEF FullInv, Settled
  <2> QED BY <1>0, <1>2, <2>1, <2>3, <2>4 DEF FullInv
<1>10. PassInv'
  <2> SUFFICES ASSUME pc \in Reading \cup {"ask", "act"}, NEW o \in File
               PROVE  (Excused(o) \/ Right(o, Read))'
    BY <1>0 DEF PassInv
  <2>1. Excused(o) \/ Right(o, Read)
    BY DEF IInv, PassInv
  <2>2. Read' = Read /\ Read \in Nat /\ Read <= top
    BY <1>0, ReadBound DEF Read
  <2>3. CASE Untouched(o)
    <3>1. Excused(o)' <=> Excused(o)
      BY <1>0, <2>3 DEF Excused, OnPaper, Unlisted, Untouched, NotRighted, Doubled
    <3>2. Learned(o)' = Learned(o) /\ CU!Known(o)' = CU!Known(o)
      BY <1>0, <2>3, LearnedSame DEF Untouched, CU!Known
    <3>3. Right(o, Read)' <=> Right(o, Read)
      BY <1>0, <2>2, <2>3, <3>2 DEF Right, Untouched, Doubled
    <3> QED BY <2>1, <3>1, <3>3
  <2>4. CASE Fresh(o)
    <3>1. ~(NewsOf(o)' <= Read')
      BY <1>2, <1>4, <2>2, <2>4 DEF Fresh
    <3> QED BY <3>1 DEF Right
  <2> QED BY <1>3, <2>3, <2>4
<1> QED BY <1>1, <1>5, <1>6, <1>7, <1>8, <1>9, <1>10 DEF IInv
-----------------------------------------------------------------------------
(* The steps of a pass.  None of them changes the drive.                   *)
LEMMA SameDrive ==
    ASSUME UNCHANGED drive
    PROVE  /\ \A o \in File : Is(o)' = Is(o) /\ NewsOf(o)' = NewsOf(o)
           /\ UNCHANGED <<at, label, ver, rev, top>>
BY DEF drive, Is, NewsOf

(* What the base says stays as sound as it is while no pass writes it.     *)
LEMMA SameBase ==
    ASSUME TypeOK, IInv, UNCHANGED drive, UNCHANGED base
    PROVE  DriveInv' /\ BaseInv'
<1>1. UNCHANGED <<at, label, ver, rev, top, told, cursor, lost>>
  BY DEF drive, base
<1>2. DriveInv'
  BY <1>1 DEF IInv, DriveInv, Together, Inside
<1>3. BaseInv'
  BY <1>1, SameDrive DEF IInv, BaseInv, CU!Promised, CU!Known, Doubled
<1> QED BY <1>2, <1>3

(* The types of what a pass works on, and of the rest.                     *)
PassType ==
    /\ missed \subseteq File /\ pc \in Pc /\ whole \in BOOLEAN
    /\ {from, last, safe, seen, asked, left} \subseteq Nat
    /\ page \subseteq [o : Obj, rev : Nat,
                       is : FileState \cup Label \cup {None, Out}]
    /\ tip \in [lo : Nat, hi : Nat]
    /\ list \in [dir : {Root, Dir, None}, in : Label \cup {Root, None},
                 off : Nat, got : SUBSET Obj]
    /\ deep \in Label \cup {None}
    /\ heard \in [File -> Heard]
    /\ seen <= MaxItems /\ asked <= MaxPages

BaseType == /\ told \in [File -> SUBSET FileState] /\ cursor \in Nat
            /\ lost \subseteq File

LEMMA TypeParts == TypeOK <=> DriveType /\ BaseType /\ PassType
BY DEF TypeOK, DriveType, BaseType, PassType

LEMMA TypePartsNext == TypeOK' <=> DriveType' /\ BaseType' /\ PassType'
BY DEF TypeOK, DriveType, BaseType, PassType

LEMMA SameDriveType == UNCHANGED drive /\ DriveType => DriveType'
BY DEF drive, DriveType

LEMMA SameBaseType == UNCHANGED base /\ BaseType => BaseType'
BY DEF base, BaseType

(* A pass that has ended holds nothing.                                    *)
LEMMA RestsInv ==
    ASSUME Rests, left' \in Nat
    PROVE  /\ PassType'
           /\ IdleInv' /\ DeltaInv' /\ FullInv' /\ PassInv'
<1>1. /\ pc' = "idle" /\ whole' = FALSE /\ page' = {} /\ missed' = {} /\ deep' = None
      /\ list' = NoList /\ tip' = NoTip /\ heard' = Nothing
      /\ from' = 0 /\ last' = 0 /\ safe' = 0 /\ seen' = 0 /\ asked' = 0
  BY DEF Rests
<1>2. heard' \in [File -> Heard]
  BY <1>1, UnheardType
<1>3. /\ list' \in [dir : {Root, Dir, None}, in : Label \cup {Root, None},
                    off : Nat, got : SUBSET Obj]
      /\ tip' \in [lo : Nat, hi : Nat]
  BY <1>1 DEF NoList, NoTip
<1>4. pc' \in Pc /\ whole' \in BOOLEAN
  BY <1>1, Zenon DEF Pc
<1>5. seen' <= MaxItems /\ asked' <= MaxPages
  BY <1>1, SizeAssumption
<1>6. PassType'
  BY <1>1, <1>2, <1>3, <1>4, <1>5 DEF PassType
<1> QED
  BY <1>1, <1>6 DEF IdleInv, Rest, DeltaInv, FullInv, PassInv, Reading

(* What the pass makes of a file stays the same when it is not touched.    *)
LEMMA SameLearned ==
    ASSUME NEW o \in File, UNCHANGED drive,
           told'[o] = told[o], heard'[o] = heard[o], whole' = whole
    PROVE  /\ Learned(o)' = Learned(o) /\ CU!Known(o)' = CU!Known(o)
           /\ Is(o)' = Is(o) /\ NewsOf(o)' = NewsOf(o)
<1>1. Learned(o)' = Learned(o)
  BY SameDrive, LearnedSame
<1>2. CU!Known(o)' = CU!Known(o)
  BY SameDrive DEF CU!Known
<1> QED BY <1>1, <1>2, SameDrive

(* Hearing where a file is makes what is known of it right, when no entry  *)
(* elsewhere outlives the news and, of one in the trash, there is one row. *)
LEMMA HeardRight ==
    ASSUME TypeOK, DriveInv, NEW o \in File, NEW k, UNCHANGED drive,
           told' = told, TypeOK',
           heard'[o].places = Hears(o, Is(o)).places,
           heard'[o].gone = Hears(o, Is(o)).gone,
           ~Outlived(o, Is(o)), Is(o) = None => ~Doubled(told[o])
    PROVE  Right(o, k)'
<1>1. /\ Is(o)' = Is(o) /\ at' = at /\ Is(o) \in FileState \cup {None, Out}
      /\ Is(o) = None <=> at[o] = None
      /\ Known(o)' = Known(o) /\ Row(o)' = Row(o)
  BY SameDrive, IsType DEF Known, Row
<1>2. CU!Known(o)' = IF Is(o) = None THEN {} ELSE {Is(o)}
  BY <1>1, KnownIs DEF CU!Known
<1>3. CASE Is(o) = Out
  BY <1>1, <1>3 DEF Right
<1>4. CASE Is(o) = None
  <2>1. New(o)' = {}
    BY <1>1, <1>4 DEF New
  <2>2. CASE told[o] = {}
    BY <1>2, <1>4, <2>1, <2>2 DEF Right, Learned, Moves
  <2>3. CASE told[o] # {}
    <3>1. PICK r \in told[o] : told[o] = {r}
      BY <1>4, <2>3 DEF Doubled
    <3>2. Row(o) = r /\ Known(o) = r.in
      BY <2>3, <3>1, RowIs
    <3>3. /\ Hears(o, Is(o)) = [heard[o] EXCEPT !.gone = None, !.places = Drop(@, Known(o))]
          /\ heard[o] \in Heard
      BY <1>4, <2>3 DEF Hears, TypeOK
    <3>4. heard'[o].gone = None /\ heard'[o].places = <<>>
      <4>1. Hears(o, Is(o)).gone = None
        BY <3>3 DEF Heard
      <4>2. Hears(o, Is(o)).places = <<>>
        BY <1>4, <2>3 DEF Outlived
      <4> QED BY <4>1, <4>2
    <3>5. ~Moves(o)' /\ Stays(o, r)' = {}
      BY <1>1, <3>2, <3>4, Distinct DEF Moves, Stays
    <3>6. Learned(o)' = {}
      BY <2>1, <3>1, <3>5 DEF Learned
    <3> QED BY <1>2, <1>4, <3>6 DEF Right
  <2> QED BY <2>2, <2>3
<1>5. CASE Is(o) \in FileState
  <2> DEFINE x == Is(o)
             s == Put(heard[o].places, x)
  <2>0. x \notin {None, Out} /\ at'[o] # None
    BY <1>1, <1>5, Distinct
  <2>1. /\ Hears(o, x) = [heard[o] EXCEPT !.places = Put(@, x),
                                          !.gone = IF x.in = Known(o) THEN Silent ELSE @]
        /\ heard[o] \in Heard
    BY <2>0 DEF Hears, TypeOK
  <2>2. /\ heard'[o].places = s
        /\ x.in = Known(o) => heard'[o].gone = Silent
    BY <2>1 DEF Heard
  <2>3. Last(s).in = x.in
    BY <2>0, <2>1 DEF Outlived, Heard
  <2>4. heard[o].places \in Seq(FileState)
    BY <2>1 DEF Heard
  <2>5. s # <<>> /\ x \in ToSet(s) /\ Last(s) = x
    BY <1>5, <2>3, <2>4, PutIs
  <2>6. Latest(o)' = x
    BY <2>2, <2>5 DEF Latest
  <2> HIDE DEF s, x
  <2>7. x \in Learned(o)'
    <3>1. CASE Moves(o)'
      BY <2>0, <2>6, <3>1 DEF Learned, Moved
    <3>2. CASE told[o] = {}
      <4>1. x \in New(o)'
        BY <2>0, <2>2, <2>5, <3>2 DEF New, Places
      <4> QED BY <4>1 DEF Learned
    <3>3. CASE told[o] # {} /\ ~Moves(o)'
      <4>1. x.in \in Places(told[o])
        BY <2>2, <2>5, <2>6, <3>3 DEF Moves
      <4>2. PICK r \in told[o] : r.in = x.in
        BY <4>1 DEF Places
      <4>3. x \in Stays(o, r)'
        BY <1>1, <2>0, <2>2, <2>5, <4>2, Distinct DEF Stays
      <4> QED BY <3>3, <4>3 DEF Learned
    <3> QED BY <3>1, <3>2, <3>3
  <2>8. ~Doubled(Learned(o))' => Learned(o)' = {x}
    BY <2>7 DEF Doubled
  <2> QED BY <1>1, <1>2, <2>0, <2>8 DEF Right, x
<1> QED BY <1>1, <1>3, <1>4, <1>5

LEMMA SameHeeded ==
    ASSUME UNCHANGED drive, cursor' = cursor, heard' = heard, Heeded
    PROVE  Heeded'
BY SameDrive DEF Heeded

(* Of what was not heard of, a delta pass keeps the rows and a full one    *)
(* none.                                                                   *)
LEMMA UnheardLearned ==
    ASSUME NEW o \in File, heard[o] = Unheard
    PROVE  Learned(o) = IF whole THEN {} ELSE told[o]
<1>1. heard[o].places = <<>> /\ heard[o].gone = Silent /\ ToSet(heard[o].places) = {}
  BY DEF Unheard, ToSet
<1>2. New(o) = {} /\ ~Moves(o)
  BY <1>1 DEF New, Moves
<1>3. \A r \in told[o] : Stays(o, r) = IF whole THEN {} ELSE {r}
  BY <1>1 DEF Stays
<1> QED BY <1>2, <1>3 DEF Learned

(* A file that was heard of where the base knows it gets no second row.    *)
LEMMA HeededOnce ==
    ASSUME TypeOK, DriveInv, NEW o \in File, ~whole, ~Doubled(told[o]),
           \A n \in DOMAIN heard[o].places : heard[o].places[n] = Is(o),
           Is(o) # Out => told[o] = CU!Known(o)
    PROVE  ~Doubled(Learned(o))
<1>1. \A e \in ToSet(heard[o].places) : e = Is(o)
  BY DEF ToSet
<1>2. CASE heard[o].places = <<>>
  <2>1. ToSet(heard[o].places) = {}
    BY <1>2, RowIs
  <2>2. New(o) = {} /\ ~Moves(o)
    BY <1>2, <2>1 DEF New, Moves
  <2>3. \A r \in told[o] : Stays(o, r) \subseteq {r}
    BY <2>1 DEF Stays
  <2>4. Learned(o) \subseteq told[o]
    BY <2>2, <2>3 DEF Learned
  <2> QED BY <2>4 DEF Doubled
<1>3. CASE heard[o].places # <<>>
  <2>1. Latest(o) = Is(o) /\ Is(o) \in FileState
    BY <1>1, <1>3, RowIs
  <2>2. told[o] = {Is(o)}
    BY <2>1, KnownIs, Distinct
  <2>3. Is(o).in \in Places(told[o])
    BY <2>2 DEF Places
  <2>4. ~Moves(o) /\ New(o) = {}
    BY <1>1, <2>1, <2>3 DEF Moves, New
  <2>5. Stays(o, Is(o)) \subseteq {Is(o)}
    BY <1>1 DEF Stays
  <2>6. Learned(o) \subseteq {Is(o)}
    BY <2>2, <2>4, <2>5 DEF Learned
  <2> QED BY <2>6 DEF Doubled
<1> QED BY <1>2, <1>3

LEMMA BeginDeltaInv ==
    ASSUME TypeOK, IInv, BeginDelta
    PROVE  TypeOK' /\ IInv'
<1>1. Rest /\ UNCHANGED drive /\ UNCHANGED base /\ cursor > 0
  BY DEF BeginDelta, IInv, IdleInv
<1>2. /\ pc' = "page" /\ from' = cursor /\ last' = cursor /\ safe' = cursor
      /\ UNCHANGED <<whole, page, seen, asked, tip, list, deep, heard, missed, left>>
  BY DEF BeginDelta, walk
<1>3. DriveType' /\ BaseType' /\ DriveInv' /\ BaseInv'
  BY <1>1, SameBase, TypeParts, SameDriveType, SameBaseType
<1>4. PassType'
  BY <1>2, Zenon DEF PassType, TypeOK, Pc
<1>5. whole' = FALSE /\ page' = {} /\ missed' = {} /\ heard' = Nothing
  BY <1>1, <1>2 DEF Rest
<1>6. /\ cursor' = cursor /\ cursor <= top /\ top' = top /\ cursor \in Nat
      /\ \A o \in File \ lost : CU!Promised(o, told, cursor)
  BY <1>1 DEF drive, base, IInv, BaseInv, TypeOK
<1>7. DeltaInv'
  <2>1. \A o \in File : heard'[o].places = <<>>
    BY <1>5 DEF Nothing, Unheard
  <2>2. Heeded'
    BY <2>1 DEF Heeded
  <2> QED BY <1>1, <1>2, <1>5, <1>6, <2>2 DEF DeltaInv, Reading
<1>8. ASSUME NEW o \in File PROVE (Excused(o) \/ Right(o, Read))'
  <2>1. heard'[o] = Unheard /\ heard'[o] = heard[o] /\ whole' = FALSE /\ whole = FALSE
        /\ Read' = cursor
    BY <1>1, <1>2, <1>5 DEF Nothing, Read, Reading, Rest
  <2>2. CASE o \in lost
    BY <1>1, <2>1, <2>2 DEF Excused, NotRighted, base
  <2>3. CASE o \notin lost
    <3>1. NewsOf(o) <= cursor /\ Is(o) # Out => told[o] = CU!Known(o)
      BY <1>6, <2>3 DEF CU!Promised
    <3>2. Learned(o) = told[o]
      BY <2>1, UnheardLearned
    <3>3. Right(o, cursor)
      BY <3>1, <3>2 DEF Right
    <3>4. Right(o, cursor)'
      BY <1>1, <2>1, <3>3, SameLearned DEF Right, Doubled, base
    <3> QED BY <1>6, <2>1, <3>4 DEF Right
  <2> QED BY <2>2, <2>3
<1> QED
  BY <1>2, <1>3, <1>4, <1>5, <1>7, <1>8, TypePartsNext
  DEF IInv, IdleInv, FullInv, PassInv

(* A step of a delta pass leaves the rest of the profile as it is.         *)
LEMMA DeltaFacts ==
    ASSUME TypeOK, IInv, pc \in {"page", "item", "ask"} \/ (pc = "list" /\ ~whole)
    PROVE  /\ ~whole /\ DriveInv /\ DeltaInv
           /\ cursor \in Nat /\ last \in Nat /\ safe \in Nat /\ from \in Nat /\ top \in Nat
           /\ 0 < cursor /\ cursor <= last /\ last <= top
           /\ pc \in Reading => cursor <= safe /\ safe <= last /\ last <= from /\ from <= top
           /\ \A o \in missed : o \in File /\ NewsOf(o) > cursor
           /\ \A a \in page : /\ ItemInv(a) /\ a.rev \in Nat /\ a.o \in Obj
                              /\ \A b \in page : a.o = b.o => a = b
           /\ Together(cursor)
<1>1. ~whole
  BY DEF IInv, FullInv
<1>2. DriveInv /\ DeltaInv /\ pc # "idle"
  BY DEF IInv
<1>3. page \subseteq [o : Obj, rev : Nat, is : FileState \cup Label \cup {None, Out}]
  BY DEF TypeOK
<1>4. /\ cursor \in Nat /\ last \in Nat /\ safe \in Nat /\ from \in Nat /\ top \in Nat
      /\ missed \subseteq File
  BY DEF TypeOK
<1>5. /\ 0 < cursor /\ cursor <= last /\ last <= top
      /\ pc \in Reading => cursor <= safe /\ safe <= last /\ last <= from /\ from <= top
      /\ \A o \in missed : NewsOf(o) > cursor
      /\ \A a \in page : ItemInv(a) /\ \A b \in page : a.o = b.o => a = b
  BY <1>1, <1>2 DEF DeltaInv
<1>6. Together(cursor)
  BY <1>2, <1>5 DEF DriveInv
<1> QED BY <1>1, <1>2, <1>3, <1>4, <1>5, <1>6

(* A page of changes, in order and each object once.                       *)
LEMMA PageIs ==
    ASSUME TypeOK, DriveInv, NEW r \in Nat, NEW S, IsPage(S, r)
    PROVE  /\ S # {} /\ Ordered(S, top)
           /\ \A a \in S : /\ a.o \in Obj /\ a = Item(a.o) /\ a.rev = rev[a.o] /\ a.rev > r
                           /\ a.rev \in Nat
                           /\ a.is = IF a.o = Dir THEN label ELSE Is(a.o)
           /\ \A a, b \in S : a.o = b.o => a = b
           /\ \A q \in Obj : rev[q] > r /\ Item(q) \notin S => \A a \in S : Before(a, Item(q))
<1> USE ObjNat
<1>1. \A a \in S : \E q \in Obj : rev[q] > r /\ a = Item(q)
  BY DEF IsPage, After
<1>2. \A q \in Obj : Item(q).o = q /\ Item(q).rev = rev[q]
                     /\ Item(q).is = IF q = Dir THEN label ELSE Is(q)
  BY DEF Item
<1>3. \A a \in S : /\ a.o \in Obj /\ a = Item(a.o) /\ a.rev = rev[a.o] /\ a.rev > r
                   /\ a.is = IF a.o = Dir THEN label ELSE Is(a.o)
  BY <1>1, <1>2
<1>4. \A q \in Obj : rev[q] \in Nat /\ rev[q] <= top
  BY DEF TypeOK, DriveInv
<1>5. \A q \in Obj : (IF q = Dir THEN label ELSE Is(q)) \in FileState \cup Label \cup {None, Out}
  <2> TAKE q \in Obj
  <2>1. CASE q = Dir
    BY <2>1 DEF TypeOK
  <2>2. CASE q # Dir
    <3>1. q \in File
      BY <2>2 DEF Obj
    <3> QED BY <2>2, <3>1, IsType
  <2> QED BY <2>1, <2>2
<1>6. \A q \in Obj : Item(q) \in [o : Obj, rev : Nat,
                                  is : FileState \cup Label \cup {None, Out}]
  BY <1>4, <1>5 DEF Item
<1>7. Ordered(S, top)
  BY <1>1, <1>3, <1>4, <1>6 DEF Ordered
<1>8. \A q \in Obj : rev[q] > r /\ Item(q) \notin S => \A a \in S : Before(a, Item(q))
  BY DEF IsPage, After
<1>9. S # {} /\ \A a, b \in S : a.o = b.o => a = b
  BY <1>3 DEF IsPage
<1> QED BY <1>3, <1>4, <1>7, <1>8, <1>9

LEMMA ReadUpInv ==
    ASSUME TypeOK, IInv, pc \in {"page", "item"}, ReadUp, UNCHANGED drive, UNCHANGED base,
           UNCHANGED <<whole, tip, list, deep, heard, missed, left>>,
           last' \in Nat, cursor <= last', last' <= last,
           \A o \in File : OnPaper(o) => NewsOf(o) > last'
    PROVE  TypeOK' /\ IInv'
<1>1. /\ pc' = "ask" /\ page' = {} /\ from' = 0 /\ safe' = 0 /\ seen' = 0 /\ asked' = 0
  BY DEF ReadUp
<1>2. DriveType' /\ BaseType' /\ DriveInv' /\ BaseInv'
  BY SameBase, TypeParts, SameDriveType, SameBaseType
<1>3. PassType'
  <2>1. pc' \in Pc
    BY <1>1, Zenon DEF Pc
  <2> QED BY <1>1, <2>1, SizeAssumption DEF PassType, TypeOK
<1>4. ~whole /\ whole' = whole /\ cursor' = cursor /\ missed' = missed /\ lost' = lost
      /\ told' = told /\ heard' = heard /\ top' = top
  BY DeltaFacts DEF base, drive
<1>5. DeltaInv'
  <2>1. last' <= top /\ 0 < cursor
    BY DeltaFacts
  <2>2. \A o \in missed' : NewsOf(o)' > cursor'
    BY <1>4, DeltaFacts, SameDrive
  <2>3. Heeded'
    BY <1>4, DeltaFacts, SameHeeded DEF DeltaInv
  <2> QED BY <1>1, <1>4, <2>1, <2>2, <2>3 DEF DeltaInv, Reading
<1>6. ASSUME NEW o \in File PROVE (Excused(o) \/ Right(o, Read))'
  <2>1. Read' = last' /\ Read = from /\ last' <= from /\ from \in Nat /\ ~Unlisted(o)
    BY <1>1, <1>4, DeltaFacts DEF Read, Reading, Unlisted
  <2>2. Excused(o) \/ Right(o, from)
    BY <2>1 DEF IInv, PassInv, Reading
  <2>3. NewsOf(o) \in Nat
    BY IsType, DeltaFacts
  <2>4. CASE Right(o, from)
    <3>1. Right(o, last')
      BY <2>1, <2>3, <2>4 DEF Right
    <3>2. Right(o, Read)'
      BY <1>4, <2>1, <3>1, SameLearned DEF Right, Doubled
    <3> QED BY <3>2
  <2>5. CASE OnPaper(o)
    <3>1. NewsOf(o) > last'
      BY <2>5
    <3> QED BY <2>1, <2>3, <3>1, SameDrive DEF Right
  <2>6. CASE o \in missed \/ (o \in lost /\ NotRighted(o))
    BY <1>4, <2>6 DEF Excused, NotRighted, Doubled
  <2> QED BY <2>1, <2>2, <2>4, <2>5, <2>6 DEF Excused
<1> QED
  BY <1>1, <1>2, <1>3, <1>4, <1>5, <1>6, TypePartsNext
  DEF IInv, IdleInv, FullInv, PassInv

LEMMA TruncateInv ==
    ASSUME TypeOK, IInv, Truncate
    PROVE  TypeOK' /\ IInv'
<1> DEFINE a == Foremost(page)
<1>1. pc = "item" /\ page # {}
  BY DEF Truncate, IInv, DeltaInv, FullInv
<1>2. a \in page /\ \A b \in page : a.rev <= b.rev
  <2>1. Ordered(page, from)
    BY <1>1, DeltaFacts DEF Ordered, TypeOK, ItemInv
  <2> QED BY <1>1, <2>1, DeltaFacts, ForemostIs
<1> HIDE DEF a
<1>3. last' = (IF a.rev <= last THEN safe ELSE last)
  BY DEF Truncate, CutAt, a
<1>4. last' \in Nat /\ cursor <= last' /\ last' <= last /\ last' < a.rev
  <2>1. ItemInv(a) /\ a.rev \in Nat /\ cursor <= safe /\ safe <= last /\ cursor <= last
        /\ last \in Nat /\ safe \in Nat /\ cursor \in Nat
    BY <1>1, <1>2, DeltaFacts DEF Reading
  <2>2. last <= a.rev /\ (a.rev = last => safe < last)
    BY <2>1 DEF ItemInv
  <2> QED BY <1>3, <2>1, <2>2
<1>5. ASSUME NEW o \in File, OnPaper(o) PROVE NewsOf(o) > last'
  <2>1. PICK b \in page : b.o = o \/ (b.o = Dir /\ at[o] = Dir)
    BY <1>5 DEF OnPaper
  <2>2. b.rev \in Nat /\ a.rev \in Nat /\ a.rev <= b.rev /\ b.rev <= rev[b.o]
    BY <1>1, <1>2, DeltaFacts DEF ItemInv
  <2>3. rev[b.o] <= NewsOf(o) /\ NewsOf(o) \in Nat /\ rev[b.o] \in Nat
    <3>1. CASE b.o = o
      BY <1>1, <3>1, DeltaFacts, IsType
    <3>2. CASE b.o = Dir /\ at[o] = Dir
      <4>1. rev[Dir] <= NewsOf(o) /\ NewsOf(o) \in Nat /\ rev[Dir] \in Nat
        BY <1>1, <3>2, DeltaFacts, IsType, ObjNat DEF TypeOK
      <4> QED BY <3>2, <4>1
    <3> QED BY <2>1, <3>1, <3>2
  <2> QED BY <1>4, <2>2, <2>3
<1>6. /\ ReadUp /\ UNCHANGED drive /\ UNCHANGED base
      /\ UNCHANGED <<whole, tip, list, deep, heard, missed, left>>
  BY DEF Truncate, walk
<1> QED BY <1>1, <1>4, <1>5, <1>6, ReadUpInv

LEMMA GetChangesInv ==
    ASSUME TypeOK, IInv, GetChanges
    PROVE  TypeOK' /\ IInv'
<1> USE ObjNat
<1>0. /\ pc = "page" /\ UNCHANGED drive /\ UNCHANGED base
      /\ UNCHANGED <<whole, tip, list, deep, heard, left>>
  BY DEF GetChanges, walk
<1>1. page = {} /\ last = from /\ ~whole
  BY <1>0, DeltaFacts DEF DeltaInv, Reading
<1>2. CASE ReadUp /\ UNCHANGED <<last, missed>>
  BY <1>0, <1>1, <1>2, DeltaFacts, ReadUpInv DEF OnPaper
<1>3. CASE /\ \E S \in SUBSET {Item(o) : o \in After(from)} :
                 /\ IsPage(S, from)
                 /\ page' = S /\ from' = Final(S).rev
                 /\ missed' = missed \cup Severed(S)
           /\ asked # MaxPages
           /\ asked' = asked + 1 /\ pc' = "item"
           /\ UNCHANGED <<last, safe, seen>>
  <2>1. PICK S \in SUBSET {Item(o) : o \in After(from)} :
                 /\ IsPage(S, from)
                 /\ page' = S /\ from' = Final(S).rev
                 /\ missed' = missed \cup Severed(S)
    BY <1>3
  <2>2. /\ asked # MaxPages /\ asked' = asked + 1 /\ pc' = "item"
        /\ last' = last /\ safe' = safe /\ seen' = seen /\ cursor' = cursor
        /\ lost' = lost /\ told' = told /\ heard' = heard /\ whole' = whole
        /\ UNCHANGED <<at, label, ver, rev, top>>
    BY <1>0, <1>3 DEF base, drive
  <2> DEFINE z == Final(S)
  <2>3. /\ S # {} /\ Ordered(S, top)
        /\ \A a \in S : /\ a.o \in Obj /\ a = Item(a.o) /\ a.rev = rev[a.o] /\ a.rev > from
                        /\ a.rev \in Nat
                        /\ a.is = IF a.o = Dir THEN label ELSE Is(a.o)
        /\ \A a, b \in S : a.o = b.o => a = b
        /\ \A q \in Obj : rev[q] > from /\ Item(q) \notin S => \A a \in S : Before(a, Item(q))
    BY <1>0, <2>1, DeltaFacts, PageIs
  <2>4. z \in S /\ \A b \in S \ {z} : Before(b, z)
    BY <2>3, DeltaFacts, <1>0, FinalIs
  <2>5. from' = z.rev /\ z.rev = rev[z.o] /\ z.o \in Obj /\ z.rev > from
        /\ z.rev \in Nat /\ from' \in Nat /\ from' <= top
    BY <1>0, <2>1, <2>3, <2>4, DeltaFacts DEF DriveInv
  <2>6. \A a \in S : a.rev <= from'
    BY <2>3, <2>4, <2>5 DEF Before
  <2> HIDE DEF z
  <2>7. DriveType' /\ BaseType' /\ DriveInv' /\ BaseInv'
    BY <1>0, SameBase, TypeParts, SameDriveType, SameBaseType
  <2>8. Severed(S) \subseteq File /\ \A o \in Severed(S) : rev[o] = from'
    BY <2>5 DEF Severed, z
  <2>9. PassType'
    <3>1. pc' \in Pc
      BY <2>2, Zenon DEF Pc
    <3>2. asked' \in Nat /\ asked' <= MaxPages
      <4>1. asked \in Nat /\ asked <= MaxPages
        BY DEF TypeOK
      <4>2. MaxPages \in Nat
        BY SizeAssumption
      <4> QED BY <2>2, <4>1, <4>2
    <3>3. page' \subseteq [o : Obj, rev : Nat,
                           is : FileState \cup Label \cup {None, Out}]
      BY <2>1, <2>3 DEF Ordered
    <3>4. missed' \subseteq File
      BY <2>1, <2>8 DEF TypeOK
    <3> QED BY <1>0, <2>2, <2>5, <3>1, <3>2, <3>3, <3>4 DEF PassType, TypeOK
  <2>10. ASSUME NEW a \in S PROVE ItemInv(a)'
    <3>1. /\ a.o \in Obj /\ a.rev = rev[a.o] /\ a.rev > from /\ a.rev \in Nat
          /\ a.is = IF a.o = Dir THEN label ELSE Is(a.o)
      BY <2>3
    <3>2. cursor < a.rev /\ last < a.rev
      BY <1>0, <1>1, <3>1, DeltaFacts
    <3>3. a.o \in File => /\ a.is \in FileState \cup {None, Out}
                          /\ a.is = Is(a.o)'
      <4> HAVE a.o \in File
      <4>1. a.is = Is(a.o) /\ Is(a.o) \in FileState \cup {None, Out}
        BY <1>0, <3>1, IsType, DeltaFacts
      <4>2. Is(a.o)' = Is(a.o)
        BY <1>0, SameDrive
      <4> QED BY <4>1, <4>2
    <3>4. a.o = Dir => /\ a.is \in Label \cup {None} /\ a.is = label'
                       /\ \A b \in S : a.rev = b.rev /\ b.o # Dir => label = None
      <4> HAVE a.o = Dir
      <4>1. a.is = label /\ label \in Label \cup {None}
        BY <3>1 DEF TypeOK
      <4>2. ASSUME NEW b \in S, a.rev = b.rev, b.o # Dir, label # None PROVE FALSE
        <5>1. b.o \in File /\ rev[b.o] = rev[Dir]
          BY <2>3, <3>1, <4>2 DEF Obj
        <5>2. rev[b.o] <= cursor
          BY <1>0, <4>2, <5>1, DeltaFacts DEF Together
        <5>3. rev[b.o] = a.rev /\ cursor \in Nat
          BY <1>0, <2>3, <4>2, DeltaFacts
        <5> QED BY <3>1, <3>2, <5>2, <5>3
      <4> QED BY <2>2, <4>1, <4>2
    <3> QED
      BY <1>0, <2>1, <2>2, <2>5, <2>6, <3>1, <3>2, <3>3, <3>4, DeltaFacts DEF ItemInv
  <2>11. \A o \in missed' : NewsOf(o)' > cursor
    <3> TAKE o \in missed'
    <3>1. NewsOf(o)' = NewsOf(o) /\ o \in File
      BY <1>0, <2>1, <2>8, SameDrive, DeltaFacts
    <3>2. CASE o \in missed
      BY <1>0, <3>1, <3>2, DeltaFacts
    <3>3. CASE o \in Severed(S)
      <4>1. rev[o] = from' /\ rev[o] <= NewsOf(o) /\ NewsOf(o) \in Nat
        BY <1>0, <2>8, <3>1, <3>3, DeltaFacts, IsType
      <4>2. cursor \in Nat /\ from \in Nat /\ cursor <= from /\ from < from'
        BY <1>0, <1>1, <2>5, DeltaFacts
      <4> QED BY <2>5, <3>1, <4>1, <4>2
    <3> QED BY <2>1, <3>2, <3>3
  <2>12. DeltaInv'
    <3>1. /\ cursor <= last /\ 0 < cursor /\ last <= top /\ cursor <= safe /\ safe <= last
          /\ last <= from'
      BY <1>0, <1>1, <2>5, DeltaFacts DEF Reading
    <3>2. \E a \in page' : a.rev = from'
      BY <2>1, <2>4, <2>5
    <3>3. \A a \in page' : ItemInv(a)' /\ \A b \in page' : a.o = b.o => a = b
      BY <2>1, <2>3, <2>10
    <3>4. Heeded'
      BY <1>0, <1>1, <2>2, DeltaFacts, SameHeeded DEF DeltaInv
    <3> QED BY <2>1, <2>2, <2>3, <2>5, <2>11, <3>1, <3>2, <3>3, <3>4 DEF DeltaInv, Reading
  <2>13. ASSUME NEW o \in File PROVE (Excused(o) \/ Right(o, Read))'
    <3>1. Read' = from' /\ Read = from /\ ~Unlisted(o) /\ ~OnPaper(o)
      BY <1>0, <1>1, <2>2 DEF Read, Reading, Unlisted, OnPaper
    <3>2. /\ NewsOf(o) \in Nat /\ NewsOf(o)' = NewsOf(o) /\ Is(o)' = Is(o)
          /\ NewsOf(o) = rev[o] \/ (at[o] = Dir /\ NewsOf(o) = rev[Dir])
      BY <1>0, IsType, DeltaFacts, SameDrive
    <3>3. CASE NewsOf(o) <= from
      <4>1. CASE Excused(o)
        BY <2>1, <2>2, <3>1, <4>1 DEF Excused, NotRighted, Doubled
      <4>2. CASE Right(o, from)
        <5>1. Is(o) # Out /\ ~Doubled(Learned(o)) => Learned(o) = CU!Known(o)
          BY <3>3, <4>2 DEF Right
        <5> QED BY <1>0, <2>2, <5>1, SameLearned DEF Right, Doubled
      <4> QED BY <1>0, <3>1, <4>1, <4>2 DEF IInv, PassInv, Reading
    <3>4. CASE from < NewsOf(o) /\ NewsOf(o) <= from'
      <4>1. PICK q \in {o, Dir} : /\ NewsOf(o) = rev[q] /\ q \in Obj
                                  /\ q = o \/ (q = Dir /\ at[o] = Dir)
        BY <3>2
      <4>2. CASE Item(q) \in S
        <5>1. Item(q).o = q
          BY DEF Item
        <5>2. OnPaper(o)'
          BY <2>1, <2>2, <4>1, <4>2, <5>1 DEF OnPaper
        <5> QED BY <5>2 DEF Excused
      <4>3. CASE Item(q) \notin S
        <5>1. Before(z, Item(q)) /\ Item(q).rev = rev[q]
          BY <2>3, <2>4, <3>4, <4>1, <4>3 DEF Item
        <5>2. rev[q] = from' /\ rev[z.o] = rev[q]
          BY <2>5, <3>2, <3>4, <4>1, <5>1 DEF Before
        <5>3. CASE q = o
          <6>1. o \notin {a.o : a \in S}
            BY <2>3, <4>3, <5>3
          <6>2. o \in Severed(S)
            BY <2>5, <5>2, <5>3, <6>1 DEF Severed, z
          <6> QED BY <2>1, <6>2 DEF Excused
        <5>4. CASE q = Dir /\ at[o] = Dir
          <6>1. z.o # Dir /\ z.o \in File
            BY <2>3, <2>4, <2>5, <4>3, <5>4 DEF Obj
          <6>2. label # None
            BY <1>0, <5>4, DeltaFacts DEF DriveInv, Inside
          <6>3. rev[z.o] <= cursor
            BY <1>0, <5>2, <5>4, <6>1, <6>2, DeltaFacts DEF Together
          <6> QED BY <1>0, <1>1, <2>5, <6>3, DeltaFacts
        <5> QED BY <4>1, <5>3, <5>4
      <4> QED BY <4>2, <4>3
    <3>5. CASE ~(NewsOf(o) <= from')
      BY <3>1, <3>2, <3>5 DEF Right
    <3> QED BY <1>0, <2>5, <3>2, <3>3, <3>4, <3>5, DeltaFacts
  <2> QED
    BY <1>1, <2>2, <2>7, <2>9, <2>12, <2>13, TypePartsNext
    DEF IInv, IdleInv, FullInv, PassInv
<1> QED BY <1>2, <1>3 DEF GetChanges

(* Taking the foremost change of a page.                                   *)
TakenTo(a) ==
    /\ cursor <= safe' /\ safe' <= last' /\ last' <= from /\ last' \in Nat /\ safe' \in Nat
    /\ cursor < last' /\ last' <= top
    /\ seen' \in Nat /\ seen' <= MaxItems
    /\ page' = {} => last' = from
    /\ page' # {} => \E b \in page' : b.rev = from
    /\ \A b \in page' : b \in page /\ b # a /\ ItemInv(b)'

LEMMA TakesIs ==
    ASSUME TypeOK, IInv, NEW a \in page, Takes(a)
    PROVE  /\ TakenTo(a)
           /\ pc = "item" /\ page' = page \ {a} /\ last' = a.rev
           /\ UNCHANGED drive /\ UNCHANGED base
           /\ UNCHANGED <<whole, from, asked, tip, left>>
<1>0. /\ pc = "item" /\ page' = page \ {a} /\ last' = a.rev
      /\ safe' = (IF a.rev > last THEN last ELSE safe)
      /\ seen' = seen + 1 /\ seen < MaxItems /\ a = Foremost(page)
      /\ UNCHANGED drive /\ UNCHANGED base
      /\ UNCHANGED <<whole, from, asked, tip, left>>
  BY DEF Takes
<1>1. \A b \in page : a.rev <= b.rev
  <2>1. Ordered(page, from)
    BY <1>0, DeltaFacts DEF Ordered, TypeOK, ItemInv
  <2> QED BY <1>0, <2>1, DeltaFacts, ForemostIs
<1>2. /\ ItemInv(a) /\ a.rev \in Nat /\ a.o \in Obj
      /\ cursor \in Nat /\ last \in Nat /\ safe \in Nat /\ from \in Nat /\ top \in Nat
      /\ cursor <= safe /\ safe <= last /\ last <= from /\ from <= top
      /\ \A b \in page : ItemInv(b) /\ b.rev \in Nat /\ b.o \in Obj
                         /\ (a.o = b.o => a = b)
  BY <1>0, DeltaFacts DEF Reading
<1>3. cursor < a.rev /\ last <= a.rev /\ a.rev <= from /\ (a.rev = last => safe < last)
  BY <1>2 DEF ItemInv
<1>4. /\ cursor <= safe' /\ safe' < last' /\ last' <= from /\ cursor < last' /\ last' <= top
      /\ last' \in Nat /\ safe' \in Nat
  BY <1>0, <1>2, <1>3
<1>5. PICK c \in page : c.rev = from
  BY <1>0, DeltaFacts DEF DeltaInv, Reading
<1>6. page' = {} => last' = from
  BY <1>0, <1>5
<1>7. page' # {} => \E b \in page' : b.rev = from
  <2> HAVE page' # {}
  <2>1. CASE c \in page'
    BY <1>5, <2>1
  <2>2. CASE c \notin page'
    <3>1. c = a
      BY <1>0, <2>2
    <3>2. PICK b \in page' : TRUE
      OBVIOUS
    <3>3. b \in page /\ b.rev <= from /\ a.rev <= b.rev /\ b.rev \in Nat
      BY <1>0, <1>1, <1>2, <3>2 DEF ItemInv
    <3> QED BY <1>2, <1>5, <3>1, <3>2, <3>3
  <2> QED BY <2>1, <2>2
<1>8. ASSUME NEW b \in page' PROVE b \in page /\ b # a /\ ItemInv(b)'
  <2>1. b \in page /\ b # a /\ ItemInv(b) /\ a.rev <= b.rev /\ b.rev \in Nat /\ b.o \in Obj
    BY <1>0, <1>1, <1>2
  <2>2. cursor' = cursor /\ from' = from /\ label' = label /\ rev' = rev
    BY <1>0 DEF base, drive
  <2>3. cursor < b.rev /\ b.rev <= from /\ b.rev <= rev[b.o] /\ last' <= b.rev
    BY <1>0, <2>1 DEF ItemInv
  <2>4. b.o \in File => /\ b.is \in FileState \cup {None, Out}
                        /\ b.is = Is(b.o)' \/ NewsOf(b.o)' > from
    BY <1>0, <2>1, SameDrive DEF ItemInv
  <2>5. b.o = Dir => /\ b.is \in Label \cup {None}
                     /\ b.is = label \/ rev[Dir] > from
                     /\ \A d \in page : b.rev = d.rev /\ d.o # Dir => label = None
    BY <2>1 DEF ItemInv
  <2>6. b.o = Dir /\ b.rev = last' => label = None
    BY <1>0, <1>2, <2>1, <2>5
  <2> QED BY <1>0, <1>4, <2>1, <2>2, <2>3, <2>4, <2>5, <2>6 DEF ItemInv
<1>9. seen' \in Nat /\ seen' <= MaxItems
  <2>1. seen \in Nat /\ MaxItems \in Nat
    BY SizeAssumption DEF TypeOK
  <2> QED BY <1>0, <2>1
<1> QED BY <1>0, <1>4, <1>6, <1>7, <1>8, <1>9 DEF TakenTo

LEMMA TakeFileInv ==
    ASSUME TypeOK, IInv, NEW a \in page, TakeFile(a)
    PROVE  TypeOK' /\ IInv'
<1>0. /\ a.o \in File /\ Takes(a) /\ heard' = [heard EXCEPT ![a.o] = Hears(a.o, a.is)]
      /\ missed' = (missed \ {a.o}) \cup {o \in {a.o} : Outlived(o, a.is)}
      /\ pc' = Onward(page') /\ list' = list /\ deep' = deep
  BY DEF TakeFile, walk
<1>1. /\ TakenTo(a)
      /\ pc = "item" /\ page' = page \ {a} /\ last' = a.rev
      /\ UNCHANGED drive /\ UNCHANGED base
      /\ UNCHANGED <<whole, from, asked, tip, left>>
  BY <1>0, TakesIs
<1>2. /\ cursor' = cursor /\ lost' = lost /\ told' = told /\ top' = top /\ rev' = rev
      /\ label' = label /\ at' = at
  BY <1>1 DEF base, drive
<1>3. DriveType' /\ BaseType' /\ DriveInv' /\ BaseInv'
  BY <1>1, SameBase, TypeParts, SameDriveType, SameBaseType
<1>4. pc' \in {"page", "item"} /\ (pc' = "page" <=> page' = {})
  BY <1>0 DEF Onward
<1>5. ~whole /\ a.is \in FileState \cup {None, Out}
      /\ (a.is = Is(a.o) \/ NewsOf(a.o) > from)
  BY <1>0, <1>1, DeltaFacts DEF ItemInv
<1>6. heard \in [File -> Heard] /\ Hears(a.o, a.is) \in Heard
  BY <1>0, <1>5, HearsType DEF TypeOK
<1>7. /\ heard'[a.o] = Hears(a.o, a.is)
      /\ \A o \in File : o # a.o => heard'[o] = heard[o]
  BY <1>0, <1>6
<1>8. PassType'
  <2>1. pc' \in Pc
    BY <1>4, Zenon DEF Pc
  <2>2. heard' \in [File -> Heard]
    BY <1>0, <1>6
  <2>3. missed' \subseteq File
    BY <1>0 DEF TypeOK
  <2> QED BY <1>0, <1>1, <2>1, <2>2, <2>3 DEF PassType, TypeOK, TakenTo
<1>9. DeltaInv'
  <2>0. NewsOf(a.o) > cursor
    <3>1. /\ cursor < a.rev /\ a.rev <= rev[a.o] /\ a.rev \in Nat /\ cursor \in Nat
          /\ rev[a.o] <= NewsOf(a.o) /\ rev[a.o] \in Nat /\ NewsOf(a.o) \in Nat
      BY <1>0, <1>1, DeltaFacts, IsType DEF ItemInv
    <3> QED BY <3>1
  <2>1. \A o \in missed' : NewsOf(o)' > cursor'
    BY <1>0, <1>1, <1>2, <2>0, SameDrive, DeltaFacts
  <2>2. \A b, c \in page' : b.o = c.o => b = c
    BY <1>1, DeltaFacts
  <2>3. from' <= top' /\ 0 < cursor /\ cursor <= last' /\ last' <= top'
    BY <1>1, <1>2, DeltaFacts DEF Reading, TakenTo
  <2>4. Heeded'
    <3> SUFFICES ASSUME NEW o \in File, ~(NewsOf(o) > cursor)
                 PROVE  \A n \in DOMAIN heard'[o].places : heard'[o].places[n] = Is(o)
      BY <1>1, <1>2, SameDrive DEF Heeded
    <3> QED BY <1>1, <1>7, <2>0, DeltaFacts DEF DeltaInv, Heeded
  <2> QED BY <1>1, <1>2, <1>4, <2>1, <2>2, <2>3, <2>4 DEF DeltaInv, Reading, TakenTo
<1>10. ASSUME NEW o \in File PROVE (Excused(o) \/ Right(o, Read))'
  <2>1. Read' = from /\ Read = from /\ ~Unlisted(o) /\ whole' = whole
    BY <1>1, <1>4, <1>5 DEF Read, Reading, Unlisted
  <2>2. CASE o = a.o
    <3>1. CASE ~(NewsOf(o) <= from)
      BY <1>1, <2>1, <3>1, SameDrive DEF Right
    <3>2. CASE a.is = Is(o) /\ Outlived(o, Is(o))
      BY <1>0, <2>2, <3>2 DEF Excused
    <3>3. CASE a.is = Is(o) /\ ~Outlived(o, Is(o))
      <4>1. CASE Is(o) = None /\ Doubled(told[o])
        <5>1. o \in lost
          BY <4>1 DEF IInv, BaseInv
        <5> QED BY <1>2, <1>5, <2>1, <4>1, <5>1 DEF Excused, NotRighted, Doubled
      <4>2. CASE Is(o) = None => ~Doubled(told[o])
        <5>1. heard'[o] = Hears(o, Is(o)) /\ DriveInv /\ TypeOK'
          BY <1>3, <1>7, <1>8, <2>2, <3>3, TypePartsNext DEF IInv
        <5>2. Right(o, from)'
          BY <1>1, <1>2, <3>3, <4>2, <5>1, HeardRight
        <5> QED BY <1>1, <2>1, <5>2 DEF Right
      <4> QED BY <4>1, <4>2
    <3>4. NewsOf(o) \in Nat /\ from \in Nat
      BY <1>1, IsType, DeltaFacts
    <3> QED BY <1>5, <2>2, <3>1, <3>2, <3>3, <3>4
  <2>3. CASE o # a.o
    <3>1. heard'[o] = heard[o]
      BY <1>7, <2>3
    <3>2. CASE Right(o, from)
      <4>1. Right(o, from)'
        BY <1>1, <1>2, <3>1, <3>2, SameLearned DEF Right, Doubled
      <4> QED BY <1>1, <2>1, <4>1 DEF Right
    <3>3. CASE OnPaper(o)
      <4>1. PICK b \in page : b.o = o \/ (b.o = Dir /\ at[o] = Dir)
        BY <3>3 DEF OnPaper
      <4>2. b # a
        BY <1>0, <2>3, <4>1, ObjNat
      <4>3. OnPaper(o)'
        BY <1>1, <1>2, <4>1, <4>2 DEF OnPaper
      <4> QED BY <4>3 DEF Excused
    <3>4. CASE o \in missed \/ (o \in lost /\ NotRighted(o))
      BY <1>0, <1>2, <2>1, <2>3, <3>1, <3>4 DEF Excused, NotRighted, Doubled
    <3> QED BY <1>1, <2>1, <3>2, <3>3, <3>4 DEF IInv, PassInv, Excused, Reading
  <2> QED BY <2>2, <2>3
<1> QED
  BY <1>1, <1>3, <1>4, <1>5, <1>8, <1>9, <1>10, TypePartsNext
  DEF IInv, IdleInv, FullInv, PassInv

LEMMA TakeDirInv ==
    ASSUME TypeOK, IInv, NEW a \in page, TakeDir(a)
    PROVE  TypeOK' /\ IInv'
<1> USE ObjNat
<1>0. a.o = Dir /\ Takes(a) /\ heard' = heard
  BY DEF TakeDir
<1>1. /\ TakenTo(a)
      /\ pc = "item" /\ page' = page \ {a} /\ last' = a.rev
      /\ UNCHANGED drive /\ UNCHANGED base
      /\ UNCHANGED <<whole, from, asked, tip, left>>
  BY <1>0, TakesIs
<1>2. /\ cursor' = cursor /\ lost' = lost /\ told' = told /\ top' = top /\ rev' = rev
      /\ label' = label /\ at' = at
  BY <1>1 DEF base, drive
<1>3. DriveType' /\ BaseType' /\ DriveInv' /\ BaseInv'
  BY <1>1, SameBase, TypeParts, SameDriveType, SameBaseType
<1>4. /\ ~whole /\ a.is \in Label \cup {None} /\ (a.is = label \/ rev[Dir] > from)
      /\ cursor < a.rev /\ a.rev <= rev[Dir] /\ a.rev \in Nat /\ cursor \in Nat
      /\ rev[Dir] \in Nat /\ from \in Nat
  BY <1>0, <1>1, DeltaFacts DEF ItemInv, TypeOK
<1>5. rev[Dir] > cursor
  BY <1>4
<1>6. /\ \A b, c \in page' : b.o = c.o => b = c
      /\ from' <= top' /\ 0 < cursor /\ cursor <= last' /\ last' <= top'
  BY <1>1, <1>2, DeltaFacts DEF Reading, TakenTo
<1>7. Heeded'
  BY <1>0, <1>1, <1>2, DeltaFacts, SameHeeded DEF DeltaInv
<1>8. \A o \in Inside : o \in File /\ NewsOf(o) > cursor
  <2> TAKE o \in Inside
  <2>1. o \in File /\ rev[Dir] <= NewsOf(o) /\ NewsOf(o) \in Nat
    BY <1>1, DeltaFacts, IsType DEF Inside
  <2> QED BY <1>4, <1>5, <2>1
<1>9. ASSUME NEW o \in File
      PROVE  /\ Right(o, from) => Right(o, from)'
             /\ OnPaper(o) => at[o] = Dir \/ OnPaper(o)'
             /\ ~Unlisted(o) /\ Read = from
  <2>1. Right(o, from) => Right(o, from)'
    BY <1>0, <1>1, <1>2, SameLearned DEF Right, Doubled
  <2>2. ASSUME OnPaper(o), at[o] # Dir PROVE OnPaper(o)'
    <3>1. PICK b \in page : b.o = o
      BY <2>2 DEF OnPaper
    <3>2. b # a
      BY <1>0, <3>1
    <3> QED BY <1>1, <1>2, <3>1, <3>2 DEF OnPaper
  <2> QED BY <1>1, <1>4, <2>1, <2>2 DEF Unlisted, Read, Reading
<1>10. CASE Relists(a)
  <2>1. /\ deep' = a.is /\ pc' = "list" /\ missed' = missed
        /\ list' = [dir |-> Dir, in |-> a.is, off |-> 0, got |-> {}]
    BY <1>10 DEF TakeDir
  <2>2. a.is \in Label
    BY <1>4, <1>10 DEF Relists
  <2>3. PassType'
    <3>1. pc' \in Pc
      BY <2>1, Zenon DEF Pc
    <3>2. list' \in [dir : {Root, Dir, None}, in : Label \cup {Root, None},
                     off : Nat, got : SUBSET Obj]
      BY <2>1, <2>2
    <3> QED BY <1>0, <1>1, <2>1, <2>2, <3>1, <3>2 DEF PassType, TypeOK, TakenTo
  <2>4. DeltaInv'
    <3>1. \A o \in missed' : NewsOf(o)' > cursor'
      BY <1>1, <1>2, <2>1, SameDrive, DeltaFacts
    <3>2. list'.dir = Dir /\ list'.in \in Label /\ (list'.in = label \/ rev[Dir] > from)
      BY <1>4, <2>1, <2>2
    <3> QED BY <1>1, <1>2, <1>5, <1>6, <1>7, <2>1, <3>1, <3>2 DEF DeltaInv, Reading, TakenTo
  <2>5. ASSUME NEW o \in File PROVE (Excused(o) \/ Right(o, Read))'
    <3>1. Read' = from /\ whole' = whole
      BY <1>1, <1>4, <2>1 DEF Read, Reading
    <3>2. CASE at[o] = Dir
      <4>1. Unlisted(o)'
        BY <1>2, <2>1, <3>2 DEF Unlisted
      <4> QED BY <4>1 DEF Excused
    <3>3. CASE at[o] # Dir /\ Excused(o)
      BY <1>0, <1>1, <1>2, <1>9, <2>1, <3>3 DEF Excused, NotRighted, Doubled
    <3>4. CASE Right(o, from)
      BY <1>1, <1>9, <3>1, <3>4 DEF Right
    <3> QED BY <1>1, <1>9, <3>2, <3>3, <3>4 DEF IInv, PassInv, Reading
  <2> QED
    BY <1>1, <1>3, <1>4, <2>1, <2>3, <2>4, <2>5, TypePartsNext
    DEF IInv, IdleInv, FullInv, PassInv
<1>11. CASE ~Relists(a)
  <2>1. /\ pc' = Onward(page') /\ list' = list /\ deep' = deep
        /\ missed' = IF a.is = None THEN missed ELSE missed \cup Inside
    BY <1>11 DEF TakeDir, walk
  <2>2. pc' \in {"page", "item"} /\ (pc' = "page" <=> page' = {})
    BY <2>1 DEF Onward
  <2>3. missed' \subseteq missed \cup Inside /\ missed \subseteq missed' /\ Inside \subseteq File
    BY <2>1 DEF Inside
  <2>4. PassType'
    <3>1. pc' \in Pc
      BY <2>2, Zenon DEF Pc
    <3> QED BY <1>0, <1>1, <2>1, <2>3, <3>1 DEF PassType, TypeOK, TakenTo
  <2>5. DeltaInv'
    <3>1. \A o \in missed' : NewsOf(o)' > cursor'
      BY <1>1, <1>2, <1>8, <2>3, SameDrive, DeltaFacts
    <3> QED BY <1>1, <1>2, <1>6, <1>7, <2>2, <3>1 DEF DeltaInv, Reading, TakenTo
  <2>6. ASSUME NEW o \in File PROVE (Excused(o) \/ Right(o, Read))'
    <3>1. Read' = from /\ whole' = whole
      BY <1>1, <1>4, <2>2 DEF Read, Reading
    <3>2. CASE at[o] = Dir
      <4>1. label # None
        BY <1>1, <3>2, DeltaFacts DEF DriveInv, Inside
      <4>2. CASE a.is # None
        BY <2>1, <3>2, <4>2 DEF Excused, Inside
      <4>3. CASE a.is = None
        <5>1. rev[Dir] > from
          BY <1>4, <4>1, <4>3
        <5>2. rev[Dir] <= NewsOf(o) /\ NewsOf(o) \in Nat
          BY <1>1, <3>2, IsType, DeltaFacts
        <5>3. ~(NewsOf(o) <= from)
          BY <1>4, <5>1, <5>2
        <5> QED BY <1>1, <3>1, <5>3, SameDrive DEF Right
      <4> QED BY <4>2, <4>3
    <3>3. CASE at[o] # Dir /\ Excused(o)
      BY <1>0, <1>1, <1>2, <1>9, <2>3, <3>3 DEF Excused, NotRighted, Doubled
    <3>4. CASE Right(o, from)
      BY <1>1, <1>9, <3>1, <3>4 DEF Right
    <3> QED BY <1>1, <1>9, <3>2, <3>3, <3>4 DEF IInv, PassInv, Reading
  <2> QED
    BY <1>1, <1>3, <1>4, <2>2, <2>4, <2>5, <2>6, TypePartsNext
    DEF IInv, IdleInv, FullInv, PassInv
<1> QED BY <1>10, <1>11
-----------------------------------------------------------------------------
(* Listings.  Places on a listing are counted from the front.              *)
LEMMA PlaceIs ==
    ASSUME NEW S \in SUBSET Nat, IsFiniteSet(S)
    PROVE  /\ \A o \in S : Place(o, S) \in Nat /\ Place(o, S) < Cardinality(S)
           /\ \A x, y \in S : x < y => Place(x, S) < Place(y, S)
<1>1. \A o \in S : /\ IsFiniteSet({b \in S : b < o})
                   /\ Place(o, S) = Cardinality({b \in S : b < o})
                   /\ Place(o, S) \in Nat
  BY FS_Subset, FS_CardinalityType DEF Place
<1>2. ASSUME NEW o \in S PROVE Place(o, S) < Cardinality(S)
  <2>1. o \notin {b \in S : b < o} /\ {b \in S : b < o} \in SUBSET S
    OBVIOUS
  <2>2. /\ Cardinality({b \in S : b < o}) <= Cardinality(S)
        /\ Cardinality({b \in S : b < o}) # Cardinality(S)
    BY <2>1, FS_Subset
  <2>3. Cardinality(S) \in Nat
    BY FS_CardinalityType
  <2> QED BY <1>1, <2>2, <2>3
<1>3. ASSUME NEW x \in S, NEW y \in S, x < y PROVE Place(x, S) < Place(y, S)
  <2> DEFINE X == {b \in S : b < x}
             Y == {b \in S : b < y}
  <2>1. X \in SUBSET Y /\ x \in Y /\ x \notin X
    <3>1. \A b \in S : b \in Nat
      OBVIOUS
    <3>2. \A b \in S : b < x => b < y
      BY <1>3, <3>1
    <3>3. x \in Y /\ ~(x < x)
      BY <1>3, <3>1
    <3>4. x \notin X
      BY <3>3
    <3> QED BY <3>2, <3>3, <3>4
  <2>2. Cardinality(X) <= Cardinality(Y) /\ Cardinality(X) # Cardinality(Y)
    <3>1. IsFiniteSet(Y)
      BY <1>1
    <3> HIDE DEF X, Y
    <3> QED BY <2>1, <3>1, FS_Subset
  <2> QED BY <1>1, <2>2
<1> QED BY <1>1, <1>2, <1>3

(* A listing ends when all that is in the folder has its place on a page   *)
(* that was given out: it was seen, or it slipped.                         *)
LEMMA PagesEnd ==
    ASSUME NEW S \in SUBSET Nat, IsFiniteSet(S), NEW off \in Nat,
           \/ OnPage(S, off) = {}
           \/ off + Cardinality(OnPage(S, off)) >= Cardinality(S),
           NEW o \in S, o \notin OnPage(S, off)
    PROVE  Place(o, S) < off
<1> DEFINE P == OnPage(S, off)
           Late == {b \in S : Place(b, S) >= off}
<1>0. ListSize \in Nat /\ 0 < ListSize
  BY SizeAssumption
<1> SUFFICES ASSUME ~(Place(o, S) < off) PROVE FALSE
  OBVIOUS
<1>1. /\ Place(o, S) \in Nat /\ Place(o, S) < Cardinality(S)
      /\ Cardinality(S) \in Nat
  BY PlaceIs, FS_CardinalityType
<1>2. Place(o, S) >= off + ListSize
  BY <1>0, <1>1 DEF OnPage
<1>3. CASE P # {}
  <2>1. IsFiniteSet(off .. off + ListSize - 1)
        /\ Cardinality(off .. off + ListSize - 1) = ListSize
    BY <1>0, FS_Interval
  <2> DEFINE f == [x \in P |-> Place(x, S)]
  <2>2. \A x \in P : x \in S /\ Place(x, S) \in off .. off + ListSize - 1
    BY <1>0, PlaceIs DEF OnPage
  <2>3. \A x, y \in P : x # y => Place(x, S) # Place(y, S)
    <3>1. \A x, y \in S : x \in Nat /\ y \in Nat /\ (x # y => x < y \/ y < x)
      OBVIOUS
    <3>2. \A x \in S : Place(x, S) \in Nat
      BY PlaceIs
    <3>3. \A x, y \in S : x < y => Place(x, S) < Place(y, S)
      BY PlaceIs
    <3>4. \A x, y \in S : x # y => Place(x, S) # Place(y, S)
      BY <3>1, <3>2, <3>3
    <3> QED BY <2>2, <3>4
  <2>4. f \in Injection(P, off .. off + ListSize - 1)
    BY <2>2, <2>3 DEF Injection, IsInjective
  <2>5. IsFiniteSet(P) /\ Cardinality(P) <= ListSize
    <3> HIDE DEF f, P
    <3> QED BY <2>1, <2>4, FS_Injection
  <2>6. Cardinality(P) \in Nat
    BY <2>5, FS_CardinalityType
  <2> QED BY <1>0, <1>1, <1>2, <1>3, <2>5, <2>6
<1>4. CASE P = {}
  <2>1. Late # {} /\ Late \in SUBSET Nat
    <3>1. o \in Late
      BY <1>0, <1>1, <1>2
    <3> QED BY <3>1
  <2>2. PICK p \in Late : \A b \in Late : p <= b
    <3> HIDE DEF Late
    <3> QED BY <2>1, Least
  <2> DEFINE B == {b \in S : b < p}
  <2>3. IsFiniteSet(B) /\ Place(p, S) = Cardinality(B) /\ B \in SUBSET Nat
    BY FS_Subset DEF Place
  <2>4. Cardinality(B) \in Nat /\ Cardinality(B) >= off + ListSize
    BY <1>0, <1>4, <2>3, PlaceIs DEF OnPage
  <2>5. B # {}
    <3> HIDE DEF B
    <3> QED BY <1>0, <2>4, FS_EmptySet
  <2>6. PICK m \in B : \A b \in B : b <= m
    <3> HIDE DEF B
    <3> QED BY <2>3, <2>5, LastOf
  <2>7. {b \in S : b < m} = B \ {m}
    <3>1. \A b \in S : b \in Nat
      OBVIOUS
    <3>2. m \in S /\ m < p /\ p \in Nat
      BY <2>2, <2>6, <3>1
    <3>3. \A b \in S : b < m <=> b < p /\ b # m
      <4> TAKE b \in S
      <4>1. b < p => b <= m
        BY <2>6
      <4> QED BY <3>1, <3>2, <4>1
    <3> QED BY <3>3
  <2>8. Place(m, S) = Cardinality(B) - 1
    <3> HIDE DEF B
    <3> QED BY <2>3, <2>6, <2>7, FS_RemoveElement DEF Place
  <2>9. m \in Late /\ m < p
    BY <1>0, <2>4, <2>8
  <2> QED BY <2>2, <2>9
<1> QED BY <1>3, <1>4

LEMMA ChildrenIs ==
    ASSUME NEW dir
    PROVE  /\ Children(dir) \subseteq Obj /\ Children(dir) \in SUBSET Nat
           /\ IsFiniteSet(Children(dir))
           /\ \A o \in File : o \in Children(dir) <=> at[o] = dir
           /\ Dir \in Children(dir) <=> dir = Root /\ label # None
<1>1. Children(dir) \subseteq Obj
  BY DEF Children, Obj
<1>2. IsFiniteSet(Obj)
  BY IdAssumption, FS_AddElement DEF Obj
<1> QED BY <1>1, <1>2, ObjNat, FS_Subset DEF Children

(* One request of a listing.                                               *)
Answer == OnPage(Children(list.dir), list.off)
Slips  == With(Slipped(Children(list.dir)))
Older  == {o \in Answer \cap File : Outlived(o, Entry(o))}

LEMMA ListPageIs ==
    ASSUME TypeOK, DriveInv, ListPage, list.dir \in {Root, Dir},
           list.in \in Label \cup {Root}
    PROVE  /\ pc = "list" /\ UNCHANGED drive /\ UNCHANGED base
           /\ UNCHANGED <<whole, from, page, last, safe, seen, asked, tip, left>>
           /\ heard' \in [File -> Heard]
           /\ \A o \in File : heard'[o] = IF o \in Answer THEN Hears(o, Entry(o)) ELSE heard[o]
           /\ missed' = (missed \ Answer) \cup Slips \cup Older
           /\ missed' \subseteq File
           /\ \A o \in Slips : o \in File /\ at[o] \in {list.dir, Dir}
           /\ \A o \in Answer \cap File : at[o] = list.dir
           /\ Dir \in Answer => list.dir = Root /\ label # None
           /\ deep' = IF Dir \in Answer THEN label ELSE deep
           /\ \/ /\ pc' = "list" /\ list'.dir = list.dir /\ list'.in = list.in
                 /\ list'.got = list.got \cup Answer /\ list'.off \in Nat
                 /\ list' \in [dir : {Root, Dir, None}, in : Label \cup {Root, None},
                               off : Nat, got : SUBSET Obj]
              \/ /\ ListingDone
                 /\ \A o \in Children(list.dir) \ (Answer \cup list.got) :
                       o \in Slipped(Children(list.dir))
<1> USE ObjNat
<1> DEFINE S == Children(list.dir)
           n == list.off + Cardinality(Answer)
<1>0. /\ pc = "list" /\ UNCHANGED drive /\ UNCHANGED base
      /\ UNCHANGED <<whole, from, page, last, safe, seen, asked, tip, left>>
      /\ heard' = [o \in File |-> IF o \in Answer THEN Hears(o, Entry(o)) ELSE heard[o]]
      /\ missed' = (missed \ Answer) \cup Slips \cup Older
      /\ deep' = IF Dir \in Answer THEN label ELSE deep
      /\ IF Answer = {} \/ n >= Cardinality(S)
           THEN ListingDone
           ELSE pc' = "list" /\ list' = [list EXCEPT !.off = n, !.got = @ \cup Answer]
  BY DEF ListPage, Answer, Slips, Older, feed
<1>1. /\ list.off \in Nat /\ list.got \in SUBSET Obj
      /\ list \in [dir : {Root, Dir, None}, in : Label \cup {Root, None},
                   off : Nat, got : SUBSET Obj]
  BY DEF TypeOK
<1>2. S \subseteq Obj /\ S \in SUBSET Nat /\ IsFiniteSet(S) /\ Answer \in SUBSET S
  BY ChildrenIs DEF Answer, OnPage
<1>3. \A o \in File : Entry(o) \in FileState
  BY DEF Entry, FileState, TypeOK
<1>4. heard' \in [File -> Heard]
  BY <1>0, <1>3, HearsType DEF TypeOK
<1>5. \A o \in Slips : o \in File /\ at[o] \in {list.dir, Dir}
  BY <1>2, ChildrenIs DEF Slips, With, Slipped, Inside
<1>6. missed' \subseteq File
  BY <1>0, <1>5 DEF TypeOK, Older
<1>7. /\ \A o \in Answer \cap File : at[o] = list.dir
      /\ Dir \in Answer => list.dir = Root /\ label # None
  BY <1>2, ChildrenIs
<1>8. n \in Nat
  <2>1. IsFiniteSet(Answer)
    BY <1>2, FS_Subset
  <2> QED BY <1>1, <2>1, FS_CardinalityType
<1>9. CASE Answer = {} \/ n >= Cardinality(S)
  <2>1. ASSUME NEW o \in S, o \notin Answer \cup list.got PROVE o \in Slipped(S)
    <3>1. Place(o, S) < list.off
      BY <1>1, <1>2, <1>9, <2>1, PagesEnd DEF Answer
    <3> QED BY <2>1, <3>1 DEF Slipped
  <2> QED BY <1>0, <1>4, <1>5, <1>6, <1>7, <1>9, <2>1
<1>10. CASE ~(Answer = {} \/ n >= Cardinality(S))
  <2>1. pc' = "list" /\ list' = [list EXCEPT !.off = n, !.got = @ \cup Answer]
    BY <1>0, <1>10
  <2> HIDE DEF n
  <2>2. /\ list'.dir = list.dir /\ list'.in = list.in
        /\ list'.got = list.got \cup Answer /\ list'.off \in Nat
        /\ list' \in [dir : {Root, Dir, None}, in : Label \cup {Root, None},
                      off : Nat, got : SUBSET Obj]
    BY <1>1, <1>2, <1>8, <2>1
  <2> QED BY <1>0, <1>4, <1>5, <1>6, <1>7, <2>1, <2>2
<1> QED BY <1>9, <1>10

LEMMA ListDelta ==
    ASSUME TypeOK, IInv, ListPage, ~whole
    PROVE  TypeOK' /\ IInv'
<1> USE ObjNat
<1>0. pc = "list" /\ list.dir = Dir /\ list.in \in Label /\ rev[Dir] > cursor
      /\ (list.in = label \/ rev[Dir] > from) /\ DriveInv /\ Root # Dir
  BY Distinct DEF ListPage, IInv, DeltaInv
<1>1. /\ UNCHANGED drive /\ UNCHANGED base
      /\ UNCHANGED <<whole, from, page, last, safe, seen, asked, tip, left>>
      /\ heard' \in [File -> Heard]
      /\ \A o \in File : heard'[o] = IF o \in Answer THEN Hears(o, Entry(o)) ELSE heard[o]
      /\ missed' = (missed \ Answer) \cup Slips \cup Older
      /\ missed' \subseteq File
      /\ \A o \in Slips : o \in File /\ at[o] = Dir
      /\ \A o \in Answer \cap File : at[o] = Dir
      /\ deep' = deep
      /\ \/ /\ pc' = "list" /\ list'.dir = list.dir /\ list'.in = list.in
            /\ list'.got = list.got \cup Answer /\ list'.off \in Nat
            /\ list' \in [dir : {Root, Dir, None}, in : Label \cup {Root, None},
                          off : Nat, got : SUBSET Obj]
         \/ /\ ListingDone
            /\ \A o \in Children(Dir) \ (Answer \cup list.got) : o \in Slipped(Children(Dir))
  BY <1>0, ListPageIs
<1>2. /\ cursor' = cursor /\ lost' = lost /\ told' = told /\ top' = top /\ rev' = rev
      /\ label' = label /\ at' = at
  BY <1>1 DEF base, drive
<1>3. DriveType' /\ BaseType' /\ DriveInv' /\ BaseInv'
  BY <1>1, SameBase, TypeParts, SameDriveType, SameBaseType
<1>4. \/ pc' = "list" /\ list'.dir = Dir /\ list'.in = list.in
         /\ list'.got = list.got \cup Answer
      \/ /\ pc' = (IF page = {} THEN "page" ELSE "item") /\ list' = NoList
         /\ \A o \in Children(Dir) \ (Answer \cup list.got) : o \in Slipped(Children(Dir))
  BY <1>0, <1>1 DEF ListingDone, Onward
<1>5. PassType'
  <2>1. pc' \in Pc
    BY <1>4, Zenon DEF Pc
  <2>2. list' \in [dir : {Root, Dir, None}, in : Label \cup {Root, None},
                   off : Nat, got : SUBSET Obj]
    <3>1. NoList \in [dir : {Root, Dir, None}, in : Label \cup {Root, None},
                      off : Nat, got : SUBSET Obj]
      BY DEF NoList
    <3> QED BY <1>0, <1>1, <3>1 DEF ListingDone
  <2> QED BY <1>1, <2>1, <2>2 DEF PassType, TypeOK
<1>6. DeltaInv'
  <2>0. ASSUME NEW o \in File, at[o] = Dir PROVE NewsOf(o) > cursor
    <3>1. rev[Dir] <= NewsOf(o) /\ NewsOf(o) \in Nat
      BY <1>0, <2>0, IsType
    <3>2. rev[Dir] \in Nat /\ cursor \in Nat
      BY DEF TypeOK
    <3> QED BY <1>0, <3>1, <3>2
  <2>1. \A o \in missed' : NewsOf(o)' > cursor'
    <3> TAKE o \in missed'
    <3>1. CASE o \in missed
      BY <1>0, <1>1, <1>2, <3>1, SameDrive, DeltaFacts
    <3>2. CASE o \in Slips
      <4>1. o \in File /\ NewsOf(o) > cursor
        BY <1>1, <2>0, <3>2
      <4> QED BY <1>1, <1>2, <4>1, SameDrive
    <3>3. CASE o \in Older
      BY <1>1, <2>0, <3>3, SameDrive, <1>2 DEF Older
    <3> QED BY <1>1, <3>1, <3>2, <3>3
  <2>2. \A a \in page : ItemInv(a)'
    <3> TAKE a \in page
    <3>1. ItemInv(a) /\ a.o \in Obj
      BY <1>0, <1>1, DeltaFacts
    <3>2. a.o \in File => Is(a.o)' = Is(a.o) /\ NewsOf(a.o)' = NewsOf(a.o)
      BY <1>1, SameDrive
    <3> QED BY <1>1, <1>2, <3>1, <3>2 DEF ItemInv
  <2>3. DeltaInv /\ pc # "idle" /\ ~whole
    BY <1>0 DEF IInv
  <2>4. pc' \in {"list", "page", "item"}
        /\ (pc' = "list" => list'.dir = Dir /\ list'.in = list.in)
        /\ (pc' = "item" => page # {}) /\ (pc' = "page" => page = {})
    BY <1>4
  <2>5. Heeded'
    <3> SUFFICES ASSUME NEW o \in File, ~(NewsOf(o) > cursor)
                 PROVE  \A n \in DOMAIN heard'[o].places : heard'[o].places[n] = Is(o)
      BY <1>1, <1>2, SameDrive DEF Heeded
    <3>1. heard'[o] = heard[o]
      BY <1>1, <2>0
    <3> QED BY <2>3, <3>1 DEF DeltaInv, Heeded
  <2> QED BY <1>0, <1>1, <1>2, <2>1, <2>2, <2>3, <2>4, <2>5 DEF DeltaInv, Reading
<1>7. ASSUME NEW o \in File PROVE (Excused(o) \/ Right(o, Read))'
  <2>1. Read' = from /\ Read = from /\ whole' = whole
    BY <1>0, <1>1, <1>4 DEF Read, Reading
  <2>2. CASE o \in Answer
    <3>1. at[o] = Dir /\ heard'[o] = Hears(o, Entry(o))
          /\ Entry(o) = [in |-> list.in, v |-> ver[o]]
      BY <1>1, <2>2 DEF Entry
    <3>2. Is(o) = [in |-> label, v |-> ver[o]] /\ rev[Dir] <= NewsOf(o) /\ NewsOf(o) \in Nat
      BY <1>0, <3>1, IsType
    <3>3. CASE list.in = label
      <4>1. Entry(o) = Is(o) /\ Is(o) # None
        BY <3>1, <3>2, <3>3, IsType, <1>0, Distinct
      <4>2. CASE Outlived(o, Is(o))
        BY <1>1, <2>2, <4>1, <4>2 DEF Excused, Older
      <4>3. CASE ~Outlived(o, Is(o))
        <5>1. TypeOK' /\ heard'[o] = Hears(o, Is(o))
          BY <1>3, <1>5, <3>1, <4>1, TypePartsNext
        <5>2. Right(o, from)'
          BY <1>0, <1>1, <1>2, <4>1, <4>3, <5>1, HeardRight
        <5> QED BY <1>1, <2>1, <5>2 DEF Right
      <4> QED BY <4>2, <4>3
    <3>4. CASE rev[Dir] > from
      <4>1. ~(NewsOf(o) <= from)
        <5>1. rev[Dir] \in Nat /\ from \in Nat
          BY DEF TypeOK
        <5> QED BY <3>2, <3>4, <5>1
      <4> QED BY <1>1, <2>1, <4>1, SameDrive DEF Right
    <3> QED BY <1>0, <3>3, <3>4
  <2>3. CASE o \notin Answer
    <3>1. heard'[o] = heard[o]
      BY <1>1, <2>3
    <3>2. CASE Right(o, from)
      <4>1. Right(o, from)'
        BY <1>1, <1>2, <3>1, <3>2, SameLearned DEF Right, Doubled
      <4> QED BY <1>1, <2>1, <4>1 DEF Right
    <3>3. CASE Unlisted(o)
      <4>1. at[o] = Dir /\ o \notin list.got /\ o \in Children(Dir)
        BY <1>0, <3>3, ChildrenIs DEF Unlisted
      <4>2. CASE pc' = "list" /\ list'.dir = Dir /\ list'.got = list.got \cup Answer
        <5>1. Unlisted(o)'
          BY <1>2, <2>3, <4>1, <4>2 DEF Unlisted
        <5> QED BY <5>1 DEF Excused
      <4>3. CASE o \in Slipped(Children(Dir))
        <5>1. o \in missed'
          BY <1>0, <1>1, <4>3 DEF Slips, With
        <5> QED BY <5>1 DEF Excused
      <4> QED BY <1>4, <2>3, <4>1, <4>2, <4>3
    <3>4. CASE o \in missed \/ OnPaper(o) \/ (o \in lost /\ NotRighted(o))
      BY <1>1, <1>2, <2>3, <3>1, <3>4 DEF Excused, OnPaper, NotRighted, Doubled
    <3> QED BY <1>0, <2>1, <3>2, <3>3, <3>4 DEF IInv, PassInv, Excused, Reading
  <2> QED BY <2>2, <2>3
<1> QED
  BY <1>1, <1>3, <1>4, <1>5, <1>6, <1>7, TypePartsNext
  DEF IInv, IdleInv, FullInv, PassInv

LEMMA ListFull ==
    ASSUME TypeOK, IInv, ListPage, whole
    PROVE  TypeOK' /\ IInv'
<1> USE ObjNat
<1>0. /\ pc = "list" /\ FullInv /\ DriveInv /\ Root # Dir /\ page = {} /\ Root \notin Label
      /\ \/ list.dir = Root /\ list.in = Root
         \/ list.dir = Dir /\ list.in \in Label /\ (list.in = label \/ rev[Dir] > tip.lo)
      /\ deep # None => deep = label \/ rev[Dir] > tip.lo
      /\ list.dir = Root /\ Dir \in list.got => deep # None
      /\ last = 0 /\ cursor <= tip.lo /\ tip.lo <= tip.hi
      /\ tip.lo <= top /\ 0 < tip.lo /\ Together(tip.lo)
  BY Distinct DEF ListPage, IInv, FullInv
<1>1. /\ UNCHANGED drive /\ UNCHANGED base
      /\ UNCHANGED <<whole, from, page, last, safe, seen, asked, tip, left>>
      /\ heard' \in [File -> Heard]
      /\ \A o \in File : heard'[o] = IF o \in Answer THEN Hears(o, Entry(o)) ELSE heard[o]
      /\ missed' = (missed \ Answer) \cup Slips \cup Older
      /\ missed' \subseteq File
      /\ \A o \in Answer \cap File : at[o] = list.dir
      /\ Dir \in Answer => list.dir = Root /\ label # None
      /\ deep' = IF Dir \in Answer THEN label ELSE deep
      /\ \/ /\ pc' = "list" /\ list'.dir = list.dir /\ list'.in = list.in
            /\ list'.got = list.got \cup Answer /\ list'.off \in Nat
            /\ list' \in [dir : {Root, Dir, None}, in : Label \cup {Root, None},
                          off : Nat, got : SUBSET Obj]
         \/ /\ ListingDone
            /\ \A o \in Children(list.dir) \ (Answer \cup list.got) :
                  o \in Slipped(Children(list.dir))
  BY <1>0, ListPageIs
<1>2. /\ cursor' = cursor /\ lost' = lost /\ told' = told /\ top' = top /\ rev' = rev
      /\ label' = label /\ at' = at /\ tip' = tip
  BY <1>1 DEF base, drive
<1>3. DriveType' /\ BaseType' /\ DriveInv' /\ BaseInv'
  BY <1>1, SameBase, TypeParts, SameDriveType, SameBaseType
<1>4. deep' \in Label \cup {None} /\ (deep' # None => deep' = label \/ rev[Dir] > tip.lo)
      /\ (list.dir = Root /\ Dir \in list.got \cup Answer => deep' # None)
  BY <1>0, <1>1 DEF TypeOK
<1> DEFINE More == /\ pc' = "list" /\ list'.dir = list.dir /\ list'.in = list.in
                   /\ list'.got = list.got \cup Answer
           Down == /\ pc' = "list" /\ list' = [dir |-> Dir, in |-> deep', off |-> 0, got |-> {}]
                   /\ list.dir = Root /\ deep' # None
           Done == /\ pc' = "act" /\ list' = NoList
                   /\ list.dir = Dir \/ deep' = None
           Over == \A o \in Children(list.dir) \ (Answer \cup list.got) :
                      o \in Slipped(Children(list.dir))
<1>5. More \/ (Down /\ Over) \/ (Done /\ Over)
  BY <1>0, <1>1 DEF ListingDone
<1>6. list' \in [dir : {Root, Dir, None}, in : Label \cup {Root, None},
                 off : Nat, got : SUBSET Obj]
  <2>1. NoList \in [dir : {Root, Dir, None}, in : Label \cup {Root, None},
                    off : Nat, got : SUBSET Obj]
    BY DEF NoList
  <2>2. [dir |-> Dir, in |-> deep', off |-> 0, got |-> {}]
            \in [dir : {Root, Dir, None}, in : Label \cup {Root, None},
                 off : Nat, got : SUBSET Obj]
    BY <1>4
  <2> QED BY <1>1, <2>1, <2>2 DEF ListingDone
<1>7. PassType'
  <2>1. pc' \in Pc
    BY <1>5, Zenon DEF Pc
  <2> QED BY <1>1, <1>4, <1>6, <2>1 DEF PassType, TypeOK
<1>8. FullInv'
  <2>1. Together(tip.lo)'
    BY <1>0, <1>2 DEF Together
  <2>2. pc' \in {"list", "act"}
    BY <1>5
  <2>3. pc' = "list" =>
           /\ \/ list'.dir = Root /\ list'.in = Root
              \/ list'.dir = Dir /\ list'.in \in Label /\ (list'.in = label \/ rev[Dir] > tip.lo)
           /\ list'.dir = Root /\ Dir \in list'.got => deep' # None
    <3>1. CASE More
      BY <1>0, <1>4, <3>1
    <3>2. CASE Down
      BY <1>0, <1>4, <3>2
    <3> QED BY <1>5, <3>1, <3>2
  <2> QED BY <1>0, <1>1, <1>2, <1>4, <2>1, <2>2, <2>3 DEF FullInv
<1>9. ASSUME NEW o \in File PROVE (Excused(o) \/ Right(o, Read))'
  <2>1. Read' = tip.lo /\ Read = tip.lo /\ whole' = whole
    BY <1>1, <1>2 DEF Read
  <2>2. CASE o \in Answer
    <3>1. at[o] = list.dir /\ heard'[o] = Hears(o, Entry(o))
          /\ Entry(o) = [in |-> list.in, v |-> ver[o]]
      BY <1>1, <2>2 DEF Entry
    <3>2. NewsOf(o) \in Nat /\ rev[Dir] \in Nat /\ tip.lo \in Nat
          /\ (at[o] = Dir => rev[Dir] <= NewsOf(o))
      BY <1>0, IsType DEF TypeOK
    <3>3. CASE Entry(o) = Is(o)
      <4>1. Is(o) # None
        BY <3>1, <1>0, IsType, Distinct
      <4>2. CASE Outlived(o, Is(o))
        BY <1>1, <2>2, <3>3, <4>2 DEF Excused, Older
      <4>3. CASE ~Outlived(o, Is(o))
        <5>1. TypeOK' /\ heard'[o] = Hears(o, Is(o))
          BY <1>3, <1>7, <3>1, <3>3, TypePartsNext
        <5>2. Right(o, tip.lo)'
          BY <1>0, <1>1, <1>2, <4>1, <4>3, <5>1, HeardRight
        <5> QED BY <1>1, <1>2, <2>1, <5>2 DEF Right
      <4> QED BY <4>2, <4>3
    <3>4. CASE list.dir = Dir /\ rev[Dir] > tip.lo
      <4>1. ~(NewsOf(o) <= tip.lo)
        BY <3>1, <3>2, <3>4
      <4> QED BY <1>1, <2>1, <4>1, SameDrive DEF Right
    <3>5. CASE list.dir = Root /\ list.in = Root
      BY <1>0, <3>1, <3>3, <3>5, IsType
    <3>6. CASE list.dir = Dir /\ list.in = label
      BY <1>0, <3>1, <3>3, <3>6, IsType
    <3> QED BY <1>0, <3>4, <3>5, <3>6
  <2>3. CASE o \notin Answer
    <3>1. heard'[o] = heard[o]
      BY <1>1, <2>3
    <3>2. CASE Right(o, tip.lo)
      <4>1. Right(o, tip.lo)'
        BY <1>1, <1>2, <3>1, <3>2, SameLearned DEF Right, Doubled
      <4> QED BY <1>1, <1>2, <2>1, <4>1 DEF Right
    <3>3. CASE o \in missed
      BY <1>1, <2>3, <3>3 DEF Excused
    <3>4. CASE at[o] = list.dir /\ o \notin list.got
      <4>1. o \in Children(list.dir)
        BY <3>4, ChildrenIs
      <4>2. CASE More
        <5>1. Unlisted(o)'
          BY <1>2, <2>3, <3>4, <4>2 DEF Unlisted
        <5> QED BY <5>1 DEF Excused
      <4>3. CASE Over
        <5>1. o \in Slipped(Children(list.dir))
          BY <2>3, <3>4, <4>1, <4>3
        <5>2. o \in missed'
          BY <1>1, <5>1 DEF Slips, With
        <5> QED BY <5>2 DEF Excused
      <4> QED BY <1>5, <4>2, <4>3
    <3>5. CASE list.dir = Root /\ at[o] = Dir
      <4>1. CASE More
        <5>1. Unlisted(o)'
          BY <1>2, <3>5, <4>1 DEF Unlisted
        <5> QED BY <5>1 DEF Excused
      <4>2. CASE Down
        <5>1. Unlisted(o)'
          BY <1>2, <3>5, <4>2 DEF Unlisted
        <5> QED BY <5>1 DEF Excused
      <4>3. CASE Done /\ Over
        <5>1. deep' = None /\ label # None
          BY <1>0, <3>5, <4>3 DEF DriveInv, Inside
        <5>2. Dir \in Children(list.dir) /\ Dir \notin list.got \cup Answer
          BY <1>4, <3>5, <5>1, ChildrenIs
        <5>3. Dir \in Slipped(Children(list.dir))
          BY <4>3, <5>2
        <5>4. o \in missed'
          BY <1>1, <3>5, <5>3 DEF Slips, With, Inside
        <5> QED BY <5>4 DEF Excused
      <4> QED BY <1>5, <4>1, <4>2, <4>3
    <3>6. ~NotRighted(o) /\ ~OnPaper(o)
      BY <1>0 DEF NotRighted, OnPaper
    <3>7. o \in missed \/ Unlisted(o) \/ Right(o, tip.lo)
      BY <1>0, <2>1, <3>6 DEF IInv, PassInv, Excused, Reading
    <3> QED BY <3>2, <3>3, <3>4, <3>5, <3>7 DEF Unlisted
  <2> QED BY <2>2, <2>3
<1> QED
  BY <1>1, <1>3, <1>5, <1>7, <1>8, <1>9, TypePartsNext
  DEF IInv, IdleInv, DeltaInv, PassInv

LEMMA RelistFailsInv ==
    ASSUME TypeOK, IInv, RelistFails
    PROVE  TypeOK' /\ IInv'
<1> USE ObjNat
<1>0. /\ pc = "list" /\ ~whole /\ left > 0 /\ left' = left - 1
      /\ missed' = missed \cup (Inside \ list.got)
      /\ pc' = (IF page = {} THEN "page" ELSE "item") /\ list' = NoList
      /\ UNCHANGED drive /\ UNCHANGED base
      /\ UNCHANGED <<whole, from, page, last, safe, seen, asked, tip, deep, heard>>
  BY DEF RelistFails, feed, Onward
<1>1. DriveInv /\ DeltaInv /\ pc # "idle" /\ list.dir = Dir /\ rev[Dir] > cursor /\ Root # Dir
  BY <1>0, Distinct DEF IInv, DeltaInv
<1>2. /\ cursor' = cursor /\ lost' = lost /\ told' = told /\ top' = top /\ rev' = rev
      /\ label' = label /\ at' = at
  BY <1>0 DEF base, drive
<1>3. DriveType' /\ BaseType' /\ DriveInv' /\ BaseInv'
  BY <1>0, SameBase, TypeParts, SameDriveType, SameBaseType
<1>4. PassType'
  <2>1. pc' \in Pc
    BY <1>0, Zenon DEF Pc
  <2>2. list' \in [dir : {Root, Dir, None}, in : Label \cup {Root, None},
                   off : Nat, got : SUBSET Obj]
    BY <1>0 DEF NoList
  <2>3. missed' \subseteq File
    BY <1>0 DEF Inside, TypeOK
  <2>4. left' \in Nat
    <3>1. left \in Nat
      BY DEF TypeOK
    <3> QED BY <1>0, <3>1
  <2> QED BY <1>0, <2>1, <2>2, <2>3, <2>4 DEF PassType, TypeOK
<1>5. DeltaInv'
  <2>1. \A o \in missed' : NewsOf(o)' > cursor'
    <3> TAKE o \in missed'
    <3>1. CASE o \in missed
      BY <1>0, <1>2, <3>1, SameDrive, DeltaFacts
    <3>2. CASE o \in Inside
      <4>1. o \in File /\ rev[Dir] <= NewsOf(o) /\ NewsOf(o) \in Nat
        BY <1>1, <3>2, IsType DEF Inside
      <4>2. rev[Dir] \in Nat /\ cursor \in Nat
        BY DEF TypeOK
      <4> QED BY <1>0, <1>1, <1>2, <4>1, <4>2, SameDrive
    <3> QED BY <1>0, <3>1, <3>2
  <2>2. \A a \in page : ItemInv(a)'
    <3> TAKE a \in page
    <3>1. ItemInv(a) /\ a.o \in Obj
      BY <1>0, DeltaFacts
    <3>2. a.o \in File => Is(a.o)' = Is(a.o) /\ NewsOf(a.o)' = NewsOf(a.o)
      BY <1>0, SameDrive
    <3> QED BY <1>0, <1>2, <3>1, <3>2 DEF ItemInv
  <2>3. Heeded'
    BY <1>0, <1>1, <1>2, SameHeeded DEF DeltaInv
  <2> QED BY <1>0, <1>1, <1>2, <2>1, <2>2, <2>3 DEF DeltaInv, Reading
<1>6. ASSUME NEW o \in File PROVE (Excused(o) \/ Right(o, Read))'
  <2>1. Read' = from /\ Read = from
    BY <1>0 DEF Read, Reading
  <2>2. CASE Right(o, from)
    <3>1. Right(o, from)'
      BY <1>0, <1>2, <2>2, SameLearned DEF Right, Doubled
    <3> QED BY <1>0, <2>1, <3>1 DEF Right
  <2>3. CASE Unlisted(o)
    BY <1>0, <1>1, <2>3 DEF Unlisted, Excused, Inside
  <2>4. CASE o \in missed \/ OnPaper(o) \/ (o \in lost /\ NotRighted(o))
    BY <1>0, <1>2, <2>4 DEF Excused, OnPaper, NotRighted, Doubled
  <2> QED BY <1>0, <2>1, <2>2, <2>3, <2>4 DEF IInv, PassInv, Excused, Reading
<1> QED
  BY <1>0, <1>3, <1>4, <1>5, <1>6, TypePartsNext
  DEF IInv, IdleInv, FullInv, PassInv
-----------------------------------------------------------------------------
LEMMA ProbeInv ==
    ASSUME TypeOK, IInv, NEW o \in File, Probe(o)
    PROVE  TypeOK' /\ IInv'
<1>0. /\ pc = "ask" /\ at[o] # None
      /\ heard' = [heard EXCEPT ![o] = [Hears(o, Is(o)) EXCEPT !.probed = TRUE]]
      /\ missed' = (missed \ {o}) \cup {b \in {o} : Outlived(b, Is(b))}
      /\ UNCHANGED drive /\ UNCHANGED base
      /\ UNCHANGED <<pc, whole, from, page, last, safe, seen, asked, tip, list, deep, left>>
  BY DEF Probe, feed, walk
<1>1. /\ cursor' = cursor /\ lost' = lost /\ told' = told /\ top' = top /\ rev' = rev
      /\ label' = label /\ at' = at
  BY <1>0 DEF base, drive
<1>2. DriveType' /\ BaseType' /\ DriveInv' /\ BaseInv'
  BY <1>0, SameBase, TypeParts, SameDriveType, SameBaseType
<1>3. /\ heard \in [File -> Heard] /\ Hears(o, Is(o)) \in Heard
      /\ Is(o) \in FileState \cup {Out} /\ DriveInv
      /\ NewsOf(o) \in Nat /\ cursor \in Nat
  BY <1>0, IsType, HearsType, DeltaFacts DEF TypeOK
<1>4. /\ heard'[o].places = Hears(o, Is(o)).places /\ heard'[o].gone = Hears(o, Is(o)).gone
      /\ heard'[o] \in Heard
      /\ \A q \in File : q # o => heard'[q] = heard[q]
  BY <1>0, <1>3 DEF Heard
<1>5. PassType'
  <2>1. heard' \in [File -> Heard]
    BY <1>0, <1>3, <1>4
  <2>2. missed' \subseteq File
    BY <1>0 DEF TypeOK
  <2> QED BY <1>0, <2>1, <2>2 DEF PassType, TypeOK
(* No entry for a file without news is anywhere else than the file.        *)
<1>6. ASSUME ~(NewsOf(o) > cursor)
      PROVE  /\ ~Outlived(o, Is(o))
             /\ \A n \in DOMAIN heard'[o].places : heard'[o].places[n] = Is(o)
  <2> DEFINE s == heard[o].places
  <2>1. s \in Seq(FileState) /\ \A n \in DOMAIN s : s[n] = Is(o)
    BY <1>0, <1>3, <1>6, RowIs, DeltaFacts DEF DeltaInv, Heeded
  <2>2. CASE Is(o) = Out
    <3>1. Hears(o, Is(o)).places = s
      BY <1>3, <2>2, Distinct DEF Hears, Heard
    <3>2. ~Outlived(o, Is(o))
      BY <2>2, Distinct DEF Outlived
    <3> QED BY <1>4, <2>1, <3>1, <3>2
  <2>3. CASE Is(o) \in FileState
    <3>1. Is(o) \notin {None, Out}
      BY <2>3, Distinct
    <3>2. Hears(o, Is(o)).places = Put(s, Is(o))
      BY <1>3, <3>1 DEF Hears, Heard
    <3> HIDE DEF s
    <3>3. \A n \in DOMAIN Put(s, Is(o)) : Put(s, Is(o))[n] = Is(o)
      BY <2>1, <2>3, PutIs
    <3>4. Last(Put(s, Is(o))) = Is(o)
      BY <2>1, <2>3, <3>3, PutIs DEF ToSet
    <3> QED BY <1>4, <3>1, <3>2, <3>3, <3>4 DEF Outlived
  <2> QED BY <1>3, <2>2, <2>3
<1>7. DeltaInv'
  <2>1. \A q \in missed' : NewsOf(q)' > cursor'
    BY <1>0, <1>1, <1>6, SameDrive, DeltaFacts
  <2>2. DeltaInv /\ ~whole /\ page = {}
    BY <1>0, DeltaFacts DEF DeltaInv
  <2>3. Heeded'
    <3> SUFFICES ASSUME NEW q \in File, ~(NewsOf(q) > cursor)
                 PROVE  \A n \in DOMAIN heard'[q].places : heard'[q].places[n] = Is(q)
      BY <1>0, <1>1, SameDrive DEF Heeded
    <3> QED BY <1>0, <1>4, <1>6, <2>2 DEF DeltaInv, Heeded
  <2> QED BY <1>0, <1>1, <2>1, <2>2, <2>3 DEF DeltaInv, Reading
<1>8. ASSUME NEW q \in File PROVE (Excused(q) \/ Right(q, Read))'
  <2>1. Read' = Read
    BY <1>0 DEF Read
  <2>2. CASE q = o /\ Outlived(o, Is(o))
    BY <1>0, <2>2 DEF Excused
  <2>3. CASE q = o /\ ~Outlived(o, Is(o))
    <3>1. TypeOK' /\ Is(o) # None
      BY <1>2, <1>3, <1>5, TypePartsNext, Distinct
    <3>2. Right(q, Read)'
      BY <1>0, <1>1, <1>3, <1>4, <2>3, <3>1, HeardRight DEF Right
    <3> QED BY <3>2
  <2>4. CASE q # o
    <3>1. heard'[q] = heard[q]
      BY <1>4, <2>4
    <3>2. CASE Right(q, Read)
      BY <1>0, <1>1, <2>1, <3>1, <3>2, SameLearned DEF Right, Doubled
    <3>3. CASE Excused(q)
      BY <1>0, <1>1, <2>4, <3>1, <3>3 DEF Excused, OnPaper, Unlisted, NotRighted, Doubled
    <3> QED BY <1>0, <3>2, <3>3 DEF IInv, PassInv
  <2> QED BY <2>2, <2>3, <2>4
<1> QED
  BY <1>0, <1>2, <1>5, <1>7, <1>8, DeltaFacts, TypePartsNext
  DEF IInv, IdleInv, FullInv, PassInv

LEMMA AskedInv ==
    ASSUME TypeOK, IInv, Asked
    PROVE  TypeOK' /\ IInv'
<1>0. /\ pc = "ask" /\ pc' = "act" /\ UNCHANGED drive /\ UNCHANGED base
      /\ UNCHANGED <<whole, from, page, last, safe, seen, asked, tip, list, deep,
                     heard, missed, left>>
  BY DEF Asked, feed, walk
<1>1. /\ cursor' = cursor /\ lost' = lost /\ told' = told /\ top' = top /\ rev' = rev
      /\ label' = label /\ at' = at
  BY <1>0 DEF base, drive
<1>2. DriveType' /\ BaseType' /\ DriveInv' /\ BaseInv'
  BY <1>0, SameBase, TypeParts, SameDriveType, SameBaseType
<1>3. PassType'
  <2>1. pc' \in Pc
    BY <1>0, Zenon DEF Pc
  <2> QED BY <1>0, <2>1 DEF PassType, TypeOK
<1>4. DeltaInv'
  <2>1. \A q \in missed' : NewsOf(q)' > cursor'
    BY <1>0, <1>1, SameDrive, DeltaFacts
  <2>2. DeltaInv /\ ~whole /\ page = {}
    BY <1>0, DeltaFacts DEF DeltaInv
  <2>3. Heeded'
    BY <1>0, <1>1, <2>2, SameHeeded DEF DeltaInv
  <2> QED BY <1>0, <1>1, <2>1, <2>2, <2>3 DEF DeltaInv, Reading
<1>5. ASSUME NEW q \in File PROVE (Excused(q) \/ Right(q, Read))'
  <2>1. Read' = Read
    BY <1>0 DEF Read, Reading
  <2>2. CASE Right(q, Read)
    BY <1>0, <1>1, <2>1, <2>2, SameLearned DEF Right, Doubled
  <2>3. CASE Excused(q)
    BY <1>0, <1>1, <2>3 DEF Excused, OnPaper, Unlisted, NotRighted, Doubled
  <2> QED BY <1>0, <2>2, <2>3 DEF IInv, PassInv
<1> QED
  BY <1>0, <1>2, <1>3, <1>4, <1>5, DeltaFacts, TypePartsNext
  DEF IInv, IdleInv, FullInv, PassInv

(* The search for the tip stays below what the drive has given out, and    *)
(* ends where nothing is after it.                                         *)
LEMMA TipStep ==
    ASSUME TypeOK, IInv, UNCHANGED drive, UNCHANGED base,
           UNCHANGED <<from, page, last, safe, seen, asked, list, deep, heard, missed, left>>,
           whole' = TRUE, page = {}, last = 0, heard = Nothing, missed = {}, deep = None,
           pc' \in {"tip", "double", "bisect", "sure"},
           tip' \in [lo : Nat, hi : Nat], cursor <= tip'.lo, tip'.lo <= tip'.hi,
           pc' = "tip" => tip'.lo <= top,
           pc' \in {"double", "bisect"} => tip'.lo < top,
           pc' = "sure" => tip'.hi <= top
    PROVE  TypeOK' /\ IInv'
<1>1. DriveType' /\ BaseType' /\ DriveInv' /\ BaseInv'
  BY SameBase, TypeParts, SameDriveType, SameBaseType
<1>2. PassType'
  <2>1. pc' \in Pc
    BY Zenon DEF Pc
  <2>2. whole' \in BOOLEAN
    OBVIOUS
  <2> QED BY <2>1, <2>2 DEF PassType, TypeOK
<1>3. FullInv'
  BY DEF FullInv, drive, base
<1> QED
  BY <1>1, <1>2, <1>3, TypePartsNext DEF IInv, IdleInv, DeltaInv, PassInv, Reading

LEMMA BeginFullInv ==
    ASSUME TypeOK, IInv, BeginFull
    PROVE  TypeOK' /\ IInv'
<1>1. /\ Rest /\ UNCHANGED drive /\ UNCHANGED base
      /\ pc' = "tip" /\ whole' = TRUE /\ tip' = [lo |-> cursor, hi |-> cursor]
      /\ UNCHANGED <<from, page, last, safe, seen, asked, list, deep, heard, missed, left>>
  BY DEF BeginFull, IInv, IdleInv, feed, walk
<1>2. cursor \in Nat /\ cursor <= top
  BY DEF TypeOK, IInv, BaseInv
<1>3. /\ tip' \in [lo : Nat, hi : Nat] /\ cursor <= tip'.lo /\ tip'.lo <= tip'.hi
      /\ tip'.lo <= top
  BY <1>1, <1>2
<1>4. page = {} /\ last = 0 /\ heard = Nothing /\ missed = {} /\ deep = None
  BY <1>1 DEF Rest
<1> QED BY <1>1, <1>3, <1>4, TipStep

(* While it searches, a pass has heard nothing.                            *)
LEMMA TipFacts ==
    ASSUME TypeOK, IInv, pc \in {"tip", "double", "bisect", "sure"}
    PROVE  /\ whole = TRUE /\ page = {} /\ last = 0 /\ heard = Nothing /\ missed = {}
           /\ deep = None /\ FullInv /\ DriveInv
           /\ tip.lo \in Nat /\ tip.hi \in Nat /\ cursor \in Nat /\ top \in Nat
           /\ cursor <= tip.lo /\ tip.lo <= tip.hi
           /\ pc = "tip" => tip.lo <= top
           /\ pc \in {"double", "bisect"} => tip.lo < top
           /\ pc = "sure" => tip.hi <= top
           /\ \A q \in Obj : rev[q] \in Nat /\ rev[q] <= top /\ 0 < rev[q]
<1>1. whole
  BY DEF IInv, DeltaInv, Reading
<1>2. whole \in BOOLEAN /\ tip.lo \in Nat /\ tip.hi \in Nat /\ cursor \in Nat /\ top \in Nat
      /\ rev \in [Obj -> Nat]
  BY DEF TypeOK
<1>3. whole = TRUE
  BY <1>1, <1>2, Zenon
<1>4. FullInv /\ DriveInv
  BY DEF IInv
<1> QED BY <1>1, <1>2, <1>3, <1>4 DEF FullInv, DriveInv

(* Where nothing is after the tip, all that is there is still to be listed.*)
LEMMA WalkRootInv ==
    ASSUME TypeOK, IInv, UNCHANGED drive, UNCHANGED base,
           UNCHANGED <<whole, from, page, last, safe, seen, asked, heard, missed, left>>,
           pc \in {"tip", "sure"}, WalkRoot,
           tip' \in [lo : Nat, hi : Nat], cursor <= tip'.lo, tip'.lo <= tip'.hi,
           After(tip'.lo) = {}, tip'.lo <= top
    PROVE  TypeOK' /\ IInv'
<1> USE ObjNat
<1>1. /\ pc' = "list" /\ deep' = deep
      /\ list' = [dir |-> Root, in |-> Root, off |-> 0, got |-> {}]
  BY DEF WalkRoot
<1>2. /\ cursor' = cursor /\ lost' = lost /\ told' = told /\ top' = top /\ rev' = rev
      /\ label' = label /\ at' = at
  BY DEF base, drive
<1>3. DriveType' /\ BaseType' /\ DriveInv' /\ BaseInv'
  BY SameBase, TypeParts, SameDriveType, SameBaseType
<1>4. PassType'
  <2>1. pc' \in Pc
    BY <1>1, Zenon DEF Pc
  <2>2. list' \in [dir : {Root, Dir, None}, in : Label \cup {Root, None},
                   off : Nat, got : SUBSET Obj]
    BY <1>1
  <2> QED BY <1>1, <2>1, <2>2 DEF PassType, TypeOK
<1>5. \A q \in Obj : ~(rev[q] > tip'.lo)
  BY DEF After
<1>6. whole' = TRUE /\ page' = {} /\ last' = 0 /\ heard' = Nothing /\ deep' = None
  BY <1>1, TipFacts
<1>7. FullInv'
  <2>1. \A q \in Obj : rev[q] <= tip'.lo /\ 0 < rev[q] /\ rev[q] \in Nat
    <3>1. tip'.lo \in Nat
      OBVIOUS
    <3>2. \A q \in Obj : rev[q] \in Nat /\ 0 < rev[q]
      BY TipFacts
    <3> QED BY <1>5, <3>1, <3>2
  <2>2. 0 < tip'.lo /\ tip'.lo \in Nat
    BY <2>1
  <2>3. (Together(tip.lo))'
    BY <1>2, <2>1 DEF Together
  <2> QED BY <1>1, <1>2, <1>6, <2>2, <2>3 DEF FullInv
<1>8. ASSUME NEW o \in File PROVE (Excused(o) \/ Right(o, Read))'
  <2>1. CASE at[o] \in {Root, Dir}
    <3>1. Unlisted(o)'
      BY <1>1, <1>2, <2>1 DEF Unlisted
    <3> QED BY <3>1 DEF Excused
  <2>2. CASE at[o] = None
    <3>1. Is(o) = None /\ Is(o)' = Is(o)
      BY <2>2, IsType, TipFacts, SameDrive
    <3>2. heard[o] = Unheard /\ heard'[o] = heard[o] /\ whole /\ whole' = whole
      BY <1>6, TipFacts DEF Nothing
    <3>3. Learned(o) = {} /\ CU!Known(o) = {}
      BY <3>1, <3>2, UnheardLearned, KnownIs
    <3>4. Learned(o)' = {} /\ CU!Known(o)' = {}
      BY <1>2, <3>2, <3>3, SameLearned
    <3> QED BY <3>4 DEF Right
  <2>3. CASE at[o] = Out
    <3>1. Is(o) = Out /\ Is(o)' = Is(o)
      BY <2>3, IsType, TipFacts, SameDrive
    <3> QED BY <3>1 DEF Right
  <2> QED BY <2>1, <2>2, <2>3 DEF TypeOK
<1> QED
  BY <1>1, <1>3, <1>4, <1>6, <1>7, <1>8, TypePartsNext
  DEF IInv, IdleInv, DeltaInv, PassInv

(* Everything but the search stays.                                        *)
LEMMA TipKeptIs ==
    ASSUME TipKept
    PROVE  /\ UNCHANGED drive /\ UNCHANGED base
           /\ UNCHANGED <<whole, from, page, last, safe, seen, asked, heard, missed, left>>
BY DEF TipKept, feed

LEMMA AnyAfterInv ==
    ASSUME TypeOK, IInv, AnyAfter
    PROVE  TypeOK' /\ IInv'
<1>0. pc = "tip" /\ TipKept
  BY DEF AnyAfter
<1>1. tip \in [lo : Nat, hi : Nat]
  BY DEF TypeOK
<1>2. CASE After(tip.lo) = {}
  <2>1. WalkRoot /\ tip' = tip
    BY <1>2 DEF AnyAfter
  <2> QED BY <1>0, <1>1, <1>2, <2>1, TipFacts, TipKeptIs, WalkRootInv
<1>3. CASE After(tip.lo) # {}
  <2>1. /\ pc' = "double" /\ UNCHANGED <<list, deep>>
        /\ tip' = [lo |-> tip.lo, hi |-> 2 * (IF tip.lo = 0 THEN 1 ELSE tip.lo)]
    BY <1>3 DEF AnyAfter, Search, walk
  <2>2. PICK q \in Obj : rev[q] > tip.lo
    BY <1>3 DEF After
  <2>3. tip.lo < top /\ tip.lo \in Nat /\ cursor <= tip.lo
    BY <1>0, <2>2, TipFacts
  <2>4. tip'.lo = tip.lo /\ tip'.lo <= tip'.hi /\ tip' \in [lo : Nat, hi : Nat]
    BY <2>1, <2>3
  <2> QED BY <1>0, <2>1, <2>3, <2>4, TipFacts, TipKeptIs, TipStep
<1> QED BY <1>2, <1>3

LEMMA DoubleInv ==
    ASSUME TypeOK, IInv, Double
    PROVE  TypeOK' /\ IInv'
<1>0. pc = "double" /\ TipKept /\ UNCHANGED <<list, deep>>
  BY DEF Double, walk
<1>1. tip \in [lo : Nat, hi : Nat] /\ tip.lo \in Nat /\ tip.hi \in Nat
  BY DEF TypeOK
<1>2. CASE After(tip.hi) # {}
  <2>1. tip' = [lo |-> tip.hi, hi |-> 2 * tip.hi] /\ pc' = pc
    BY <1>2 DEF Double, Search
  <2>2. PICK q \in Obj : rev[q] > tip.hi
    BY <1>2 DEF After
  <2>3. tip.hi < top /\ cursor <= tip.hi
    BY <1>0, <1>1, <2>2, TipFacts
  <2>4. tip'.lo = tip.hi /\ tip'.lo <= tip'.hi /\ tip' \in [lo : Nat, hi : Nat]
    BY <1>1, <2>1
  <2> QED BY <1>0, <2>1, <2>3, <2>4, TipFacts, TipKeptIs, TipStep
<1>3. CASE After(tip.hi) = {}
  <2>1. tip' = tip /\ pc' = "bisect"
    BY <1>3 DEF Double
  <2> QED BY <1>0, <1>1, <2>1, TipFacts, TipKeptIs, TipStep
<1> QED BY <1>2, <1>3

LEMMA BisectInv ==
    ASSUME TypeOK, IInv, Bisect
    PROVE  TypeOK' /\ IInv'
<1> DEFINE mid == (tip.lo + tip.hi) \div 2
<1>0. pc = "bisect" /\ TipKept /\ UNCHANGED <<list, deep>>
  BY DEF Bisect, walk
<1>1. /\ tip \in [lo : Nat, hi : Nat] /\ tip.lo \in Nat /\ tip.hi \in Nat
      /\ tip.lo <= tip.hi /\ tip.lo < top /\ top \in Nat /\ cursor <= tip.lo /\ cursor \in Nat
  BY <1>0, TipFacts DEF TypeOK
<1>2. mid \in Nat /\ tip.lo <= mid /\ mid <= tip.hi
  BY <1>1
<1>3. \/ /\ tip.hi - tip.lo <= 1 /\ pc' = "sure" /\ tip' = tip
      \/ /\ pc' = pc
         /\ \/ After(mid) # {} /\ tip' = [lo |-> mid, hi |-> tip.hi]
            \/ tip' = [lo |-> tip.lo, hi |-> mid]
  BY DEF Bisect, Search
<1> HIDE DEF mid
<1>4. CASE tip.hi - tip.lo <= 1 /\ pc' = "sure" /\ tip' = tip
  <2>1. tip.hi <= top
    BY <1>1, <1>4
  <2> QED BY <1>0, <1>1, <1>4, <2>1, TipFacts, TipKeptIs, TipStep
<1>5. CASE pc' = pc /\ After(mid) # {} /\ tip' = [lo |-> mid, hi |-> tip.hi]
  <2>1. PICK q \in Obj : rev[q] > mid
    BY <1>5 DEF After
  <2>2. mid < top
    BY <1>0, <1>2, <2>1, TipFacts
  <2>3. tip'.lo = mid /\ tip'.lo <= tip'.hi /\ tip' \in [lo : Nat, hi : Nat] /\ cursor <= mid
    BY <1>1, <1>2, <1>5
  <2> QED BY <1>0, <1>5, <2>2, <2>3, TipFacts, TipKeptIs, TipStep
<1>6. CASE pc' = pc /\ tip' = [lo |-> tip.lo, hi |-> mid]
  <2>1. tip'.lo = tip.lo /\ tip'.lo <= tip'.hi /\ tip' \in [lo : Nat, hi : Nat]
    BY <1>1, <1>2, <1>6
  <2> QED BY <1>0, <1>1, <1>6, <2>1, TipFacts, TipKeptIs, TipStep
<1> QED BY <1>3, <1>4, <1>5, <1>6

LEMMA MakeSureInv ==
    ASSUME TypeOK, IInv, MakeSure
    PROVE  TypeOK' /\ IInv'
<1>0. pc = "sure" /\ TipKept
  BY DEF MakeSure
<1>1. /\ tip.lo \in Nat /\ tip.hi \in Nat /\ cursor \in Nat
      /\ tip.lo <= tip.hi /\ tip.hi <= top /\ top \in Nat /\ cursor <= tip.lo
  BY <1>0, TipFacts DEF TypeOK
<1>2. CASE After(tip.hi) = {}
  <2>1. WalkRoot /\ tip' = [lo |-> tip.hi, hi |-> tip.hi]
    BY <1>2 DEF MakeSure, Search
  <2>2. tip'.lo = tip.hi /\ tip'.lo <= tip'.hi /\ tip' \in [lo : Nat, hi : Nat]
        /\ cursor <= tip.hi
    BY <1>1, <2>1
  <2> QED BY <1>0, <1>1, <1>2, <2>1, <2>2, TipKeptIs, WalkRootInv
<1>3. CASE After(tip.hi) # {}
  <2>1. PICK o \in After(tip.hi) : tip' = [lo |-> tip.hi, hi |-> rev[o]]
    BY <1>3 DEF MakeSure, Search
  <2>2. pc' = pc /\ UNCHANGED <<list, deep>>
    BY <1>3 DEF MakeSure, walk
  <2>3. rev[o] > tip.hi /\ rev[o] <= top /\ rev[o] \in Nat
    BY <1>0, TipFacts DEF After
  <2>4. tip'.lo = tip.hi /\ tip'.hi = rev[o] /\ tip'.lo <= tip'.hi
        /\ tip' \in [lo : Nat, hi : Nat] /\ cursor <= tip.hi
    BY <1>1, <2>1, <2>3
  <2> QED BY <1>0, <2>2, <2>3, <2>4, TipFacts, TipKeptIs, TipStep
<1> QED BY <1>2, <1>3
-----------------------------------------------------------------------------
(* The end of a pass.                                                      *)
(* What a pass that ends has in its hands.                                 *)
LEMMA ActFacts ==
    ASSUME TypeOK, IInv, pc = "act"
    PROVE  /\ Cursor = Read /\ Read \in Nat /\ Read <= top /\ cursor <= Read
           /\ 0 < Read /\ Together(Read)
           /\ whole \in BOOLEAN /\ cursor \in Nat
           /\ \A o \in File : \/ o \in missed
                              \/ o \in lost /\ NotRighted(o)
                              \/ Right(o, Read)
           /\ ~whole => \A o \in missed : NewsOf(o) > cursor
           /\ missed \subseteq File /\ lost \subseteq File
           /\ \A o \in File : NewsOf(o) \in Nat
<1>1. /\ whole \in BOOLEAN /\ cursor \in Nat /\ top \in Nat /\ last \in Nat /\ tip.lo \in Nat
      /\ missed \subseteq File /\ lost \subseteq File
  BY DEF TypeOK
<1>2. Read = Cursor
  BY DEF Read, Cursor, Reading
<1>3. \A o \in File : ~OnPaper(o) /\ ~Unlisted(o)
  <2>1. page = {}
    BY DEF IInv, DeltaInv, FullInv
  <2> QED BY <2>1 DEF OnPaper, Unlisted
<1>4. \A o \in File : \/ o \in missed
                      \/ o \in lost /\ NotRighted(o)
                      \/ Right(o, Read)
  BY <1>3 DEF IInv, PassInv, Excused
<1>5. CASE whole
  BY <1>1, <1>2, <1>4, <1>5, ReadBound, IsType DEF IInv, FullInv, Cursor
<1>6. CASE ~whole
  <2>1. /\ cursor <= last /\ 0 < cursor /\ \A o \in missed : NewsOf(o) > cursor
        /\ Together(cursor)
    BY <1>6 DEF IInv, DeltaInv, DriveInv
  <2>2. Together(last)
    BY <1>1, <2>1, ObjNat DEF Together, TypeOK
  <2> QED BY <1>1, <1>2, <1>4, <1>6, <2>1, <2>2, ReadBound, IsType DEF IInv, Cursor
<1> QED BY <1>1, <1>5, <1>6

(* A pass that saves its cursor keeps CatchUp's promise for all but the    *)
(* files whose news it has lost.                                           *)
LEMMA SaveIs ==
    ASSUME TypeOK, IInv, Save
    PROVE  /\ cursor <= cursor' /\ cursor' <= top /\ cursor' \in Nat /\ 0 < cursor'
           /\ Together(cursor')
           /\ UNCHANGED drive /\ Rests /\ left' = left
           /\ told' \in [File -> SUBSET FileState]
           /\ lost' \subseteq File
           /\ ~whole => lost' \subseteq lost \cup {o \in File : NewsOf(o) > cursor}
           /\ \A o \in File \ lost' : CU!Promised(o, told', cursor') /\ ~Doubled(told'[o])
<1>1. /\ pc = "act" /\ told' = [o \in File |-> Learned(o)] /\ cursor' = Cursor
      /\ lost' = {o \in lost : NotRighted(o)} \cup Mistold(Cursor)
                   \cup {o \in File : Doubled(Learned(o))}
      /\ Rests /\ UNCHANGED drive /\ left' = left
  BY DEF Save
<1>2. told' \in [File -> SUBSET FileState]
  BY <1>1, LearnedType, Zenon
<1>3. lost' \subseteq File /\ Mistold(Cursor) \subseteq missed
  BY <1>1, ActFacts DEF Mistold
<1>4. ASSUME ~whole, NEW o \in lost', o \notin lost PROVE o \in File /\ NewsOf(o) > cursor
  <2>1. CASE o \in missed
    BY <1>1, <1>4, <2>1, ActFacts
  <2>2. CASE o \in File /\ Doubled(Learned(o)) /\ ~(NewsOf(o) > cursor)
    <3>1. /\ DriveInv /\ ~Doubled(told[o]) /\ CU!Promised(o, told, cursor)
          /\ Heeded /\ NewsOf(o) \in Nat /\ cursor \in Nat
      BY <1>1, <1>4, <2>2, ActFacts DEF IInv, BaseInv, DeltaInv
    <3>2. Is(o) # Out => told[o] = CU!Known(o)
      BY <2>2, <3>1 DEF CU!Promised
    <3>3. ~Doubled(Learned(o))
      BY <1>4, <2>2, <3>1, <3>2, HeededOnce DEF Heeded
    <3> QED BY <2>2, <3>3
  <2> QED BY <1>1, <1>3, <1>4, <2>1, <2>2
<1>5. ASSUME NEW o \in File \ lost'
      PROVE  CU!Promised(o, told', cursor') /\ ~Doubled(told'[o])
  <2>0. told'[o] = Learned(o) /\ ~Doubled(Learned(o))
    BY <1>1
  <2>1. CASE o \in missed
    <3>1. ~(NewsOf(o) <= Cursor)
      BY <1>1, <2>1 DEF Mistold
    <3> QED BY <1>1, <2>0, <3>1 DEF CU!Promised
  <2>2. CASE Right(o, Read)
    <3>1. NewsOf(o) <= cursor' /\ Is(o) # Out => Learned(o) = CU!Known(o)
      BY <1>1, <2>0, <2>2, ActFacts DEF Right
    <3> QED BY <2>0, <3>1 DEF CU!Promised
  <2>3. ~(o \in lost /\ NotRighted(o))
    BY <1>1
  <2> QED BY <1>1, <2>1, <2>2, <2>3, ActFacts
<1>6. cursor <= cursor' /\ cursor' <= top /\ cursor' \in Nat /\ 0 < cursor' /\ Together(cursor')
  BY <1>1, ActFacts
<1> QED BY <1>1, <1>2, <1>3, <1>4, <1>5, <1>6

LEMMA SaveInv ==
    ASSUME TypeOK, IInv, Save
    PROVE  TypeOK' /\ IInv'
<1>1. left' \in Nat
  BY SaveIs DEF TypeOK
<1>2. PassType' /\ IdleInv' /\ DeltaInv' /\ FullInv' /\ PassInv'
  BY <1>1, SaveIs, RestsInv
<1>3. DriveType' /\ BaseType'
  BY SaveIs, TypeParts, SameDriveType DEF BaseType
<1>4. UNCHANGED <<at, label, ver, rev, top>>
  BY SaveIs, SameDrive
<1>5. DriveInv'
  <2>1. DriveInv /\ (Together(cursor))'
    BY <1>4, SaveIs DEF IInv, Together
  <2> QED BY <1>4, <2>1 DEF DriveInv, Inside
<1>6. BaseInv'
  <2>1. \A o \in File \ lost' : CU!Promised(o, told', cursor')
    BY SaveIs
  <2>2. \A o \in File : Is(o)' = Is(o) /\ NewsOf(o)' = NewsOf(o)
    BY SaveIs, SameDrive
  <2>3. \A o \in File \ lost' : CU!Promised(o, told, cursor)'
    BY <2>1, <2>2 DEF CU!Promised, CU!Known
  <2>4. \A o \in File \ lost' : ~Doubled(told[o])'
    BY SaveIs DEF Doubled
  <2> QED BY <1>4, <2>3, <2>4, SaveIs DEF BaseInv
<1> QED BY <1>2, <1>3, <1>5, <1>6, TypePartsNext DEF IInv

LEMMA AbortInv ==
    ASSUME TypeOK, IInv, Abort
    PROVE  TypeOK' /\ IInv'
<1>1. Rests /\ UNCHANGED drive /\ UNCHANGED base /\ left > 0 /\ left' = left - 1
  BY DEF Abort
<1>2. left' \in Nat
  <2>1. left \in Nat
    BY DEF TypeOK
  <2> QED BY <1>1, <2>1
<1> QED
  BY <1>1, <1>2, RestsInv, SameBase, TypeParts, SameDriveType, SameBaseType, TypePartsNext
  DEF IInv

(* A pass that is broken off loses no more than the news it acted upon.    *)
LEMMA BreakOffIs ==
    ASSUME TypeOK, IInv, BreakOff
    PROVE  /\ UNCHANGED drive /\ cursor' = cursor /\ Rests /\ left' \in Nat
           /\ told' \in [File -> SUBSET FileState]
           /\ lost \subseteq lost' /\ lost' \subseteq File
           /\ \A o \in File \ lost' : CU!Promised(o, told', cursor) /\ ~Doubled(told'[o])
<1>1. PICK S \in SUBSET File :
         /\ told' = [o \in File |-> IF o \in S THEN Learned(o) ELSE told[o]]
         /\ lost' = lost \cup (missed \cap S) \cup {o \in S : Doubled(Learned(o))}
  BY DEF BreakOff
<1>2. /\ pc = "act" /\ left > 0 /\ left' = left - 1
      /\ Rests /\ UNCHANGED drive /\ cursor' = cursor
  BY DEF BreakOff
<1>3. left' \in Nat
  <2>1. left \in Nat
    BY DEF TypeOK
  <2> QED BY <1>2, <2>1
<1>4. told' \in [File -> SUBSET FileState]
  <2>1. \A o \in File : told[o] \subseteq FileState /\ Learned(o) \subseteq FileState
    BY LearnedType DEF TypeOK
  <2> QED BY <1>1, <2>1
<1>5. lost \subseteq lost' /\ lost' \subseteq File
  BY <1>1, <1>2, ActFacts
<1>6. ASSUME NEW o \in File \ lost'
      PROVE  CU!Promised(o, told', cursor) /\ ~Doubled(told'[o])
  <2>1. CASE o \in S
    <3>1. Right(o, Read) /\ told'[o] = Learned(o) /\ ~Doubled(Learned(o))
      BY <1>1, <1>2, <2>1, ActFacts
    <3>2. NewsOf(o) <= cursor => NewsOf(o) <= Read
      BY <1>2, ActFacts
    <3> QED BY <3>1, <3>2 DEF Right, CU!Promised
  <2>2. CASE o \notin S
    <3>1. told'[o] = told[o] /\ o \notin lost
      BY <1>1, <2>2
    <3> QED BY <3>1 DEF IInv, BaseInv, CU!Promised
  <2> QED BY <2>1, <2>2
<1> QED BY <1>2, <1>3, <1>4, <1>5, <1>6

LEMMA BreakOffInv ==
    ASSUME TypeOK, IInv, BreakOff
    PROVE  TypeOK' /\ IInv'
<1>1. PassType' /\ IdleInv' /\ DeltaInv' /\ FullInv' /\ PassInv'
  BY BreakOffIs, RestsInv
<1>2. DriveType' /\ BaseType'
  BY BreakOffIs, TypeParts, SameDriveType DEF BaseType
<1>3. UNCHANGED <<at, label, ver, rev, top>> /\ cursor' = cursor
  BY BreakOffIs, SameDrive
<1>4. DriveInv'
  BY <1>3 DEF IInv, DriveInv, Together, Inside
<1>5. BaseInv'
  <2>1. \A o \in File \ lost' : CU!Promised(o, told', cursor)
    BY BreakOffIs
  <2>2. \A o \in File : Is(o)' = Is(o) /\ NewsOf(o)' = NewsOf(o)
    BY BreakOffIs, SameDrive
  <2>3. \A o \in File \ lost' : CU!Promised(o, told, cursor)'
    BY <1>3, <2>1, <2>2 DEF CU!Promised, CU!Known
  <2>4. \A o \in File \ lost' : ~Doubled(told[o])'
    BY BreakOffIs DEF Doubled
  <2> QED BY <1>3, <2>3, <2>4 DEF BaseInv, IInv
<1> QED BY <1>1, <1>2, <1>4, <1>5, TypePartsNext DEF IInv
-----------------------------------------------------------------------------
(* Every step keeps the types and the strengthening.                       *)
LEMMA InvStep == TypeOK /\ IInv /\ [Next]_vars => (TypeOK /\ IInv)'
<1> SUFFICES ASSUME TypeOK, IInv, [Next]_vars
             PROVE  TypeOK' /\ IInv'
  OBVIOUS
<1>1. CASE Others
  BY <1>1, OthersSettle, SettledInv DEF IInv
<1>2. CASE BeginDelta \/ BeginFull
  BY <1>2, BeginDeltaInv, BeginFullInv
<1>3. CASE GetChanges \/ Truncate \/ \E a \in page : TakeFile(a) \/ TakeDir(a)
  BY <1>3, GetChangesInv, TruncateInv, TakeFileInv, TakeDirInv
<1>4. CASE ListPage \/ RelistFails
  BY <1>4, ListDelta, ListFull, RelistFailsInv
<1>5. CASE Asked \/ \E o \in File : Probe(o)
  BY <1>5, AskedInv, ProbeInv
<1>6. CASE AnyAfter \/ Double \/ Bisect \/ MakeSure
  BY <1>6, AnyAfterInv, DoubleInv, BisectInv, MakeSureInv
<1>7. CASE Save \/ Abort \/ BreakOff
  BY <1>7, SaveInv, AbortInv, BreakOffInv
<1>8. CASE UNCHANGED vars
  <2>1. UNCHANGED <<at, label, ver, rev, top, told, cursor, lost, pc, whole, from, page,
                    last, safe, seen, asked, tip, list, deep, heard, missed, left>>
    BY <1>8 DEF vars, drive, base, feed, walk
  <2>2. TypeOK'
    BY <2>1 DEF TypeOK
  <2>3. DriveInv' /\ BaseInv'
    BY <2>1, SameBase DEF drive, base
  <2>4. \A o \in File : Is(o)' = Is(o) /\ NewsOf(o)' = NewsOf(o)
    BY <2>1, SameDrive DEF drive
  <2>5. IdleInv'
    BY <2>1 DEF IInv, IdleInv, Rest
  <2>6. \A a \in page : a.o \in Obj /\ (ItemInv(a) => ItemInv(a)')
    <3> TAKE a \in page
    <3>1. a.o \in Obj
      BY DEF TypeOK
    <3> QED BY <2>1, <2>4, <3>1 DEF ItemInv
  <2>7. DeltaInv'
    <3>1. missed \subseteq File
      BY DEF TypeOK
    <3> QED BY <2>1, <2>4, <2>6, <3>1 DEF IInv, DeltaInv, Heeded
  <2>8. FullInv'
    BY <2>1 DEF IInv, FullInv, Together
  <2>9. PassInv'
    <3>1. \A o \in File : Learned(o)' = Learned(o) /\ CU!Known(o)' = CU!Known(o)
      BY <2>1, SameLearned DEF drive
    <3>2. \A o \in File : (Excused(o) <=> Excused(o)') /\ (Right(o, Read) <=> Right(o, Read)')
      BY <2>1, <2>4, <3>1
      DEF Excused, OnPaper, Unlisted, NotRighted, Doubled, Right, Read
    <3> QED BY <2>1, <3>2 DEF IInv, PassInv
  <2> QED BY <2>2, <2>3, <2>5, <2>7, <2>8, <2>9 DEF IInv
<1> QED
  BY <1>1, <1>2, <1>3, <1>4, <1>5, <1>6, <1>7, <1>8 DEF Next, Step

(* Reading and searching keep their types, whatever others write between   *)
(* two requests and wherever a pass is cut or ends.                        *)
THEOREM TypeCorrect == Spec => []TypeOK
<1> QED BY InitInv, InvStep, PTL DEF Spec

(* For every file that is not excused, what a pass has heard is right up to*)
(* the revision it has read to.                                            *)
THEOREM PassesHearRight == Spec => []IInv
<1> QED BY InitInv, InvStep, PTL DEF Spec

(* No cursor, and no end of a search for the tip, is ahead of the drive    *)
(* (DriveAPI.advance_to_tip, RemoteCollector.delta).                       *)
THEOREM CursorNeverAhead == Spec => []NeverAhead
<1>1. TypeOK /\ IInv => NeverAhead
  <2> SUFFICES ASSUME TypeOK, IInv PROVE NeverAhead
    OBVIOUS
  <2>1. cursor <= top /\ top \in Nat
    BY DEF IInv, BaseInv, TypeOK
  <2>2. last <= top
    <3>1. CASE pc = "idle"
      BY <2>1, <3>1 DEF IInv, IdleInv, Rest
    <3>2. CASE pc # "idle" /\ ~whole
      BY <3>2 DEF IInv, DeltaInv
    <3>3. CASE whole
      BY <2>1, <3>3 DEF IInv, FullInv
    <3> QED BY <3>1, <3>2, <3>3
  <2>3. whole /\ pc \in {"list", "act"} => tip.lo <= top
    BY DEF IInv, FullInv
  <2> QED BY <2>1, <2>2, <2>3 DEF NeverAhead
<1> QED BY <1>1, InitInv, InvStep, PTL DEF Spec
-----------------------------------------------------------------------------
(* ChangeFeed implements CatchUp.                                          *)
LEMMA InitPromised == Init => CU!Init
<1> SUFFICES ASSUME Init PROVE CU!Init
  OBVIOUS
<1>1. TypeOK /\ IInv
  BY InitInv
<1>2. \A o \in File : /\ Is(o) \in FileState \cup {None, Out}
                      /\ NewsOf(o) \in Nat /\ NewsOf(o) <= top
  BY <1>1, IsType DEF IInv
<1>3. lost = {}
  BY DEF Init
<1>4. cursor <= top /\ \A o \in File : CU!Promised(o, told, cursor)
  BY <1>1, <1>3 DEF IInv, BaseInv
<1> QED BY <1>1, <1>2, <1>3, <1>4 DEF CU!Init, TypeOK

LEMMA StepPromised == TypeOK /\ IInv /\ [Next]_vars => [CU!Next]_CU!vars
<1> SUFFICES ASSUME TypeOK, IInv, [Next]_vars
             PROVE  [CU!Next]_CU!vars
  OBVIOUS
<1>0. TypeOK' /\ DriveInv'
  BY InvStep DEF IInv
<1> DEFINE Now == [o \in File |-> Is(o)]
           News == [o \in File |-> NewsOf(o)]
<1>1. ASSUME UNCHANGED drive
      PROVE  Now' = Now /\ News' = News /\ top' = top
  BY <1>1, SameDrive
<1>2. CASE Others
  <2>1. Settled
    BY <1>2, OthersSettle DEF IInv
  <2>2. top < top' /\ told' = told /\ cursor' = cursor /\ lost' = lost
        /\ \A o \in File : Untouched(o) \/ Fresh(o)
    BY <2>1 DEF Settled, Aside, base
  <2>3. \A o \in File : \/ Now'[o] = Now[o] /\ News'[o] = News[o]
                        \/ top < News'[o] /\ News'[o] <= top'
    BY <2>2 DEF Untouched, Fresh
  <2>4. CU!Change
    BY <2>2, <2>3 DEF CU!Change
  <2> QED BY <2>4 DEF CU!Next
<1>3. CASE Save
  <2>1. Now' = Now /\ News' = News /\ top' = top
    BY <1>1, <1>3, SaveIs
  <2>2. /\ cursor <= cursor' /\ cursor' <= top
        /\ lost' \subseteq File
        /\ ~whole => lost' \subseteq lost \cup {o \in File : NewsOf(o) > cursor}
        /\ \A o \in File \ lost' : CU!Promised(o, told', cursor')
    BY <1>3, SaveIs
  <2>3. ASSUME NEW fresh, lost' \subseteq fresh PROVE CU!Pass(fresh)
    BY <2>1, <2>2, <2>3 DEF CU!Pass, CU!drive
  <2>4. CASE whole
    BY <2>2, <2>3, <2>4 DEF CU!Full, CU!Next
  <2>5. CASE ~whole
    <3>1. lost' \subseteq lost \cup {o \in File : News[o] > cursor}
      BY <2>2, <2>5
    <3> QED BY <2>3, <3>1 DEF CU!Delta, CU!Next
  <2> QED BY <2>4, <2>5
<1>4. CASE BreakOff
  <2>1. Now' = Now /\ News' = News /\ top' = top
    BY <1>1, <1>4, BreakOffIs
  <2> QED BY <1>4, <2>1, BreakOffIs DEF CU!Broken, CU!Next, CU!drive
<1>5. CASE UNCHANGED drive /\ UNCHANGED base
  <2>1. Now' = Now /\ News' = News /\ top' = top
    BY <1>1, <1>5
  <2> QED BY <1>5, <2>1 DEF CU!vars, CU!drive, base
<1>6. (UNCHANGED drive /\ UNCHANGED base) \/ Others \/ Save \/ BreakOff
  <2>1. CASE BeginDelta \/ BeginFull
    BY <2>1 DEF BeginDelta, BeginFull
  <2>2. CASE GetChanges \/ Truncate
    BY <2>2 DEF GetChanges, Truncate
  <2>3. CASE \E a \in page : TakeFile(a) \/ TakeDir(a)
    BY <2>3 DEF TakeFile, TakeDir, Takes
  <2>4. CASE ListPage \/ RelistFails
    BY <2>4 DEF ListPage, RelistFails
  <2>5. CASE Asked \/ \E o \in File : Probe(o)
    BY <2>5 DEF Asked, Probe
  <2>6. CASE AnyAfter \/ Double \/ Bisect \/ MakeSure
    BY <2>6 DEF AnyAfter, Double, Bisect, MakeSure, TipKept
  <2>7. CASE Abort
    BY <2>7 DEF Abort
  <2>8. CASE UNCHANGED vars
    BY <2>8 DEF vars
  <2> QED BY <2>1, <2>2, <2>3, <2>4, <2>5, <2>6, <2>7, <2>8 DEF Next, Step
<1> QED BY <1>2, <1>3, <1>4, <1>5, <1>6

(* Whatever the pages, the limits and the faults, and whatever others write*)
(* between two requests: each pass does what CatchUp promises of it.       *)
THEOREM ReadingKeepsPromise == Spec => Promise
<1> QED BY InitPromised, StepPromised, InitInv, InvStep, PTL DEF Spec, Promise, CU!Spec
=============================================================================
