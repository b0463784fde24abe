--------------------------- MODULE TreeSync_proofs ---------------------------
(***************************************************************************)
(* Proofs about TreeSync for every set of paths, contents, ids, trees,     *)
(* modes and acts: after every step both sides are trees, with one object  *)
(* of a name on the drive; a row that calls itself synced is right about   *)
(* its object; and no action takes a content off the disk that is to be    *)
(* had nowhere else, whatever passes, users, other PCs and failures do to  *)
(* folders that are moved, made and trashed meanwhile.                     *)
(*                                                                         *)
(* The argument, three times over: what an action makes of the world (Does)*)
(* is good if the plan is, and the plan stays good while others act.       *)
(*   IInv   the world has the right shape (WorldOK): an object has the kind*)
(*          of each path that knows its id.                                *)
(*   SInv   rows and plan are right about versions (Fine): objects are only*)
(*          written with new versions (Grows).                             *)
(*   KInv   what rows and plan know is safe (Harmless): the drive forgets  *)
(*          nothing, and what a pass replaces it has compared.             *)
(* Each begins with the operators, has one lemma per action, then the      *)
(* decisions a pass begins with, then the steps of the others.             *)
(***************************************************************************)
EXTENDS TreeSync, TreePlan_proofs

(* A path of a tree that moves from p to q.                                *)
LEMMA ImageIs ==
    ASSUME NEW x \in Path, NEW p \in Path, NEW q \in Path, Within(x, p)
    PROVE  /\ Image(x, p, q) \in Seq(Names) /\ Len(x) - Len(p) \in Nat
           /\ Len(Image(x, p, q)) = Len(q) + (Len(x) - Len(p))
           /\ \A k \in 1 .. Len(q) : Image(x, p, q)[k] = q[k]
           /\ \A k \in 1 .. Len(x) - Len(p) :
                 Image(x, p, q)[Len(q) + k] = x[Len(p) + k]
<1> DEFINE t == SubSeq(x, Len(p) + 1, Len(x))
           n == Len(x) - Len(p)
<1>1. /\ x \in Seq(Names) /\ p \in Seq(Names) /\ q \in Seq(Names)
      /\ Len(x) \in Nat /\ Len(p) \in Nat /\ Len(q) \in Nat
  BY PathType
<1>2. Len(p) <= Len(x)
  BY <1>1, WithinIs
<1>3. n \in Nat
  BY <1>1, <1>2
<1>4. \A k \in Len(p) + 1 .. Len(x) : x[k] \in Names
  BY <1>1, ElementOfSeq
<1>5. /\ t \in Seq(Names)
      /\ Len(t) = IF Len(p) + 1 <= Len(x) THEN Len(x) - (Len(p) + 1) + 1 ELSE 0
      /\ \A k \in 1 .. Len(x) - (Len(p) + 1) + 1 : t[k] = x[Len(p) + 1 + k - 1]
  BY <1>1, <1>4, SubSeqProperties
<1>6. Len(t) = n /\ \A k \in 1 .. n : t[k] = x[Len(p) + k]
  BY <1>1, <1>2, <1>5
<1> HIDE DEF t, n
<1>7. /\ q \o t \in Seq(Names) /\ Len(q \o t) = Len(q) + Len(t)
      /\ \A k \in 1 .. Len(q) + Len(t) : (q \o t)[k] =
            IF k <= Len(q) THEN q[k] ELSE t[k - Len(q)]
  BY <1>1, <1>5, ConcatProperties
<1>8. \A k \in 1 .. Len(q) : (q \o t)[k] = q[k]
  BY <1>1, <1>3, <1>6, <1>7
<1>9. ASSUME NEW k \in 1 .. n PROVE (q \o t)[Len(q) + k] = x[Len(p) + k]
  <2>1. /\ Len(q) + k \in 1 .. Len(q) + Len(t) /\ ~(Len(q) + k <= Len(q))
        /\ Len(q) + k - Len(q) = k
    BY <1>1, <1>3, <1>6
  <2> QED BY <1>6, <1>7, <2>1
<1>10. Image(x, p, q) = q \o t
  BY DEF Image, t
<1> QED BY <1>3, <1>6, <1>7, <1>8, <1>9, <1>10 DEF n

LEMMA ImageOfRoot == ASSUME NEW p \in Path, NEW q \in Path PROVE Image(p, p, q) = q
<1> DEFINE y == Image(p, p, q)
<1>1. /\ p \in Seq(Names) /\ q \in Seq(Names) /\ Len(p) \in Nat /\ Len(q) \in Nat
  BY PathType
<1>2. /\ y \in Seq(Names) /\ Len(y) = Len(q) + (Len(p) - Len(p))
      /\ \A k \in 1 .. Len(q) : y[k] = q[k]
  BY ImageIs, WithinSelf
<1> HIDE DEF y
<1>3. Len(y) = Len(q) /\ \A k \in 1 .. Len(y) : y[k] = q[k]
  BY <1>1, <1>2
<1>4. y = q
  BY <1>1, <1>2, <1>3, SeqEqual
<1> QED BY <1>4 DEF y

(* It goes with its name, and it can come back.                            *)
LEMMA ImageThere ==
    ASSUME NEW x \in Path, NEW p \in Path, NEW q \in Path, Within(x, p),
           Image(x, p, q) \in Path
    PROVE  /\ Within(Image(x, p, q), q)
           /\ Image(Image(x, p, q), q, p) = x
           /\ x # p => /\ Image(x, p, q) # q
                       /\ IsDir(Image(x, p, q)) <=> IsDir(x)
<1> DEFINE y == Image(x, p, q)
           z == Image(y, q, p)
           n == Len(x) - Len(p)
<1>1. /\ x \in Seq(Names) /\ p \in Seq(Names) /\ q \in Seq(Names) /\ y \in Seq(Names)
      /\ Len(x) \in Nat /\ Len(p) \in Nat \ {0} /\ Len(q) \in Nat \ {0}
  BY PathType
<1>2. /\ n \in Nat /\ Len(y) = Len(q) + n
      /\ \A k \in 1 .. Len(q) : y[k] = q[k]
      /\ \A k \in 1 .. n : y[Len(q) + k] = x[Len(p) + k]
  BY ImageIs
<1> HIDE DEF y, n
<1>3. Within(y, q)
  BY <1>1, <1>2, WithinIs
<1>4. y \in Path
  BY DEF y
<1>5. /\ z \in Seq(Names) /\ Len(z) = Len(p) + (Len(y) - Len(q))
      /\ \A k \in 1 .. Len(p) : z[k] = p[k]
      /\ \A k \in 1 .. Len(y) - Len(q) : z[Len(p) + k] = y[Len(q) + k]
  BY <1>3, <1>4, ImageIs
<1> HIDE DEF z
<1>6. Len(y) - Len(q) = n /\ Len(x) = Len(p) + n
  BY <1>1, <1>2 DEF n
<1>7. \A k \in 1 .. Len(p) : x[k] = p[k]
  BY <1>1, WithinIs
<1>8. ASSUME NEW k \in 1 .. Len(x) PROVE z[k] = x[k]
  <2>1. CASE k <= Len(p)
    BY <1>1, <1>5, <1>7, <2>1
  <2>2. CASE ~(k <= Len(p))
    <3>1. k - Len(p) \in 1 .. n /\ Len(p) + (k - Len(p)) = k
      BY <1>1, <1>6, <2>2
    <3> QED BY <1>2, <1>5, <1>6, <3>1
  <2> QED BY <2>1, <2>2
<1>9. z = x
  <2>1. Len(z) = Len(x)
    BY <1>5, <1>6
  <2> QED BY <1>1, <1>5, <1>8, <2>1, SeqEqual
<1>10. ASSUME x # p PROVE y # q /\ (IsDir(y) <=> IsDir(x))
  <2>1. n # 0
    <3>1. n = 0 => Len(x) = Len(p)
      BY <1>1, <1>6
    <3>2. Len(x) = Len(p) => x = p
      BY <1>1, <1>7, SeqEqual
    <3> QED BY <1>10, <3>1, <3>2
  <2>2. n \in 1 .. n /\ Len(y) # Len(q)
    BY <1>1, <1>2, <2>1
  <2>3. y[Len(y)] = x[Len(x)]
    BY <1>2, <1>6, <2>2
  <2>4. Last(y) = Last(x)
    BY <2>3 DEF Last
  <2> QED BY <1>4, <2>2, <2>4, PathAssumption
<1> QED BY <1>3, <1>9, <1>10 DEF y, z

(* What is above it goes before it.                                        *)
LEMMA ImageAbove ==
    ASSUME NEW x \in Path, NEW y \in Path, NEW p \in Path, NEW q \in Path,
           Within(x, y), Within(y, p), Image(x, p, q) \in Path
    PROVE  /\ Image(y, p, q) \in Path
           /\ Within(Image(x, p, q), Image(y, p, q))
           /\ Image(x, p, q) = Image(y, p, q) => x = y
<1> DEFINE v == Image(x, p, q)
           u == Image(y, p, q)
           nx == Len(x) - Len(p)
           ny == Len(y) - Len(p)
<1>0. Within(x, p)
  BY WithinOn
<1>1. /\ x \in Seq(Names) /\ y \in Seq(Names) /\ p \in Seq(Names) /\ q \in Seq(Names)
      /\ Len(x) \in Nat /\ Len(y) \in Nat /\ Len(p) \in Nat /\ Len(q) \in Nat \ {0}
  BY PathType
<1>2. v \in Seq(Names) /\ Len(v) = Len(q) + nx
  BY <1>0, ImageIs
<1>3. u \in Seq(Names) /\ ny \in Nat /\ Len(u) = Len(q) + ny
  BY ImageIs
<1>10. \A k \in 1 .. Len(q) : v[k] = q[k]
  BY <1>0, ImageIs
<1>13. \A k \in 1 .. Len(q) : u[k] = q[k]
  BY ImageIs
<1>11. \A k \in 1 .. nx : v[Len(q) + k] = x[Len(p) + k]
  BY <1>0, ImageIs
<1>12. \A k \in 1 .. ny : u[Len(q) + k] = y[Len(p) + k]
  BY ImageIs
<1> HIDE DEF u, v
<1>4. Len(y) <= Len(x) /\ \A k \in 1 .. Len(y) : x[k] = y[k]
  BY <1>1, WithinIs
<1>5. ASSUME NEW k \in 1 .. Len(u) PROVE v[k] = u[k]
  <2>1. CASE k <= Len(q)
    BY <1>1, <1>10, <1>13, <2>1
  <2>2. CASE ~(k <= Len(q))
    <3>1. /\ k - Len(q) \in 1 .. ny /\ Len(q) + (k - Len(q)) = k
          /\ k - Len(q) \in 1 .. nx
          /\ Len(p) + (k - Len(q)) \in 1 .. Len(y)
      BY <1>1, <1>3, <1>4, <2>2
    <3>2. u[k] = y[Len(p) + (k - Len(q))]
      BY <1>12, <3>1
    <3>3. v[k] = x[Len(p) + (k - Len(q))]
      BY <1>11, <3>1
    <3> QED BY <1>4, <3>1, <3>2, <3>3
  <2> QED BY <2>1, <2>2
<1>6. Len(u) <= Len(v)
  BY <1>1, <1>2, <1>3, <1>4
<1>7. Within(v, u)
  BY <1>2, <1>3, <1>5, <1>6, WithinIs
<1>8. Len(u) = Len(v) => x = y
  <2>1. Len(u) = Len(v) => Len(x) = Len(y)
    BY <1>1, <1>2, <1>3
  <2>2. Len(x) = Len(y) => x = y
    BY <1>1, <1>4, SeqEqual
  <2> QED BY <2>1, <2>2
<1>9. u \in Path
  <2>1. CASE Len(u) = Len(v)
    BY <1>8, <2>1 DEF u, v
  <2>2. CASE Len(u) # Len(v)
    <3>1. Len(u) \in 1 .. Len(v) - 1
      BY <1>1, <1>3, <1>6, <2>2, LenProperties, <1>2
    <3>2. v \in Path
      BY DEF v
    <3>3. SubSeq(v, 1, Len(u)) \in DirPath
      BY <3>1, <3>2, PathAssumption
    <3>4. SubSeq(v, 1, Len(u)) = u
      BY <1>3, <1>7, SubSeqFull DEF Within, IsPrefix
    <3> QED BY <3>3, <3>4, PathKinds
  <2> QED BY <2>1, <2>2
<1> QED BY <1>7, <1>8, <1>9 DEF u, v
-----------------------------------------------------------------------------
(* The shapes of the two sides, for any disk and any drive.                *)
TreeOK(d) ==
    /\ d \in [Path -> Content \cup {Folder, None}]
    /\ \A p \in Path : d[p] # None => d[p] \in Holds(p)
    /\ \A p, q \in Path : Within(p, q) /\ d[p] # None => d[q] # None

DriveOK(o) ==
    /\ o \in [Id -> Object]
    /\ \A i \in Id : o[i].at \in Path => o[i].c \in Holds(o[i].at)
    /\ \A i \in Id, q \in Path :
          o[i].at \in Path /\ Within(o[i].at, q) => \E j \in Id : o[j].at = q
    /\ \A i, j \in Id : o[i].at \in Path /\ o[i].at = o[j].at => i = j

LEMMA KindOfPath ==
    /\ \A p \in DirPath : IsDir(p) /\ p \in Path /\ Holds(p) = {Folder}
    /\ \A p \in FilePath : ~IsDir(p) /\ p \in Path /\ Holds(p) = Content
    /\ \A p \in Path : Holds(p) = IF IsDir(p) THEN {Folder} ELSE Content
    /\ \A p \in Path : p \in FilePath <=> ~IsDir(p)
    /\ \A p \in Path : Holds(p) \subseteq Content \cup {Folder} /\ None \notin Holds(p)
BY PathKinds, PathAssumption, ContentAssumption DEF IsDir, Holds, Path

(* Nothing is under a file.                                                *)
LEMMA FileIsLeaf ==
    ASSUME NEW p \in Path, NEW x \in Path, ~IsDir(p), Within(x, p)
    PROVE  x = p
BY FoldersAbove, UnderIs

LEMMA TreeOfType == ASSUME TypeOK PROVE TreeOK(disk)
<1>1. ASSUME NEW p \in Path, NEW q \in Path, Within(p, q), disk[p] # None
      PROVE  disk[q] # None
  <2>1. p # q => q \in Parents(p)
    BY <1>1, UnderIs DEF Parents
  <2> QED BY <1>1, <2>1, ContentAssumption DEF TypeOK, Homed
<1> QED BY <1>1 DEF TreeOK, TypeOK

LEMMA TypeOfTree ==
    ASSUME NEW d, TreeOK(d), NEW p \in Path, d[p] # None
    PROVE  d[p] \in Holds(p) /\ \A q \in Parents(p) : d[q] = Folder
<1>1. ASSUME NEW q \in Parents(p) PROVE d[q] = Folder
  <2>1. q \in Path /\ Under(p, q)
    BY DEF Parents
  <2>2. IsDir(q) /\ Within(p, q)
    BY <2>1, FoldersAbove, UnderIs
  <2> QED BY <2>1, <2>2 DEF TreeOK, Holds
<1> QED BY <1>1 DEF TreeOK

(* A tree is taken away.                                                   *)
LEMMA TreeWithout ==
    ASSUME NEW d, TreeOK(d), NEW p \in Path
    PROVE  TreeOK([x \in Path |-> IF Within(x, p) THEN None ELSE d[x]])
<1> DEFINE e == [x \in Path |-> IF Within(x, p) THEN None ELSE d[x]]
<1>1. e \in [Path -> Content \cup {Folder, None}]
  BY DEF TreeOK
<1>2. \A x \in Path : e[x] # None => e[x] \in Holds(x)
  BY DEF TreeOK
<1>3. ASSUME NEW x \in Path, NEW y \in Path, Within(x, y), e[x] # None
      PROVE  e[y] # None
  <2>1. ~Within(x, p) /\ d[x] # None
    BY <1>3
  <2>2. ~Within(y, p)
    BY <1>3, <2>1, WithinOn
  <2>3. d[y] # None
    BY <1>3, <2>1 DEF TreeOK
  <2> QED BY <2>2, <2>3
<1> QED BY <1>1, <1>2, <1>3 DEF TreeOK

(* Folders are made above a path.                                          *)
LEMMA TreeWithParents ==
    ASSUME NEW d, TreeOK(d), NEW p \in Path
    PROVE  TreeOK(WithParents(d, p))
<1> DEFINE e == WithParents(d, p)
<1>0. \A x \in Path : e[x] = IF Under(p, x) THEN Folder ELSE d[x]
  BY DEF WithParents
<1>1. e \in [Path -> Content \cup {Folder, None}]
  BY DEF TreeOK, WithParents
<1> HIDE DEF e
<1>2. ASSUME NEW x \in Path, e[x] # None PROVE e[x] \in Holds(x)
  <2>1. Under(p, x) => IsDir(x)
    BY FoldersAbove
  <2> QED BY <1>0, <1>2, <2>1, KindOfPath DEF TreeOK
<1>3. ASSUME NEW x \in Path, NEW y \in Path, Within(x, y), e[x] # None
      PROVE  e[y] # None
  <2>1. CASE Under(p, x)
    <3>1. Under(p, y)
      BY <1>3, <2>1, UnderOn, UnderIs
    <3> QED BY <1>0, <3>1, ContentAssumption
  <2>2. CASE ~Under(p, x)
    BY <1>0, <1>3, <2>2, ContentAssumption DEF TreeOK
  <2> QED BY <2>1, <2>2
<1>4. TreeOK(e)
  BY <1>1, <1>2, <1>3 DEF TreeOK
<1> QED BY <1>4 DEF e

(* Something is put at a path whose folders are there.                     *)
LEMMA TreeSave ==
    ASSUME NEW d, TreeOK(d), NEW p \in Path, NEW c \in Holds(p),
           \A q \in Path : Under(p, q) => d[q] = Folder
    PROVE  TreeOK([d EXCEPT ![p] = c])
<1> DEFINE e == [d EXCEPT ![p] = c]
<1>0. \A x \in Path : e[x] = IF x = p THEN c ELSE d[x]
  BY DEF TreeOK
<1>1. e \in [Path -> Content \cup {Folder, None}]
  BY KindOfPath DEF TreeOK
<1> HIDE DEF e
<1>2. \A x \in Path : e[x] # None => e[x] \in Holds(x)
  BY <1>0 DEF TreeOK
<1>3. ASSUME NEW x \in Path, NEW y \in Path, Within(x, y), e[x] # None
      PROVE  e[y] # None
  <2>1. c # None
    BY KindOfPath
  <2>2. x = p /\ y # p => d[y] # None
    BY <1>3, UnderIs, ContentAssumption
  <2>3. x # p => d[y] # None
    BY <1>0, <1>3 DEF TreeOK
  <2> QED BY <1>0, <2>1, <2>2, <2>3
<1>4. TreeOK(e)
  BY <1>1, <1>2, <1>3 DEF TreeOK
<1> QED BY <1>4 DEF e

(* Something is put at a path, with the folders above it.                  *)
LEMMA TreePut ==
    ASSUME NEW d, TreeOK(d), NEW p \in Path, NEW c \in Holds(p)
    PROVE  TreeOK(WithParents([d EXCEPT ![p] = c], p))
<1> DEFINE e == WithParents(d, p)
           g == WithParents([d EXCEPT ![p] = c], p)
<1>1. TreeOK(e)
  BY TreeWithParents
<1>2. \A q \in Path : Under(p, q) => e[q] = Folder
  BY DEF WithParents
<1>3. TreeOK([e EXCEPT ![p] = c])
  BY <1>1, <1>2, TreeSave
<1>4. ~Under(p, p)
  BY UnderIs
<1>5. g = [e EXCEPT ![p] = c]
  BY <1>4 DEF WithParents, TreeOK
<1> QED BY <1>3, <1>5

(* A file is taken away.                                                   *)
LEMMA TreeLess ==
    ASSUME NEW d, TreeOK(d), NEW p \in Path, ~IsDir(p)
    PROVE  TreeOK([d EXCEPT ![p] = None])
<1>1. \A x \in Path : Within(x, p) <=> x = p
  BY FileIsLeaf, WithinSelf
<1>2. [d EXCEPT ![p] = None] = [x \in Path |-> IF Within(x, p) THEN None ELSE d[x]]
  BY <1>1 DEF TreeOK
<1> QED BY <1>2, TreeWithout

(* A tree goes to a path of its kind, with the folders above that.         *)
LEMMA TreeMoved ==
    ASSUME TreeOK(disk), NEW p \in Path, NEW q \in Path, IsDir(p) <=> IsDir(q)
    PROVE  TreeOK(WithParents(Shifted(p, q), q))
<1> DEFINE s == Shifted(p, q)
           e == WithParents(s, q)
<1>1. \A x \in Path : s[x] = IF Within(x, q) THEN IF Image(x, q, p) \in Path
                                                  THEN disk[Image(x, q, p)] ELSE None
                             ELSE IF Within(x, p) THEN None ELSE disk[x]
  BY DEF Shifted
<1>2. \A x \in Path : e[x] = IF Under(q, x) THEN Folder ELSE s[x]
  BY DEF WithParents
<1>3. \A x \in Path : disk[x] \in Content \cup {Folder, None}
  BY DEF TreeOK
<1>4. e = [x \in Path |-> e[x]]
  BY DEF WithParents
<1> HIDE DEF s, e
<1>5. ASSUME NEW x \in Path PROVE e[x] \in Content \cup {Folder, None}
  <2>1. CASE Under(q, x)
    BY <1>2, <2>1
  <2>2. CASE ~Under(q, x) /\ Within(x, q) /\ Image(x, q, p) \in Path
    <3>1. e[x] = disk[Image(x, q, p)]
      BY <1>1, <1>2, <2>2
    <3> QED BY <1>3, <2>2, <3>1
  <2>3. CASE ~Under(q, x) /\ ~(Within(x, q) /\ Image(x, q, p) \in Path)
    <3>1. e[x] = s[x]
      BY <1>2, <2>3
    <3>2. s[x] = None \/ s[x] = disk[x]
      BY <1>1, <2>3
    <3>3. disk[x] \in Content \cup {Folder, None}
      BY <1>3
    <3> QED BY <3>1, <3>2, <3>3
  <2> QED BY <2>1, <2>2, <2>3
<1>6. e \in [Path -> Content \cup {Folder, None}]
  BY <1>4, <1>5
<1>7. ASSUME NEW x \in Path, e[x] # None PROVE e[x] \in Holds(x)
  <2>1. CASE Under(q, x)
    <3>1. IsDir(x)
      BY <2>1, FoldersAbove
    <3> QED BY <1>2, <2>1, <3>1, KindOfPath
  <2>2. CASE ~Under(q, x) /\ Within(x, q)
    <3>1. /\ Image(x, q, p) \in Path /\ e[x] = disk[Image(x, q, p)]
      BY <1>1, <1>2, <1>7, <2>2
    <3>2. e[x] \in Holds(Image(x, q, p))
      BY <1>7, <3>1 DEF TreeOK
    <3>3. IsDir(Image(x, q, p)) <=> IsDir(x)
      BY <2>2, <3>1, ImageThere, ImageOfRoot
    <3>4. Holds(Image(x, q, p)) = Holds(x)
      BY <3>3 DEF Holds
    <3> QED BY <3>2, <3>4
  <2>3. CASE ~Under(q, x) /\ ~Within(x, q)
    <3>1. e[x] = disk[x]
      BY <1>1, <1>2, <1>7, <2>3
    <3> QED BY <1>7, <3>1 DEF TreeOK
  <2> QED BY <2>1, <2>2, <2>3
<1>8. ASSUME NEW x \in Path, NEW y \in Path, Within(x, y), e[x] # None
      PROVE  e[y] # None
  <2>1. CASE Under(q, y)
    BY <1>2, <2>1, ContentAssumption
  <2>2. ~Under(q, x) \/ Under(q, y)
    BY <1>8, UnderOn, UnderIs
  <2>3. CASE ~Under(q, y) /\ Within(x, q)
    <3>1. Within(y, q) \/ Within(q, y)
      BY <1>8, <2>3, Chain
    <3>2. Within(y, q)
      BY <2>3, <3>1, UnderIs, WithinSelf
    <3>3. Image(x, q, p) \in Path /\ e[x] = disk[Image(x, q, p)]
      BY <1>1, <1>2, <1>8, <2>2, <2>3
    <3>4. Image(y, q, p) \in Path /\ Within(Image(x, q, p), Image(y, q, p))
      BY <1>8, <3>2, <3>3, ImageAbove
    <3>5. disk[Image(y, q, p)] # None
      BY <1>8, <3>3, <3>4 DEF TreeOK
    <3>6. e[y] = disk[Image(y, q, p)]
      BY <1>1, <1>2, <2>3, <3>2, <3>4
    <3> QED BY <3>5, <3>6
  <2>4. CASE ~Under(q, y) /\ ~Within(x, q)
    <3>1. e[x] = disk[x] /\ ~Within(x, p)
      BY <1>1, <1>2, <1>8, <2>2, <2>4
    <3>2. ~Within(y, q) /\ ~Within(y, p)
      BY <1>8, <2>4, <3>1, WithinOn
    <3>3. disk[y] # None
      BY <1>8, <3>1 DEF TreeOK
    <3> QED BY <1>1, <1>2, <2>4, <3>2, <3>3
  <2> QED BY <2>1, <2>3, <2>4
<1>9. TreeOK(e)
  BY <1>6, <1>7, <1>8 DEF TreeOK
<1> QED BY <1>9 DEF e, s
-----------------------------------------------------------------------------
(* The drive.                                                              *)
LEMMA ObjectType ==
    ASSUME NEW o, DriveOK(o), NEW i \in Id
    PROVE  /\ o[i] \in Object /\ o[i].at \in Path \cup {None, Outside}
           /\ o[i].c \in Content \cup {Folder, None} /\ o[i].ver \in Nat
           /\ o[i].at \in Path => o[i].c \in Holds(o[i].at)
BY DEF DriveOK, Object

LEMMA Nowhere == None \notin Path /\ Outside \notin Path /\ None # Outside
BY IdAssumption, OutsideAssumption

LEMMA DriveOfType == ASSUME TypeOK PROVE DriveOK(obj)
<1>1. ASSUME NEW i \in Id, NEW q \in Path, obj[i].at \in Path, Within(obj[i].at, q)
      PROVE  \E j \in Id : obj[j].at = q
  <2>1. obj[i].at # q => q \in Parents(obj[i].at)
    BY <1>1, UnderIs DEF Parents
  <2>2. Rooted(obj[i].at)
    BY <1>1 DEF TypeOK
  <2> QED BY <2>1, <2>2 DEF Rooted, Free, OnDrive
<1>2. ASSUME NEW i \in Id, NEW j \in Id, obj[i].at \in Path, obj[i].at = obj[j].at
      PROVE  i = j
  <2> DEFINE S == OnDrive(obj[i].at)
  <2>1. IsFiniteSet(S) /\ i \in S /\ j \in S
    BY <1>2, IdAssumption, FS_Subset DEF OnDrive
  <2>2. Cardinality(S) <= 1 /\ Cardinality(S) \in Nat
    BY <1>2, <2>1, FS_CardinalityType DEF TypeOK
  <2>3. Cardinality(S) # 0
    BY <2>1, FS_EmptySet
  <2>4. Cardinality(S) = 1
    <3> HIDE DEF S
    <3> QED BY <2>2, <2>3
  <2>5. \E x : S = {x}
    BY <2>1, <2>4, FS_Singleton
  <2> QED BY <2>1, <2>5
<1> QED BY <1>1, <1>2 DEF DriveOK, TypeOK

LEMMA OneOfAName ==
    ASSUME NEW o, DriveOK(o), NEW p \in Path
    PROVE  Cardinality({i \in Id : o[i].at = p}) <= 1
<1> DEFINE S == {i \in Id : o[i].at = p}
<1>2. ASSUME S # {} PROVE Cardinality(S) = 1
  <2>1. PICK i \in S : TRUE
    BY <1>2
  <2>2. \A j \in S : j = i
    BY <2>1 DEF DriveOK
  <2>3. S = {i}
    BY <2>1, <2>2
  <2> QED BY <2>3, FS_Singleton
<1>3. Cardinality(S) = 0 \/ Cardinality(S) = 1
  BY <1>2, FS_EmptySet
<1> HIDE DEF S
<1>4. Cardinality(S) <= 1
  BY <1>3
<1> QED BY <1>4 DEF S

(* What the actions need to know of what is at a path.                     *)
LEMMA AtPath ==
    ASSUME NEW p \in Path, DriveOK(obj)
    PROVE  /\ Free(p) <=> \A i \in Id : obj[i].at # p
           /\ ~Free(p) => /\ (CHOOSE i \in Id : obj[i].at = p) \in Id
                          /\ obj[CHOOSE i \in Id : obj[i].at = p].at = p
           /\ \A i \in Id : obj[i].at = p => (CHOOSE j \in Id : obj[j].at = p) = i
<1>1. Free(p) <=> \A i \in Id : obj[i].at # p
  BY DEF Free, OnDrive
<1>2. ASSUME ~Free(p)
      PROVE  /\ (CHOOSE i \in Id : obj[i].at = p) \in Id
             /\ obj[CHOOSE i \in Id : obj[i].at = p].at = p
  BY <1>1, <1>2
<1>3. ASSUME NEW i \in Id, obj[i].at = p PROVE (CHOOSE j \in Id : obj[j].at = p) = i
  <2>1. ~Free(p)
    BY <1>1, <1>3
  <2> QED BY <1>2, <1>3, <2>1 DEF DriveOK
<1> QED BY <1>1, <1>2, <1>3

(* Objects go, and with a folder all that is in it.                        *)
LEMMA DriveGone ==
    ASSUME NEW o, DriveOK(o), NEW S, NEW where \in {None, Outside},
           \A i \in Id, j \in S \cap Id :
              o[i].at \in Path /\ o[j].at \in Path /\ Within(o[i].at, o[j].at) => i \in S
    PROVE  DriveOK(Gone(o, S, where))
<1> DEFINE n == Gone(o, S, where)
<1>1. n = [i \in Id |-> IF i \in S THEN [o[i] EXCEPT !.at = where] ELSE o[i]]
  BY DEF Gone
<1> HIDE DEF n
<1>2. ASSUME NEW i \in Id
      PROVE  /\ n[i] \in Object /\ n[i].c = o[i].c
             /\ n[i].at = IF i \in S THEN where ELSE o[i].at
  <2>1. o[i] \in Object
    BY ObjectType
  <2> QED BY <1>1, <2>1 DEF Object
<1>3. n \in [Id -> Object]
  BY <1>1, <1>2
<1>4. \A i \in Id : n[i].at \in Path => i \notin S /\ n[i].at = o[i].at
  BY <1>2, Nowhere
<1>5. ASSUME NEW i \in Id, NEW q \in Path, n[i].at \in Path, Within(n[i].at, q)
      PROVE  \E j \in Id : n[j].at = q
  <2>1. PICK j \in Id : o[j].at = q
    BY <1>4, <1>5 DEF DriveOK
  <2>2. j \notin S
    BY <1>4, <1>5, <2>1
  <2> QED BY <1>2, <2>1, <2>2
<1>6. \A i \in Id : n[i].at \in Path => n[i].c \in Holds(n[i].at)
  BY <1>2, <1>4 DEF DriveOK
<1>7. \A i, j \in Id : n[i].at \in Path /\ n[i].at = n[j].at => i = j
  BY <1>4 DEF DriveOK
<1>8. DriveOK(n)
  BY <1>3, <1>5, <1>6, <1>7 DEF DriveOK
<1> QED BY <1>8 DEF n

(* What a drive has at a path may change.                                  *)
LEMMA DriveSame ==
    ASSUME NEW o, DriveOK(o), NEW i \in Id, o[i].at \in Path,
           NEW x \in Object, x.at = o[i].at, x.c \in Holds(x.at)
    PROVE  DriveOK([o EXCEPT ![i] = x])
<1> DEFINE n == [o EXCEPT ![i] = x]
<1>1. n \in [Id -> Object]
  BY DEF DriveOK
<1>2. \A j \in Id : n[j].at = o[j].at
  BY DEF DriveOK
<1>3. \A j \in Id : n[j].at \in Path => n[j].c \in Holds(n[j].at)
  BY DEF DriveOK
<1> HIDE DEF n
<1>4. ASSUME NEW j \in Id, NEW q \in Path, n[j].at \in Path, Within(n[j].at, q)
      PROVE  \E k \in Id : n[k].at = q
  <2>1. PICK k \in Id : o[k].at = q
    BY <1>2, <1>4 DEF DriveOK
  <2> QED BY <1>2, <2>1
<1>5. \A j, k \in Id : n[j].at \in Path /\ n[j].at = n[k].at => j = k
  BY <1>2 DEF DriveOK
<1>6. DriveOK(n)
  BY <1>1, <1>3, <1>4, <1>5 DEF DriveOK
<1> QED BY <1>6 DEF n

(* An object comes to a path that is free, with the folders above it.      *)
LEMMA DrivePlace ==
    ASSUME NEW o, DriveOK(o), NEW i \in Id, ~(o[i].at \in Path /\ IsDir(o[i].at)),
           NEW x \in Object, x.at \in Path, x.c \in Holds(x.at),
           \A j \in Id : o[j].at # x.at,
           \A q \in Path : Under(x.at, q) => \E j \in Id : o[j].at = q
    PROVE  DriveOK([o EXCEPT ![i] = x])
<1> DEFINE n == [o EXCEPT ![i] = x]
<1>1. n \in [Id -> Object]
  BY DEF DriveOK
<1>2. \A j \in Id : n[j] = IF j = i THEN x ELSE o[j]
  BY DEF DriveOK
<1> HIDE DEF n
<1>3. \A j \in Id : n[j].at \in Path => n[j].c \in Holds(n[j].at)
  BY <1>2 DEF DriveOK
<1>4. ASSUME NEW j \in Id, NEW q \in Path, n[j].at \in Path, Within(n[j].at, q)
      PROVE  \E k \in Id : n[k].at = q
  <2>1. CASE n[j].at = q
    BY <2>1
  <2>2. CASE n[j].at # q
    <3>1. Under(n[j].at, q) /\ IsDir(q)
      BY <1>4, <2>2, UnderIs, FoldersAbove
    <3>2. \E k \in Id : o[k].at = q
      BY <1>2, <1>4, <3>1 DEF DriveOK
    <3>3. PICK k \in Id : o[k].at = q
      BY <3>2
    <3>4. k # i
      BY <3>1, <3>3
    <3> QED BY <1>2, <3>3, <3>4
  <2> QED BY <2>1, <2>2
<1>5. ASSUME NEW j \in Id, NEW k \in Id, n[j].at \in Path, n[j].at = n[k].at
      PROVE  j = k
  <2>1. o[j].at # x.at /\ o[k].at # x.at
    OBVIOUS
  <2>2. j # i /\ k # i => o[j].at \in Path /\ o[j].at = o[k].at
    BY <1>2, <1>5
  <2>3. (j = i) <=> (k = i)
    BY <1>2, <1>5, <2>1
  <2> QED BY <2>2, <2>3 DEF DriveOK
<1>6. DriveOK(n)
  BY <1>1, <1>3, <1>4, <1>5 DEF DriveOK
<1> QED BY <1>6 DEF n

(* Another PC moves a tree.                                                *)
LEMMA DriveCarried ==
    ASSUME DriveOK(obj), NEW i \in Id, NEW q \in Path, obj[i].at \in Path,
           Free(q), Rooted(q),
           Movable(obj[i].at, q, {obj[j].at : j \in InTree(obj[i].at)})
    PROVE  /\ DriveOK(Carried(i, q))
           /\ \A j \in Id : Carried(i, q)[j].c = obj[j].c
<1> DEFINE p == obj[i].at
           n == Carried(i, q)
           In == InTree(p)
           im(j) == Image(obj[j].at, p, q)
<1>1. n = [j \in Id |-> IF j \in In THEN [obj[j] EXCEPT !.at = im(j)] ELSE obj[j]]
  BY DEF Carried
<1>2. /\ IsDir(p) <=> IsDir(q)
      /\ ~Within(p, q) /\ ~Within(q, p)
      /\ \A j \in In : im(j) \in Path
  BY DEF Movable
<1>3. \A j \in Id : j \in In <=> obj[j].at \in Path /\ Within(obj[j].at, p)
  BY DEF InTree, Subtree
<1>4. p \in Path
  OBVIOUS
<1> HIDE DEF n, In
<1>5. ASSUME NEW j \in Id
      PROVE  /\ n[j] \in Object /\ n[j].c = obj[j].c
             /\ n[j].at = IF j \in In THEN im(j) ELSE obj[j].at
  <2>1. obj[j] \in Object
    BY ObjectType
  <2>2. CASE j \in In
    <3>1. im(j) \in Path
      BY <1>2, <2>2
    <3>2. n[j] = [obj[j] EXCEPT !.at = im(j)]
      BY <1>1, <2>2
    <3> HIDE DEF im
    <3> QED BY <2>1, <2>2, <3>1, <3>2 DEF Object
  <2>3. CASE j \notin In
    BY <1>1, <2>1, <2>3
  <2> QED BY <2>2, <2>3
<1>6. n \in [Id -> Object]
  <2>1. n = [j \in Id |-> n[j]]
    BY <1>1
  <2> QED BY <1>5, <2>1
<1> HIDE DEF p, im
<1>7. ASSUME NEW j \in In
      PROVE  /\ j \in Id /\ obj[j].at \in Path /\ Within(obj[j].at, p)
             /\ n[j].at = im(j) /\ im(j) \in Path /\ Within(im(j), q)
             /\ Image(im(j), q, p) = obj[j].at
             /\ IsDir(im(j)) <=> IsDir(obj[j].at)
  <2>1. /\ j \in Id /\ obj[j].at \in Path /\ Within(obj[j].at, p)
        /\ n[j].at = im(j) /\ im(j) \in Path
    BY <1>2, <1>3, <1>5, <1>7 DEF In, InTree
  <2>2. /\ Within(im(j), q) /\ Image(im(j), q, p) = obj[j].at
        /\ obj[j].at # p => (IsDir(im(j)) <=> IsDir(obj[j].at))
    BY <1>4, <2>1, ImageThere DEF im
  <2>3. obj[j].at = p => im(j) = q
    BY <1>4, ImageOfRoot DEF im
  <2> QED BY <1>2, <2>1, <2>2, <2>3
<1>8. ASSUME NEW j \in Id, n[j].at \in Path PROVE n[j].c \in Holds(n[j].at)
  <2>1. CASE j \in In
    <3>1. obj[j].c \in Holds(obj[j].at)
      BY <1>7, <2>1 DEF DriveOK
    <3>2. Holds(obj[j].at) = Holds(n[j].at)
      BY <1>7, <2>1 DEF Holds
    <3> QED BY <1>5, <3>1, <3>2
  <2>2. CASE j \notin In
    BY <1>5, <1>8, <2>2 DEF DriveOK
  <2> QED BY <2>1, <2>2
<1>9. ASSUME NEW j \in Id, NEW y \in Path, n[j].at \in Path, Within(n[j].at, y)
      PROVE  \E k \in Id : n[k].at = y
  <2>1. CASE j \in In /\ Within(y, q)
    <3>1. n[j].at = im(j) /\ Image(im(j), q, p) \in Path
      BY <1>7, <2>1
    <3>2. /\ Image(y, q, p) \in Path
          /\ Within(Image(im(j), q, p), Image(y, q, p))
      BY <1>4, <1>9, <2>1, <3>1, ImageAbove
    <3>3. PICK k \in Id : obj[k].at = Image(y, q, p)
      BY <1>7, <2>1, <3>2 DEF DriveOK
    <3>4. /\ Within(Image(y, q, p), p) /\ Image(Image(y, q, p), p, q) = y
      BY <1>4, <2>1, <3>2, ImageThere
    <3>5. k \in In
      BY <1>3, <3>2, <3>3, <3>4
    <3> QED BY <1>7, <3>3, <3>4, <3>5 DEF im
  <2>2. CASE j \in In /\ ~Within(y, q)
    <3>1. Under(q, y)
      BY <1>7, <1>9, <2>2, Chain, UnderIs, WithinSelf
    <3>2. PICK k \in Id : obj[k].at = y
      BY <3>1 DEF Rooted, Parents, Free, OnDrive
    <3>3. k \notin In
      <4>1. Within(y, p) => Within(q, p)
        BY <1>4, <3>1, UnderIs, WithinOn
      <4> QED BY <1>2, <1>3, <3>2, <4>1
    <3> QED BY <1>5, <3>2, <3>3
  <2>3. CASE j \notin In
    <3>1. n[j].at = obj[j].at
      BY <1>5, <2>3
    <3>2. PICK k \in Id : obj[k].at = y
      BY <1>9, <3>1 DEF DriveOK
    <3>3. k \notin In
      <4>1. Within(y, p) => Within(obj[j].at, p)
        BY <1>4, <1>9, <3>1, WithinOn
      <4> QED BY <1>3, <1>9, <2>3, <3>1, <3>2, <4>1
    <3> QED BY <1>5, <3>2, <3>3
  <2> QED BY <2>1, <2>2, <2>3
<1>10. ASSUME NEW j \in In, NEW k \in Id, k \notin In PROVE n[j].at # n[k].at
  <2>1. n[k].at = obj[k].at
    BY <1>5, <1>10
  <2>2. obj[k].at \in Path => ~Within(obj[k].at, q)
    BY DEF DriveOK, Free, OnDrive
  <2> QED BY <1>7, <2>1, <2>2
<1>11. ASSUME NEW j \in Id, NEW k \in Id, n[j].at \in Path, n[j].at = n[k].at
       PROVE  j = k
  <2>1. j \in In <=> k \in In
    BY <1>10, <1>11
  <2>2. obj[j].at = obj[k].at /\ obj[j].at \in Path
    BY <1>5, <1>7, <1>11, <2>1
  <2> QED BY <2>2 DEF DriveOK
<1>12. DriveOK(n)
  BY <1>6, <1>8, <1>9, <1>11 DEF DriveOK
<1> QED BY <1>5, <1>12 DEF n
-----------------------------------------------------------------------------
(* What an action may make of the world: an object keeps its kind.         *)
Keeps(o, n) == \A i \in Id : \A p \in Path : o[i].c \in Holds(p) => n[i].c \in Holds(p)

WorldOK(w) ==
    /\ w = [disk |-> w.disk, obj |-> w.obj, kept |-> w.kept, rows |-> w.rows,
            ids |-> w.ids, gone |-> w.gone, claims |-> w.claims]
    /\ TreeOK(w.disk) /\ DriveOK(w.obj) /\ Keeps(obj, w.obj)
    /\ w.kept \subseteq Content /\ w.ids \subseteq Id
    /\ w.claims \subseteq Id \X Nat \X Content
    /\ w.rows \in [Path -> Row] /\ RowsFit(w.rows, w.obj)

LEMMA NowOK ==
    ASSUME IInv
    PROVE  /\ WorldOK(Now) /\ TreeOK(disk) /\ DriveOK(obj)
           /\ rows \in [Path -> Row] /\ RowsFit(rows, obj)
           /\ Now.disk = disk /\ Now.obj = obj /\ Now.kept = kept /\ Now.rows = rows
           /\ Now.ids = {} /\ Now.gone = {} /\ Now.claims = {}
<1>1. TreeOK(disk) /\ DriveOK(obj)
  BY TreeOfType, DriveOfType DEF IInv
<1>2. Keeps(obj, obj)
  BY DEF Keeps
<1> QED BY <1>1, <1>2 DEF WorldOK, Now, IInv, TypeOK

(* A record that fits a drive fits what is made of it.                     *)
LEMMA FitsOn ==
    ASSUME NEW o, NEW n, Keeps(o, n), NEW i, NEW p \in Path, Fits(o, i, p)
    PROVE  Fits(n, i, p)
BY DEF Keeps, Fits
-----------------------------------------------------------------------------
(* ensure_remote_folder.  A chain of folders gets ids of its own, in order *)
(* of depth, and leaves one for what is put into the last.                 *)
Missing(S)  == {q \in S : Free(q)}
Above(S, q) == {x \in Missing(S) : Under(q, x)}
IdFor(S, q) ==
    IF Free(q) THEN CHOOSE i \in NewIds(obj) :
                       Cardinality(Lower(NewIds(obj), i)) = Cardinality(Above(S, q))
               ELSE CHOOSE i \in Id : obj[i].at = q
Folders(S) == [i \in Id |-> IF \E q \in Missing(S) : IdFor(S, q) = i
                            THEN Placed(CHOOSE q \in Missing(S) : IdFor(S, q) = i, Folder)
                            ELSE obj[i]]
FolderRows(S) == [q \in Path |-> IF q \in S THEN FolderRow(IdFor(S, q)) ELSE rows[q]]

LEMMA EnsuredIs ==
    ASSUME NEW S
    PROVE  /\ Ensured(S).disk = disk /\ Ensured(S).obj = Folders(S)
           /\ Ensured(S).kept = kept /\ Ensured(S).rows = FolderRows(S)
           /\ Ensured(S).ids = {IdFor(S, q) : q \in Missing(S)} /\ Ensured(S).gone = {}
           /\ Ensured(S).claims = {}
           /\ Ensured(S) = [disk |-> Ensured(S).disk, obj |-> Ensured(S).obj,
                            kept |-> Ensured(S).kept, rows |-> Ensured(S).rows,
                            ids |-> Ensured(S).ids, gone |-> Ensured(S).gone,
                            claims |-> Ensured(S).claims]
<1>1. Ensured(S) = [disk |-> disk, obj |-> Folders(S), kept |-> kept,
                    rows |-> FolderRows(S), ids |-> {IdFor(S, q) : q \in Missing(S)},
                    gone |-> {}, claims |-> {}]
  <2>1. Ensured(S) = [Now EXCEPT !.obj = Folders(S), !.rows = FolderRows(S),
                                 !.ids = {IdFor(S, q) : q \in Missing(S)}]
    BY Zenon DEF Ensured, Folders, FolderRows, IdFor, Missing, Above, Lower
  <2> QED BY <2>1 DEF Now
<1> QED BY <1>1

(* The folders asked for: those above p, and p if it is one.               *)
ChainTo(S, p) == S = Parents(p) \/ (S = Parents(p) \cup {p} /\ IsDir(p))

LEMMA ChainIs ==
    ASSUME NEW p \in Path, NEW S, ChainTo(S, p)
    PROVE  /\ S \subseteq Path /\ \A q \in S : IsDir(q) /\ Within(p, q)
           /\ \A q \in S, x \in Path : Under(q, x) => x \in S
           /\ \A q, r \in S : Under(q, r) \/ Under(r, q) \/ q = r
<1>1. S \subseteq Path /\ \A q \in S : IsDir(q) /\ Within(p, q)
  BY FoldersAbove, UnderIs, WithinSelf DEF ChainTo, Parents
<1>2. \A q \in S, x \in Path : Under(q, x) => x \in S
  BY <1>1, UnderOn DEF ChainTo, Parents
<1>3. \A q, r \in S : Under(q, r) \/ Under(r, q) \/ q = r
  BY <1>1, Chain, UnderIs
<1> QED BY <1>1, <1>2, <1>3

LEMMA ParentsFinite ==
    ASSUME NEW p \in Path
    PROVE  IsFiniteSet(Parents(p)) /\ Cardinality(Parents(p)) \in Nat
BY PathAssumption, FS_Subset, FS_CardinalityType DEF Parents

LEMMA NewIdsFinite ==
    ASSUME NEW o
    PROVE  /\ NewIds(o) \in SUBSET Nat /\ IsFiniteSet(NewIds(o)) /\ NewIds(o) \subseteq Id
           /\ Cardinality(NewIds(o)) \in Nat
<1>1. NewIds(o) \in SUBSET Id
  BY DEF NewIds
<1>2. IsFiniteSet(NewIds(o)) /\ NewIds(o) \in SUBSET Nat
  BY <1>1, IdAssumption, FS_Subset
<1> QED BY <1>1, <1>2, FS_CardinalityType

LEMMA ChainIds ==
    ASSUME NEW p \in Path, NEW S, ChainTo(S, p), Roomy
    PROVE  /\ \A q \in Missing(S) : IdFor(S, q) \in NewIds(obj)
           /\ \A q, r \in Missing(S) : IdFor(S, q) = IdFor(S, r) => q = r
           /\ S = Parents(p) =>
                 \E i \in NewIds(obj) : \A q \in Missing(S) : IdFor(S, q) # i
<1> DEFINE M == Missing(S)
           N == NewIds(obj)
           n == Cardinality(N)
           k == Cardinality(Parents(p))
           rank(i) == Cardinality(Lower(N, i))
           above(q) == Cardinality(Above(S, q))
<1>1. IsFiniteSet(N) /\ N \in SUBSET Nat /\ n \in Nat
  BY NewIdsFinite
<1>2. k \in Nat /\ n > k /\ IsFiniteSet(Parents(p))
  BY ParentsFinite DEF Roomy
<1>3. /\ IsFiniteSet(S) /\ Cardinality(S) \in Nat /\ Cardinality(S) <= k + 1
      /\ S = Parents(p) => Cardinality(S) = k
  <2>1. IsFiniteSet(Parents(p) \cup {p})
    BY <1>2, FS_AddElement
  <2>2. \/ Cardinality(Parents(p) \cup {p}) = k
        \/ Cardinality(Parents(p) \cup {p}) = k + 1
    BY <1>2, FS_AddElement
  <2>3. S = Parents(p) \/ S = Parents(p) \cup {p}
    BY DEF ChainTo
  <2>4. CASE S = Parents(p)
    <3> HIDE DEF k
    <3> QED BY <1>2, <2>4 DEF k
  <2>5. CASE S = Parents(p) \cup {p} /\ S # Parents(p)
    <3>1. IsFiniteSet(S) /\ (Cardinality(S) = k \/ Cardinality(S) = k + 1)
      BY <2>1, <2>2, <2>5
    <3> HIDE DEF k
    <3> QED BY <1>2, <2>5, <3>1
  <2> QED BY <2>3, <2>4, <2>5
<1>4. IsFiniteSet(M) /\ Cardinality(M) \in Nat /\ Cardinality(M) <= Cardinality(S)
  <2>1. M \in SUBSET S
    BY DEF Missing
  <2> QED BY <1>3, <2>1, FS_Subset, FS_CardinalityType
<1>5. ASSUME NEW q \in M PROVE above(q) \in Nat /\ above(q) < Cardinality(M)
  <2>1. Above(S, q) \in SUBSET M /\ q \in M \ Above(S, q)
    BY UnderIs DEF Above
  <2> QED BY <1>4, <2>1, SmallerSubset
<1>6. ASSUME NEW q \in M, NEW r \in M, Under(q, r) PROVE above(r) < above(q)
  <2>0. q \in Path /\ r \in Path /\ M \subseteq Path
    BY ChainIs DEF Missing
  <2>1. Above(S, r) \in SUBSET Above(S, q) /\ r \in Above(S, q) \ Above(S, r)
    BY <1>6, <2>0, UnderOn, UnderIs DEF Above
  <2>2. IsFiniteSet(Above(S, q))
    BY <1>4, FS_Subset DEF Above
  <2> QED BY <2>1, <2>2, SmallerSubset
<1>7. ASSUME NEW q \in M PROVE IdFor(S, q) \in N /\ rank(IdFor(S, q)) = above(q)
  <2>1. above(q) \in 0 .. n - 1
    <3>1. above(q) \in Nat /\ above(q) < Cardinality(M)
      BY <1>5
    <3> HIDE DEF above, n, k, M
    <3> QED BY <1>1, <1>2, <1>3, <1>4, <3>1
  <2>2. \E i \in N : rank(i) = above(q)
    BY <1>1, <2>1, Places
  <2>3. Free(q)
    BY DEF Missing
  <2> HIDE DEF N
  <2> QED BY <2>2, <2>3 DEF IdFor, N
<1>8. ASSUME NEW q \in M, NEW r \in M, IdFor(S, q) = IdFor(S, r) PROVE q = r
  <2>1. above(q) = above(r)
    BY <1>7, <1>8
  <2>2. above(q) \in Nat /\ above(r) \in Nat
    BY <1>5
  <2>3. q \in S /\ r \in S
    BY DEF Missing
  <2>4. Under(q, r) \/ Under(r, q) \/ q = r
    BY <2>3, ChainIs
  <2>5. ~Under(q, r)
    <3>1. Under(q, r) => above(r) < above(q)
      BY <1>6
    <3> HIDE DEF above
    <3> QED BY <2>1, <2>2, <3>1
  <2>6. ~Under(r, q)
    <3>1. Under(r, q) => above(q) < above(r)
      BY <1>6
    <3> HIDE DEF above
    <3> QED BY <2>1, <2>2, <3>1
  <2> QED BY <2>4, <2>5, <2>6
<1>9. ASSUME S = Parents(p)
      PROVE  \E i \in N : \A q \in M : IdFor(S, q) # i
  <2>1. n - 1 \in 0 .. n - 1
    <3> HIDE DEF n, k
    <3> QED BY <1>1, <1>2
  <2>2. PICK i \in N : rank(i) = n - 1
    BY <1>1, <2>1, Places
  <2>3. ASSUME NEW q \in M PROVE IdFor(S, q) # i
    <3>1. above(q) \in Nat /\ above(q) < Cardinality(M)
      BY <1>5
    <3>2. rank(IdFor(S, q)) = above(q)
      BY <1>7
    <3>3. above(q) # n - 1
      <4> HIDE DEF above, n, k, M
      <4> QED BY <1>1, <1>2, <1>3, <1>4, <1>9, <3>1
    <3> HIDE DEF rank, above, n
    <3> QED BY <2>2, <3>2, <3>3
  <2> QED BY <2>3
<1> QED BY <1>7, <1>8, <1>9

LEMMA FoldersAre ==
    ASSUME NEW p \in Path, NEW S, ChainTo(S, p), Roomy, DriveOK(obj)
    PROVE  /\ \A q \in Missing(S) : Folders(S)[IdFor(S, q)] = Placed(q, Folder)
           /\ \A i \in Id : \/ Folders(S)[i] = obj[i]
                            \/ /\ obj[i] = Unused
                               /\ \E q \in Missing(S) : i = IdFor(S, q)
           /\ \A i \in Id : obj[i].at \in Path => Folders(S)[i] = obj[i]
           /\ \A q \in S : /\ IdFor(S, q) \in Id
                           /\ Folders(S)[IdFor(S, q)].at = q
           /\ S = Parents(p) => NewIds(Folders(S)) # {}
<1> DEFINE M == Missing(S)
           n == Folders(S)
<1>1. /\ \A q \in M : IdFor(S, q) \in NewIds(obj)
      /\ \A q, r \in M : IdFor(S, q) = IdFor(S, r) => q = r
      /\ S = Parents(p) => \E i \in NewIds(obj) : \A q \in M : IdFor(S, q) # i
  BY ChainIds
<1>2. \A i \in Id : n[i] = IF \E q \in M : IdFor(S, q) = i
                           THEN Placed(CHOOSE q \in M : IdFor(S, q) = i, Folder)
                           ELSE obj[i]
  BY DEF Folders
<1>3. \A i \in NewIds(obj) : i \in Id /\ obj[i] = Unused
  BY DEF NewIds
<1> HIDE DEF n, M
<1>4. ASSUME NEW q \in M PROVE n[IdFor(S, q)] = Placed(q, Folder)
  <2>1. (CHOOSE r \in M : IdFor(S, r) = IdFor(S, q)) = q
    BY <1>1
  <2>2. IdFor(S, q) \in Id
    BY <1>1, <1>3
  <2> QED BY <1>2, <2>1, <2>2
<1>5. ASSUME NEW i \in Id
      PROVE  \/ n[i] = obj[i]
             \/ obj[i] = Unused /\ \E q \in M : i = IdFor(S, q)
  BY <1>1, <1>2, <1>3
<1>6. ASSUME NEW i \in Id, obj[i].at \in Path PROVE n[i] = obj[i]
  BY <1>5, <1>6, Nowhere DEF Unused
<1>7. ASSUME NEW q \in S PROVE IdFor(S, q) \in Id /\ n[IdFor(S, q)].at = q
  <2>1. q \in Path
    BY ChainIs
  <2>2. CASE Free(q)
    <3>1. q \in M
      BY <2>2 DEF M, Missing
    <3>2. n[IdFor(S, q)] = Placed(q, Folder)
      BY <1>4, <3>1
    <3>3. Placed(q, Folder).at = q
      BY DEF Placed
    <3>4. IdFor(S, q) \in Id
      BY <1>1, <1>3, <3>1
    <3> QED BY <3>2, <3>3, <3>4
  <2>3. CASE ~Free(q)
    <3>1. IdFor(S, q) \in Id /\ obj[IdFor(S, q)].at = q
      BY <2>1, <2>3, AtPath DEF IdFor
    <3> QED BY <1>6, <2>1, <3>1
  <2> QED BY <2>2, <2>3
<1>8. ASSUME S = Parents(p) PROVE NewIds(n) # {}
  <2>1. PICK i \in NewIds(obj) : \A q \in M : IdFor(S, q) # i
    BY <1>1, <1>8
  <2>2. i \in Id /\ n[i] = obj[i] /\ obj[i] = Unused
    BY <1>3, <1>5, <2>1
  <2> QED BY <2>2 DEF NewIds
<1> QED BY <1>4, <1>5, <1>6, <1>7, <1>8 DEF n, M

LEMMA PlacedIs ==
    ASSUME NEW p \in Path, NEW c \in Holds(p)
    PROVE  /\ Placed(p, c) \in Object /\ Placed(p, c).at = p /\ Placed(p, c).c = c
           /\ Placed(p, c).ver = 1
BY KindOfPath DEF Placed, Object

LEMMA FolderRowIs ==
    ASSUME NEW i \in Id \cup {None} PROVE FolderRow(i) \in Row /\ FolderRow(i).id = i
BY DEF FolderRow, Row, Unlisted, Status

LEMMA EnsuredOK ==
    ASSUME IInv, NEW p \in Path, NEW S, ChainTo(S, p), Roomy
    PROVE  WorldOK(Ensured(S))
<1> DEFINE M == Missing(S)
           n == Folders(S)
           r == FolderRows(S)
<1>0. /\ TreeOK(disk) /\ DriveOK(obj) /\ rows \in [Path -> Row] /\ RowsFit(rows, obj)
      /\ kept \subseteq Content
  BY NowOK DEF IInv, TypeOK
<1>1. /\ S \subseteq Path /\ \A q \in S : IsDir(q) /\ Within(p, q)
      /\ \A q \in S, x \in Path : Under(q, x) => x \in S
  BY ChainIs
<1>2. /\ \A q \in M : n[IdFor(S, q)] = Placed(q, Folder)
      /\ \A i \in Id : \/ n[i] = obj[i]
                       \/ obj[i] = Unused /\ \E q \in M : i = IdFor(S, q)
      /\ \A i \in Id : obj[i].at \in Path => n[i] = obj[i]
      /\ \A q \in S : IdFor(S, q) \in Id /\ n[IdFor(S, q)].at = q
  BY <1>0, FoldersAre
<1>3. M \subseteq S /\ \A q \in M : \A i \in Id : obj[i].at # q
  BY <1>0, <1>1, AtPath DEF Missing
<1>4. n = [i \in Id |-> n[i]]
  BY DEF Folders
<1>5. r = [q \in Path |-> IF q \in S THEN FolderRow(IdFor(S, q)) ELSE rows[q]]
  BY DEF FolderRows
<1> HIDE DEF M, n, r
<1>6. ASSUME NEW i \in Id
      PROVE  \/ n[i] = obj[i]
             \/ /\ obj[i] = Unused
                /\ n[i] \in Object /\ n[i].at \in M /\ n[i].c = Folder
                /\ i = IdFor(S, n[i].at)
  <2>1. CASE n[i] # obj[i]
    <3>1. PICK q \in M : i = IdFor(S, q)
      BY <1>2, <2>1
    <3>2. Folder \in Holds(q) /\ q \in Path
      BY <1>1, <1>3, KindOfPath
    <3>3. n[i] = Placed(q, Folder)
      BY <1>2, <3>1
    <3>4. n[i] \in Object /\ n[i].at = q /\ n[i].c = Folder
      BY <3>2, <3>3, PlacedIs
    <3> QED BY <1>2, <2>1, <3>1, <3>4
  <2> QED BY <2>1
<1>7. n \in [Id -> Object]
  BY <1>0, <1>4, <1>6, ObjectType
<1>8. ASSUME NEW i \in Id, n[i].at \in Path PROVE n[i].c \in Holds(n[i].at)
  <2>1. CASE n[i] = obj[i]
    BY <1>0, <1>8, <2>1 DEF DriveOK
  <2>2. CASE n[i].at \in M /\ n[i].c = Folder
    BY <1>1, <1>3, <2>2, KindOfPath
  <2> QED BY <1>6, <2>1, <2>2
<1>9. ASSUME NEW i \in Id, NEW y \in Path, n[i].at \in Path, Within(n[i].at, y)
      PROVE  \E k \in Id : n[k].at = y
  <2>1. CASE n[i] = obj[i]
    <3>1. PICK k \in Id : obj[k].at = y
      BY <1>0, <1>9, <2>1 DEF DriveOK
    <3> QED BY <1>2, <3>1
  <2>2. CASE n[i].at \in M
    <3>1. y \in S
      BY <1>1, <1>3, <1>9, <2>2, UnderIs
    <3> QED BY <1>2, <3>1
  <2> QED BY <1>6, <2>1, <2>2
<1>10. ASSUME NEW i \in Id, NEW k \in Id, n[i].at \in Path, n[i].at = n[k].at
       PROVE  i = k
  <2>1. CASE n[i] = obj[i] /\ n[k] = obj[k]
    BY <1>0, <1>10, <2>1 DEF DriveOK
  <2>2. CASE n[i] # obj[i] /\ n[k] # obj[k]
    BY <1>6, <1>10, <2>2
  <2>3. CASE n[i] = obj[i] /\ n[k] # obj[k]
    BY <1>3, <1>6, <1>10, <2>3
  <2>4. CASE n[i] # obj[i] /\ n[k] = obj[k]
    BY <1>3, <1>6, <1>10, <2>4
  <2> QED BY <2>1, <2>2, <2>3, <2>4
<1>11. DriveOK(n)
  BY <1>7, <1>8, <1>9, <1>10 DEF DriveOK
<1>12. Keeps(obj, n)
  <2>1. \A q \in Path : None \notin Holds(q)
    BY KindOfPath
  <2>2. Unused.c = None
    BY DEF Unused
  <2> QED BY <1>6, <2>1, <2>2 DEF Keeps
<1>13. ASSUME NEW q \in Path PROVE r[q] \in Row /\ Fits(n, r[q].id, q)
  <2>1. CASE q \in S
    <3>1. /\ IdFor(S, q) \in Id /\ n[IdFor(S, q)].at = q
          /\ r[q] = FolderRow(IdFor(S, q))
      BY <1>2, <1>5, <2>1
    <3>2. r[q] \in Row /\ r[q].id = IdFor(S, q)
      BY <3>1, FolderRowIs
    <3> QED BY <1>8, <3>1, <3>2 DEF Fits
  <2>2. CASE q \notin S
    <3>1. r[q] = rows[q]
      BY <1>5, <2>2
    <3> QED BY <1>0, <1>12, <3>1, FitsOn DEF RowsFit
  <2> QED BY <2>1, <2>2
<1>14. r \in [Path -> Row] /\ RowsFit(r, n)
  BY <1>5, <1>13 DEF RowsFit
<1>15. {IdFor(S, q) : q \in M} \subseteq Id
  BY <1>2, <1>3
<1> QED BY <1>0, <1>11, <1>12, <1>14, <1>15, EnsuredIs DEF WorldOK, M, n, r
-----------------------------------------------------------------------------
(* What the actions do, piece by piece.  Records first.                    *)
LEMMA KeepsOn ==
    ASSUME NEW o, NEW n, NEW m, Keeps(o, n), Keeps(n, m) PROVE Keeps(o, m)
BY DEF Keeps

LEMMA KeepsSelf == ASSUME NEW o PROVE Keeps(o, o)
BY DEF Keeps

LEMMA MarkedIs ==
    ASSUME NEW w \in [Path -> Row], NEW st \in Status, NEW p \in Path, NEW i \in Id \cup {None}
    PROVE  /\ Marked(w, st, p, i) \in Row
           /\ Marked(w, st, p, i).id \in {i, w[p].id}
BY DEF Marked, Row, Unlisted, Status

LEMMA RowOK ==
    ASSUME NEW w, WorldOK(w), NEW p \in Path, NEW x \in Row, Fits(w.obj, x.id, p)
    PROVE  /\ WorldOK([w EXCEPT !.rows[p] = x])
           /\ [w EXCEPT !.rows[p] = x].obj = w.obj
<1> DEFINE v == [w EXCEPT !.rows[p] = x]
           r == [w.rows EXCEPT ![p] = x]
<1>1. /\ v.disk = w.disk /\ v.obj = w.obj /\ v.kept = w.kept /\ v.ids = w.ids
      /\ v.gone = w.gone /\ v.claims = w.claims /\ v.rows = r
      /\ v = [disk |-> v.disk, obj |-> v.obj, kept |-> v.kept, rows |-> v.rows,
              ids |-> v.ids, gone |-> v.gone, claims |-> v.claims]
  BY DEF WorldOK
<1>2. r \in [Path -> Row] /\ RowsFit(r, w.obj)
  BY DEF WorldOK, RowsFit
<1> HIDE DEF v, r
<1>3. WorldOK(v) /\ v.obj = w.obj
  BY <1>1, <1>2 DEF WorldOK
<1> QED BY <1>3 DEF v

LEMMA SensibleIs ==
    ASSUME NEW a, Sensible(a, obj)
    PROVE  /\ a.path \in Path /\ a.to \in Path /\ (IsDir(a.to) <=> IsDir(a.path))
           /\ a.id \in Id \cup {None} /\ a.r.id \in Id \cup {None}
           /\ a.r.ver \in Nat \cup {None}
           /\ ~IsDir(a.path) => a.e \in Content \cup {None} /\ a.r.c \in Content \cup {None}
           /\ Holds(a.to) = Holds(a.path)
BY KindOfPath DEF Sensible, Fits, Sight, Holds

LEMMA FailedOK ==
    ASSUME NEW a, Sensible(a, obj), NEW w, WorldOK(w)
    PROVE  WorldOK(Failed(a, w)) /\ Failed(a, w).obj = w.obj
<1> DEFINE id == IF a.r.id # None /\ {p \in Path : w.rows[p].id = a.r.id} \subseteq {a.path}
                 THEN a.r.id ELSE None
           x == Marked(w.rows, "error", a.path, id)
<1>1. a.path \in Path /\ a.r.id \in Id \cup {None}
  BY SensibleIs
<1>2. id \in {a.r.id, None}
  OBVIOUS
<1>3. Fits(w.obj, a.r.id, a.path)
  BY <1>1, FitsOn DEF WorldOK, Sensible
<1>4. Failed(a, w) = [w EXCEPT !.rows[a.path] = x]
  BY DEF Failed
<1> HIDE DEF id
<1>5. x \in Row /\ x.id \in {id, w.rows[a.path].id}
  BY <1>1, <1>2, MarkedIs DEF WorldOK, Status
<1> HIDE DEF x
<1>6. Fits(w.obj, x.id, a.path)
  BY <1>1, <1>2, <1>3, <1>5 DEF WorldOK, RowsFit, Fits
<1> QED BY <1>1, <1>4, <1>5, <1>6, RowOK

LEMMA KeptOK ==
    ASSUME NEW a, a.path \in Path, NEW st \in Status, NEW w, WorldOK(w)
    PROVE  WorldOK(Kept(a, st, w)) /\ Kept(a, st, w).obj = w.obj
<1> DEFINE x == Marked(w.rows, st, a.path, None)
<1>1. x \in Row /\ x.id \in {None, w.rows[a.path].id}
  BY MarkedIs DEF WorldOK
<1>2. Kept(a, st, w) = [w EXCEPT !.rows[a.path] = x]
  BY DEF Kept
<1> HIDE DEF x
<1>3. Fits(w.obj, x.id, a.path)
  BY <1>1 DEF WorldOK, RowsFit, Fits
<1> QED BY <1>1, <1>2, <1>3, RowOK

LEMMA ProtectedOK ==
    ASSUME IInv, NEW a, a.path \in Path PROVE WorldOK(Protected(a)) /\ Protected(a).obj = obj
BY NowOK, KeptOK DEF Protected, Status

(* A new disk.                                                             *)
LEMMA DiskOK ==
    ASSUME NEW w, WorldOK(w), NEW d, TreeOK(d)
    PROVE  WorldOK([w EXCEPT !.disk = d]) /\ [w EXCEPT !.disk = d].obj = w.obj
<1> DEFINE v == [w EXCEPT !.disk = d]
<1>1. /\ v.disk = d /\ v.obj = w.obj /\ v.kept = w.kept /\ v.ids = w.ids
      /\ v.gone = w.gone /\ v.claims = w.claims /\ v.rows = w.rows
      /\ v = [disk |-> v.disk, obj |-> v.obj, kept |-> v.kept, rows |-> v.rows,
              ids |-> v.ids, gone |-> v.gone, claims |-> v.claims]
  BY DEF WorldOK
<1> HIDE DEF v
<1>2. WorldOK(v) /\ v.obj = w.obj
  BY <1>1 DEF WorldOK
<1> QED BY <1>2 DEF v

(* An object is written, and the row of its file says so.                  *)
Claims(a, i, x) == {<<i, x.ver, c>> : c \in {UploadRow(a, i, x.ver).lc} \ {None, x.c}}

LEMMA SentMakes ==
    ASSUME NEW a, NEW w, WorldOK(w), NEW i, NEW x
    PROVE  Sent(a, w, i, x) =
               [disk |-> w.disk, obj |-> [w.obj EXCEPT ![i] = x], kept |-> w.kept \cup {x.c},
                rows |-> [w.rows EXCEPT ![a.path] = UploadRow(a, i, x.ver)],
                ids |-> w.ids \cup {i}, gone |-> w.gone, claims |-> Claims(a, i, x)]
<1> DEFINE v == Sent(a, w, i, x)
           u == UploadRow(a, i, x.ver)
           n == [w.obj EXCEPT ![i] = x]
           r == [w.rows EXCEPT ![a.path] = u]
           k == Claims(a, i, x)
<1>1. w = [disk |-> w.disk, obj |-> w.obj, kept |-> w.kept, rows |-> w.rows,
           ids |-> w.ids, gone |-> w.gone, claims |-> w.claims]
  BY DEF WorldOK
<1>2. v = [w EXCEPT !.obj = n, !.kept = w.kept \cup {x.c}, !.ids = w.ids \cup {i},
                    !.rows = r, !.claims = k]
  BY DEF Sent, Claims
<1> HIDE DEF v, n, r, k
<1>3. v = [disk |-> w.disk, obj |-> n, kept |-> w.kept \cup {x.c}, rows |-> r,
           ids |-> w.ids \cup {i}, gone |-> w.gone, claims |-> k]
  BY <1>1, <1>2
<1> QED BY <1>3 DEF v, n, r, k

LEMMA SentIs ==
    ASSUME NEW a, NEW w, WorldOK(w), NEW i, NEW x
    PROVE  LET v == Sent(a, w, i, x)
               u == UploadRow(a, i, x.ver)
           IN  /\ v.disk = w.disk /\ v.obj = [w.obj EXCEPT ![i] = x]
               /\ v.kept = w.kept \cup {x.c} /\ v.ids = w.ids \cup {i} /\ v.gone = w.gone
               /\ v.rows = [w.rows EXCEPT ![a.path] = u]
               /\ v.claims = Claims(a, i, x)
               /\ v = [disk |-> v.disk, obj |-> v.obj, kept |-> v.kept, rows |-> v.rows,
                       ids |-> v.ids, gone |-> v.gone, claims |-> v.claims]
<1> DEFINE v == Sent(a, w, i, x)
           n == [w.obj EXCEPT ![i] = x]
           r == [w.rows EXCEPT ![a.path] = UploadRow(a, i, x.ver)]
           k == Claims(a, i, x)
<1>3. v = [disk |-> w.disk, obj |-> n, kept |-> w.kept \cup {x.c}, rows |-> r,
           ids |-> w.ids \cup {i}, gone |-> w.gone, claims |-> k]
  BY SentMakes
<1> HIDE DEF v, n, r, k
<1>4. /\ v.disk = w.disk /\ v.obj = n /\ v.kept = w.kept \cup {x.c}
      /\ v.ids = w.ids \cup {i} /\ v.gone = w.gone /\ v.rows = r /\ v.claims = k
      /\ v = [disk |-> v.disk, obj |-> v.obj, kept |-> v.kept, rows |-> v.rows,
              ids |-> v.ids, gone |-> v.gone, claims |-> v.claims]
  BY <1>3
<1> QED BY <1>4 DEF v, n, r, k

LEMMA SentOK ==
    ASSUME NEW a, Sensible(a, obj), ~IsDir(a.path), NEW w, WorldOK(w), NEW i \in Id,
           NEW x \in Object, x.at = a.path, x.c \in Holds(x.at),
           DriveOK([w.obj EXCEPT ![i] = x]),
           \A p \in Path : w.obj[i].c \in Holds(p) => x.c \in Holds(p)
    PROVE  WorldOK(Sent(a, w, i, x)) /\ Keeps(w.obj, Sent(a, w, i, x).obj)
<1> DEFINE v == Sent(a, w, i, x)
           u == UploadRow(a, i, x.ver)
           n == [w.obj EXCEPT ![i] = x]
           r == [w.rows EXCEPT ![a.path] = u]
           k == Claims(a, i, x)
<1>1. /\ v.disk = w.disk /\ v.obj = n /\ v.kept = w.kept \cup {x.c}
      /\ v.ids = w.ids \cup {i} /\ v.gone = w.gone /\ v.rows = r /\ v.claims = k
      /\ v = [disk |-> v.disk, obj |-> v.obj, kept |-> v.kept, rows |-> v.rows,
              ids |-> v.ids, gone |-> v.gone, claims |-> v.claims]
  <2>1. v = [disk |-> w.disk, obj |-> n, kept |-> w.kept \cup {x.c}, rows |-> r,
             ids |-> w.ids \cup {i}, gone |-> w.gone, claims |-> k]
    BY SentMakes
  <2> HIDE DEF v, n, r, k
  <2> QED BY <2>1
<1>2. a.path \in Path /\ a.e \in Content \cup {None} /\ Holds(a.path) = Content
  BY SensibleIs, KindOfPath
<1>3. u \in Row /\ u.id = i /\ k \subseteq Id \X Nat \X Content
  <2>1. x.ver \in Nat
    BY DEF Object
  <2>2. u \in Row /\ u.id = i
    BY <1>2, <2>1 DEF UploadRow, Row, Status
  <2>3. u.lc \in Content \cup {None}
    BY <2>2 DEF Row
  <2>4. k = {<<i, x.ver, c>> : c \in {u.lc} \ {None, x.c}}
    BY DEF Claims
  <2> HIDE DEF u, k
  <2> QED BY <2>1, <2>2, <2>3, <2>4
<1>4. Keeps(w.obj, n)
  BY DEF Keeps, WorldOK, DriveOK
<1>5. n[i] = x
  BY DEF WorldOK, DriveOK
<1> HIDE DEF u, n, k
<1>6. r \in [Path -> Row]
  BY <1>3 DEF WorldOK
<1>7. RowsFit(r, n)
  <2>1. ASSUME NEW p \in Path, p # a.path PROVE Fits(n, r[p].id, p)
    <3>1. r[p] = w.rows[p]
      BY <2>1 DEF WorldOK
    <3> QED BY <1>4, <3>1, FitsOn DEF WorldOK, RowsFit
  <2>2. Fits(n, r[a.path].id, a.path)
    <3>1. r[a.path] = u
      BY <1>2 DEF WorldOK
    <3> QED BY <1>3, <1>5, <3>1 DEF Fits
  <2> QED BY <2>1, <2>2 DEF RowsFit
<1>8. Keeps(obj, n)
  BY <1>4, KeepsOn DEF WorldOK
<1> HIDE DEF v, r
<1>9. WorldOK(v)
  <2>1. DriveOK(n)
    BY DEF n
  <2>2. /\ v.kept \subseteq Content /\ v.ids \subseteq Id
        /\ v.claims \subseteq Id \X Nat \X Content
    BY <1>1, <1>2, <1>3 DEF WorldOK
  <2> QED BY <1>1, <1>6, <1>7, <1>8, <2>1, <2>2 DEF WorldOK
<1> QED BY <1>1, <1>4, <1>9 DEF v

LEMMA MadeOK ==
    ASSUME NEW d, TreeOK(d), NEW o, DriveOK(o), Keeps(obj, o),
           NEW k \in SUBSET Content, NEW r \in [Path -> Row], RowsFit(r, o),
           NEW i \in SUBSET Id, NEW g, NEW c \in SUBSET (Id \X Nat \X Content)
    PROVE  WorldOK([disk |-> d, obj |-> o, kept |-> k, rows |-> r, ids |-> i, gone |-> g,
                    claims |-> c])
BY DEF WorldOK

LEMMA DiskRowOK ==
    ASSUME NEW w, WorldOK(w), NEW d, TreeOK(d), NEW p \in Path, NEW x \in Row,
           Fits(w.obj, x.id, p)
    PROVE  /\ WorldOK([w EXCEPT !.disk = d, !.rows[p] = x])
           /\ [w EXCEPT !.disk = d, !.rows[p] = x].obj = w.obj
<1> DEFINE v == [w EXCEPT !.disk = d]
<1>1. WorldOK(v) /\ v.obj = w.obj
  BY DiskOK
<1>2. [w EXCEPT !.disk = d, !.rows[p] = x] = [v EXCEPT !.rows[p] = x]
  BY DEF WorldOK
<1> HIDE DEF v
<1> QED BY <1>1, <1>2, RowOK

LEMMA ParentsChain == ASSUME NEW p \in Path PROVE ChainTo(Parents(p), p)
BY DEF ChainTo
-----------------------------------------------------------------------------
(* Then action by action.                                                  *)
LEMMA MkdirRemoteOK ==
    ASSUME IInv, Roomy, NEW a, Sensible(a, obj), a.kind = "MKDIR_REMOTE"
    PROVE  WorldOK(MkdirRemote(a))
<1>1. a.path \in Path /\ IsDir(a.path)
  BY DEF Sensible, DirKinds
<1> QED BY <1>1, EnsuredOK DEF MkdirRemote, ChainTo

LEMMA MkdirLocalOK ==
    ASSUME IInv, NEW a, Sensible(a, obj), a.kind = "MKDIR_LOCAL"
    PROVE  WorldOK(MkdirLocal(a))
<1>1. a.path \in Path /\ IsDir(a.path) /\ a.r.id \in Id \cup {None} /\ Fits(obj, a.r.id, a.path)
  BY SensibleIs DEF Sensible, DirKinds
<1>2. TreeOK(WithParents([disk EXCEPT ![a.path] = Folder], a.path))
  BY <1>1, NowOK, TreePut, KindOfPath
<1>3. FolderRow(a.r.id) \in Row /\ FolderRow(a.r.id).id = a.r.id
  BY <1>1, FolderRowIs
<1>4. WorldOK(Now) /\ Now.obj = obj
  BY NowOK
<1> QED BY <1>1, <1>2, <1>3, <1>4, DiskRowOK DEF MkdirLocal

LEMMA ObjectChange ==
    ASSUME NEW b \in Object, NEW c \in Content
    PROVE  LET n == [b EXCEPT !.c = c, !.ver = @ + 1]
           IN  n \in Object /\ n.at = b.at /\ n.c = c /\ n.ver = b.ver + 1
<1> DEFINE n == [b EXCEPT !.c = c, !.ver = @ + 1]
<1>1. /\ b = [at |-> b.at, c |-> b.c, ver |-> b.ver]
      /\ b.at \in Path \cup {None, Outside} /\ b.ver \in Nat
  BY DEF Object
<1>2. PICK v \in Nat : v = b.ver + 1
  BY <1>1
<1>3. n = [b EXCEPT !.c = c, !.ver = v]
  BY <1>2
<1>4. n = [at |-> b.at, c |-> c, ver |-> v]
  <2> DEFINE m == [b EXCEPT !.c = c]
  <2>1. n = [m EXCEPT !.ver = v]
    BY <1>3
  <2>2. m = [at |-> b.at, c |-> c, ver |-> b.ver]
    BY <1>1
  <2> HIDE DEF m, n
  <2> QED BY <2>1, <2>2
<1> HIDE DEF n
<1>5. n \in Object /\ n.at = b.at /\ n.c = c /\ n.ver = b.ver + 1
  BY <1>1, <1>2, <1>4 DEF Object
<1> QED BY <1>5 DEF n

(* What an upload sends is a new object or a new version of the one there. *)
LEMMA UploadIs ==
    ASSUME IInv, Roomy, NEW a, Sensible(a, obj), a.kind \in {"UPLOAD_NEW", "UPLOAD_VERSION"}
    PROVE  LET w == Ensured(Parents(a.path))
           IN  \/ Upload(a) \in {Failed(a, w), Kept(a, "pending_upload", w)}
               \/ \E i \in Id : \E x \in Object :
                     /\ Upload(a) = Sent(a, w, i, x) /\ DriveOK([w.obj EXCEPT ![i] = x])
                     /\ x.at = a.path /\ x.c = disk[a.path] /\ x.c \in Content
                     /\ \A q \in Path : w.obj[i].c \in Holds(q) => x.c \in Holds(q)
                     /\ w.obj[i].ver < x.ver
<1> DEFINE p == a.path
           w == Ensured(Parents(p))
           i == CHOOSE i \in Id : obj[i].at = p
           j == NewId(w.obj)
           x == Placed(p, disk[p])
           y == [obj[i] EXCEPT !.c = disk[p], !.ver = @ + 1]
<1>1. p \in Path /\ ~IsDir(p) /\ Holds(p) = Content
  BY SensibleIs, KindOfPath DEF Sensible, OfFiles
<1>2. WorldOK(w) /\ w.obj = Folders(Parents(p))
  BY <1>1, EnsuredOK, EnsuredIs, ParentsChain
<1>3. DriveOK(obj) /\ TreeOK(disk)
  BY NowOK
<1>4. /\ \A k \in Id : \/ w.obj[k] = obj[k]
                       \/ /\ obj[k] = Unused
                          /\ \E q \in Missing(Parents(p)) : k = IdFor(Parents(p), q)
      /\ \A q \in Missing(Parents(p)) : w.obj[IdFor(Parents(p), q)] = Placed(q, Folder)
      /\ \A k \in Id : obj[k].at \in Path => w.obj[k] = obj[k]
      /\ \A q \in Parents(p) : IdFor(Parents(p), q) \in Id /\ w.obj[IdFor(Parents(p), q)].at = q
      /\ NewIds(w.obj) # {}
  BY <1>1, <1>2, <1>3, FoldersAre, ParentsChain
<1>5. /\ disk[p] # None => disk[p] \in Holds(p)
  BY <1>1, <1>3 DEF TreeOK
<1> DEFINE Fresh(k, z) == /\ k \in Id /\ z \in Object /\ DriveOK([w.obj EXCEPT ![k] = z])
                          /\ z.at = p /\ z.c = disk[p] /\ z.c \in Content
                          /\ \A q \in Path : w.obj[k].c \in Holds(q) => z.c \in Holds(q)
                          /\ w.obj[k].ver < z.ver
<1> HIDE DEF w
<1>8. ASSUME Free(p), disk[p] # None
      PROVE  Fresh(j, x)
  <2>1. j \in Id /\ w.obj[j] = Unused
    <3>1. NewIds(w.obj) \in SUBSET Nat /\ IsFiniteSet(NewIds(w.obj))
      BY NewIdsFinite
    <3>2. \E k \in NewIds(w.obj) : \A l \in NewIds(w.obj) : k <= l
      BY <1>4, <3>1, Least
    <3> QED BY <3>2 DEF NewId, NewIds
  <2>2. x \in Object /\ x.at = p /\ x.c = disk[p] /\ x.ver = 1
    BY <1>1, <1>5, <1>8, PlacedIs
  <2>3. ASSUME NEW k \in Id PROVE w.obj[k].at # p
    <3>1. CASE w.obj[k] = obj[k]
      BY <1>1, <1>3, <1>8, <3>1, AtPath
    <3>2. CASE \E q \in Missing(Parents(p)) : k = IdFor(Parents(p), q)
      <4>1. PICK q \in Missing(Parents(p)) : k = IdFor(Parents(p), q)
        BY <3>2
      <4>2. w.obj[k] = Placed(q, Folder)
        BY <1>4, <4>1
      <4>3. w.obj[k].at = q /\ Under(p, q)
        BY <4>2 DEF Placed, Missing, Parents
      <4> QED BY <4>3, UnderIs
    <3> QED BY <1>4, <3>1, <3>2
  <2>4. \A q \in Path : Under(p, q) => \E k \in Id : w.obj[k].at = q
    BY <1>4 DEF Parents
  <2>5. w.obj[j].at \notin Path /\ w.obj[j].c = None /\ w.obj[j].ver = 0
    BY <2>1, Nowhere DEF Unused
  <2> HIDE DEF x, j
  <2>6. DriveOK([w.obj EXCEPT ![j] = x])
    BY <1>1, <1>2, <1>5, <1>8, <2>1, <2>2, <2>3, <2>4, <2>5, DrivePlace DEF WorldOK
  <2>7. \A q \in Path : w.obj[j].c \in Holds(q) => x.c \in Holds(q)
    BY <2>5, KindOfPath
  <2>8. w.obj[j].ver < x.ver /\ x.c \in Content
    BY <1>1, <1>5, <1>8, <2>2, <2>5
  <2> QED BY <2>1, <2>2, <2>6, <2>7, <2>8
<1>9. ASSUME ~Free(p), disk[p] # None
      PROVE  Fresh(i, y)
  <2>1. i \in Id /\ obj[i].at = p
    BY <1>1, <1>3, <1>9, AtPath
  <2>2. w.obj[i] = obj[i] /\ obj[i] \in Object /\ obj[i].c \in Holds(p)
    BY <1>1, <1>3, <1>4, <2>1, ObjectType
  <2> HIDE DEF i
  <2>3. y \in Object /\ y.at = p /\ y.c = disk[p] /\ y.ver = obj[i].ver + 1
    <3>1. disk[p] \in Content
      BY <1>1, <1>5, <1>9
    <3> QED BY <2>1, <2>2, <3>1, ObjectChange
  <2> HIDE DEF y
  <2>4. DriveOK([w.obj EXCEPT ![i] = y])
    BY <1>1, <1>2, <1>5, <1>9, <2>1, <2>2, <2>3, DriveSame DEF WorldOK
  <2>5. \A q \in Path : w.obj[i].c \in Holds(q) => y.c \in Holds(q)
    BY <1>1, <1>5, <1>9, <2>2, <2>3, KindOfPath, ContentAssumption
  <2>6. w.obj[i].ver < y.ver
    BY <2>2, <2>3 DEF Object
  <2> QED BY <1>1, <1>5, <1>9, <2>1, <2>3, <2>4, <2>5, <2>6
<1>10. Upload(a) \in {Failed(a, w), Kept(a, "pending_upload", w)}
       \/ (Free(p) /\ disk[p] # None /\ Upload(a) = Sent(a, w, j, x))
       \/ (~Free(p) /\ disk[p] # None /\ Upload(a) = Sent(a, w, i, y))
  BY DEF Upload, w
<1> HIDE DEF i, j, x, y
<1>11. \/ Upload(a) \in {Failed(a, w), Kept(a, "pending_upload", w)}
       \/ \E k \in Id : \E z \in Object : Upload(a) = Sent(a, w, k, z) /\ Fresh(k, z)
  BY <1>8, <1>9, <1>10
<1> QED BY <1>11 DEF w

LEMMA UploadOK ==
    ASSUME IInv, Roomy, NEW a, Sensible(a, obj), a.kind \in {"UPLOAD_NEW", "UPLOAD_VERSION"}
    PROVE  /\ WorldOK(Upload(a))
           /\ Keeps(Ensured(Parents(a.path)).obj, Upload(a).obj)
<1> DEFINE w == Ensured(Parents(a.path))
<1>1. a.path \in Path /\ ~IsDir(a.path) /\ Holds(a.path) = Content
  BY SensibleIs, KindOfPath DEF Sensible, OfFiles
<1>2. WorldOK(w)
  BY <1>1, EnsuredOK, ParentsChain
<1>3. \/ Upload(a) \in {Failed(a, w), Kept(a, "pending_upload", w)}
      \/ \E i \in Id : \E x \in Object :
            /\ Upload(a) = Sent(a, w, i, x) /\ DriveOK([w.obj EXCEPT ![i] = x])
            /\ x.at = a.path /\ x.c = disk[a.path] /\ x.c \in Content
            /\ \A q \in Path : w.obj[i].c \in Holds(q) => x.c \in Holds(q)
            /\ w.obj[i].ver < x.ver
  BY UploadIs
<1> HIDE DEF w
<1>4. WorldOK(Failed(a, w)) /\ Failed(a, w).obj = w.obj
  BY <1>2, FailedOK
<1>5. WorldOK(Kept(a, "pending_upload", w)) /\ Kept(a, "pending_upload", w).obj = w.obj
  BY <1>1, <1>2, KeptOK DEF Status
<1>6. WorldOK(Upload(a)) /\ Keeps(w.obj, Upload(a).obj)
  BY <1>1, <1>2, <1>3, <1>4, <1>5, SentOK, KeepsSelf
<1> QED BY <1>6 DEF w

LEMMA ReceivedOK ==
    ASSUME NEW a, Sensible(a, obj), a.kind \in Receives, NEW w, WorldOK(w)
    PROVE  WorldOK(Received(a, w)) /\ Received(a, w).obj = w.obj
<1> DEFINE d == WithParents([w.disk EXCEPT ![a.path] = a.r.c], a.path)
           x == [id |-> a.r.id, lc |-> a.r.c, ver |-> a.r.ver, rc |-> a.r.c, st |-> "synced"]
<1>1. /\ a.path \in Path /\ a.r.c \in Holds(a.path) /\ Holds(a.path) = Content
      /\ a.r.id \in Id \cup {None} /\ a.r.ver \in Nat \cup {None}
  <2>1. a.r.c \in Holds(a.path)
    BY DEF Sensible
  <2> QED BY <2>1, SensibleIs, KindOfPath DEF Sensible, OfFiles
<1>2. TreeOK(d)
  BY <1>1, TreePut DEF WorldOK
<1>3. x \in Row /\ x.id = a.r.id
  BY <1>1 DEF Row, Status
<1>4. Fits(w.obj, a.r.id, a.path)
  BY <1>1, FitsOn DEF WorldOK, Sensible
<1>5. Received(a, w) \in {Failed(a, w), [w EXCEPT !.disk = d, !.rows[a.path] = x]}
  BY DEF Received
<1> HIDE DEF d, x
<1>6. WorldOK(Failed(a, w)) /\ Failed(a, w).obj = w.obj
  BY FailedOK
<1>7. /\ WorldOK([w EXCEPT !.disk = d, !.rows[a.path] = x])
      /\ [w EXCEPT !.disk = d, !.rows[a.path] = x].obj = w.obj
  <2>1. a.path \in Path /\ x \in Row /\ Fits(w.obj, x.id, a.path)
    BY <1>1, <1>3, <1>4
  <2> QED BY <1>2, <2>1, DiskRowOK
<1> QED BY <1>5, <1>6, <1>7

LEMMA DownloadOK ==
    ASSUME IInv, NEW a, Sensible(a, obj), a.kind \in {"DOWNLOAD_NEW", "DOWNLOAD_UPDATE"}
    PROVE  WorldOK(Download(a))
<1>1. a.kind \in Receives /\ a.path \in Path
  BY DEF Receives, Sensible
<1> QED BY <1>1, NowOK, ReceivedOK, ProtectedOK DEF Download

LEMMA SetAsideOK ==
    ASSUME IInv, NEW a, Sensible(a, obj), a.kind = "CONFLICT"
    PROVE  WorldOK(SetAside(a)) /\ SetAside(a).obj = obj /\ SetAside(a).rows = rows
<1> DEFINE d == [disk EXCEPT ![a.path] = None]
<1>1. a.path \in Path /\ ~IsDir(a.path) /\ a.e \in Content
  BY SensibleIs DEF Sensible, OfFiles, Receives
<1>2. TreeOK(d)
  BY <1>1, NowOK, TreeLess
<1>3. SetAside(a) = [disk |-> d, obj |-> obj, kept |-> kept \cup {a.e}, rows |-> rows,
                     ids |-> {}, gone |-> {}, claims |-> {}]
  <2>1. SetAside(a) = [Now EXCEPT !.disk = d, !.kept = kept \cup {a.e}]
    BY DEF SetAside, Now
  <2> HIDE DEF d
  <2> QED BY <2>1 DEF Now
<1>4. kept \cup {a.e} \in SUBSET Content
  BY <1>1 DEF IInv, TypeOK
<1> HIDE DEF d
<1>5. WorldOK([disk |-> d, obj |-> obj, kept |-> kept \cup {a.e}, rows |-> rows,
               ids |-> {}, gone |-> {}, claims |-> {}])
  BY <1>2, <1>4, NowOK, KeepsSelf, MadeOK
<1> QED BY <1>3, <1>5

LEMMA ConflictOK ==
    ASSUME IInv, NEW a, Sensible(a, obj), a.kind = "CONFLICT" PROVE WorldOK(Conflict(a))
<1>1. a.kind \in Receives /\ a.path \in Path
  BY DEF Receives, Sensible
<1> QED BY <1>1, SetAsideOK, ReceivedOK, ProtectedOK DEF Conflict

(* A file's record goes with it.                                           *)
LEMMA MovedRowIs ==
    ASSUME IInv, NEW a, Sensible(a, obj), ~IsDir(a.path)
    PROVE  MovedRow(a) \in Row /\ MovedRow(a).id = a.r.id
<1>1. /\ rows[a.path] \in Row /\ a.r.id \in Id \cup {None} /\ a.r.ver \in Nat \cup {None}
      /\ a.r.c \in Content \cup {None}
  BY SensibleIs DEF IInv, TypeOK
<1> DEFINE w == rows[a.path]
           x == [w EXCEPT !.id = a.r.id, !.st = "pending_download"]
           y == [id |-> a.r.id, lc |-> w.lc, ver |-> a.r.ver, rc |-> a.r.c, st |-> "synced"]
<1>2. MovedRow(a) \in {x, y}
  BY DEF MovedRow
<1>3. x \in Row /\ x.id = a.r.id
  BY <1>1 DEF Row, Status
<1>4. y \in Row /\ y.id = a.r.id
  BY <1>1 DEF Row, Status
<1> QED BY <1>2, <1>3, <1>4

(* The rows of a tree go with it.                                          *)
LEMMA RowsMoved ==
    ASSUME rows \in [Path -> Row], NEW p \in Path, NEW q \in Path, IsDir(p) <=> IsDir(q)
    PROVE  /\ RowsShifted(p, q) = [x \in Path |-> RowsShifted(p, q)[x]]
           /\ \A x \in Path :
                 \/ /\ Within(x, q) /\ Image(x, q, p) \in Path
                    /\ rows[Image(x, q, p)].st # "none"
                    /\ RowsShifted(p, q)[x] = rows[Image(x, q, p)]
                    /\ IsDir(Image(x, q, p)) <=> IsDir(x)
                 \/ Within(x, p) /\ RowsShifted(p, q)[x] = Unlisted
                 \/ ~Within(x, p) /\ RowsShifted(p, q)[x] = rows[x]
<1> DEFINE s == RowsShifted(p, q)
<1>1. s = [x \in Path |->
             IF Within(x, q) /\ Image(x, q, p) \in Path /\ rows[Image(x, q, p)].st # "none"
             THEN rows[Image(x, q, p)] ELSE IF Within(x, p) THEN Unlisted ELSE rows[x]]
  BY DEF RowsShifted
<1> HIDE DEF s
<1>2. \A x \in Path : Within(x, q) /\ Image(x, q, p) \in Path =>
         (IsDir(Image(x, q, p)) <=> IsDir(x))
  BY ImageThere, ImageOfRoot
<1>3. \A x \in Path : s[x] =
         IF Within(x, q) /\ Image(x, q, p) \in Path /\ rows[Image(x, q, p)].st # "none"
         THEN rows[Image(x, q, p)] ELSE IF Within(x, p) THEN Unlisted ELSE rows[x]
  BY <1>1
<1>4. s = [x \in Path |-> s[x]]
  BY <1>1
<1> QED BY <1>2, <1>3, <1>4 DEF s

LEMMA RowsMovedFit ==
    ASSUME rows \in [Path -> Row], NEW o, RowsFit(rows, o), NEW p \in Path, NEW q \in Path,
           IsDir(p) <=> IsDir(q)
    PROVE  RowsShifted(p, q) \in [Path -> Row] /\ RowsFit(RowsShifted(p, q), o)
<1> DEFINE s == RowsShifted(p, q)
<1>1. Unlisted \in Row /\ Unlisted.id = None
  BY DEF Unlisted, Row, Status
<1>2. ASSUME NEW x \in Path PROVE s[x] \in Row /\ Fits(o, s[x].id, x)
  <2>1. CASE /\ Image(x, q, p) \in Path /\ s[x] = rows[Image(x, q, p)]
             /\ IsDir(Image(x, q, p)) <=> IsDir(x)
    <3>1. Fits(o, rows[Image(x, q, p)].id, Image(x, q, p))
      BY <2>1 DEF RowsFit
    <3> HIDE DEF s
    <3> QED BY <2>1, <3>1 DEF Fits, Holds
  <2>2. CASE s[x] = Unlisted \/ s[x] = rows[x]
    BY <1>1, <2>2 DEF RowsFit, Fits
  <2> QED BY <2>1, <2>2, RowsMoved
<1> QED BY <1>2, RowsMoved DEF RowsFit

LEMMA LocalMoveOK ==
    ASSUME IInv, NEW a, Sensible(a, obj) PROVE WorldOK(LocalMove(a))
<1> DEFINE p == a.path
           q == a.to
           d == Relocated(p, q)
           w == [Now EXCEPT !.disk = d]
           v == [Now EXCEPT !.disk = WithParents(disk, q)]
           r == RowsShifted(p, q)
           x == IF IsDir(q) THEN FolderRow(a.r.id) ELSE MovedRow(a)
           s == [r EXCEPT ![q] = x]
<1>1. /\ p \in Path /\ q \in Path /\ (IsDir(p) <=> IsDir(q)) /\ a.r.id \in Id \cup {None}
      /\ Holds(p) = Holds(q)
  BY SensibleIs
<1>2. TreeOK(d) /\ TreeOK(WithParents(disk, q))
  BY <1>1, NowOK, TreeMoved, TreeWithParents DEF Relocated
<1>3. r \in [Path -> Row] /\ RowsFit(r, obj)
  BY <1>1, NowOK, RowsMovedFit
<1>4. x \in Row /\ x.id = a.r.id
  BY <1>1, FolderRowIs, MovedRowIs
<1>5. Fits(obj, a.r.id, q)
  BY <1>1 DEF Sensible, Fits
<1>6. WorldOK(w) /\ WorldOK(v) /\ w.obj = obj
  BY <1>2, NowOK, DiskOK
<1>7. WorldOK([w EXCEPT !.rows = s])
  <2> HIDE DEF d, r, x
  <2>1. s \in [Path -> Row] /\ RowsFit(s, obj)
    BY <1>1, <1>3, <1>4, <1>5 DEF RowsFit
  <2> HIDE DEF s
  <2>2. [w EXCEPT !.rows = s] = [disk |-> d, obj |-> obj, kept |-> kept, rows |-> s,
                                 ids |-> {}, gone |-> {}, claims |-> {}]
    <3>1. w = [disk |-> d, obj |-> obj, kept |-> kept, rows |-> rows,
               ids |-> {}, gone |-> {}, claims |-> {}]
      BY DEF Now
    <3> HIDE DEF w
    <3> QED BY <3>1
  <2>3. kept \in SUBSET Content
    BY DEF IInv, TypeOK
  <2>4. WorldOK([disk |-> d, obj |-> obj, kept |-> kept, rows |-> s,
                 ids |-> {}, gone |-> {}, claims |-> {}])
    BY <1>2, <2>1, <2>3, NowOK, KeepsSelf, MadeOK
  <2> QED BY <2>2, <2>4
<1>8. LocalMove(a) \in {Protected(a), Failed(a, v), Failed(a, w), [w EXCEPT !.rows = s]}
  BY DEF LocalMove
<1> HIDE DEF w, v, s
<1> QED BY <1>1, <1>6, <1>7, <1>8, FailedOK, ProtectedOK

(* A new name or a new folder for a file: the folders above its new path   *)
(* are those of one of the two that it is made from.                       *)
LEMMA LandingAbove ==
    ASSUME NEW p \in FilePath, NEW q \in FilePath, NEW y \in Path,
           Under(Front(p) \o <<Last(q)>>, y)
    PROVE  Under(p, y)
<1> DEFINE n == Front(p) \o <<Last(q)>>
           m == Len(p) - 1
<1>1. p \in Path /\ n \in FilePath /\ n \in Path
  BY PathAssumption, PathKinds
<1>2. /\ p \in Seq(Names) /\ n \in Seq(Names) /\ y \in Seq(Names)
      /\ Len(p) \in Nat \ {0} /\ Len(n) \in Nat /\ Len(y) \in Nat
  BY <1>1, PathType
<1>3. m \in Nat /\ m <= Len(p)
  BY <1>2
<1>4. \A k \in 1 .. m : p[k] \in Names
  BY <1>2, <1>3, ElementOfSeq
<1>5. /\ Front(p) \in Seq(Names) /\ Len(Front(p)) = m
      /\ \A k \in 1 .. m : Front(p)[k] = p[k]
  <2>1. /\ SubSeq(p, 1, m) \in Seq(Names)
        /\ Len(SubSeq(p, 1, m)) = IF 1 <= m THEN m - 1 + 1 ELSE 0
        /\ \A k \in 1 .. m - 1 + 1 : SubSeq(p, 1, m)[k] = p[1 + k - 1]
    BY <1>2, <1>3, <1>4, SubSeqProperties
  <2>2. Front(p) = SubSeq(p, 1, m)
    BY DEF Front
  <2>3. m - 1 + 1 = m /\ (1 <= m \/ m = 0) /\ \A k \in 1 .. m : 1 + k - 1 = k
    <3> HIDE DEF m
    <3> QED BY <1>3
  <2> HIDE DEF m
  <2> QED BY <2>1, <2>2, <2>3
<1>6. <<Last(q)>> \in Seq({Last(q)}) /\ Len(<<Last(q)>>) = 1
  OBVIOUS
<1>7. /\ Len(n) = m + 1
      /\ \A k \in 1 .. m + 1 : n[k] = IF k <= m THEN Front(p)[k] ELSE <<Last(q)>>[k - m]
  <2>1. /\ Front(p) \in Seq(Names \cup {Last(q)})
        /\ <<Last(q)>> \in Seq(Names \cup {Last(q)})
    BY <1>5, <1>6, SeqMonotonic
  <2> QED BY <1>5, <1>6, <2>1, ConcatProperties
<1> HIDE DEF n
<1>8. Within(n, y) /\ n # y
  BY UnderIs DEF n
<1>9. Len(y) <= Len(n) /\ \A k \in 1 .. Len(y) : n[k] = y[k]
  BY <1>2, <1>8, WithinIs
<1>10. Len(y) # Len(n)
  <2>1. Len(y) = Len(n) => y = n
    BY <1>2, <1>9, SeqEqual
  <2> QED BY <1>8, <2>1
<1>11. Len(y) <= m /\ Len(y) <= Len(p) /\ Len(y) # Len(p)
  BY <1>2, <1>3, <1>7, <1>9, <1>10
<1>12. ASSUME NEW k \in 1 .. Len(y) PROVE p[k] = y[k]
  <2>1. k \in 1 .. m /\ k \in 1 .. m + 1 /\ k <= m
    BY <1>2, <1>3, <1>11
  <2> QED BY <1>5, <1>7, <1>9, <2>1
<1>13. Within(p, y)
  BY <1>2, <1>11, <1>12, WithinIs
<1> QED BY <1>11, <1>13, UnderIs

LEMMA LandingIs ==
    ASSUME NEW a, a.path \in FilePath, a.to \in FilePath, obj[a.id].at \in FilePath
    PROVE  /\ Landing(a) \in FilePath
           /\ \A y \in Path : Under(Landing(a), y) => Under(obj[a.id].at, y) \/ Under(a.to, y)
<1> DEFINE at == obj[a.id].at
           n == Landing(a)
<1> DEFINE x == IF Front(a.to) = Front(a.path) THEN at ELSE a.to
           y == IF Last(a.to) = Last(a.path) THEN at ELSE a.to
<1>1. n = (IF Front(a.to) = Front(a.path) THEN Front(at) ELSE Front(a.to))
             \o <<IF Last(a.to) = Last(a.path) THEN Last(at) ELSE Last(a.to)>>
  BY DEF Landing
<1>2. n = Front(x) \o <<Last(y)>>
  <2>1. Front(x) = IF Front(a.to) = Front(a.path) THEN Front(at) ELSE Front(a.to)
    OBVIOUS
  <2>2. Last(y) = IF Last(a.to) = Last(a.path) THEN Last(at) ELSE Last(a.to)
    OBVIOUS
  <2> HIDE DEF n, x, y
  <2> QED BY <1>1, <2>1, <2>2
<1> HIDE DEF n
<1>3. x \in {at, a.to} /\ x \in FilePath /\ y \in FilePath
  OBVIOUS
<1> HIDE DEF x, y
<1>4. n \in FilePath
  BY <1>2, <1>3, PathAssumption
<1>5. \A z \in Path : Under(n, z) => Under(x, z)
  BY <1>2, <1>3, LandingAbove
<1> HIDE DEF at
<1>6. \A z \in Path : Under(n, z) => Under(at, z) \/ Under(a.to, z)
  BY <1>3, <1>5
<1> QED BY <1>4, <1>6 DEF n, at

LEMMA ObjectPut ==
    ASSUME NEW b \in Object, NEW p \in Path
    PROVE  LET n == [b EXCEPT !.at = p] IN n \in Object /\ n.at = p /\ n.c = b.c
BY DEF Object

LEMMA RemoteMoveToOK ==
    ASSUME IInv, Roomy, NEW a, Sensible(a, obj), a.kind = "REMOTE_MOVE"
    PROVE  /\ WorldOK(RemoteMoveTo(a))
           /\ Keeps(Ensured(Parents(a.to)).obj, RemoteMoveTo(a).obj)
<1> DEFINE p == a.path
           q == a.to
           S == Parents(q)
           w == Ensured(S)
           L == Landing(a)
           b == obj[a.id]
           x == [b EXCEPT !.at = L]
           v == [w EXCEPT !.obj[a.id].at = L, !.ids = @ \cup {a.id}]
           r == [w.rows EXCEPT ![p] = Unlisted]
           u == [rows[p] EXCEPT !.id = a.id, !.lc = a.e, !.st = "synced"]
           s == [r EXCEPT ![q] = u]
           n == [w.obj EXCEPT ![a.id] = x]
<1>1. /\ p \in FilePath /\ q \in FilePath /\ p \in Path /\ q \in Path /\ a.id \in Id
      /\ Holds(p) = Content /\ Holds(q) = Content /\ a.e \in Content \cup {None}
      /\ b.c \in Content
  <2>1. ~IsDir(p) /\ a.id # None
    BY DEF Sensible, OfFiles
  <2>2. p \in Path /\ q \in Path /\ ~IsDir(q) /\ a.id \in Id /\ a.e \in Content \cup {None}
    BY <2>1, SensibleIs
  <2>3. Holds(p) = Content /\ Holds(q) = Content /\ p \in FilePath /\ q \in FilePath
    BY <2>1, <2>2, KindOfPath
  <2>4. b.c \in Holds(p)
    BY <2>1 DEF Sensible, Fits
  <2> QED BY <2>2, <2>3, <2>4
<1>2. WorldOK(w) /\ w.obj = Folders(S)
  BY <1>1, EnsuredOK, EnsuredIs, ParentsChain
<1>3. DriveOK(obj)
  BY NowOK
<1>4. /\ \A k \in Id : \/ w.obj[k] = obj[k]
                       \/ /\ obj[k] = Unused
                          /\ \E y \in Missing(S) : k = IdFor(S, y)
      /\ \A y \in Missing(S) : w.obj[IdFor(S, y)] = Placed(y, Folder)
      /\ \A k \in Id : obj[k].at \in Path => w.obj[k] = obj[k]
      /\ \A y \in S : IdFor(S, y) \in Id /\ w.obj[IdFor(S, y)].at = y
  BY <1>1, <1>2, <1>3, FoldersAre, ParentsChain
<1>5. WorldOK(Failed(a, w)) /\ Failed(a, w).obj = w.obj
  BY <1>2, FailedOK
<1> HIDE DEF w
<1>6. ASSUME b.at \in Path, L = b.at \/ Free(L)
      PROVE  /\ WorldOK(v) /\ v.obj = n /\ Keeps(w.obj, n) /\ v.rows = w.rows
             /\ v = [disk |-> v.disk, obj |-> v.obj, kept |-> v.kept, rows |-> v.rows,
                     ids |-> v.ids, gone |-> v.gone, claims |-> v.claims]
  <2>1. b.at \in FilePath
    BY <1>1, <1>3, <1>6, ObjectType, KindOfPath, ContentAssumption
  <2>2. L \in FilePath /\ L \in Path /\ ~IsDir(L) /\ Holds(L) = Content
    BY <1>1, <2>1, LandingIs, KindOfPath
  <2>3. \A y \in Path : Under(L, y) => Under(b.at, y) \/ Under(q, y)
    BY <1>1, <2>1, LandingIs
  <2>4. w.obj[a.id] = b /\ b \in Object
    BY <1>1, <1>3, <1>4, <1>6, ObjectType
  <2> HIDE DEF L, b
  <2>5. x \in Object /\ x.at = L /\ x.c = b.c
    BY <2>2, <2>4, ObjectPut
  <2>6. ASSUME NEW y \in Path, Under(L, y) PROVE \E k \in Id : w.obj[k].at = y
    <3>1. CASE Under(b.at, y)
      <4>1. w.obj[a.id].at \in Path /\ Within(w.obj[a.id].at, y)
        BY <1>6, <2>4, <3>1, UnderIs
      <4> QED BY <1>1, <1>2, <4>1 DEF WorldOK, DriveOK
    <3>2. CASE Under(q, y)
      <4>1. y \in S
        BY <3>2 DEF Parents
      <4> QED BY <1>4, <4>1
    <3> QED BY <2>3, <2>6, <3>1, <3>2
  <2>7. ASSUME L # b.at, NEW k \in Id PROVE w.obj[k].at # L
    <3>1. CASE w.obj[k] = obj[k]
      BY <1>3, <1>6, <2>2, <2>7, <3>1, AtPath
    <3>2. CASE \E y \in Missing(S) : k = IdFor(S, y)
      <4>1. PICK y \in Missing(S) : k = IdFor(S, y)
        BY <3>2
      <4>2. w.obj[k] = Placed(y, Folder)
        BY <1>4, <4>1
      <4>3. w.obj[k].at = y /\ Under(q, y) /\ y \in Path
        BY <4>2 DEF Placed, Missing, Parents
      <4> QED BY <1>1, <2>2, <4>3, FoldersAbove
    <3> QED BY <1>4, <3>1, <3>2
  <2> HIDE DEF x
  <2>8. DriveOK(n)
    <3>1. CASE L = b.at
      <4>1. w.obj[a.id].at \in Path /\ x.at = w.obj[a.id].at /\ x.c \in Holds(x.at)
        BY <1>1, <2>2, <2>4, <2>5, <3>1
      <4> QED BY <1>1, <1>2, <2>5, <4>1, DriveSame DEF WorldOK
    <3>2. CASE L # b.at
      <4>1. w.obj[a.id].at = b.at /\ ~IsDir(b.at) /\ x.c \in Holds(x.at)
        BY <1>1, <2>1, <2>2, <2>4, <2>5, KindOfPath
      <4>2. \A k \in Id : w.obj[k].at # x.at
        BY <2>5, <2>7, <3>2
      <4>3. \A y \in Path : Under(x.at, y) => \E k \in Id : w.obj[k].at = y
        BY <2>5, <2>6
      <4> QED BY <1>1, <1>2, <2>2, <2>5, <4>1, <4>2, <4>3, DrivePlace DEF WorldOK
    <3> QED BY <3>1, <3>2
  <2>9. \A k \in Id : n[k].c = w.obj[k].c
    BY <1>2, <2>4, <2>5 DEF WorldOK, DriveOK
  <2>10. v = [disk |-> w.disk, obj |-> n, kept |-> w.kept, rows |-> w.rows,
              ids |-> w.ids \cup {a.id}, gone |-> w.gone, claims |-> w.claims]
    <3> DEFINE m == [w.obj EXCEPT ![a.id].at = L]
    <3>1. m = n
      BY <1>2, <2>4 DEF WorldOK, DriveOK, x
    <3>2. v = [w EXCEPT !.obj = m, !.ids = w.ids \cup {a.id}]
      OBVIOUS
    <3>3. w = [disk |-> w.disk, obj |-> w.obj, kept |-> w.kept, rows |-> w.rows,
               ids |-> w.ids, gone |-> w.gone, claims |-> w.claims]
      BY <1>2 DEF WorldOK
    <3> HIDE DEF m, n, v
    <3> QED BY <3>1, <3>2, <3>3
  <2>11. Keeps(w.obj, n)
    BY <2>9 DEF Keeps
  <2>12. RowsFit(w.rows, n) /\ Keeps(obj, n)
    BY <1>2, <2>11, KeepsOn, FitsOn DEF WorldOK, RowsFit
  <2>13. w.ids \cup {a.id} \in SUBSET Id
    BY <1>1, <1>2 DEF WorldOK
  <2> HIDE DEF n, v
  <2>14. WorldOK(v)
    BY <1>2, <2>8, <2>10, <2>12, <2>13 DEF WorldOK
  <2> QED BY <2>10, <2>11, <2>14
<1>7. ASSUME b.at \in Path, L = b.at \/ Free(L)
      PROVE  WorldOK([v EXCEPT !.rows = s]) /\ [v EXCEPT !.rows = s].obj = n
  <2>1. Unlisted \in Row /\ Unlisted.id = None
    BY DEF Unlisted, Row, Status
  <2>2. u \in Row /\ u.id = a.id
    <3>1. rows[p] \in Row
      BY <1>1 DEF IInv, TypeOK
    <3> QED BY <1>1, <3>1 DEF Row, Status
  <2>3. Fits(n, a.id, q)
    <3>1. w.obj[a.id].c = b.c
      BY <1>1, <1>4, <1>7
    <3>2. b.c \in Holds(q)
      BY <1>1
    <3>3. Keeps(w.obj, n)
      BY <1>6, <1>7
    <3> HIDE DEF n, b
    <3>4. n[a.id].c \in Holds(q)
      BY <1>1, <3>1, <3>2, <3>3 DEF Keeps
    <3> QED BY <1>1, <3>4 DEF Fits
  <2>4. RowsFit(w.rows, n) /\ w.rows \in [Path -> Row]
    <3>1. Keeps(w.obj, n)
      BY <1>6, <1>7
    <3> HIDE DEF n
    <3> QED BY <1>2, <3>1, FitsOn DEF WorldOK, RowsFit
  <2> HIDE DEF n, u
  <2>5. s \in [Path -> Row] /\ RowsFit(s, n)
    BY <1>1, <2>1, <2>2, <2>3, <2>4 DEF RowsFit, Fits
  <2> HIDE DEF s, v
  <2>6. /\ WorldOK(v) /\ v.obj = n
        /\ v = [disk |-> v.disk, obj |-> v.obj, kept |-> v.kept, rows |-> v.rows,
                ids |-> v.ids, gone |-> v.gone, claims |-> v.claims]
    BY <1>6, <1>7
  <2>7. [v EXCEPT !.rows = s] = [disk |-> v.disk, obj |-> n, kept |-> v.kept, rows |-> s,
                                 ids |-> v.ids, gone |-> v.gone, claims |-> v.claims]
    BY <2>6
  <2>8. WorldOK([disk |-> v.disk, obj |-> n, kept |-> v.kept, rows |-> s,
                 ids |-> v.ids, gone |-> v.gone, claims |-> v.claims])
    BY <2>5, <2>6, MadeOK DEF WorldOK
  <2> QED BY <2>7, <2>8
<1>8. \/ RemoteMoveTo(a) = Failed(a, w)
      \/ /\ b.at \in Path /\ (L = b.at \/ Free(L))
         /\ RemoteMoveTo(a) \in {Failed(a, v), [v EXCEPT !.rows = s]}
  BY DEF RemoteMoveTo, w
<1>9. ASSUME b.at \in Path, L = b.at \/ Free(L)
      PROVE  WorldOK(Failed(a, v)) /\ Failed(a, v).obj = n
  <2> HIDE DEF v, n
  <2>1. WorldOK(v) /\ v.obj = n
    BY <1>6, <1>9
  <2> QED BY <2>1, FailedOK
<1>10. WorldOK(RemoteMoveTo(a)) /\ Keeps(w.obj, RemoteMoveTo(a).obj)
  <2> HIDE DEF v, s, n, L, b
  <2> QED BY <1>5, <1>6, <1>7, <1>8, <1>9, KeepsSelf
<1> QED BY <1>10 DEF w

LEMMA ForgottenOK ==
    ASSUME IInv, NEW p \in Path, NEW o, Keeps(obj, o)
    PROVE  Forgotten(p) \in [Path -> Row] /\ RowsFit(Forgotten(p), o)
<1>1. Unlisted \in Row /\ Unlisted.id = None
  BY DEF Unlisted, Row, Status
<1>2. rows \in [Path -> Row] /\ RowsFit(rows, o)
  BY NowOK, FitsOn DEF RowsFit
<1> QED BY <1>1, <1>2 DEF Forgotten, RowsFit, Fits

(* What an action that trashes makes of the world, field by field.         *)
Binned(p) == {<<"disk", x>> : x \in {x \in LocalTree(p) : snap[x] # None}}

LEMMA LocalTrashIs ==
    ASSUME NEW a
    PROVE  LocalTrash(a) =
               IF ChangedSince(a) THEN Protected(a)
               ELSE [disk |-> Without(a.path), obj |-> obj, kept |-> kept,
                     rows |-> Forgotten(a.path), ids |-> {}, gone |-> Binned(a.path),
                     claims |-> {}]
<1> DEFINE d == Without(a.path)
           r == Forgotten(a.path)
           g == Binned(a.path)
           u == [Now EXCEPT !.disk = d]
           t == [u EXCEPT !.rows = r]
<1>1. LocalTrash(a) = IF ChangedSince(a) THEN Protected(a) ELSE [t EXCEPT !.gone = g]
  BY DEF LocalTrash, Binned
<1> HIDE DEF d, r, g
<1>2. u = [disk |-> d, obj |-> obj, kept |-> kept, rows |-> rows, ids |-> {}, gone |-> {},
           claims |-> {}]
  BY DEF Now
<1> HIDE DEF u
<1>3. t = [disk |-> d, obj |-> obj, kept |-> kept, rows |-> r, ids |-> {}, gone |-> {},
           claims |-> {}]
  BY <1>2
<1> HIDE DEF t
<1>4. [t EXCEPT !.gone = g] =
          [disk |-> d, obj |-> obj, kept |-> kept, rows |-> r, ids |-> {}, gone |-> g,
           claims |-> {}]
  BY <1>3
<1> QED BY <1>1, <1>4 DEF d, r, g

Thrown(a) ==
    LET at == obj[a.id].at
    IN  IF at = None THEN {} ELSE IF at \in Path THEN InTree(at) ELSE {a.id} \cap Id

LEMMA RemoteTrashIs ==
    ASSUME NEW a
    PROVE  RemoteTrash(a) =
               IF a.id = None THEN [Now EXCEPT !.rows[a.path] = Unlisted]
               ELSE [disk |-> disk, obj |-> Gone(obj, Thrown(a), None), kept |-> kept,
                     rows |-> Forgotten(a.path), ids |-> Thrown(a),
                     gone |-> {<<"drive", i>> : i \in Thrown(a) \ news}, claims |-> {}]
<1> DEFINE o == Gone(obj, Thrown(a), None)
           r == Forgotten(a.path)
           s == Thrown(a)
           g == {<<"drive", i>> : i \in s \ news}
           u == [Now EXCEPT !.obj = o]
           t == [u EXCEPT !.rows = r]
           q == [t EXCEPT !.ids = s]
<1>1. RemoteTrash(a) = IF a.id = None THEN [Now EXCEPT !.rows[a.path] = Unlisted]
                       ELSE [q EXCEPT !.gone = g]
  BY DEF RemoteTrash, Thrown
<1> HIDE DEF o, r, s, g
<1>2. u = [disk |-> disk, obj |-> o, kept |-> kept, rows |-> rows, ids |-> {}, gone |-> {},
           claims |-> {}]
  BY DEF Now
<1> HIDE DEF u
<1>3. t = [disk |-> disk, obj |-> o, kept |-> kept, rows |-> r, ids |-> {}, gone |-> {},
           claims |-> {}]
  BY <1>2
<1> HIDE DEF t
<1>4. q = [disk |-> disk, obj |-> o, kept |-> kept, rows |-> r, ids |-> s, gone |-> {},
           claims |-> {}]
  BY <1>3
<1> HIDE DEF q
<1>5. [q EXCEPT !.gone = g] =
          [disk |-> disk, obj |-> o, kept |-> kept, rows |-> r, ids |-> s, gone |-> g,
           claims |-> {}]
  BY <1>4
<1> QED BY <1>1, <1>5 DEF o, r, s, g

(* Nothing but its place changes of what is trashed.                       *)
LEMMA GoneSame ==
    ASSUME DriveOK(obj), NEW S, NEW where, NEW i \in Id
    PROVE  LET o == Gone(obj, S, where) IN o[i].c = obj[i].c /\ o[i].ver = obj[i].ver
<1>1. obj[i] \in Object
  BY ObjectType
<1>2. Gone(obj, S, where)[i] = IF i \in S THEN [obj[i] EXCEPT !.at = where] ELSE obj[i]
  BY DEF Gone
<1> QED BY <1>1, <1>2 DEF Object

LEMMA LocalTrashOK ==
    ASSUME IInv, NEW a, a.path \in Path PROVE WorldOK(LocalTrash(a))
<1> DEFINE d == Without(a.path)
           r == Forgotten(a.path)
           g == Binned(a.path)
<1>1. TreeOK(d)
  BY NowOK, TreeWithout DEF Without
<1>2. r \in [Path -> Row] /\ RowsFit(r, obj)
  BY ForgottenOK, KeepsSelf
<1>3. kept \in SUBSET Content
  BY DEF IInv, TypeOK
<1> HIDE DEF d, r, g
<1>4. WorldOK([disk |-> d, obj |-> obj, kept |-> kept, rows |-> r, ids |-> {}, gone |-> g,
               claims |-> {}])
  BY <1>1, <1>2, <1>3, NowOK, KeepsSelf, MadeOK
<1> QED BY <1>4, LocalTrashIs, ProtectedOK DEF d, r, g

LEMMA RemoteTrashOK ==
    ASSUME IInv, NEW a, Sensible(a, obj) PROVE WorldOK(RemoteTrash(a))
<1> DEFINE s == Thrown(a)
           o == Gone(obj, s, None)
           r == Forgotten(a.path)
           g == {<<"drive", i>> : i \in s \ news}
<1>1. a.path \in Path /\ a.id \in Id \cup {None}
  BY SensibleIs
<1>2. WorldOK([Now EXCEPT !.rows[a.path] = Unlisted])
  <2>1. Unlisted \in Row /\ Fits(obj, Unlisted.id, a.path)
    BY DEF Unlisted, Row, Status, Fits
  <2> QED BY <1>1, <2>1, NowOK, RowOK
<1>3. s \in SUBSET Id
  BY DEF Thrown, InTree
<1>4. ASSUME a.id # None PROVE DriveOK(o)
  <2>1. ASSUME NEW i \in Id, NEW j \in s \cap Id, obj[i].at \in Path, obj[j].at \in Path,
               Within(obj[i].at, obj[j].at)
        PROVE  i \in s
    <3> DEFINE at == obj[a.id].at
    <3>1. CASE at \in Path
      <4>1. s = InTree(at)
        BY <3>1, Nowhere DEF Thrown
      <4> HIDE DEF s, at
      <4>2. Within(obj[j].at, at)
        BY <4>1 DEF InTree, Subtree
      <4>3. Within(obj[i].at, at)
        BY <2>1, <3>1, <4>2, WithinOn
      <4> QED BY <2>1, <4>1, <4>3 DEF InTree, Subtree
    <3>2. CASE at \notin Path
      <4>1. j = a.id
        BY <3>2 DEF Thrown
      <4> QED BY <1>4, <2>1, <3>2, <4>1
    <3> QED BY <3>1, <3>2
  <2> HIDE DEF s
  <2> QED BY <2>1, NowOK, DriveGone
<1>5. \A i \in Id : o[i].c = obj[i].c
  BY NowOK, GoneSame
<1>6. kept \in SUBSET Content
  BY DEF IInv, TypeOK
<1> HIDE DEF o, s, g
<1>7. Keeps(obj, o)
  BY <1>5 DEF Keeps
<1>8. r \in [Path -> Row] /\ RowsFit(r, o)
  BY <1>1, <1>7, ForgottenOK
<1> HIDE DEF r
<1>9. ASSUME a.id # None
      PROVE  WorldOK([disk |-> disk, obj |-> o, kept |-> kept, rows |-> r, ids |-> s,
                      gone |-> g, claims |-> {}])
  BY <1>3, <1>4, <1>6, <1>7, <1>8, <1>9, NowOK, MadeOK
<1> QED BY <1>2, <1>9, RemoteTrashIs DEF o, s, g, r

LEMMA TouchBaseOK ==
    ASSUME IInv, NEW a, Sensible(a, obj) PROVE WorldOK(TouchBase(a))
<1> DEFINE y == [id |-> a.r.id, lc |-> a.e, ver |-> a.r.ver, rc |-> a.r.c, st |-> "synced"]
           x == IF IsDir(a.path) THEN FolderRow(a.r.id) ELSE y
<1>1. /\ a.path \in Path /\ a.r.id \in Id \cup {None} /\ a.r.ver \in Nat \cup {None}
      /\ ~IsDir(a.path) => a.e \in Content \cup {None} /\ a.r.c \in Content \cup {None}
  BY SensibleIs
<1>2. ~IsDir(a.path) => y \in Row /\ y.id = a.r.id
  BY <1>1 DEF Row, Status
<1>3. x \in Row /\ x.id = a.r.id
  BY <1>1, <1>2, FolderRowIs
<1>4. Fits(obj, a.r.id, a.path)
  BY DEF Sensible
<1>5. TouchBase(a) = [Now EXCEPT !.rows[a.path] = x]
  BY DEF TouchBase
<1>6. WorldOK(Now) /\ Now.obj = obj
  BY NowOK
<1> HIDE DEF x
<1> QED BY <1>1, <1>3, <1>4, <1>5, <1>6, RowOK

LEMMA ForgetOK ==
    ASSUME IInv, NEW a, a.path \in Path PROVE WorldOK(Forget(a))
<1> DEFINE r == Forgotten(a.path)
<1>1. r \in [Path -> Row] /\ RowsFit(r, obj)
  BY ForgottenOK, KeepsSelf
<1>2. Forget(a) = [Now EXCEPT !.rows = r]
  BY DEF Forget
<1> HIDE DEF r
<1>3. [Now EXCEPT !.rows = r] =
          [disk |-> disk, obj |-> obj, kept |-> kept, rows |-> r, ids |-> {}, gone |-> {}, claims |-> {}]
  BY DEF Now
<1>4. kept \in SUBSET Content
  BY DEF IInv, TypeOK
<1>5. WorldOK([disk |-> disk, obj |-> obj, kept |-> kept, rows |-> r, ids |-> {},
               gone |-> {}, claims |-> {}])
  BY <1>1, <1>4, NowOK, KeepsSelf, MadeOK
<1> QED BY <1>2, <1>3, <1>5

(* Whatever the plan says, and however the world has changed since.        *)
LEMMA DoesOK ==
    ASSUME IInv, Roomy, NEW a, Sensible(a, obj) PROVE WorldOK(Does(a))
<1>0. a.path \in Path
  BY DEF Sensible
<1>1. CASE a.kind = "MKDIR_REMOTE"
  BY <1>1, MkdirRemoteOK DEF Does
<1>2. CASE a.kind = "MKDIR_LOCAL"
  BY <1>2, MkdirLocalOK DEF Does
<1>3. CASE a.kind \in {"UPLOAD_NEW", "UPLOAD_VERSION"}
  BY <1>3, UploadOK DEF Does
<1>4. CASE a.kind \in {"DOWNLOAD_NEW", "DOWNLOAD_UPDATE"}
  BY <1>4, DownloadOK DEF Does
<1>5. CASE a.kind = "CONFLICT"
  BY <1>5, ConflictOK DEF Does
<1>6. CASE a.kind = "LOCAL_MOVE"
  BY <1>6, LocalMoveOK DEF Does
<1>7. CASE a.kind = "REMOTE_MOVE"
  BY <1>7, RemoteMoveToOK DEF Does
<1>8. CASE a.kind = "LOCAL_TRASH"
  BY <1>0, <1>8, LocalTrashOK DEF Does
<1>9. CASE a.kind = "REMOTE_TRASH"
  BY <1>9, RemoteTrashOK DEF Does
<1>10. CASE a.kind = "TOUCH_BASE"
  BY <1>10, TouchBaseOK DEF Does
<1>11. CASE a.kind \notin {"MKDIR_REMOTE", "MKDIR_LOCAL", "UPLOAD_NEW", "UPLOAD_VERSION",
                           "DOWNLOAD_NEW", "DOWNLOAD_UPDATE", "CONFLICT", "LOCAL_MOVE",
                           "REMOTE_MOVE", "LOCAL_TRASH", "REMOTE_TRASH", "TOUCH_BASE"}
  <2>1. Does(a) = Forget(a)
    BY <1>11 DEF Does
  <2> QED BY <1>0, <2>1, ForgetOK
<1> QED BY <1>1, <1>2, <1>3, <1>4, <1>5, <1>6, <1>7, <1>8, <1>9, <1>10, <1>11

LEMMA HalvesOK ==
    ASSUME IInv, NEW a, Sensible(a, obj), NEW w \in Halves(a)
    PROVE  WorldOK(w) /\ w.obj = obj /\ w.rows = rows
BY NowOK, SetAsideOK DEF Halves

(* What recover makes of the rows.                                         *)
LEMMA RecoveredOK ==
    ASSUME IInv, Roomy, NEW a, Sensible(a, obj), NEW w \in Halves(a) \cup {Does(a)}
    PROVE  WorldOK([w EXCEPT !.rows = Recovered(a, w)])
<1> DEFINE p == a.path
           r == IF w = Now THEN rows ELSE Made(a)
           st == IF a.kind \in {"UPLOAD_NEW", "UPLOAD_VERSION", "REMOTE_MOVE",
                                "MKDIR_REMOTE", "REMOTE_TRASH"}
                 THEN "pending_upload" ELSE "pending_download"
           x == Marked(r, st, p, None)
           s == Recovered(a, w)
<1>1. WorldOK(w) /\ p \in Path
  BY DoesOK, HalvesOK DEF Sensible
<1>2. rows \in [Path -> Row] /\ RowsFit(rows, w.obj)
  BY <1>1, NowOK, FitsOn DEF WorldOK, RowsFit
<1>3. r \in [Path -> Row] /\ RowsFit(r, w.obj)
  <2>1. CASE w = Now
    BY <1>2, <2>1
  <2>2. CASE w # Now /\ a.kind = "MKDIR_REMOTE"
    <3>1. w = MkdirRemote(a) /\ r = w.rows
      BY <2>2 DEF Halves, Made, Does
    <3> QED BY <1>1, <3>1 DEF WorldOK
  <2>3. CASE w # Now /\ a.kind \in {"UPLOAD_NEW", "UPLOAD_VERSION"}
    <3> DEFINE e == Ensured(Parents(a.to))
    <3>1. w = Upload(a) /\ r = e.rows /\ a.to = a.path
      BY <2>3 DEF Halves, Made, Does, Sensible
    <3>2. WorldOK(e)
      BY <1>1, <3>1, EnsuredOK, ParentsChain
    <3>3. Keeps(e.obj, w.obj)
      BY <2>3, <3>1, UploadOK
    <3> HIDE DEF e, r
    <3> QED BY <3>1, <3>2, <3>3, FitsOn DEF WorldOK, RowsFit
  <2>4. CASE w # Now /\ a.kind = "REMOTE_MOVE"
    <3> DEFINE e == Ensured(Parents(a.to))
    <3>1. w = RemoteMoveTo(a) /\ r = e.rows /\ a.to \in Path
      BY <2>4 DEF Halves, Made, Does, Sensible
    <3>2. WorldOK(e)
      BY <1>1, <3>1, EnsuredOK, ParentsChain
    <3>3. Keeps(e.obj, w.obj)
      BY <2>4, <3>1, RemoteMoveToOK
    <3> HIDE DEF e, r
    <3> QED BY <3>1, <3>2, <3>3, FitsOn DEF WorldOK, RowsFit
  <2>5. CASE a.kind \notin {"MKDIR_REMOTE", "UPLOAD_NEW", "UPLOAD_VERSION", "REMOTE_MOVE"}
    <3>1. r = rows
      BY <2>5 DEF Made
    <3> QED BY <1>2, <3>1
  <2> QED BY <2>1, <2>2, <2>3, <2>4, <2>5
<1> HIDE DEF r
<1>4. x \in Row /\ x.id \in {None, r[p].id}
  BY <1>1, <1>3, MarkedIs DEF Status
<1>5. s = rows \/ s = [r EXCEPT ![p] = x]
  BY DEF Recovered, r
<1>6. s \in [Path -> Row] /\ RowsFit(s, w.obj)
  <2> HIDE DEF x, s
  <2> QED BY <1>1, <1>2, <1>3, <1>4, <1>5 DEF RowsFit, Fits
<1> HIDE DEF s
<1>7. [w EXCEPT !.rows = s] = [disk |-> w.disk, obj |-> w.obj, kept |-> w.kept, rows |-> s,
                               ids |-> w.ids, gone |-> w.gone, claims |-> w.claims]
  BY <1>1 DEF WorldOK
<1>8. WorldOK([disk |-> w.disk, obj |-> w.obj, kept |-> w.kept, rows |-> s,
               ids |-> w.ids, gone |-> w.gone, claims |-> w.claims])
  BY <1>1, <1>6, MadeOK DEF WorldOK
<1> QED BY <1>7, <1>8 DEF s
-----------------------------------------------------------------------------
(* What a pass decides makes sense: it names paths and objects of a kind,  *)
(* and receives what the view has shown.                                   *)
LEMMA DecideIs ==
    ASSUME NEW b, NEW e, NEW r, NEW unseen, NEW deleted, NEW complete, NEW propagate,
           NEW lm, NEW rm
    PROVE  LET k == Decide(b, e, r, unseen, deleted, complete, propagate, lm, rm)
           IN  /\ k \in Kind
               /\ k \in Receives => Seen(r)
               /\ k = "CONFLICT" => Here(e)
<1>1. LET k == DecideNew(e, r, lm, rm)
      IN  k \in Kind /\ (k \in Receives => Seen(r)) /\ (k = "CONFLICT" => Here(e))
  BY DEF DecideNew, Kind, Acting, Receives
<1>2. ASSUME NEW absent, NEW observed
      PROVE  LET k == DecideGone(b, r, absent, observed, propagate)
             IN  k \in Kind /\ (k \in Receives => Seen(r)) /\ k # "CONFLICT"
  BY DEF DecideGone, Kind, Acting, Receives
<1>3. ASSUME NEW absent
      PROVE  LET k == DecideKnown(b, e, r, absent, propagate, lm, rm)
             IN  k \in Kind /\ (k \in Receives => Seen(r))
  BY DEF DecideKnown, Kind, Acting, Receives
<1> DEFINE absent   == deleted \/ (~Seen(r) /\ complete)
           observed == complete \/ Seen(r) \/ deleted
           k == Decide(b, e, r, unseen, deleted, complete, propagate, lm, rm)
<1>4. \/ k = "REPORT" \/ k = "PROTECT"
      \/ k = DecideNew(e, r, lm, rm)
      \/ k = DecideGone(b, r, absent, observed, propagate)
      \/ Here(e) /\ k = DecideKnown(b, e, r, absent, propagate, lm, rm)
  BY DEF Decide
<1>5. "REPORT" \in Kind \ Receives /\ "PROTECT" \in Kind \ Receives
  BY DEF Kind, Receives
<1> HIDE DEF absent, observed, k
<1>6. k \in Kind /\ (k \in Receives => Seen(r)) /\ (k = "CONFLICT" => Here(e))
  BY <1>1, <1>2, <1>3, <1>4, <1>5 DEF Receives
<1> QED BY <1>6 DEF k

Shown(look) ==
    /\ look.rows = rows
    /\ \A p \in Path : look.snap[p] \in Holds(p) \cup {None}
    /\ \A p \in Path : \/ look.ent[p] = Unknown
                       \/ /\ look.ent[p] \in Sight /\ look.ent[p].id \in Id
                          /\ look.ent[p].c \in Holds(p)
                          /\ obj[look.ent[p].id].c \in Holds(p)

LEMMA ShownIs ==
    ASSUME NEW look, Shown(look), NEW p \in Path
    PROVE  /\ look.ent[p] \in Sight /\ Fits(obj, look.ent[p].id, p)
           /\ look.ent[p].c \in Holds(p) \cup {None}
           /\ look.ent[p].id # None => look.ent[p].c # None
           /\ Unknown \in Sight /\ Unknown.id = None /\ Unknown.c = None
<1>1. Unknown \in Sight /\ Unknown.id = None /\ Unknown.c = None
  BY DEF Unknown, Sight
<1>2. None \notin Holds(p)
  BY KindOfPath
<1> QED BY <1>1, <1>2 DEF Shown, Fits

LEMMA AtSensible ==
    ASSUME IInv, NEW look, Shown(look), NEW p \in Path, NEW kind,
           kind \in OfFiles => ~IsDir(p), kind \in DirKinds => IsDir(p),
           kind \in Receives => look.ent[p].id # None,
           kind = "CONFLICT" => look.snap[p] # None, kind # "REMOTE_MOVE"
    PROVE  Sensible(At(look, kind, p), obj)
<1>1. Fits(obj, rows[p].id, p)
  BY NowOK DEF RowsFit
<1> QED BY <1>1, ShownIs DEF At, Decision, Sensible, Shown

LEMMA FileKindIs ==
    ASSUME NEW look, NEW p, NEW propagate
    PROVE  /\ FileKind(look, p, propagate) \in Kind
           /\ FileKind(look, p, propagate) \in Receives => look.ent[p].id # None
           /\ FileKind(look, p, propagate) = "CONFLICT" => look.snap[p] # None
<1> DEFINE r == FileRemote(look.ent[p])
           e == FileEntry(look.snap[p])
<1>1. r.id = look.ent[p].id /\ e.mt = look.snap[p]
  BY DEF FileRemote, FileEntry
<1>2. Seen(r) <=> look.ent[p].id # None
  BY <1>1 DEF Seen
<1>3. Here(e) <=> look.snap[p] # None
  BY <1>1 DEF Here
<1> HIDE DEF r, e
<1> QED BY <1>2, <1>3, DecideIs DEF FileKind, r, e

LEMMA FolderKindIs ==
    ASSUME NEW look, NEW p, NEW propagate
    PROVE  FolderKind(look, p, propagate) \in
               {"none", "REPORT", "MKDIR_LOCAL", "MKDIR_REMOTE", "TOUCH_BASE",
                "LOCAL_TRASH", "REMOTE_TRASH", "FORGET"}
BY DEF FolderKind, DecideNewDir, DecideDir

LEMMA TargetIs ==
    ASSUME IInv, NEW look, Shown(look), NEW p \in MovedRemote(look)
    PROVE  /\ p \in Path /\ Target(look, p) \in Path
           /\ look.ent[Target(look, p)].id # None
           /\ Holds(Target(look, p)) = Holds(p) /\ (IsDir(Target(look, p)) <=> IsDir(p))
           /\ rows[p].id # None /\ Fits(obj, rows[p].id, p)
<1>1. p \in Path /\ Target(look, p) \in Targets(look, p)
  BY DEF MovedRemote, Target
<1> DEFINE q == Target(look, p)
<1>2. /\ q \in Path /\ rows[p].id # None /\ look.ent[q].id = rows[p].id
  BY <1>1 DEF Targets, Shown
<1>3. /\ Fits(obj, rows[p].id, p) /\ Fits(obj, rows[p].id, q)
  BY <1>1, <1>2, NowOK, ShownIs DEF RowsFit
<1> HIDE DEF q
<1>4. obj[rows[p].id].c \in Holds(p) /\ obj[rows[p].id].c \in Holds(q)
  BY <1>2, <1>3 DEF Fits
<1>5. (IsDir(q) <=> IsDir(p)) /\ Holds(q) = Holds(p)
  BY <1>4, ContentAssumption DEF Holds
<1> QED BY <1>1, <1>2, <1>3, <1>5 DEF q

LEMMA RemoteMoveSensible ==
    ASSUME IInv, NEW look, Shown(look), NEW p \in MovedRemote(look),
           NEW d \in RemoteMove(look, p)
    PROVE  Sensible(d, obj)
<1> DEFINE q == Target(look, p)
           i == rows[p].id
<1>1. /\ p \in Path /\ q \in Path /\ look.ent[q].id # None
      /\ Holds(q) = Holds(p) /\ (IsDir(q) <=> IsDir(p))
      /\ i # None /\ Fits(obj, i, p) /\ Fits(obj, i, q)
  BY TargetIs DEF Fits
<1> HIDE DEF q, i
<1>2. /\ look.ent[q] \in Sight /\ Fits(obj, look.ent[q].id, q)
      /\ Fits(obj, look.ent[q].id, p)
      /\ look.ent[q].c \in Holds(q) \cup {None} /\ look.ent[q].c # None
      /\ look.ent[q].c \in Holds(p) \cup {None}
      /\ look.snap[p] \in Holds(p) \cup {None} /\ look.snap[q] \in Holds(q) \cup {None}
      /\ look.snap[p] \in Holds(q) \cup {None}
  BY <1>1, ShownIs DEF Shown, Fits
<1>3. ASSUME NEW k, NEW e \in Holds(q) \cup {None}, NEW j \in {None, i},
             k \notin {"CONFLICT", "REMOTE_MOVE"},
             k \in OfFiles => ~IsDir(q), k \in DirKinds => IsDir(q)
      PROVE  Sensible(Decision(k, q, q, e, look.ent[q], j), obj)
  BY <1>1, <1>2, <1>3 DEF Decision, Sensible, Fits
<1>4. Sensible(At(look, "FORGET", p), obj) /\ Sensible(At(look, "PROTECT", p), obj)
  BY <1>1, AtSensible DEF OfFiles, Receives, DirKinds
<1>5. Sensible(Decision("LOCAL_MOVE", p, q, look.snap[p], look.ent[q], i), obj)
  BY <1>1, <1>2 DEF Decision, Sensible, OfFiles, Receives, DirKinds
<1>6. look.rows[p].id = i
  BY DEF Shown, i
<1>7. \/ d = Decision("MKDIR_LOCAL", q, q, None, look.ent[q], i) /\ IsDir(q)
      \/ d = Decision("DOWNLOAD_NEW", q, q, None, look.ent[q], i) /\ ~IsDir(q)
      \/ d = At(look, "FORGET", p) \/ d = At(look, "PROTECT", p)
      \/ d = Decision("DOWNLOAD_NEW", q, q, None, look.ent[q], None) /\ ~IsDir(p)
      \/ d = Decision("REPORT", q, q, look.snap[q], look.ent[q], None)
      \/ d = Decision("LOCAL_MOVE", p, q, look.snap[p], look.ent[q], i)
      \/ d = Decision("DOWNLOAD_UPDATE", q, q, look.snap[p], look.ent[q], i) /\ ~IsDir(p)
  BY <1>6 DEF RemoteMove, FetchAt, MoveThenUpdate, q
<1>8. /\ "MKDIR_LOCAL" \notin OfFiles /\ "REPORT" \notin OfFiles
      /\ "DOWNLOAD_NEW" \notin DirKinds /\ "DOWNLOAD_UPDATE" \notin DirKinds
      /\ "REPORT" \notin DirKinds
  BY DEF OfFiles, Receives, DirKinds
<1> QED BY <1>1, <1>2, <1>3, <1>4, <1>5, <1>7, <1>8

LEMMA DiffSensible ==
    ASSUME IInv, NEW look, Shown(look), NEW propagate, NEW d \in DiffOf(look, propagate)
    PROVE  Sensible(d, obj)
<1> DEFINE away == MovedRemote(look)
           pairs == Pairs(look)
           arrivals == Arrivals(look)
<1>1. PICK p \in Path : d \in DecisionsFor(look, p, propagate, away, pairs, arrivals)
  BY DEF DiffOf
<1>2. CASE p \in away
  BY <1>1, <1>2, RemoteMoveSensible DEF DecisionsFor
<1>3. CASE p \notin away /\ \E x \in pairs : x[1] = p
  <2> DEFINE x == CHOOSE x \in pairs : x[1] = p
             q == x[2]
  <2>1. x \in pairs /\ x[1] = p
    BY <1>3
  <2>2. d = Decision("REMOTE_MOVE", p, q, look.snap[q], Unknown, look.rows[p].id)
    BY <1>1, <1>3 DEF DecisionsFor
  <2> HIDE DEF x
  <2>3. /\ p \in FilePath /\ q \in FilePath /\ look.rows[p].id # None
    BY <2>1 DEF Pairs, Candidates, GoneFiles, FreshFiles
  <2>4. /\ ~IsDir(p) /\ ~IsDir(q) /\ Holds(p) = Content /\ Holds(q) = Content
        /\ q \in Path
    BY <2>3, KindOfPath
  <2>5. /\ look.snap[q] \in Content \cup {None} /\ look.rows[p].id = rows[p].id
        /\ Fits(obj, rows[p].id, p)
    BY <2>4, NowOK DEF Shown, RowsFit
  <2>6. Unknown \in Sight /\ Unknown.id = None /\ Unknown.c = None
    BY ShownIs
  <2> HIDE DEF q
  <2> QED BY <2>2, <2>3, <2>4, <2>5, <2>6
          DEF Decision, Sensible, OfFiles, Receives, DirKinds, Fits
<1>4. CASE p \notin away /\ ~(\E x \in pairs : x[1] = p)
  <2>1. \/ d = At(look, "REPORT", p)
        \/ d = At(look, FolderKind(look, p, propagate), p) /\ IsDir(p)
        \/ d = At(look, FileKind(look, p, propagate), p) /\ ~IsDir(p)
    BY <1>1, <1>4 DEF DecisionsFor
  <2>2. Sensible(At(look, "REPORT", p), obj)
    BY AtSensible DEF OfFiles, Receives, DirKinds
  <2>3. ASSUME IsDir(p) PROVE Sensible(At(look, FolderKind(look, p, propagate), p), obj)
    BY <2>3, AtSensible, FolderKindIs DEF OfFiles, Receives, DirKinds
  <2>4. ASSUME ~IsDir(p) PROVE Sensible(At(look, FileKind(look, p, propagate), p), obj)
    <3> DEFINE k == FileKind(look, p, propagate)
    <3>1. /\ k \in Kind /\ (k \in Receives => look.ent[p].id # None)
          /\ (k = "CONFLICT" => look.snap[p] # None)
      BY FileKindIs
    <3>2. k \notin DirKinds /\ k # "REMOTE_MOVE"
      BY <3>1 DEF Kind, Acting, DirKinds
    <3> HIDE DEF k
    <3>3. Sensible(At(look, k, p), obj)
      BY <2>4, <3>1, <3>2, AtSensible
    <3> QED BY <3>3 DEF k
  <2> QED BY <2>1, <2>2, <2>3, <2>4
<1> QED BY <1>2, <1>3, <1>4

LEMMA PlannedIs ==
    ASSUME NEW D, NEW trashable, NEW r
    PROVE  /\ Planned(D, trashable) \subseteq D
           /\ Planned(D, trashable) \ HeldBack(Planned(D, trashable), r) \subseteq D
BY DEF Planned, Settled, Collapsed, Live

LEMMA LookShown ==
    ASSUME IInv, NEW m, NEW blind, NEW cold, NEW asked
    PROVE  Shown(Look(m, Scanned(blind), blind, cold, asked))
<1> DEFINE look == Look(m, Scanned(blind), blind, cold, asked)
<1>1. look.rows = rows /\ look.snap = Scanned(blind)
  BY DEF Look
<1>2. ASSUME NEW p \in Path PROVE look.snap[p] \in Holds(p) \cup {None}
  <2>1. Scanned(blind)[p] = None \/ Scanned(blind)[p] = disk[p]
    BY DEF Scanned
  <2>2. disk[p] \in Holds(p) \cup {None}
    BY NowOK DEF TreeOK
  <2> HIDE DEF look
  <2> QED BY <1>1, <2>1, <2>2
<1>3. ASSUME NEW p \in Path
      PROVE  \/ look.ent[p] = Unknown
             \/ /\ look.ent[p] \in Sight /\ look.ent[p].id \in Id
                /\ look.ent[p].c \in Holds(p)
                /\ obj[look.ent[p].id].c \in Holds(p)
  <2> DEFINE i == CHOOSE i \in Id : obj[i].at = p
             e == EntryOf(i)
  <2>1. look.ent[p] \in {Unknown, FullEntries[p]}
    BY DEF Look
  <2>2. FullEntries[p] = IF Free(p) THEN Unknown ELSE e
    BY DEF FullEntries
  <2>3. ASSUME ~Free(p)
        PROVE  e \in Sight /\ e.id \in Id /\ e.c \in Holds(p) /\ obj[e.id].c \in Holds(p)
    <3>1. i \in Id /\ obj[i].at = p
      BY <2>3, NowOK, AtPath
    <3>2. /\ obj[i].c \in Content \cup {Folder, None} /\ obj[i].ver \in Nat
          /\ obj[i].c \in Holds(p)
      BY <3>1, NowOK, ObjectType
    <3> HIDE DEF i
    <3> QED BY <3>1, <3>2 DEF EntryOf, Sight
  <2> HIDE DEF e, look
  <2> QED BY <2>1, <2>2, <2>3
<1> HIDE DEF look
<1>4. Shown(look)
  BY <1>1, <1>2, <1>3 DEF Shown
<1> QED BY <1>4 DEF look
-----------------------------------------------------------------------------
(* The invariant of the steps.                                             *)
LEMMA Shapes ==
    ASSUME NEW d, TreeOK(d), NEW o, DriveOK(o)
    PROVE  /\ d \in [Path -> Content \cup {Folder, None}]
           /\ \A p \in Path : d[p] # None =>
                 d[p] \in Holds(p) /\ \A q \in Parents(p) : d[q] = Folder
           /\ o \in [Id -> Object]
           /\ \A i \in Id : o[i].at \in Path =>
                 /\ o[i].c \in Holds(o[i].at)
                 /\ \A q \in Parents(o[i].at) : ~({j \in Id : o[j].at = q} = {})
           /\ \A p \in Path : Cardinality({i \in Id : o[i].at = p}) <= 1
<1>1. d \in [Path -> Content \cup {Folder, None}]
  BY DEF TreeOK
<1>2. \A p \in Path : d[p] # None =>
         d[p] \in Holds(p) /\ \A q \in Parents(p) : d[q] = Folder
  BY TypeOfTree
<1>3. o \in [Id -> Object] /\ \A i \in Id : o[i].at \in Path => o[i].c \in Holds(o[i].at)
  BY DEF DriveOK
<1>4. ASSUME NEW i \in Id, o[i].at \in Path, NEW q \in Parents(o[i].at)
      PROVE  ~({j \in Id : o[j].at = q} = {})
  <2>1. q \in Path /\ Within(o[i].at, q)
    BY UnderIs DEF Parents
  <2>2. \E j \in Id : o[j].at = q
    BY <1>4, <2>1 DEF DriveOK
  <2> QED BY <2>2
<1>5. \A p \in Path : Cardinality({i \in Id : o[i].at = p}) <= 1
  BY OneOfAName
<1> QED BY <1>1, <1>2, <1>3, <1>4, <1>5

LEMMA InvNext ==
    ASSUME TreeOK(disk'), DriveOK(obj'), kept' \subseteq Content, rows' \in [Path -> Row],
           RowsFit(rows', obj'), news' \subseteq Id, left' \in 0 .. MaxEnv,
           claimed' \subseteq Id \X Nat \X Content,
           mode' \in Modes \cup {None}, mode' = None <=> todo' = {},
           \A a \in todo' : Sensible(a, obj')
    PROVE  IInv'
<1>1. /\ disk' \in [Path -> Content \cup {Folder, None}]
      /\ \A p \in Path : disk'[p] # None => disk'[p] \in Holds(p) /\ Homed(p)'
  BY Shapes DEF Homed
<1>2. obj' \in [Id -> Object]
  BY Shapes
<1>3. ASSUME NEW i \in Id, obj'[i].at \in Path
      PROVE  obj'[i].c \in Holds(obj'[i].at) /\ Rooted(obj[i].at)'
  <2>1. /\ obj'[i].c \in Holds(obj'[i].at)
        /\ \A q \in Parents(obj'[i].at) : ~({j \in Id : obj'[j].at = q} = {})
    <3>1. \A j \in Id : obj'[j].at \in Path =>
             /\ obj'[j].c \in Holds(obj'[j].at)
             /\ \A q \in Parents(obj'[j].at) : ~({k \in Id : obj'[k].at = q} = {})
      BY Shapes
    <3> QED BY <1>3, <3>1
  <2> QED BY <2>1 DEF Rooted, Free, OnDrive
<1>4. \A p \in Path : Cardinality(OnDrive(p)') <= 1
  BY Shapes DEF OnDrive
<1>5. TypeOK'
  BY <1>1, <1>2, <1>3, <1>4 DEF TypeOK
<1>6. RowsFit(rows, obj)' /\ (\A a \in todo : Sensible(a, obj))'
  OBVIOUS
<1> QED BY <1>5, <1>6 DEF IInv

LEMMA KeepsSense ==
    ASSUME NEW a, NEW o, NEW n, Sensible(a, o), Keeps(o, n) PROVE Sensible(a, n)
<1>1. a.path \in Path /\ Fits(o, a.id, a.path) /\ Fits(o, a.r.id, a.path)
  BY DEF Sensible
<1>2. Fits(n, a.id, a.path) /\ Fits(n, a.r.id, a.path)
  BY <1>1, FitsOn
<1> QED BY <1>2 DEF Sensible

LEMMA MayIs == ASSUME NEW a, TypeOK, May(a) PROVE left' \in 0 .. MaxEnv
BY ChoicesAssumption DEF TypeOK, May, Cost

(* A step of a user or of another PC, or of an action that was planned.    *)
LEMMA WorldNext ==
    ASSUME IInv, NEW w, WorldOK(w), disk' = w.disk, obj' = w.obj, kept' = w.kept,
           rows' = w.rows, claimed' = claimed \cup w.claims,
           NEW S \in SUBSET Id, news' = news \cup S,
           todo' \subseteq todo, left' \in 0 .. MaxEnv,
           mode' \in Modes \cup {None}, mode' = None <=> todo' = {}
    PROVE  IInv'
<1>1. \A a \in todo' : Sensible(a, obj')
  BY KeepsSense DEF IInv, WorldOK
<1>2. news' \subseteq Id /\ claimed' \subseteq Id \X Nat \X Content
  BY DEF IInv, TypeOK, WorldOK
<1> QED BY <1>1, <1>2, InvNext DEF WorldOK

LEMMA UserSteps ==
    ASSUME IInv, NEW d, TreeOK(d), disk' = d, left' \in 0 .. MaxEnv,
           UNCHANGED <<drive, rows, pass, claimed>>
    PROVE  IInv'
<1>1. /\ TreeOK(disk') /\ obj' = obj /\ kept' = kept /\ rows' = rows /\ news' = news
      /\ mode' = mode /\ todo' = todo /\ claimed' = claimed
  BY DEF drive, pass
<1>2. /\ DriveOK(obj') /\ kept' \subseteq Content /\ rows' \in [Path -> Row]
      /\ RowsFit(rows', obj') /\ news' \subseteq Id /\ mode' \in Modes \cup {None}
      /\ (mode' = None <=> todo' = {}) /\ claimed' \subseteq Id \X Nat \X Content
  BY <1>1, NowOK DEF IInv, TypeOK
<1>3. \A a \in todo' : Sensible(a, obj')
  BY <1>1 DEF IInv
<1> QED BY <1>1, <1>2, <1>3, InvNext

LEMMA UserStep == ASSUME IInv, User PROVE IInv'
<1>0. TreeOK(disk) /\ TypeOK
  BY NowOK DEF IInv
<1>1. ASSUME NEW p \in Path, Save(p) PROVE IInv'
  <2>1. PICK c \in Holds(p) : disk' = [disk EXCEPT ![p] = c]
    BY <1>1 DEF Save
  <2>2. TreeOK([disk EXCEPT ![p] = c])
    BY <1>0, <1>1, TreeSave DEF Save, Homed, Parents
  <2> QED BY <1>0, <1>1, <2>1, <2>2, MayIs, UserSteps DEF Save
<1>2. ASSUME NEW p \in Path, Delete(p) PROVE IInv'
  <2>1. TreeOK(Without(p))
    BY <1>0, TreeWithout DEF Without
  <2> QED BY <1>0, <1>2, <2>1, MayIs, UserSteps DEF Delete
<1>3. ASSUME NEW p \in Path, NEW q \in Path, Rename(p, q) PROVE IInv'
  <2>1. TreeOK(Relocated(p, q))
    BY <1>0, <1>3, TreeMoved DEF Rename, Movable, Relocated
  <2> QED BY <1>0, <1>3, <2>1, MayIs, UserSteps DEF Rename
<1> QED BY <1>1, <1>2, <1>3 DEF User

LEMMA OtherSteps ==
    ASSUME IInv, NEW o, DriveOK(o), Keeps(obj, o), obj' = o, kept' \subseteq Content,
           NEW S \in SUBSET Id, news' = news \cup S, left' \in 0 .. MaxEnv,
           UNCHANGED <<disk, rows, pass, claimed>>
    PROVE  IInv'
<1>1. /\ disk' = disk /\ rows' = rows /\ mode' = mode /\ todo' = todo
  BY DEF pass
<1>2. /\ TreeOK(disk') /\ rows' \in [Path -> Row] /\ RowsFit(rows', obj')
      /\ mode' \in Modes \cup {None} /\ (mode' = None <=> todo' = {})
  BY <1>1, NowOK, FitsOn DEF IInv, TypeOK, RowsFit
<1>3. \A a \in todo' : Sensible(a, obj')
  BY <1>1, KeepsSense DEF IInv
<1>4. news' \subseteq Id /\ DriveOK(obj') /\ claimed' \subseteq Id \X Nat \X Content
  BY DEF IInv, TypeOK
<1> QED BY <1>2, <1>3, <1>4, InvNext

LEMMA SameKinds ==
    ASSUME NEW o, NEW n, \A i \in Id : n[i].c = o[i].c PROVE Keeps(o, n)
BY DEF Keeps

LEMMA GoneKeeps ==
    ASSUME DriveOK(obj), NEW S, NEW where PROVE Keeps(obj, Gone(obj, S, where))
<1>1. ASSUME NEW i \in Id PROVE Gone(obj, S, where)[i].c = obj[i].c
  <2>1. obj[i] \in Object
    BY ObjectType
  <2>2. Gone(obj, S, where)[i] = IF i \in S THEN [obj[i] EXCEPT !.at = where] ELSE obj[i]
    BY DEF Gone
  <2> QED BY <2>1, <2>2 DEF Object
<1> QED BY <1>1, SameKinds

LEMMA TreeGone ==
    ASSUME IInv, NEW i \in Id, obj[i].at \in Path, NEW where \in {None, Outside}
    PROVE  DriveOK(Gone(obj, InTree(obj[i].at), where))
<1>1. \A j \in Id, k \in InTree(obj[i].at) \cap Id :
         obj[j].at \in Path /\ obj[k].at \in Path /\ Within(obj[j].at, obj[k].at)
            => j \in InTree(obj[i].at)
  BY WithinOn DEF InTree, Subtree
<1> QED BY <1>1, NowOK, DriveGone

LEMMA WriteStep ==
    ASSUME IInv, NEW i \in Id, OtherWrites(i) PROVE IInv'
<1>1. PICK c \in Content \ {obj[i].c} :
         /\ obj' = [obj EXCEPT ![i].c = c, ![i].ver = @ + 1] /\ kept' = kept \cup {c}
  BY DEF OtherWrites
<1> DEFINE x == [obj[i] EXCEPT !.c = c, !.ver = @ + 1]
           o == [obj EXCEPT ![i] = x]
<1>2. DriveOK(obj) /\ obj \in [Id -> Object]
  BY NowOK DEF DriveOK
<1>3. obj[i].at \in FilePath /\ obj[i].at \in Path /\ Holds(obj[i].at) = Content
  BY KindOfPath DEF OtherWrites
<1>4. x \in Object /\ x.at = obj[i].at /\ x.c = c
  BY <1>2, ObjectChange
<1>5. obj' = o
  <2>1. [obj EXCEPT ![i].c = c, ![i].ver = @ + 1] = o
    BY <1>2
  <2> QED BY <1>1, <2>1
<1> HIDE DEF x
<1>6. DriveOK(o)
  BY <1>2, <1>3, <1>4, DriveSame
<1>7. Keeps(obj, o)
  <2>1. obj[i].c \in Content
    BY <1>2, <1>3 DEF DriveOK
  <2>2. \A p \in Path : obj[i].c \in Holds(p) => c \in Holds(p)
    BY <2>1, KindOfPath, ContentAssumption
  <2> QED BY <1>2, <1>4, <2>2 DEF Keeps
<1>8. kept' \subseteq Content
  BY <1>1 DEF IInv, TypeOK
<1>9. {i} \in SUBSET Id /\ news' = news \cup {i} /\ left' \in 0 .. MaxEnv
  BY MayIs DEF OtherWrites, Changed, IInv
<1> HIDE DEF o
<1> QED BY <1>5, <1>6, <1>7, <1>8, <1>9, OtherSteps DEF OtherWrites

LEMMA CreateStep ==
    ASSUME IInv, NEW p \in Path, OtherCreates(p) PROVE IInv'
<1> DEFINE i == NewId(obj)
<1>1. PICK c \in Holds(p) :
         obj' = [obj EXCEPT ![i] = Placed(p, c)] /\ kept' = kept \cup ({c} \cap Content)
  BY DEF OtherCreates
<1>2. DriveOK(obj)
  BY NowOK
<1>3. i \in Id /\ obj[i] = Unused
  <2>1. /\ NewIds(obj) \in SUBSET Nat /\ IsFiniteSet(NewIds(obj))
        /\ Cardinality(NewIds(obj)) \in Nat
    BY NewIdsFinite
  <2>2. Cardinality(NewIds(obj)) > Cardinality(Parents(p)) /\ Cardinality(Parents(p)) \in Nat
    BY ParentsFinite DEF OtherCreates, Roomy
  <2>3. Cardinality(NewIds(obj)) # 0
    BY <2>1, <2>2
  <2>4. NewIds(obj) # {}
    BY <2>3, FS_EmptySet
  <2>5. \E k \in NewIds(obj) : \A l \in NewIds(obj) : k <= l
    BY <2>1, <2>4, Least
  <2> QED BY <2>5 DEF NewId, NewIds
<1>4. obj[i].at \notin Path /\ obj[i].c = None
  BY <1>3, Nowhere DEF Unused
<1> HIDE DEF i
<1>5. Placed(p, c) \in Object /\ Placed(p, c).at = p /\ Placed(p, c).c = c
  BY PlacedIs
<1> DEFINE x == Placed(p, c)
           o == [obj EXCEPT ![i] = x]
<1> HIDE DEF x
<1>6. \A j \in Id : obj[j].at # x.at
  BY <1>2, <1>5, AtPath DEF OtherCreates, x
<1>7. \A q \in Path : Under(x.at, q) => \E j \in Id : obj[j].at = q
  BY <1>5 DEF OtherCreates, Rooted, Parents, Free, OnDrive, x
<1>8. DriveOK(o)
  BY <1>2, <1>3, <1>4, <1>5, <1>6, <1>7, DrivePlace DEF x
<1>9. Keeps(obj, o)
  <2>1. \A q \in Path : None \notin Holds(q)
    BY KindOfPath
  <2> QED BY <1>2, <1>4, <2>1 DEF Keeps, DriveOK
<1>10. kept' \subseteq Content /\ obj' = o
  BY <1>1 DEF IInv, TypeOK, x
<1>11. {i} \in SUBSET Id /\ news' = news \cup {i} /\ left' \in 0 .. MaxEnv
  BY <1>3, MayIs DEF OtherCreates, Changed, IInv, i
<1> HIDE DEF o
<1> QED BY <1>8, <1>9, <1>10, <1>11, OtherSteps DEF OtherCreates

LEMMA OthersStep == ASSUME IInv, Others PROVE IInv'
<1>0. DriveOK(obj) /\ TypeOK /\ kept \subseteq Content
  BY NowOK DEF IInv, TypeOK
<1>1. ASSUME NEW i \in Id, OtherTrashes(i) PROVE IInv'
  <2> DEFINE o == Gone(obj, InTree(obj[i].at), None)
  <2>1. DriveOK(o) /\ Keeps(obj, o)
    BY <1>0, <1>1, TreeGone, GoneKeeps DEF OtherTrashes
  <2>2. PICK S \in {{i}, InTree(obj[i].at)} : news' = news \cup S
    BY <1>1 DEF OtherTrashes, Changed
  <2>3. S \in SUBSET Id
    BY DEF InTree
  <2>4. obj' = o /\ kept' \subseteq Content /\ left' \in 0 .. MaxEnv
    BY <1>0, <1>1, MayIs DEF OtherTrashes
  <2> HIDE DEF o
  <2> QED BY <1>1, <2>1, <2>2, <2>3, <2>4, OtherSteps DEF OtherTrashes
<1>2. ASSUME NEW i \in Id, OtherMovesOut(i) PROVE IInv'
  <2> DEFINE o == Gone(obj, InTree(obj[i].at), Outside)
  <2>1. DriveOK(o) /\ Keeps(obj, o)
    BY <1>0, <1>2, TreeGone, GoneKeeps DEF OtherMovesOut
  <2>2. obj' = o /\ kept' \subseteq Content /\ left' \in 0 .. MaxEnv
        /\ news' = news \cup {i} /\ {i} \in SUBSET Id
    BY <1>0, <1>2, MayIs DEF OtherMovesOut, Changed
  <2> HIDE DEF o
  <2> QED BY <1>2, <2>1, <2>2, OtherSteps DEF OtherMovesOut
<1>3. ASSUME NEW i \in Id, NEW q \in Path, OtherMoves(i, q) PROVE IInv'
  <2> DEFINE o == Carried(i, q)
  <2>1. DriveOK(o) /\ \A j \in Id : o[j].c = obj[j].c
    BY <1>0, <1>3, DriveCarried DEF OtherMoves
  <2>2. Keeps(obj, o)
    BY <2>1, SameKinds
  <2>3. obj' = o /\ kept' \subseteq Content
        /\ news' = news \cup {i} /\ {i} \in SUBSET Id
    BY <1>0, <1>3 DEF OtherMoves, Changed
  <2>4. left' \in 0 .. MaxEnv
    BY <1>0, <1>3, MayIs DEF OtherMoves
  <2> HIDE DEF o
  <2> QED BY <1>3, <2>1, <2>2, <2>3, <2>4, OtherSteps DEF OtherMoves
<1> QED BY <1>1, <1>2, <1>3, WriteStep, CreateStep DEF Others
-----------------------------------------------------------------------------
(* The steps of a pass.                                                    *)
LEMMA BeginStep ==
    ASSUME IInv, NEW m \in Modes, NEW blind, NEW cold, NEW trashable,
           Begin(m, blind, cold, trashable), left' \in 0 .. MaxEnv
    PROVE  IInv'
<1> DEFINE look(asked) == Look(m, Scanned(blind), blind, cold, asked)
           plan(asked) == Planned(DiffOf(look(asked), m.propagate), trashable)
           acts(asked) == IF m.unattended THEN plan(asked) \ HeldBack(plan(asked), rows)
                                          ELSE plan(asked)
           marked(asked) == [p \in Path |-> IF p \in HashFailures(look(asked))
                                            THEN Marked(rows, "error", p, None) ELSE rows[p]]
<1>0. /\ TreeOK(disk) /\ DriveOK(obj) /\ rows \in [Path -> Row] /\ RowsFit(rows, obj)
      /\ kept \subseteq Content /\ news \subseteq Id /\ mode \in Modes \cup {None}
      /\ claimed \subseteq Id \X Nat \X Content
      /\ (mode = None <=> todo = {}) /\ \A a \in todo : Sensible(a, obj)
  BY NowOK DEF IInv, TypeOK
<1>1. disk' = disk /\ obj' = obj /\ kept' = kept /\ claimed' = claimed
      /\ mode = None /\ todo = {}
  BY <1>0 DEF Begin
<1>2. PICK asked :
         \/ UNCHANGED <<rows, todo, took, news, feed, mode, snap, unobs>>
         \/ /\ rows' = marked(asked) /\ todo' = acts(asked) /\ news' = {}
            /\ IF acts(asked) = {} THEN mode' = mode ELSE mode' = m
  <2>1. PICK asked \in {Dirty \cup Lost(Scanned(blind))}
                          \cup IF m.propagate THEN {} ELSE {Dirty} :
         \/ UNCHANGED <<rows, todo, took, news, feed, mode, snap, unobs>>
         \/ /\ rows' = marked(asked) /\ todo' = acts(asked) /\ news' = {}
            /\ IF acts(asked) = {} THEN mode' = mode ELSE mode' = m
    BY DEF Begin
  <2> QED BY <2>1
<1>3. CASE UNCHANGED <<rows, todo, took, news, feed, mode, snap, unobs>>
  BY <1>0, <1>1, <1>3, InvNext
<1>4. CASE /\ rows' = marked(asked) /\ todo' = acts(asked) /\ news' = {}
           /\ IF acts(asked) = {} THEN mode' = mode ELSE mode' = m
  <2>1. \A a \in acts(asked) : Sensible(a, obj)
    <3>1. Shown(look(asked))
      BY LookShown
    <3>2. acts(asked) \subseteq DiffOf(look(asked), m.propagate)
      BY PlannedIs
    <3> HIDE DEF look, acts
    <3> QED BY <3>1, <3>2, DiffSensible
  <2>2. ASSUME NEW p \in Path
        PROVE  marked(asked)[p] \in Row /\ Fits(obj, marked(asked)[p].id, p)
    <3>1. /\ Marked(rows, "error", p, None) \in Row
          /\ Marked(rows, "error", p, None).id \in {None, rows[p].id}
      BY <1>0, MarkedIs DEF Status
    <3>2. Fits(obj, rows[p].id, p) /\ rows[p] \in Row
      BY <1>0 DEF RowsFit
    <3>3. marked(asked)[p] \in {Marked(rows, "error", p, None), rows[p]}
      OBVIOUS
    <3> HIDE DEF marked
    <3> QED BY <3>1, <3>2, <3>3 DEF Fits
  <2>3. marked(asked) = [p \in Path |-> marked(asked)[p]]
    OBVIOUS
  <2>4. m # None
    BY ChoicesAssumption
  <2> HIDE DEF marked, acts
  <2>5. rows' \in [Path -> Row] /\ RowsFit(rows', obj)
    BY <1>4, <2>2, <2>3 DEF RowsFit
  <2>6. mode' \in Modes \cup {None} /\ (mode' = None <=> todo' = {})
    BY <1>1, <1>4, <2>4
  <2>7. news' \subseteq Id /\ \A a \in todo' : Sensible(a, obj)
    BY <1>4, <2>1
  <2> QED BY <1>0, <1>1, <2>5, <2>6, <2>7, InvNext
<1> QED BY <1>2, <1>3, <1>4

LEMMA FinishStep ==
    ASSUME IInv, NEW a \in todo, NEW w, WorldOK(w), Finish(a, w), left' \in 0 .. MaxEnv
    PROVE  IInv'
<1>1. /\ disk' = w.disk /\ obj' = w.obj /\ kept' = w.kept /\ rows' = w.rows
      /\ claimed' = claimed \cup w.claims
      /\ news' = news \cup w.ids /\ todo' = todo \ {a}
      /\ IF todo = {a} THEN mode' = None ELSE mode' = mode
  BY DEF Finish, Becomes
<1>2. w.ids \in SUBSET Id
  BY DEF WorldOK
<1>3. mode' \in Modes \cup {None} /\ (mode' = None <=> todo' = {})
  BY <1>1 DEF IInv, TypeOK
<1> QED BY <1>1, <1>2, <1>3, WorldNext

LEMMA DiesStep ==
    ASSUME IInv, NEW w, WorldOK(w), Dies(w), left' \in 0 .. MaxEnv
    PROVE  IInv'
<1>1. /\ disk' = w.disk /\ obj' = w.obj /\ kept' = w.kept /\ rows' = w.rows
      /\ news' = news \cup w.ids /\ todo' = {} /\ mode' = None
      /\ claimed' = claimed \cup w.claims
  BY DEF Dies, Becomes
<1>2. w.ids \in SUBSET Id
  BY DEF WorldOK
<1> QED BY <1>1, <1>2, WorldNext

LEMMA ToolStep == ASSUME IInv, Tool PROVE IInv'
<1>0. TypeOK /\ left \in 0 .. MaxEnv /\ \A a \in todo : Sensible(a, obj)
  BY DEF IInv, TypeOK
<1>1. CASE BeginWell
  <2>1. PICK m \in Modes : Begin(m, {}, {}, TRUE) /\ left' = left
    BY <1>1 DEF BeginWell
  <2> QED BY <1>0, <2>1, BeginStep
<1>2. CASE BeginBadly
  <2>1. PICK m \in Modes :
           \/ May("unread")  /\ \E p \in FilePath : Begin(m, {}, {p}, TRUE)
           \/ May("unobs")   /\ \E p \in Path : Begin(m, {p}, {}, TRUE)
           \/ May("recycle") /\ Begin(m, {}, {}, FALSE)
    BY <1>2 DEF BeginBadly
  <2>2. left' \in 0 .. MaxEnv
    BY <1>0, <2>1, MayIs
  <2> QED BY <2>1, <2>2, BeginStep
<1>3. CASE Do
  <2>1. PICK a \in todo : Roomy /\ Finish(a, Does(a)) /\ left' = left
    BY <1>3 DEF Do
  <2>2. WorldOK(Does(a))
    BY <1>0, <2>1, DoesOK
  <2> QED BY <1>0, <2>1, <2>2, FinishStep
<1>4. CASE Fail
  <2>1. PICK a \in todo : /\ May("fail")
                          /\ \E w \in Halves(a) :
                                Finish(a, IF a.kind = "LOCAL_TRASH" THEN w ELSE Failed(a, w))
    BY <1>4 DEF Fail
  <2>2. PICK w \in Halves(a) : Finish(a, IF a.kind = "LOCAL_TRASH" THEN w ELSE Failed(a, w))
    BY <2>1
  <2>3. WorldOK(w) /\ WorldOK(Failed(a, w))
    BY <1>0, HalvesOK, FailedOK
  <2>4. left' \in 0 .. MaxEnv
    BY <1>0, <2>1, MayIs
  <2> QED BY <2>2, <2>3, <2>4, FinishStep
<1>5. CASE Crash
  <2>1. PICK a \in todo :
           /\ May("crash") /\ Roomy
           /\ \/ \E w \in {Now, Does(a)} : Dies(w)
              \/ \E w \in Halves(a) \cup {Does(a)} :
                    Dies([w EXCEPT !.rows = Recovered(a, w)])
    BY <1>5 DEF Crash
  <2>2. left' \in 0 .. MaxEnv
    BY <1>0, <2>1, MayIs
  <2>3. Sensible(a, obj)
    BY <1>0
  <2>4. ASSUME NEW w \in {Now, Does(a)}, Dies(w) PROVE IInv'
    BY <2>1, <2>2, <2>3, <2>4, NowOK, DoesOK, DiesStep
  <2>5. ASSUME NEW w \in Halves(a) \cup {Does(a)}, Dies([w EXCEPT !.rows = Recovered(a, w)])
        PROVE  IInv'
    BY <2>1, <2>2, <2>3, <2>5, RecoveredOK, DiesStep
  <2> QED BY <2>1, <2>4, <2>5
<1> QED BY <1>1, <1>2, <1>3, <1>4, <1>5 DEF Tool
-----------------------------------------------------------------------------
(* The beginning.                                                          *)
LEMMA IdsOf ==
    ASSUME NEW t, IsFiniteSet(t)
    PROVE  LET s == SetToSeq(t)
           IN  /\ s \in [1 .. Cardinality(t) -> t] /\ Len(s) = Cardinality(t)
               /\ Cardinality(t) \in Nat /\ DOMAIN s = 1 .. Cardinality(t)
               /\ \A i, j \in 1 .. Cardinality(t) : s[i] = s[j] => i = j
               /\ \A p \in t : \E i \in 1 .. Cardinality(t) : s[i] = p
<1> DEFINE n == Cardinality(t)
           s == SetToSeq(t)
<1>1. n \in Nat /\ ExistsBijection(1 .. n, t)
  BY FS_CardinalityType
<1>2. \E f \in [1 .. n -> t] : IsInjective(f)
  BY <1>1 DEF ExistsBijection, Bijection, Injection
<1>3. s \in [1 .. n -> t] /\ IsInjective(s)
  BY <1>2 DEF SetToSeq
<1> HIDE DEF s
<1>4. s \in Injection(1 .. n, t) /\ \A i, j \in 1 .. n : s[i] = s[j] => i = j
  BY <1>3 DEF Injection, IsInjective
<1>5. IsFiniteSet(1 .. n) /\ Cardinality(1 .. n) = n
  <2>1. IsFiniteSet(1 .. n) /\ Cardinality(1 .. n) = IF 1 > n THEN 0 ELSE n - 1 + 1
    BY <1>1, FS_Interval
  <2> HIDE DEF n
  <2> QED BY <1>1, <2>1
<1>6. s \in Surjection(1 .. n, t)
  BY <1>4, <1>5, FS_Injection
<1>7. Len(s) = n
  BY <1>1, <1>3
<1>8. \A p \in t : \E i \in 1 .. n : s[i] = p
  BY <1>6 DEF Surjection
<1> QED BY <1>1, <1>3, <1>4, <1>7, <1>8 DEF s

LEMMA InitInv == Init => IInv
<1> SUFFICES ASSUME Init PROVE IInv
  OBVIOUS
<1>0. PICK t \in Trees : \E what \in [t -> Content \cup {Folder}] :
         (\A p \in t : what[p] \in Holds(p)) /\ InitTree(t, what, SetToSeq(t))
  BY DEF Init
<1>1. PICK what \in [t -> Content \cup {Folder}] :
         (\A p \in t : what[p] \in Holds(p)) /\ InitTree(t, what, SetToSeq(t))
  BY <1>0
<1> DEFINE s == SetToSeq(t)
           n == Cardinality(t)
           at(p) == CHOOSE k \in DOMAIN s : s[k] = p
<1>2. t \subseteq Path /\ 1 .. n \subseteq Id /\ IsFiniteSet(t)
      /\ \A p \in t : \A q \in Path : Under(p, q) => q \in t
  <2>1. /\ t \in SUBSET Path /\ 1 .. n \subseteq Id
        /\ \A p \in t : \A q \in Path : Under(p, q) => q \in t
    BY TreesAssumption
  <2> QED BY <2>1, PathAssumption, FS_Subset
<1>3. /\ s \in [1 .. n -> t] /\ Len(s) = n /\ n \in Nat /\ DOMAIN s = 1 .. n
      /\ \A i, j \in 1 .. n : s[i] = s[j] => i = j
      /\ \A p \in t : \E i \in 1 .. n : s[i] = p
  BY <1>2, IdsOf
<1>4. /\ disk = [p \in Path |-> IF p \in t THEN what[p] ELSE None]
      /\ obj = [i \in Id |-> IF i <= Len(s) THEN Placed(s[i], what[s[i]]) ELSE Unused]
      /\ rows = [p \in Path |->
           IF p \notin t THEN Unlisted
           ELSE IF IsDir(p) THEN FolderRow(at(p))
                            ELSE FileRowOf(at(p), Placed(p, what[p]))]
      /\ kept = {what[p] : p \in t \cap FilePath}
  BY <1>1 DEF InitTree
<1> HIDE DEF s, n
<1>5. \A i \in Id : i <= n <=> i \in 1 .. n
  BY <1>3, IdAssumption
<1>6. TreeOK(disk)
  <2>1. \A p \in Path : disk[p] = IF p \in t THEN what[p] ELSE None
    BY <1>4
  <2>2. disk \in [Path -> Content \cup {Folder, None}]
    BY <1>1, <1>4
  <2>3. \A p \in Path : disk[p] # None => p \in t /\ disk[p] \in Holds(p)
    BY <1>1, <2>1
  <2>4. ASSUME NEW p \in Path, NEW q \in Path, Within(p, q), disk[p] # None
        PROVE  disk[q] # None
    <3>1. q \in t
      BY <1>2, <2>3, <2>4, UnderIs
    <3> QED BY <1>1, <2>1, <2>4, <3>1, KindOfPath
  <2> QED BY <2>2, <2>3, <2>4 DEF TreeOK
<1>7. ASSUME NEW i \in Id
      PROVE  /\ i \in 1 .. n => /\ obj[i] \in Object /\ obj[i].at = s[i] /\ s[i] \in t
                                /\ obj[i].c \in Holds(s[i])
             /\ i \notin 1 .. n => obj[i] \in Object /\ obj[i].at = None
  <2>1. CASE i \in 1 .. n
    <3>1. s[i] \in t /\ s[i] \in Path /\ what[s[i]] \in Holds(s[i])
      BY <1>1, <1>2, <1>3, <2>1
    <3>2. obj[i] = Placed(s[i], what[s[i]])
      BY <1>3, <1>4, <1>5, <2>1
    <3> QED BY <2>1, <3>1, <3>2, PlacedIs
  <2>2. CASE i \notin 1 .. n
    <3>1. obj[i] = Unused
      BY <1>3, <1>4, <1>5, <2>2
    <3>2. Unused \in Object /\ Unused.at = None
      BY DEF Unused, Object
    <3> QED BY <2>2, <3>1, <3>2
  <2> QED BY <2>1, <2>2
<1>8. DriveOK(obj)
  <2>0. \A i \in Id : obj[i].at \in Path => i \in 1 .. n
    BY <1>7, Nowhere
  <2>1. obj \in [Id -> Object]
    <3>1. obj = [i \in Id |-> obj[i]]
      BY <1>4
    <3> QED BY <1>7, <3>1
  <2>2. \A i \in Id : obj[i].at \in Path => obj[i].c \in Holds(obj[i].at)
    BY <1>7, <2>0
  <2>3. ASSUME NEW i \in Id, NEW q \in Path, obj[i].at \in Path, Within(obj[i].at, q)
        PROVE  \E j \in Id : obj[j].at = q
    <3>1. obj[i].at \in t
      BY <1>7, <2>0, <2>3
    <3>2. q \in t
      BY <1>2, <2>3, <3>1, UnderIs
    <3>3. PICK j \in 1 .. n : s[j] = q
      BY <1>3, <3>2
    <3> QED BY <1>2, <1>7, <3>3
  <2>4. ASSUME NEW i \in Id, NEW j \in Id, obj[i].at \in Path, obj[i].at = obj[j].at
        PROVE  i = j
    BY <1>3, <1>7, <2>0, <2>4
  <2> QED BY <2>1, <2>2, <2>3, <2>4 DEF DriveOK
<1>9. ASSUME NEW p \in t PROVE at(p) \in 1 .. n /\ s[at(p)] = p /\ at(p) \in Id
  BY <1>2, <1>3
<1> HIDE DEF at
<1>10. ASSUME NEW p \in Path PROVE rows[p] \in Row /\ Fits(obj, rows[p].id, p)
  <2>1. CASE p \notin t
    <3>1. Unlisted \in Row /\ Unlisted.id = None
      BY DEF Unlisted, Row, Status
    <3> QED BY <1>4, <2>1, <3>1 DEF Fits
  <2>2. CASE p \in t
    <3>1. Fits(obj, at(p), p)
      BY <1>7, <1>9, <2>2 DEF Fits
    <3>2. CASE IsDir(p)
      <4>1. rows[p] = FolderRow(at(p))
        BY <1>4, <2>2, <3>2
      <4>2. FolderRow(at(p)) \in Row /\ FolderRow(at(p)).id = at(p)
        BY <1>9, <2>2, FolderRowIs
      <4> QED BY <3>1, <4>1, <4>2
    <3>3. CASE ~IsDir(p)
      <4>1. rows[p] = FileRowOf(at(p), Placed(p, what[p]))
        BY <1>4, <2>2, <3>3
      <4>2. what[p] \in Content
        BY <1>1, <2>2, <3>3, KindOfPath
      <4>3. FileRowOf(at(p), Placed(p, what[p])) =
                [id |-> at(p), lc |-> what[p], ver |-> 1, rc |-> what[p], st |-> "synced"]
        BY DEF FileRowOf, Placed
      <4> QED BY <1>9, <2>2, <3>1, <4>1, <4>2, <4>3 DEF Row, Status
    <3> QED BY <3>2, <3>3
  <2> QED BY <2>1, <2>2
<1>11. rows \in [Path -> Row] /\ RowsFit(rows, obj)
  <2>1. rows = [p \in Path |-> rows[p]]
    BY <1>4
  <2> QED BY <1>10, <2>1 DEF RowsFit
<1>12. kept \subseteq Content
  BY <1>1, <1>2, <1>4, KindOfPath
<1>13. /\ news = {} /\ todo = {} /\ mode = None /\ left \in 0 .. MaxEnv /\ claimed = {}
  BY ChoicesAssumption DEF Init
<1>14. /\ \A p \in Path : disk[p] # None => disk[p] \in Holds(p) /\ Homed(p)
       /\ disk \in [Path -> Content \cup {Folder, None}]
  BY <1>6, Shapes, <1>8 DEF Homed
<1>15. /\ \A i \in Id : obj[i].at \in Path => obj[i].c \in Holds(obj[i].at) /\ Rooted(obj[i].at)
       /\ obj \in [Id -> Object]
  <2>1. \A j \in Id : obj[j].at \in Path =>
           /\ obj[j].c \in Holds(obj[j].at)
           /\ \A q \in Parents(obj[j].at) : ~({k \in Id : obj[k].at = q} = {})
    BY <1>6, <1>8, Shapes
  <2>2. obj \in [Id -> Object]
    BY <1>8 DEF DriveOK
  <2> QED BY <2>1, <2>2 DEF Rooted, Free, OnDrive
<1>16. \A p \in Path : Cardinality(OnDrive(p)) <= 1
  BY <1>8, OneOfAName DEF OnDrive
<1>17. TypeOK
  BY <1>11, <1>12, <1>13, <1>14, <1>15, <1>16 DEF TypeOK
<1> QED BY <1>11, <1>13, <1>17 DEF IInv
-----------------------------------------------------------------------------
LEMMA StepInv == IInv /\ [Next]_vars => IInv'
<1> SUFFICES ASSUME IInv, [Next]_vars PROVE IInv'
  OBVIOUS
<1>1. CASE Next
  BY <1>1, UserStep, OthersStep, ToolStep DEF Next
<1>2. CASE UNCHANGED vars
  <2>1. /\ disk' = disk /\ obj' = obj /\ kept' = kept /\ rows' = rows /\ news' = news
        /\ todo' = todo /\ mode' = mode /\ left' = left /\ claimed' = claimed
    BY <1>2 DEF vars, drive, pass
  <2> QED BY <2>1, NowOK, InvNext DEF IInv, TypeOK
<1> QED BY <1>1, <1>2

(* TreeSync.TypeOK, for every set of paths, contents, ids and trees, for   *)
(* every mode of the passes and every choice of what others may do: what   *)
(* passes, users, other PCs, failures and crashes leave behind is a tree   *)
(* on either side (nothing hangs in a folder that is not there, a file is  *)
(* never where a folder goes), the drive never has two objects of a name   *)
(* (executor.py's ensure_remote_folder and uploads find what is there      *)
(* first), and a row knows only contents and versions a file can have.     *)
THEOREM TypeCorrect == Spec => []TypeOK
<1>1. Spec => []IInv
  BY InitInv, StepInv, PTL DEF Spec
<1>2. IInv => TypeOK
  BY DEF IInv
<1> QED BY <1>1, <1>2, PTL

(* TreeSync.IInv: besides, an id that a row or a planned action has is     *)
(* that of an object of the kind of its path, so that no folder is taken   *)
(* for a file or the other way round however objects move meanwhile, and   *)
(* what is to be received has been seen.                                   *)
THEOREM PlanMakesSense == Spec => []IInv
BY InitInv, StepInv, PTL DEF Spec
-----------------------------------------------------------------------------
(* An object is written only with a new version.                           *)
Grows(o, n) == \A i \in Id : /\ o[i].ver <= n[i].ver
                             /\ o[i].ver = n[i].ver => n[i].c = o[i].c

LEMMA GrowsSelf == ASSUME NEW o, DriveOK(o) PROVE Grows(o, o)
BY ObjectType DEF Grows

LEMMA GrowsOn ==
    ASSUME NEW o, NEW n, NEW m, DriveOK(o), DriveOK(n), DriveOK(m), Grows(o, n), Grows(n, m)
    PROVE  Grows(o, m)
<1> SUFFICES ASSUME NEW i \in Id
             PROVE  o[i].ver <= m[i].ver /\ (o[i].ver = m[i].ver => m[i].c = o[i].c)
  BY DEF Grows
<1>1. o[i].ver \in Nat /\ n[i].ver \in Nat /\ m[i].ver \in Nat
  BY ObjectType
<1>2. /\ o[i].ver <= n[i].ver /\ (o[i].ver = n[i].ver => n[i].c = o[i].c)
      /\ n[i].ver <= m[i].ver /\ (n[i].ver = m[i].ver => m[i].c = n[i].c)
  BY DEF Grows
<1>3. o[i].ver <= m[i].ver /\ (o[i].ver = m[i].ver => o[i].ver = n[i].ver /\ n[i].ver = m[i].ver)
  BY <1>1, <1>2
<1> QED BY <1>2, <1>3

(* What was recorded stays right.                                          *)
LEMMA RecordedOn ==
    ASSUME NEW o, NEW n, DriveOK(o), DriveOK(n), Grows(o, n), NEW i \in Id,
           NEW v \in Nat \cup {None}, NEW c, NEW k, NEW l, k \subseteq l, Recorded(i, v, c, o, k)
    PROVE  Recorded(i, v, c, n, l)
<1> SUFFICES ASSUME v # None
             PROVE  /\ v <= n[i].ver
                    /\ v = n[i].ver /\ c # None => c = n[i].c \/ <<i, v, c>> \in l
  BY DEF Recorded
<1>1. o[i].ver \in Nat /\ n[i].ver \in Nat /\ v \in Nat
  BY ObjectType
<1>2. /\ o[i].ver <= n[i].ver /\ (o[i].ver = n[i].ver => n[i].c = o[i].c)
      /\ v <= o[i].ver /\ (v = o[i].ver /\ c # None => c = o[i].c \/ <<i, v, c>> \in k)
  BY DEF Grows, Recorded
<1>3. v <= n[i].ver /\ (v = n[i].ver => v = o[i].ver /\ o[i].ver = n[i].ver)
  BY <1>1, <1>2
<1> QED BY <1>2, <1>3

(* RowsSound, row by row.                                                  *)
RowSound(x, p, o, k) ==
    /\ x.st = "none" => x.id = None
    /\ p \in FilePath => /\ x.st = "synced" => x.lc # None
                         /\ x.id # None => Recorded(x.id, x.ver, x.lc, o, k)

LEMMA RowsSoundIs ==
    ASSUME NEW r, NEW o, NEW k
    PROVE  RowsSound(r, o, k) <=> \A p \in Path : RowSound(r[p], p, o, k)
BY PathKinds DEF RowsSound, RowSound

LEMMA RowSoundOn ==
    ASSUME NEW o, NEW n, DriveOK(o), DriveOK(n), Grows(o, n), NEW k, NEW l, k \subseteq l,
           NEW x \in Row, NEW p, RowSound(x, p, o, k)
    PROVE  RowSound(x, p, n, l)
<1>1. x.ver \in Nat \cup {None} /\ x.id \in Id \cup {None}
  BY DEF Row
<1> QED BY <1>1, RecordedOn DEF RowSound

LEMMA RowsSoundOn ==
    ASSUME NEW o, NEW n, DriveOK(o), DriveOK(n), Grows(o, n), NEW k, NEW l, k \subseteq l,
           NEW r \in [Path -> Row], RowsSound(r, o, k)
    PROVE  RowsSound(r, n, l)
BY RowsSoundIs, RowSoundOn

LEMMA UnlistedSound == ASSUME NEW p, NEW o, NEW k PROVE RowSound(Unlisted, p, o, k)
BY DEF RowSound, Unlisted

LEMMA FolderRowSound ==
    ASSUME NEW p \in Path, IsDir(p), NEW i, NEW o, NEW k PROVE RowSound(FolderRow(i), p, o, k)
<1>1. FolderRow(i).st = "synced" /\ p \notin FilePath
  BY KindOfPath DEF FolderRow, Unlisted
<1> QED BY <1>1 DEF RowSound

(* A mark says nothing new of an object.                                   *)
Marks == {"error", "pending_upload", "pending_download"}

LEMMA MarkedSound ==
    ASSUME NEW r, NEW p \in Path, r[p] \in Row, NEW st \in Marks, NEW i, NEW o, NEW k,
           RowSound(r[p], p, o, k)
    PROVE  /\ RowSound(Marked(r, st, p, i), p, o, k)
           /\ r[p].id # None => /\ Marked(r, st, p, i).id = r[p].id
                                /\ Marked(r, st, p, i).lc = r[p].lc
<1> DEFINE x == Marked(r, st, p, i)
<1>1. st # "none" /\ st # "synced"
  BY DEF Marks
<1>2. CASE r[p].st = "none"
  <2>1. x = [Unlisted EXCEPT !.id = i, !.st = st]
    BY <1>2 DEF Marked
  <2>2. x.st = st /\ x.ver = None
    BY <2>1 DEF Unlisted
  <2>3. r[p].id = None
    BY <1>2 DEF RowSound
  <2> HIDE DEF x
  <2>4. RowSound(x, p, o, k)
    BY <1>1, <2>2 DEF RowSound, Recorded
  <2> QED BY <2>3, <2>4 DEF x
<1>3. CASE r[p].st # "none"
  <2>1. x = [r[p] EXCEPT !.st = st]
    BY <1>3 DEF Marked
  <2>2. x.st = st /\ x.id = r[p].id /\ x.ver = r[p].ver /\ x.lc = r[p].lc
    BY <2>1 DEF Row
  <2> HIDE DEF x
  <2>3. RowSound(x, p, o, k)
    BY <1>1, <2>2 DEF RowSound
  <2> QED BY <2>2, <2>3 DEF x
<1> QED BY <1>2, <1>3

(* What is made of the world is sound, too: and the moves of files that are*)
(* planned, D, find the rows they were planned for.                        *)
Stands(D, r) == \A b \in D : b.kind \in MoveKinds /\ ~IsDir(b.path) =>
    r[b.path].id = rows[b.path].id /\ r[b.path].lc = rows[b.path].lc

Fine(D, w) == /\ WorldOK(w) /\ Grows(obj, w.obj) /\ Stands(D, w.rows)
              /\ RowsSound(w.rows, w.obj, claimed \cup w.claims)

LEMMA NowFine == ASSUME SInv, NEW D PROVE Fine(D, Now)
<1>1. IInv /\ RowsSound(rows, obj, claimed)
  BY DEF SInv
<1>2. Grows(obj, obj) /\ claimed \cup Now.claims = claimed
  BY <1>1, NowOK, GrowsSelf
<1> QED BY <1>1, <1>2, NowOK DEF Fine, Stands

LEMMA PutFine ==
    ASSUME NEW D, NEW w, Fine(D, w), NEW p \in Path, NEW x \in Row, Fits(w.obj, x.id, p),
           RowSound(x, p, w.obj, claimed \cup w.claims),
           \A b \in D : b.kind \in MoveKinds /\ ~IsDir(b.path) /\ b.path = p =>
              x.id = w.rows[p].id /\ x.lc = w.rows[p].lc
    PROVE  Fine(D, [w EXCEPT !.rows[p] = x])
<1> DEFINE v == [w EXCEPT !.rows[p] = x]
           r == [w.rows EXCEPT ![p] = x]
<1>1. WorldOK(w) /\ w.rows \in [Path -> Row]
  BY DEF Fine, WorldOK
<1>2. v.obj = w.obj /\ v.claims = w.claims /\ v.rows = r
  BY <1>1 DEF WorldOK
<1>3. WorldOK(v)
  BY <1>1, RowOK
<1>4. \A q \in Path : r[q] = IF q = p THEN x ELSE w.rows[q]
  BY <1>1
<1>5. RowsSound(r, w.obj, claimed \cup w.claims)
  BY <1>4, RowsSoundIs DEF Fine
<1>6. Stands(D, r)
  <2> SUFFICES ASSUME NEW b \in D, b.kind \in MoveKinds, ~IsDir(b.path)
               PROVE  r[b.path].id = rows[b.path].id /\ r[b.path].lc = rows[b.path].lc
    BY DEF Stands
  <2>1. w.rows[b.path].id = rows[b.path].id /\ w.rows[b.path].lc = rows[b.path].lc
    BY DEF Fine, Stands
  <2>2. b.path # p => r[b.path] = w.rows[b.path]
    BY <1>1
  <2> QED BY <1>4, <2>1, <2>2
<1> HIDE DEF v, r
<1>7. Fine(D, v)
  BY <1>2, <1>3, <1>5, <1>6 DEF Fine
<1> QED BY <1>7 DEF v

LEMMA MoveRow ==
    ASSUME SInv, NEW b \in todo, b.kind \in MoveKinds, ~IsDir(b.path)
    PROVE  /\ b.path \in FilePath /\ b.path \in Path
           /\ b.id # None /\ rows[b.path].id = b.id /\ rows[b.path].lc # None
           /\ rows[b.path].st # "none"
           /\ b.kind = "LOCAL_MOVE" => b.r.id = b.id
           /\ b.kind = "REMOTE_MOVE" => b.e = rows[b.path].lc
<1>1. b.path \in Path /\ b.path \in FilePath
  BY KindOfPath DEF SInv, IInv, Sensible
<1>2. Informed(b, rows, obj) /\ RowsSound(rows, obj, claimed)
  BY DEF SInv
<1> QED BY <1>1, <1>2 DEF Informed, RowsSound

LEMMA MarkFine ==
    ASSUME SInv, NEW D \in SUBSET todo, NEW w, Fine(D, w), NEW p \in Path, NEW st \in Marks,
           NEW i \in Id \cup {None}, Fits(w.obj, i, p)
    PROVE  Fine(D, [w EXCEPT !.rows[p] = Marked(w.rows, st, p, i)])
<1> DEFINE x == Marked(w.rows, st, p, i)
<1>1. w.rows \in [Path -> Row] /\ Fits(w.obj, w.rows[p].id, p)
  BY DEF Fine, WorldOK, RowsFit
<1>2. x \in Row /\ x.id \in {i, w.rows[p].id}
  BY <1>1, MarkedIs DEF Marks, Status
<1>3. /\ RowSound(x, p, w.obj, claimed \cup w.claims)
      /\ w.rows[p].id # None => x.id = w.rows[p].id /\ x.lc = w.rows[p].lc
  <2>1. RowSound(w.rows[p], p, w.obj, claimed \cup w.claims)
    BY RowsSoundIs DEF Fine
  <2> QED BY <1>1, <2>1, MarkedSound
<1> HIDE DEF x
<1>4. ASSUME NEW b \in D, b.kind \in MoveKinds, ~IsDir(b.path), b.path = p
      PROVE  w.rows[p].id # None
  <2>1. rows[b.path].id # None
    BY <1>4, MoveRow
  <2> QED BY <1>4, <2>1 DEF Fine, Stands
<1>5. Fits(w.obj, x.id, p)
  BY <1>1, <1>2 DEF Fits
<1>6. Fine(D, [w EXCEPT !.rows[p] = x])
  BY <1>2, <1>3, <1>4, <1>5, PutFine
<1> QED BY <1>6 DEF x

LEMMA FailedFine ==
    ASSUME SInv, NEW D \in SUBSET todo, NEW a, Sensible(a, obj), NEW w, Fine(D, w)
    PROVE  Fine(D, Failed(a, w))
<1> DEFINE id == IF a.r.id # None /\ {p \in Path : w.rows[p].id = a.r.id} \subseteq {a.path}
                 THEN a.r.id ELSE None
<1>1. a.path \in Path /\ a.r.id \in Id \cup {None}
  BY SensibleIs
<1>2. Fits(w.obj, a.r.id, a.path)
  BY <1>1, FitsOn DEF Fine, WorldOK, Sensible
<1>3. Failed(a, w) = [w EXCEPT !.rows[a.path] = Marked(w.rows, "error", a.path, id)]
  BY DEF Failed
<1>4. id \in Id \cup {None} /\ Fits(w.obj, id, a.path)
  BY <1>1, <1>2 DEF Fits
<1> HIDE DEF id
<1>5. "error" \in Marks
  BY DEF Marks
<1>6. Fine(D, [w EXCEPT !.rows[a.path] = Marked(w.rows, "error", a.path, id)])
  BY <1>1, <1>4, <1>5, MarkFine
<1> QED BY <1>3, <1>6

LEMMA KeptFine ==
    ASSUME SInv, NEW D \in SUBSET todo, NEW a, a.path \in Path, NEW st \in Marks,
           NEW w, Fine(D, w)
    PROVE  Fine(D, Kept(a, st, w))
BY MarkFine DEF Kept, Fits

LEMMA ProtectedFine ==
    ASSUME SInv, NEW D \in SUBSET todo, NEW a, a.path \in Path PROVE Fine(D, Protected(a))
BY NowFine, KeptFine DEF Protected, Marks

LEMMA DiskFine ==
    ASSUME NEW D, NEW w, Fine(D, w), NEW d, TreeOK(d) PROVE Fine(D, [w EXCEPT !.disk = d])
<1> DEFINE v == [w EXCEPT !.disk = d]
<1>1. WorldOK(w)
  BY DEF Fine
<1>2. v.obj = w.obj /\ v.claims = w.claims /\ v.rows = w.rows
  BY <1>1 DEF WorldOK
<1>3. WorldOK(v)
  BY <1>1, DiskOK
<1> HIDE DEF v
<1>4. Fine(D, v)
  BY <1>2, <1>3 DEF Fine
<1> QED BY <1>4 DEF v

(* Before anything else come folders, then moves.                          *)
LEMMA MovesFirst ==
    ASSUME NEW a, Ready(a), a.kind \notin MoveKinds \cup DirKinds, NEW b \in todo
    PROVE  b.kind \notin MoveKinds \cup DirKinds
<1>1. ~Before(b, a)
  BY DEF Ready
<1>2. ASSUME b.kind \in MoveKinds \cup DirKinds PROVE FALSE
  <2>1. Rank(b.kind) \in {0, 1}
    <3>1. CASE b.kind \in DirKinds
      <4>1. b.kind \notin MoveKinds \cup TrashKinds \cup {"TOUCH_BASE", "FORGET"}
        BY <3>1 DEF MoveKinds, DirKinds, TrashKinds
      <4> QED BY <3>1, <4>1 DEF Rank
    <3>2. CASE b.kind \in MoveKinds
      <4>1. b.kind \notin DirKinds \cup TrashKinds \cup {"TOUCH_BASE", "FORGET"}
        BY <3>2 DEF MoveKinds, DirKinds, TrashKinds
      <4> QED BY <3>2, <4>1 DEF Rank
    <3> QED BY <1>2, <3>1, <3>2
  <2>2. Rank(a.kind) \in {2, 3, 4}
    BY DEF Rank
  <2> QED BY <1>1, <2>1, <2>2 DEF Before
<1> QED BY <1>2

LEMMA EnsuredFine ==
    ASSUME SInv, Roomy, NEW p \in Path, NEW S, ChainTo(S, p), NEW D \in SUBSET todo
    PROVE  Fine(D, Ensured(S)) /\ Grows(obj, Folders(S))
<1> DEFINE n == Folders(S)
           r == FolderRows(S)
<1>0. /\ IInv /\ DriveOK(obj) /\ rows \in [Path -> Row] /\ RowsSound(rows, obj, claimed)
  BY NowOK DEF SInv
<1>1. /\ WorldOK(Ensured(S)) /\ Ensured(S).obj = n /\ Ensured(S).rows = r
      /\ Ensured(S).claims = {}
  BY <1>0, EnsuredOK, EnsuredIs
<1>2. /\ \A q \in Missing(S) : n[IdFor(S, q)] = Placed(q, Folder)
      /\ \A i \in Id : \/ n[i] = obj[i]
                       \/ obj[i] = Unused /\ \E q \in Missing(S) : i = IdFor(S, q)
  BY <1>0, FoldersAre
<1>3. \A q \in S : IsDir(q)
  BY ChainIs
<1>4. \A q \in Path : r[q] = IF q \in S THEN FolderRow(IdFor(S, q)) ELSE rows[q]
  BY DEF FolderRows
<1> HIDE DEF n, r
<1>5. Grows(obj, n)
  <2> SUFFICES ASSUME NEW i \in Id, n[i] # obj[i]
               PROVE  obj[i].ver <= n[i].ver /\ obj[i].ver # n[i].ver
    BY <1>0, ObjectType DEF Grows
  <2>1. PICK q \in Missing(S) : i = IdFor(S, q)
    BY <1>2
  <2>2. n[i] = Placed(q, Folder) /\ obj[i] = Unused
    BY <1>2, <2>1
  <2>3. n[i].ver = 1 /\ obj[i].ver = 0
    BY <2>2 DEF Placed, Unused
  <2> QED BY <2>3
<1>6. DriveOK(n)
  BY <1>1 DEF WorldOK
<1>7. ASSUME NEW q \in Path PROVE RowSound(r[q], q, n, claimed)
  <2>1. CASE q \in S
    BY <1>3, <1>4, <2>1, FolderRowSound
  <2>2. CASE q \notin S
    <3>1. RowSound(rows[q], q, obj, claimed)
      BY <1>0, RowsSoundIs
    <3>2. RowSound(rows[q], q, n, claimed)
      BY <1>0, <1>5, <1>6, <3>1, RowSoundOn
    <3> QED BY <1>4, <2>2, <3>2
  <2> QED BY <2>1, <2>2
<1>8. RowsSound(r, n, claimed \cup {})
  BY <1>7, RowsSoundIs
<1>9. Stands(D, r)
  <2> SUFFICES ASSUME NEW b \in D, ~IsDir(b.path)
               PROVE  r[b.path].id = rows[b.path].id /\ r[b.path].lc = rows[b.path].lc
    BY DEF Stands
  <2>1. b.path \notin S
    BY <1>3
  <2>2. b.path \in Path
    BY <1>0 DEF IInv, Sensible
  <2> QED BY <1>4, <2>1, <2>2
<1> QED BY <1>1, <1>5, <1>8, <1>9 DEF Fine, n

LEMMA ParentsFine ==
    ASSUME SInv, Roomy, NEW p \in Path, NEW D \in SUBSET todo
    PROVE  Fine(D, Ensured(Parents(p))) /\ Grows(obj, Folders(Parents(p)))
BY EnsuredFine, ParentsChain

LEMMA MkdirRemoteFine ==
    ASSUME SInv, Roomy, NEW a, Sensible(a, obj), a.kind = "MKDIR_REMOTE", NEW D \in SUBSET todo
    PROVE  Fine(D, MkdirRemote(a))
<1>1. a.path \in Path /\ IsDir(a.path)
  BY DEF Sensible, DirKinds
<1> QED BY <1>1, EnsuredFine DEF MkdirRemote, ChainTo

(* A row of a folder is put: no file's record is touched.                  *)
LEMMA FolderFine ==
    ASSUME SInv, NEW D \in SUBSET todo, NEW w, Fine(D, w), NEW p \in Path, IsDir(p),
           NEW i \in Id \cup {None}, Fits(w.obj, i, p)
    PROVE  Fine(D, [w EXCEPT !.rows[p] = FolderRow(i)])
<1> DEFINE x == FolderRow(i)
<1>1. x \in Row /\ x.id = i
  BY FolderRowIs
<1>2. RowSound(x, p, w.obj, claimed \cup w.claims)
  BY FolderRowSound
<1> HIDE DEF x
<1>3. Fine(D, [w EXCEPT !.rows[p] = x])
  BY <1>1, <1>2, PutFine
<1> QED BY <1>3 DEF x

LEMMA MkdirLocalFine ==
    ASSUME SInv, NEW a, Sensible(a, obj), a.kind = "MKDIR_LOCAL", NEW D \in SUBSET todo
    PROVE  Fine(D, MkdirLocal(a))
<1> DEFINE d == WithParents([disk EXCEPT ![a.path] = Folder], a.path)
           w == [Now EXCEPT !.disk = d]
<1>1. /\ a.path \in Path /\ IsDir(a.path) /\ a.r.id \in Id \cup {None}
      /\ Fits(obj, a.r.id, a.path)
  BY SensibleIs DEF Sensible, DirKinds
<1>2. TreeOK(d)
  BY <1>1, NowOK, TreePut, KindOfPath DEF SInv
<1> HIDE DEF d
<1>3. Fine(D, w)
  BY <1>2, NowFine, DiskFine
<1>4. w.obj = obj /\ MkdirLocal(a) = [w EXCEPT !.rows[a.path] = FolderRow(a.r.id)]
  BY DEF MkdirLocal, Now, d
<1> HIDE DEF w
<1> QED BY <1>1, <1>3, <1>4, FolderFine

(* Nothing that is planned depends on the rows of files.                   *)
MoveFree(D) == \A b \in D : b.kind \notin MoveKinds

LEMMA SentFine ==
    ASSUME SInv, NEW a, Sensible(a, obj), ~IsDir(a.path), NEW D \in SUBSET todo, MoveFree(D),
           NEW w, Fine(D, w), w.claims = {}, NEW i \in Id, NEW x \in Object,
           x.c = disk[a.path], x.c \in Content, w.obj[i].ver < x.ver,
           WorldOK(Sent(a, w, i, x))
    PROVE  Fine(D, Sent(a, w, i, x)) /\ Grows(w.obj, Sent(a, w, i, x).obj)
<1> DEFINE v == Sent(a, w, i, x)
           u == UploadRow(a, i, x.ver)
           k == Claims(a, i, x)
<1>0. WorldOK(w)
  BY DEF Fine
<1>1. /\ v.obj = [w.obj EXCEPT ![i] = x] /\ v.rows = [w.rows EXCEPT ![a.path] = u]
      /\ v.claims = k
  BY <1>0, SentIs
<1>2. /\ WorldOK(w) /\ DriveOK(obj) /\ DriveOK(w.obj) /\ DriveOK(v.obj)
      /\ w.obj \in [Id -> Object] /\ w.rows \in [Path -> Row] /\ a.path \in Path
      /\ Grows(obj, w.obj) /\ RowsSound(w.rows, w.obj, claimed)
  BY NowOK, SensibleIs DEF Fine, WorldOK, DriveOK, SInv
<1>3. Grows(w.obj, v.obj)
  <2>1. v.obj[i] = x /\ \A j \in Id \ {i} : v.obj[j] = w.obj[j]
    BY <1>1, <1>2
  <2>2. \A j \in Id : w.obj[j].ver \in Nat
    BY <1>2, ObjectType
  <2>3. x.ver \in Nat
    BY DEF Object
  <2> HIDE DEF v
  <2> QED BY <2>1, <2>2, <2>3 DEF Grows
<1>4. Grows(obj, v.obj)
  BY <1>2, <1>3, GrowsOn
<1>5. RowSound(u, a.path, v.obj, claimed \cup k)
  <2>1. /\ u.id = i /\ u.ver = x.ver /\ u.st \in {"synced", "pending_upload"}
        /\ u.lc \in {None, a.e} /\ u.st = "synced" => u.lc = x.c
    BY DEF UploadRow
  <2>2. v.obj[i] = x /\ x.c # None /\ x.ver \in Nat
    BY <1>1, <1>2, ContentAssumption DEF Object
  <2>3. u.lc # None => u.lc = x.c \/ <<i, x.ver, u.lc>> \in claimed \cup k
    BY DEF Claims
  <2> HIDE DEF u, v, k
  <2>4. Recorded(u.id, u.ver, u.lc, v.obj, claimed \cup k)
    BY <2>1, <2>2, <2>3 DEF Recorded
  <2> QED BY <2>1, <2>2, <2>4 DEF RowSound
<1> HIDE DEF v, u, k
<1>6. ASSUME NEW p \in Path PROVE RowSound(v.rows[p], p, v.obj, claimed \cup k)
  <2>1. CASE p = a.path
    BY <1>1, <1>2, <1>5, <2>1
  <2>2. CASE p # a.path
    <3>1. v.rows[p] = w.rows[p] /\ w.rows[p] \in Row
      BY <1>1, <1>2, <2>2
    <3>2. RowSound(w.rows[p], p, w.obj, claimed)
      BY <1>2, RowsSoundIs
    <3>3. RowSound(w.rows[p], p, v.obj, claimed \cup k)
      BY <1>2, <1>3, <3>1, <3>2, RowSoundOn
    <3> QED BY <3>1, <3>3
  <2> QED BY <2>1, <2>2
<1>7. RowsSound(v.rows, v.obj, claimed \cup v.claims)
  BY <1>1, <1>6, RowsSoundIs
<1>8. Stands(D, v.rows)
  BY DEF Stands, MoveFree
<1>9. Fine(D, v) /\ Grows(w.obj, v.obj)
  BY <1>3, <1>4, <1>7, <1>8 DEF Fine, v
<1> QED BY <1>9 DEF v

LEMMA UploadFine ==
    ASSUME SInv, Roomy, NEW a, Sensible(a, obj), a.kind \in {"UPLOAD_NEW", "UPLOAD_VERSION"},
           NEW D \in SUBSET todo, MoveFree(D)
    PROVE  /\ Fine(D, Upload(a))
           /\ Grows(Ensured(Parents(a.path)).obj, Upload(a).obj)
<1> DEFINE w == Ensured(Parents(a.path))
<1>1. a.path \in Path /\ ~IsDir(a.path) /\ Holds(a.path) = Content
  BY SensibleIs, KindOfPath DEF Sensible, OfFiles
<1>2. Fine(D, w) /\ w.claims = {} /\ IInv
  BY <1>1, ParentsFine, EnsuredIs DEF SInv
<1>3. \/ Upload(a) \in {Failed(a, w), Kept(a, "pending_upload", w)}
      \/ \E i \in Id : \E x \in Object :
            /\ Upload(a) = Sent(a, w, i, x) /\ DriveOK([w.obj EXCEPT ![i] = x])
            /\ x.at = a.path /\ x.c = disk[a.path] /\ x.c \in Content
            /\ \A q \in Path : w.obj[i].c \in Holds(q) => x.c \in Holds(q)
            /\ w.obj[i].ver < x.ver
  BY <1>2, UploadIs
<1> HIDE DEF w
<1>4. CASE Upload(a) \in {Failed(a, w), Kept(a, "pending_upload", w)}
  <2>1. WorldOK(w) /\ "pending_upload" \in Marks /\ "pending_upload" \in Status
    BY <1>2 DEF Fine, Marks, Status
  <2>2. Upload(a).obj = w.obj
    BY <1>1, <1>4, <2>1, FailedOK, KeptOK
  <2>3. Grows(w.obj, w.obj)
    BY <2>1, GrowsSelf DEF WorldOK
  <2>4. Fine(D, Failed(a, w)) /\ Fine(D, Kept(a, "pending_upload", w))
    BY <1>1, <1>2, <2>1, FailedFine, KeptFine
  <2> QED BY <1>4, <2>2, <2>3, <2>4 DEF w
<1>5. ASSUME NEW i \in Id, NEW x \in Object,
             Upload(a) = Sent(a, w, i, x), DriveOK([w.obj EXCEPT ![i] = x]),
             x.at = a.path, x.c = disk[a.path], x.c \in Content,
             \A q \in Path : w.obj[i].c \in Holds(q) => x.c \in Holds(q),
             w.obj[i].ver < x.ver
      PROVE  Fine(D, Upload(a)) /\ Grows(w.obj, Upload(a).obj)
  <2>1. WorldOK(Sent(a, w, i, x))
    BY <1>1, <1>2, <1>5, SentOK DEF Fine
  <2> QED BY <1>1, <1>2, <1>5, <2>1, SentFine
<1>6. CASE \E i \in Id : \E x \in Object :
            /\ Upload(a) = Sent(a, w, i, x) /\ DriveOK([w.obj EXCEPT ![i] = x])
            /\ x.at = a.path /\ x.c = disk[a.path] /\ x.c \in Content
            /\ \A q \in Path : w.obj[i].c \in Holds(q) => x.c \in Holds(q)
            /\ w.obj[i].ver < x.ver
  BY <1>5, <1>6 DEF w
<1> QED BY <1>3, <1>4, <1>6
-----------------------------------------------------------------------------
(* What was recorded before, and what is new.                              *)
LEMMA RowsFine ==
    ASSUME SInv, NEW D, NEW w, WorldOK(w), w.claims = {}, Grows(obj, w.obj),
           Stands(D, w.rows),
           \A p \in Path : w.rows[p] = rows[p] \/ RowSound(w.rows[p], p, w.obj, claimed)
    PROVE  Fine(D, w)
<1>1. /\ DriveOK(obj) /\ DriveOK(w.obj) /\ rows \in [Path -> Row]
      /\ RowsSound(rows, obj, claimed)
  BY NowOK DEF SInv, WorldOK
<1>2. ASSUME NEW p \in Path PROVE RowSound(w.rows[p], p, w.obj, claimed)
  <2>1. CASE w.rows[p] = rows[p]
    <3>1. RowSound(rows[p], p, obj, claimed) /\ rows[p] \in Row
      BY <1>1, RowsSoundIs
    <3>2. RowSound(rows[p], p, w.obj, claimed)
      BY <1>1, <3>1, RowSoundOn
    <3> QED BY <2>1, <3>2
  <2> QED BY <2>1
<1>3. RowsSound(w.rows, w.obj, claimed \cup w.claims)
  BY <1>2, RowsSoundIs
<1> QED BY <1>3 DEF Fine

LEMMA SameFine ==
    ASSUME SInv, NEW D, NEW w, WorldOK(w), w.obj = obj, w.rows = rows, w.claims = {}
    PROVE  Fine(D, w)
<1>1. Grows(obj, obj) /\ Stands(D, rows)
  BY NowOK, GrowsSelf DEF SInv, Stands
<1> QED BY <1>1, RowsFine

LEMMA MoveFreeStands == ASSUME NEW D, MoveFree(D), NEW r PROVE Stands(D, r)
BY DEF MoveFree, Stands

LEMMA PutFree ==
    ASSUME NEW D, MoveFree(D), NEW w, Fine(D, w), NEW p \in Path, NEW x \in Row,
           Fits(w.obj, x.id, p), RowSound(x, p, w.obj, claimed \cup w.claims)
    PROVE  Fine(D, [w EXCEPT !.rows[p] = x])
<1>1. \A b \in D : b.kind \in MoveKinds /\ ~IsDir(b.path) /\ b.path = p =>
              x.id = w.rows[p].id /\ x.lc = w.rows[p].lc
  BY DEF MoveFree
<1> QED BY <1>1, PutFine

LEMMA DiskRowFine ==
    ASSUME NEW D, MoveFree(D), NEW w, Fine(D, w), NEW d, TreeOK(d), NEW p \in Path,
           NEW x \in Row, Fits(w.obj, x.id, p), RowSound(x, p, w.obj, claimed \cup w.claims)
    PROVE  Fine(D, [w EXCEPT !.disk = d, !.rows[p] = x])
<1> DEFINE v == [w EXCEPT !.disk = d]
<1>1. Fine(D, v) /\ v.obj = w.obj /\ v.claims = w.claims
  BY DiskFine DEF Fine, WorldOK
<1>2. [w EXCEPT !.disk = d, !.rows[p] = x] = [v EXCEPT !.rows[p] = x]
  BY DEF Fine, WorldOK
<1> HIDE DEF v
<1>3. Fine(D, [v EXCEPT !.rows[p] = x])
  BY <1>1, PutFree
<1> QED BY <1>2, <1>3

(* What an action has seen of its object may be recorded.                  *)
LEMMA SeenSound ==
    ASSUME SInv, NEW a, Sensible(a, obj), ~IsDir(a.path), Informed(a, rows, obj),
           NEW o, DriveOK(o), Grows(obj, o), NEW k, NEW x \in Row, x.id = a.r.id,
           x.ver = a.r.ver, x.lc = a.r.c, a.r.c # None, x.st # "none"
    PROVE  RowSound(x, a.path, o, k)
<1>1. DriveOK(obj) /\ {} \subseteq k /\ a.r.id \in Id \cup {None}
      /\ a.r.ver \in Nat \cup {None}
  BY NowOK, SensibleIs DEF SInv
<1>2. ASSUME a.r.id # None PROVE Recorded(a.r.id, a.r.ver, a.r.c, o, k)
  <2>1. Recorded(a.r.id, a.r.ver, a.r.c, obj, {}) /\ a.r.id \in Id
    BY <1>1, <1>2 DEF Informed
  <2>2. Recorded(a.r.id, a.r.ver, a.r.c, obj, k)
    BY <2>1 DEF Recorded
  <2> QED BY <1>1, <2>1, <2>2, RecordedOn
<1> QED BY <1>2 DEF RowSound

LEMMA ReceivedFine ==
    ASSUME SInv, NEW a, Sensible(a, obj), a.kind \in Receives, Informed(a, rows, obj),
           NEW D \in SUBSET todo, MoveFree(D), NEW w, Fine(D, w)
    PROVE  Fine(D, Received(a, w))
<1> DEFINE d == WithParents([w.disk EXCEPT ![a.path] = a.r.c], a.path)
           x == [id |-> a.r.id, lc |-> a.r.c, ver |-> a.r.ver, rc |-> a.r.c, st |-> "synced"]
<1>1. /\ a.path \in Path /\ a.r.c \in Holds(a.path) /\ Holds(a.path) = Content
      /\ ~IsDir(a.path) /\ a.r.c # None
      /\ a.r.id \in Id \cup {None} /\ a.r.ver \in Nat \cup {None}
  <2>1. a.r.c \in Holds(a.path) /\ a.r.c # None
    BY DEF Sensible
  <2> QED BY <2>1, SensibleIs, KindOfPath DEF Sensible, OfFiles
<1>2. TreeOK(d)
  BY <1>1, TreePut DEF Fine, WorldOK
<1>3. /\ x \in Row /\ x.id = a.r.id /\ x.ver = a.r.ver /\ x.lc = a.r.c /\ x.st # "none"
  BY <1>1 DEF Row, Status
<1>4. Fits(w.obj, a.r.id, a.path)
  BY <1>1, FitsOn DEF Fine, WorldOK, Sensible
<1>5. Received(a, w) \in {Failed(a, w), [w EXCEPT !.disk = d, !.rows[a.path] = x]}
  BY DEF Received
<1> HIDE DEF d, x
<1>6. RowSound(x, a.path, w.obj, claimed \cup w.claims)
  BY <1>1, <1>3, SeenSound DEF Fine, WorldOK
<1>7. Fine(D, [w EXCEPT !.disk = d, !.rows[a.path] = x])
  BY <1>1, <1>2, <1>3, <1>4, <1>6, DiskRowFine
<1> QED BY <1>5, <1>7, FailedFine

LEMMA DownloadFine ==
    ASSUME SInv, NEW a, Sensible(a, obj), a.kind \in {"DOWNLOAD_NEW", "DOWNLOAD_UPDATE"},
           Informed(a, rows, obj), NEW D \in SUBSET todo, MoveFree(D)
    PROVE  Fine(D, Download(a))
<1>1. a.kind \in Receives /\ a.path \in Path
  BY DEF Receives, Sensible
<1> QED BY <1>1, NowFine, ReceivedFine, ProtectedFine DEF Download

LEMMA SetAsideFine ==
    ASSUME SInv, NEW a, Sensible(a, obj), a.kind = "CONFLICT", NEW D
    PROVE  Fine(D, SetAside(a))
<1>1. WorldOK(SetAside(a)) /\ SetAside(a).obj = obj /\ SetAside(a).rows = rows
  BY SetAsideOK DEF SInv
<1>2. SetAside(a).claims = {}
  BY DEF SetAside, Now
<1> QED BY <1>1, <1>2, SameFine

LEMMA ConflictFine ==
    ASSUME SInv, NEW a, Sensible(a, obj), a.kind = "CONFLICT", Informed(a, rows, obj),
           NEW D \in SUBSET todo, MoveFree(D)
    PROVE  Fine(D, Conflict(a))
<1>1. a.kind \in Receives /\ a.path \in Path
  BY DEF Receives, Sensible
<1> QED BY <1>1, SetAsideFine, ReceivedFine, ProtectedFine DEF Conflict

LEMMA TouchBaseFine ==
    ASSUME SInv, NEW a, Sensible(a, obj), a.kind = "TOUCH_BASE",
           ~IsDir(a.path) => Informed(a, rows, obj), NEW D \in SUBSET todo, MoveFree(D)
    PROVE  Fine(D, TouchBase(a))
<1> DEFINE y == [id |-> a.r.id, lc |-> a.e, ver |-> a.r.ver, rc |-> a.r.c, st |-> "synced"]
           x == IF IsDir(a.path) THEN FolderRow(a.r.id) ELSE y
<1>1. /\ a.path \in Path /\ a.r.id \in Id \cup {None} /\ a.r.ver \in Nat \cup {None}
      /\ ~IsDir(a.path) => a.e \in Content \cup {None} /\ a.r.c \in Content \cup {None}
  BY SensibleIs
<1>2. ~IsDir(a.path) => /\ y \in Row /\ y.id = a.r.id /\ y.ver = a.r.ver /\ y.lc = a.e
                        /\ y.st = "synced"
  BY <1>1 DEF Row, Status
<1>3. x \in Row /\ x.id = a.r.id
  BY <1>1, <1>2, FolderRowIs
<1>4. Fits(obj, a.r.id, a.path)
  BY DEF Sensible
<1>5. TouchBase(a) = [Now EXCEPT !.rows[a.path] = x]
  BY DEF TouchBase
<1>6. Fine(D, Now) /\ Now.obj = obj /\ Now.claims = {} /\ DriveOK(obj)
  BY NowFine, NowOK DEF SInv
<1>7. RowSound(x, a.path, obj, claimed)
  <2>1. CASE IsDir(a.path)
    BY <1>1, <2>1, FolderRowSound
  <2>2. CASE ~IsDir(a.path)
    <3>1. Informed(a, rows, obj) /\ a.e = a.r.c /\ a.e # None
      BY <2>2 DEF Informed
    <3>2. Grows(obj, obj) /\ x = y
      BY <1>6, <2>2, GrowsSelf
    <3> HIDE DEF x, y
    <3> QED BY <1>2, <1>6, <2>2, <3>1, <3>2, SeenSound
  <2> QED BY <2>1, <2>2
<1> HIDE DEF x
<1>8. RowSound(x, a.path, Now.obj, claimed \cup Now.claims) /\ Fits(Now.obj, x.id, a.path)
  BY <1>3, <1>4, <1>6, <1>7
<1> QED BY <1>1, <1>3, <1>5, <1>6, <1>8, PutFree

LEMMA ForgottenFine ==
    ASSUME SInv, NEW p \in Path, NEW w, WorldOK(w), w.rows = Forgotten(p), w.claims = {},
           Grows(obj, w.obj), NEW D, MoveFree(D)
    PROVE  Fine(D, w)
<1>1. \A x \in Path : w.rows[x] \in {Unlisted, rows[x]}
  BY DEF Forgotten
<1> QED BY <1>1, UnlistedSound, MoveFreeStands, RowsFine

LEMMA ForgetFine ==
    ASSUME SInv, NEW a, a.path \in Path, NEW D, MoveFree(D) PROVE Fine(D, Forget(a))
<1>1. WorldOK(Forget(a)) /\ Grows(obj, obj)
  BY NowOK, ForgetOK, GrowsSelf DEF SInv
<1>2. Forget(a).rows = Forgotten(a.path) /\ Forget(a).obj = obj /\ Forget(a).claims = {}
  BY DEF Forget, Now
<1> QED BY <1>1, <1>2, ForgottenFine

LEMMA LocalTrashFine ==
    ASSUME SInv, NEW a, a.path \in Path, NEW D \in SUBSET todo, MoveFree(D)
    PROVE  Fine(D, LocalTrash(a))
<1>1. CASE ChangedSince(a)
  BY <1>1, ProtectedFine DEF LocalTrash
<1>2. CASE ~ChangedSince(a)
  <2>1. WorldOK(LocalTrash(a)) /\ Grows(obj, obj)
    BY NowOK, LocalTrashOK, GrowsSelf DEF SInv
  <2>2. /\ LocalTrash(a).rows = Forgotten(a.path) /\ LocalTrash(a).obj = obj
        /\ LocalTrash(a).claims = {}
    BY <1>2, LocalTrashIs
  <2> QED BY <2>1, <2>2, ForgottenFine
<1> QED BY <1>1, <1>2

LEMMA GrowsSame ==
    ASSUME NEW o, DriveOK(o), NEW n, \A i \in Id : n[i].c = o[i].c /\ n[i].ver = o[i].ver
    PROVE  Grows(o, n)
BY ObjectType DEF Grows

LEMMA GoneGrows ==
    ASSUME DriveOK(obj), NEW S, NEW where PROVE Grows(obj, Gone(obj, S, where))
BY GoneSame, GrowsSame

LEMMA RemoteTrashFine ==
    ASSUME SInv, NEW a, Sensible(a, obj), NEW D \in SUBSET todo, MoveFree(D)
    PROVE  Fine(D, RemoteTrash(a))
<1>1. a.path \in Path /\ WorldOK(RemoteTrash(a)) /\ DriveOK(obj) /\ Now.obj = obj
      /\ Now.claims = {}
  BY SensibleIs, RemoteTrashOK, NowOK DEF SInv
<1>2. CASE a.id = None
  <2>1. RemoteTrash(a) = [Now EXCEPT !.rows[a.path] = Unlisted]
    BY <1>2, RemoteTrashIs
  <2>2. Unlisted \in Row /\ Fits(Now.obj, Unlisted.id, a.path)
    BY DEF Unlisted, Row, Status, Fits
  <2>3. RowSound(Unlisted, a.path, Now.obj, claimed \cup Now.claims) /\ Fine(D, Now)
    BY NowFine, UnlistedSound
  <2> QED BY <1>1, <2>1, <2>2, <2>3, PutFree
<1>3. CASE a.id # None
  <2>1. /\ RemoteTrash(a).obj = Gone(obj, Thrown(a), None)
        /\ RemoteTrash(a).rows = Forgotten(a.path) /\ RemoteTrash(a).claims = {}
    BY <1>3, RemoteTrashIs
  <2>2. Grows(obj, RemoteTrash(a).obj)
    BY <1>1, <2>1, GoneGrows
  <2> QED BY <1>1, <2>1, <2>2, ForgottenFine
<1> QED BY <1>2, <1>3

(* Only its kind makes a path matter to the soundness of a row.            *)
LEMMA RowSoundAt ==
    ASSUME NEW p \in Path, NEW q \in Path, IsDir(p) <=> IsDir(q), NEW x, NEW o, NEW k,
           RowSound(x, p, o, k)
    PROVE  RowSound(x, q, o, k)
BY KindOfPath DEF RowSound

(* A file that moves keeps its object and its baseline.                    *)
LEMMA MovedRowSound ==
    ASSUME SInv, NEW a \in todo, a.kind = "LOCAL_MOVE", ~IsDir(a.path)
    PROVE  /\ RowSound(MovedRow(a), a.path, obj, claimed)
           /\ MovedRow(a).id = rows[a.path].id /\ MovedRow(a).lc = rows[a.path].lc
<1> DEFINE w == rows[a.path]
           x == [w EXCEPT !.id = a.r.id, !.st = "pending_download"]
           y == [id |-> a.r.id, lc |-> w.lc, ver |-> a.r.ver, rc |-> a.r.c, st |-> "synced"]
<1>1. a.path \in Path /\ a.path \in FilePath /\ w \in Row
  BY NowOK, KindOfPath DEF SInv, IInv, Sensible
<1>2. Informed(a, rows, obj) /\ RowSound(w, a.path, obj, claimed)
  BY <1>1, RowsSoundIs DEF SInv
<1>3. a.r.id = w.id /\ w.id # None /\ w.lc # None /\ a.r.ver # None
  BY <1>2 DEF Informed, MoveKinds
<1>4. MovedRow(a) = IF RemoteChanged(FileRow(w), FileRemote(a.r)) THEN x ELSE y
  BY DEF MovedRow
<1>5. CASE RemoteChanged(FileRow(w), FileRemote(a.r))
  <2>1. x.id = w.id /\ x.lc = w.lc /\ x.ver = w.ver /\ x.st = "pending_download"
    BY <1>1, <1>3 DEF Row
  <2> HIDE DEF x
  <2>2. RowSound(x, a.path, obj, claimed)
    BY <1>2, <2>1 DEF RowSound
  <2> QED BY <1>4, <1>5, <2>1, <2>2
<1>6. CASE ~RemoteChanged(FileRow(w), FileRemote(a.r))
  <2>1. FileRow(w).rver = w.ver /\ FileRemote(a.r).ver = a.r.ver
    BY DEF FileRow, FileRemote
  <2>2. w.ver = a.r.ver
    BY <1>3, <1>6, <2>1 DEF RemoteChanged
  <2>3. y.id = w.id /\ y.lc = w.lc /\ y.ver = w.ver /\ y.st = "synced"
    BY <1>3, <2>2
  <2> HIDE DEF y
  <2>4. RowSound(y, a.path, obj, claimed)
    BY <1>2, <1>3, <2>3 DEF RowSound
  <2> QED BY <1>4, <1>6, <2>3, <2>4
<1> QED BY <1>5, <1>6

(* Another move of the plan is not of what is in the tree p, and its row is*)
(* not in the way at the target.                                           *)
LEMMA OtherMoveStays ==
    ASSUME SInv, NEW a \in todo, a.kind = "LOCAL_MOVE", ~RowsInTheWay(a.path, a.to),
           NEW b \in todo \ {a}, b.kind \in MoveKinds, ~IsDir(b.path)
    PROVE  /\ RowsShifted(a.path, a.to)[b.path] = rows[b.path]
           /\ b.path = a.to => IsDir(a.path)
<1> DEFINE p == a.path
           q == a.to
           x == b.path
<1>1. /\ p \in Path /\ q \in Path /\ (IsDir(p) <=> IsDir(q)) /\ x \in Path
      /\ rows \in [Path -> Row]
  BY SensibleIs, NowOK DEF SInv, IInv
<1>2. rows[x].st # "none"
  BY MoveRow
<1>3. a.kind \in MoveKinds /\ Apart(todo)
  BY DEF MoveKinds, SInv
<1>4. x # p /\ (IsDir(p) => ~Under(x, p))
  BY <1>3 DEF Apart
<1>5. ~Within(x, p)
  <2>1. CASE IsDir(p)
    BY <1>1, <1>4, <2>1, UnderIs
  <2>2. CASE ~IsDir(p)
    BY <1>1, <1>4, <2>2, FileIsLeaf
  <2> QED BY <2>1, <2>2
<1>6. ASSUME NEW y \in Path, Within(y, p), rows[y].st # "none", Image(y, p, q) = x PROVE FALSE
  <2>1. y \in Subtree(p)
    BY <1>6 DEF Subtree
  <2> QED BY <1>1, <1>2, <1>6, <2>1 DEF RowsInTheWay
<1>7. x = q => IsDir(p)
  <2> SUFFICES ASSUME x = q, ~IsDir(p) PROVE FALSE
    OBVIOUS
  <2>1. Informed(a, rows, obj) /\ RowsSound(rows, obj, claimed)
    BY DEF SInv
  <2>2. rows[p].st # "none"
    BY <1>1, <1>3, <2>1 DEF Informed, RowsSound
  <2>3. Image(p, p, q) = x /\ Within(p, p)
    BY <1>1, ImageOfRoot, WithinSelf
  <2> QED BY <1>1, <1>6, <2>2, <2>3
<1>8. ASSUME Within(x, q), Image(x, q, p) \in Path, rows[Image(x, q, p)].st # "none"
      PROVE  FALSE
  <2>1. Within(Image(x, q, p), p) /\ Image(Image(x, q, p), p, q) = x
    BY <1>1, <1>8, ImageThere
  <2> QED BY <1>6, <1>8, <2>1
<1>9. RowsShifted(p, q)[x] = rows[x]
  BY <1>1, <1>5, <1>8, RowsMoved
<1> QED BY <1>7, <1>9

LEMMA LocalMoveFine ==
    ASSUME SInv, NEW a \in todo, a.kind = "LOCAL_MOVE"
    PROVE  Fine(todo \ {a}, LocalMove(a))
<1> DEFINE p == a.path
           q == a.to
           D == todo \ {a}
           d == Relocated(p, q)
           w == [Now EXCEPT !.disk = d]
           v == [Now EXCEPT !.disk = WithParents(disk, q)]
           r == RowsShifted(p, q)
           x == IF IsDir(q) THEN FolderRow(a.r.id) ELSE MovedRow(a)
           s == [r EXCEPT ![q] = x]
<1>0. /\ IInv /\ Sensible(a, obj) /\ D \in SUBSET todo /\ rows \in [Path -> Row]
      /\ DriveOK(obj) /\ RowsFit(rows, obj)
  BY NowOK DEF SInv, IInv
<1>1. /\ p \in Path /\ q \in Path /\ (IsDir(p) <=> IsDir(q)) /\ a.r.id \in Id \cup {None}
  BY <1>0, SensibleIs
<1>2. TreeOK(d) /\ TreeOK(WithParents(disk, q))
  BY <1>0, <1>1, NowOK, TreeMoved, TreeWithParents DEF Relocated
<1>3. Fine(D, w) /\ Fine(D, v)
  BY <1>2, NowFine, DiskFine
<1>4. Fine(D, Failed(a, v)) /\ Fine(D, Failed(a, w)) /\ Fine(D, Protected(a))
  <2> HIDE DEF v, w, D
  <2> QED BY <1>0, <1>1, <1>3, FailedFine, ProtectedFine
<1>5. CASE LocalMove(a) = [w EXCEPT !.rows = s] /\ ~RowsInTheWay(p, q)
  <2>1. WorldOK(LocalMove(a)) /\ Grows(obj, obj)
    BY <1>0, LocalMoveOK, GrowsSelf
  <2>2. LocalMove(a).obj = obj /\ LocalMove(a).rows = s /\ LocalMove(a).claims = {}
    <3> HIDE DEF s, d
    <3>1. w = [disk |-> d, obj |-> obj, kept |-> kept, rows |-> rows, ids |-> {},
               gone |-> {}, claims |-> {}]
      BY DEF Now
    <3> HIDE DEF w
    <3> QED BY <1>5, <3>1
  <2>3. r \in [Path -> Row]
    BY <1>0, <1>1, RowsMovedFit
  <2>4. ASSUME NEW y \in Path PROVE RowSound(s[y], y, obj, claimed)
    <3>1. CASE y = q
      <4>1. s[y] = x
        BY <1>1, <2>3, <3>1
      <4>2. CASE IsDir(q)
        BY <1>1, <3>1, <4>1, <4>2, FolderRowSound
      <4>3. CASE ~IsDir(q)
        <5>1. RowSound(MovedRow(a), p, obj, claimed)
          BY <1>1, <4>3, MovedRowSound
        <5>2. RowSound(MovedRow(a), q, obj, claimed)
          BY <1>1, <5>1, RowSoundAt
        <5> QED BY <3>1, <4>1, <4>3, <5>2
      <4> QED BY <4>2, <4>3
    <3>2. CASE y # q
      <4>1. s[y] = r[y]
        BY <1>1, <2>3, <3>2
      <4>2. \A z \in Path : RowSound(rows[z], z, obj, claimed)
        BY RowsSoundIs DEF SInv
      <4>3. \/ /\ Image(y, q, p) \in Path /\ r[y] = rows[Image(y, q, p)]
               /\ IsDir(Image(y, q, p)) <=> IsDir(y)
            \/ r[y] = Unlisted \/ r[y] = rows[y]
        BY <1>0, <1>1, RowsMoved
      <4> HIDE DEF s, r
      <4> QED BY <4>1, <4>2, <4>3, RowSoundAt, UnlistedSound
    <3> QED BY <3>1, <3>2
  <2>5. Stands(D, s)
    <3> SUFFICES ASSUME NEW b \in D, b.kind \in MoveKinds, ~IsDir(b.path)
                 PROVE  s[b.path].id = rows[b.path].id /\ s[b.path].lc = rows[b.path].lc
      BY DEF Stands
    <3>1. r[b.path] = rows[b.path] /\ (b.path = q => IsDir(p))
      BY <1>5, OtherMoveStays
    <3>2. b.path # q
      BY <1>1, <3>1
    <3>3. s[b.path] = r[b.path]
      BY <2>3, <3>2
    <3> QED BY <3>1, <3>3
  <2> HIDE DEF s
  <2> QED BY <2>1, <2>2, <2>4, <2>5, RowsFine
<1>6. \/ LocalMove(a) \in {Protected(a), Failed(a, v), Failed(a, w)}
      \/ LocalMove(a) = [w EXCEPT !.rows = s] /\ ~RowsInTheWay(p, q)
  BY DEF LocalMove
<1> HIDE DEF w, v, s
<1> QED BY <1>4, <1>5, <1>6
-----------------------------------------------------------------------------
LEMMA ObjectPutVer ==
    ASSUME NEW b \in Object, NEW p \in Path
    PROVE  LET n == [b EXCEPT !.at = p]
           IN  n \in Object /\ n.at = p /\ n.c = b.c /\ n.ver = b.ver
BY DEF Object

(* The object goes: to where it is told, under the name it is told.        *)
Told(a) == [Ensured(Parents(a.to)) EXCEPT !.obj[a.id].at = Landing(a), !.ids = @ \cup {a.id}]

LEMMA ToldOK ==
    ASSUME IInv, Roomy, NEW a, Sensible(a, obj), a.kind = "REMOTE_MOVE",
           obj[a.id].at \in Path, Landing(a) = obj[a.id].at \/ Free(Landing(a))
    PROVE  LET w == Ensured(Parents(a.to))
           IN  /\ WorldOK(Told(a)) /\ Keeps(w.obj, Told(a).obj)
               /\ Told(a).rows = w.rows /\ Told(a).claims = {}
               /\ Told(a).disk = disk /\ Told(a).kept = kept
               /\ \A i \in Id : /\ Told(a).obj[i].c = w.obj[i].c
                                /\ Told(a).obj[i].ver = w.obj[i].ver
<1> DEFINE p == a.path
           q == a.to
           S == Parents(q)
           w == Ensured(S)
           L == Landing(a)
           b == obj[a.id]
           x == [b EXCEPT !.at = L]
           v == Told(a)
           n == [w.obj EXCEPT ![a.id] = x]
<1>1. /\ p \in FilePath /\ q \in FilePath /\ p \in Path /\ q \in Path /\ a.id \in Id
      /\ Holds(p) = Content /\ Holds(q) = Content /\ a.e \in Content \cup {None}
      /\ b.c \in Content
  <2>1. ~IsDir(p) /\ a.id # None
    BY DEF Sensible, OfFiles
  <2>2. p \in Path /\ q \in Path /\ ~IsDir(q) /\ a.id \in Id /\ a.e \in Content \cup {None}
    BY <2>1, SensibleIs
  <2>3. Holds(p) = Content /\ Holds(q) = Content /\ p \in FilePath /\ q \in FilePath
    BY <2>1, <2>2, KindOfPath
  <2>4. b.c \in Holds(p)
    BY <2>1 DEF Sensible, Fits
  <2> QED BY <2>2, <2>3, <2>4
<1>2. WorldOK(w) /\ w.obj = Folders(S)
  BY <1>1, EnsuredOK, EnsuredIs, ParentsChain
<1>3. DriveOK(obj)
  BY NowOK
<1>4. /\ \A k \in Id : \/ w.obj[k] = obj[k]
                       \/ /\ obj[k] = Unused
                          /\ \E y \in Missing(S) : k = IdFor(S, y)
      /\ \A y \in Missing(S) : w.obj[IdFor(S, y)] = Placed(y, Folder)
      /\ \A k \in Id : obj[k].at \in Path => w.obj[k] = obj[k]
      /\ \A y \in S : IdFor(S, y) \in Id /\ w.obj[IdFor(S, y)].at = y
  BY <1>1, <1>2, <1>3, FoldersAre, ParentsChain
<1>0. b.at \in Path /\ (L = b.at \/ Free(L)) /\ DriveOK(w.obj) /\ w.claims = {}
      /\ w.disk = disk /\ w.kept = kept
  BY <1>2, EnsuredIs DEF WorldOK
<1> HIDE DEF w, v
<1>5. b.at \in FilePath
  BY <1>1, <1>3, ObjectType, KindOfPath, ContentAssumption
<1>6. L \in FilePath /\ L \in Path /\ ~IsDir(L) /\ Holds(L) = Content
  BY <1>1, <1>5, LandingIs, KindOfPath
<1>7. \A y \in Path : Under(L, y) => Under(b.at, y) \/ Under(q, y)
  BY <1>1, <1>5, LandingIs
<1>8. w.obj[a.id] = b /\ b \in Object
  BY <1>1, <1>3, <1>4, ObjectType
<1> HIDE DEF L, b
<1>9. x \in Object /\ x.at = L /\ x.c = b.c /\ x.ver = b.ver
  BY <1>6, <1>8, ObjectPutVer
<1>10. ASSUME NEW y \in Path, Under(L, y) PROVE \E k \in Id : w.obj[k].at = y
  <2>1. CASE Under(b.at, y)
    <3>1. w.obj[a.id].at \in Path /\ Within(w.obj[a.id].at, y)
      BY <1>0, <1>8, <2>1, UnderIs
    <3> QED BY <1>1, <1>2, <3>1 DEF WorldOK, DriveOK
  <2>2. CASE Under(q, y)
    <3>1. y \in S
      BY <2>2 DEF Parents
    <3> QED BY <1>4, <3>1
  <2> QED BY <1>7, <1>10, <2>1, <2>2
<1>11. ASSUME L # b.at, NEW k \in Id PROVE w.obj[k].at # L
  <2>1. CASE w.obj[k] = obj[k]
    BY <1>0, <1>3, <1>6, <1>11, <2>1, AtPath
  <2>2. CASE \E y \in Missing(S) : k = IdFor(S, y)
    <3>1. PICK y \in Missing(S) : k = IdFor(S, y)
      BY <2>2
    <3>2. w.obj[k] = Placed(y, Folder)
      BY <1>4, <3>1
    <3>3. w.obj[k].at = y /\ Under(q, y) /\ y \in Path
      BY <3>2 DEF Placed, Missing, Parents
    <3> QED BY <1>1, <1>6, <3>3, FoldersAbove
  <2> QED BY <1>4, <2>1, <2>2
<1> HIDE DEF x
<1>12. DriveOK(n)
  <2>1. CASE L = b.at
    <3>1. w.obj[a.id].at \in Path /\ x.at = w.obj[a.id].at /\ x.c \in Holds(x.at)
      BY <1>1, <1>6, <1>8, <1>9, <2>1
    <3> QED BY <1>1, <1>2, <1>9, <3>1, DriveSame DEF WorldOK
  <2>2. CASE L # b.at
    <3>1. w.obj[a.id].at = b.at /\ ~IsDir(b.at) /\ x.c \in Holds(x.at)
      BY <1>1, <1>5, <1>6, <1>8, <1>9, KindOfPath
    <3>2. \A k \in Id : w.obj[k].at # x.at
      BY <1>9, <1>11, <2>2
    <3>3. \A y \in Path : Under(x.at, y) => \E k \in Id : w.obj[k].at = y
      BY <1>9, <1>10
    <3> QED BY <1>1, <1>2, <1>6, <1>9, <3>1, <3>2, <3>3, DrivePlace DEF WorldOK
  <2> QED BY <2>1, <2>2
<1>13. \A k \in Id : n[k].c = w.obj[k].c /\ n[k].ver = w.obj[k].ver
  BY <1>2, <1>8, <1>9 DEF WorldOK, DriveOK
<1>14. v = [disk |-> w.disk, obj |-> n, kept |-> w.kept, rows |-> w.rows,
            ids |-> w.ids \cup {a.id}, gone |-> w.gone, claims |-> w.claims]
  <2> DEFINE m == [w.obj EXCEPT ![a.id].at = L]
  <2>1. m = n
    BY <1>2, <1>8 DEF WorldOK, DriveOK, x
  <2>2. v = [w EXCEPT !.obj = m, !.ids = w.ids \cup {a.id}]
    BY DEF v, Told, w, m, L
  <2>3. w = [disk |-> w.disk, obj |-> w.obj, kept |-> w.kept, rows |-> w.rows,
             ids |-> w.ids, gone |-> w.gone, claims |-> w.claims]
    BY <1>2 DEF WorldOK
  <2> HIDE DEF m, n, v
  <2> QED BY <2>1, <2>2, <2>3
<1>15. Keeps(w.obj, n)
  BY <1>13 DEF Keeps
<1>16. RowsFit(w.rows, n) /\ Keeps(obj, n)
  BY <1>2, <1>15, KeepsOn, FitsOn DEF WorldOK, RowsFit
<1>17. w.ids \cup {a.id} \in SUBSET Id
  BY <1>1, <1>2 DEF WorldOK
<1> HIDE DEF n, v
<1>18. WorldOK(v)
  BY <1>2, <1>12, <1>14, <1>16, <1>17 DEF WorldOK
<1>19. v.obj = n /\ v.rows = w.rows /\ v.claims = {} /\ v.disk = disk /\ v.kept = kept
  BY <1>0, <1>14
<1>20. /\ WorldOK(v) /\ Keeps(w.obj, v.obj) /\ v.rows = w.rows /\ v.claims = {}
       /\ v.disk = disk /\ v.kept = kept
       /\ \A i \in Id : v.obj[i].c = w.obj[i].c /\ v.obj[i].ver = w.obj[i].ver
  BY <1>13, <1>15, <1>18, <1>19
<1> QED BY <1>20 DEF w, v

(* And its record with it, unless another row is there.                    *)
Taken(w, i, c) == [w EXCEPT !.id = i, !.lc = c, !.st = "synced"]

Moved(a) ==
    [[Ensured(Parents(a.to)).rows EXCEPT ![a.path] = Unlisted] EXCEPT ![a.to] =
        Taken(rows[a.path], a.id, a.e)]

LEMMA RemoteMoveIs ==
    ASSUME NEW a
    PROVE  \/ RemoteMoveTo(a) = Failed(a, Ensured(Parents(a.to)))
           \/ /\ obj[a.id].at \in Path
              /\ Landing(a) = obj[a.id].at \/ Free(Landing(a))
              /\ \/ RemoteMoveTo(a) = Failed(a, Told(a))
                 \/ /\ rows[a.to].st = "none"
                    /\ RemoteMoveTo(a) = [Told(a) EXCEPT !.rows = Moved(a)]
BY DEF RemoteMoveTo, Told, Moved, Taken

LEMMA TakenAlong ==
    ASSUME NEW w \in Row, NEW i, NEW c
    PROVE  Taken(w, i, c) =
               [id |-> i, lc |-> c, ver |-> w.ver, rc |-> w.rc, st |-> "synced"]
<1> DEFINE x == [w EXCEPT !.id = i]
           y == [x EXCEPT !.lc = c]
<1>1. x = [id |-> i, lc |-> w.lc, ver |-> w.ver, rc |-> w.rc, st |-> w.st]
  BY DEF Row
<1>2. Taken(w, i, c) = [y EXCEPT !.st = "synced"]
  BY DEF Taken
<1> HIDE DEF x
<1>3. y = [id |-> i, lc |-> c, ver |-> w.ver, rc |-> w.rc, st |-> w.st]
  BY <1>1
<1> HIDE DEF y
<1> QED BY <1>2, <1>3

LEMMA RowsOK ==
    ASSUME NEW w, WorldOK(w), NEW s \in [Path -> Row], RowsFit(s, w.obj)
    PROVE  LET v == [w EXCEPT !.rows = s]
           IN  WorldOK(v) /\ v.obj = w.obj /\ v.rows = s /\ v.claims = w.claims
<1> DEFINE v == [w EXCEPT !.rows = s]
<1>1. v = [disk |-> w.disk, obj |-> w.obj, kept |-> w.kept, rows |-> s,
           ids |-> w.ids, gone |-> w.gone, claims |-> w.claims]
  BY DEF WorldOK
<1>2. WorldOK([disk |-> w.disk, obj |-> w.obj, kept |-> w.kept, rows |-> s,
               ids |-> w.ids, gone |-> w.gone, claims |-> w.claims])
  BY MadeOK DEF WorldOK
<1> HIDE DEF v
<1>3. WorldOK(v) /\ v.obj = w.obj /\ v.rows = s /\ v.claims = w.claims
  BY <1>1, <1>2
<1> QED BY <1>3 DEF v

LEMMA MovedIs ==
    ASSUME IInv, Roomy, NEW a, Sensible(a, obj), a.kind = "REMOTE_MOVE",
           obj[a.id].at \in Path, Landing(a) = obj[a.id].at \/ Free(Landing(a))
    PROVE  /\ Moved(a) \in [Path -> Row] /\ RowsFit(Moved(a), Told(a).obj)
           /\ a.path \in Path /\ a.to \in Path /\ a.id \in Id /\ ~IsDir(a.path)
           /\ Moved(a)[a.to].id = a.id /\ Moved(a)[a.to].lc = a.e
           /\ Moved(a)[a.to].ver = rows[a.path].ver /\ Moved(a)[a.to].st = "synced"
           /\ \A p \in Path \ {a.to} :
                 Moved(a)[p] = IF p = a.path THEN Unlisted
                               ELSE Ensured(Parents(a.to)).rows[p]
<1> DEFINE w == Ensured(Parents(a.to))
           v == Told(a)
           p == a.path
           q == a.to
           u == Taken(rows[p], a.id, a.e)
           r == [w.rows EXCEPT ![p] = Unlisted]
           s == [r EXCEPT ![q] = u]
<1>1. p \in Path /\ q \in Path /\ a.id \in Id /\ ~IsDir(p) /\ a.e \in Content \cup {None}
      /\ Holds(q) = Holds(p)
  BY SensibleIs DEF Sensible, OfFiles
<1>2. WorldOK(w) /\ WorldOK(v) /\ Keeps(w.obj, v.obj) /\ rows \in [Path -> Row]
  BY <1>1, EnsuredOK, ParentsChain, ToldOK, NowOK
<1>3. Unlisted \in Row /\ Unlisted.id = None
  BY DEF Unlisted, Row, Status
<1>4. u \in Row /\ u.id = a.id /\ u.lc = a.e /\ u.ver = rows[p].ver /\ u.st = "synced"
  <2>1. rows[p] \in Row
    BY <1>1, <1>2
  <2>2. u = [id |-> a.id, lc |-> a.e, ver |-> rows[p].ver, rc |-> rows[p].rc, st |-> "synced"]
    BY <2>1, TakenAlong
  <2>3. u \in Row
    BY <1>1, <2>1, <2>2 DEF Row, Status
  <2> HIDE DEF u
  <2> QED BY <2>2, <2>3
<1>5. Fits(v.obj, a.id, q)
  <2>1. Fits(v.obj, a.id, p)
    BY <1>1, <1>2, FitsOn DEF WorldOK, Sensible
  <2> QED BY <1>1, <2>1 DEF Fits
<1>6. RowsFit(w.rows, v.obj) /\ w.rows \in [Path -> Row]
  BY <1>2, FitsOn DEF WorldOK, RowsFit
<1> HIDE DEF u, w, v
<1>7. s \in [Path -> Row] /\ RowsFit(s, v.obj)
  BY <1>1, <1>3, <1>4, <1>5, <1>6 DEF RowsFit, Fits
<1>8. s[q] = u /\ \A x \in Path \ {q} : s[x] = IF x = p THEN Unlisted ELSE w.rows[x]
  BY <1>1, <1>6
<1>9. Moved(a) = s
  BY DEF Moved, w, u
<1> HIDE DEF s
<1> QED BY <1>1, <1>4, <1>7, <1>8, <1>9 DEF w, v

LEMMA RemoteMoveToFine ==
    ASSUME SInv, Roomy, NEW a \in todo, a.kind = "REMOTE_MOVE"
    PROVE  /\ Fine(todo \ {a}, RemoteMoveTo(a))
           /\ Grows(Ensured(Parents(a.to)).obj, RemoteMoveTo(a).obj)
<1> DEFINE D == todo \ {a}
           w == Ensured(Parents(a.to))
           v == Told(a)
           p == a.path
           q == a.to
           s == Moved(a)
<1>0. /\ IInv /\ Sensible(a, obj) /\ D \in SUBSET todo /\ DriveOK(obj) /\ q \in Path
      /\ Informed(a, rows, obj) /\ RowsSound(rows, obj, claimed) /\ Apart(todo)
      /\ a.kind \in MoveKinds
  BY NowOK DEF SInv, IInv, Sensible, OfFiles, MoveKinds
<1>1. Fine(D, w) /\ WorldOK(w) /\ w.claims = {} /\ Grows(w.obj, w.obj)
  BY <1>0, ParentsFine, EnsuredIs, GrowsSelf DEF Fine, WorldOK
<1>2. Fine(D, Failed(a, w)) /\ Failed(a, w).obj = w.obj
  <2> HIDE DEF w, D
  <2> QED BY <1>0, <1>1, FailedFine, FailedOK
<1>3. CASE RemoteMoveTo(a) = Failed(a, w)
  BY <1>1, <1>2, <1>3
<1>4. CASE obj[a.id].at \in Path /\ (Landing(a) = obj[a.id].at \/ Free(Landing(a)))
  <2>1. /\ WorldOK(v) /\ v.rows = w.rows /\ v.claims = {}
        /\ \A i \in Id : v.obj[i].c = w.obj[i].c /\ v.obj[i].ver = w.obj[i].ver
    BY <1>0, <1>4, ToldOK
  <2>2. Grows(w.obj, v.obj) /\ Grows(obj, v.obj) /\ DriveOK(w.obj) /\ DriveOK(v.obj)
    <3>1. DriveOK(w.obj) /\ DriveOK(v.obj) /\ Grows(obj, w.obj)
      BY <1>1, <2>1 DEF Fine, WorldOK
    <3>2. Grows(w.obj, v.obj)
      BY <2>1, <3>1, GrowsSame
    <3> QED BY <1>0, <3>1, <3>2, GrowsOn
  <2>3. /\ s \in [Path -> Row] /\ RowsFit(s, v.obj)
        /\ p \in Path /\ q \in Path /\ a.id \in Id /\ ~IsDir(p)
        /\ s[q].id = a.id /\ s[q].lc = a.e /\ s[q].ver = rows[p].ver /\ s[q].st = "synced"
        /\ \A x \in Path \ {q} : s[x] = IF x = p THEN Unlisted ELSE w.rows[x]
    BY <1>0, <1>4, MovedIs
  <2>4. Fine(D, v)
    <3>1. RowsSound(w.rows, v.obj, claimed \cup {})
      BY <1>1, <2>2, RowsSoundOn DEF Fine, WorldOK
    <3>2. Stands(D, w.rows)
      BY <1>1 DEF Fine
    <3> HIDE DEF v, w
    <3> QED BY <2>1, <2>2, <3>1, <3>2 DEF Fine
  <2>5. Fine(D, Failed(a, v)) /\ Failed(a, v).obj = v.obj
    <3> HIDE DEF v, D
    <3> QED BY <1>0, <2>1, <2>4, FailedFine, FailedOK
  <2>6. ASSUME rows[q].st = "none", RemoteMoveTo(a) = [v EXCEPT !.rows = s]
        PROVE  Fine(D, RemoteMoveTo(a)) /\ RemoteMoveTo(a).obj = v.obj
    <3> HIDE DEF v, w, s
    <3>1. /\ WorldOK(RemoteMoveTo(a)) /\ RemoteMoveTo(a).obj = v.obj
          /\ RemoteMoveTo(a).rows = s /\ RemoteMoveTo(a).claims = {}
      BY <2>1, <2>3, <2>6, RowsOK
    <3>2. ASSUME NEW x \in Path PROVE RowSound(s[x], x, v.obj, claimed)
      <4>1. CASE x = q
        <5>1. /\ rows[p].id = a.id /\ a.e = rows[p].lc /\ rows[p].lc # None
          BY <1>0 DEF Informed
        <5>2. RowSound(rows[p], p, obj, claimed) /\ rows[p] \in Row /\ p \in FilePath
          BY <1>0, <2>3, RowsSoundIs, NowOK, KindOfPath
        <5>3. RowSound(rows[p], p, v.obj, claimed)
          BY <1>0, <2>2, <5>2, RowSoundOn
        <5>4. a.id # None
          BY <1>0 DEF Informed
        <5> QED BY <2>3, <4>1, <5>1, <5>2, <5>3, <5>4 DEF RowSound
      <4>2. CASE x # q /\ x = p
        BY <2>3, <4>2, UnlistedSound
      <4>3. CASE x # q /\ x # p
        <5>1. RowSound(w.rows[x], x, w.obj, claimed) /\ w.rows[x] \in Row
          BY <1>1, RowsSoundIs DEF Fine, WorldOK
        <5>2. RowSound(w.rows[x], x, v.obj, claimed)
          BY <2>2, <5>1, RowSoundOn
        <5> QED BY <2>3, <4>3, <5>2
      <4> QED BY <4>1, <4>2, <4>3
    <3>3. Stands(D, s)
      <4> SUFFICES ASSUME NEW b \in D, b.kind \in MoveKinds, ~IsDir(b.path)
                   PROVE  s[b.path].id = rows[b.path].id /\ s[b.path].lc = rows[b.path].lc
        BY DEF Stands
      <4>1. b.path \in Path /\ rows[b.path].st # "none"
        BY MoveRow
      <4>2. b.path # p /\ b.path # q
        BY <1>0, <2>6, <4>1 DEF Apart
      <4>3. s[b.path] = w.rows[b.path]
        BY <2>3, <4>1, <4>2
      <4>4. Stands(D, w.rows)
        BY <1>1 DEF Fine
      <4> QED BY <4>3, <4>4 DEF Stands
    <3>4. RowsSound(s, v.obj, claimed \cup {})
      BY <3>2, RowsSoundIs
    <3> QED BY <2>2, <3>1, <3>3, <3>4 DEF Fine
  <2> QED BY <1>2, <1>3, <1>4, <2>2, <2>5, <2>6, RemoteMoveIs
<1> QED BY <1>3, <1>4, RemoteMoveIs
-----------------------------------------------------------------------------
LEMMA DoesFine ==
    ASSUME SInv, Roomy, NEW a \in todo, Ready(a) PROVE Fine(todo \ {a}, Does(a))
<1> DEFINE D == todo \ {a}
<1>0. /\ Sensible(a, obj) /\ a.path \in Path /\ D \in SUBSET todo
      /\ ~IsDir(a.path) => Informed(a, rows, obj)
  BY DEF SInv, IInv, Sensible
<1>1. a.kind \notin MoveKinds \cup DirKinds => MoveFree(D)
  BY MovesFirst DEF MoveFree
<1> HIDE DEF D
<1>2. CASE a.kind \in DirKinds
  <2>1. CASE a.kind = "MKDIR_REMOTE"
    <3>1. Fine(D, MkdirRemote(a))
      BY <1>0, <2>1, MkdirRemoteFine
    <3> QED BY <2>1, <3>1 DEF Does, D
  <2>2. CASE a.kind = "MKDIR_LOCAL"
    <3>1. Fine(D, MkdirLocal(a))
      BY <1>0, <2>2, MkdirLocalFine
    <3> QED BY <2>2, <3>1 DEF Does, D
  <2> QED BY <1>2, <2>1, <2>2 DEF DirKinds
<1>3. CASE a.kind \in MoveKinds
  <2>1. CASE a.kind = "LOCAL_MOVE"
    BY <2>1, LocalMoveFine DEF Does
  <2>2. CASE a.kind = "REMOTE_MOVE"
    BY <2>2, RemoteMoveToFine DEF Does
  <2> QED BY <1>3, <2>1, <2>2 DEF MoveKinds
<1>4. CASE a.kind \notin MoveKinds \cup DirKinds
  <2>1. MoveFree(D)
    BY <1>1, <1>4
  <2>2. a.kind \in OfFiles => Informed(a, rows, obj)
    BY <1>0 DEF Sensible
  <2>3. CASE a.kind \in {"UPLOAD_NEW", "UPLOAD_VERSION"}
    BY <1>0, <2>1, <2>3, UploadFine DEF Does, D
  <2>4. CASE a.kind \in {"DOWNLOAD_NEW", "DOWNLOAD_UPDATE"}
    BY <1>0, <2>1, <2>2, <2>4, DownloadFine DEF Does, D, OfFiles, Receives
  <2>5. CASE a.kind = "CONFLICT"
    BY <1>0, <2>1, <2>2, <2>5, ConflictFine DEF Does, D, OfFiles, Receives
  <2>6. CASE a.kind = "LOCAL_TRASH"
    BY <1>0, <2>1, <2>6, LocalTrashFine DEF Does, D
  <2>7. CASE a.kind = "REMOTE_TRASH"
    BY <1>0, <2>1, <2>7, RemoteTrashFine DEF Does, D
  <2>8. CASE a.kind = "TOUCH_BASE"
    BY <1>0, <2>1, <2>8, TouchBaseFine DEF Does, D
  <2>9. CASE a.kind \notin {"UPLOAD_NEW", "UPLOAD_VERSION", "DOWNLOAD_NEW",
                            "DOWNLOAD_UPDATE", "CONFLICT", "LOCAL_TRASH",
                            "REMOTE_TRASH", "TOUCH_BASE"}
    <3>1. Does(a) = Forget(a)
      BY <1>4, <2>9 DEF Does, MoveKinds, DirKinds
    <3> QED BY <1>0, <2>1, <3>1, ForgetFine DEF D
  <2> QED BY <2>3, <2>4, <2>5, <2>6, <2>7, <2>8, <2>9
<1> QED BY <1>2, <1>3, <1>4 DEF D

LEMMA HalvesFine ==
    ASSUME SInv, NEW a, Sensible(a, obj), NEW w \in Halves(a), NEW D PROVE Fine(D, w)
BY NowFine, SetAsideFine DEF Halves

LEMMA FineLess == ASSUME NEW D, NEW w, Fine(D, w) PROVE Fine({}, w)
BY DEF Fine, Stands

(* What recover makes of the rows.                                         *)
LEMMA RecoveredFine ==
    ASSUME SInv, Roomy, NEW a \in todo, Ready(a), NEW w \in Halves(a) \cup {Does(a)}
    PROVE  Fine({}, [w EXCEPT !.rows = Recovered(a, w)])
<1> DEFINE p == a.path
           r == IF w = Now THEN rows ELSE Made(a)
           st == IF a.kind \in {"UPLOAD_NEW", "UPLOAD_VERSION", "REMOTE_MOVE",
                                "MKDIR_REMOTE", "REMOTE_TRASH"}
                 THEN "pending_upload" ELSE "pending_download"
           x == Marked(r, st, p, None)
           s == Recovered(a, w)
           v == [w EXCEPT !.rows = s]
           k == claimed \cup w.claims
<1>0. IInv /\ Sensible(a, obj) /\ p \in Path /\ RowsSound(rows, obj, claimed)
  BY DEF SInv, IInv, Sensible
<1>1. Fine({}, w) /\ WorldOK(w) /\ Grows(obj, w.obj) /\ DriveOK(w.obj)
  <2>1. Fine({}, Does(a))
    BY DoesFine, FineLess
  <2> QED BY <1>0, <2>1, HalvesFine DEF Fine, WorldOK
<1>2. DriveOK(obj) /\ rows \in [Path -> Row] /\ claimed \subseteq k
  BY <1>0, NowOK
<1>3. WorldOK(v)
  BY <1>0, RecoveredOK
<1> HIDE DEF k
<1>4. RowsSound(rows, w.obj, k)
  BY <1>0, <1>1, <1>2, RowsSoundOn
<1>5. r \in [Path -> Row] /\ RowsSound(r, w.obj, k)
  <2>1. CASE w = Now \/ a.kind \notin {"MKDIR_REMOTE", "UPLOAD_NEW", "UPLOAD_VERSION",
                                       "REMOTE_MOVE"}
    <3>1. r = rows
      BY <2>1 DEF Made
    <3> QED BY <1>2, <1>4, <3>1
  <2>2. CASE w # Now /\ a.kind = "MKDIR_REMOTE"
    <3>1. w = MkdirRemote(a) /\ r = w.rows
      BY <2>2 DEF Halves, Made, Does
    <3> QED BY <1>1, <3>1 DEF Fine, WorldOK, k
  <2>3. CASE w # Now /\ a.kind \in {"UPLOAD_NEW", "UPLOAD_VERSION", "REMOTE_MOVE"}
    <3> DEFINE e == Ensured(Parents(a.to))
    <3>1. w = Does(a) /\ r = e.rows /\ a.to \in Path
      <4>1. Halves(a) = {Now}
        BY <2>3 DEF Halves
      <4>2. Made(a) = e.rows
        BY <2>3 DEF Made
      <4>3. a.to \in Path
        BY <1>0 DEF Sensible
      <4> QED BY <2>3, <4>1, <4>2, <4>3
    <3>2. Fine({}, e) /\ e.claims = {}
      BY <3>1, ParentsFine, EnsuredIs
    <3>3. Grows(e.obj, w.obj)
      <4>1. CASE a.kind = "REMOTE_MOVE"
        BY <3>1, <4>1, RemoteMoveToFine DEF Does
      <4>2. CASE a.kind \in {"UPLOAD_NEW", "UPLOAD_VERSION"}
        <5>1. a.to = a.path /\ w = Upload(a)
          BY <1>0, <3>1, <4>2 DEF Sensible, Does
        <5>2. MoveFree({}) /\ {} \in SUBSET todo
          BY DEF MoveFree
        <5>3. Grows(Ensured(Parents(a.path)).obj, Upload(a).obj)
          BY <1>0, <4>2, <5>2, UploadFine
        <5> QED BY <5>1, <5>3
      <4> QED BY <2>3, <4>1, <4>2
    <3> HIDE DEF e, r
    <3>4. /\ DriveOK(e.obj) /\ e.rows \in [Path -> Row]
          /\ RowsSound(e.rows, e.obj, claimed \cup {})
      BY <3>2 DEF Fine, WorldOK
    <3>5. claimed \cup {} \subseteq k
      BY <1>2
    <3>6. RowsSound(e.rows, w.obj, k)
      BY <1>1, <3>3, <3>4, <3>5, RowsSoundOn
    <3> QED BY <3>1, <3>4, <3>6
  <2> QED BY <2>1, <2>2, <2>3
<1> HIDE DEF r
<1>6. RowSound(x, p, w.obj, k)
  <2>1. RowSound(r[p], p, w.obj, k) /\ r[p] \in Row /\ st \in Marks
    BY <1>0, <1>5, RowsSoundIs DEF Marks
  <2> HIDE DEF st
  <2> QED BY <1>0, <2>1, MarkedSound
<1>7. s = rows \/ s = [r EXCEPT ![p] = x]
  BY DEF Recovered, r
<1>8. RowsSound(s, w.obj, k)
  <2>1. CASE s = [r EXCEPT ![p] = x]
    <3>1. \A y \in Path : s[y] = IF y = p THEN x ELSE r[y]
      BY <1>5, <2>1
    <3> HIDE DEF s, x
    <3> QED BY <1>5, <1>6, <3>1, RowsSoundIs
  <2> QED BY <1>4, <1>7, <2>1
<1> HIDE DEF s
<1>9. v.obj = w.obj /\ v.rows = s /\ v.claims = w.claims
  BY <1>1 DEF WorldOK
<1> HIDE DEF v
<1>10. Fine({}, v)
  BY <1>1, <1>3, <1>8, <1>9 DEF Fine, Stands, k
<1> QED BY <1>10 DEF v, s
-----------------------------------------------------------------------------
(* What the view shows is what an object holds when the pass begins.       *)
Current(look) ==
    /\ Shown(look)
    /\ \A p \in Path : look.ent[p].id # None => \E i \in Id : look.ent[p] = EntryOf(i)

LEMMA LookCurrent ==
    ASSUME IInv, NEW m, NEW blind, NEW cold, NEW asked
    PROVE  Current(Look(m, Scanned(blind), blind, cold, asked))
<1> DEFINE look == Look(m, Scanned(blind), blind, cold, asked)
<1>1. ASSUME NEW p \in Path, look.ent[p].id # None PROVE \E i \in Id : look.ent[p] = EntryOf(i)
  <2> DEFINE i == CHOOSE i \in Id : obj[i].at = p
  <2>1. look.ent[p] \in {Unknown, FullEntries[p]}
    BY DEF Look
  <2>2. FullEntries[p] = IF Free(p) THEN Unknown ELSE EntryOf(i)
    BY DEF FullEntries
  <2>3. Unknown.id = None
    BY DEF Unknown
  <2> HIDE DEF look
  <2>4. ~Free(p) /\ look.ent[p] = EntryOf(i)
    BY <1>1, <2>1, <2>2, <2>3
  <2>5. i \in Id
    BY <2>4, NowOK, AtPath
  <2> QED BY <2>4, <2>5
<1>2. Shown(look)
  BY LookShown
<1> HIDE DEF look
<1>3. Current(look)
  BY <1>1, <1>2 DEF Current
<1> QED BY <1>3 DEF look

LEMMA ShownNow ==
    ASSUME IInv, NEW look, Current(look), NEW q \in Path, ~IsDir(q), look.ent[q].id # None
    PROVE  LET r == look.ent[q]
           IN  r.ver # None /\ Recorded(r.id, r.ver, r.c, obj, {})
<1>1. PICK i \in Id : look.ent[q] = EntryOf(i)
  BY DEF Current
<1> DEFINE r == look.ent[q]
<1>2. r.id = i /\ r.c = obj[i].c /\ (r.c # Folder => r.ver = obj[i].ver)
  BY <1>1 DEF EntryOf
<1>3. Holds(q) = Content
  BY KindOfPath
<1>4. r.c \in Content
  BY <1>2, <1>3, ShownIs DEF Current
<1>5. obj[i].ver \in Nat /\ r.ver = obj[i].ver
  BY <1>2, <1>4, NowOK, ObjectType, ContentAssumption
<1> HIDE DEF r
<1>6. r.ver # None /\ r.ver <= obj[i].ver
  BY <1>5, IdAssumption
<1>7. Recorded(r.id, r.ver, r.c, obj, {})
  BY <1>2, <1>6 DEF Recorded
<1> QED BY <1>6, <1>7 DEF r

(* A baseline is adopted when both sides hold the same.                    *)
LEMMA DecideTouch ==
    ASSUME NEW b, NEW e, NEW r, NEW unseen, NEW deleted, NEW complete, NEW propagate,
           NEW lm, NEW rm,
           Decide(b, e, r, unseen, deleted, complete, propagate, lm, rm) = "TOUCH_BASE"
    PROVE  SameContent(e, r, lm, rm) = "yes"
<1>1. DecideNew(e, r, lm, rm) = "TOUCH_BASE" => SameContent(e, r, lm, rm) = "yes"
  BY DEF DecideNew
<1>2. ASSUME NEW absent, NEW observed PROVE DecideGone(b, r, absent, observed, propagate) # "TOUCH_BASE"
  BY DEF DecideGone
<1>3. ASSUME NEW absent, DecideKnown(b, e, r, absent, propagate, lm, rm) = "TOUCH_BASE"
      PROVE  SameContent(e, r, lm, rm) = "yes"
  BY <1>3 DEF DecideKnown
<1> DEFINE absent   == deleted \/ (~Seen(r) /\ complete)
           observed == complete \/ Seen(r) \/ deleted
           k == Decide(b, e, r, unseen, deleted, complete, propagate, lm, rm)
<1>4. \/ k = "REPORT" \/ k = "PROTECT"
      \/ k = DecideNew(e, r, lm, rm)
      \/ k = DecideGone(b, r, absent, observed, propagate)
      \/ k = DecideKnown(b, e, r, absent, propagate, lm, rm)
  BY DEF Decide
<1>5. k = "TOUCH_BASE"
  OBVIOUS
<1> HIDE DEF absent, observed, k
<1> QED BY <1>1, <1>2, <1>3, <1>4, <1>5

LEMMA TouchIs ==
    ASSUME NEW look, NEW p, NEW propagate, FileKind(look, p, propagate) = "TOUCH_BASE"
    PROVE  look.snap[p] = look.ent[p].c /\ look.snap[p] # None
<1> DEFINE e == FileEntry(look.snap[p])
           r == FileRemote(look.ent[p])
           lm == LocalMd5(look, p)
           rm == look.ent[p].c
<1>1. SameContent(e, r, lm, rm) = "yes"
  BY DecideTouch DEF FileKind
<1>2. lm # None /\ lm = rm
  BY <1>1 DEF SameContent
<1>3. lm = look.snap[p]
  BY <1>2 DEF LocalMd5
<1> QED BY <1>2, <1>3

(* The move of a path, of which there is one at most.                      *)
IsMove(d, look) ==
    LET p == d.path
        q == Target(look, p)
        x == CHOOSE x \in Pairs(look) : x[1] = p
    IN  IF p \in MovedRemote(look)
        THEN /\ d = Decision("LOCAL_MOVE", p, q, look.snap[p], look.ent[q], look.rows[p].id)
             /\ look.ent[q].id = look.rows[p].id /\ look.rows[p].id # None
             /\ ~IsDir(p) => look.rows[p].lc # None
        ELSE /\ d = Decision("REMOTE_MOVE", p, x[2], look.snap[x[2]], Unknown, look.rows[p].id)
             /\ look.rows[p].id # None /\ look.rows[p].lc # None
             /\ look.snap[x[2]] = look.rows[p].lc

LEMMA KindsOfMoves ==
    ASSUME NEW look, NEW p, NEW propagate
    PROVE  /\ FolderKind(look, p, propagate) \notin MoveKinds
           /\ FileKind(look, p, propagate) \notin MoveKinds
<1>1. FolderKind(look, p, propagate) \notin MoveKinds
  BY FolderKindIs DEF MoveKinds
<1>2. FileKind(look, p, propagate) \in Kind
  BY FileKindIs
<1>3. Kind \cap MoveKinds = {}
  BY DEF Kind, Acting, MoveKinds
<1> QED BY <1>1, <1>2, <1>3

LEMMA AtIs ==
    ASSUME NEW look, NEW k, NEW p
    PROVE  /\ At(look, k, p).kind = k /\ At(look, k, p).path = p
           /\ At(look, k, p).e = look.snap[p] /\ At(look, k, p).r = look.ent[p]
BY DEF At, Decision

LEMMA MoveIs ==
    ASSUME NEW look, NEW propagate, NEW d \in DiffOf(look, propagate), d.kind \in MoveKinds
    PROVE  IsMove(d, look)
<1> DEFINE away == MovedRemote(look)
           pairs == Pairs(look)
           arrivals == Arrivals(look)
<1>1. PICK p \in Path : d \in DecisionsFor(look, p, propagate, away, pairs, arrivals)
  BY DEF DiffOf
<1>0. /\ "DOWNLOAD_NEW" \notin MoveKinds /\ "MKDIR_LOCAL" \notin MoveKinds
      /\ "FORGET" \notin MoveKinds /\ "PROTECT" \notin MoveKinds
      /\ "REPORT" \notin MoveKinds /\ "DOWNLOAD_UPDATE" \notin MoveKinds
  BY DEF MoveKinds
<1>2. CASE p \in away
  <2> DEFINE q == Target(look, p)
             w == look.rows[p]
  <2>1. d \in RemoteMove(look, p)
    BY <1>1, <1>2 DEF DecisionsFor
  <2>2. \/ d = Decision(IF IsDir(q) THEN "MKDIR_LOCAL" ELSE "DOWNLOAD_NEW",
                        q, q, None, look.ent[q], w.id)
        \/ d = At(look, "FORGET", p) \/ d = At(look, "PROTECT", p)
        \/ d = Decision("DOWNLOAD_NEW", q, q, None, look.ent[q], None)
        \/ d = Decision("REPORT", q, q, look.snap[q], look.ent[q], None)
        \/ (d = Decision("LOCAL_MOVE", p, q, look.snap[p], look.ent[q], w.id)
              /\ (IsDir(p) \/ w.lc # None))
        \/ d = Decision("DOWNLOAD_UPDATE", q, q, look.snap[p], look.ent[q], w.id)
    BY <2>1 DEF RemoteMove, FetchAt, MoveThenUpdate
  <2>3. /\ d = Decision("LOCAL_MOVE", p, q, look.snap[p], look.ent[q], w.id)
        /\ IsDir(p) \/ w.lc # None
    BY <1>0, <2>2 DEF At, Decision
  <2>4. q \in Targets(look, p)
    BY <1>2 DEF MovedRemote, Target
  <2>5. w.id # None /\ look.ent[q].id = w.id
    BY <2>4 DEF Targets
  <2>6. d.path = p
    BY <2>3 DEF Decision
  <2> QED BY <1>2, <2>3, <2>5, <2>6 DEF IsMove
<1>3. CASE p \notin away /\ \E x \in pairs : x[1] = p
  <2> DEFINE x == CHOOSE x \in pairs : x[1] = p
  <2>1. x \in pairs /\ x[1] = p
    BY <1>3
  <2>2. d = Decision("REMOTE_MOVE", p, x[2], look.snap[x[2]], Unknown, look.rows[p].id)
    BY <1>1, <1>3 DEF DecisionsFor
  <2>3. d.path = p
    BY <2>2 DEF Decision
  <2>4. /\ look.rows[p].id # None /\ look.rows[p].lc # None
        /\ look.snap[x[2]] = look.rows[p].lc
    <3> HIDE DEF x
    <3> QED BY <2>1 DEF Pairs, Candidates, GoneFiles
  <2> QED BY <1>3, <2>2, <2>3, <2>4 DEF IsMove
<1>4. CASE p \notin away /\ ~(\E x \in pairs : x[1] = p)
  <2>1. \/ d = At(look, "REPORT", p)
        \/ d = At(look, FolderKind(look, p, propagate), p)
        \/ d = At(look, FileKind(look, p, propagate), p)
    BY <1>1, <1>4 DEF DecisionsFor
  <2> QED BY <1>0, <2>1, KindsOfMoves, AtIs
<1> QED BY <1>2, <1>3, <1>4

LEMMA DiffInformed ==
    ASSUME SInv, NEW look, Current(look), NEW propagate, NEW d \in DiffOf(look, propagate),
           ~IsDir(d.path)
    PROVE  Informed(d, rows, obj)
<1> DEFINE away == MovedRemote(look)
           pairs == Pairs(look)
           arrivals == Arrivals(look)
<1>0. IInv /\ Shown(look) /\ look.rows = rows
  BY DEF SInv, Current, Shown
<1>1. PICK p \in Path : d \in DecisionsFor(look, p, propagate, away, pairs, arrivals)
  BY DEF DiffOf
<1>2. \/ \E q \in Path : ~IsDir(q) /\ d.r = look.ent[q]
      \/ d.r = Unknown
  <2>1. CASE p \in away
    <3> DEFINE q == Target(look, p)
    <3>1. d \in RemoteMove(look, p)
      BY <1>1, <2>1 DEF DecisionsFor
    <3>2. \/ d.path = q /\ d.r = look.ent[q]
          \/ d.path = p /\ d.r = look.ent[p]
          \/ d.path = p /\ d.r = look.ent[q]
      BY <3>1 DEF RemoteMove, FetchAt, MoveThenUpdate, At, Decision
    <3>3. q \in Path /\ (IsDir(q) <=> IsDir(p))
      BY <1>0, <2>1, TargetIs
    <3> QED BY <3>2, <3>3
  <2>2. CASE p \notin away /\ \E x \in pairs : x[1] = p
    BY <1>1, <2>2 DEF DecisionsFor, Decision
  <2>3. CASE p \notin away /\ ~(\E x \in pairs : x[1] = p)
    <3>1. \E k : d = At(look, k, p)
      BY <1>1, <2>3 DEF DecisionsFor
    <3> QED BY <3>1, AtIs
  <2> QED BY <2>1, <2>2, <2>3
<1>3. d.r.id # None => d.r.ver # None /\ Recorded(d.r.id, d.r.ver, d.r.c, obj, {})
  <2>1. Unknown.id = None
    BY DEF Unknown
  <2> QED BY <1>0, <1>2, <2>1, ShownNow
<1>4. d.kind = "TOUCH_BASE" => d.e = d.r.c /\ d.e # None
  <2> SUFFICES ASSUME d.kind = "TOUCH_BASE" PROVE d.e = d.r.c /\ d.e # None
    OBVIOUS
  <2>1. p \notin away
    BY <1>1 DEF DecisionsFor, RemoteMove, FetchAt, MoveThenUpdate, At, Decision
  <2>2. ~(\E x \in pairs : x[1] = p)
    BY <1>1, <2>1 DEF DecisionsFor, Decision
  <2>3. \/ d = At(look, "REPORT", p)
        \/ d = At(look, FolderKind(look, p, propagate), p) /\ IsDir(p)
        \/ d = At(look, FileKind(look, p, propagate), p)
    BY <1>1, <2>1, <2>2 DEF DecisionsFor
  <2>4. d.kind = FileKind(look, p, propagate) /\ d.e = look.snap[p] /\ d.r = look.ent[p]
    BY <2>3, AtIs
  <2> QED BY <2>4, TouchIs
<1>5. ASSUME d.kind \in MoveKinds
      PROVE  /\ d.id # None /\ rows[d.path].id = d.id /\ rows[d.path].lc # None
             /\ d.kind = "LOCAL_MOVE" => d.r.id = d.id
             /\ d.kind = "REMOTE_MOVE" => d.e = rows[d.path].lc
  BY <1>0, <1>5, MoveIs DEF IsMove, Decision
<1>6. "LOCAL_MOVE" \in MoveKinds /\ "REMOTE_MOVE" \in MoveKinds
  BY DEF MoveKinds
<1> QED BY <1>3, <1>4, <1>5, <1>6 DEF Informed

LEMMA PlanApart ==
    ASSUME NEW look, NEW propagate, NEW trashable
    PROVE  Apart(Planned(DiffOf(look, propagate), trashable))
<1> DEFINE D == DiffOf(look, propagate)
           C == Collapsed({d \in Live(D) : trashable \/ d.kind # "LOCAL_TRASH"})
<1>1. /\ Planned(D, trashable) = Settled(C) /\ Settled(C) \subseteq C /\ C \subseteq D
      /\ \A d \in Settled(C) : ~\E m \in C : m.kind \in MoveKinds /\ IsDir(m.path)
                                               /\ Under(d.path, m.path)
  BY DEF Planned, Settled, Collapsed, Live
<1> HIDE DEF C
<1>2. ASSUME NEW a \in D, NEW b \in D, a.kind \in MoveKinds, b.kind \in MoveKinds,
             a.path = b.path
      PROVE  b = a
  <2>1. IsMove(a, look) /\ IsMove(b, look)
    BY <1>2, MoveIs
  <2> QED BY <1>2, <2>1 DEF IsMove
<1> HIDE DEF D
<1>3. Apart(Settled(C))
  BY <1>1, <1>2 DEF Apart
<1> QED BY <1>1, <1>3 DEF D

LEMMA ApartLess == ASSUME NEW D, NEW E, E \subseteq D, Apart(D) PROVE Apart(E)
BY DEF Apart
-----------------------------------------------------------------------------
LEMMA DriveIs == IInv => DriveOK(obj)
BY NowOK

LEMMA DriveNext == IInv' => DriveOK(obj')
<1>1. IInv' => DriveOK(obj)'
  BY DriveIs, PTL
<1> QED BY <1>1

(* What the next state needs.                                              *)
LEMMA SoundNext ==
    ASSUME SInv, IInv', Grows(obj, obj'), RowsSound(rows', obj', claimed'),
           todo' \subseteq todo, Stands(todo', rows')
    PROVE  SInv'
<1>1. /\ DriveOK(obj) /\ DriveOK(obj') /\ IInv /\ \A a \in todo : Sensible(a, obj)
  <2>1. DriveOK(obj)
    BY NowOK DEF SInv
  <2>2. DriveOK(obj')
    BY DriveNext
  <2> QED BY <2>1, <2>2 DEF SInv, IInv
<1>2. Apart(todo')
  BY ApartLess DEF SInv
<1>3. ASSUME NEW a \in todo', ~IsDir(a.path) PROVE Informed(a, rows', obj')
  <2>1. Informed(a, rows, obj) /\ a.r \in Sight
    BY <1>1, <1>3 DEF SInv, Sensible
  <2>2. a.r.id # None => a.r.id \in Id /\ a.r.ver \in Nat \cup {None}
    BY <2>1 DEF Sight
  <2>3. a.r.id # None => Recorded(a.r.id, a.r.ver, a.r.c, obj', {})
    BY <1>1, <2>1, <2>2, RecordedOn DEF Informed
  <2>4. a.kind \in MoveKinds => /\ rows'[a.path].id = rows[a.path].id
                                /\ rows'[a.path].lc = rows[a.path].lc
    BY <1>3 DEF Stands
  <2>5. a.kind \in {"LOCAL_MOVE", "REMOTE_MOVE"} <=> a.kind \in MoveKinds
    BY DEF MoveKinds
  <2> QED BY <2>1, <2>3, <2>4, <2>5 DEF Informed
<1>4. RowsSound(rows, obj, claimed)' /\ Apart(todo)'
      /\ (\A a \in todo : ~IsDir(a.path) => Informed(a, rows, obj))'
  BY <1>2, <1>3
<1> QED BY <1>4 DEF SInv

LEMMA SameSound ==
    ASSUME SInv, IInv', UNCHANGED <<obj, rows, todo, claimed>> PROVE SInv'
BY DEF SInv

LEMMA UserSound == ASSUME SInv, IInv', User PROVE SInv'
<1>1. UNCHANGED <<drive, rows, pass, claimed>>
  BY DEF User, Save, Delete, Rename
<1> QED BY <1>1, SameSound DEF drive, pass

(* Another PC gives an object a new version with a new content.            *)
LEMMA OthersGrow == ASSUME IInv, Others PROVE Grows(obj, obj')
<1>0. DriveOK(obj) /\ obj \in [Id -> Object]
  BY NowOK DEF DriveOK
<1>1. ASSUME NEW i \in Id, OtherWrites(i) PROVE Grows(obj, obj')
  <2>1. PICK c \in Content : obj' = [obj EXCEPT ![i].c = c, ![i].ver = @ + 1]
    BY <1>1 DEF OtherWrites
  <2>2. obj[i].ver \in Nat
    BY <1>0, ObjectType
  <2>3. ASSUME NEW j \in Id
        PROVE  obj[j].ver <= obj'[j].ver /\ (obj[j].ver = obj'[j].ver => obj'[j].c = obj[j].c)
    <3>1. CASE j # i
      <4>1. obj'[j] = obj[j] /\ obj[j].ver \in Nat
        BY <1>0, <2>1, <3>1, ObjectType
      <4> QED BY <4>1
    <3>2. CASE j = i
      <4>1. obj'[j].ver = obj[j].ver + 1
        BY <1>0, <2>1, <3>2 DEF Object
      <4> QED BY <2>2, <3>2, <4>1
    <3> QED BY <3>1, <3>2
  <2> QED BY <2>3 DEF Grows
<1>2. ASSUME NEW p \in Path, OtherCreates(p) PROVE Grows(obj, obj')
  <2>1. NewId(obj) \in NewIds(obj)
    <3>1. /\ NewIds(obj) \in SUBSET Nat /\ IsFiniteSet(NewIds(obj))
          /\ Cardinality(NewIds(obj)) \in Nat
      BY <1>0, NewIdsFinite
    <3>2. Cardinality(NewIds(obj)) > Cardinality(Parents(p)) /\ Cardinality(Parents(p)) \in Nat
      BY <1>2, ParentsFinite DEF OtherCreates, Roomy
    <3>3. Cardinality(NewIds(obj)) # 0
      BY <3>1, <3>2
    <3>4. NewIds(obj) # {}
      BY <3>1, <3>3, FS_EmptySet
    <3>5. \E k \in NewIds(obj) : \A l \in NewIds(obj) : k <= l
      BY <3>1, <3>4, Least
    <3> QED BY <3>5 DEF NewId
  <2>2. PICK c : obj' = [obj EXCEPT ![NewId(obj)] = Placed(p, c)]
    BY <1>2 DEF OtherCreates
  <2>3. obj[NewId(obj)] = Unused /\ NewId(obj) \in Id
    BY <2>1 DEF NewIds
  <2>4. ASSUME NEW j \in Id
        PROVE  obj[j].ver <= obj'[j].ver /\ (obj[j].ver = obj'[j].ver => obj'[j].c = obj[j].c)
    <3>1. obj[j].ver \in Nat
      BY <1>0, ObjectType
    <3>2. CASE j = NewId(obj)
      <4>1. obj'[j].ver = 1 /\ obj[j].ver = 0
        BY <1>0, <2>2, <2>3, <3>2 DEF Placed, Unused
      <4> QED BY <4>1
    <3>3. CASE j # NewId(obj)
      BY <1>0, <2>2, <3>1, <3>3
    <3> QED BY <3>2, <3>3
  <2> QED BY <2>4 DEF Grows
<1>3. ASSUME NEW S, NEW where, obj' = Gone(obj, S, where) PROVE Grows(obj, obj')
  BY <1>0, <1>3, GoneGrows
<1>4. ASSUME NEW i \in Id, NEW q \in Path, obj' = Carried(i, q) PROVE Grows(obj, obj')
  <2>1. ASSUME NEW j \in Id PROVE obj'[j].ver = obj[j].ver /\ obj'[j].c = obj[j].c
    <3>1. obj[j] \in Object
      BY <1>0
    <3>2. \/ obj'[j] = obj[j]
          \/ \E x : obj'[j] = [obj[j] EXCEPT !.at = x]
      BY <1>4 DEF Carried
    <3> QED BY <3>1, <3>2 DEF Object
  <2>2. \A j \in Id : obj[j].ver \in Nat
    BY <1>0, ObjectType
  <2> QED BY <2>1, <2>2 DEF Grows
<1> QED BY <1>1, <1>2, <1>3, <1>4
        DEF Others, OtherTrashes, OtherMovesOut, OtherMoves

LEMMA OthersSound == ASSUME SInv, IInv', Others PROVE SInv'
<1>1. IInv /\ DriveOK(obj) /\ rows \in [Path -> Row] /\ RowsSound(rows, obj, claimed)
  BY NowOK DEF SInv
<1>2. rows' = rows /\ todo' = todo /\ claimed' = claimed
  BY DEF Others, OtherWrites, OtherCreates, OtherTrashes, OtherMoves, OtherMovesOut, pass
<1>3. Grows(obj, obj')
  BY <1>1, OthersGrow
<1>4. DriveOK(obj')
  BY DriveNext
<1>5. RowsSound(rows', obj', claimed')
  BY <1>1, <1>2, <1>3, <1>4, RowsSoundOn
<1>6. Stands(todo', rows') /\ todo' \subseteq todo
  BY <1>2 DEF Stands
<1> QED BY <1>3, <1>5, <1>6, SoundNext

LEMMA BeginSound ==
    ASSUME SInv, IInv', NEW m \in Modes, NEW blind, NEW cold, NEW trashable,
           Begin(m, blind, cold, trashable)
    PROVE  SInv'
<1> DEFINE look(asked) == Look(m, Scanned(blind), blind, cold, asked)
           plan(asked) == Planned(DiffOf(look(asked), m.propagate), trashable)
           acts(asked) == IF m.unattended THEN plan(asked) \ HeldBack(plan(asked), rows)
                                          ELSE plan(asked)
           marked(asked) == [p \in Path |-> IF p \in HashFailures(look(asked))
                                            THEN Marked(rows, "error", p, None) ELSE rows[p]]
<1>0. /\ IInv /\ DriveOK(obj) /\ rows \in [Path -> Row] /\ RowsSound(rows, obj, claimed)
  BY NowOK DEF SInv
<1>1. obj' = obj /\ claimed' = claimed
  BY DEF Begin
<1>2. PICK asked :
         \/ UNCHANGED <<rows, todo, took, news, feed, mode, snap, unobs>>
         \/ rows' = marked(asked) /\ todo' = acts(asked)
  <2>1. PICK asked \in {Dirty \cup Lost(Scanned(blind))}
                          \cup IF m.propagate THEN {} ELSE {Dirty} :
         \/ UNCHANGED <<rows, todo, took, news, feed, mode, snap, unobs>>
         \/ rows' = marked(asked) /\ todo' = acts(asked)
    BY DEF Begin
  <2> QED BY <2>1
<1>3. CASE UNCHANGED <<rows, todo, took, news, feed, mode, snap, unobs>>
  BY <1>1, <1>3, SameSound
<1>4. CASE rows' = marked(asked) /\ todo' = acts(asked)
  <2>1. Current(look(asked))
    BY <1>0, LookCurrent
  <2>2. acts(asked) \subseteq DiffOf(look(asked), m.propagate)
    BY PlannedIs
  <2>3. acts(asked) \subseteq plan(asked) /\ Apart(plan(asked))
    BY PlanApart
  <2>4. Apart(acts(asked))
    BY <2>3, ApartLess
  <2>5. ASSUME NEW p \in Path
        PROVE  /\ RowSound(marked(asked)[p], p, obj, claimed)
               /\ rows[p].id # None => /\ marked(asked)[p].id = rows[p].id
                                       /\ marked(asked)[p].lc = rows[p].lc
    <3>1. RowSound(rows[p], p, obj, claimed) /\ rows[p] \in Row /\ "error" \in Marks
      BY <1>0, RowsSoundIs DEF Marks
    <3>2. marked(asked)[p] \in {Marked(rows, "error", p, None), rows[p]}
      OBVIOUS
    <3> HIDE DEF marked
    <3> QED BY <3>1, <3>2, MarkedSound
  <2>6. ASSUME NEW a \in acts(asked), ~IsDir(a.path) PROVE Informed(a, marked(asked), obj)
    <3> HIDE DEF look, acts, marked
    <3>1. Informed(a, rows, obj)
      BY <2>1, <2>2, <2>6, DiffInformed
    <3>2. a.kind \in MoveKinds => /\ a.path \in Path /\ rows[a.path].id # None
                                  /\ marked(asked)[a.path].id = rows[a.path].id
                                  /\ marked(asked)[a.path].lc = rows[a.path].lc
      <4>1. a.path \in Path
        BY <1>0, <2>1, <2>2, DiffSensible DEF Current, Sensible
      <4> QED BY <2>5, <3>1, <4>1 DEF Informed
    <3>3. a.kind \in {"LOCAL_MOVE", "REMOTE_MOVE"} <=> a.kind \in MoveKinds
      BY DEF MoveKinds
    <3> QED BY <3>1, <3>2, <3>3 DEF Informed
  <2> HIDE DEF marked, acts
  <2>7. RowsSound(marked(asked), obj, claimed)
    BY <2>5, RowsSoundIs
  <2>8. RowsSound(rows, obj, claimed)' /\ Apart(todo)'
        /\ (\A a \in todo : ~IsDir(a.path) => Informed(a, rows, obj))'
    BY <1>1, <1>4, <2>4, <2>6, <2>7
  <2> QED BY <2>8 DEF SInv
<1> QED BY <1>2, <1>3, <1>4

LEMMA FinishSound ==
    ASSUME SInv, IInv', NEW a \in todo, NEW w, Fine(todo \ {a}, w), Finish(a, w) PROVE SInv'
<1>1. /\ obj' = w.obj /\ rows' = w.rows /\ claimed' = claimed \cup w.claims
      /\ todo' = todo \ {a}
  BY DEF Finish, Becomes
<1>2. Grows(obj, obj') /\ RowsSound(rows', obj', claimed') /\ Stands(todo', rows')
  BY <1>1 DEF Fine
<1> QED BY <1>1, <1>2, SoundNext

LEMMA DiesSound == ASSUME SInv, IInv', NEW w, Fine({}, w), Dies(w) PROVE SInv'
<1>1. /\ obj' = w.obj /\ rows' = w.rows /\ claimed' = claimed \cup w.claims
      /\ todo' = {}
  BY DEF Dies, Becomes
<1>2. Grows(obj, obj') /\ RowsSound(rows', obj', claimed') /\ Stands(todo', rows')
  BY <1>1 DEF Fine
<1> QED BY <1>1, <1>2, SoundNext

LEMMA ToolSound == ASSUME SInv, IInv', Tool PROVE SInv'
<1>0. \A a \in todo : Sensible(a, obj)
  BY DEF SInv, IInv
<1>1. CASE BeginWell
  BY <1>1, BeginSound DEF BeginWell
<1>2. CASE BeginBadly
  <2>1. PICK m, blind, cold, trashable : m \in Modes /\ Begin(m, blind, cold, trashable)
    BY <1>2 DEF BeginBadly
  <2> QED BY <2>1, BeginSound
<1>3. CASE Do
  <2>1. PICK a \in todo : Ready(a) /\ Roomy /\ Finish(a, Does(a))
    BY <1>3 DEF Do
  <2>2. Fine(todo \ {a}, Does(a))
    BY <2>1, DoesFine
  <2> QED BY <2>1, <2>2, FinishSound
<1>4. CASE Fail
  <2>1. PICK a \in todo :
           \E w \in Halves(a) : Finish(a, IF a.kind = "LOCAL_TRASH" THEN w ELSE Failed(a, w))
    BY <1>4 DEF Fail
  <2>2. PICK w \in Halves(a) : Finish(a, IF a.kind = "LOCAL_TRASH" THEN w ELSE Failed(a, w))
    BY <2>1
  <2> DEFINE D == todo \ {a}
  <2>3. D \in SUBSET todo
    OBVIOUS
  <2> HIDE DEF D
  <2>4. Fine(D, w) /\ Fine(D, Failed(a, w))
    BY <1>0, <2>3, HalvesFine, FailedFine
  <2> QED BY <2>2, <2>4, FinishSound DEF D
<1>5. CASE Crash
  <2>1. PICK a \in todo :
           /\ Ready(a) /\ Roomy
           /\ \/ \E w \in {Now, Does(a)} : Dies(w)
              \/ \E w \in Halves(a) \cup {Does(a)} :
                    Dies([w EXCEPT !.rows = Recovered(a, w)])
    BY <1>5 DEF Crash
  <2>2. Fine({}, Now) /\ Fine({}, Does(a))
    BY <2>1, NowFine, DoesFine, FineLess
  <2>3. ASSUME NEW w \in Halves(a) \cup {Does(a)}, Dies([w EXCEPT !.rows = Recovered(a, w)])
        PROVE  SInv'
    BY <2>1, <2>3, RecoveredFine, DiesSound
  <2> QED BY <2>1, <2>2, <2>3, DiesSound
<1> QED BY <1>1, <1>2, <1>3, <1>4, <1>5 DEF Tool

(* The rows of a synced folder.                                            *)
LEMMA InitSound == Init => SInv
<1> SUFFICES ASSUME Init PROVE SInv
  OBVIOUS
<1>0. PICK t, what :
         t \in Trees /\ what \in [t -> Content \cup {Folder}]
           /\ (\A p \in t : what[p] \in Holds(p)) /\ InitTree(t, what, SetToSeq(t))
  BY DEF Init
<1> DEFINE s == SetToSeq(t)
           n == Cardinality(t)
           at(p) == CHOOSE k \in DOMAIN s : s[k] = p
<1>1. t \subseteq Path /\ 1 .. n \subseteq Id /\ IsFiniteSet(t)
  <2>1. t \in SUBSET Path /\ 1 .. n \subseteq Id
    BY <1>0, TreesAssumption
  <2> QED BY <2>1, PathAssumption, FS_Subset
<1>2. /\ Len(s) = n /\ n \in Nat /\ DOMAIN s = 1 .. n
      /\ \A p \in t : \E i \in 1 .. n : s[i] = p
  BY <1>1, IdsOf
<1>3. /\ obj = [i \in Id |-> IF i <= Len(s) THEN Placed(s[i], what[s[i]]) ELSE Unused]
      /\ rows = [p \in Path |->
           IF p \notin t THEN Unlisted
           ELSE IF IsDir(p) THEN FolderRow(at(p))
                            ELSE FileRowOf(at(p), Placed(p, what[p]))]
  BY <1>0 DEF InitTree
<1> HIDE DEF s, n
<1>4. ASSUME NEW p \in t PROVE at(p) \in 1 .. n /\ s[at(p)] = p /\ at(p) \in Id
  BY <1>1, <1>2
<1> HIDE DEF at
<1>5. ASSUME NEW p \in Path PROVE RowSound(rows[p], p, obj, claimed)
  <2>1. CASE p \notin t
    BY <1>3, <2>1, UnlistedSound
  <2>2. CASE p \in t /\ IsDir(p)
    BY <1>3, <2>2, FolderRowSound
  <2>3. CASE p \in t /\ ~IsDir(p)
    <3>1. rows[p] = FileRowOf(at(p), Placed(p, what[p]))
      BY <1>3, <2>3
    <3>2. obj[at(p)] = Placed(p, what[p])
      BY <1>2, <1>3, <1>4, <2>3
    <3>3. what[p] \in Content
      BY <1>0, <2>3, KindOfPath
    <3>4. /\ rows[p].st = "synced" /\ rows[p].lc = what[p] /\ rows[p].id = at(p)
          /\ rows[p].ver = 1 /\ obj[at(p)].ver = 1 /\ obj[at(p)].c = what[p]
      BY <3>1, <3>2 DEF FileRowOf, Placed
    <3>5. what[p] # None
      BY <3>3, ContentAssumption
    <3> QED BY <3>4, <3>5 DEF RowSound, Recorded
  <2> QED BY <2>1, <2>2, <2>3
<1>6. RowsSound(rows, obj, claimed)
  BY <1>5, RowsSoundIs
<1>7. todo = {}
  BY DEF Init
<1> QED BY <1>6, <1>7, InitInv DEF SInv, Apart

LEMMA StepSound == SInv /\ [Next]_vars => SInv'
<1> SUFFICES ASSUME SInv, [Next]_vars PROVE SInv'
  OBVIOUS
<1>1. IInv'
  BY StepInv DEF SInv
<1>2. CASE Next
  BY <1>1, <1>2, UserSound, OthersSound, ToolSound DEF Next
<1>3. CASE UNCHANGED vars
  BY <1>1, <1>3, SameSound DEF vars, drive, pass
<1> QED BY <1>2, <1>3

(* TreeSync.SInv: a row is never ahead of the object it names, and while   *)
(* the object keeps that version, what the row knows of it is what it      *)
(* holds, or a record known to be wrong (claimed). What an action of the   *)
(* plan saw of its object is not ahead of it either, whatever others did   *)
(* to the drive since differ.diff; and the moves of executor.py still find *)
(* the rows they were planned for, whatever is done before them.           *)
THEOREM PlanIsInformed == Spec => []SInv
BY InitSound, StepSound, PTL DEF Spec

(* TreeSync.BaseSoundTree, for every set of paths, contents, ids and trees *)
(* and every choice of what others may do: a row that the uploads,         *)
(* downloads, moves, adoptions (TOUCH_BASE) and the recovery of            *)
(* executor.py leave "synced" never says of an object, at the version it   *)
(* still has, another content than it holds, but for an upload that        *)
(* recorded the MD5 of the scan and sent other bytes.                      *)
THEOREM BaseIsSound == Spec => []BaseSoundTree
<1>1. SInv => BaseSoundTree
  <2> SUFFICES ASSUME SInv, NEW p \in FilePath, NEW i \in Id,
                      rows[p].id = i, rows[p].st = "synced", rows[p].ver = obj[i].ver
               PROVE  rows[p].lc = obj[i].c \/ <<i, rows[p].ver, rows[p].lc>> \in claimed
    BY DEF BaseSoundTree
  <2>1. obj[i].ver \in Nat
    BY NowOK, ObjectType DEF SInv
  <2>2. i # None /\ rows[p].ver # None
    BY <2>1, IdAssumption
  <2>3. rows[p].lc # None /\ Recorded(i, rows[p].ver, rows[p].lc, obj, claimed)
    BY <2>2 DEF SInv, RowsSound
  <2> QED BY <2>2, <2>3 DEF Recorded
<1> QED BY <1>1, PlanIsInformed, PTL
-----------------------------------------------------------------------------
(* A world that an action makes without loss.                              *)
Contents(k) == {x[3] : x \in k}
Safe(w)     == w.kept \cup Contents(claimed \cup w.claims)
Spared(w)   == Range(w.disk) \cup Safe(w) \cup Recycled(w.gone) \cup {snap[x] : x \in unread}

Harmless(w) ==
    /\ kept \subseteq w.kept /\ DriveKept(w.obj, w.kept) /\ RowsKept(w.rows, Safe(w))
    /\ \A p \in FilePath : disk[p] \in Content => disk[p] \in Spared(w)

LEMMA KnownSafe == ASSUME NEW w, Harmless(w) PROVE kept \cup Claimed \subseteq Safe(w)
BY DEF Harmless, Safe, Contents, Claimed

LEMMA RowsKeptMore ==
    ASSUME NEW r, NEW k, NEW l, k \subseteq l, RowsKept(r, k) PROVE RowsKept(r, l)
BY DEF RowsKept

LEMMA InRange == ASSUME NEW d, TreeOK(d), NEW p \in Path PROVE d[p] \in Range(d)
BY DEF TreeOK, Range

(* The files are as they were.                                             *)
LEMMA SameFiles ==
    ASSUME NEW w, TreeOK(w.disk), \A p \in FilePath : w.disk[p] = disk[p], NEW p \in FilePath
    PROVE  disk[p] \in Spared(w)
BY InRange, KindOfPath DEF Spared

LEMMA FoldersApart ==
    ASSUME NEW d, NEW p \in Path, NEW x \in FilePath PROVE WithParents(d, p)[x] = d[x]
BY FoldersAbove, KindOfPath DEF WithParents

LEMMA NowHarmless == ASSUME KInv PROVE Harmless(Now)
<1>1. /\ TreeOK(Now.disk) /\ Now.disk = disk /\ Now.obj = obj /\ Now.kept = kept
      /\ Now.rows = rows /\ Now.claims = {} /\ Now.gone = {}
  BY NowOK DEF KInv, SInv
<1>2. Safe(Now) = kept \cup Claimed
  BY <1>1 DEF Safe, Contents, Claimed
<1>3. \A p \in FilePath : disk[p] \in Spared(Now)
  BY <1>1, SameFiles
<1> QED BY <1>1, <1>2, <1>3 DEF Harmless, KInv

(* Rows are written.                                                       *)
LEMMA RowsHarmless ==
    ASSUME NEW w, WorldOK(w), Harmless(w), NEW r, RowsKept(r, Safe(w))
    PROVE  Harmless([w EXCEPT !.rows = r])
<1> DEFINE v == [w EXCEPT !.rows = r]
<1>1. /\ v.disk = w.disk /\ v.obj = w.obj /\ v.kept = w.kept /\ v.rows = r
      /\ v.claims = w.claims /\ v.gone = w.gone
  BY DEF WorldOK
<1> HIDE DEF v
<1>2. Safe(v) = Safe(w) /\ Spared(v) = Spared(w)
  BY <1>1 DEF Safe, Spared
<1>3. Harmless(v)
  BY <1>1, <1>2 DEF Harmless
<1> QED BY <1>3 DEF v

LEMMA RowHarmless ==
    ASSUME NEW w, WorldOK(w), Harmless(w), NEW p, NEW x, x.lc \in Safe(w) \cup {None}
    PROVE  Harmless([w EXCEPT !.rows[p] = x])
<1> DEFINE r == [w.rows EXCEPT ![p] = x]
<1>1. w.rows \in [Path -> Row] /\ RowsKept(w.rows, Safe(w))
  BY DEF WorldOK, Harmless
<1>2. \A q \in Path : r[q] = IF q = p THEN x ELSE w.rows[q]
  BY <1>1
<1> HIDE DEF r
<1>3. RowsKept(r, Safe(w))
  BY <1>1, <1>2 DEF RowsKept
<1>4. [w EXCEPT !.rows[p] = x] = [w EXCEPT !.rows = r]
  BY DEF WorldOK, r
<1> QED BY <1>3, <1>4, RowsHarmless

LEMMA MarkedKeeps ==
    ASSUME NEW r, NEW p, r[p] \in Row, NEW st, NEW i
    PROVE  Marked(r, st, p, i).lc \in {r[p].lc, None}
<1>1. CASE r[p].st = "none"
  <2>1. Marked(r, st, p, i) = [Unlisted EXCEPT !.id = i, !.st = st]
    BY <1>1 DEF Marked
  <2> QED BY <2>1 DEF Unlisted
<1>2. CASE r[p].st # "none"
  <2>1. Marked(r, st, p, i) = [r[p] EXCEPT !.st = st]
    BY <1>2 DEF Marked
  <2> QED BY <2>1 DEF Row
<1> QED BY <1>1, <1>2

LEMMA MarkHarmless ==
    ASSUME NEW w, WorldOK(w), Harmless(w), NEW p \in Path, NEW st, NEW i
    PROVE  Harmless([w EXCEPT !.rows[p] = Marked(w.rows, st, p, i)])
<1> DEFINE x == Marked(w.rows, st, p, i)
<1>1. w.rows[p] \in Row /\ w.rows[p].lc \in Safe(w) \cup {None}
  BY DEF WorldOK, Harmless, RowsKept
<1>2. x.lc \in Safe(w) \cup {None}
  BY <1>1, MarkedKeeps
<1> HIDE DEF x
<1>3. Harmless([w EXCEPT !.rows[p] = x])
  BY <1>2, RowHarmless
<1> QED BY <1>3 DEF x

LEMMA FailedHarmless ==
    ASSUME NEW w, WorldOK(w), Harmless(w), NEW a, a.path \in Path
    PROVE  Harmless(Failed(a, w))
BY MarkHarmless DEF Failed

LEMMA KeptHarmless ==
    ASSUME NEW w, WorldOK(w), Harmless(w), NEW a, a.path \in Path, NEW st
    PROVE  Harmless(Kept(a, st, w))
BY MarkHarmless DEF Kept

LEMMA ProtectedHarmless ==
    ASSUME KInv, NEW a, a.path \in Path PROVE Harmless(Protected(a))
BY NowOK, NowHarmless, KeptHarmless DEF Protected, KInv, SInv

(* The disk is changed.                                                    *)
LEMMA DiskHarmless ==
    ASSUME NEW w, WorldOK(w), Harmless(w), NEW d, TreeOK(d),
           \A p \in FilePath : disk[p] \in Content =>
               disk[p] \in Range(d) \cup Safe(w) \cup {snap[x] : x \in unread}
    PROVE  Harmless([w EXCEPT !.disk = d])
<1> DEFINE v == [w EXCEPT !.disk = d]
<1>1. /\ v.disk = d /\ v.obj = w.obj /\ v.kept = w.kept /\ v.rows = w.rows
      /\ v.claims = w.claims /\ v.gone = w.gone
  BY DEF WorldOK
<1> HIDE DEF v
<1>2. Safe(v) = Safe(w)
  BY <1>1 DEF Safe
<1>3. \A p \in FilePath : disk[p] \in Content => disk[p] \in Spared(v)
  BY <1>1, <1>2 DEF Spared
<1>4. Harmless(v)
  BY <1>1, <1>2, <1>3 DEF Harmless
<1> QED BY <1>4 DEF v

LEMMA FoldersHarmless ==
    ASSUME NEW w, WorldOK(w), Harmless(w), NEW d, TreeOK(d),
           \A p \in FilePath : d[p] = disk[p]
    PROVE  Harmless([w EXCEPT !.disk = d])
BY InRange, KindOfPath, DiskHarmless

(* ensure_remote_folder holds no file.                                     *)
LEMMA EnsuredHarmless ==
    ASSUME KInv, Roomy, NEW p \in Path, NEW S, ChainTo(S, p) PROVE Harmless(Ensured(S))
<1> DEFINE w == Ensured(S)
<1>0. IInv /\ DriveOK(obj) /\ TreeOK(disk) /\ DriveKept(obj, kept)
      /\ RowsKept(rows, kept \cup Claimed)
  BY NowOK DEF KInv, SInv
<1>1. /\ w.disk = disk /\ w.obj = Folders(S) /\ w.kept = kept /\ w.rows = FolderRows(S)
      /\ w.gone = {} /\ w.claims = {}
  BY EnsuredIs
<1> HIDE DEF w
<1>2. Safe(w) = kept \cup Claimed
  BY <1>1 DEF Safe, Contents, Claimed
<1>3. ASSUME NEW i \in Id, w.obj[i].c \in Content PROVE w.obj[i].c \in kept
  <2>1. CASE w.obj[i] = obj[i]
    BY <1>0, <1>3, <2>1 DEF DriveKept
  <2>2. CASE \E q \in Missing(S) : i = IdFor(S, q)
    <3>1. \E q \in Missing(S) : w.obj[i] = Placed(q, Folder)
      BY <1>0, <1>1, <2>2, FoldersAre
    <3>2. w.obj[i].c = Folder
      BY <3>1 DEF Placed
    <3> QED BY <1>3, <3>2, ContentAssumption
  <2> QED BY <1>0, <1>1, <2>1, <2>2, FoldersAre
<1>4. RowsKept(w.rows, Safe(w))
  <2>1. ASSUME NEW q \in Path PROVE w.rows[q].lc \in {None, rows[q].lc}
    <3>1. FolderRow(IdFor(S, q)).lc = None
      BY DEF FolderRow, Unlisted
    <3> QED BY <1>1, <3>1 DEF FolderRows
  <2> QED BY <1>0, <1>2, <2>1 DEF RowsKept
<1>5. \A q \in FilePath : disk[q] \in Spared(w)
  BY <1>0, <1>1, SameFiles
<1>6. Harmless(w)
  BY <1>1, <1>3, <1>4, <1>5 DEF Harmless, DriveKept
<1> QED BY <1>6 DEF w

LEMMA ParentsHarmless ==
    ASSUME KInv, Roomy, NEW p \in Path PROVE Harmless(Ensured(Parents(p)))
BY EnsuredHarmless, ParentsChain

LEMMA MkdirRemoteHarmless ==
    ASSUME KInv, Roomy, NEW a, Sensible(a, obj), a.kind = "MKDIR_REMOTE"
    PROVE  Harmless(MkdirRemote(a))
<1>1. a.path \in Path /\ IsDir(a.path)
  BY DEF Sensible, DirKinds
<1> QED BY <1>1, EnsuredHarmless DEF MkdirRemote, ChainTo

LEMMA MkdirLocalHarmless ==
    ASSUME KInv, NEW a, Sensible(a, obj), a.kind = "MKDIR_LOCAL"
    PROVE  Harmless(MkdirLocal(a))
<1> DEFINE e == [disk EXCEPT ![a.path] = Folder]
           d == WithParents(e, a.path)
           w == [Now EXCEPT !.disk = d]
           x == FolderRow(a.r.id)
<1>1. a.path \in Path /\ IsDir(a.path) /\ IInv
  BY DEF Sensible, DirKinds, KInv, SInv
<1>2. TreeOK(d) /\ WorldOK(Now) /\ TreeOK(disk)
  BY <1>1, NowOK, TreePut, KindOfPath
<1>3. ASSUME NEW p \in FilePath PROVE d[p] = disk[p]
  <2>1. d[p] = e[p]
    BY <1>1, FoldersApart
  <2>2. p # a.path
    BY <1>1, KindOfPath
  <2> QED BY <2>1, <2>2
<1> HIDE DEF d
<1>4. WorldOK(w) /\ Harmless(w)
  BY <1>2, <1>3, DiskOK, NowHarmless, FoldersHarmless
<1>5. MkdirLocal(a) = [w EXCEPT !.rows[a.path] = x]
  BY DEF MkdirLocal, Now, d
<1>6. x.lc = None
  BY DEF FolderRow, Unlisted
<1> HIDE DEF w, x
<1> QED BY <1>4, <1>5, <1>6, RowHarmless

(* What is sent is a version that the drive keeps; what the row says of it *)
(* is that, or is claimed.                                                 *)
LEMMA SentHarmless ==
    ASSUME NEW a, NEW w, WorldOK(w), w.claims = {}, Harmless(w), NEW i, NEW x
    PROVE  Harmless(Sent(a, w, i, x))
<1> DEFINE v == Sent(a, w, i, x)
           u == UploadRow(a, i, x.ver)
           k == Claims(a, i, x)
           n == [w.obj EXCEPT ![i] = x]
           r == [w.rows EXCEPT ![a.path] = u]
<1>0. v = [disk |-> w.disk, obj |-> n, kept |-> w.kept \cup {x.c}, rows |-> r,
           ids |-> w.ids \cup {i}, gone |-> w.gone, claims |-> k]
  BY SentMakes
<1> HIDE DEF v, n, r, k, u
<1>1. /\ v.disk = w.disk /\ v.obj = n /\ v.kept = w.kept \cup {x.c}
      /\ v.gone = w.gone /\ v.rows = r /\ v.claims = k
  BY <1>0
<1>2. w.obj \in [Id -> Object] /\ w.rows \in [Path -> Row]
  BY DEF WorldOK, DriveOK
<1>3. DriveKept(v.obj, v.kept)
  <2>1. \A j \in Id : v.obj[j] = IF j = i THEN x ELSE w.obj[j]
    BY <1>1, <1>2 DEF n
  <2> QED BY <1>1, <2>1 DEF DriveKept, Harmless
<1>4. u.lc \in Safe(v) \cup {None}
  <2> SUFFICES ASSUME u.lc # None, u.lc # x.c PROVE u.lc \in Safe(v)
    BY <1>1 DEF Safe
  <2>1. <<i, x.ver, u.lc>> \in k
    BY DEF Claims, k, u
  <2>2. <<i, x.ver, u.lc>>[3] = u.lc
    OBVIOUS
  <2> QED BY <1>1, <2>1, <2>2 DEF Safe, Contents
<1>5. Safe(w) \subseteq Safe(v)
  BY <1>1 DEF Safe, Contents
<1>6. RowsKept(v.rows, Safe(v))
  <2>1. \A p \in Path : v.rows[p] = IF p = a.path THEN u ELSE w.rows[p]
    BY <1>1, <1>2 DEF r
  <2> QED BY <1>4, <1>5, <2>1 DEF RowsKept, Harmless
<1>7. Spared(w) \subseteq Spared(v)
  BY <1>1, <1>5 DEF Spared
<1>8. Harmless(v)
  BY <1>1, <1>3, <1>6, <1>7 DEF Harmless
<1> QED BY <1>8 DEF v

LEMMA UploadHarmless ==
    ASSUME KInv, Roomy, NEW a, Sensible(a, obj), a.kind \in {"UPLOAD_NEW", "UPLOAD_VERSION"}
    PROVE  Harmless(Upload(a))
<1> DEFINE w == Ensured(Parents(a.path))
<1>1. a.path \in Path /\ IInv
  BY DEF Sensible, KInv, SInv
<1>2. WorldOK(w) /\ Harmless(w) /\ w.claims = {}
  BY <1>1, EnsuredOK, EnsuredIs, ParentsChain, ParentsHarmless
<1>3. \/ Upload(a) \in {Failed(a, w), Kept(a, "pending_upload", w)}
      \/ \E i \in Id : \E x \in Object : Upload(a) = Sent(a, w, i, x)
  BY <1>1, UploadIs
<1> HIDE DEF w
<1> QED BY <1>1, <1>2, <1>3, FailedHarmless, KeptHarmless, SentHarmless

(* What is received is on the drive; what was at its place is safe.        *)
LEMMA ReceivedHarmless ==
    ASSUME KInv, NEW a, Sensible(a, obj), a.kind \in Receives,
           NEW w, WorldOK(w), Harmless(w),
           \A p \in FilePath \ {a.path} : w.disk[p] = disk[p],
           disk[a.path] \in {None} \cup Safe(w) \cup {snap[x] : x \in unread}
    PROVE  Harmless(Received(a, w))
<1> DEFINE e == [w.disk EXCEPT ![a.path] = a.r.c]
           d == WithParents(e, a.path)
           x == [id |-> a.r.id, lc |-> a.r.c, ver |-> a.r.ver, rc |-> a.r.c, st |-> "synced"]
           v == [w EXCEPT !.disk = d]
<1>1. /\ a.path \in FilePath /\ a.path \in Path /\ a.r.c \in Content
      /\ a.r.c \in Holds(a.path) /\ a.r.id \in Id
  <2>1. a.r.id # None /\ ~IsDir(a.path) /\ a.path \in Path
    BY DEF Sensible, OfFiles
  <2>2. a.r.c \in Holds(a.path)
    BY <2>1 DEF Sensible
  <2> QED BY <2>1, <2>2, SensibleIs, KindOfPath
<1>2. TreeOK(d) /\ TreeOK(w.disk)
  BY <1>1, TreePut DEF WorldOK
<1>3. ASSUME NEW p \in FilePath, p # a.path PROVE d[p] = disk[p]
  <2>1. d[p] = e[p]
    BY <1>1, FoldersApart
  <2> QED BY <1>3, <2>1
<1>4. \/ Received(a, w) = Failed(a, w)
      \/ obj[a.r.id].c = a.r.c /\ Received(a, w) = [v EXCEPT !.rows[a.path] = x]
  <2>1. [v EXCEPT !.rows[a.path] = x] = [w EXCEPT !.disk = d, !.rows[a.path] = x]
    BY DEF WorldOK
  <2> QED BY <2>1 DEF Received
<1> HIDE DEF d
<1>5. ASSUME NEW p \in FilePath, disk[p] \in Content
      PROVE  disk[p] \in Range(d) \cup Safe(w) \cup {snap[y] : y \in unread}
  <2>1. p = a.path => disk[p] # None
    BY <1>5, ContentAssumption
  <2>2. p # a.path => disk[p] \in Range(d)
    BY <1>2, <1>3, InRange, KindOfPath
  <2> QED BY <2>1, <2>2
<1>6. WorldOK(v) /\ Harmless(v) /\ v.kept = w.kept /\ Safe(v) = Safe(w)
  <2>1. v.kept = w.kept /\ v.claims = w.claims
    BY DEF WorldOK
  <2> QED BY <1>2, <1>5, <2>1, DiskOK, DiskHarmless DEF Safe
<1>7. ASSUME obj[a.r.id].c = a.r.c PROVE x.lc \in Safe(v)
  <2>1. obj[a.r.id].c \in kept
    BY <1>1, <1>7 DEF KInv, DriveKept
  <2> QED BY <1>7, <2>1, <1>6, KnownSafe
<1> HIDE DEF v, x
<1>8. ASSUME obj[a.r.id].c = a.r.c PROVE Harmless([v EXCEPT !.rows[a.path] = x])
  BY <1>6, <1>7, <1>8, RowHarmless
<1>9. Harmless(Failed(a, w))
  BY <1>1, FailedHarmless
<1> QED BY <1>4, <1>8, <1>9

LEMMA DownloadHarmless ==
    ASSUME KInv, NEW a \in todo, a.kind \in {"DOWNLOAD_NEW", "DOWNLOAD_UPDATE"}
    PROVE  Harmless(Download(a))
<1>1. /\ IInv /\ Sensible(a, obj) /\ a.kind \in Receives /\ a.path \in Path
      /\ Careful(a, kept \cup Claimed, snap, unread)
  BY DEF KInv, SInv, IInv, Receives, Sensible
<1>2. WorldOK(Now) /\ Harmless(Now) /\ Now.disk = disk
  BY <1>1, NowOK, NowHarmless
<1>3. ASSUME disk[a.path] \in {None, a.e}
      PROVE  disk[a.path] \in {None} \cup Safe(Now) \cup {snap[x] : x \in unread}
  BY <1>1, <1>2, <1>3, KnownSafe DEF Careful
<1> QED BY <1>1, <1>2, <1>3, ReceivedHarmless, ProtectedHarmless DEF Download

LEMMA SetAsideHarmless ==
    ASSUME KInv, NEW a, Sensible(a, obj), a.kind = "CONFLICT", disk[a.path] = a.e
    PROVE  /\ Harmless(SetAside(a)) /\ WorldOK(SetAside(a)) /\ a.e \in Safe(SetAside(a))
           /\ \A p \in FilePath \ {a.path} : SetAside(a).disk[p] = disk[p]
<1> DEFINE v == SetAside(a)
           d == [disk EXCEPT ![a.path] = None]
<1>1. IInv /\ WorldOK(v) /\ WorldOK(Now) /\ TreeOK(disk) /\ TreeOK(v.disk)
  BY NowOK, SetAsideOK DEF KInv, SInv, WorldOK
<1>2. /\ v.disk = d /\ v.obj = obj /\ v.kept = kept \cup {a.e} /\ v.rows = rows
      /\ v.gone = {} /\ v.claims = {}
  BY DEF SetAside, Now
<1>3. \A p \in Path : d[p] = IF p = a.path THEN None ELSE disk[p]
  BY <1>1 DEF TreeOK
<1> HIDE DEF v, d
<1>4. Safe(v) = kept \cup Claimed \cup {a.e}
  BY <1>2 DEF Safe, Contents, Claimed
<1>5. DriveKept(v.obj, v.kept) /\ RowsKept(v.rows, Safe(v))
  BY <1>2, <1>4 DEF KInv, DriveKept, RowsKept
<1>6. ASSUME NEW p \in FilePath PROVE disk[p] \in Spared(v)
  <2>1. v.disk[p] \in Range(v.disk)
    BY <1>1, InRange, KindOfPath
  <2> QED BY <1>2, <1>3, <1>4, <2>1, KindOfPath DEF Spared
<1>7. Harmless(v)
  BY <1>2, <1>5, <1>6 DEF Harmless
<1>8. Harmless(v) /\ WorldOK(v) /\ a.e \in Safe(v)
      /\ \A p \in FilePath \ {a.path} : v.disk[p] = disk[p]
  BY <1>1, <1>2, <1>3, <1>4, <1>7, KindOfPath
<1> QED BY <1>8 DEF v

LEMMA ConflictHarmless ==
    ASSUME KInv, NEW a, Sensible(a, obj), a.kind = "CONFLICT" PROVE Harmless(Conflict(a))
<1>1. a.kind \in Receives /\ a.path \in Path
  BY DEF Receives, Sensible
<1>2. CASE disk[a.path] = a.e
  <2>1. disk[a.path] \in Safe(SetAside(a))
    BY <1>2, SetAsideHarmless
  <2> QED BY <1>1, <1>2, <2>1, SetAsideHarmless, ReceivedHarmless DEF Conflict
<1> QED BY <1>1, <1>2, ProtectedHarmless DEF Conflict

LEMMA TouchBaseHarmless ==
    ASSUME KInv, NEW a \in todo, a.kind = "TOUCH_BASE" PROVE Harmless(TouchBase(a))
<1> DEFINE x == IF IsDir(a.path) THEN FolderRow(a.r.id)
                ELSE [id |-> a.r.id, lc |-> a.e, ver |-> a.r.ver, rc |-> a.r.c, st |-> "synced"]
<1>1. WorldOK(Now) /\ Harmless(Now) /\ Careful(a, kept \cup Claimed, snap, unread)
  BY NowOK, NowHarmless DEF KInv, SInv
<1>2. IsDir(a.path) \/ a.e \in Safe(Now)
  BY <1>1, KnownSafe DEF Careful
<1>3. x.lc \in Safe(Now) \cup {None}
  <2>1. FolderRow(a.r.id).lc = None
    BY DEF FolderRow, Unlisted
  <2> QED BY <1>2, <2>1
<1>4. TouchBase(a) = [Now EXCEPT !.rows[a.path] = x]
  BY DEF TouchBase
<1> HIDE DEF x
<1> QED BY <1>1, <1>3, <1>4, RowHarmless

LEMMA ForgottenKept ==
    ASSUME KInv, NEW p, NEW k, kept \cup Claimed \subseteq k PROVE RowsKept(Forgotten(p), k)
<1>1. \A x \in Path : Forgotten(p)[x] \in {Unlisted, rows[x]}
  BY DEF Forgotten
<1>2. Unlisted.lc = None
  BY DEF Unlisted
<1>3. RowsKept(rows, kept \cup Claimed)
  BY DEF KInv
<1> QED BY <1>1, <1>2, <1>3 DEF RowsKept

LEMMA ForgetHarmless == ASSUME KInv, NEW a PROVE Harmless(Forget(a))
<1>1. WorldOK(Now) /\ Harmless(Now)
  BY NowOK, NowHarmless DEF KInv, SInv
<1>2. RowsKept(Forgotten(a.path), Safe(Now))
  BY <1>1, KnownSafe, ForgottenKept
<1> QED BY <1>1, <1>2, RowsHarmless DEF Forget

(* A move brings every file of the tree to its new place, which is empty.  *)
LEMMA RelocatedHolds ==
    ASSUME TreeOK(disk), NEW p \in Path, NEW q \in Path, disk[q] = None,
           \A x \in LocalTree(p) : Image(x, p, q) \in Path,
           NEW x \in FilePath, disk[x] # None
    PROVE  \E y \in Path : Relocated(p, q)[y] = disk[x]
<1> DEFINE d == Relocated(p, q)
<1>1. \A y \in Path : d[y] = IF Under(q, y) THEN Folder
                             ELSE IF Within(y, q)
                                  THEN IF Image(y, q, p) \in Path THEN disk[Image(y, q, p)]
                                                                  ELSE None
                                  ELSE IF Within(y, p) THEN None ELSE disk[y]
  BY DEF Relocated, WithParents, Shifted
<1> HIDE DEF d
<1>2. x \in Path /\ ~IsDir(x)
  BY KindOfPath
<1>3. CASE Within(x, p)
  <2> DEFINE y == Image(x, p, q)
  <2>1. x \in LocalTree(p)
    BY <1>2, <1>3 DEF LocalTree, Subtree
  <2>2. y \in Path /\ Within(y, q) /\ Image(y, q, p) = x
    BY <1>2, <1>3, <2>1, ImageThere
  <2> HIDE DEF y
  <2>3. ~Under(q, y)
    BY <2>2, UnderIs, WithinOnce
  <2> QED BY <1>1, <1>2, <2>2, <2>3 DEF d
<1>4. CASE ~Within(x, p)
  <2>1. ~Within(x, q)
    BY <1>2 DEF TreeOK
  <2>2. ~Under(q, x)
    BY <1>2, FoldersAbove
  <2> QED BY <1>1, <1>2, <1>4, <2>1, <2>2 DEF d
<1> QED BY <1>3, <1>4

LEMMA LocalMoveHarmless ==
    ASSUME KInv, NEW a \in todo, a.kind = "LOCAL_MOVE", Fitting(a)
    PROVE  Harmless(LocalMove(a))
<1> DEFINE p == a.path
           q == a.to
           d == Relocated(p, q)
           w == [Now EXCEPT !.disk = d]
           e == WithParents(disk, q)
           v == [Now EXCEPT !.disk = e]
           r == RowsShifted(p, q)
           x == IF IsDir(q) THEN FolderRow(a.r.id) ELSE MovedRow(a)
           s == [r EXCEPT ![q] = x]
<1>0. /\ IInv /\ Sensible(a, obj) /\ rows \in [Path -> Row] /\ RowsFit(rows, obj)
      /\ TreeOK(disk) /\ WorldOK(Now) /\ Harmless(Now)
  BY NowOK, NowHarmless DEF KInv, SInv, IInv
<1>1. p \in Path /\ q \in Path /\ (IsDir(p) <=> IsDir(q)) /\ a.r.id \in Id \cup {None}
  BY <1>0, SensibleIs
<1>2. TreeOK(d) /\ TreeOK(e)
  BY <1>0, <1>1, TreeMoved, TreeWithParents DEF Relocated
<1>3. WorldOK(v) /\ Harmless(v)
  <2>1. \A y \in FilePath : e[y] = disk[y]
    BY <1>1, FoldersApart
  <2> HIDE DEF e
  <2> QED BY <1>0, <1>2, <2>1, DiskOK, FoldersHarmless
<1>4. ASSUME disk[q] = None PROVE WorldOK(w) /\ Harmless(w)
  <2>1. \A y \in LocalTree(p) : Image(y, p, q) \in Path
    BY DEF Fitting
  <2>2. ASSUME NEW y \in FilePath, disk[y] \in Content PROVE disk[y] \in Range(d)
    <3>1. disk[y] # None
      BY <2>2, ContentAssumption
    <3>2. \E z \in Path : d[z] = disk[y]
      BY <1>0, <1>1, <1>4, <2>1, <3>1, RelocatedHolds
    <3> HIDE DEF d
    <3> QED BY <1>2, <3>2, InRange
  <2> HIDE DEF d
  <2> QED BY <1>0, <1>2, <2>2, DiskOK, DiskHarmless
<1>5. RowsKept(s, Safe(w))
  <2>1. RowsKept(rows, kept \cup Claimed)
    BY DEF KInv
  <2>2. Safe(w) = kept \cup Claimed
    BY DEF Safe, Contents, Claimed, Now
  <2>3. r \in [Path -> Row]
    BY <1>0, <1>1, RowsMovedFit
  <2>4. ASSUME NEW y \in Path PROVE r[y].lc \in kept \cup Claimed \cup {None}
    <3>1. \/ Image(y, q, p) \in Path /\ r[y] = rows[Image(y, q, p)]
          \/ r[y] = Unlisted \/ r[y] = rows[y]
      BY <1>0, <1>1, RowsMoved
    <3>2. Unlisted.lc = None
      BY DEF Unlisted
    <3> HIDE DEF r
    <3> QED BY <2>1, <3>1, <3>2 DEF RowsKept
  <2>5. x.lc \in {None, rows[p].lc}
    <3>1. FolderRow(a.r.id).lc = None
      BY DEF FolderRow, Unlisted
    <3>2. CASE IsDir(q)
      BY <3>1, <3>2
    <3>3. CASE ~IsDir(q)
      <4>1. MovedRow(a).lc = rows[p].lc
        BY <1>1, <3>3, MovedRowSound DEF KInv
      <4> QED BY <3>3, <4>1
    <3> QED BY <3>2, <3>3
  <2> HIDE DEF r, x, w
  <2>6. \A y \in Path : s[y] = IF y = q THEN x ELSE r[y]
    BY <2>3
  <2> QED BY <1>1, <2>1, <2>2, <2>4, <2>5, <2>6 DEF RowsKept
<1>6. \/ LocalMove(a) \in {Protected(a), Failed(a, v)}
      \/ disk[q] = None /\ LocalMove(a) \in {Failed(a, w), [w EXCEPT !.rows = s]}
  BY DEF LocalMove
<1> HIDE DEF w, v, s
<1>7. Harmless(Protected(a)) /\ Harmless(Failed(a, v))
  BY <1>1, <1>3, ProtectedHarmless, FailedHarmless
<1>8. ASSUME disk[q] = None PROVE Harmless(Failed(a, w)) /\ Harmless([w EXCEPT !.rows = s])
  BY <1>1, <1>4, <1>5, <1>8, FailedHarmless, RowsHarmless
<1> QED BY <1>6, <1>7, <1>8

(* A world with the files as they were.                                    *)
LEMMA StillHarmless ==
    ASSUME KInv, NEW w, w.disk = disk, kept \subseteq w.kept,
           DriveKept(w.obj, w.kept), RowsKept(w.rows, kept \cup Claimed)
    PROVE  Harmless(w)
<1>1. TreeOK(w.disk)
  BY NowOK DEF KInv, SInv
<1>2. kept \cup Claimed \subseteq Safe(w)
  BY DEF Safe, Contents, Claimed
<1>3. \A p \in FilePath : disk[p] \in Spared(w)
  BY <1>1, SameFiles
<1> QED BY <1>2, <1>3, RowsKeptMore DEF Harmless

LEMMA DriveKeptSame ==
    ASSUME KInv, NEW o, \A i \in Id : o[i].c = obj[i].c PROVE DriveKept(o, kept)
BY DEF KInv, DriveKept

LEMMA RemoteMoveHarmless ==
    ASSUME KInv, Roomy, NEW a \in todo, a.kind = "REMOTE_MOVE"
    PROVE  Harmless(RemoteMoveTo(a))
<1> DEFINE w == Ensured(Parents(a.to))
           v == Told(a)
           p == a.path
           q == a.to
           s == Moved(a)
<1>0. /\ IInv /\ Sensible(a, obj) /\ q \in Path /\ p \in Path
      /\ Informed(a, rows, obj) /\ RowsKept(rows, kept \cup Claimed)
  BY DEF KInv, SInv, IInv, Sensible, OfFiles
<1>1. /\ WorldOK(w) /\ Harmless(w) /\ w.disk = disk /\ w.kept = kept
      /\ w.claims = {}
  BY <1>0, EnsuredOK, EnsuredIs, ParentsChain, ParentsHarmless
<1>2. Safe(w) = kept \cup Claimed
  BY <1>1 DEF Safe, Contents, Claimed
<1>3. CASE RemoteMoveTo(a) = Failed(a, w)
  <2> HIDE DEF w
  <2> QED BY <1>0, <1>1, <1>3, FailedHarmless
<1>4. CASE obj[a.id].at \in Path /\ (Landing(a) = obj[a.id].at \/ Free(Landing(a)))
  <2>1. /\ WorldOK(v) /\ v.rows = w.rows /\ v.claims = {} /\ v.disk = disk /\ v.kept = kept
        /\ \A i \in Id : v.obj[i].c = w.obj[i].c
    BY <1>0, <1>4, ToldOK
  <2>2. /\ s \in [Path -> Row] /\ s[q].lc = a.e
        /\ \A x \in Path \ {q} : s[x] = IF x = p THEN Unlisted ELSE w.rows[x]
    BY <1>0, <1>4, MovedIs
  <2>3. RowsKept(w.rows, kept \cup Claimed) /\ DriveKept(w.obj, kept)
    BY <1>1, <1>2 DEF Harmless
  <2> HIDE DEF v, w, s
  <2>4. DriveKept(v.obj, kept)
    BY <2>1, <2>3 DEF DriveKept
  <2>5. Harmless(v) /\ Safe(v) = kept \cup Claimed
    BY <2>1, <2>3, <2>4, StillHarmless DEF Safe, Contents, Claimed
  <2>6. a.e = rows[p].lc
    BY <1>0 DEF Informed
  <2>7. RowsKept(s, kept \cup Claimed)
    <3>1. Unlisted.lc = None
      BY DEF Unlisted
    <3> QED BY <1>0, <2>2, <2>3, <2>6, <3>1 DEF RowsKept
  <2>8. Harmless(Failed(a, v)) /\ Harmless([v EXCEPT !.rows = s])
    BY <1>0, <2>1, <2>5, <2>7, FailedHarmless, RowsHarmless
  <2>9. \/ RemoteMoveTo(a) = Failed(a, w) \/ RemoteMoveTo(a) = Failed(a, v)
        \/ RemoteMoveTo(a) = [v EXCEPT !.rows = s]
    BY RemoteMoveIs DEF w, v, s
  <2> QED BY <1>3, <2>8, <2>9 DEF w
<1> QED BY <1>3, <1>4, RemoteMoveIs
-----------------------------------------------------------------------------
(* A file that is trashed holds what the base knows; in a folder the bin   *)
(* has what the scan saw.                                                  *)
LEMMA LocalTrashHarmless ==
    ASSUME KInv, NEW a \in todo, a.kind = "LOCAL_TRASH" PROVE Harmless(LocalTrash(a))
<1> DEFINE p == a.path
           d == Without(p)
           r == Forgotten(p)
           g == Binned(p)
           k == kept \cup Claimed
           w == LocalTrash(a)
<1>0. /\ p \in Path /\ TreeOK(disk) /\ snap[p] # None /\ (IsDir(p) \/ a.e \in k)
      /\ DriveKept(obj, kept)
  <2>1. IInv /\ Sensible(a, obj) /\ Careful(a, k, snap, unread)
    BY DEF KInv, SInv, IInv
  <2> QED BY <2>1, NowOK DEF Sensible, Careful, KInv
<1>1. CASE ChangedSince(a)
  BY <1>0, <1>1, ProtectedHarmless DEF LocalTrash
<1>2. CASE ~ChangedSince(a)
  <2>1. w = [disk |-> d, obj |-> obj, kept |-> kept, rows |-> r, ids |-> {}, gone |-> g,
             claims |-> {}]
    BY <1>2, LocalTrashIs
  <2> HIDE DEF w, d, r, g
  <2>3. /\ w.disk = d /\ w.obj = obj /\ w.kept = kept /\ w.rows = r /\ w.gone = g
        /\ w.claims = {}
    BY <2>1
  <2>4. Safe(w) = k
    BY <2>3 DEF Safe, Contents, Claimed
  <2>5. RowsKept(w.rows, Safe(w))
    BY <2>3, <2>4, ForgottenKept DEF r
  <2>6. ASSUME NEW x \in FilePath, disk[x] \in Content PROVE disk[x] \in Spared(w)
    <3>0. x \in Path /\ ~IsDir(x) /\ disk[x] # None
      BY <2>6, KindOfPath, ContentAssumption
    <3>1. CASE ~Within(x, p)
      <4>1. d[x] = disk[x] /\ d = [y \in Path |-> IF Within(y, p) THEN None ELSE disk[y]]
        BY <3>0, <3>1 DEF d, Without
      <4>2. disk[x] \in Range(d)
        BY <3>0, <4>1 DEF Range
      <4> QED BY <2>3, <4>2 DEF Spared
    <3>2. CASE Within(x, p) /\ ~IsDir(p)
      <4>1. x = p
        BY <1>0, <3>0, <3>2, FileIsLeaf
      <4>2. disk[x] = a.e
        BY <1>2, <3>0, <3>2, <4>1 DEF ChangedSince
      <4> QED BY <1>0, <2>4, <3>2, <4>2 DEF Spared
    <3>3. CASE Within(x, p) /\ IsDir(p)
      <4>1. Under(x, p)
        BY <3>0, <3>3, UnderIs
      <4>2. snap[x] = disk[x]
        BY <1>2, <2>6, <3>0, <3>3, <4>1 DEF ChangedSince
      <4>3. disk[p] # None
        BY <1>0, <3>0, <3>3 DEF TreeOK
      <4>4. Within(p, p)
        BY <1>0, PathType, WithinIs
      <4>5. p \in LocalTree(p) /\ x \in LocalTree(p)
        BY <1>0, <3>0, <3>3, <4>3, <4>4 DEF LocalTree, Subtree
      <4>6. <<"disk", x>> \in g /\ <<"disk", p>> \in g
        BY <1>0, <3>0, <4>2, <4>5 DEF g, Binned
      <4>7. p \in Parents(x)
        BY <1>0, <4>1 DEF Parents
      <4>8. snap[x] \in Recycled(w.gone)
        BY <2>3, <2>6, <4>6, <4>7 DEF Recycled
      <4> QED BY <4>2, <4>8 DEF Spared
    <3> QED BY <3>1, <3>2, <3>3
  <2>7. Harmless(w)
    BY <1>0, <2>3, <2>5, <2>6 DEF Harmless
  <2> QED BY <2>7 DEF w
<1> QED BY <1>1, <1>2

(* The drive's trash keeps what it takes.                                  *)
LEMMA RemoteTrashHarmless ==
    ASSUME KInv, NEW a \in todo PROVE Harmless(RemoteTrash(a))
<1>1. IInv /\ a.path \in Path
  BY DEF KInv, SInv, IInv, Sensible
<1>2. CASE a.id = None
  <2>1. RemoteTrash(a) = [Now EXCEPT !.rows[a.path] = Unlisted]
    BY <1>2, RemoteTrashIs
  <2>2. Unlisted.lc = None
    BY DEF Unlisted
  <2> QED BY <1>1, <2>1, <2>2, NowOK, NowHarmless, RowHarmless
<1>3. CASE a.id # None
  <2> DEFINE o == Gone(obj, Thrown(a), None)
             r == Forgotten(a.path)
  <2>1. /\ RemoteTrash(a).disk = disk /\ RemoteTrash(a).obj = o
        /\ RemoteTrash(a).kept = kept /\ RemoteTrash(a).rows = r
    BY <1>3, RemoteTrashIs
  <2>2. RowsKept(r, kept \cup Claimed)
    BY ForgottenKept
  <2>3. \A i \in Id : o[i].c = obj[i].c
    BY <1>1, NowOK, GoneSame
  <2> HIDE DEF o, r
  <2>4. DriveKept(o, kept)
    BY <2>3, DriveKeptSame
  <2> QED BY <2>1, <2>2, <2>4, StillHarmless
<1> QED BY <1>2, <1>3
-----------------------------------------------------------------------------
LEMMA DoesHarmless ==
    ASSUME KInv, Roomy, NEW a \in todo, Fitting(a) PROVE Harmless(Does(a))
<1>0. Sensible(a, obj)
  BY DEF KInv, SInv, IInv
<1>1. CASE a.kind \in DirKinds
  <2>1. CASE a.kind = "MKDIR_REMOTE"
    <3>1. Harmless(MkdirRemote(a))
      BY <1>0, <2>1, MkdirRemoteHarmless
    <3> QED BY <2>1, <3>1 DEF Does
  <2>2. CASE a.kind = "MKDIR_LOCAL"
    <3>1. Harmless(MkdirLocal(a))
      BY <1>0, <2>2, MkdirLocalHarmless
    <3> QED BY <2>2, <3>1 DEF Does
  <2> QED BY <1>1, <2>1, <2>2 DEF DirKinds
<1>2. CASE a.kind \in MoveKinds
  <2>1. CASE a.kind = "LOCAL_MOVE"
    BY <2>1, LocalMoveHarmless DEF Does
  <2>2. CASE a.kind = "REMOTE_MOVE"
    BY <2>2, RemoteMoveHarmless DEF Does
  <2> QED BY <1>2, <2>1, <2>2 DEF MoveKinds
<1>3. CASE a.kind \notin MoveKinds \cup DirKinds
  <2>1. CASE a.kind \in {"UPLOAD_NEW", "UPLOAD_VERSION"}
    BY <1>0, <2>1, UploadHarmless DEF Does
  <2>2. CASE a.kind \in {"DOWNLOAD_NEW", "DOWNLOAD_UPDATE"}
    BY <2>2, DownloadHarmless DEF Does
  <2>3. CASE a.kind = "CONFLICT"
    BY <1>0, <2>3, ConflictHarmless DEF Does
  <2>4. CASE a.kind = "LOCAL_TRASH"
    BY <2>4, LocalTrashHarmless DEF Does
  <2>5. CASE a.kind = "REMOTE_TRASH"
    BY <2>5, RemoteTrashHarmless DEF Does
  <2>6. CASE a.kind = "TOUCH_BASE"
    BY <2>6, TouchBaseHarmless DEF Does
  <2>7. CASE a.kind \notin {"UPLOAD_NEW", "UPLOAD_VERSION", "DOWNLOAD_NEW",
                            "DOWNLOAD_UPDATE", "CONFLICT", "LOCAL_TRASH",
                            "REMOTE_TRASH", "TOUCH_BASE"}
    <3>1. Does(a) = Forget(a)
      BY <1>3, <2>7 DEF Does, MoveKinds, DirKinds
    <3> QED BY <3>1, ForgetHarmless
  <2> QED BY <2>1, <2>2, <2>3, <2>4, <2>5, <2>6, <2>7
<1> QED BY <1>1, <1>2, <1>3

LEMMA HalvesHarmless ==
    ASSUME KInv, NEW a, Sensible(a, obj), NEW w \in Halves(a) PROVE Harmless(w) /\ WorldOK(w)
BY NowOK, NowHarmless, SetAsideHarmless DEF Halves, KInv, SInv

LEMMA MadeKept ==
    ASSUME KInv, Roomy, NEW a \in todo PROVE RowsKept(Made(a), kept \cup Claimed)
<1>0. Sensible(a, obj) /\ RowsKept(rows, kept \cup Claimed)
  BY DEF KInv, SInv, IInv
<1>1. ASSUME NEW p \in Path, NEW S, ChainTo(S, p)
      PROVE  RowsKept(Ensured(S).rows, kept \cup Claimed)
  <2>1. Harmless(Ensured(S)) /\ Ensured(S).kept = kept /\ Ensured(S).claims = {}
    BY <1>1, EnsuredHarmless, EnsuredIs
  <2> QED BY <2>1 DEF Harmless, Safe, Contents, Claimed
<1>2. CASE a.kind = "MKDIR_REMOTE"
  <2>1. a.path \in Path /\ IsDir(a.path)
    BY <1>0, <1>2 DEF Sensible, DirKinds
  <2>2. RowsKept(MkdirRemote(a).rows, kept \cup Claimed)
    BY <1>1, <2>1 DEF MkdirRemote, ChainTo
  <2> QED BY <1>2, <2>2 DEF Made
<1>3. CASE a.kind \in {"UPLOAD_NEW", "UPLOAD_VERSION", "REMOTE_MOVE"}
  <2>1. a.to \in Path
    BY <1>0 DEF Sensible
  <2>2. RowsKept(Ensured(Parents(a.to)).rows, kept \cup Claimed)
    BY <1>1, <2>1, ParentsChain
  <2> QED BY <1>3, <2>2 DEF Made
<1>4. CASE a.kind \notin {"MKDIR_REMOTE", "UPLOAD_NEW", "UPLOAD_VERSION", "REMOTE_MOVE"}
  BY <1>0, <1>4 DEF Made
<1> QED BY <1>2, <1>3, <1>4

LEMMA MadeRows ==
    ASSUME KInv, Roomy, NEW a \in todo PROVE Made(a) \in [Path -> Row]
<1>0. Sensible(a, obj) /\ IInv
  BY DEF KInv, SInv, IInv
<1>1. CASE a.kind = "MKDIR_REMOTE"
  <2>1. a.path \in Path /\ IsDir(a.path)
    BY <1>0, <1>1 DEF Sensible, DirKinds
  <2>2. MkdirRemote(a).rows \in [Path -> Row]
    BY <1>0, <2>1, EnsuredOK DEF MkdirRemote, ChainTo, WorldOK
  <2> QED BY <1>1, <2>2 DEF Made
<1>2. CASE a.kind \in {"UPLOAD_NEW", "UPLOAD_VERSION", "REMOTE_MOVE"}
  <2>1. a.to \in Path
    BY <1>0 DEF Sensible
  <2>2. Ensured(Parents(a.to)).rows \in [Path -> Row]
    BY <1>0, <2>1, EnsuredOK, ParentsChain DEF WorldOK
  <2> QED BY <1>2, <2>2 DEF Made
<1>3. CASE a.kind \notin {"MKDIR_REMOTE", "UPLOAD_NEW", "UPLOAD_VERSION", "REMOTE_MOVE"}
  BY <1>0, <1>3, NowOK DEF Made
<1> QED BY <1>1, <1>2, <1>3

(* What recover writes it has from the rows there were.                    *)
LEMMA RecoveredHarmless ==
    ASSUME KInv, Roomy, NEW a \in todo, Fitting(a), Ready(a), NEW w \in Halves(a) \cup {Does(a)}
    PROVE  Harmless([w EXCEPT !.rows = Recovered(a, w)])
<1> DEFINE p == a.path
           r == IF w = Now THEN rows ELSE Made(a)
           st == IF a.kind \in {"UPLOAD_NEW", "UPLOAD_VERSION", "REMOTE_MOVE",
                                "MKDIR_REMOTE", "REMOTE_TRASH"}
                 THEN "pending_upload" ELSE "pending_download"
           x == Marked(r, st, p, None)
           s == Recovered(a, w)
<1>0. /\ IInv /\ Sensible(a, obj) /\ p \in Path /\ RowsKept(rows, kept \cup Claimed)
      /\ rows \in [Path -> Row]
  BY NowOK DEF KInv, SInv, IInv, Sensible
<1>1. Harmless(w) /\ WorldOK(w)
  <2>1. Harmless(Does(a)) /\ WorldOK(Does(a))
    BY DoesHarmless, DoesFine DEF Fine, KInv
  <2> QED BY <1>0, <2>1, HalvesHarmless
<1>2. r \in [Path -> Row] /\ RowsKept(r, kept \cup Claimed)
  BY <1>0, MadeKept, MadeRows
<1> HIDE DEF r
<1>3. s = rows \/ s = [r EXCEPT ![p] = x]
  BY DEF Recovered, r
<1>4. x.lc \in {r[p].lc, None}
  BY <1>0, <1>2, MarkedKeeps
<1> HIDE DEF s, x
<1>5. RowsKept(s, kept \cup Claimed)
  BY <1>0, <1>2, <1>3, <1>4 DEF RowsKept
<1>6. RowsKept(s, Safe(w))
  BY <1>1, <1>5, KnownSafe, RowsKeptMore
<1>7. Harmless([w EXCEPT !.rows = s])
  BY <1>1, <1>6, RowsHarmless
<1> QED BY <1>7 DEF s
-----------------------------------------------------------------------------
(* What is new is received where nothing is; what is replaced or taken     *)
(* away is what the base knows.                                            *)
LEMMA DecideCareful ==
    ASSUME NEW b, NEW e, NEW r, NEW unseen, NEW deleted, NEW complete, NEW propagate,
           NEW lm, NEW rm
    PROVE  LET k == Decide(b, e, r, unseen, deleted, complete, propagate, lm, rm)
           IN  /\ k = "DOWNLOAD_NEW" => ~Here(e)
               /\ k \in {"DOWNLOAD_UPDATE", "LOCAL_TRASH"} =>
                      HasBaseline(b) /\ Here(e) /\ (MetaSame(b, e) \/ lm = b.lc)
<1> DEFINE absent   == deleted \/ (~Seen(r) /\ complete)
           observed == complete \/ Seen(r) \/ deleted
           k  == Decide(b, e, r, unseen, deleted, complete, propagate, lm, rm)
           dn == DecideNew(e, r, lm, rm)
           dg == DecideGone(b, r, absent, observed, propagate)
           dk == DecideKnown(b, e, r, absent, propagate, lm, rm)
<1>1. dn \notin {"DOWNLOAD_UPDATE", "LOCAL_TRASH"} /\ (dn = "DOWNLOAD_NEW" => ~Here(e))
  BY DEF DecideNew
<1>2. dg \notin {"DOWNLOAD_UPDATE", "LOCAL_TRASH"}
  BY DEF DecideGone
<1>3. /\ dk # "DOWNLOAD_NEW"
      /\ dk \in {"DOWNLOAD_UPDATE", "LOCAL_TRASH"} => MetaSame(b, e) \/ lm = b.lc
  BY DEF DecideKnown
<1>4. \/ k = "REPORT" \/ k = "PROTECT" \/ k = dn
      \/ k = dg /\ ~Here(e)
      \/ k = dk /\ Here(e) /\ HasBaseline(b)
  BY DEF Decide
<1> HIDE DEF k, dn, dg, dk
<1>5. /\ k = "DOWNLOAD_NEW" => ~Here(e)
      /\ k \in {"DOWNLOAD_UPDATE", "LOCAL_TRASH"} =>
             HasBaseline(b) /\ Here(e) /\ (MetaSame(b, e) \/ lm = b.lc)
  BY <1>1, <1>2, <1>3, <1>4
<1> QED BY <1>5 DEF k

LEMMA FileKindCareful ==
    ASSUME NEW look, NEW p, NEW propagate
    PROVE  /\ FileKind(look, p, propagate) = "DOWNLOAD_NEW" => look.snap[p] = None
           /\ FileKind(look, p, propagate) \in {"DOWNLOAD_UPDATE", "LOCAL_TRASH"} =>
                  look.snap[p] # None /\ look.snap[p] = look.rows[p].lc
<1> DEFINE b  == FileRow(look.rows[p])
           e  == FileEntry(look.snap[p])
           lm == LocalMd5(look, p)
           k  == FileKind(look, p, propagate)
<1>1. /\ k = "DOWNLOAD_NEW" => ~Here(e)
      /\ k \in {"DOWNLOAD_UPDATE", "LOCAL_TRASH"} =>
             HasBaseline(b) /\ Here(e) /\ (MetaSame(b, e) \/ lm = b.lc)
  BY DecideCareful DEF FileKind
<1>2. Here(e) <=> look.snap[p] # None
  BY DEF Here, FileEntry
<1>3. HasBaseline(b) => look.rows[p].lc # None
  BY DEF HasBaseline, FileRow
<1>4. MetaSame(b, e) => look.snap[p] = look.rows[p].lc
  BY DEF MetaSame, FileRow, FileEntry
<1>5. b.lc = look.rows[p].lc /\ lm \in {None, look.snap[p]}
  BY DEF FileRow, LocalMd5
<1> HIDE DEF b, e, lm, k
<1>6. /\ k = "DOWNLOAD_NEW" => look.snap[p] = None
      /\ k \in {"DOWNLOAD_UPDATE", "LOCAL_TRASH"} =>
             look.snap[p] # None /\ look.snap[p] = look.rows[p].lc
  BY <1>1, <1>2, <1>3, <1>4, <1>5
<1> QED BY <1>6 DEF k

LEMMA FolderKindCareful ==
    ASSUME NEW look, NEW p, NEW propagate, FolderKind(look, p, propagate) = "LOCAL_TRASH"
    PROVE  look.snap[p] # None
BY DEF FolderKind, DecideNewDir, DecideDir

LEMMA RemoteMoveCareful ==
    ASSUME KInv, NEW look, Current(look), NEW p \in MovedRemote(look),
           NEW d \in RemoteMove(look, p)
    PROVE  Careful(d, kept \cup Claimed, look.snap, look.unread)
<1> DEFINE q == Target(look, p)
           w == look.rows[p]
<1>1. /\ look.rows = rows /\ p \in Path /\ RowsKept(rows, kept \cup Claimed)
  BY DEF KInv, Current, Shown, MovedRemote
<1>2. \/ d.kind \notin {"DOWNLOAD_NEW", "DOWNLOAD_UPDATE", "LOCAL_TRASH", "TOUCH_BASE"}
      \/ d.kind = "DOWNLOAD_NEW" /\ d.e = None
      \/ /\ d.kind = "DOWNLOAD_UPDATE" /\ d.e = look.snap[p]
         /\ look.snap[p] # None /\ w.lc # None /\ LocalMd5(look, p) \in {None, w.lc}
  BY DEF RemoteMove, FetchAt, MoveThenUpdate, At, Decision
<1>3. LocalMd5(look, p) = IF p \in look.unread THEN None ELSE look.snap[p]
  BY DEF LocalMd5
<1>4. w.lc # None => w.lc \in kept \cup Claimed
  BY <1>1 DEF RowsKept
<1> QED BY <1>2, <1>3, <1>4 DEF Careful

LEMMA DiffCareful ==
    ASSUME KInv, NEW look, Current(look), NEW propagate, NEW d \in DiffOf(look, propagate)
    PROVE  Careful(d, kept \cup Claimed, look.snap, look.unread)
<1> DEFINE away == MovedRemote(look)
           pairs == Pairs(look)
           arrivals == Arrivals(look)
           k == kept \cup Claimed
<1>0. look.rows = rows /\ RowsKept(rows, k) /\ DriveKept(obj, kept) /\ IInv /\ Shown(look)
  BY DEF KInv, SInv, Current, Shown
<1>1. PICK p \in Path : d \in DecisionsFor(look, p, propagate, away, pairs, arrivals)
  BY DEF DiffOf
<1>2. CASE p \in away
  BY <1>1, <1>2, RemoteMoveCareful DEF DecisionsFor
<1>3. CASE p \notin away /\ \E x \in pairs : x[1] = p
  <2>1. d.kind = "REMOTE_MOVE"
    BY <1>1, <1>3 DEF DecisionsFor, Decision
  <2> QED BY <2>1 DEF Careful
<1>4. CASE p \notin away /\ ~(\E x \in pairs : x[1] = p)
  <2> DEFINE fo == FolderKind(look, p, propagate)
             fi == FileKind(look, p, propagate)
  <2>1. \/ d = At(look, "REPORT", p)
        \/ IsDir(p) /\ d = At(look, fo, p)
        \/ ~IsDir(p) /\ d = At(look, fi, p)
    BY <1>1, <1>4 DEF DecisionsFor
  <2>2. d.path = p /\ d.e = look.snap[p]
    BY <2>1, AtIs
  <2>3. CASE d = At(look, "REPORT", p)
    BY <2>3, AtIs DEF Careful
  <2>4. CASE IsDir(p) /\ d = At(look, fo, p)
    <3>1. d.kind = fo
      BY <2>4, AtIs
    <3>2. fo \notin {"DOWNLOAD_NEW", "DOWNLOAD_UPDATE"}
      BY FolderKindIs
    <3>3. fo = "LOCAL_TRASH" => look.snap[p] # None
      BY FolderKindCareful
    <3> HIDE DEF fo
    <3> QED BY <2>2, <2>4, <3>1, <3>2, <3>3 DEF Careful
  <2>5. CASE ~IsDir(p) /\ d = At(look, fi, p)
    <3>1. d.kind = fi
      BY <2>5, AtIs
    <3>2. /\ fi = "DOWNLOAD_NEW" => look.snap[p] = None
          /\ fi \in {"DOWNLOAD_UPDATE", "LOCAL_TRASH"} =>
                 look.snap[p] # None /\ look.snap[p] = rows[p].lc
      BY <1>0, FileKindCareful
    <3>3. ASSUME fi = "TOUCH_BASE" PROVE look.snap[p] \in kept
      <4>1. look.snap[p] = look.ent[p].c /\ look.snap[p] # None
        BY <3>3, TouchIs
      <4>2. look.ent[p].id # None /\ look.ent[p].c \in Content
        <5>1. look.ent[p].c \in Content
          BY <1>0, <2>5, <4>1, ShownIs, KindOfPath
        <5>2. look.ent[p] # Unknown
          BY <1>0, <4>1, ShownIs
        <5>3. look.ent[p].id \in Id
          BY <1>0, <5>2 DEF Shown
        <5> QED BY <5>1, <5>3, IdAssumption
      <4>3. PICK i \in Id : look.ent[p] = EntryOf(i)
        BY <4>2 DEF Current
      <4>4. look.ent[p].c = obj[i].c
        BY <4>3 DEF EntryOf
      <4> QED BY <1>0, <4>1, <4>2, <4>4 DEF DriveKept
    <3> HIDE DEF fi
    <3>4. rows[p].lc # None => rows[p].lc \in k
      BY <1>0 DEF RowsKept
    <3> QED BY <2>2, <2>5, <3>1, <3>2, <3>3, <3>4 DEF Careful
  <2> QED BY <2>1, <2>3, <2>4, <2>5
<1> QED BY <1>2, <1>3, <1>4
-----------------------------------------------------------------------------
LEMMA CarefulMore ==
    ASSUME NEW a, NEW k, NEW l, k \subseteq l, NEW scan, NEW blind, Careful(a, k, scan, blind)
    PROVE  Careful(a, l, scan, blind)
BY DEF Careful

(* What the next state needs.                                              *)
LEMMA SafeNext ==
    ASSUME KInv, SInv', kept \subseteq kept', claimed \subseteq claimed',
           DriveKept(obj', kept'), RowsKept(rows', kept' \cup Claimed'),
           todo' \subseteq todo, todo' = {} \/ (snap' = snap /\ unread' = unread)
    PROVE  KInv'
<1>1. kept \cup Claimed \subseteq kept' \cup Claimed'
  BY DEF Claimed
<1>2. \A a \in todo' : Careful(a, kept' \cup Claimed', snap', unread')
  <2>1. CASE todo' = {}
    BY <2>1
  <2>2. CASE snap' = snap /\ unread' = unread
    BY <1>1, <2>2, CarefulMore DEF KInv
  <2> QED BY <2>1, <2>2
<1>3. (DriveKept(obj, kept) /\ RowsKept(rows, kept \cup Claimed)
        /\ \A a \in todo : Careful(a, kept \cup Claimed, snap, unread))'
  BY <1>2
<1> QED BY <1>3 DEF KInv

LEMMA SameSafe ==
    ASSUME KInv, SInv', UNCHANGED <<obj, kept, rows, todo, claimed, snap, unread>> PROVE KInv'
BY DEF KInv, Claimed

LEMMA UserSafe == ASSUME KInv, SInv', User PROVE KInv'
<1>1. UNCHANGED <<drive, rows, pass, claimed>>
  BY DEF User, Save, Delete, Rename
<1> QED BY <1>1, SameSafe DEF drive, pass

(* The drive keeps what other PCs write.                                   *)
LEMMA OthersKeep == ASSUME KInv, Others PROVE kept \subseteq kept' /\ DriveKept(obj', kept')
<1>0. obj \in [Id -> Object] /\ DriveKept(obj, kept)
  BY NowOK DEF KInv, SInv, DriveOK
<1>1. ASSUME NEW i \in Id, OtherWrites(i) PROVE kept \subseteq kept' /\ DriveKept(obj', kept')
  <2>1. PICK c \in Content : /\ obj' = [obj EXCEPT ![i].c = c, ![i].ver = @ + 1]
                             /\ kept' = kept \cup {c}
    BY <1>1 DEF OtherWrites
  <2>2. ASSUME NEW j \in Id PROVE obj'[j].c \in {c, obj[j].c}
    BY <1>0, <2>1 DEF Object
  <2> QED BY <1>0, <2>1, <2>2 DEF DriveKept
<1>2. ASSUME NEW p \in Path, OtherCreates(p) PROVE kept \subseteq kept' /\ DriveKept(obj', kept')
  <2>1. PICK c : /\ obj' = [obj EXCEPT ![NewId(obj)] = Placed(p, c)]
                 /\ kept' = kept \cup ({c} \cap Content)
    BY <1>2 DEF OtherCreates
  <2>2. Placed(p, c).c = c
    BY DEF Placed
  <2>3. ASSUME NEW j \in Id PROVE obj'[j].c \in {c, obj[j].c}
    BY <1>0, <2>1, <2>2
  <2> QED BY <1>0, <2>1, <2>3 DEF DriveKept
<1>3. ASSUME kept' = kept, \A j \in Id : obj'[j].c = obj[j].c
      PROVE  kept \subseteq kept' /\ DriveKept(obj', kept')
  BY <1>3, DriveKeptSame
<1>4. ASSUME NEW S, NEW where, obj' = Gone(obj, S, where)
      PROVE  \A j \in Id : obj'[j].c = obj[j].c
  <2> SUFFICES ASSUME NEW j \in Id PROVE obj'[j].c = obj[j].c
    OBVIOUS
  <2>1. obj'[j] = IF j \in S THEN [obj[j] EXCEPT !.at = where] ELSE obj[j]
    BY <1>4 DEF Gone
  <2> QED BY <1>0, <2>1 DEF Object
<1>5. ASSUME NEW i \in Id, NEW q \in Path, obj' = Carried(i, q)
      PROVE  \A j \in Id : obj'[j].c = obj[j].c
  <2> SUFFICES ASSUME NEW j \in Id PROVE obj'[j].c = obj[j].c
    OBVIOUS
  <2>1. obj'[j] = obj[j] \/ \E x : obj'[j] = [obj[j] EXCEPT !.at = x]
    BY <1>5 DEF Carried
  <2> QED BY <1>0, <2>1 DEF Object
<1> QED BY <1>1, <1>2, <1>3, <1>4, <1>5
        DEF Others, OtherTrashes, OtherMovesOut, OtherMoves

LEMMA OthersSafe == ASSUME KInv, SInv', Others PROVE KInv'
<1>1. /\ rows' = rows /\ todo' = todo /\ claimed' = claimed
      /\ snap' = snap /\ unread' = unread
  BY DEF Others, OtherWrites, OtherCreates, OtherTrashes, OtherMoves, OtherMovesOut, pass
<1>2. kept \subseteq kept' /\ DriveKept(obj', kept')
  BY OthersKeep
<1>3. kept \cup Claimed \subseteq kept' \cup Claimed' /\ RowsKept(rows, kept \cup Claimed)
  BY <1>1, <1>2 DEF Claimed, KInv
<1>4. RowsKept(rows', kept' \cup Claimed')
  BY <1>1, <1>3, RowsKeptMore
<1> QED BY <1>1, <1>2, <1>4, SafeNext

LEMMA BeginSafe ==
    ASSUME KInv, SInv', NEW m \in Modes, NEW blind, NEW cold, NEW trashable,
           Begin(m, blind, cold, trashable)
    PROVE  KInv'
<1> DEFINE look(asked) == Look(m, Scanned(blind), blind, cold, asked)
           plan(asked) == Planned(DiffOf(look(asked), m.propagate), trashable)
           acts(asked) == IF m.unattended THEN plan(asked) \ HeldBack(plan(asked), rows)
                                          ELSE plan(asked)
           marked(asked) == [p \in Path |-> IF p \in HashFailures(look(asked))
                                            THEN Marked(rows, "error", p, None) ELSE rows[p]]
<1>0. /\ IInv /\ rows \in [Path -> Row] /\ RowsKept(rows, kept \cup Claimed)
      /\ DriveKept(obj, kept)
  BY NowOK DEF KInv, SInv
<1>1. obj' = obj /\ claimed' = claimed /\ kept' = kept
  BY DEF Begin
<1>2. PICK asked :
         \/ UNCHANGED <<rows, todo, snap, unread>>
         \/ /\ rows' = marked(asked) /\ todo' = acts(asked)
            /\ acts(asked) = {} \/ (snap' = Scanned(blind) /\ unread' = cold)
  <2>1. PICK asked \in {Dirty \cup Lost(Scanned(blind))}
                          \cup IF m.propagate THEN {} ELSE {Dirty} :
         \/ UNCHANGED <<rows, todo, snap, unread>>
         \/ /\ rows' = marked(asked) /\ todo' = acts(asked)
            /\ acts(asked) = {} \/ (snap' = Scanned(blind) /\ unread' = cold)
    BY DEF Begin
  <2> QED BY <2>1
<1>3. CASE UNCHANGED <<rows, todo, snap, unread>>
  BY <1>1, <1>3, SameSafe
<1>4. CASE /\ rows' = marked(asked) /\ todo' = acts(asked)
           /\ acts(asked) = {} \/ (snap' = Scanned(blind) /\ unread' = cold)
  <2>1. Current(look(asked))
    BY <1>0, LookCurrent
  <2>2. look(asked).snap = Scanned(blind) /\ look(asked).unread = cold
    BY DEF Look
  <2>3. acts(asked) \subseteq DiffOf(look(asked), m.propagate)
    BY PlannedIs
  <2>4. RowsKept(marked(asked), kept \cup Claimed)
    <3>1. ASSUME NEW p \in Path PROVE marked(asked)[p].lc \in {rows[p].lc, None}
      <4>1. Marked(rows, "error", p, None).lc \in {rows[p].lc, None}
        BY <1>0, MarkedKeeps
      <4>2. marked(asked)[p] \in {Marked(rows, "error", p, None), rows[p]}
        OBVIOUS
      <4> HIDE DEF marked
      <4> QED BY <4>1, <4>2
    <3> HIDE DEF marked
    <3> QED BY <1>0, <3>1 DEF RowsKept
  <2> HIDE DEF look, acts, marked
  <2>5. ASSUME NEW a \in acts(asked)
        PROVE  Careful(a, kept \cup Claimed, Scanned(blind), cold)
    BY <2>1, <2>2, <2>3, <2>5, DiffCareful
  <2>6. Claimed' = Claimed
    BY <1>1 DEF Claimed
  <2>7. (DriveKept(obj, kept) /\ RowsKept(rows, kept \cup Claimed)
          /\ \A a \in todo : Careful(a, kept \cup Claimed, snap, unread))'
    BY <1>0, <1>1, <1>4, <2>4, <2>5, <2>6
  <2> QED BY <2>7 DEF KInv
<1> QED BY <1>2, <1>3, <1>4

(* What a step that takes a content off the disk leaves of it.             *)
Spares == (Range(disk) \cap Content) \ Range(disk')
             \subseteq kept' \cup Claimed' \cup Recycled(took') \cup {snap[x] : x \in unread}

LEMMA BecomesSafe ==
    ASSUME KInv, SInv', NEW w, Harmless(w), Becomes(w), todo' \subseteq todo,
           todo' = {} \/ (snap' = snap /\ unread' = unread)
    PROVE  KInv' /\ Spares
<1>1. /\ disk' = w.disk /\ obj' = w.obj /\ kept' = w.kept /\ rows' = w.rows
      /\ took' = took \cup w.gone /\ claimed' = claimed \cup w.claims
  BY DEF Becomes
<1>2. Safe(w) = kept' \cup Claimed'
  BY <1>1 DEF Safe, Contents, Claimed
<1>3. KInv'
  <2>1. /\ kept \subseteq kept' /\ claimed \subseteq claimed'
        /\ DriveKept(obj', kept') /\ RowsKept(rows', kept' \cup Claimed')
    BY <1>1, <1>2 DEF Harmless
  <2> QED BY <2>1, SafeNext
<1>4. ASSUME NEW c \in Range(disk) \cap Content, c \notin Range(disk')
      PROVE  c \in kept' \cup Claimed' \cup Recycled(took') \cup {snap[x] : x \in unread}
  <2>1. TreeOK(disk)
    BY NowOK DEF KInv, SInv
  <2>2. PICK p \in Path : c = disk[p]
    BY <2>1 DEF Range, TreeOK
  <2>3. p \in FilePath
    <3>1. disk[p] \in Holds(p)
      BY <1>4, <2>1, <2>2, ContentAssumption DEF TreeOK
    <3> QED BY <1>4, <2>2, <3>1, KindOfPath, ContentAssumption
  <2>4. c \in Spared(w)
    BY <1>4, <2>2, <2>3 DEF Harmless
  <2>5. Recycled(w.gone) \subseteq Recycled(took')
    BY <1>1 DEF Recycled
  <2> QED BY <1>1, <1>2, <1>4, <2>4, <2>5 DEF Spared
<1> QED BY <1>3, <1>4 DEF Spares

LEMMA FinishSafe ==
    ASSUME KInv, SInv', NEW a \in todo, NEW w, Harmless(w), Finish(a, w)
    PROVE  KInv' /\ Spares
<1>1. Becomes(w) /\ todo' = todo \ {a} /\ (todo = {a} \/ (snap' = snap /\ unread' = unread))
  BY DEF Finish
<1> QED BY <1>1, BecomesSafe

LEMMA DiesSafe ==
    ASSUME KInv, SInv', NEW w, Harmless(w), Dies(w) PROVE KInv' /\ Spares
<1>1. Becomes(w) /\ todo' = {}
  BY DEF Dies
<1> QED BY <1>1, BecomesSafe

LEMMA ToolSafe == ASSUME KInv, SInv', Tool PROVE KInv' /\ (Works => Spares)
<1>0. \A a \in todo : Sensible(a, obj) /\ a.path \in Path
  BY DEF KInv, SInv, IInv, Sensible
<1>1. ASSUME NEW m \in Modes, NEW blind, NEW cold, NEW trashable,
             Begin(m, blind, cold, trashable)
      PROVE  KInv' /\ ~Works
  <2>1. todo = {}
    BY <1>1 DEF Begin, KInv, SInv, IInv, TypeOK
  <2> QED BY <1>1, <2>1, BeginSafe DEF Works
<1>2. CASE BeginWell
  BY <1>1, <1>2 DEF BeginWell
<1>3. CASE BeginBadly
  <2>1. PICK m, blind, cold, trashable : m \in Modes /\ Begin(m, blind, cold, trashable)
    BY <1>3 DEF BeginBadly
  <2> QED BY <1>1, <2>1
<1>4. CASE Do
  <2>1. PICK a \in todo : Roomy /\ Fitting(a) /\ Finish(a, Does(a))
    BY <1>4 DEF Do
  <2>2. Harmless(Does(a))
    BY <2>1, DoesHarmless
  <2> QED BY <2>1, <2>2, FinishSafe
<1>5. CASE Fail
  <2>1. PICK a \in todo :
           \E w \in Halves(a) : Finish(a, IF a.kind = "LOCAL_TRASH" THEN w ELSE Failed(a, w))
    BY <1>5 DEF Fail
  <2>2. PICK w \in Halves(a) : Finish(a, IF a.kind = "LOCAL_TRASH" THEN w ELSE Failed(a, w))
    BY <2>1
  <2>3. Harmless(w) /\ Harmless(Failed(a, w))
    BY <1>0, HalvesHarmless, FailedHarmless
  <2> QED BY <2>2, <2>3, FinishSafe
<1>6. CASE Crash
  <2>1. PICK a \in todo :
           /\ Ready(a) /\ Roomy /\ Fitting(a)
           /\ \/ \E w \in {Now, Does(a)} : Dies(w)
              \/ \E w \in Halves(a) \cup {Does(a)} :
                    Dies([w EXCEPT !.rows = Recovered(a, w)])
    BY <1>6 DEF Crash
  <2>2. Harmless(Now) /\ Harmless(Does(a))
    BY <2>1, NowHarmless, DoesHarmless
  <2>3. ASSUME NEW w \in Halves(a) \cup {Does(a)}, Dies([w EXCEPT !.rows = Recovered(a, w)])
        PROVE  KInv' /\ Spares
    BY <2>1, <2>3, RecoveredHarmless, DiesSafe
  <2> QED BY <2>1, <2>2, <2>3, DiesSafe
<1> QED BY <1>2, <1>3, <1>4, <1>5, <1>6 DEF Tool

(* The drive has what a synced folder holds.                               *)
LEMMA InitSafe == Init => KInv
<1> SUFFICES ASSUME Init PROVE KInv
  OBVIOUS
<1>0. PICK t, what :
         t \in Trees /\ what \in [t -> Content \cup {Folder}]
           /\ (\A p \in t : what[p] \in Holds(p)) /\ InitTree(t, what, SetToSeq(t))
  BY DEF Init
<1> DEFINE s == SetToSeq(t)
           n == Cardinality(t)
           at(p) == CHOOSE k \in DOMAIN s : s[k] = p
<1>1. t \subseteq Path /\ 1 .. n \subseteq Id /\ IsFiniteSet(t)
  <2>1. t \in SUBSET Path /\ 1 .. n \subseteq Id
    BY <1>0, TreesAssumption
  <2> QED BY <2>1, PathAssumption, FS_Subset
<1>2. Len(s) = n /\ n \in Nat /\ DOMAIN s = 1 .. n /\ \A k \in 1 .. n : s[k] \in t
  BY <1>1, IdsOf
<1>3. /\ obj = [i \in Id |-> IF i <= Len(s) THEN Placed(s[i], what[s[i]]) ELSE Unused]
      /\ rows = [p \in Path |->
           IF p \notin t THEN Unlisted
           ELSE IF IsDir(p) THEN FolderRow(at(p))
                            ELSE FileRowOf(at(p), Placed(p, what[p]))]
      /\ kept = {what[p] : p \in t \cap FilePath}
  BY <1>0 DEF InitTree
<1> HIDE DEF s, n, at
<1>4. ASSUME NEW p \in t, what[p] \in Content PROVE what[p] \in kept
  <2>1. p \in FilePath
    BY <1>0, <1>1, <1>4, KindOfPath, ContentAssumption
  <2> QED BY <1>3, <2>1
<1>5. ASSUME NEW i \in Id, obj[i].c \in Content PROVE obj[i].c \in kept
  <2>1. CASE i <= Len(s)
    <3>1. obj[i].c = what[s[i]]
      BY <1>3, <2>1 DEF Placed
    <3>2. i \in 1 .. n
      BY <1>2, <2>1, IdAssumption
    <3> QED BY <1>2, <1>4, <1>5, <3>1, <3>2
  <2>2. CASE ~(i <= Len(s))
    BY <1>3, <1>5, <2>2, ContentAssumption DEF Unused
  <2> QED BY <2>1, <2>2
<1>6. ASSUME NEW p \in Path PROVE rows[p].lc \in kept \cup {None}
  <2>1. Unlisted.lc = None /\ FolderRow(at(p)).lc = None
    BY DEF Unlisted, FolderRow
  <2>2. FileRowOf(at(p), Placed(p, what[p])).lc = what[p]
    BY DEF FileRowOf, Placed
  <2>3. CASE p \notin t \/ IsDir(p)
    BY <1>3, <2>1, <2>3
  <2>4. CASE p \in t /\ ~IsDir(p)
    <3>1. what[p] \in Content
      BY <1>0, <2>4, KindOfPath
    <3> QED BY <1>3, <1>4, <2>2, <2>4, <3>1
  <2> QED BY <2>3, <2>4
<1>7. todo = {}
  BY DEF Init
<1> QED BY <1>5, <1>6, <1>7, InitSound DEF KInv, DriveKept, RowsKept

LEMMA StepSafe == KInv /\ [Next]_vars => KInv' /\ (Works => Spares)
<1> SUFFICES ASSUME KInv, [Next]_vars PROVE KInv' /\ (Works => Spares)
  OBVIOUS
<1>1. SInv'
  BY StepSound DEF KInv
<1>2. CASE User
  <2>1. todo' = todo
    BY <1>2 DEF User, Save, Delete, Rename, pass
  <2> QED BY <1>1, <1>2, <2>1, UserSafe DEF Works
<1>3. CASE Others
  <2>1. todo' = todo
    BY <1>3 DEF Others, OtherWrites, OtherCreates, OtherTrashes, OtherMoves, OtherMovesOut, pass
  <2> QED BY <1>1, <1>3, <2>1, OthersSafe DEF Works
<1>4. CASE Tool
  BY <1>1, <1>4, ToolSafe
<1>5. CASE UNCHANGED vars
  BY <1>1, <1>5, SameSafe DEF vars, drive, pass, Works
<1> QED BY <1>2, <1>3, <1>4, <1>5 DEF Next

(* TreeSync.KInv: the drive forgets no content it had. What a row says its *)
(* file held, what a download of the plan is to replace and what the       *)
(* trashing of a file is to find on the disk is among those, or in a       *)
(* conflict copy, or claimed to have been sent; or the comparison of       *)
(* differ.py could not read it.                                            *)
THEOREM WhatIsKnownIsSafe == Spec => []KInv
BY InitSafe, StepSafe, PTL DEF Spec

(* TreeSync.NothingLost, for every set of paths, contents, ids and trees   *)
(* and every choice of what others may do: whatever users save, delete or  *)
(* rename between the scan and an action of executor.py, and however the   *)
(* action ends (done, failed or cut by a crash), a content it takes off the*)
(* disk is on the drive, in its versions or its trash, in a conflict copy, *)
(* claimed to have been sent, in the recycle bin with the folder that the  *)
(* scan saw it in, or was not readable when the two sides were compared.   *)
THEOREM NothingIsLost == Spec => NothingLost
<1>1. KInv /\ [Next]_vars => [Works => Spares]_vars
  BY StepSafe
<1>2. [][Works => Spares]_vars <=> NothingLost
  BY DEF Spares, NothingLost
<1> QED BY <1>1, <1>2, WhatIsKnownIsSafe, PTL DEF Spec
=============================================================================
