--------------------------- MODULE TreePlan_proofs ---------------------------
(***************************************************************************)
(* Proofs about the operators of TreePlan: how paths hang in one another   *)
(* and what a move makes of them, how many folders are above a path, and   *)
(* what every decision names.                                              *)
(***************************************************************************)
EXTENDS TreePlan, SequenceTheorems, FiniteSetTheorems, TLAPS

Names == UNION {Range(p) : p \in Path}

LEMMA PathType ==
    ASSUME NEW p \in Path
    PROVE  p \in Seq(Names) /\ Len(p) \in Nat \ {0} /\ DOMAIN p = 1 .. Len(p)
<1>1. p \in Seq(Names) /\ p # <<>>
  BY PathAssumption DEF Names
<1> QED BY <1>1, EmptySeq, LenProperties

LEMMA PathKinds ==
    /\ FilePath \subseteq Path /\ DirPath \subseteq Path
    /\ \A p \in Path : IsDir(p) <=> p \notin FilePath
BY PathAssumption DEF Path, IsDir
-----------------------------------------------------------------------------
(* Prefixes, name by name.                                                 *)
LEMMA WithinIs ==
    ASSUME NEW p \in Seq(Names), NEW q \in Seq(Names)
    PROVE  Within(p, q) <=> Len(q) <= Len(p) /\ \A k \in 1 .. Len(q) : p[k] = q[k]
<1> DEFINE n == Len(q)
<1>1. Len(p) \in Nat /\ n \in Nat
  BY LenProperties
<1>2. SubSeq(q, 1, n) = q
  BY SubSeqFull
<1>3. ASSUME n <= Len(p)
      PROVE  /\ SubSeq(p, 1, n) \in Seq(Names) /\ Len(SubSeq(p, 1, n)) = n
             /\ \A k \in 1 .. n : SubSeq(p, 1, n)[k] = p[k]
  <2>1. \A k \in 1 .. n : p[k] \in Names
    BY <1>1, <1>3, ElementOfSeq
  <2>2. /\ SubSeq(p, 1, n) \in Seq(Names)
        /\ Len(SubSeq(p, 1, n)) = IF 1 <= n THEN n - 1 + 1 ELSE 0
        /\ \A i \in 1 .. n - 1 + 1 : SubSeq(p, 1, n)[i] = p[1 + i - 1]
    BY <1>1, <2>1, SubSeqProperties
  <2> QED BY <1>1, <2>2
<1>4. ASSUME n <= Len(p), \A k \in 1 .. n : p[k] = q[k] PROVE SubSeq(p, 1, n) = q
  BY <1>1, <1>3, <1>4, SeqEqual
<1> QED BY <1>1, <1>2, <1>3, <1>4 DEF Within, IsPrefix

LEMMA WithinSelf == ASSUME NEW p \in Path PROVE Within(p, p)
BY WithinIs, PathType

LEMMA UnderIs ==
    ASSUME NEW p, NEW q
    PROVE  Under(p, q) <=> Within(p, q) /\ p # q
BY DEF Under, Within, IsStrictPrefix

LEMMA WithinOnce ==
    ASSUME NEW p \in Path, NEW q \in Path, Within(p, q), Within(q, p)
    PROVE  p = q
<1>1. p \in Seq(Names) /\ q \in Seq(Names) /\ Len(p) \in Nat /\ Len(q) \in Nat
  BY PathType
<1>2. Len(p) = Len(q) /\ \A k \in 1 .. Len(p) : p[k] = q[k]
  BY <1>1, WithinIs
<1> QED BY <1>1, <1>2, SeqEqual

LEMMA WithinOn ==
    ASSUME NEW p \in Path, NEW q \in Path, NEW r \in Path, Within(p, q), Within(q, r)
    PROVE  Within(p, r)
<1>1. /\ p \in Seq(Names) /\ q \in Seq(Names) /\ r \in Seq(Names)
      /\ Len(p) \in Nat /\ Len(q) \in Nat /\ Len(r) \in Nat
  BY PathType
<1>2. /\ Len(q) <= Len(p) /\ \A k \in 1 .. Len(q) : p[k] = q[k]
      /\ Len(r) <= Len(q) /\ \A k \in 1 .. Len(r) : q[k] = r[k]
  BY <1>1, WithinIs
<1>3. Len(r) <= Len(p) /\ \A k \in 1 .. Len(r) : p[k] = r[k]
  BY <1>1, <1>2
<1> QED BY <1>1, <1>3, WithinIs

LEMMA UnderOn ==
    ASSUME NEW p \in Path, NEW q \in Path, NEW r \in Path, Under(p, q), Under(q, r)
    PROVE  Under(p, r)
BY UnderIs, WithinOn, WithinOnce

(* What is above a path is a chain.                                        *)
LEMMA Chain ==
    ASSUME NEW p \in Path, NEW q \in Path, NEW r \in Path, Within(p, q), Within(p, r)
    PROVE  Within(q, r) \/ Within(r, q)
<1>1. /\ p \in Seq(Names) /\ q \in Seq(Names) /\ r \in Seq(Names)
      /\ Len(p) \in Nat /\ Len(q) \in Nat /\ Len(r) \in Nat
  BY PathType
<1>2. /\ Len(q) <= Len(p) /\ \A k \in 1 .. Len(q) : p[k] = q[k]
      /\ Len(r) <= Len(p) /\ \A k \in 1 .. Len(r) : p[k] = r[k]
  BY <1>1, WithinIs
<1>3. CASE Len(q) <= Len(r)
  <2>1. \A k \in 1 .. Len(q) : r[k] = q[k]
    BY <1>1, <1>2, <1>3
  <2> QED BY <1>1, <1>3, <2>1, WithinIs
<1>4. CASE Len(r) <= Len(q)
  <2>1. \A k \in 1 .. Len(r) : q[k] = r[k]
    BY <1>1, <1>2, <1>4
  <2> QED BY <1>1, <1>4, <2>1, WithinIs
<1> QED BY <1>1, <1>3, <1>4

(* What has something under it is a folder.                                *)
LEMMA FoldersAbove ==
    ASSUME NEW p \in Path, NEW q \in Path, Under(p, q)
    PROVE  q \in DirPath /\ IsDir(q)
<1>1. p \in Seq(Names) /\ q \in Seq(Names) /\ Len(p) \in Nat \ {0} /\ Len(q) \in Nat \ {0}
  BY PathType
<1>2. Len(q) <= Len(p) /\ SubSeq(p, 1, Len(q)) = q /\ p # q
  BY <1>1, SubSeqFull DEF Under, IsStrictPrefix, IsPrefix
<1>3. Len(q) # Len(p)
  BY <1>1, <1>2, SubSeqFull
<1>4. Len(q) \in 1 .. Len(p) - 1
  BY <1>1, <1>2, <1>3
<1>5. SubSeq(p, 1, Len(q)) \in DirPath
  BY <1>4, PathAssumption
<1> QED BY <1>2, <1>5 DEF IsDir
-----------------------------------------------------------------------------
(* Counting.  The elements of a finite set of numbers have places in it.   *)
Lower(S, i) == {j \in S : j < i}

LEMMA SmallerSubset ==
    ASSUME NEW S, IsFiniteSet(S), NEW T \in SUBSET S, NEW x \in S \ T
    PROVE  Cardinality(T) \in Nat /\ Cardinality(T) < Cardinality(S)
<1>1. IsFiniteSet(T) /\ Cardinality(T) <= Cardinality(S)
  BY FS_Subset
<1>2. Cardinality(S) # Cardinality(T)
  BY FS_Subset
<1> QED BY <1>1, <1>2, FS_CardinalityType

LEMMA Places ==
    ASSUME NEW S \in SUBSET Nat, IsFiniteSet(S)
    PROVE  /\ \A i \in S : Cardinality(Lower(S, i)) \in 0 .. Cardinality(S) - 1
           /\ \A i, j \in S : Cardinality(Lower(S, i)) = Cardinality(Lower(S, j)) => i = j
           /\ \A k \in 0 .. Cardinality(S) - 1 : \E i \in S : Cardinality(Lower(S, i)) = k
<1> DEFINE n == Cardinality(S)
           T == 0 .. n - 1
           f == [i \in S |-> Cardinality(Lower(S, i))]
<1>0. n \in Nat
  BY FS_CardinalityType
<1>1. ASSUME NEW i \in S PROVE Cardinality(Lower(S, i)) \in T
  <2>1. Lower(S, i) \in SUBSET S /\ i \in S \ Lower(S, i)
    BY DEF Lower
  <2>2. Cardinality(Lower(S, i)) \in Nat /\ Cardinality(Lower(S, i)) < n
    BY <2>1, SmallerSubset
  <2> QED BY <1>0, <2>2
<1>2. ASSUME NEW i \in S, NEW j \in S, i < j
      PROVE  Cardinality(Lower(S, i)) < Cardinality(Lower(S, j))
  <2>0. ASSUME NEW x \in S, x < i PROVE x < j
    <3>1. x \in Nat /\ i \in Nat /\ j \in Nat
      OBVIOUS
    <3> QED BY <1>2, <2>0, <3>1
  <2>1. Lower(S, i) \in SUBSET Lower(S, j)
    BY <2>0 DEF Lower
  <2>3. i \in Lower(S, j) \ Lower(S, i)
    <3>1. i \in Nat /\ ~(i < i)
      OBVIOUS
    <3> QED BY <1>2, <3>1 DEF Lower
  <2>2. IsFiniteSet(Lower(S, j))
    BY FS_Subset DEF Lower
  <2> QED BY <2>1, <2>2, <2>3, SmallerSubset
<1>3. ASSUME NEW i \in S, NEW j \in S, Cardinality(Lower(S, i)) = Cardinality(Lower(S, j))
      PROVE  i = j
  <2>1. i \in Nat /\ j \in Nat /\ (i < j \/ j < i \/ i = j)
    OBVIOUS
  <2>2. Cardinality(Lower(S, i)) \in Nat /\ Cardinality(Lower(S, j)) \in Nat
    BY <1>0, <1>1
  <2>3. ~(i < j)
    BY <1>2, <1>3, <2>2
  <2>4. ~(j < i)
    BY <1>2, <1>3, <2>2
  <2> QED BY <2>1, <2>3, <2>4
<1>4. f \in Injection(S, T)
  BY <1>1, <1>3 DEF Injection, IsInjective
<1>5. IsFiniteSet(T) /\ Cardinality(T) = n
  <2>1. IsFiniteSet(0 .. n - 1) /\ Cardinality(0 .. n - 1) = IF 0 > n - 1 THEN 0 ELSE n - 1 - 0 + 1
    BY <1>0, FS_Interval
  <2> QED BY <1>0, <2>1
<1>6. f \in Surjection(S, T)
  BY <1>4, <1>5, FS_Injection
<1>7. ASSUME NEW k \in T PROVE \E i \in S : Cardinality(Lower(S, i)) = k
  BY <1>6 DEF Surjection
<1> QED BY <1>1, <1>3, <1>7

(* The least of them.                                                      *)
LEMMA Least ==
    ASSUME NEW S \in SUBSET Nat, IsFiniteSet(S), S # {}
    PROVE  \E i \in S : \A j \in S : i <= j
<1>1. Cardinality(S) \in Nat /\ Cardinality(S) # 0
  BY FS_CardinalityType, FS_EmptySet
<1>2. 0 \in 0 .. Cardinality(S) - 1
  BY <1>1
<1>3. PICK i \in S : Cardinality(Lower(S, i)) = 0
  BY <1>2, Places
<1>4. Lower(S, i) \in SUBSET S
  BY DEF Lower
<1>5. IsFiniteSet(Lower(S, i))
  BY <1>4, FS_Subset
<1>6. Lower(S, i) = {}
  BY <1>3, <1>5, FS_EmptySet
<1> QED BY <1>6 DEF Lower
=============================================================================
