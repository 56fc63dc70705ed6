------------------------------- MODULE RulesProofs -------------------------------
(***************************************************************************)
(* Proofs about the decision rules (Rules), for every input: any versions, *)
(* evidence, decisions, policies and exceptions; and about the planning of *)
(* an install (Planner), for every problem; and about the layers of policy *)
(* files (PolicySources), for all files.                                   *)
(***************************************************************************)
EXTENDS Rules, Planner, PolicySources, FiniteSetTheorems, SequenceTheorems, WellFoundedInduction, TLAPS


\* A set of natural numbers has a least one.
LEMMA LeastNumber ==
  ASSUME NEW T \in SUBSET Nat, T # {}
  PROVE  \E n \in T : \A m \in T : n <= m
  <1>1. PICK n \in T : \A m \in T : <<m, n>> \notin OpToRel(<, Nat)
    BY NatLessThanWellFounded, WFMin
  <1>2. \A m \in T : ~(m < n) BY <1>1, Zenon DEF OpToRel
  <1>3. \A m \in T : n <= m BY <1>2
  <1> QED BY <1>3

\* A finite set has a last element in any strict order.
LEMMA LastExists ==
  ASSUME NEW S, IsFiniteSet(S), S # {}, NEW R, \A x \in S : <<x, x>> \notin R,
         \A x, y, z \in S : <<x, y>> \in R /\ <<y, z>> \in R => <<x, z>> \in R
  PROVE  \E x \in S : \A y \in S : <<x, y>> \notin R
  <1> DEFINE IsEnd(x, T) == \A y \in T : <<x, y>> \notin R
             Bad == {n \in Nat : \E T \in SUBSET S : T # {} /\ Cardinality(T) = n /\ \A x \in T : ~IsEnd(x, T)}
  <1>1. Bad = {}
    <2> SUFFICES ASSUME Bad # {} PROVE FALSE
      OBVIOUS
    <2>1. Bad \in SUBSET Nat OBVIOUS
    <2> HIDE DEF Bad
    <2>2. PICK n \in Bad : \A m \in Bad : n <= m BY <2>1, LeastNumber
    <2>3. PICK T \in SUBSET S : T # {} /\ Cardinality(T) = n /\ \A x \in T : ~IsEnd(x, T) BY <2>2 DEF Bad
    <2>4. PICK x \in T : TRUE BY <2>3
    <2>5. IsFiniteSet(T) BY <2>3, FS_Subset
    <2> DEFINE U == T \ {x}
    <2>6. /\ IsFiniteSet(U) /\ Cardinality(U) = n - 1 /\ Cardinality(U) \in Nat /\ n \in Nat
      BY <2>3, <2>4, <2>5, FS_RemoveElement, FS_CardinalityType
    <2>7. n - 1 \notin Bad BY <2>2, <2>6
    <2>8. U # {} => \E m \in U : IsEnd(m, U) BY <2>6, <2>7 DEF Bad
    <2>9. CASE U = {} BY <2>3, <2>4, <2>9
    <2>10. CASE U # {}
      <3>1. PICK m \in U : IsEnd(m, U) BY <2>8, <2>10
      <3>2. CASE <<m, x>> \notin R BY <2>3, <3>1, <3>2
      <3>3. CASE <<m, x>> \in R
        <4>1. \A y \in U : <<x, y>> \notin R BY <2>4, <3>1, <3>3
        <4> QED BY <2>3, <2>4, <4>1
      <3> QED BY <3>2, <3>3
    <2> QED BY <2>9, <2>10
  <1>2. Cardinality(S) \in Nat BY FS_CardinalityType
  <1> QED BY <1>1, <1>2

-------------------------------------------------------------------------------
(* Versions *)

Part == [word : BOOLEAN, rank : Nat]

VersionType == [core : Nat \X Nat \X Nat, pre : Seq(Part)]

\* Parts of a pre-release are in a strict order.
LEMMA PartOrder ==
  ASSUME NEW a \in Part, NEW b \in Part, NEW c \in Part
  PROVE  /\ ComparePart(a, b) \in {-1, 0, 1} /\ ComparePart(a, b) = -ComparePart(b, a)
         /\ ComparePart(a, b) = 0 <=> a = b
         /\ ComparePart(a, b) = -1 /\ ComparePart(b, c) = -1 => ComparePart(a, c) = -1
  <1>1. /\ a.word \in BOOLEAN /\ b.word \in BOOLEAN /\ c.word \in BOOLEAN
        /\ a.rank \in Int /\ b.rank \in Int /\ c.rank \in Int
        /\ a = b <=> a.word = b.word /\ a.rank = b.rank
    BY DEF Part
  <1> QED BY <1>1 DEF ComparePart, Sign

\* l comes before r: at the first place where they differ, or where l ends.
BeforeAt(l, r, n) ==
    /\ \A k \in 1 .. n - 1 : l[k] = r[k]
    /\ n - 1 <= Len(l) /\ n <= Len(r)
    /\ n <= Len(l) => ComparePart(l[n], r[n]) = -1

Before(l, r) == \E n \in Nat \ {0} : BeforeAt(l, r, n)

\* What FirstDifference finds.
LEMMA DifferenceFound ==
  ASSUME NEW l \in Seq(Part), NEW r \in Seq(Part)
  PROVE  LET d == FirstDifference(l, r, ComparePart)
             common == 1 .. (IF Len(l) < Len(r) THEN Len(l) ELSE Len(r))
         IN  \/ d = 0 /\ \A k \in common : l[k] = r[k]
             \/ \E n \in common : d = ComparePart(l[n], r[n]) /\ l[n] # r[n] /\ \A k \in 1 .. n - 1 : l[k] = r[k]
  <1> DEFINE common == 1 .. (IF Len(l) < Len(r) THEN Len(l) ELSE Len(r))
             differ == {n \in common : ComparePart(l[n], r[n]) # 0}
             first == CHOOSE n \in differ : \A k \in differ : n <= k
             d == FirstDifference(l, r, ComparePart)
  <1>1. d = IF differ = {} THEN 0 ELSE ComparePart(l[first], r[first]) BY DEF FirstDifference
  <1>2. /\ common \subseteq Nat /\ \A n \in common : n \in 1 .. Len(l) /\ n \in 1 .. Len(r) /\ 1 .. n \subseteq common
    OBVIOUS
  <1>3. \A n \in common : l[n] \in Part /\ r[n] \in Part BY <1>2
  <1>4. \A n \in common : n \notin differ <=> l[n] = r[n] BY <1>3, PartOrder
  <1>5. differ \in SUBSET Nat BY <1>2
  <1>6. differ \subseteq common OBVIOUS
  <1> HIDE DEF differ, d, common
  <1>7. CASE differ = {} BY <1>1, <1>4, <1>7 DEF d, common
  <1>8. CASE differ # {}
    <2>1. \E n \in differ : \A k \in differ : n <= k BY <1>5, <1>8, LeastNumber
    <2>2. first \in differ /\ \A k \in differ : first <= k BY <2>1
    <2> HIDE DEF first
    <2>3. \A k \in 1 .. first - 1 : k \in common /\ k \notin differ
      <3> SUFFICES ASSUME NEW k \in 1 .. first - 1 PROVE k \in common /\ k \notin differ
        OBVIOUS
      <3>1. first \in Nat /\ k \in Nat /\ k < first BY <1>5, <2>2
      <3>2. k \in 1 .. first BY <3>1
      <3>3. 1 .. first \subseteq common BY <1>2, <1>6, <2>2
      <3> QED BY <2>2, <3>1, <3>2, <3>3
    <2>4. \A k \in 1 .. first - 1 : l[k] = r[k] BY <1>4, <2>3
    <2>5. first \in common /\ l[first] # r[first] BY <1>4, <1>6, <2>2
    <2> QED BY <1>1, <1>8, <2>4, <2>5 DEF d, common
  <1> QED BY <1>7, <1>8

\* The order of pre-releases is strict.
LEMMA BeforeIsStrict ==
  ASSUME NEW x \in Seq(Part), NEW y \in Seq(Part), NEW z \in Seq(Part)
  PROVE  ~Before(x, x) /\ (Before(x, y) /\ Before(y, z) => Before(x, z))
  <1>1. ~Before(x, x)
    <2> SUFFICES ASSUME NEW n \in Nat \ {0}, BeforeAt(x, x, n) PROVE FALSE
      BY DEF Before
    <2>1. n <= Len(x) /\ ComparePart(x[n], x[n]) = -1 BY DEF BeforeAt
    <2>2. n \in 1 .. Len(x) BY <2>1
    <2>3. x[n] \in Part BY <2>2
    <2>4. ComparePart(x[n], x[n]) = 0 BY <2>3, PartOrder
    <2> QED BY <2>1, <2>4
  <1>2. ASSUME NEW n \in Nat \ {0}, NEW m \in Nat \ {0}, BeforeAt(x, y, n), BeforeAt(y, z, m) PROVE Before(x, z)
    <2>1. Len(x) \in Nat /\ Len(y) \in Nat /\ Len(z) \in Nat OBVIOUS
    <2>2. CASE n < m
      <3>1. \A k \in 1 .. n - 1 : x[k] = z[k]
        <4> TAKE k \in 1 .. n - 1
        <4>1. k \in 1 .. m - 1 BY <2>2
        <4> QED BY <1>2, <4>1 DEF BeforeAt
      <3>2. n - 1 <= Len(x) /\ n <= Len(y) /\ m <= Len(z) BY <1>2 DEF BeforeAt
      <3>3. n \in 1 .. m - 1 /\ n <= Len(z) BY <2>1, <2>2, <3>2
      <3>4. y[n] = z[n] BY <1>2, <3>3 DEF BeforeAt
      <3>5. BeforeAt(x, z, n) BY <1>2, <3>1, <3>2, <3>3, <3>4 DEF BeforeAt
      <3> QED BY <3>5 DEF Before
    <2>3. CASE m <= n
      <3>1. \A k \in 1 .. m - 1 : x[k] = z[k]
        <4> TAKE k \in 1 .. m - 1
        <4>1. k \in 1 .. n - 1 BY <2>3
        <4> QED BY <1>2, <4>1 DEF BeforeAt
      <3>2. n - 1 <= Len(x) /\ n <= Len(y) /\ m - 1 <= Len(y) /\ m <= Len(z) BY <1>2 DEF BeforeAt
      <3>3. m - 1 <= Len(x) /\ m <= Len(y) BY <2>1, <2>3, <3>2
      <3>4. ComparePart(y[m], z[m]) = -1 BY <1>2, <3>3 DEF BeforeAt
      <3>5. ASSUME m <= Len(x) PROVE ComparePart(x[m], z[m]) = -1
        <4>1. m \in 1 .. Len(x) /\ m \in 1 .. Len(y) /\ m \in 1 .. Len(z) BY <2>1, <3>2, <3>3, <3>5
        <4>2. x[m] \in Part /\ y[m] \in Part /\ z[m] \in Part BY <4>1
        <4>3. CASE m < n
          <5>1. m \in 1 .. n - 1 BY <4>3
          <5> QED BY <1>2, <3>4, <5>1 DEF BeforeAt
        <4>4. CASE m = n
          <5>1. ComparePart(x[m], y[m]) = -1 BY <1>2, <3>5, <4>4 DEF BeforeAt
          <5> QED BY <3>4, <4>2, <5>1, PartOrder
        <4> QED BY <2>3, <4>3, <4>4
      <3>6. BeforeAt(x, z, m) BY <3>1, <3>2, <3>3, <3>5 DEF BeforeAt
      <3> QED BY <3>6 DEF Before
    <2> QED BY <2>2, <2>3
  <1> QED BY <1>1, <1>2 DEF Before

\* A pre-release comes before another, and before the release itself.
Precedes(l, r) == l # <<>> /\ (r = <<>> \/ Before(l, r))

\* That order is strict.
LEMMA PrecedesIsStrict ==
  ASSUME NEW x \in Seq(Part), NEW y \in Seq(Part), NEW z \in Seq(Part)
  PROVE  ~Precedes(x, x) /\ (Precedes(x, y) /\ Precedes(y, z) => Precedes(x, z))
  BY BeforeIsStrict DEF Precedes

\* compare_prerelease is that order.
LEMMA PrereleaseOrder ==
  ASSUME NEW l \in Seq(Part), NEW r \in Seq(Part)
  PROVE  LET c == ComparePrerelease(l, r)
         IN  /\ c \in {-1, 0, 1}
             /\ c = -1 <=> Precedes(l, r)
             /\ c = 1 <=> Precedes(r, l)
             /\ c = 0 <=> l = r
  <1> DEFINE c == ComparePrerelease(l, r)
             d == FirstDifference(l, r, ComparePart)
             common == 1 .. (IF Len(l) < Len(r) THEN Len(l) ELSE Len(r))
  <1>1. ~Precedes(l, l) /\ ~Precedes(r, r) /\ ~(Precedes(l, r) /\ Precedes(r, l)) BY PrecedesIsStrict
  <1>2. c \in {-1, 0, 1} /\ (c = -1 => Precedes(l, r)) /\ (c = 1 => Precedes(r, l)) /\ (c = 0 => l = r)
    <2>1. CASE l = <<>> \/ r = <<>>
      <3>1. c = Sign(Len(r), Len(l)) BY <2>1 DEF ComparePrerelease
      <3>2. Len(l) \in Nat /\ Len(r) \in Nat /\ (l = <<>> <=> Len(l) = 0) /\ (r = <<>> <=> Len(r) = 0) OBVIOUS
      <3> QED BY <2>1, <3>1, <3>2 DEF Sign, Precedes
    <2>2. CASE ~(l = <<>> \/ r = <<>>)
      <3>1. Len(l) \in Nat /\ Len(r) \in Nat OBVIOUS
      <3>2. c = IF d # 0 THEN d ELSE Sign(Len(l), Len(r)) BY <2>2 DEF ComparePrerelease
      <3>3. \/ d = 0 /\ \A k \in common : l[k] = r[k]
            \/ \E n \in common : d = ComparePart(l[n], r[n]) /\ l[n] # r[n] /\ \A k \in 1 .. n - 1 : l[k] = r[k]
        BY DifferenceFound
      <3> HIDE DEF c, d
      <3>4. CASE d = 0 /\ \A k \in common : l[k] = r[k]
        <4>1. CASE Len(l) = Len(r)
          <5>1. l = r BY <3>4, <4>1
          <5> QED BY <3>2, <3>4, <4>1, <5>1 DEF Sign
        <4>2. CASE Len(l) < Len(r)
          <5>1. c = -1 BY <3>1, <3>2, <3>4, <4>2 DEF Sign
          <5>2. BeforeAt(l, r, Len(l) + 1)
            <6>1. \A k \in 1 .. (Len(l) + 1) - 1 : l[k] = r[k] BY <3>1, <3>4, <4>2
            <6> QED BY <3>1, <4>2, <6>1 DEF BeforeAt
          <5>3. Len(l) + 1 \in Nat \ {0} BY <3>1
          <5> QED BY <2>2, <5>1, <5>2, <5>3 DEF Precedes, Before
        <4>3. CASE Len(r) < Len(l)
          <5>1. c = 1 BY <3>1, <3>2, <3>4, <4>3 DEF Sign
          <5>2. BeforeAt(r, l, Len(r) + 1)
            <6>1. \A k \in 1 .. (Len(r) + 1) - 1 : r[k] = l[k] BY <3>1, <3>4, <4>3
            <6> QED BY <3>1, <4>3, <6>1 DEF BeforeAt
          <5>3. Len(r) + 1 \in Nat \ {0} BY <3>1
          <5> QED BY <2>2, <5>1, <5>2, <5>3 DEF Precedes, Before
        <4> QED BY <3>1, <4>1, <4>2, <4>3
      <3>5. ASSUME NEW n \in common, d = ComparePart(l[n], r[n]), l[n] # r[n], \A k \in 1 .. n - 1 : l[k] = r[k]
            PROVE  c \in {-1, 0, 1} /\ (c = -1 => Precedes(l, r)) /\ (c = 1 => Precedes(r, l)) /\ (c = 0 => l = r)
        <4>1. n \in 1 .. Len(l) /\ n \in 1 .. Len(r) /\ n \in Nat \ {0} OBVIOUS
        <4>2. l[n] \in Part /\ r[n] \in Part BY <4>1
        <4>3. d \in {-1, 1} /\ ComparePart(r[n], l[n]) = -d BY <3>5, <4>2, PartOrder
        <4>4. c = d BY <3>2, <4>3
        <4>5. d = -1 => BeforeAt(l, r, n) BY <3>5, <4>1 DEF BeforeAt
        <4>6. d = 1 => BeforeAt(r, l, n)
          <5>1. d = 1 => ComparePart(r[n], l[n]) = -1 BY <4>3
          <5>2. \A k \in 1 .. n - 1 : r[k] = l[k] BY <3>5
          <5> QED BY <4>1, <5>1, <5>2 DEF BeforeAt
        <4> QED BY <2>2, <4>1, <4>3, <4>4, <4>5, <4>6 DEF Precedes, Before
      <3> QED BY <3>3, <3>4, <3>5
    <2> QED BY <2>1, <2>2
  <1> HIDE DEF c
  <1> QED BY <1>1, <1>2 DEF c


\* The order of major, minor and patch.
CoreBefore(x, y) ==
    \/ x[1] < y[1]
    \/ x[1] = y[1] /\ x[2] < y[2]
    \/ x[1] = y[1] /\ x[2] = y[2] /\ x[3] < y[3]

\* FirstDifference of two cores says which comes first.
LEMMA CoreOrder ==
  ASSUME NEW x \in Nat \X Nat \X Nat, NEW y \in Nat \X Nat \X Nat
  PROVE  LET c == FirstDifference(x, y, Sign)
         IN  x # y => c = IF CoreBefore(x, y) THEN -1 ELSE 1
  <1> DEFINE differ == {n \in 1 .. 3 : Sign(x[n], y[n]) # 0}
             first == CHOOSE n \in differ : \A k \in differ : n <= k
             c == FirstDifference(x, y, Sign)
  <1>1. /\ x = <<x[1], x[2], x[3]>> /\ y = <<y[1], y[2], y[3]>> /\ Len(x) = 3 /\ Len(y) = 3
        /\ x[1] \in Nat /\ x[2] \in Nat /\ x[3] \in Nat /\ y[1] \in Nat /\ y[2] \in Nat /\ y[3] \in Nat
    OBVIOUS
  <1>2. c = IF differ = {} THEN 0 ELSE Sign(x[first], y[first]) BY <1>1 DEF FirstDifference
  <1>3. \A n \in 1 .. 3 : n \in differ <=> x[n] # y[n] BY DEF Sign
  <1>4. differ \in SUBSET Nat /\ differ \subseteq {1, 2, 3} OBVIOUS
  <1> HIDE DEF differ, c
  <1> SUFFICES ASSUME x # y PROVE c = IF CoreBefore(x, y) THEN -1 ELSE 1
    BY DEF c
  <1>5. differ # {}
    <2>1. x[1] # y[1] \/ x[2] # y[2] \/ x[3] # y[3] BY <1>1
    <2> QED BY <1>3, <2>1
  <1>6. \E n \in differ : \A k \in differ : n <= k BY <1>4, <1>5, LeastNumber
  <1>7. first \in differ /\ \A k \in differ : first <= k BY <1>6
  <1> HIDE DEF first
  <1>8. c = Sign(x[first], y[first]) BY <1>2, <1>5
  <1>9. first \in {1, 2, 3} BY <1>4, <1>7
  <1>10. CASE first = 1
    <2>1. x[1] # y[1] BY <1>3, <1>7, <1>10
    <2> QED BY <1>1, <1>8, <1>10, <2>1 DEF Sign, CoreBefore
  <1>11. CASE first = 2
    <2>1. 1 \notin differ BY <1>7, <1>11
    <2>2. x[1] = y[1] /\ x[2] # y[2] BY <1>3, <1>7, <1>11, <2>1
    <2> QED BY <1>1, <1>8, <1>11, <2>2 DEF Sign, CoreBefore
  <1>12. CASE first = 3
    <2>1. 1 \notin differ /\ 2 \notin differ BY <1>7, <1>12
    <2>2. x[1] = y[1] /\ x[2] = y[2] /\ x[3] # y[3] BY <1>3, <1>7, <1>12, <2>1
    <2> QED BY <1>1, <1>8, <1>12, <2>2 DEF Sign, CoreBefore
  <1> QED BY <1>9, <1>10, <1>11, <1>12

\* Version x comes before y.
VersionBefore(x, y) == CoreBefore(x.core, y.core) \/ (x.core = y.core /\ Precedes(x.pre, y.pre))

\* compare_versions is the order of versions.
LEMMA CompareIsBefore ==
  ASSUME NEW x \in VersionType, NEW y \in VersionType
  PROVE  LET c == CompareVersions(x, y)
         IN  /\ c \in {-1, 0, 1}
             /\ c = -1 <=> VersionBefore(x, y)
             /\ c = 1 <=> VersionBefore(y, x)
             /\ c = 0 <=> x = y
  <1>1. /\ x.core \in Nat \X Nat \X Nat /\ y.core \in Nat \X Nat \X Nat /\ x.pre \in Seq(Part) /\ y.pre \in Seq(Part)
        /\ x = y <=> x.core = y.core /\ x.pre = y.pre
    BY DEF VersionType
  <1> DEFINE a == x.core
             b == y.core
             c == CompareVersions(x, y)
  <1>2. /\ a = <<a[1], a[2], a[3]>> /\ b = <<b[1], b[2], b[3]>>
        /\ a[1] \in Nat /\ a[2] \in Nat /\ a[3] \in Nat /\ b[1] \in Nat /\ b[2] \in Nat /\ b[3] \in Nat
    BY <1>1
  <1>3. c = IF a # b THEN FirstDifference(a, b, Sign) ELSE ComparePrerelease(x.pre, y.pre) BY DEF CompareVersions
  <1>4. a # b => FirstDifference(a, b, Sign) = IF CoreBefore(a, b) THEN -1 ELSE 1 BY <1>1, CoreOrder
  <1> HIDE DEF a, b, c
  <1>5. CASE a # b
    <2>1. CoreBefore(a, b) <=> ~CoreBefore(b, a)
      <3>1. a[1] # b[1] \/ a[2] # b[2] \/ a[3] # b[3] BY <1>2, <1>5
      <3> QED BY <1>2, <3>1 DEF CoreBefore
    <2> QED BY <1>1, <1>3, <1>4, <1>5, <2>1 DEF VersionBefore, a, b, c
  <1>6. CASE a = b
    <2>1. ~CoreBefore(a, b) /\ ~CoreBefore(b, a) BY <1>2, <1>6 DEF CoreBefore
    <2>2. LET q == ComparePrerelease(x.pre, y.pre)
          IN  /\ q \in {-1, 0, 1}
              /\ q = -1 <=> Precedes(x.pre, y.pre)
              /\ q = 1 <=> Precedes(y.pre, x.pre)
              /\ q = 0 <=> x.pre = y.pre
      BY <1>1, PrereleaseOrder
    <2>3. c = ComparePrerelease(x.pre, y.pre) BY <1>3, <1>6
    <2> HIDE <1>3, <1>4
    <2> QED BY <1>1, <1>6, <2>1, <2>2, <2>3 DEF VersionBefore, a, b, c
  <1> QED BY <1>5, <1>6

\* The order of versions is transitive.
LEMMA VersionBeforeIsStrict ==
  ASSUME NEW x \in VersionType, NEW y \in VersionType, NEW z \in VersionType
  PROVE  VersionBefore(x, y) /\ VersionBefore(y, z) => VersionBefore(x, z)
  <1>1. /\ x.core \in Nat \X Nat \X Nat /\ y.core \in Nat \X Nat \X Nat /\ z.core \in Nat \X Nat \X Nat
        /\ x.pre \in Seq(Part) /\ y.pre \in Seq(Part) /\ z.pre \in Seq(Part)
    BY DEF VersionType
  <1>2. /\ CoreBefore(x.core, y.core) /\ CoreBefore(y.core, z.core) => CoreBefore(x.core, z.core)
    <2> DEFINE a == x.core  b == y.core  c == z.core
    <2>1. /\ a[1] \in Nat /\ a[2] \in Nat /\ a[3] \in Nat /\ b[1] \in Nat /\ b[2] \in Nat /\ b[3] \in Nat
          /\ c[1] \in Nat /\ c[2] \in Nat /\ c[3] \in Nat
      BY <1>1
    <2> HIDE DEF a, b, c
    <2>2. CoreBefore(a, b) /\ CoreBefore(b, c) => CoreBefore(a, c) BY <2>1 DEF CoreBefore
    <2> QED BY <2>2 DEF a, b, c
  <1>3. Precedes(x.pre, y.pre) /\ Precedes(y.pre, z.pre) => Precedes(x.pre, z.pre) BY <1>1, PrecedesIsStrict
  <1> QED BY <1>2, <1>3 DEF VersionBefore

\* compare_versions (version_constraints.py) is a total order of all versions in which a release
\* follows its pre-releases: what sorting candidates by it relies on.
THEOREM VersionsOrdered ==
  ASSUME NEW x \in VersionType, NEW y \in VersionType, NEW z \in VersionType
  PROVE  VersionOrder(x, y, z)
  <1>1. CompareVersions(x, y) = -CompareVersions(y, x) BY CompareIsBefore
  <1>2. CompareVersions(x, y) = 0 => x = y BY CompareIsBefore
  <1>3. CompareVersions(x, y) <= 0 /\ CompareVersions(y, z) <= 0 => CompareVersions(x, z) <= 0
    <2>1. CompareVersions(x, y) <= 0 <=> VersionBefore(x, y) \/ x = y BY CompareIsBefore
    <2>2. CompareVersions(y, z) <= 0 <=> VersionBefore(y, z) \/ y = z BY CompareIsBefore
    <2>3. CompareVersions(x, z) <= 0 <=> VersionBefore(x, z) \/ x = z BY CompareIsBefore
    <2> QED BY <2>1, <2>2, <2>3, VersionBeforeIsStrict
  <1>4. CompareVersions(Version(x.core[1], x.core[2], x.core[3], <<>>), x) >= 0
    <2> DEFINE v == Version(x.core[1], x.core[2], x.core[3], <<>>)
    <2>1. x.core \in Nat \X Nat \X Nat /\ x.pre \in Seq(Part) BY DEF VersionType
    <2>2. v.core = x.core /\ v.pre = <<>> /\ v = [core |-> x.core, pre |-> <<>>] BY <2>1 DEF Version
    <2> HIDE DEF v
    <2>3. v \in VersionType BY <2>1, <2>2 DEF VersionType
    <2>4. ~CoreBefore(v.core, x.core) BY <2>1, <2>2 DEF CoreBefore
    <2>5. ~VersionBefore(v, x) BY <2>2, <2>4 DEF VersionBefore, Precedes
    <2>6. CompareVersions(v, x) \in {0, 1} BY <2>3, <2>5, CompareIsBefore
    <2> QED BY <2>6 DEF v
  <1> QED BY <1>1, <1>2, <1>3, <1>4 DEF VersionOrder


-------------------------------------------------------------------------------
(* Compatibility *)

\* Evidence that could be there: dated, its paths comparable.
Dated(evidence) == \A e \in evidence : e.at \in Int /\ e.path \in Int

About(s, evidence, platform) == {e \in evidence : SkillMatches(s, e) /\ PlatformName(e.platform) = platform}

\* Adding evidence older than the latest changes nothing.
LEMMA OlderEvidenceIgnored ==
  ASSUME NEW s, NEW evidence, NEW more, Dated(evidence \cup more), LatestEvidence(s, evidence, Canonical) # {},
         \A e \in more : \A f \in LatestEvidence(s, evidence, Canonical) : e.at < f.at
  PROVE  LatestEvidence(s, evidence \cup more, Canonical) = LatestEvidence(s, evidence, Canonical)
  <1> DEFINE A == About(s, evidence, Canonical)
             B == About(s, evidence \cup more, Canonical)
             L == LatestEvidence(s, evidence, Canonical)
  <1>1. /\ L = {e \in A : \A f \in A : ~EvidenceBefore(e, f)}
        /\ LatestEvidence(s, evidence \cup more, Canonical) = {e \in B : \A f \in B : ~EvidenceBefore(e, f)}
    BY DEF LatestEvidence, About
  <1>2. A \subseteq B /\ B \subseteq A \cup more /\ Dated(B) BY DEF About, Dated
  <1> HIDE DEF A, B, L
  <1>3. L # {} /\ L \subseteq A /\ \A e \in more : \A f \in L : e.at < f.at BY <1>1 DEF L
  <1>4. ASSUME NEW e \in L, NEW f \in B PROVE ~EvidenceBefore(e, f)
    <2>1. CASE f \in A BY <1>1, <1>4, <2>1
    <2>2. CASE f \in more BY <1>2, <1>3, <2>2 DEF EvidenceBefore, Dated
    <2> QED BY <1>2, <2>1, <2>2
  <1>5. ASSUME NEW e \in B, \A f \in B : ~EvidenceBefore(e, f) PROVE e \in L
    <2>1. CASE e \in A BY <1>1, <1>2, <1>5, <2>1
    <2>2. CASE e \in more
      <3>1. PICK f \in L : e.at < f.at BY <1>3, <2>2
      <3> QED BY <1>2, <1>3, <1>5, <3>1 DEF EvidenceBefore
    <2> QED BY <1>2, <2>1, <2>2
  <1>6. {e \in B : \A f \in B : ~EvidenceBefore(e, f)} = L BY <1>2, <1>3, <1>4, <1>5
  <1> QED BY <1>1, <1>6 DEF L

\* A release once blocked (collect_platform_compatibility_state) stays so until newer
\* evidence comes, whatever older evidence is found and whatever time passes.
THEOREM BlockedStays ==
  ASSUME NEW s, NEW evidence, NEW more, NEW profiles, NEW policy, NEW now \in Int, NEW later \in Int,
         Dated(evidence \cup more), policy.days \in Int
  PROVE  OnlyNewerEvidenceOpens(s, evidence, more, profiles, policy, now, later)
  <1> DEFINE L == LatestEvidence(s, evidence, Canonical)
             old == {e \in more : \A f \in L : e.at < f.at}
             e0 == CHOOSE e \in L : TRUE
             day == ContractDay(Canonical, profiles)
  <1> SUFFICES ASSUME ReleaseBlocked(s, evidence, profiles, policy, now), L # {}, later >= now
               PROVE  ReleaseBlocked(s, evidence \cup old, profiles, policy, later)
    BY DEF OnlyNewerEvidenceOpens
  <1>1. LatestEvidence(s, evidence \cup old, Canonical) = L
    <2>1. Dated(evidence \cup old) BY DEF Dated
    <2> QED BY <2>1, OlderEvidenceIgnored
  <1>2. e0 \in L /\ e0 \in evidence BY DEF LatestEvidence
  <1>3. e0.at \in Int BY <1>2 DEF Dated
  <1> HIDE DEF L, old
  <1>4. Freshness(L, day, policy, now) # "fresh" => Freshness(L, day, policy, later) = "stale"
    BY <1>3 DEF Freshness
  <1> HIDE DEF day
  <1>5. Freshness(L, day, policy, now) \in {"fresh", "stale", "unknown"} BY DEF Freshness
  <1>6. StateOf(L) \in {"unknown", "blocked", "broken", "unsupported"}
          \/ Freshness(L, day, policy, now) \in {"stale", "unknown"}
    BY DEF ReleaseBlocked, CanonicalSupport, Support, L, day
  <1>7. StateOf(L) \in {"unknown", "blocked", "broken", "unsupported"} \/ Freshness(L, day, policy, later) = "stale"
    BY <1>4, <1>6
  <1> QED BY <1>1, <1>7 DEF ReleaseBlocked, CanonicalSupport, Support, day

\* Evidence that names another publisher's skill says nothing of this one (_skill_matches).
THEOREM OwnEvidenceCounts ==
  ASSUME NEW s, NEW evidence, NEW profiles, NEW policy, NEW now
  PROVE  OthersEvidenceIsIgnored(s, evidence, profiles, policy, now)
  <1> DEFINE own == {e \in evidence : e.qualified \in {"", s.pub}}
  <1>1. \A e \in evidence : SkillMatches(s, e) => e \in own BY DEF SkillMatches
  <1> HIDE DEF own
  <1>2. own \subseteq evidence BY DEF own
  <1>3. LatestEvidence(s, evidence, Canonical) = LatestEvidence(s, own, Canonical)
    BY <1>1, <1>2 DEF LatestEvidence
  <1> QED BY <1>3 DEF OthersEvidenceIsIgnored, CanonicalSupport, own

\* The catalog's view of the canonical platform (merge_declared_and_verified_support) is the release gate's.
THEOREM CatalogIsTheGate ==
  ASSUME NEW s, NEW evidence, NEW profiles, NEW policy, NEW now
  PROVE  CatalogShowsTheGate(s, evidence, profiles, policy, now)
  <1> DEFINE found(p) == {e \in evidence :
                    /\ SkillMatches(s, e) /\ PlatformName(e.platform) = p
                    /\ ~\E f \in evidence : /\ SkillMatches(s, f) /\ PlatformName(f.platform) = p
                                            /\ EvidenceBefore(e, f)}
  <1>1. found(Canonical) = LatestEvidence(s, evidence, Canonical) BY DEF LatestEvidence
  <1>2. MergedSupport(s, evidence, profiles, policy, now)
          = [p \in MergedPlatforms(s, evidence) |-> Support(found(p), ContractDay(p, profiles), policy, now)]
    BY DEF MergedSupport
  <1> HIDE DEF found
  <1>3. \A t \in s.declared : PlatformName(t) \in MergedPlatforms(s, evidence) BY DEF MergedPlatforms
  <1> QED BY <1>1, <1>2, <1>3 DEF CatalogShowsTheGate, CanonicalSupport

\* A contract document read again after a skill was last checked blocks its
\* release, once the contract check passes (contracts.py, platform_state.py).
THEOREM ContractReachesGate ==
  ASSUME NEW s, NEW evidence, NEW doc, NEW profile, NEW policy, NEW maxAge, NEW now \in Int, Dated(evidence),
         policy.days \in Int, doc.verified \in Int
  PROVE  ContractReviewReachesGate(s, evidence, doc, profile, policy, maxAge, now)
  <1> DEFINE L == LatestEvidence(s, evidence, Canonical)
             e0 == CHOOSE e \in L : TRUE
  <1> SUFFICES ASSUME ContractCheckPasses(Canonical, doc, profile, maxAge, now), policy.contract = "stale",
                      \A e \in evidence : doc.verified > Day(e.at)
               PROVE  ReleaseBlocked(s, evidence, {profile}, policy, now)
    BY DEF ContractReviewReachesGate
  <1>1. profile.platform = Canonical /\ profile.verified = doc.verified /\ doc.verified >= 0
    <2>1. ContractErrors(Canonical, doc, profile) = {} /\ profile.verified = doc.verified BY DEF ContractCheckPasses
    <2>2. "document date" \notin ContractErrors(Canonical, doc, profile)
            /\ "profile platform" \notin ContractErrors(Canonical, doc, profile)
      BY <2>1
    <2>3. ~(doc.verified < 0) /\ profile.platform = Canonical BY <2>2 DEF ContractErrors
    <2> QED BY <2>1, <2>3
  <1>2. ContractDay(Canonical, {profile}) = doc.verified BY <1>1 DEF ContractDay
  <1>3. CASE L = {} BY <1>3 DEF ReleaseBlocked, CanonicalSupport, Support, StateOf
  <1>4. CASE L # {}
    <2>1. e0 \in evidence BY <1>4 DEF LatestEvidence
    <2>2. e0.at \in Int /\ doc.verified > Day(e0.at) BY <2>1 DEF Dated
    <2> HIDE DEF L
    <2>3. Freshness(L, doc.verified, policy, now) = "stale" BY <1>1, <1>4, <2>2 DEF Freshness
    <2> QED BY <1>2, <2>3 DEF ReleaseBlocked, CanonicalSupport, Support, L
  <1> QED BY <1>3, <1>4

\* Files with a time and a path have a last one, so evidence that matches is never overlooked.
LEMMA LatestIsThere ==
  ASSUME NEW s, NEW evidence, NEW platform, IsFiniteSet(evidence), Dated(evidence), About(s, evidence, platform) # {}
  PROVE  LatestEvidence(s, evidence, platform) # {}
  <1> DEFINE A == About(s, evidence, platform)
             R == {q \in A \X A : EvidenceBefore(q[1], q[2])}
  <1>1. IsFiniteSet(A) /\ Dated(A) BY FS_Subset DEF About, Dated
  <1>2. LatestEvidence(s, evidence, platform) = {e \in A : \A f \in A : ~EvidenceBefore(e, f)}
    BY DEF LatestEvidence, About
  <1> HIDE DEF A
  <1>3. \A x, y \in A : <<x, y>> \in R <=> EvidenceBefore(x, y) OBVIOUS
  <1> HIDE DEF R
  <1>4. \A x \in A : <<x, x>> \notin R BY <1>1, <1>3 DEF EvidenceBefore, Dated
  <1>5. \A x, y, z \in A : <<x, y>> \in R /\ <<y, z>> \in R => <<x, z>> \in R
    BY <1>1, <1>3 DEF EvidenceBefore, Dated
  <1>6. \E x \in A : \A y \in A : <<x, y>> \notin R
    <2>1. A # {} BY DEF A
    <2> QED BY <1>1, <1>4, <1>5, <2>1, LastExists
  <1> QED BY <1>2, <1>3, <1>6

-------------------------------------------------------------------------------
(* ReviewPolicy *)

\* What reviews.json and the imported evidence may hold: any decision, by
\* anyone, at any time.
Vote == [who : STRING, decision : {"approved", "rejected", "odd"}, at : Int]

MineIn(entries, r) == {n \in DOMAIN entries : entries[n].who = r}

\* Decision n is the last of its reviewer, by time and then by place.
IsLast(entries, r, n) ==
    /\ n \in MineIn(entries, r)
    /\ \A k \in MineIn(entries, r) :
          entries[k].at < entries[n].at \/ (entries[k].at = entries[n].at /\ k <= n)

\* Of two decisions of one reviewer one is the later.
LEMMA LastIsOne ==
  ASSUME NEW entries \in Seq(Vote), NEW r, NEW n, NEW m,
         IsLast(entries, r, n), IsLast(entries, r, m)
  PROVE  n = m
  <1>1. n \in 1 .. Len(entries) /\ m \in 1 .. Len(entries) BY DEF IsLast, MineIn
  <1>2. entries[n] \in Vote /\ entries[m] \in Vote BY <1>1
  <1>3. entries[n].at \in Int /\ entries[m].at \in Int BY <1>2 DEF Vote
  <1> QED BY <1>1, <1>3 DEF IsLast

\* A reviewer who decided has a last decision, the one Latest takes
\* (latest_distinct_entries).
LEMMA LatestIsLast ==
  ASSUME NEW entries \in Seq(Vote), NEW r, MineIn(entries, r) # {}
  PROVE  \E n \in MineIn(entries, r) : IsLast(entries, r, n) /\ Latest(entries, r) = entries[n]
  <1> DEFINE M == MineIn(entries, r)
             at(k) == entries[k].at
             R == {q \in M \X M : at(q[1]) < at(q[2]) \/ (at(q[1]) = at(q[2]) /\ q[1] < q[2])}
  <1>1. M \subseteq 1 .. Len(entries) /\ Len(entries) \in Nat BY DEF MineIn
  <1>2. IsFiniteSet(M)
    <2>1. IsFiniteSet(1 .. Len(entries)) BY <1>1, FS_Interval
    <2> HIDE DEF M
    <2> QED BY <1>1, <2>1, FS_Subset
  <1>3. \A k \in M : k \in Nat /\ at(k) \in Int
    <2>1. \A k \in M : entries[k] \in Vote BY <1>1
    <2> QED BY <1>1, <2>1 DEF Vote
  <1> HIDE DEF M, at
  <1>4. \A x, y \in M : <<x, y>> \in R <=> at(x) < at(y) \/ (at(x) = at(y) /\ x < y)
    OBVIOUS
  <1> HIDE DEF R
  <1>5. \A x \in M : <<x, x>> \notin R BY <1>3, <1>4
  <1>6. \A x, y, z \in M : <<x, y>> \in R /\ <<y, z>> \in R => <<x, z>> \in R BY <1>3, <1>4
  <1>7. PICK n \in M : \A k \in M : <<n, k>> \notin R
    <2>1. M # {} BY DEF M
    <2> QED BY <1>2, <1>5, <1>6, <2>1, LastExists
  <1>8. ASSUME NEW k \in M PROVE at(k) < at(n) \/ (at(k) = at(n) /\ k <= n)
    <2>1. ~(at(n) < at(k) \/ (at(n) = at(k) /\ n < k)) BY <1>4, <1>7
    <2>2. k \in Nat /\ n \in Nat /\ at(k) \in Int /\ at(n) \in Int BY <1>3, <1>7
    <2> QED BY <2>1, <2>2
  <1>9. \A k \in M : entries[k].at < entries[n].at \/ (entries[k].at = entries[n].at /\ k <= n)
    BY <1>8 DEF at
  <1>10. IsLast(entries, r, n) BY <1>7, <1>9 DEF IsLast, M
  <1> DEFINE m == CHOOSE i \in M : \A k \in M : entries[k].at < entries[i].at \/ (entries[k].at = entries[i].at /\ k <= i)
  <1>11. IsLast(entries, r, m)
    <2>1. m \in M /\ \A k \in M : entries[k].at < entries[m].at \/ (entries[k].at = entries[m].at /\ k <= m)
      BY <1>7, <1>9
    <2> QED BY <2>1 DEF IsLast, M
  <1>12. Latest(entries, r) = entries[m] BY DEF Latest, M, MineIn
  <1>13. m = n BY <1>10, <1>11, LastIsOne
  <1> QED BY <1>7, <1>10, <1>12, <1>13 DEF M

\* The same from the last decision's side.
LEMMA LastIsLatest ==
  ASSUME NEW entries \in Seq(Vote), NEW r, NEW n, IsLast(entries, r, n)
  PROVE  Latest(entries, r) = entries[n]
  <1>1. MineIn(entries, r) # {} BY DEF IsLast
  <1>2. PICK m \in MineIn(entries, r) : IsLast(entries, r, m) /\ Latest(entries, r) = entries[m]
    BY <1>1, LatestIsLast
  <1> QED BY <1>2, LastIsOne

\* A skill whose records are lists of decisions.
Recorded(s) ==
    s \in [reviews : Seq(Vote), evidence : Seq(Vote), names : SUBSET STRING, owner : STRING, requested : BOOLEAN,
           file : BOOLEAN, stage : STRING, risk : STRING, lacks : SUBSET STRING, maintainers : Nat]

\* What a recorded skill's entries are: dated votes.
LEMMA EntriesAreDecisions ==
  ASSUME NEW s, Recorded(s)
  PROVE  Entries(s) \in Seq(Vote)
  BY DEF Recorded, Entries

\* A policy whose quorum is a number of a finite set of reviewers.
Counting(p, s) == IsFiniteSet(Reviewers(p)) /\ RuleFor(p, s).min \in Nat

\* What counts is counted: finitely many reviewers approve or reject.
LEMMA VotersFinite ==
  ASSUME NEW p, NEW s, Counting(p, s)
  PROVE  /\ IsFiniteSet(Approvals(p, s)) /\ Cardinality(Approvals(p, s)) \in Nat
         /\ IsFiniteSet(Rejections(p, s))
  <1>1. Approvals(p, s) \subseteq Reviewers(p) /\ Rejections(p, s) \subseteq Reviewers(p)
    BY DEF Approvals, Rejections, Counts
  <1> QED BY <1>1, FS_Subset, FS_CardinalityType DEF Counting

\* An approval that counts is its reviewer's standing one.
LEMMA ApprovalsStand ==
  ASSUME NEW p, NEW s, Recorded(s)
  PROVE  Approvals(p, s) \subseteq StandingApprovals(p, Entries(s))
  <1> SUFFICES ASSUME NEW r \in Approvals(p, s) PROVE r \in StandingApprovals(p, Entries(s))
    OBVIOUS
  <1> DEFINE E == Entries(s)
  <1>1. E \in Seq(Vote) BY EntriesAreDecisions
  <1>2. r \in Reviewers(p) /\ Latest(E, r).decision = "approved" /\ MineIn(E, r) # {}
    BY DEF Approvals, Counts, Deciders, MineIn
  <1> HIDE DEF E
  <1>3. PICK n \in MineIn(E, r) : IsLast(E, r, n) /\ Latest(E, r) = E[n] BY <1>1, <1>2, LatestIsLast
  <1>4. n \in 1 .. Len(E) /\ E[n] \in Vote /\ E[n].who = r BY <1>1 DEF MineIn
  <1>5. E[n] = ReviewEntry(r, "approved", E[n].at) BY <1>2, <1>3, <1>4 DEF ReviewEntry, Vote
  <1>6. ASSUME NEW k \in DOMAIN E \ {n}, E[k].who = r
        PROVE  E[k].at < E[n].at \/ (E[k].at = E[n].at /\ k < n)
    BY <1>1, <1>3, <1>4, <1>6 DEF IsLast, MineIn
  <1>7. n \in DOMAIN E BY <1>1, <1>4
  <1> QED BY <1>2, <1>5, <1>6, <1>7 DEF StandingApprovals, E

\* An open gate (evaluate_review_state) is backed by standing approvals of enough configured
\* reviewers, by the owner's only when the others cannot meet the rule.
THEOREM GateIsBacked ==
  ASSUME NEW p, NEW s, Recorded(s), Counting(p, s)
  PROVE  OpenGateIsBacked(p, s)
  <1> SUFFICES ASSUME GatePass(p, s)
               PROVE  \E backing \in SUBSET StandingApprovals(p, Entries(s)) :
                        /\ Cardinality(backing) >= RuleFor(p, s).min
                        /\ RuleFor(p, s).groups \subseteq UNION {GroupsOf(p, r) : r \in backing}
                        /\ p.differ /\ (~p.fallback \/ OthersSuffice(p, s)) => s.owner \notin backing
    BY DEF OpenGateIsBacked
  <1>1. Approvals(p, s) \in SUBSET StandingApprovals(p, Entries(s)) BY ApprovalsStand
  <1>2. Cardinality(Approvals(p, s)) >= RuleFor(p, s).min BY DEF GatePass
  <1>3. RuleFor(p, s).groups \subseteq UNION {GroupsOf(p, r) : r \in Approvals(p, s)}
    BY DEF GatePass, MissingGroups
  <1>4. ASSUME p.differ, ~p.fallback \/ OthersSuffice(p, s), s.owner \in Approvals(p, s) PROVE FALSE
    <2> DEFINE others == Reviewers(p) \ {s.owner}
    <2>1. p.fallback /\ OwnerUnavoidable(p, s.owner, RuleFor(p, s))
      BY <1>4 DEF Approvals, Counts, OwnerMayCount
    <2>2. \/ Cardinality(others) < RuleFor(p, s).min
          \/ ~(RuleFor(p, s).groups \subseteq UNION {GroupsOf(p, r) : r \in others})
      BY <2>1 DEF OwnerUnavoidable
    <2>3. /\ Cardinality(others) >= RuleFor(p, s).min
          /\ RuleFor(p, s).groups \subseteq UNION {GroupsOf(p, r) : r \in others}
      BY <1>4, <2>1 DEF OthersSuffice
    <2>4. Cardinality(others) \in Nat /\ RuleFor(p, s).min \in Nat
      BY FS_Subset, FS_CardinalityType DEF Counting
    <2> HIDE DEF others
    <2> QED BY <2>2, <2>3, <2>4
  <1> QED BY <1>1, <1>2, <1>3, <1>4

\* The reviewers whose last decision is n decide by it.
LEMMA SameVotes ==
  ASSUME NEW p, NEW s, NEW t, RuleFor(p, t) = RuleFor(p, s), t.owner = s.owner, Deciders(t) = Deciders(s),
         \A r \in Deciders(s) : Latest(Entries(t), r) = Latest(Entries(s), r)
  PROVE  Approvals(p, t) = Approvals(p, s) /\ Rejections(p, t) = Rejections(p, s)
  <1>1. OwnerMayCount(p, t) = OwnerMayCount(p, s) BY DEF OwnerMayCount
  <1>2. \A r \in Deciders(s) : Counts(p, t, r) = Counts(p, s, r) BY <1>1 DEF Counts
  <1> QED BY <1>2 DEF Approvals, Rejections

\* Imported evidence (review_evaluation.py) that is older than what its reviewers wrote in
\* reviews.json changes no vote.
THEOREM LateEvidenceChangesNothing ==
  ASSUME NEW p, NEW s, Recorded(s)
  PROVE  LateEvidenceIsIgnored(p, s)
  <1> DEFINE t == [s EXCEPT !.evidence = <<>>]
             E == Entries(s)
             F == Entries(t)
             X == s.reviews
             Y == s.evidence
  <1> SUFFICES ASSUME \A n \in DOMAIN Y : \E k \in DOMAIN X : X[k].who = Y[n].who /\ Y[n].at < X[k].at
               PROVE  Approvals(p, s) = Approvals(p, t) /\ Rejections(p, s) = Rejections(p, t)
    BY DEF LateEvidenceIsIgnored
  <1>1. X \in Seq(Vote) /\ Y \in Seq(Vote) BY DEF Recorded
  <1>2. t.reviews = X /\ t.evidence = <<>> /\ t.owner = s.owner /\ t.stage = s.stage /\ t.risk = s.risk
    BY DEF Recorded
  <1>3. E = X \o Y BY DEF Entries
  <1>4. F = X BY <1>1, <1>2 DEF Entries
  <1> HIDE DEF X, Y, t, E, F
  <1>5. /\ Len(X) \in Nat /\ Len(Y) \in Nat /\ Len(E) = Len(X) + Len(Y) /\ E \in Seq(Vote)
        /\ \A n \in 1 .. Len(X) : E[n] = X[n]
        /\ \A n \in 1 .. Len(Y) : E[Len(X) + n] = Y[n]
    BY <1>1, <1>3
  <1>6. \A n \in DOMAIN E : n \in 1 .. Len(X) \/ \E m \in 1 .. Len(Y) : n = Len(X) + m
    <2> SUFFICES ASSUME NEW n \in DOMAIN E, n \notin 1 .. Len(X) PROVE \E m \in 1 .. Len(Y) : n = Len(X) + m
      OBVIOUS
    <2>1. n \in 1 .. Len(E) BY <1>5
    <2>2. n - Len(X) \in 1 .. Len(Y) /\ n = Len(X) + (n - Len(X)) BY <1>5, <2>1
    <2> QED BY <2>2
  <1>7. ASSUME NEW n \in DOMAIN E PROVE \E k \in DOMAIN X : X[k].who = E[n].who
    <2>1. CASE n \in 1 .. Len(X) BY <1>1, <1>5, <2>1
    <2>2. CASE n \notin 1 .. Len(X)
      <3>1. PICK m \in 1 .. Len(Y) : n = Len(X) + m BY <1>6, <2>2
      <3>2. m \in DOMAIN Y /\ E[n] = Y[m] BY <1>1, <1>5, <3>1
      <3> QED BY <3>2
    <2> QED BY <2>1, <2>2
  <1>8. \A k \in DOMAIN X : k \in DOMAIN E /\ E[k] = X[k] BY <1>1, <1>5
  <1>9. Deciders(t) = Deciders(s) BY <1>4, <1>7, <1>8 DEF Deciders, E, F
  <1>10. ASSUME NEW r \in Deciders(s) PROVE Latest(E, r) = Latest(F, r)
    <2>1. MineIn(X, r) # {} /\ MineIn(X, r) \subseteq MineIn(E, r)
      BY <1>4, <1>8, <1>9, <1>10 DEF Deciders, MineIn, F
    <2>2. PICK n \in MineIn(E, r) : IsLast(E, r, n) /\ Latest(E, r) = E[n] BY <1>5, <2>1, LatestIsLast
    <2>3. n \in 1 .. Len(X)
      <3> SUFFICES ASSUME NEW m \in 1 .. Len(Y), n = Len(X) + m PROVE FALSE
        BY <1>6, <2>2 DEF MineIn
      <3>1. E[n] = Y[m] /\ Y[m].who = r BY <1>5, <2>2 DEF MineIn
      <3>2. PICK k \in DOMAIN X : X[k].who = r /\ Y[m].at < X[k].at BY <1>1, <3>1
      <3>3. k \in MineIn(E, r) /\ E[k] = X[k] BY <1>8, <3>2 DEF MineIn
      <3>4. X[k].at < Y[m].at \/ X[k].at = Y[m].at BY <2>2, <3>1, <3>3 DEF IsLast
      <3>5. X[k] \in Vote /\ Y[m] \in Vote BY <1>1, <3>2
      <3>6. X[k].at \in Int /\ Y[m].at \in Int BY <3>5 DEF Vote
      <3> QED BY <3>2, <3>4, <3>6
    <2>4. n \in DOMAIN X /\ E[n] = X[n] BY <1>1, <1>5, <2>3
    <2>5. IsLast(X, r, n)
      <3>1. n \in MineIn(X, r) BY <2>2, <2>4 DEF MineIn
      <3>2. \A k \in MineIn(X, r) : k \in MineIn(E, r) /\ E[k] = X[k] BY <1>8, <2>1 DEF MineIn
      <3> QED BY <2>2, <2>4, <3>1, <3>2 DEF IsLast
    <2>6. Latest(X, r) = X[n] BY <1>1, <2>5, LastIsLatest
    <2> QED BY <1>4, <2>2, <2>4, <2>6
  <1>11. RuleFor(p, t) = RuleFor(p, s) BY <1>2 DEF RuleFor
  <1>12. \A r \in Deciders(s) : Latest(Entries(t), r) = Latest(Entries(s), r) BY <1>10 DEF E, F
  <1>13. Approvals(p, t) = Approvals(p, s) /\ Rejections(p, t) = Rejections(p, s)
    BY <1>2, <1>9, <1>11, <1>12, SameVotes
  <1> QED BY <1>13

\* Where the decisions are when one more is appended to reviews.json.
LEMMA WithEntries ==
  ASSUME NEW s, Recorded(s), NEW e \in Vote
  PROVE  LET E == Entries(s)
             T == Entries(With(s, e))
             R == Len(s.reviews)
             Shift(k) == IF k <= R THEN k ELSE k + 1
         IN  /\ E \in Seq(Vote) /\ T \in Seq(Vote) /\ R \in Nat
             /\ R + 1 \in DOMAIN T /\ T[R + 1] = e
             /\ \A k \in DOMAIN E : k \in Nat /\ Shift(k) \in DOMAIN T /\ T[Shift(k)] = E[k]
             /\ \A n \in DOMAIN T : n = R + 1 \/ \E k \in DOMAIN E : n = Shift(k)
  <1> DEFINE E == Entries(s)
             T == Entries(With(s, e))
             X == s.reviews
             Y == s.evidence
             R == Len(X)
             Shift(k) == IF k <= R THEN k ELSE k + 1
  <1>1. X \in Seq(Vote) /\ Y \in Seq(Vote) /\ E = X \o Y BY DEF Recorded, Entries
  <1>2. T = Append(X, e) \o Y BY DEF Recorded, Entries, With
  <1> HIDE DEF X, Y, E, T
  <1>3. /\ R \in Nat /\ Len(Y) \in Nat /\ E \in Seq(Vote) /\ Len(E) = R + Len(Y)
        /\ \A n \in 1 .. R : E[n] = X[n]
        /\ \A n \in R + 1 .. R + Len(Y) : E[n] = Y[n - R]
    BY <1>1
  <1> DEFINE Z == Append(X, e)
  <1>4. /\ Z \in Seq(Vote) /\ Len(Z) = R + 1 /\ Z[R + 1] = e /\ \A n \in 1 .. R : Z[n] = X[n]
    BY <1>1
  <1> HIDE DEF Z
  <1>5. /\ T \in Seq(Vote) /\ Len(T) = R + 1 + Len(Y)
        /\ \A n \in 1 .. R + 1 : T[n] = Z[n]
        /\ \A n \in R + 2 .. R + 1 + Len(Y) : T[n] = Y[n - (R + 1)]
    <2>1. T = Z \o Y BY <1>2 DEF Z
    <2>2. /\ T \in Seq(Vote) /\ Len(T) = Len(Z) + Len(Y)
          /\ \A n \in 1 .. Len(Z) + Len(Y) : T[n] = IF n <= Len(Z) THEN Z[n] ELSE Y[n - Len(Z)]
      BY <1>1, <1>4, <2>1
    <2> QED BY <1>3, <1>4, <2>2
  <1>6. R + 1 \in DOMAIN T /\ T[R + 1] = e BY <1>3, <1>4, <1>5
  <1>7. ASSUME NEW k \in DOMAIN E PROVE k \in Nat /\ Shift(k) \in DOMAIN T /\ T[Shift(k)] = E[k]
    <2>1. k \in 1 .. R + Len(Y) BY <1>3
    <2>2. CASE k <= R
      <3>1. k \in 1 .. R BY <1>3, <2>1, <2>2
      <3>2. T[k] = X[k] /\ E[k] = X[k] /\ k \in DOMAIN T BY <1>3, <1>4, <1>5, <3>1
      <3> QED BY <2>1, <2>2, <3>2
    <2>3. CASE ~(k <= R)
      <3>1. k \in R + 1 .. R + Len(Y) /\ k + 1 \in R + 2 .. R + 1 + Len(Y) /\ (k + 1) - (R + 1) = k - R
        BY <1>3, <2>1, <2>3
      <3>2. T[k + 1] = Y[k - R] /\ E[k] = Y[k - R] /\ k + 1 \in DOMAIN T BY <1>3, <1>5, <3>1
      <3> QED BY <2>1, <2>3, <3>2
    <2> QED BY <2>2, <2>3
  <1>8. ASSUME NEW n \in DOMAIN T, n # R + 1 PROVE \E k \in DOMAIN E : n = Shift(k)
    <2>1. n \in 1 .. R + 1 + Len(Y) BY <1>5
    <2>2. CASE n <= R
      <3>1. n \in DOMAIN E /\ n = Shift(n) BY <1>3, <2>1, <2>2
      <3> QED BY <3>1
    <2>3. CASE ~(n <= R)
      <3>1. n - 1 \in 1 .. R + Len(Y) /\ ~(n - 1 <= R) /\ n = (n - 1) + 1 BY <1>3, <1>8, <2>1, <2>3
      <3>2. n - 1 \in DOMAIN E /\ n = Shift(n - 1) BY <1>3, <3>1
      <3> QED BY <3>2
    <2> QED BY <2>2, <2>3
  <1> QED BY <1>3, <1>5, <1>6, <1>7, <1>8 DEF E, T, X

\* One more decision is its reviewer's last one, or changes no last decision.
LEMMA OneMoreVote ==
  ASSUME NEW s, Recorded(s), NEW e \in Vote, NEW r, r \in Deciders(With(s, e))
  PROVE  LET T == Entries(With(s, e))
         IN  \/ r = e.who /\ Latest(T, r) = e
             \/ r \in Deciders(s) /\ Latest(T, r) = Latest(Entries(s), r)
  <1> DEFINE E == Entries(s)
             T == Entries(With(s, e))
             R == Len(s.reviews)
             Shift(k) == IF k <= R THEN k ELSE k + 1
  <1>1. /\ E \in Seq(Vote) /\ T \in Seq(Vote) /\ R \in Nat
        /\ R + 1 \in DOMAIN T /\ T[R + 1] = e
        /\ \A k \in DOMAIN E : k \in Nat /\ Shift(k) \in DOMAIN T /\ T[Shift(k)] = E[k]
        /\ \A n \in DOMAIN T : n = R + 1 \/ \E k \in DOMAIN E : n = Shift(k)
    BY WithEntries
  <1>2. MineIn(T, r) # {} BY DEF Deciders, MineIn
  <1>3. Deciders(s) = {E[n].who : n \in DOMAIN E} BY DEF Deciders
  <1> HIDE DEF E, T, R
  <1>4. PICK n \in MineIn(T, r) : IsLast(T, r, n) /\ Latest(T, r) = T[n] BY <1>1, <1>2, LatestIsLast
  <1>5. n \in DOMAIN T /\ T[n].who = r BY <1>4 DEF MineIn
  <1>6. CASE n = R + 1 BY <1>1, <1>4, <1>5, <1>6 DEF T
  <1>7. CASE n # R + 1
    <2>1. PICK k \in DOMAIN E : n = Shift(k) BY <1>1, <1>5, <1>7
    <2>2. E[k] = T[n] /\ k \in MineIn(E, r) /\ k \in Nat BY <1>1, <1>5, <2>1 DEF MineIn
    <2>3. ASSUME NEW j \in MineIn(E, r) PROVE E[j].at < E[k].at \/ (E[j].at = E[k].at /\ j <= k)
      <3>1. Shift(j) \in MineIn(T, r) /\ T[Shift(j)] = E[j] /\ j \in Nat BY <1>1 DEF MineIn
      <3> DEFINE m == Shift(j)
      <3>2. T[m].at < T[n].at \/ (T[m].at = T[n].at /\ m <= n) BY <1>4, <3>1 DEF IsLast
      <3>3. m <= n => j <= k BY <1>1, <2>1, <2>2, <3>1
      <3> HIDE DEF m
      <3> QED BY <2>2, <3>1, <3>2, <3>3 DEF m
    <2>4. IsLast(E, r, k) BY <2>2, <2>3 DEF IsLast
    <2>5. Latest(E, r) = E[k] BY <1>1, <2>4, LastIsLatest
    <2>6. r \in Deciders(s) BY <1>3, <2>2 DEF MineIn
    <2> QED BY <1>4, <2>2, <2>5, <2>6 DEF E, T
  <1> QED BY <1>6, <1>7

\* Whoever decided before has decided, and so has whoever decides now.
LEMMA DecidersGrow ==
  ASSUME NEW s, Recorded(s), NEW e \in Vote
  PROVE  Deciders(With(s, e)) = Deciders(s) \cup {e.who}
  <1> DEFINE E == Entries(s)
             T == Entries(With(s, e))
             R == Len(s.reviews)
             Shift(k) == IF k <= R THEN k ELSE k + 1
  <1>1. /\ R + 1 \in DOMAIN T /\ T[R + 1] = e
        /\ \A k \in DOMAIN E : Shift(k) \in DOMAIN T /\ T[Shift(k)] = E[k]
        /\ \A n \in DOMAIN T : n = R + 1 \/ \E k \in DOMAIN E : n = Shift(k)
    BY WithEntries
  <1>2. /\ Deciders(s) = {E[n].who : n \in DOMAIN E}
        /\ Deciders(With(s, e)) = {T[n].who : n \in DOMAIN T}
    BY DEF Deciders
  <1> HIDE DEF E, T, R, Shift
  <1>3. {T[n].who : n \in DOMAIN T} \subseteq {E[n].who : n \in DOMAIN E} \cup {e.who} BY <1>1
  <1>4. {E[n].who : n \in DOMAIN E} \subseteq {T[n].who : n \in DOMAIN T}
    <2> SUFFICES ASSUME NEW k \in DOMAIN E PROVE \E n \in DOMAIN T : E[k].who = T[n].who
      OBVIOUS
    <2>1. Shift(k) \in DOMAIN T /\ T[Shift(k)] = E[k] BY <1>1
    <2> QED BY <2>1
  <1>5. e.who \in {T[n].who : n \in DOMAIN T} BY <1>1
  <1> QED BY <1>2, <1>3, <1>4, <1>5

\* The reviewers whose vote is d.
Voters(p, s, d) == {r \in Deciders(s) : Counts(p, s, r) /\ Latest(Entries(s), r).decision = d}

\* One more vote for d adds to those for d at most its reviewer, and takes
\* nobody from them; from those for another it may take its reviewer.
LEMMA VotesMove ==
  ASSUME NEW p, NEW s, Recorded(s), NEW e \in Vote, e.decision \in {"approved", "rejected"}
  PROVE  /\ Voters(p, s, e.decision) \subseteq Voters(p, With(s, e), e.decision)
         /\ \A d \in {"approved", "rejected"} \ {e.decision} : Voters(p, With(s, e), d) \subseteq Voters(p, s, d)
         /\ RuleFor(p, With(s, e)) = RuleFor(p, s) /\ With(s, e).file = s.file
         /\ OwnerMayCount(p, With(s, e)) = OwnerMayCount(p, s) /\ With(s, e).owner = s.owner
         /\ Voters(p, With(s, e), e.decision) \subseteq Voters(p, s, e.decision) \cup {e.who}
  <1> DEFINE t == With(s, e)
  <1>1. t.owner = s.owner /\ t.stage = s.stage /\ t.risk = s.risk /\ t.file = s.file BY DEF Recorded, With
  <1> HIDE DEF t
  <1>2. RuleFor(p, t) = RuleFor(p, s) BY <1>1 DEF RuleFor
  <1>3. OwnerMayCount(p, t) = OwnerMayCount(p, s) BY <1>1, <1>2 DEF OwnerMayCount
  <1>4. Deciders(t) = Deciders(s) \cup {e.who} BY DecidersGrow DEF t
  <1>5. \A r \in Deciders(t) : \/ r = e.who /\ Latest(Entries(t), r) = e
                               \/ r \in Deciders(s) /\ Latest(Entries(t), r) = Latest(Entries(s), r)
    BY OneMoreVote DEF t
  <1>6. ASSUME NEW r \in Deciders(t), r \in Deciders(s), Latest(Entries(t), r) = Latest(Entries(s), r)
        PROVE  Counts(p, t, r) = Counts(p, s, r)
    BY <1>1, <1>3, <1>6 DEF Counts
  <1>7. ASSUME NEW r \in Voters(p, s, e.decision) PROVE r \in Voters(p, t, e.decision)
    <2>1. r \in Deciders(t) /\ r \in Deciders(s) BY <1>4 DEF Voters
    <2>2. CASE Latest(Entries(t), r) = e
      <3>1. Counts(p, t, r) BY <1>1, <1>3, <2>2 DEF Voters, Counts
      <3> QED BY <2>1, <2>2, <3>1 DEF Voters
    <2>3. CASE Latest(Entries(t), r) = Latest(Entries(s), r) BY <1>6, <2>1, <2>3 DEF Voters
    <2> QED BY <1>5, <2>1, <2>2, <2>3
  <1>8. ASSUME NEW d \in {"approved", "rejected"} \ {e.decision}, NEW r \in Voters(p, t, d)
        PROVE  r \in Voters(p, s, d)
    <2>1. r \in Deciders(t) /\ Latest(Entries(t), r) # e BY DEF Voters
    <2>2. r \in Deciders(s) /\ Latest(Entries(t), r) = Latest(Entries(s), r) BY <1>5, <2>1
    <2> QED BY <1>6, <2>1, <2>2 DEF Voters
  <1>9. ASSUME NEW r \in Voters(p, t, e.decision), r # e.who PROVE r \in Voters(p, s, e.decision)
    <2>1. r \in Deciders(t) BY DEF Voters
    <2>2. r \in Deciders(s) /\ Latest(Entries(t), r) = Latest(Entries(s), r) BY <1>5, <1>9, <2>1
    <2> QED BY <1>6, <2>1, <2>2 DEF Voters
  <1> QED BY <1>1, <1>2, <1>3, <1>7, <1>8, <1>9 DEF t

\* More approvals and fewer rejections leave an open gate open.
LEMMA GateMonotone ==
  ASSUME NEW p, NEW s, NEW t, RuleFor(p, t) = RuleFor(p, s), p.needFile => t.file, Counting(p, t), Counting(p, s),
         Approvals(p, s) \subseteq Approvals(p, t), Rejections(p, t) \subseteq Rejections(p, s), GatePass(p, s)
  PROVE  GatePass(p, t)
  <1>1. Cardinality(Approvals(p, s)) <= Cardinality(Approvals(p, t)) BY VotersFinite, FS_Subset
  <1>2. Cardinality(Approvals(p, s)) \in Nat /\ Cardinality(Approvals(p, t)) \in Nat /\ RuleFor(p, s).min \in Nat
    BY VotersFinite DEF Counting
  <1>3. Cardinality(Approvals(p, s)) >= RuleFor(p, s).min BY DEF GatePass
  <1>4. Cardinality(Approvals(p, t)) >= RuleFor(p, t).min BY <1>1, <1>2, <1>3
  <1>5. MissingGroups(p, t) = {} BY DEF GatePass, MissingGroups
  <1>6. p.block => Rejections(p, t) = {} BY DEF GatePass
  <1> QED BY <1>4, <1>5, <1>6 DEF GatePass

\* One more approval never closes the gate and one more rejection never opens it
\* (evaluate_review_state), whoever gives it and whatever was recorded before.
THEOREM OneWayDecisions ==
  ASSUME NEW p, NEW s, NEW e \in Vote, Recorded(s), Counting(p, s)
  PROVE  DecisionsPushOneWay(p, s, e)
  <1> DEFINE t == With(s, e)
  <1>1. \A x \in {s, t} : Approvals(p, x) = Voters(p, x, "approved") /\ Rejections(p, x) = Voters(p, x, "rejected")
    BY DEF Approvals, Rejections, Voters
  <1>2. ASSUME e.decision \in {"approved", "rejected"} PROVE RuleFor(p, t) = RuleFor(p, s) /\ t.file = s.file
    BY <1>2, VotesMove
  <1>3. ASSUME e.decision = "approved", GatePass(p, s) PROVE GatePass(p, t)
    <2>1. Approvals(p, s) \subseteq Approvals(p, t) /\ Rejections(p, t) \subseteq Rejections(p, s)
      <3>1. Voters(p, s, e.decision) \subseteq Voters(p, t, e.decision) BY <1>3, VotesMove
      <3>2. "rejected" \in {"approved", "rejected"} \ {e.decision} BY <1>3
      <3>3. Voters(p, t, "rejected") \subseteq Voters(p, s, "rejected") BY <1>3, <3>2, VotesMove
      <3> HIDE DEF t
      <3> QED BY <1>1, <1>3, <3>1, <3>3
    <2>2. Counting(p, t) /\ (p.needFile => t.file) BY <1>2, <1>3 DEF Counting, GatePass
    <2> HIDE DEF t
    <2> QED BY <1>2, <1>3, <2>1, <2>2, GateMonotone
  <1>4. ASSUME e.decision = "rejected", s.file, GatePass(p, t) PROVE GatePass(p, s)
    <2>1. Approvals(p, t) \subseteq Approvals(p, s) /\ Rejections(p, s) \subseteq Rejections(p, t)
      BY <1>1, <1>4, VotesMove
    <2>2. Counting(p, t) BY <1>2, <1>4 DEF Counting
    <2> HIDE DEF t
    <2> QED BY <1>2, <1>4, <2>1, <2>2, GateMonotone
  <1> QED BY <1>3, <1>4 DEF DecisionsPushOneWay

\* A configured reviewer's later approval counts as one more (reviewer_rotation.py recommends
\* whoever can give one), and covers every group of theirs.
THEOREM RecommendationsCount ==
  ASSUME NEW p, NEW s, NEW now \in Int, Recorded(s), Counting(p, s), \A n \in DOMAIN Entries(s) : Entries(s)[n].at < now,
         RuleFor(p, s).groups \subseteq DOMAIN p.groups, Reviewers(p) \subseteq STRING
  PROVE  RecommendedApprovalCounts(p, s, now)
  <1> SUFFICES ASSUME NEW g \in TargetGroups(p, s), NEW r \in Eligible(p, s, g)
               PROVE  LET t == With(s, ReviewEntry(r, "approved", now))
                      IN  /\ Cardinality(Approvals(p, t)) = Cardinality(Approvals(p, s)) + 1
                          /\ g \notin MissingGroups(p, t)
    BY DEF RecommendedApprovalCounts
  <1> DEFINE e == ReviewEntry(r, "approved", now)
             t == With(s, e)
  <1>1. g \in DOMAIN p.groups BY DEF TargetGroups, MissingGroups
  <1>2. r \in MembersOf(p, g) /\ (r = s.owner => OwnerMayCount(p, s)) /\ ~(r \in Deciders(s) /\ Counts(p, s, r))
    BY DEF Eligible
  <1>3. r \in Reviewers(p) BY <1>1, <1>2 DEF Reviewers
  <1>4. e \in Vote /\ e.who = r /\ e.decision = "approved" /\ e.at = now
    <2>1. r \in STRING BY <1>3
    <2>2. e = [who |-> r, decision |-> "approved", at |-> now] BY DEF ReviewEntry
    <2> HIDE DEF e
    <2>3. e.who = r /\ e.decision = "approved" /\ e.at = now BY <2>2
    <2>4. e \in Vote BY <2>1, <2>2 DEF Vote
    <2> QED BY <2>3, <2>4
  <1> HIDE DEF e
  <1>5. \A x \in {s, t} : Approvals(p, x) = Voters(p, x, "approved") BY DEF Approvals, Voters
  <1>6. /\ Approvals(p, s) \subseteq Approvals(p, t) /\ Approvals(p, t) \subseteq Approvals(p, s) \cup {r}
        /\ OwnerMayCount(p, t) = OwnerMayCount(p, s) /\ t.owner = s.owner
    BY <1>4, <1>5, VotesMove
  <1>7. r \in Deciders(t) BY <1>4, DecidersGrow
  <1>8. Latest(Entries(t), r) = e
    <2> DEFINE E == Entries(s)
               T == Entries(t)
               R == Len(s.reviews)
               Shift(k) == IF k <= R THEN k ELSE k + 1
    <2>1. /\ T \in Seq(Vote) /\ E \in Seq(Vote) /\ R \in Nat /\ R + 1 \in DOMAIN T /\ T[R + 1] = e
          /\ \A k \in DOMAIN E : k \in Nat /\ Shift(k) \in DOMAIN T /\ T[Shift(k)] = E[k]
          /\ \A n \in DOMAIN T : n = R + 1 \/ \E k \in DOMAIN E : n = Shift(k)
      BY <1>4, WithEntries
    <2>2. \A k \in DOMAIN E : E[k].at < now OBVIOUS
    <2> HIDE DEF E, T, R, Shift
    <2>3. \A k \in MineIn(T, r) : T[k].at < now \/ k = R + 1
      BY <2>1, <2>2 DEF MineIn
    <2>4. IsLast(T, r, R + 1)
      <3>1. R + 1 \in MineIn(T, r) BY <1>4, <2>1 DEF MineIn
      <3>2. \A k \in MineIn(T, r) : T[k].at < T[R + 1].at \/ (T[k].at = T[R + 1].at /\ k <= R + 1)
        BY <1>4, <2>1, <2>3
      <3> QED BY <3>1, <3>2 DEF IsLast
    <2> QED BY <2>1, <2>4, LastIsLatest DEF T
  <1> HIDE DEF t
  <1>9. Counts(p, t, r) BY <1>2, <1>3, <1>4, <1>6, <1>8 DEF Counts
  <1>10. r \in Approvals(p, t) BY <1>4, <1>7, <1>8, <1>9 DEF Approvals
  <1>11. r \notin Approvals(p, s) BY <1>2 DEF Approvals
  <1>12. Approvals(p, t) = Approvals(p, s) \cup {r} BY <1>6, <1>10
  <1>13. Cardinality(Approvals(p, t)) = Cardinality(Approvals(p, s)) + 1
    BY <1>11, <1>12, VotersFinite, FS_AddElement
  <1>14. g \in GroupsOf(p, r) BY <1>1, <1>2 DEF GroupsOf
  <1>15. g \notin MissingGroups(p, t) BY <1>10, <1>14 DEF MissingGroups
  <1> QED BY <1>13, <1>15 DEF t, e

\* Nothing is promoted past a closed gate or a refused review state (promotion_report.py) but by a
\* live exception for this skill that names a rule about reviews.
THEOREM PromotionEarned ==
  ASSUME NEW p, NEW s, NEW exceptions, NEW now \in Int, Counting(p, s),
         \A e \in exceptions : e.approved \in Int /\ e.expires \in Int
  PROVE  PromotionIsEarned(p, s, exceptions, now)
  <1> DEFINE live == {e \in exceptions : /\ e.approvers # {} /\ s.names \cap e.skills # {}
                                         /\ now \in e.approved .. e.expires - 1}
             gate == {"missing-reviews-file", "minimum-approvals", "required-reviewer-groups", "blocking-rejections"}
  <1> SUFFICES ASSUME Promotes(p, s, exceptions, now)
               PROVE  /\ ~GatePass(p, s) => \E e \in live : e.rules \cap gate # {}
                      /\ EffectiveState(p, s) \notin p.states => \E e \in live : "effective-review-state" \in e.rules
    BY DEF PromotionIsEarned
  <1>1. ASSUME NEW issue \in Issues(p, s) PROVE \E e \in live : issue \in e.rules
    <2>1. PICK e \in exceptions : Waives(e, "promotion", s.names, issue, now) BY <1>1 DEF Promotes
    <2>2. e.approvers # {} BY DEF Promotes, ExceptionsLoad, ValidException
    <2>3. now \in e.approved .. e.expires - 1 BY <2>1 DEF Waives
    <2> QED BY <2>1, <2>2, <2>3 DEF Waives
  <1>2. ASSUME ~GatePass(p, s) PROVE \E issue \in gate : issue \in Issues(p, s)
    <2>1. Cardinality(Approvals(p, s)) \in Nat /\ RuleFor(p, s).min \in Nat BY VotersFinite DEF Counting
    <2> DEFINE few == Cardinality(Approvals(p, s)) < RuleFor(p, s).min
    <2>2. \/ p.needFile /\ ~s.file
          \/ few
          \/ MissingGroups(p, s) # {}
          \/ p.block /\ Rejections(p, s) # {}
      BY <1>2, <2>1 DEF GatePass
    <2>3. \E issue \in gate : issue \in ReviewIssues(p, s)
      <3> HIDE DEF few
      <3>1. CASE p.needFile /\ ~s.file
        <4>1. "missing-reviews-file" \in ReviewIssues(p, s) BY <3>1 DEF ReviewIssues
        <4> QED BY <4>1
      <3>2. CASE few
        <4>1. "minimum-approvals" \in ReviewIssues(p, s) BY <3>2 DEF ReviewIssues, few
        <4> QED BY <4>1
      <3>3. CASE MissingGroups(p, s) # {}
        <4>1. "required-reviewer-groups" \in ReviewIssues(p, s) BY <3>3 DEF ReviewIssues
        <4> QED BY <4>1
      <3>4. CASE p.block /\ Rejections(p, s) # {}
        <4>1. "blocking-rejections" \in ReviewIssues(p, s) BY <3>4 DEF ReviewIssues
        <4> QED BY <4>1
      <3> QED BY <2>2, <3>1, <3>2, <3>3, <3>4
    <2> QED BY <2>3 DEF Issues
  <1>3. EffectiveState(p, s) \notin p.states => "effective-review-state" \in Issues(p, s)
    BY DEF Issues, MetadataIssues
  <1> QED BY <1>1, <1>2, <1>3

\* A validated policy (load_promotion_policy): numbers for quorums and rules that name
\* configured groups.
PolicyIsValid(p, s) ==
    /\ IsFiniteSet(Reviewers(p)) /\ Reviewers(p) \subseteq STRING
    /\ QuorumRefersToGroups(p, s.stage, s.risk)
    /\ \A layer \in {p.layers.defaults, p.layers.stage[s.stage], p.layers.risk[s.risk], p.layers.stageRisk[s.stage][s.risk]} :
          layer.min \subseteq Nat

\* Overrides of a valid policy are numbers of approvals.
LEMMA OverrideIsValid ==
  ASSUME NEW r, NEW layer, NEW G, r.min \in Nat, layer.min \subseteq Nat, r.groups \subseteq G, UNION layer.groups \subseteq G
  PROVE  Override(r, layer).min \in Nat /\ Override(r, layer).groups \subseteq G
  BY DEF Override

\* The rule that is left after all layers is one of numbers and configured groups.
LEMMA ValidPolicyCounts ==
  ASSUME NEW p, NEW s, PolicyIsValid(p, s)
  PROVE  Counting(p, s) /\ RuleFor(p, s).groups \subseteq DOMAIN p.groups
  <1> DEFINE G == DOMAIN p.groups
             l1 == p.layers.defaults
             l2 == p.layers.stage[s.stage]
             l3 == p.layers.risk[s.risk]
             l4 == p.layers.stageRisk[s.stage][s.risk]
             r0 == [min |-> 0, groups |-> {}]
             r1 == Override(r0, l1)
             r2 == Override(r1, l2)
             r3 == Override(r2, l3)
             r4 == Override(r3, l4)
  <1>1. \A l \in {l1, l2, l3, l4} : l.min \subseteq Nat /\ UNION l.groups \subseteq G
    BY DEF PolicyIsValid, QuorumRefersToGroups
  <1>2. RuleFor(p, s) = r4 BY DEF RuleFor, EffectiveQuorum
  <1>3. r0.min \in Nat /\ r0.groups \subseteq G OBVIOUS
  <1> HIDE DEF G, l1, l2, l3, l4, r0
  <1>4. r1.min \in Nat /\ r1.groups \subseteq G BY <1>1, <1>3, OverrideIsValid
  <1> HIDE DEF r1
  <1>5. r2.min \in Nat /\ r2.groups \subseteq G BY <1>1, <1>4, OverrideIsValid
  <1> HIDE DEF r2
  <1>6. r3.min \in Nat /\ r3.groups \subseteq G BY <1>1, <1>5, OverrideIsValid
  <1> HIDE DEF r3
  <1>7. r4.min \in Nat /\ r4.groups \subseteq G BY <1>1, <1>6, OverrideIsValid
  <1> QED BY <1>2, <1>7 DEF G, Counting, PolicyIsValid

-------------------------------------------------------------------------------
(* NamespacePolicy *)

\* Of two publishers that may both use one name for skills in use (_competing_claims)
\* each was given it by the other.
THEOREM OneHolder ==
  ASSUME NEW policy, NEW registry
  PROVE  NameHasOneHolder(policy, registry)
  <1> SUFFICES ASSUME NEW x \in registry, NEW y \in registry,
                      x.pub # y.pub, x.name = y.name, "archived" \notin {x.stage, y.stage},
                      NamespaceAuthorized(policy, x, registry), NamespaceAuthorized(policy, y, registry)
               PROVE  Transferred(policy, x.name, x.pub, y.pub) /\ Transferred(policy, x.name, y.pub, x.pub)
    BY DEF NameHasOneHolder
  <1>1. y \in Rivals(x, registry) /\ x \in Rivals(y, registry) BY DEF Rivals
  <1>2. ClaimAllowed(policy, x, y) /\ ClaimAllowed(policy, y, x) BY <1>1 DEF NamespaceAuthorized
  <1> QED BY <1>2 DEF ClaimAllowed

\* Whoever leaves the teams and the lists of the policy can sign no more, unless a publisher names the
\* person as a signer (_resolve_publisher_entry, _authorized_roles).
THEOREM SignersGo ==
  ASSUME NEW policy, NEW registry
  PROVE  LeaversCannotSign(policy, registry)
  <1> SUFFICES ASSUME NEW x \in registry, NamespaceAuthorized(policy, x, registry), NEW person
               PROVE  person \in AuthorizedSigners(policy, x) =>
                        (person \in AuthorizedSigners(Without(policy, person), x)
                           <=> person \in policy.publishers[x.pub].signers)
    BY DEF LeaversCannotSign
  <1> DEFINE e == policy.publishers[x.pub]
             left == Without(policy, person)
             f == left.publishers[x.pub]
  <1>1. x.pub \in DOMAIN policy.publishers BY DEF NamespaceAuthorized, PublisherAllows
  <1>2. /\ x.pub \in DOMAIN left.publishers
        /\ f = [owners |-> e.owners \ {person}, ownerTeams |-> e.ownerTeams,
                maintainers |-> e.maintainers \ {person}, maintainerTeams |-> e.maintainerTeams,
                signers |-> e.signers, signerTeams |-> e.signerTeams]
        /\ DOMAIN left.teams = DOMAIN policy.teams
        /\ \A t \in DOMAIN left.teams : person \notin left.teams[t]
    BY <1>1 DEF Without
  <1>3. AuthorizedSigners(policy, x) = Authorized(e, policy.teams, e.signers, e.signerTeams)
    BY <1>1 DEF AuthorizedSigners
  <1>4. AuthorizedSigners(left, x) = Authorized(f, left.teams, f.signers, f.signerTeams)
    BY <1>2 DEF AuthorizedSigners
  <1> HIDE DEF left, e, f
  <1>5. /\ f.signers = e.signers /\ person \notin f.owners /\ person \notin f.maintainers
    BY <1>2
  <1>6. \A teams : person \notin TeamActors(left.teams, teams) BY <1>2 DEF TeamActors
  <1>7. person \notin ResolvedMaintainers(f, left.teams) \cup TeamActors(left.teams, f.signerTeams)
    BY <1>5, <1>6 DEF ResolvedMaintainers, ResolvedOwners
  <1>8. CASE e.signers = {} BY <1>4, <1>5, <1>7, <1>8 DEF Authorized, left, e
  <1>9. CASE e.signers # {} BY <1>4, <1>5, <1>9 DEF Authorized, left, e
  <1> QED BY <1>8, <1>9

-------------------------------------------------------------------------------
(* The gates *)

\* Inputs a gate can be asked about: lists of decisions before now under a validated policy,
\* exceptions with dates, skills with a publisher, dated evidence.
GateInput ==
    /\ rule = "review" =>
         /\ Recorded(case.skill) /\ PolicyIsValid(case.policy, case.skill) /\ case.more \in Vote /\ case.now \in Int
         /\ \A n \in DOMAIN Entries(case.skill) : Entries(case.skill)[n].at < case.now
    /\ rule = "promotion" =>
         /\ Counting(case.policy, case.skill) /\ case.now \in Int
         /\ \A e \in case.exceptions : e.approved \in Int /\ e.expires \in Int
    /\ rule = "support" =>
         /\ Dated(case.evidence \cup case.more) /\ case.policy.days \in Int /\ case.doc.verified \in Int
         /\ case.now \in Int /\ case.later \in Int

\* The gates of reviews, promotions, names and compatibility open only when the people and the
\* evidence they ask for stand behind it, whatever policy, decisions, exceptions and evidence there are.
THEOREM GatesCorrect == GateInput => GatesAreRight
  <1> SUFFICES ASSUME GateInput PROVE GatesAreRight
    OBVIOUS
  <1> HIDE DEF case
  <1>1. ASSUME rule = "review"
        PROVE  /\ OpenGateIsBacked(case.policy, case.skill) /\ LateEvidenceIsIgnored(case.policy, case.skill)
               /\ DecisionsPushOneWay(case.policy, case.skill, case.more)
               /\ RecommendedApprovalCounts(case.policy, case.skill, case.now)
    <2>1. /\ Recorded(case.skill) /\ PolicyIsValid(case.policy, case.skill) /\ case.more \in Vote /\ case.now \in Int
          /\ \A n \in DOMAIN Entries(case.skill) : Entries(case.skill)[n].at < case.now
      BY <1>1 DEF GateInput
    <2>2. /\ Counting(case.policy, case.skill) /\ Reviewers(case.policy) \subseteq STRING
          /\ RuleFor(case.policy, case.skill).groups \subseteq DOMAIN case.policy.groups
      BY <2>1, ValidPolicyCounts DEF PolicyIsValid
    <2>3. OpenGateIsBacked(case.policy, case.skill) BY <2>1, <2>2, GateIsBacked
    <2>4. LateEvidenceIsIgnored(case.policy, case.skill) BY <2>1, LateEvidenceChangesNothing
    <2>5. DecisionsPushOneWay(case.policy, case.skill, case.more) BY <2>1, <2>2, OneWayDecisions
    <2>6. RecommendedApprovalCounts(case.policy, case.skill, case.now) BY <2>1, <2>2, RecommendationsCount
    <2> QED BY <2>3, <2>4, <2>5, <2>6
  <1>2. ASSUME rule = "promotion"
        PROVE  PromotionIsEarned(case.policy, case.skill, case.exceptions, case.now)
    <2>1. /\ Counting(case.policy, case.skill) /\ case.now \in Int
          /\ \A e \in case.exceptions : e.approved \in Int /\ e.expires \in Int
      BY <1>2 DEF GateInput
    <2> QED BY <2>1, PromotionEarned
  <1>3. ASSUME rule = "names"
        PROVE  NameHasOneHolder(case.policy, case.registry) /\ LeaversCannotSign(case.policy, case.registry)
    BY <1>3, OneHolder, SignersGo
  <1>4. ASSUME rule = "support"
        PROVE  LET all == case.evidence \cup case.more IN
               /\ OnlyNewerEvidenceOpens(case.skill, case.evidence, case.more, {case.profile}, case.policy, case.now, case.later)
               /\ OthersEvidenceIsIgnored(case.skill, all, {case.profile}, case.policy, case.now)
               /\ CatalogShowsTheGate(case.skill, all, {case.profile}, case.policy, case.now)
               /\ ContractReviewReachesGate(case.skill, all, case.doc, case.profile, case.policy, case.maxAge, case.now)
    <2>1. /\ Dated(case.evidence \cup case.more) /\ case.policy.days \in Int /\ case.doc.verified \in Int
          /\ case.now \in Int /\ case.later \in Int
      BY <1>4 DEF GateInput
    <2> QED BY <2>1, BlockedStays, OwnEvidenceCounts, CatalogIsTheGate, ContractReachesGate
  <1> QED
    BY <1>1, <1>2, <1>3, <1>4
    DEF GatesAreRight, OpenGatesAreBacked, LateEvidenceIgnored, DecisionsOneWay, RecommendationsHelp, PromotionsAreEarned,
        NamesHaveOneHolder, SignersLeave, OnlyNewerEvidence, OwnEvidenceOnly, CatalogMatchesGate, ContractsReachGate

-------------------------------------------------------------------------------
(* Visibility *)

\* A database the handlers can have left (the unique indexes of its tables): rows have ids, an exposure
\* has its release and a release one live exposure of each audience.
DatabaseIsValid(db) ==
    /\ db = [releases |-> db.releases, exposures |-> db.exposures, grants |-> db.grants]
    /\ IsFiniteSet(db.exposures)
    /\ \A r \in db.releases :
          /\ r.id \in Nat \ {0} /\ r.version \in VersionType /\ r.runs \in Seq(Part)
          /\ r.pub \in Nat \ {0} /\ r.name \in Nat /\ r.text \in Nat /\ r.ready \in Nat
    /\ \A r, q \in db.releases : r.id = q.id => r = q
    /\ \A e \in db.exposures :
          e.id \in Nat /\ e.audience \in AllAudiences /\ \E r \in db.releases : r.id = e.release
    /\ \A e, f \in db.exposures :
          e.live /\ f.live /\ e.release = f.release /\ e.audience = f.audience => e = f

\* A context the registry resolves a request to: the public has no principal.
ContextIsValid(ctx) ==
    ctx.kind \in {"anonymous", "user", "agent", "grant"} /\ (ctx.kind = "anonymous" => ctx.principal = "")

\* A committed index names finitely many skills, each with a publisher and a version.
FilesAreValid(committed) ==
    /\ IsFiniteSet(committed)
    /\ \A i \in committed : /\ i.version \in VersionType /\ i.runs \in Seq(Part)
                         /\ i.pub \in Nat \ {0} /\ i.name \in Nat /\ i.text \in Nat /\ i.at \in Nat

\* Entries are rows of releases, or items of the file, with versions.
EntryIsValid(x) ==
    /\ x.version \in VersionType /\ x.runs \in Seq(Part) /\ x.audience \in AllAudiences
    /\ x.pub \in Nat \ {0} /\ x.name \in Nat /\ x.text \in Nat
    /\ x.exposure \in Nat /\ x.ready \in Nat /\ x.at \in Nat

\* What follows the first three of a list.
LEMMA ThreeAndMore ==
  ASSUME NEW S, NEW c \in Seq(S), NEW p \in Seq(S), Len(c) = 3
  PROVE  /\ c \o p \in Seq(S) /\ Len(c \o p) = 3 + Len(p)
         /\ \A n \in 1 .. 3 : (c \o p)[n] = c[n]
         /\ \A n \in 1 .. Len(p) : (c \o p)[n + 3] = p[n]
  <1>1. Len(p) \in Nat OBVIOUS
  <1>5. c \o p \in Seq(S) /\ Len(c \o p) = Len(c) + Len(p) BY ConcatProperties
  <1>6. \A i \in 1 .. Len(c) + Len(p) : (c \o p)[i] = IF i <= Len(c) THEN c[i] ELSE p[i - Len(c)] BY ConcatProperties
  <1>2. /\ c \o p \in Seq(S) /\ Len(c \o p) = 3 + Len(p)
        /\ \A i \in 1 .. 3 + Len(p) : (c \o p)[i] = IF i <= 3 THEN c[i] ELSE p[i - 3]
    BY <1>5, <1>6
  <1>3. \A n \in 1 .. 3 : n \in 1 .. 3 + Len(p) /\ n <= 3 BY <1>1
  <1>4. \A n \in 1 .. Len(p) : n + 3 \in 1 .. 3 + Len(p) /\ ~(n + 3 <= 3) /\ (n + 3) - 3 = n BY <1>1
  <1> QED BY <1>2, <1>3, <1>4

\* What the key is made of.
LEMMA KeyStart ==
  ASSUME NEW e, e.version \in VersionType, e.runs \in Seq(Part)
  PROVE  /\ VersionKey(e) \in Seq(Part) /\ Len(VersionKey(e)) = 3 + Len(e.runs) /\ VersionKey(e) # <<>>
         /\ \A n \in 1 .. 3 : VersionKey(e)[n] = Number(e.version.core[n])
  <1> DEFINE v == e.version
             c == [n \in 1 .. 3 |-> Number(v.core[n])]
  <1>1. v.core \in Nat \X Nat \X Nat BY DEF VersionType
  <1>2. v.core[1] \in Nat /\ v.core[2] \in Nat /\ v.core[3] \in Nat BY <1>1
  <1>3. \A n \in 1 .. 3 : Number(v.core[n]) \in Part
    <2> TAKE n \in 1 .. 3
    <2>1. v.core[n] \in Nat
      <3>1. n = 1 \/ n = 2 \/ n = 3 OBVIOUS
      <3> QED BY <1>2, <3>1
    <2>2. \A i \in Nat : Number(i) \in Part BY DEF Number, Part
    <2> QED BY <2>1, <2>2
  <1>4. c \in Seq(Part) /\ Len(c) = 3 /\ \A n \in 1 .. 3 : c[n] = Number(v.core[n])
    <2>1. c \in [1 .. 3 -> Part] BY <1>3
    <2> QED BY <2>1
  <1>5. VersionKey(e) = c \o e.runs BY DEF VersionKey
  <1> HIDE DEF c
  <1>6. VersionKey(e) \in Seq(Part) /\ Len(VersionKey(e)) = 3 + Len(e.runs) BY <1>4, <1>5, ThreeAndMore
  <1>7. \A n \in 1 .. 3 : VersionKey(e)[n] = Number(v.core[n])
    <2>1. \A n \in 1 .. 3 : VersionKey(e)[n] = c[n] BY <1>4, <1>5, ThreeAndMore
    <2> QED BY <1>4, <2>1
  <1>8. VersionKey(e) # <<>> BY <1>6
  <1> QED BY <1>6, <1>7, <1>8

\* version_sort_key orders entries by their keys.
LEMMA KeyOrder ==
  ASSUME NEW x, NEW y, x.version \in VersionType, x.runs \in Seq(Part), y.version \in VersionType, y.runs \in Seq(Part)
  PROVE  /\ VersionKey(x) \in Seq(Part) /\ VersionKey(y) \in Seq(Part)
         /\ VersionKeyLess(x, y) <=> Before(VersionKey(x), VersionKey(y))
         /\ ~VersionKeyLess(x, y) /\ ~VersionKeyLess(y, x) => VersionKey(x) = VersionKey(y)
  <1> DEFINE k == VersionKey(x)
             l == VersionKey(y)
  <1>2. k \in Seq(Part) /\ l \in Seq(Part) /\ k # <<>> /\ l # <<>> BY KeyStart
  <1>3. VersionKeyLess(x, y) <=> Before(k, l)
    <2> DEFINE sign == FirstDifference(k, l, ComparePart)
    <2>1. VersionKeyLess(x, y) <=> sign = -1 \/ (sign = 0 /\ Len(k) < Len(l))
      BY DEF VersionKeyLess
    <2> HIDE DEF k, l
    <2>2. ComparePrerelease(k, l) = IF sign # 0 THEN sign ELSE Sign(Len(k), Len(l)) BY <1>2 DEF ComparePrerelease
    <2>3. ComparePrerelease(k, l) = -1 <=> Precedes(k, l) BY <1>2, PrereleaseOrder
    <2>4. Len(k) \in Nat /\ Len(l) \in Nat BY <1>2
    <2> HIDE DEF sign
    <2>5. ComparePrerelease(k, l) = -1 <=> sign = -1 \/ (sign = 0 /\ Len(k) < Len(l)) BY <2>2, <2>4 DEF Sign
    <2> QED BY <1>2, <2>1, <2>3, <2>5 DEF Precedes
  <1>4. VersionKeyLess(y, x) <=> Before(l, k)
    <2> DEFINE sign == FirstDifference(l, k, ComparePart)
    <2>1. VersionKeyLess(y, x) <=> sign = -1 \/ (sign = 0 /\ Len(l) < Len(k))
      BY DEF VersionKeyLess
    <2> HIDE DEF k, l
    <2>2. ComparePrerelease(l, k) = IF sign # 0 THEN sign ELSE Sign(Len(l), Len(k)) BY <1>2 DEF ComparePrerelease
    <2>3. ComparePrerelease(l, k) = -1 <=> Precedes(l, k) BY <1>2, PrereleaseOrder
    <2>4. Len(k) \in Nat /\ Len(l) \in Nat BY <1>2
    <2> HIDE DEF sign
    <2>5. ComparePrerelease(l, k) = -1 <=> sign = -1 \/ (sign = 0 /\ Len(l) < Len(k)) BY <2>2, <2>4 DEF Sign
    <2> QED BY <1>2, <2>1, <2>3, <2>5 DEF Precedes
  <1>5. Before(k, l) \/ Before(l, k) \/ k = l
    <2>1. Precedes(k, l) \/ Precedes(l, k) \/ k = l BY <1>2, PrereleaseOrder
    <2> QED BY <1>2, <2>1 DEF Precedes
  <1> QED BY <1>2, <1>3, <1>4, <1>5

\* audience_rank tells the audiences apart.
LEMMA Ranks ==
  /\ AudienceRank("public") = 1 /\ AudienceRank("authenticated") = 2
  /\ AudienceRank("grant") = 3 /\ AudienceRank("private") = 4
  <1> DEFINE order == <<"public", "authenticated", "grant", "private">>
  <1>1. \A n \in 1 .. 4 : n = 1 \/ n = 2 \/ n = 3 \/ n = 4 OBVIOUS
  <1>2. order[1] = "public" /\ order[2] = "authenticated" /\ order[3] = "grant" /\ order[4] = "private" OBVIOUS
  <1> HIDE DEF order
  <1>3. \A a : AudienceRank(a) = CHOOSE n \in 1 .. 4 : order[n] = a BY DEF AudienceRank, order
  <1>4. \A m \in 1 .. 4 : \A n \in 1 .. 4 : order[n] = order[m] => n = m BY <1>1, <1>2
  <1>5. \A m \in 1 .. 4 : AudienceRank(order[m]) = m BY <1>3, <1>4
  <1> QED BY <1>2, <1>5

\* What an install or the index prefers among tying versions are strict orders (sorted, dedupe_entries).
LEMMA RatherIsStrict ==
  ASSUME NEW x, NEW y, NEW z, EntryIsValid(x), EntryIsValid(y), EntryIsValid(z)
  PROVE  /\ ~InstalledRather(x, x) /\ (InstalledRather(x, y) /\ InstalledRather(y, z) => InstalledRather(x, z))
         /\ ~IndexedRather(x, x) /\ (IndexedRather(x, y) /\ IndexedRather(y, z) => IndexedRather(x, z))
  <1> DEFINE IsNumbered(a) == /\ a.pub \in Int /\ a.name \in Int /\ a.text \in Int /\ a.exposure \in Int
                              /\ a.ready \in Int /\ a.at \in Int /\ AudienceRank(a.audience) \in Int
  <1>1. ASSUME NEW a, EntryIsValid(a) PROVE IsNumbered(a)
    <2>1. \A q \in AllAudiences : AudienceRank(q) \in Int BY Ranks DEF AllAudiences
    <2>2. a.audience \in AllAudiences BY <1>1 DEF EntryIsValid
    <2>3. a.pub \in Nat /\ a.name \in Nat /\ a.text \in Nat /\ a.exposure \in Nat /\ a.ready \in Nat /\ a.at \in Nat
      BY <1>1 DEF EntryIsValid
    <2> QED BY <2>1, <2>2, <2>3
  <1>2. IsNumbered(x) /\ IsNumbered(y) /\ IsNumbered(z) BY <1>1
  <1>3. ~RowBefore(x, x) /\ (RowBefore(x, y) /\ RowBefore(y, z) => RowBefore(x, z)) BY <1>2 DEF RowBefore
  <1>4. ~Earlier(x, x) /\ (Earlier(x, y) /\ Earlier(y, z) => Earlier(x, z)) BY <1>2, <1>3 DEF Earlier
  <1>5. ~InstalledRather(x, x) /\ (InstalledRather(x, y) /\ InstalledRather(y, z) => InstalledRather(x, z))
    BY <1>2, <1>4 DEF InstalledRather
  <1>6. ~IndexedRather(x, x) /\ (IndexedRather(x, y) /\ IndexedRather(y, z) => IndexedRather(x, z))
    BY <1>2 DEF IndexedRather
  <1> QED BY <1>5, <1>6

\* Of finitely many entries one has the greatest key, and none of its key goes before it in an order T.
LEMMA GreatestExists ==
  ASSUME NEW S, IsFiniteSet(S), S # {}, \A x \in S : EntryIsValid(x), NEW T, \A x \in S : <<x, x>> \notin T,
         \A x, y, z \in S : <<x, y>> \in T /\ <<y, z>> \in T => <<x, z>> \in T
  PROVE  \E e \in S : \A f \in S : VersionKeyLess(f, e) \/ (~VersionKeyLess(e, f) /\ <<f, e>> \notin T)
  <1> DEFINE R == {q \in S \X S : VersionKeyLess(q[1], q[2]) \/ (~VersionKeyLess(q[2], q[1]) /\ <<q[2], q[1]>> \in T)}
             key(x) == VersionKey(x)
  <1>2. \A x \in S : x.version \in VersionType /\ x.runs \in Seq(Part) BY DEF EntryIsValid
  <1>3. \A x, y \in S : <<x, y>> \in R <=> VersionKeyLess(x, y) \/ (~VersionKeyLess(y, x) /\ <<y, x>> \in T)
    OBVIOUS
  <1> HIDE DEF R
  <1>4. \A x, y \in S : /\ key(x) \in Seq(Part) /\ key(y) \in Seq(Part)
                        /\ VersionKeyLess(x, y) <=> Before(key(x), key(y))
                        /\ ~VersionKeyLess(x, y) /\ ~VersionKeyLess(y, x) => key(x) = key(y)
    BY <1>2, KeyOrder
  <1> HIDE DEF key
  <1>5. \A x \in S : ~Before(key(x), key(x)) BY <1>4, BeforeIsStrict
  <1>6. \A x, y, z \in S : Before(key(x), key(y)) /\ Before(key(y), key(z)) => Before(key(x), key(z))
    BY <1>4, BeforeIsStrict
  <1>7. \A x \in S : <<x, x>> \notin R BY <1>3, <1>4, <1>5
  <1>8. ASSUME NEW x \in S, NEW y \in S, NEW z \in S, <<x, y>> \in R, <<y, z>> \in R PROVE <<x, z>> \in R
    <2>1. Before(key(x), key(y)) \/ (key(x) = key(y) /\ <<y, x>> \in T) BY <1>3, <1>4, <1>8
    <2>2. Before(key(y), key(z)) \/ (key(y) = key(z) /\ <<z, y>> \in T) BY <1>3, <1>4, <1>8
    <2>3. Before(key(x), key(z)) \/ (key(x) = key(z) /\ <<z, x>> \in T) BY <1>6, <2>1, <2>2
    <2>4. VersionKeyLess(x, z) \/ (~VersionKeyLess(z, x) /\ <<z, x>> \in T) BY <1>4, <1>5, <2>3
    <2> QED BY <1>3, <2>4
  <1>9. PICK e \in S : \A y \in S : <<e, y>> \notin R BY <1>7, <1>8, LastExists
  <1>10. ASSUME NEW f \in S PROVE VersionKeyLess(f, e) \/ (~VersionKeyLess(e, f) /\ <<f, e>> \notin T)
    <2>1. ~(VersionKeyLess(e, f) \/ (~VersionKeyLess(f, e) /\ <<f, e>> \in T)) BY <1>3, <1>9
    <2> QED BY <2>1
  <1> QED BY <1>10

\* Of finitely many entries an install takes one (_resolve_install_candidate), the index names one
\* (_build_ai_index_from_entries), and no version has a greater key.
LEMMA LatestIsOne ==
  ASSUME NEW S, IsFiniteSet(S), S # {}, \A x \in S : EntryIsValid(x)
  PROVE  /\ LatestOf(S) \in S /\ \A x \in S : ~VersionKeyLess(LatestOf(S), x)
         /\ IndexLatest(S) \in S /\ \A x \in S : ~VersionKeyLess(IndexLatest(S), x)
  <1>1. \A x, y \in S : ~(VersionKeyLess(x, y) /\ VersionKeyLess(y, x))
    <2> SUFFICES ASSUME NEW x \in S, NEW y \in S PROVE ~(VersionKeyLess(x, y) /\ VersionKeyLess(y, x))
      OBVIOUS
    <2>1. x.version \in VersionType /\ x.runs \in Seq(Part) /\ y.version \in VersionType /\ y.runs \in Seq(Part)
      BY DEF EntryIsValid
    <2>2. /\ VersionKey(x) \in Seq(Part) /\ VersionKey(y) \in Seq(Part)
          /\ VersionKeyLess(x, y) <=> Before(VersionKey(x), VersionKey(y))
      BY <2>1, KeyOrder
    <2>3. VersionKeyLess(y, x) <=> Before(VersionKey(y), VersionKey(x)) BY <2>1, KeyOrder
    <2> QED BY <2>2, <2>3, BeforeIsStrict
  <1>2. LatestOf(S) \in S /\ \A x \in S : ~VersionKeyLess(LatestOf(S), x)
    <2> DEFINE T == {q \in S \X S : InstalledRather(q[1], q[2])}
               IsLatest(e) == \A f \in S : VersionKeyLess(f, e) \/ (~VersionKeyLess(e, f) /\ ~InstalledRather(f, e))
    <2>1. \A x, y \in S : <<x, y>> \in T <=> InstalledRather(x, y) OBVIOUS
    <2> HIDE DEF T
    <2>2. /\ \A x \in S : <<x, x>> \notin T
          /\ \A x, y, z \in S : <<x, y>> \in T /\ <<y, z>> \in T => <<x, z>> \in T
      BY <2>1, RatherIsStrict
    <2>3. PICK e \in S : \A f \in S : VersionKeyLess(f, e) \/ (~VersionKeyLess(e, f) /\ <<f, e>> \notin T)
      BY <2>2, GreatestExists
    <2>4. IsLatest(e) BY <2>1, <2>3
    <2>5. LatestOf(S) = CHOOSE x \in S : IsLatest(x) BY DEF LatestOf
    <2> HIDE DEF IsLatest
    <2>6. LatestOf(S) \in S /\ IsLatest(LatestOf(S)) BY <2>4, <2>5
    <2> QED BY <1>1, <2>6 DEF IsLatest
  <1>3. IndexLatest(S) \in S /\ \A x \in S : ~VersionKeyLess(IndexLatest(S), x)
    <2> DEFINE T == {q \in S \X S : IndexedRather(q[1], q[2])}
               IsLatest(e) == \A f \in S : VersionKeyLess(f, e) \/ (~VersionKeyLess(e, f) /\ ~IndexedRather(f, e))
    <2>1. \A x, y \in S : <<x, y>> \in T <=> IndexedRather(x, y) OBVIOUS
    <2> HIDE DEF T
    <2>2. /\ \A x \in S : <<x, x>> \notin T
          /\ \A x, y, z \in S : <<x, y>> \in T /\ <<y, z>> \in T => <<x, z>> \in T
      BY <2>1, RatherIsStrict
    <2>3. PICK e \in S : \A f \in S : VersionKeyLess(f, e) \/ (~VersionKeyLess(e, f) /\ <<f, e>> \notin T)
      BY <2>2, GreatestExists
    <2>4. IsLatest(e) BY <2>1, <2>3
    <2>5. IndexLatest(S) = CHOOSE x \in S : IsLatest(x) BY DEF IndexLatest
    <2> HIDE DEF IsLatest
    <2>6. IndexLatest(S) \in S /\ IsLatest(IndexLatest(S)) BY <2>4, <2>5
    <2> QED BY <1>1, <2>6 DEF IsLatest
  <1> QED BY <1>2, <1>3

\* A row is an entry of a live exposure of its release.
LEMMA RowsAreEntries ==
  ASSUME NEW db, DatabaseIsValid(db), NEW audiences, NEW x \in ProjectionQuery(db, audiences)
  PROVE  /\ EntryIsValid(x) /\ x.audience \in audiences
         /\ \E e \in db.exposures : e.live /\ x = EntryOf(db, e) /\ e.release = x.release /\ e.audience = x.audience
         /\ \E r \in db.releases : /\ x.release = r.id /\ x.version = r.version /\ x.runs = r.runs /\ x.whole = r.whole
                                   /\ x.pub = r.pub /\ x.name = r.name /\ x.release # 0
  <1>1. PICK e \in db.exposures : e.live /\ e.audience \in audiences /\ x = EntryOf(db, e) BY DEF ProjectionQuery
  <1> DEFINE r == CHOOSE r \in db.releases : r.id = e.release
  <1>3. r \in db.releases /\ r.id = e.release BY DEF DatabaseIsValid
  <1>4. x = [exposure |-> e.id, release |-> r.id, audience |-> e.audience, listed |-> e.listed, pub |-> r.pub,
             name |-> r.name, version |-> r.version, runs |-> r.runs, text |-> r.text, ready |-> r.ready,
             whole |-> r.whole, score |-> r.score, at |-> 0]
    BY <1>1 DEF EntryOf
  <1> HIDE DEF r
  <1>5. /\ x.exposure = e.id /\ x.release = r.id /\ x.audience = e.audience /\ x.pub = r.pub /\ x.name = r.name
        /\ x.version = r.version /\ x.runs = r.runs /\ x.text = r.text /\ x.ready = r.ready /\ x.whole = r.whole /\ x.at = 0
    BY <1>4
  <1>6. EntryIsValid(x) BY <1>3, <1>5 DEF DatabaseIsValid, EntryIsValid
  <1>7. r.id # 0 BY <1>3 DEF DatabaseIsValid
  <1> QED BY <1>1, <1>3, <1>5, <1>6, <1>7

\* An item of the file is an entry of no release.
LEMMA ItemsAreEntries ==
  ASSUME NEW committed, FilesAreValid(committed)
  PROVE  IsFiniteSet(FileEntries(committed)) /\ \A x \in FileEntries(committed) : EntryIsValid(x) /\ x.release = 0
  <1> DEFINE f == [i \in committed |-> FileEntry(i)]
  <1>1. f \in Surjection(committed, FileEntries(committed))
    <2>1. f \in [committed -> FileEntries(committed)] /\ \A x \in FileEntries(committed) : \E i \in committed : f[i] = x
      BY DEF FileEntries
    <2> HIDE DEF f
    <2> QED BY <2>1 DEF Surjection
  <1>2. IsFiniteSet(FileEntries(committed))
    <2> HIDE DEF f
    <2> QED BY <1>1, FS_Surjection DEF FilesAreValid
  <1>3. ASSUME NEW i \in committed PROVE EntryIsValid(FileEntry(i)) /\ FileEntry(i).release = 0
    BY DEF FilesAreValid, EntryIsValid, FileEntry, AllAudiences
  <1> QED BY <1>2, <1>3 DEF FileEntries

\* A query has at most as many rows as exposures are live.
LEMMA RowsAreFew ==
  ASSUME NEW db, DatabaseIsValid(db), NEW audiences
  PROVE  LET rows == ProjectionQuery(db, audiences)
             live == {e \in db.exposures : e.live}
         IN  /\ IsFiniteSet(rows) /\ Cardinality(rows) \in Nat /\ Cardinality(live) \in Nat
             /\ Cardinality(rows) <= Cardinality(live)
  <1> DEFINE rows == ProjectionQuery(db, audiences)
             live == {e \in db.exposures : e.live}
             asked == {e \in db.exposures : e.live /\ e.audience \in audiences}
             f == [e \in asked |-> EntryOf(db, e)]
  <1>1. rows = {EntryOf(db, e) : e \in asked} BY DEF ProjectionQuery
  <1>2. IsFiniteSet(live) /\ IsFiniteSet(asked) /\ asked \subseteq live BY FS_Subset DEF DatabaseIsValid
  <1>3. Cardinality(asked) <= Cardinality(live) /\ Cardinality(asked) \in Nat /\ Cardinality(live) \in Nat
    BY <1>2, FS_Subset, FS_CardinalityType
  <1>4. f \in Surjection(asked, rows)
    <2>1. f \in [asked -> rows] BY <1>1
    <2>2. \A x \in rows : \E e \in asked : f[e] = x BY <1>1
    <2> HIDE DEF f, asked, rows
    <2> QED BY <2>1, <2>2 DEF Surjection
  <1>5. IsFiniteSet(rows) /\ Cardinality(rows) <= Cardinality(asked)
    <2> HIDE DEF f, asked, rows
    <2> QED BY <1>2, <1>4, FS_Surjection
  <1>6. Cardinality(rows) \in Nat BY <1>5, FS_CardinalityType
  <1> QED BY <1>3, <1>5, <1>6

\* What is built is what the query found, and all of it while the limit is not reached
\* (build_release_projections).
LEMMA ProjectionsAreRows ==
  ASSUME NEW db, DatabaseIsValid(db), NEW audiences, NEW limit \in Nat
  PROVE  /\ BuildProjections(db, audiences, limit) \subseteq ProjectionQuery(db, audiences)
         /\ Cardinality({e \in db.exposures : e.live}) <= limit
              => BuildProjections(db, audiences, limit) = ProjectionQuery(db, audiences)
  <1> DEFINE rows == ProjectionQuery(db, audiences)
             live == {e \in db.exposures : e.live}
             before(x) == {y \in rows : RowBefore(y, x)}
  <1>1. BuildProjections(db, audiences, limit) = {x \in rows : Cardinality(before(x)) < limit}
    BY DEF BuildProjections, FirstRows
  <1>2. /\ IsFiniteSet(rows) /\ Cardinality(rows) \in Nat /\ Cardinality(live) \in Nat
        /\ Cardinality(rows) <= Cardinality(live) /\ \A x \in rows : EntryIsValid(x)
    BY RowsAreEntries, RowsAreFew
  <1>3. ASSUME Cardinality(live) <= limit, NEW x \in rows PROVE Cardinality(before(x)) < limit
    <2>1. ~RowBefore(x, x) BY <1>2 DEF EntryIsValid, RowBefore
    <2>2. before(x) \in SUBSET rows /\ x \notin before(x) BY <2>1
    <2> HIDE DEF rows, live, before
    <2>3. IsFiniteSet(before(x)) /\ Cardinality(before(x)) <= Cardinality(rows)
          /\ (Cardinality(before(x)) = Cardinality(rows) => before(x) = rows)
      BY <1>2, <2>2, FS_Subset
    <2>4. Cardinality(before(x)) \in Nat BY <2>3, FS_CardinalityType
    <2>5. Cardinality(before(x)) # Cardinality(rows) BY <1>3, <2>2, <2>3
    <2> QED BY <1>2, <1>3, <2>3, <2>4, <2>5
  <1> HIDE DEF rows, live, before
  <1> QED BY <1>1, <1>3 DEF rows, live

\* What is available is whole and under a live exposure of an audience that was asked for.
LEMMA AvailableEntries ==
  ASSUME NEW db, DatabaseIsValid(db), NEW audiences, NEW limit \in Nat
  PROVE  LET shown == Available(db, audiences, limit)
         IN  /\ IsFiniteSet(shown) /\ shown \subseteq ProjectionQuery(db, audiences)
             /\ \A x \in shown : EntryIsValid(x) /\ x.whole /\ x.audience \in audiences
  <1>1. Available(db, audiences, limit) \in SUBSET ProjectionQuery(db, audiences)
    BY ProjectionsAreRows DEF Available
  <1>2. IsFiniteSet(Available(db, audiences, limit)) BY <1>1, RowsAreFew, FS_Subset
  <1>3. \A x \in Available(db, audiences, limit) : EntryIsValid(x) /\ x.audience \in audiences BY <1>1, RowsAreEntries
  <1>4. \A x \in Available(db, audiences, limit) : x.whole BY DEF Available
  <1> QED BY <1>1, <1>2, <1>3, <1>4

\* A public entry may be read by everyone but a grant token.
LEMMA PublicIsReadable ==
  ASSUME NEW db, DatabaseIsValid(db), NEW ctx, ctx.kind # "grant", NEW audiences,
         NEW x \in ProjectionQuery(db, audiences), x.audience = "public"
  PROVE  CanAccess(db, ctx, x.release)
  <1>1. PICK e \in db.exposures : e.live /\ e.release = x.release /\ e.audience = x.audience BY RowsAreEntries
  <1>2. Opens(db, ctx, e) BY <1>1 DEF Opens
  <1> QED BY <1>1, <1>2 DEF CanAccess

\* An install resolves to one of the entries it chooses from (_resolve_install_candidate).
LEMMA ResolvedIsEntry ==
  ASSUME NEW S, IsFiniteSet(S), \A x \in S : EntryIsValid(x), NEW ref
  PROVE  LET found == ResolveCandidate(S, ref)
             matches == FilterCandidates(S, ref)
         IN  /\ found.entry \subseteq S
             /\ found.kind = "not found" => matches = {}
             /\ matches # {} /\ ref.pub # 0 => found.kind = "found" /\ found.entry = {LatestOf(matches)}
  <1> DEFINE matches == FilterCandidates(S, ref)
             found == ResolveCandidate(S, ref)
  <1>1. matches \in SUBSET S BY DEF FilterCandidates
  <1>2. IsFiniteSet(matches) /\ \A x \in matches : EntryIsValid(x) BY <1>1, FS_Subset
  <1>3. matches # {} => LatestOf(matches) \in matches BY <1>2, LatestIsOne
  <1>4. matches = {} => found = Outcome("not found", {}) BY DEF ResolveCandidate
  <1>5. matches # {} /\ ref.pub = 0 /\ Cardinality({e.pub : e \in matches}) > 1 => found = Outcome("ambiguous", {})
    BY DEF ResolveCandidate
  <1>6. matches # {} /\ ~(ref.pub = 0 /\ Cardinality({e.pub : e \in matches}) > 1)
          => found = Outcome("found", {LatestOf(matches)})
    BY DEF ResolveCandidate
  <1> DEFINE many == Cardinality({e.pub : e \in matches}) > 1
             latest == LatestOf(matches)
  <1>7. /\ Outcome("not found", {}).entry = {} /\ Outcome("ambiguous", {}).entry = {}
        /\ Outcome("found", {latest}).entry = {latest} /\ Outcome("found", {latest}).kind = "found"
        /\ Outcome("ambiguous", {}).kind = "ambiguous"
    BY DEF Outcome
  <1> HIDE DEF found, many, latest, matches
  <1>8. /\ matches = {} => found.entry = {}
        /\ matches # {} /\ ref.pub = 0 /\ many => found.entry = {} /\ found.kind = "ambiguous"
        /\ matches # {} /\ ~(ref.pub = 0 /\ many) => found.entry = {latest} /\ found.kind = "found"
    BY <1>4, <1>5, <1>6, <1>7 DEF many, latest
  <1>9. found.entry \subseteq S BY <1>1, <1>3, <1>8 DEF latest
  <1>10. matches # {} /\ ref.pub # 0 => found.kind = "found" /\ found.entry = {latest} BY <1>8
  <1>11. found.kind = "not found" => matches = {} BY <1>8
  <1> QED BY <1>9, <1>10, <1>11 DEF found, matches, latest

\* The same of the installs that ask for access first: they resolve to what may be read.
LEMMA ResolvedIsReachable ==
  ASSUME NEW S, IsFiniteSet(S), \A x \in S : EntryIsValid(x), NEW db, NEW ctx, NEW ref
  PROVE  LET found == ResolveReachable(db, ctx, S, ref)
             rows == Reachable(db, ctx, FilterCandidates(S, ref))
         IN  /\ found.entry \subseteq rows
             /\ rows # {} => found = ResolveCandidate(rows, ref)
  <1> DEFINE matches == FilterCandidates(S, ref)
             rows == Reachable(db, ctx, matches)
             found == ResolveReachable(db, ctx, S, ref)
  <1>1. rows \in SUBSET S /\ rows \subseteq matches BY DEF Reachable, FilterCandidates
  <1>2. IsFiniteSet(rows) /\ \A x \in rows : EntryIsValid(x)
    <2>1. IsFiniteSet(rows) BY <1>1, FS_Subset
    <2> QED BY <1>1, <2>1
  <1>3. /\ found = Outcome("not found", {}) \/ found = Outcome("forbidden", {}) \/ found = ResolveCandidate(rows, ref)
        /\ rows # {} => found = ResolveCandidate(rows, ref)
    <2>1. found = IF matches = {} THEN Outcome("not found", {})
                  ELSE IF rows = {} THEN Outcome("forbidden", {}) ELSE ResolveCandidate(rows, ref)
      BY DEF ResolveReachable
    <2> QED BY <1>1, <2>1
  <1>4. ResolveCandidate(rows, ref).entry \subseteq rows
    <2> HIDE DEF rows
    <2> QED BY <1>2, ResolvedIsEntry
  <1>6. \A kind, E : Outcome(kind, E).entry = E BY DEF Outcome
  <1> HIDE DEF found, rows
  <1>5. found.entry \subseteq rows BY <1>3, <1>4, <1>6
  <1> QED BY <1>3, <1>5 DEF found, rows

\* A whole release that the context may read.
MayRead(db, ctx, x) == x.release # 0 /\ x.whole /\ CanAccess(db, ctx, x.release)

\* What is reachable may be read, and so may what is public, but by a grant token.
LEMMA ShownMayBeRead ==
  ASSUME NEW db, DatabaseIsValid(db), NEW ctx, NEW audiences, NEW limit \in Nat, NEW S \in SUBSET Available(db, audiences, limit)
  PROVE  /\ \A x \in Reachable(db, ctx, S) : MayRead(db, ctx, x)
         /\ \A x \in S : ctx.kind # "grant" /\ x.audience = "public" => MayRead(db, ctx, x)
  <1>1. \A x \in S : x \in ProjectionQuery(db, audiences) /\ x.whole BY AvailableEntries
  <1>2. \A x \in S : x.release # 0
    <2> TAKE x \in S
    <2>1. x \in ProjectionQuery(db, audiences) BY <1>1
    <2> QED BY <2>1, RowsAreEntries
  <1>3. \A x \in S : ctx.kind # "grant" /\ x.audience = "public" => CanAccess(db, ctx, x.release)
    <2> TAKE x \in S
    <2>1. x \in ProjectionQuery(db, audiences) BY <1>1
    <2> QED BY <2>1, PublicIsReadable
  <1> QED BY <1>1, <1>2, <1>3 DEF MayRead, Reachable

\* The registry shows what is available.
LEMMA RegistryIsAvailable ==
  ASSUME NEW db, NEW ctx, NEW limit \in Nat
  PROVE  RegistryEntries(db, ctx, limit) \in SUBSET Available(db, AllAudiences, 2 * limit)
  <1> DEFINE all == Available(db, AllAudiences, 2 * limit)
             shown == RegistryEntries(db, ctx, limit)
  <1>1. shown = Dedupe({e \in all : e.audience = "public"})
          \/ shown = Dedupe(Reachable(db, ctx, {e \in all : e.audience = "grant"}))
          \/ shown = Dedupe(Reachable(db, ctx, all))
    BY DEF RegistryEntries
  <1> HIDE DEF shown, all
  <1>2. shown \in SUBSET all BY <1>1 DEF Dedupe, Reachable
  <1> QED BY <1>2 DEF shown, all

\* What the registry shows may be read (_all_accessible_entries).
LEMMA RegistryMayBeRead ==
  ASSUME NEW db, DatabaseIsValid(db), NEW ctx, NEW limit \in Nat
  PROVE  \A x \in RegistryEntries(db, ctx, limit) : MayRead(db, ctx, x)
  <1> DEFINE all == Available(db, AllAudiences, 2 * limit)
             shown == RegistryEntries(db, ctx, limit)
  <1>1. 2 * limit \in Nat OBVIOUS
  <1>2. ASSUME NEW S \in SUBSET all
        PROVE  /\ \A x \in Reachable(db, ctx, S) : MayRead(db, ctx, x)
               /\ \A x \in S : ctx.kind # "grant" /\ x.audience = "public" => MayRead(db, ctx, x)
    BY <1>1, ShownMayBeRead
  <1>3. \A S : Dedupe(S) \subseteq S BY DEF Dedupe
  <1>4. /\ ctx.kind = "anonymous" => shown = Dedupe({e \in all : e.audience = "public"})
        /\ ctx.kind = "grant" => shown = Dedupe(Reachable(db, ctx, {e \in all : e.audience = "grant"}))
        /\ ctx.kind # "anonymous" /\ ctx.kind # "grant" => shown = Dedupe(Reachable(db, ctx, all))
    BY DEF RegistryEntries
  <1> HIDE DEF all, shown
  <1>5. CASE ctx.kind = "anonymous"
    <2>1. {e \in all : e.audience = "public"} \in SUBSET all OBVIOUS
    <2>2. shown \subseteq {e \in all : e.audience = "public"} BY <1>3, <1>4, <1>5
    <2> QED BY <1>2, <1>5, <2>1, <2>2 DEF shown
  <1>6. CASE ctx.kind = "grant"
    <2>1. {e \in all : e.audience = "grant"} \in SUBSET all OBVIOUS
    <2>2. shown \subseteq Reachable(db, ctx, {e \in all : e.audience = "grant"}) BY <1>3, <1>4, <1>6
    <2> QED BY <1>2, <2>1, <2>2 DEF shown
  <1>7. CASE ctx.kind # "anonymous" /\ ctx.kind # "grant"
    <2>1. all \in SUBSET all OBVIOUS
    <2>2. shown \subseteq Reachable(db, ctx, all) BY <1>3, <1>4, <1>7
    <2> QED BY <1>2, <2>1, <2>2 DEF shown
  <1> QED BY <1>5, <1>6, <1>7

\* No path of the discovery and registry APIs shows a release its context may not read
\* (can_access_releases after the audience filters); what is not a release is of the committed
\* index, which answers an install that no row matches and a public search on its own
\* (resolve_public_install, search_registry).  For any database, file, reference and limits.
THEOREM OnlyReadable ==
  ASSUME NEW db, DatabaseIsValid(db), NEW committed, FilesAreValid(committed), NEW ctx, NEW ref, NEW limit \in Nat, NEW most
  PROVE  OnlyReadableShown(db, committed, ctx, ref, limit, most)
  <1> DEFINE filed == FileEntries(committed)
             rows == Available(db, {"public"}, 2 * limit)
             IsFiled(e) == ctx.kind = "anonymous" /\ e \in filed
             install == Resolved(db, committed, ctx, ref, limit).entry
             hits == Found(db, committed, ctx, limit, most)
  <1>1. 2 * limit \in Nat OBVIOUS
  <1>2. \A x \in RegistryEntries(db, ctx, limit) \cup ListedEntries(db, ctx, limit) : MayRead(db, ctx, x)
    BY RegistryMayBeRead DEF ListedEntries
  <1>3. IsFiniteSet(filed) /\ \A x \in filed : EntryIsValid(x) BY ItemsAreEntries
  <1>4. IsFiniteSet(rows) /\ \A x \in rows : EntryIsValid(x) /\ x.audience = "public"
    BY <1>1, AvailableEntries
  <1>5. ASSUME NEW audiences, NEW n \in Nat
        PROVE  \A x \in ResolveReachable(db, ctx, Available(db, audiences, n), ref).entry : MayRead(db, ctx, x)
    <2> DEFINE S == Available(db, audiences, n)
    <2>1. IsFiniteSet(S) /\ \A x \in S : EntryIsValid(x) BY AvailableEntries
    <2>2. FilterCandidates(S, ref) \in SUBSET S BY DEF FilterCandidates
    <2>3. \A x \in Reachable(db, ctx, FilterCandidates(S, ref)) : MayRead(db, ctx, x) BY <2>2, ShownMayBeRead
    <2> HIDE DEF S
    <2>4. ResolveReachable(db, ctx, S, ref).entry \subseteq Reachable(db, ctx, FilterCandidates(S, ref))
      BY <2>1, ResolvedIsReachable
    <2> QED BY <2>3, <2>4 DEF S
  <1> HIDE DEF filed, rows
  <1>6. \A e \in install : MayRead(db, ctx, e) \/ (IsFiled(e) /\ FilterCandidates(rows, ref) = {})
    <2>1. CASE ctx.kind = "anonymous"
      <3> DEFINE found == ResolveCandidate(rows, ref)
      <3>1. install = (IF found.kind = "not found" THEN ResolveCandidate(filed, ref) ELSE found).entry
        BY <2>1 DEF Resolved, ResolvePublic, rows, filed
      <3>2. found.entry \subseteq rows /\ (found.kind = "not found" => FilterCandidates(rows, ref) = {})
        BY <1>4, ResolvedIsEntry
      <3>3. ResolveCandidate(filed, ref).entry \subseteq filed BY <1>3, ResolvedIsEntry
      <3>4. \A x \in rows : MayRead(db, ctx, x)
        <4>1. rows \in SUBSET Available(db, {"public"}, 2 * limit) BY DEF rows
        <4> QED BY <1>1, <1>4, <2>1, <4>1, ShownMayBeRead
      <3> HIDE DEF install, found
      <3>5. CASE found.kind = "not found" BY <2>1, <3>1, <3>2, <3>3, <3>5
      <3>6. CASE found.kind # "not found" BY <3>1, <3>2, <3>4, <3>6
      <3> QED BY <3>5, <3>6
    <2>2. CASE ctx.kind = "grant"
      <3>1. install = ResolveReachable(db, ctx, Available(db, {"grant"}, 2 * limit), ref).entry
        BY <2>2 DEF Resolved, ResolveGrant
      <3> HIDE DEF install
      <3> QED BY <1>1, <1>5, <3>1
    <2>3. CASE ctx.kind = "user"
      <3>1. install = ResolveReachable(db, ctx, Available(db, AllAudiences, limit), ref).entry
        BY <2>3 DEF Resolved, ResolveMe
      <3> HIDE DEF install
      <3> QED BY <1>5, <3>1
    <2>4. CASE ctx.kind \notin {"anonymous", "grant", "user"}
      <3>1. install = {} BY <2>4 DEF Resolved, Outcome
      <3> QED BY <3>1
    <2> QED BY <2>1, <2>2, <2>3, <2>4
  <1>7. \A S : Search(S, most) \subseteq S /\ Dedupe(S) \subseteq S BY DEF Search, FirstRows, Dedupe
  <1>8. (\A e \in hits : MayRead(db, ctx, e)) \/ (\A e \in hits : IsFiled(e))
    <2>1. CASE ctx.kind = "anonymous"
      <3>1. hits = Search(filed, most) \/ hits = Search(PublicCatalog(db, limit), most)
        BY <2>1 DEF Found, SearchPublic, filed
      <3> DEFINE listed == {e \in Available(db, {"public"}, limit) : e.listed}
      <3>2. PublicCatalog(db, limit) = Dedupe(listed) BY DEF PublicCatalog
      <3>3. listed \in SUBSET Available(db, {"public"}, limit) OBVIOUS
      <3>4. \A x \in listed : MayRead(db, ctx, x)
        <4>1. \A x \in listed : x.audience = "public" BY AvailableEntries
        <4> QED BY <2>1, <3>3, <4>1, ShownMayBeRead
      <3> HIDE DEF hits, listed
      <3>5. CASE hits = Search(filed, most) BY <1>7, <2>1, <3>5
      <3>6. CASE hits = Search(PublicCatalog(db, limit), most)
        <4>1. hits \subseteq PublicCatalog(db, limit) BY <1>7, <3>6
        <4>2. PublicCatalog(db, limit) \subseteq listed BY <1>7, <3>2
        <4> QED BY <3>4, <4>1, <4>2
      <3> QED BY <3>1, <3>5, <3>6
    <2>2. CASE ctx.kind = "grant"
      <3> DEFINE S == Available(db, {"grant"}, limit)
      <3>1. hits = Search(Dedupe(Reachable(db, ctx, S)), most) BY <2>2 DEF Found, GrantCatalog
      <3>2. \A x \in Reachable(db, ctx, S) : MayRead(db, ctx, x) BY ShownMayBeRead
      <3> HIDE DEF hits, S
      <3>3. hits \subseteq Dedupe(Reachable(db, ctx, S)) BY <1>7, <3>1
      <3>4. Dedupe(Reachable(db, ctx, S)) \subseteq Reachable(db, ctx, S) BY <1>7
      <3> QED BY <3>2, <3>3, <3>4
    <2>3. CASE ctx.kind = "user"
      <3> DEFINE S == Available(db, AllAudiences, limit)
      <3>1. hits = Search(Dedupe(Reachable(db, ctx, S)), most) BY <2>3 DEF Found, MeCatalog
      <3>2. \A x \in Reachable(db, ctx, S) : MayRead(db, ctx, x) BY ShownMayBeRead
      <3> HIDE DEF hits, S
      <3>3. hits \subseteq Dedupe(Reachable(db, ctx, S)) BY <1>7, <3>1
      <3>4. Dedupe(Reachable(db, ctx, S)) \subseteq Reachable(db, ctx, S) BY <1>7
      <3> QED BY <3>2, <3>3, <3>4
    <2>4. CASE ctx.kind \notin {"anonymous", "grant", "user"}
      <3>1. hits = {} BY <2>4 DEF Found
      <3> QED BY <3>1
    <2> QED BY <2>1, <2>2, <2>3, <2>4
  <1> QED BY <1>2, <1>6, <1>8 DEF OnlyReadableShown, MayRead, rows, filed

\* A live exposure of a whole release is available while the limit is not reached.
LEMMA EntryIsThere ==
  ASSUME NEW db, DatabaseIsValid(db), NEW audiences, NEW limit \in Nat,
         Cardinality({e \in db.exposures : e.live}) <= limit,
         NEW e \in db.exposures, e.live, e.audience \in audiences, NEW r \in db.releases, e.release = r.id, r.whole
  PROVE  LET x == EntryOf(db, e)
         IN  x \in Available(db, audiences, limit) /\ x.release = r.id /\ x.audience = e.audience
  <1> DEFINE q == CHOOSE q \in db.releases : q.id = e.release
             x == EntryOf(db, e)
  <1>1. q = r BY DEF DatabaseIsValid
  <1>2. x = [exposure |-> e.id, release |-> q.id, audience |-> e.audience, listed |-> e.listed, pub |-> q.pub,
             name |-> q.name, version |-> q.version, runs |-> q.runs, text |-> q.text, ready |-> q.ready,
             whole |-> q.whole, score |-> q.score, at |-> 0]
    BY DEF EntryOf
  <1> HIDE DEF q
  <1>3. x.release = r.id /\ x.audience = e.audience /\ x.whole BY <1>1, <1>2
  <1>4. x \in ProjectionQuery(db, audiences) BY DEF ProjectionQuery
  <1>5. BuildProjections(db, audiences, limit) = ProjectionQuery(db, audiences) BY ProjectionsAreRows
  <1> HIDE DEF x
  <1>6. x \in Available(db, audiences, limit) BY <1>3, <1>4, <1>5 DEF Available
  <1> QED BY <1>3, <1>6 DEF x

\* Dedupe keeps one of the entries of a release (dedupe_projections_by_release): a release has one
\* live exposure of each audience.
LEMMA OneIsKept ==
  ASSUME NEW db, DatabaseIsValid(db), NEW S \in SUBSET ProjectionQuery(db, AllAudiences), IsFiniteSet(S), NEW y \in S
  PROVE  \E x \in Dedupe(S) : {e \in Dedupe(S) : e.release = y.release} = {x}
  <1> DEFINE rank(x) == AudienceRank(x.audience)
             T == {x \in S : x.release = y.release}
             R == {q \in T \X T : rank(q[1]) < rank(q[2])}
  <1>1. IsFiniteSet(T) /\ y \in T /\ T \subseteq S BY FS_Subset
  <1>2. \A x \in T : rank(x) \in Nat
    <2>1. \A x \in T : x.audience \in AllAudiences BY <1>1, RowsAreEntries
    <2> QED BY <2>1, Ranks DEF AllAudiences
  <1>3. ASSUME NEW x \in T, NEW z \in T, rank(x) = rank(z) PROVE x = z
    <2>1. x.release = z.release OBVIOUS
    <2>2. PICK e \in db.exposures : e.live /\ x = EntryOf(db, e) /\ e.release = x.release /\ e.audience = x.audience
      BY <1>1, RowsAreEntries
    <2>3. PICK f \in db.exposures : f.live /\ z = EntryOf(db, f) /\ f.release = z.release /\ f.audience = z.audience
      BY <1>1, RowsAreEntries
    <2>4. x.audience \in AllAudiences /\ z.audience \in AllAudiences BY <1>1, RowsAreEntries
    <2>5. x.audience = z.audience BY <1>3, <2>4, Ranks DEF AllAudiences
    <2>6. e = f BY <2>1, <2>2, <2>3, <2>5 DEF DatabaseIsValid
    <2> QED BY <2>2, <2>3, <2>6
  <1>4. \E x \in T : \A z \in T : <<x, z>> \notin R
    <2>1. \A x, z \in T : <<x, z>> \in R <=> rank(x) < rank(z) OBVIOUS
    <2> HIDE DEF R, T, rank
    <2>2. \A x \in T : <<x, x>> \notin R BY <1>2, <2>1
    <2>3. \A x, z, w \in T : <<x, z>> \in R /\ <<z, w>> \in R => <<x, w>> \in R BY <1>2, <2>1
    <2> QED BY <1>1, <2>2, <2>3, LastExists
  <1>5. PICK x \in T : \A z \in T : ~(rank(x) < rank(z)) BY <1>4
  <1>6. \A z \in T : rank(z) <= rank(x) BY <1>2, <1>5
  <1>7. x \in Dedupe(S) BY <1>1, <1>6 DEF Dedupe
  <1>8. ASSUME NEW z \in Dedupe(S), z.release = y.release PROVE z = x
    <2>1. z \in T /\ rank(x) <= rank(z) BY <1>1, <1>8 DEF Dedupe
    <2>2. rank(x) = rank(z) BY <1>2, <1>6, <2>1
    <2> QED BY <1>3, <2>1, <2>2
  <1>9. x.release = y.release OBVIOUS
  <1>10. {e \in Dedupe(S) : e.release = y.release} = {x} BY <1>7, <1>8, <1>9
  <1> QED BY <1>7, <1>10

\* While the batch limit is not reached, a release the context may read is shown, once
\* (build_release_projections, dedupe_projections_by_release).
THEOREM ReleasesShown ==
  ASSUME NEW db, DatabaseIsValid(db), NEW ctx, ContextIsValid(ctx), NEW limit \in Nat
  PROVE  ReadableIsShown(db, ctx, limit)
  <1> DEFINE all == Available(db, AllAudiences, limit)
             wide == Available(db, AllAudiences, 2 * limit)
             grants == Available(db, {"grant"}, limit)
  <1> SUFFICES ASSUME Cardinality({e \in db.exposures : e.live}) <= limit,
                      NEW r \in db.releases, r.whole, CanAccess(db, ctx, r.id)
               PROVE  /\ Cardinality({e \in RegistryEntries(db, ctx, limit) : e.release = r.id}) = 1
                      /\ ctx.kind = "user" => Cardinality({e \in MeCatalog(db, ctx, limit) : e.release = r.id}) = 1
                      /\ ctx.kind = "grant" => Cardinality({e \in GrantCatalog(db, ctx, limit) : e.release = r.id}) = 1
    BY DEF ReadableIsShown
  <1>1. IsFiniteSet(all) /\ all \subseteq ProjectionQuery(db, AllAudiences)
        /\ IsFiniteSet(grants) /\ grants \subseteq ProjectionQuery(db, {"grant"})
    BY AvailableEntries
  <1>11. wide = all
    <2>1. Cardinality({e \in db.exposures : e.live}) <= 2 * limit /\ 2 * limit \in Nat
      <3>1. Cardinality({e \in db.exposures : e.live}) \in Nat BY RowsAreFew
      <3> QED BY <3>1
    <2>2. BuildProjections(db, AllAudiences, 2 * limit) = BuildProjections(db, AllAudiences, limit)
      BY <2>1, ProjectionsAreRows
    <2> QED BY <2>2 DEF Available
  <1>2. grants \subseteq ProjectionQuery(db, AllAudiences)
    BY <1>1 DEF ProjectionQuery, AllAudiences
  <1>3. ASSUME NEW S, S \subseteq all \/ S \subseteq grants, NEW y \in S, y.release = r.id
        PROVE  Cardinality({e \in Dedupe(S) : e.release = r.id}) = 1
    <2>1. S \in SUBSET ProjectionQuery(db, AllAudiences) BY <1>1, <1>2, <1>3
    <2>2. IsFiniteSet(S)
      <3>1. CASE S \subseteq all BY <1>1, <3>1, FS_Subset
      <3>2. CASE S \subseteq grants BY <1>1, <3>2, FS_Subset
      <3> QED BY <1>3, <3>1, <3>2
    <2>3. PICK x \in Dedupe(S) : {e \in Dedupe(S) : e.release = y.release} = {x} BY <2>1, <2>2, OneIsKept
    <2>4. {e \in Dedupe(S) : e.release = r.id} = {x} BY <1>3, <2>3
    <2> QED BY <2>4, FS_Singleton
  <1>4. PICK e \in db.exposures : /\ e.live /\ e.release = r.id
                                  /\ ctx.kind = "grant" => e.audience = "grant"
                                  /\ ctx.kind = "anonymous" => e.audience = "public"
    <2>1. CASE ctx.kind = "grant"
      <3>1. GrantAllows(db, ctx.grant, r.id) BY <2>1 DEF CanAccess
      <3> QED BY <2>1, <3>1 DEF GrantAllows
    <2>2. CASE ctx.kind # "grant"
      <3>1. PICK e \in db.exposures : e.release = r.id /\ e.live /\ Opens(db, ctx, e) BY <2>2 DEF CanAccess
      <3>2. ctx.kind = "anonymous" => e.audience = "public"
        BY <3>1 DEF Opens, ContextIsValid
      <3> QED BY <2>2, <3>1, <3>2
    <2> QED BY <2>1, <2>2
  <1> DEFINE y == EntryOf(db, e)
  <1>5. e.audience \in AllAudiences BY DEF DatabaseIsValid
  <1>6. y \in all /\ y.release = r.id /\ y.audience = e.audience BY <1>4, <1>5, EntryIsThere
  <1>7. ctx.kind = "grant" => y \in grants BY <1>4, EntryIsThere
  <1> HIDE DEF y, all, wide, grants
  <1>8. Cardinality({x \in RegistryEntries(db, ctx, limit) : x.release = r.id}) = 1
    <2>1. CASE ctx.kind = "anonymous"
      <3> DEFINE S == {x \in all : x.audience = "public"}
      <3>1. RegistryEntries(db, ctx, limit) = Dedupe(S) BY <1>11, <2>1 DEF RegistryEntries, wide
      <3>2. y \in S /\ S \subseteq all BY <1>4, <1>6, <2>1
      <3> HIDE DEF S
      <3> QED BY <1>3, <1>6, <3>1, <3>2
    <2>2. CASE ctx.kind = "grant"
      <3> DEFINE S == Reachable(db, ctx, {x \in all : x.audience = "grant"})
      <3>1. RegistryEntries(db, ctx, limit) = Dedupe(S) BY <1>11, <2>2 DEF RegistryEntries, wide
      <3>2. y \in S /\ S \subseteq all BY <1>4, <1>6, <2>2 DEF Reachable
      <3> HIDE DEF S
      <3> QED BY <1>3, <1>6, <3>1, <3>2
    <2>3. CASE ctx.kind # "anonymous" /\ ctx.kind # "grant"
      <3> DEFINE S == Reachable(db, ctx, all)
      <3>1. RegistryEntries(db, ctx, limit) = Dedupe(S) BY <1>11, <2>3 DEF RegistryEntries, wide
      <3>2. y \in S /\ S \subseteq all BY <1>6 DEF Reachable
      <3> HIDE DEF S
      <3> QED BY <1>3, <1>6, <3>1, <3>2
    <2> QED BY <2>1, <2>2, <2>3
  <1>9. Cardinality({x \in MeCatalog(db, ctx, limit) : x.release = r.id}) = 1
    <2> DEFINE S == Reachable(db, ctx, all)
    <2>1. MeCatalog(db, ctx, limit) = Dedupe(S) BY DEF MeCatalog, all
    <2>2. y \in S /\ S \subseteq all BY <1>6 DEF Reachable
    <2> HIDE DEF S
    <2> QED BY <1>3, <1>6, <2>1, <2>2
  <1>10. ASSUME ctx.kind = "grant" PROVE Cardinality({x \in GrantCatalog(db, ctx, limit) : x.release = r.id}) = 1
    <2> DEFINE S == Reachable(db, ctx, grants)
    <2>1. GrantCatalog(db, ctx, limit) = Dedupe(S) BY DEF GrantCatalog, grants
    <2>2. y \in S /\ S \subseteq grants BY <1>6, <1>7, <1>10 DEF Reachable
    <2> HIDE DEF S
    <2> QED BY <1>3, <1>6, <2>1, <2>2
  <1> QED BY <1>8, <1>9, <1>10

\* What an install resolves to depends on the matching entries that may be read alone.
LEMMA RowsDecide ==
  ASSUME NEW c, NEW d, NEW ctx, NEW ref, NEW S, NEW T,
         Reachable(c, ctx, FilterCandidates(S, ref)) = Reachable(d, ctx, FilterCandidates(T, ref))
  PROVE  LET one == ResolveReachable(c, ctx, S, ref)
             other == ResolveReachable(d, ctx, T, ref)
         IN  one.entry = other.entry /\ (one.kind = "ambiguous") = (other.kind = "ambiguous")
  <1> DEFINE rows == Reachable(c, ctx, FilterCandidates(S, ref))
             found == ResolveCandidate(rows, ref)
             one == ResolveReachable(c, ctx, S, ref)
             other == ResolveReachable(d, ctx, T, ref)
             none == Outcome("not found", {})
             barred == Outcome("forbidden", {})
  <1>1. one = IF FilterCandidates(S, ref) = {} THEN none ELSE IF rows = {} THEN barred ELSE found
    BY DEF ResolveReachable
  <1>2. other = IF FilterCandidates(T, ref) = {} THEN none ELSE IF rows = {} THEN barred ELSE found
    BY DEF ResolveReachable
  <1>3. /\ FilterCandidates(S, ref) = {} => rows = {}
        /\ FilterCandidates(T, ref) = {} => rows = {}
    BY DEF Reachable
  <1>4. none.entry = {} /\ barred.entry = {} /\ none.kind # "ambiguous" /\ barred.kind # "ambiguous" BY DEF Outcome
  <1> HIDE DEF rows, found, one, other, none, barred
  <1>5. CASE rows = {}
    <2>1. (one = none \/ one = barred) /\ (other = none \/ other = barred) BY <1>1, <1>2, <1>5
    <2>2. one.entry = {} /\ other.entry = {} /\ one.kind # "ambiguous" /\ other.kind # "ambiguous" BY <1>4, <2>1
    <2> QED BY <2>2 DEF one, other
  <1>6. CASE rows # {}
    <2>1. one = found /\ other = found BY <1>1, <1>2, <1>3, <1>6
    <2> QED BY <2>1 DEF one, other
  <1> QED BY <1>5, <1>6

\* The database without the releases that a context may not read.
Seen(db, ctx) ==
    LET known == {r \in db.releases : CanAccess(db, ctx, r.id)}
    IN  [db EXCEPT !.releases = known,
                   !.exposures = {e \in db.exposures : \E r \in known : r.id = e.release}]

\* It is a database of the same grants, in which the same releases may be read.
LEMMA SeenIsDatabase ==
  ASSUME NEW db, DatabaseIsValid(db), NEW ctx
  PROVE  /\ DatabaseIsValid(Seen(db, ctx))
         /\ Seen(db, ctx).exposures \in SUBSET db.exposures
         /\ \A q : CanAccess(Seen(db, ctx), ctx, q) => CanAccess(db, ctx, q)
         /\ \A e \in db.exposures : CanAccess(db, ctx, e.release) =>
                /\ e \in Seen(db, ctx).exposures
                /\ CanAccess(Seen(db, ctx), ctx, e.release)
                /\ EntryOf(Seen(db, ctx), e) = EntryOf(db, e)
  <1> DEFINE known == {r \in db.releases : CanAccess(db, ctx, r.id)}
             shown == {e \in db.exposures : \E r \in known : r.id = e.release}
             seen == Seen(db, ctx)
  <1>1. seen = [releases |-> known, exposures |-> shown, grants |-> db.grants]
    <2> DEFINE R == db.releases
               E == db.exposures
               G == db.grants
    <2>1. db = [releases |-> R, exposures |-> E, grants |-> G] BY DEF DatabaseIsValid
    <2>2. seen = [db EXCEPT !.releases = known, !.exposures = shown] BY DEF Seen
    <2> HIDE DEF R, E, G, known, shown, seen
    <2>3. [[releases |-> R, exposures |-> E, grants |-> G] EXCEPT !.releases = known, !.exposures = shown]
            = [releases |-> known, exposures |-> shown, grants |-> G]
      <3>1. [[releases |-> R, exposures |-> E, grants |-> G] EXCEPT !.releases = known]
              = [releases |-> known, exposures |-> E, grants |-> G]
        OBVIOUS
      <3>2. [[releases |-> known, exposures |-> E, grants |-> G] EXCEPT !.exposures = shown]
              = [releases |-> known, exposures |-> shown, grants |-> G]
        OBVIOUS
      <3> QED BY <3>1, <3>2
    <2>4. seen = [releases |-> known, exposures |-> shown, grants |-> G] BY <2>1, <2>2, <2>3
    <2> QED BY <2>4 DEF G
  <1>2. known \subseteq db.releases /\ \A e \in shown : \E r \in known : r.id = e.release OBVIOUS
  <1>3. shown \in SUBSET db.exposures OBVIOUS
  <1>4. IsFiniteSet(shown)
    <2> HIDE DEF shown
    <2> QED BY <1>3, FS_Subset DEF DatabaseIsValid
  <1>6. \A e \in db.exposures : CanAccess(db, ctx, e.release) => e \in shown
    BY DEF DatabaseIsValid
  <1> HIDE DEF known, shown, seen
  <1>5. /\ seen.releases = known /\ seen.exposures = shown /\ seen.grants = db.grants
        /\ seen = [releases |-> seen.releases, exposures |-> seen.exposures, grants |-> seen.grants]
    BY <1>1
  <1>7. DatabaseIsValid(seen) BY <1>5, <1>2, <1>3, <1>4 DEF DatabaseIsValid
  <1>8. \A e, q : Opens(seen, ctx, e) <=> Opens(db, ctx, e) BY <1>5 DEF Opens, HasGrant
  <1>9. ASSUME NEW q, CanAccess(seen, ctx, q) PROVE CanAccess(db, ctx, q)
    BY <1>5, <1>3, <1>8, <1>9 DEF CanAccess, GrantAllows
  <1>10. ASSUME NEW q, \A e \in db.exposures : e.release = q => e \in shown, CanAccess(db, ctx, q)
         PROVE  CanAccess(seen, ctx, q)
    BY <1>5, <1>8, <1>10 DEF CanAccess, GrantAllows
  <1>11. ASSUME NEW e \in db.exposures, CanAccess(db, ctx, e.release)
         PROVE  e \in shown /\ CanAccess(seen, ctx, e.release) /\ EntryOf(seen, e) = EntryOf(db, e)
    <2>1. e \in shown BY <1>6, <1>11
    <2>2. \A f \in db.exposures : f.release = e.release => f \in shown BY <1>6, <1>11
    <2>3. CanAccess(seen, ctx, e.release) BY <1>10, <1>11, <2>2
    <2>4. PICK r \in known : r.id = e.release BY <1>2, <2>1
    <2>5. (CHOOSE q \in db.releases : q.id = e.release) = r BY <1>2, <2>4 DEF DatabaseIsValid
    <2>6. (CHOOSE q \in seen.releases : q.id = e.release) = r BY <1>5, <1>2, <2>4 DEF DatabaseIsValid
    <2>7. EntryOf(seen, e) = EntryOf(db, e) BY <2>5, <2>6 DEF EntryOf
    <2> QED BY <2>1, <2>3, <2>7
  <1> QED BY <1>5, <1>3, <1>7, <1>9, <1>11 DEF seen

\* Releases that the context may not read change nothing about what it can install, while the
\* batch limit is not reached (resolve_me_install, resolve_grant_install): they neither shadow a
\* version nor make a short name ambiguous.
THEOREM HiddenChangesNothing ==
  ASSUME NEW db, DatabaseIsValid(db), NEW ctx, NEW ref, NEW limit \in Nat
  PROVE  HiddenDoesNotMatter(db, ctx, ref, limit)
  <1> DEFINE audiences == IF ctx.kind = "grant" THEN {"grant"} ELSE AllAudiences
             most == IF ctx.kind = "grant" THEN 2 * limit ELSE limit
             seen == Seen(db, ctx)
             rows(d) == Reachable(d, ctx, FilterCandidates(Available(d, audiences, most), ref))
             resolved(d) == ResolveReachable(d, ctx, Available(d, audiences, most), ref)
             answer(d) == IF ctx.kind = "grant" THEN ResolveGrant(d, ctx, ref, limit) ELSE ResolveMe(d, ctx, ref, limit)
  <1>1. ASSUME Cardinality(db.exposures) <= limit PROVE rows(db) = rows(seen)
    <2>1. ASSUME NEW d, DatabaseIsValid(d), d.exposures \in SUBSET db.exposures
          PROVE  Available(d, audiences, most) = {x \in ProjectionQuery(d, audiences) : x.whole}
      <3> DEFINE live == {e \in d.exposures : e.live}
      <3>1. live \in SUBSET db.exposures BY <2>1
      <3>7. most \in Nat /\ limit <= most OBVIOUS
      <3> HIDE DEF live, audiences, most
      <3>2. IsFiniteSet(db.exposures) BY DEF DatabaseIsValid
      <3>3. Cardinality(live) <= Cardinality(db.exposures) /\ IsFiniteSet(live) BY <3>1, <3>2, FS_Subset
      <3>4. Cardinality(live) \in Nat /\ Cardinality(db.exposures) \in Nat BY <3>2, <3>3, FS_CardinalityType
      <3>5. Cardinality(live) <= most BY <1>1, <3>3, <3>4, <3>7
      <3>6. BuildProjections(d, audiences, most) = ProjectionQuery(d, audiences)
        BY <2>1, <3>5, <3>7, ProjectionsAreRows DEF live
      <3> QED BY <3>6 DEF Available
    <2>2. /\ DatabaseIsValid(seen) /\ seen.exposures \in SUBSET db.exposures
          /\ \A q : CanAccess(seen, ctx, q) => CanAccess(db, ctx, q)
          /\ \A e \in db.exposures : CanAccess(db, ctx, e.release) =>
                /\ e \in seen.exposures /\ CanAccess(seen, ctx, e.release) /\ EntryOf(seen, e) = EntryOf(db, e)
      BY SeenIsDatabase
    <2> HIDE DEF audiences, most, seen
    <2>3. ASSUME NEW d, DatabaseIsValid(d), d.exposures \in SUBSET db.exposures
          PROVE  \A x : x \in rows(d) <=>
                     /\ x.whole /\ Matches(x, ref)
                     /\ \E e \in d.exposures : /\ e.live /\ e.audience \in audiences
                                               /\ x = EntryOf(d, e) /\ CanAccess(d, ctx, e.release)
      <3>1. rows(d) = Reachable(d, ctx, FilterCandidates({x \in ProjectionQuery(d, audiences) : x.whole}, ref))
        BY <2>1, <2>3
      <3>2. ASSUME NEW x \in ProjectionQuery(d, audiences)
            PROVE  \A e \in d.exposures : x = EntryOf(d, e) => x.release = e.release
        <4> SUFFICES ASSUME NEW e \in d.exposures, x = EntryOf(d, e) PROVE x.release = e.release
          OBVIOUS
        <4> DEFINE r == CHOOSE r \in d.releases : r.id = e.release
        <4>1. r.id = e.release BY <2>3 DEF DatabaseIsValid
        <4>2. x.release = r.id BY DEF EntryOf
        <4> QED BY <4>1, <4>2
      <3>3. \A x : x \in ProjectionQuery(d, audiences) <=>
                     \E e \in d.exposures : e.live /\ e.audience \in audiences /\ x = EntryOf(d, e)
        BY DEF ProjectionQuery
      <3>4. \A x : x \in rows(d) <=> /\ x \in ProjectionQuery(d, audiences) /\ x.whole /\ Matches(x, ref)
                                     /\ CanAccess(d, ctx, x.release)
        BY <3>1 DEF Reachable, FilterCandidates
      <3> HIDE DEF rows
      <3> QED BY <3>2, <3>3, <3>4
    <2>4. db.exposures \in SUBSET db.exposures OBVIOUS
    <2>5. \A x : x \in rows(db) <=>
                     /\ x.whole /\ Matches(x, ref)
                     /\ \E e \in db.exposures : /\ e.live /\ e.audience \in audiences
                                                /\ x = EntryOf(db, e) /\ CanAccess(db, ctx, e.release)
      BY <2>3, <2>4
    <2>6. \A x : x \in rows(seen) <=>
                     /\ x.whole /\ Matches(x, ref)
                     /\ \E e \in seen.exposures : /\ e.live /\ e.audience \in audiences
                                                  /\ x = EntryOf(seen, e) /\ CanAccess(seen, ctx, e.release)
      BY <2>2, <2>3
    <2> HIDE DEF rows
    <2>7. \A x : x \in rows(db) <=> x \in rows(seen) BY <2>2, <2>5, <2>6
    <2>8. \A x \in rows(db) : x \in rows(seen) BY <2>7
    <2>9. rows(db) \subseteq rows(seen) /\ rows(seen) \subseteq rows(db) BY <2>7
    <2>10. /\ \E S : rows(db) = {x \in S : x \in rows(db)}
           /\ \E S : rows(seen) = {x \in S : x \in rows(seen)}
      BY DEF rows, Reachable
    <2> QED BY <2>9 DEF rows, Reachable
  <1>2. ASSUME Cardinality(db.exposures) <= limit
        PROVE  /\ resolved(db).entry = resolved(seen).entry
               /\ (resolved(db).kind = "ambiguous") = (resolved(seen).kind = "ambiguous")
    BY <1>1, <1>2, RowsDecide
  <1>3. \A d : answer(d) = resolved(d) BY DEF ResolveGrant, ResolveMe
  <1> HIDE DEF resolved
  <1>4. ASSUME Cardinality(db.exposures) <= limit
        PROVE  answer(db).entry = answer(seen).entry /\ (answer(db).kind = "ambiguous") = (answer(seen).kind = "ambiguous")
    BY <1>2, <1>3, <1>4
  <1> QED BY <1>4 DEF HiddenDoesNotMatter, Seen

\* What the registry and an install choose from while the batch limit is not reached.
Offered(db, ctx) ==
    LET whole == {x \in ProjectionQuery(db, AllAudiences) : x.whole}
    IN  IF ctx.kind = "anonymous" THEN {x \in whole : x.audience = "public"}
        ELSE IF ctx.kind = "grant" THEN Reachable(db, ctx, {x \in whole : x.audience = "grant"})
        ELSE Reachable(db, ctx, whole)

\* The registry shows it without duplicates, and an install of a qualified name takes its latest
\* (_all_accessible_entries, resolve_public_install, resolve_me_install, resolve_grant_install).
LEMMA BothChooseFrom ==
  ASSUME NEW db, DatabaseIsValid(db), NEW committed, NEW ctx, ctx.kind \in {"anonymous", "user", "grant"}, NEW limit \in Nat,
         Cardinality({e \in db.exposures : e.live}) <= limit, NEW ref, ref.pub # 0
  PROVE  LET offered == Offered(db, ctx)
             matches == FilterCandidates(offered, ref)
             found == Resolved(db, committed, ctx, ref, limit)
         IN  /\ offered \in SUBSET ProjectionQuery(db, AllAudiences) /\ IsFiniteSet(offered)
             /\ RegistryEntries(db, ctx, limit) = Dedupe(offered)
             /\ matches # {} => found.kind = "found" /\ found.entry = {LatestOf(matches)}
  <1> DEFINE offered == Offered(db, ctx)
             matches == FilterCandidates(offered, ref)
             found == Resolved(db, committed, ctx, ref, limit)
             Whole(audiences) == {x \in ProjectionQuery(db, audiences) : x.whole}
  <1>1. ASSUME NEW audiences, NEW n \in Nat, limit <= n
        PROVE  Available(db, audiences, n) = Whole(audiences)
    <2>1. Cardinality({e \in db.exposures : e.live}) <= n
      <3>1. Cardinality({e \in db.exposures : e.live}) \in Nat BY RowsAreFew
      <3> QED BY <1>1, <3>1
    <2>2. BuildProjections(db, audiences, n) = ProjectionQuery(db, audiences) BY <2>1, ProjectionsAreRows
    <2> QED BY <2>2 DEF Available
  <1>2. /\ 2 * limit \in Nat /\ limit <= 2 * limit /\ limit <= limit OBVIOUS
  <1>3. \A a \in AllAudiences : Whole({a}) = {x \in Whole(AllAudiences) : x.audience = a}
    <2> TAKE a \in AllAudiences
    <2>1. ASSUME NEW x, x \in ProjectionQuery(db, {a}) PROVE x \in ProjectionQuery(db, AllAudiences) /\ x.audience = a
      <3>1. x.audience \in {a} BY <2>1, RowsAreEntries
      <3> QED BY <2>1, <3>1 DEF ProjectionQuery
    <2>2. ASSUME NEW x, x \in ProjectionQuery(db, AllAudiences), x.audience = a PROVE x \in ProjectionQuery(db, {a})
      <3>1. PICK e \in db.exposures : e.live /\ x = EntryOf(db, e) /\ e.audience = x.audience BY <2>2, RowsAreEntries
      <3> QED BY <2>2, <3>1 DEF ProjectionQuery
    <2> QED BY <2>1, <2>2
  <1>4. /\ Available(db, AllAudiences, limit) = Whole(AllAudiences)
        /\ Available(db, AllAudiences, 2 * limit) = Whole(AllAudiences)
        /\ Available(db, {"public"}, 2 * limit) = {x \in Whole(AllAudiences) : x.audience = "public"}
        /\ Available(db, {"grant"}, 2 * limit) = {x \in Whole(AllAudiences) : x.audience = "grant"}
    <2>1. "public" \in AllAudiences /\ "grant" \in AllAudiences BY DEF AllAudiences
    <2> HIDE DEF Whole
    <2> QED BY <1>1, <1>2, <1>3, <2>1
  <1> DEFINE whole == Whole(AllAudiences)
  <1>5. /\ ctx.kind = "anonymous" => offered = {x \in whole : x.audience = "public"}
        /\ ctx.kind = "grant" => offered = Reachable(db, ctx, {x \in whole : x.audience = "grant"})
        /\ ctx.kind = "user" => offered = Reachable(db, ctx, whole)
    BY DEF Offered
  <1>6. whole \in SUBSET ProjectionQuery(db, AllAudiences) OBVIOUS
  <1>7. \A S : Reachable(db, ctx, S) \subseteq S BY DEF Reachable
  <1> HIDE DEF Whole, whole, offered
  <1>8. offered \in SUBSET whole
    <2>1. CASE ctx.kind = "anonymous" BY <1>5, <2>1
    <2>2. CASE ctx.kind = "grant" BY <1>5, <2>2 DEF Reachable
    <2>3. CASE ctx.kind = "user" BY <1>5, <2>3 DEF Reachable
    <2> QED BY <2>1, <2>2, <2>3
  <1>9. IsFiniteSet(whole)
    <2>1. IsFiniteSet(ProjectionQuery(db, AllAudiences)) BY RowsAreFew
    <2> QED BY <1>6, <2>1, FS_Subset
  <1>10. IsFiniteSet(offered) /\ offered \in SUBSET ProjectionQuery(db, AllAudiences) BY <1>6, <1>8, <1>9, FS_Subset
  <1>11. \A x \in whole : EntryIsValid(x)
    <2> TAKE x \in whole
    <2>1. x \in ProjectionQuery(db, AllAudiences) BY <1>6
    <2> QED BY <2>1, RowsAreEntries
  <1>12. RegistryEntries(db, ctx, limit) = Dedupe(offered)
    <2>1. CASE ctx.kind = "anonymous" BY <1>4, <1>5, <2>1 DEF RegistryEntries, whole
    <2>2. CASE ctx.kind = "grant" BY <1>4, <1>5, <2>2 DEF RegistryEntries, whole
    <2>3. CASE ctx.kind = "user" BY <1>4, <1>5, <2>3 DEF RegistryEntries, whole
    <2> QED BY <2>1, <2>2, <2>3
  <1>13. ASSUME NEW S \in SUBSET whole, offered = Reachable(db, ctx, S), found = ResolveReachable(db, ctx, S, ref), matches # {}
         PROVE  found.kind = "found" /\ found.entry = {LatestOf(matches)}
    <2>1. IsFiniteSet(S) /\ \A x \in S : EntryIsValid(x) BY <1>9, <1>11, FS_Subset
    <2>2. matches = Reachable(db, ctx, FilterCandidates(S, ref)) BY <1>13 DEF FilterCandidates, Reachable
    <2> HIDE DEF found
    <2>3. found = ResolveCandidate(matches, ref) BY <1>13, <2>1, <2>2, ResolvedIsReachable
    <2>4. FilterCandidates(matches, ref) = matches BY DEF FilterCandidates
    <2>5. matches \in SUBSET whole BY <1>8 DEF FilterCandidates
    <2> HIDE DEF matches
    <2>6. IsFiniteSet(matches) /\ \A x \in matches : EntryIsValid(x) BY <1>9, <1>11, <2>5, FS_Subset
    <2> QED BY <1>13, <2>3, <2>4, <2>6, ResolvedIsEntry
  <1>14. ASSUME matches # {} PROVE found.kind = "found" /\ found.entry = {LatestOf(matches)}
    <2>1. CASE ctx.kind = "anonymous"
      <3> DEFINE first == ResolveCandidate(offered, ref)
      <3>1. found = IF first.kind = "not found" THEN ResolveCandidate(FileEntries(committed), ref) ELSE first
        BY <1>4, <1>5, <2>1 DEF Resolved, ResolvePublic, whole
      <3>2. \A x \in offered : EntryIsValid(x) BY <1>8, <1>11
      <3>3. first.kind = "found" /\ first.entry = {LatestOf(matches)} BY <1>10, <1>14, <3>2, ResolvedIsEntry
      <3> HIDE DEF first, found
      <3>4. found = first BY <3>1, <3>3
      <3> QED BY <3>3, <3>4
    <2>2. CASE ctx.kind = "grant"
      <3> DEFINE S == {x \in whole : x.audience = "grant"}
      <3>1. S \in SUBSET whole OBVIOUS
      <3>2. offered = Reachable(db, ctx, S) BY <1>5, <2>2
      <3>3. found = ResolveReachable(db, ctx, S, ref) BY <1>4, <2>2 DEF Resolved, ResolveGrant, whole
      <3> HIDE DEF S, found, matches
      <3> QED BY <1>13, <1>14, <3>1, <3>2, <3>3
    <2>3. CASE ctx.kind = "user"
      <3>1. whole \in SUBSET whole OBVIOUS
      <3>2. offered = Reachable(db, ctx, whole) BY <1>5, <2>3
      <3>3. found = ResolveReachable(db, ctx, whole, ref) BY <1>4, <2>3 DEF Resolved, ResolveMe, whole
      <3> HIDE DEF found, matches
      <3> QED BY <1>13, <1>14, <3>1, <3>2, <3>3
    <2> QED BY <2>1, <2>2, <2>3
  <1> QED BY <1>10, <1>12, <1>14 DEF offered

\* The index names no version that cannot be fetched, and its latest is what an install resolves to,
\* or one whose key ties with it (build_ai_index, resolve_registry_artifact_relative_path, the installs).
THEOREM IndexAgrees ==
  ASSUME NEW db, DatabaseIsValid(db), NEW committed, NEW ctx, ctx.kind \in {"anonymous", "user", "agent", "grant"}, NEW limit \in Nat
  PROVE  IndexIsInstallable(db, committed, ctx, limit)
  <1> DEFINE shown == RegistryEntries(db, ctx, limit)
             index == AiIndex(shown)
             paths == AllowedPaths(db, ctx, limit)
             wanted(skill) == [pub |-> skill[1], name |-> skill[2], text |-> {}]
             found(skill) == Resolved(db, committed, ctx, wanted(skill), limit)
             live == {e \in db.exposures : e.live}
  <1>1. DOMAIN index = Skills(shown)
        /\ \A skill \in Skills(shown) : /\ index[skill].versions = {e.text : e \in OfSkill(shown, skill)}
                                        /\ index[skill].latest = IndexLatest(OfSkill(shown, skill))
    BY DEF AiIndex
  <1>2. paths = {<<e.pub, e.name, e.text>> : e \in shown} BY DEF AllowedPaths
  <1> HIDE DEF index, paths
  <1>3. ASSUME NEW skill \in Skills(shown), NEW t \in index[skill].versions PROVE <<skill[1], skill[2], t>> \in paths
    <2> HIDE DEF shown
    <2>3. t \in {e.text : e \in OfSkill(shown, skill)} BY <1>1
    <2>1. PICK e \in shown : <<e.pub, e.name>> = skill /\ e.text = t BY <2>3 DEF OfSkill
    <2>2. e.pub = skill[1] /\ e.name = skill[2] BY <2>1
    <2> QED BY <1>2, <2>1, <2>2
  <1>4. ASSUME NEW skill \in Skills(shown), ctx.kind # "agent", Cardinality(live) <= limit
        PROVE  /\ found(skill).kind = "found"
               /\ \A e \in found(skill).entry : e.release # 0 /\ VersionKeysTie(e, index[skill].latest)
    <2> DEFINE offered == Offered(db, ctx)
               ref == wanted(skill)
               S == OfSkill(shown, skill)
               T == FilterCandidates(offered, ref)
    <2>1. PICK e : e \in shown /\ skill = <<e.pub, e.name>> BY DEF Skills
    <2>2. skill[1] = e.pub /\ skill[2] = e.name BY <2>1
    <2>3. ref.pub = e.pub /\ ref.name = e.name /\ ref.text = {} BY <2>2
    <2>4. e \in ProjectionQuery(db, AllAudiences)
      <3>1. 2 * limit \in Nat OBVIOUS
      <3>2. shown \in SUBSET Available(db, AllAudiences, 2 * limit) BY RegistryIsAvailable
      <3>3. Available(db, AllAudiences, 2 * limit) \subseteq ProjectionQuery(db, AllAudiences) BY <3>1, AvailableEntries
      <3> QED BY <2>1, <3>2, <3>3
    <2>5. e.pub \in Nat \ {0} BY <2>4, RowsAreEntries DEF EntryIsValid
    <2>6. ref.pub # 0 BY <2>3, <2>5
    <2> HIDE DEF ref
    <2>7. /\ offered \in SUBSET ProjectionQuery(db, AllAudiences) /\ IsFiniteSet(offered)
          /\ shown = Dedupe(offered)
          /\ T # {} => found(skill).kind = "found" /\ found(skill).entry = {LatestOf(T)}
      <3> DEFINE resolved == Resolved(db, committed, ctx, ref, limit)
      <3>1. ctx.kind \in {"anonymous", "user", "grant"} /\ Cardinality({x \in db.exposures : x.live}) <= limit BY <1>4
      <3>2. /\ Offered(db, ctx) \in SUBSET ProjectionQuery(db, AllAudiences) /\ IsFiniteSet(Offered(db, ctx))
            /\ RegistryEntries(db, ctx, limit) = Dedupe(Offered(db, ctx))
            /\ FilterCandidates(Offered(db, ctx), ref) # {} =>
                  /\ resolved.kind = "found"
                  /\ resolved.entry = {LatestOf(FilterCandidates(Offered(db, ctx), ref))}
        BY <2>6, <3>1, BothChooseFrom
      <3> QED BY <3>2 DEF ref
    <2> HIDE DEF shown, offered
    <2>8. shown \subseteq offered BY <2>7 DEF Dedupe
    <2>9. T = {x \in offered : x.pub = e.pub /\ x.name = e.name}
      <3>1. \A x \in offered : Matches(x, ref) <=> x.name = e.name /\ x.pub = e.pub BY <2>3, <2>5 DEF Matches
      <3> QED BY <3>1 DEF FilterCandidates
    <2>10. S = {x \in shown : x.pub = e.pub /\ x.name = e.name} BY <2>1 DEF OfSkill
    <2>11. index[skill].latest = IndexLatest(S) BY <1>1
    <2> HIDE DEF T, S, found
    <2>12. e \in S /\ S \subseteq T /\ T \in SUBSET ProjectionQuery(db, AllAudiences) /\ S \in SUBSET T
      BY <2>1, <2>7, <2>8, <2>9, <2>10
    <2>13. IsFiniteSet(T) /\ IsFiniteSet(S)
      <3>1. T \in SUBSET offered BY <2>9
      <3>2. IsFiniteSet(T) BY <2>7, <3>1, FS_Subset
      <3> QED BY <2>12, <3>2, FS_Subset
    <2>14. \A x \in T : EntryIsValid(x) /\ x.release # 0
      <3> TAKE x \in T
      <3>1. x \in ProjectionQuery(db, AllAudiences) BY <2>12
      <3> QED BY <3>1, RowsAreEntries
    <2>15. ASSUME NEW x \in T PROVE \E y \in S : VersionKey(y) = VersionKey(x)
      <3>1. x \in offered /\ offered \in SUBSET ProjectionQuery(db, AllAudiences) BY <2>7, <2>9
      <3>2. IsFiniteSet(offered) BY <2>7
      <3>3. PICK y \in Dedupe(offered) : {z \in Dedupe(offered) : z.release = x.release} = {y} BY <3>1, <3>2, OneIsKept
      <3>4. y \in shown /\ y.release = x.release BY <2>7, <3>3
      <3>5. y \in ProjectionQuery(db, AllAudiences) /\ x \in ProjectionQuery(db, AllAudiences) BY <2>8, <3>1, <3>4
      <3>6. PICK r \in db.releases : /\ x.release = r.id /\ x.version = r.version /\ x.runs = r.runs
                                     /\ x.pub = r.pub /\ x.name = r.name
        BY <3>5, RowsAreEntries
      <3>7. PICK q \in db.releases : /\ y.release = q.id /\ y.version = q.version /\ y.runs = q.runs
                                     /\ y.pub = q.pub /\ y.name = q.name
        BY <3>5, RowsAreEntries
      <3>8. q = r BY <3>4, <3>6, <3>7 DEF DatabaseIsValid
      <3>9. y.version = x.version /\ y.runs = x.runs /\ y.pub = x.pub /\ y.name = x.name BY <3>6, <3>7, <3>8
      <3>10. y \in S BY <2>9, <2>10, <3>4, <3>9
      <3>11. VersionKey(y) = VersionKey(x) BY <3>9 DEF VersionKey
      <3> QED BY <3>10, <3>11
    <2> DEFINE s == IndexLatest(S)
               t == LatestOf(T)
    <2>16. S # {} /\ T # {} /\ \A x \in S : EntryIsValid(x) BY <2>12, <2>14
    <2>17. s \in S /\ \A x \in S : ~VersionKeyLess(s, x) BY <2>13, <2>16, LatestIsOne
    <2>18. t \in T /\ \A x \in T : ~VersionKeyLess(t, x) BY <2>13, <2>14, <2>16, LatestIsOne
    <2> HIDE DEF s, t
    <2>19. PICK y \in S : VersionKey(y) = VersionKey(t) BY <2>15, <2>18
    <2>20. VersionKeyLess(s, t) <=> VersionKeyLess(s, y) BY <2>19 DEF VersionKeyLess
    <2>21. VersionKeysTie(t, s) BY <2>12, <2>17, <2>18, <2>20 DEF VersionKeysTie
    <2>22. t.release # 0 BY <2>14, <2>18
    <2> QED BY <2>7, <2>11, <2>16, <2>21, <2>22 DEF s, t
  <1> HIDE DEF found, shown
  <1> QED BY <1>1, <1>3, <1>4 DEF IndexIsInstallable, index, paths, found, shown

\* Without pre-releases the latest by version_sort_key is the one compare_versions puts last.
THEOREM ServerIsNewest ==
  ASSUME NEW db, DatabaseIsValid(db), NEW ctx, NEW limit \in Nat
  PROVE  LatestIsNewest(db, ctx, limit)
  <1> DEFINE shown == RegistryEntries(db, ctx, limit)
             all == Available(db, AllAudiences, 2 * limit)
             entries == {e \in shown : e.version.pre = <<>>}
  <1>1. shown \in SUBSET all BY RegistryIsAvailable
  <1>4. 2 * limit \in Nat OBVIOUS
  <1>2. IsFiniteSet(all) /\ \A x \in all : EntryIsValid(x) BY <1>4, AvailableEntries
  <1>3. ASSUME NEW skill \in Skills(entries), NEW e \in OfSkill(entries, skill)
        PROVE  CompareVersions(e.version, IndexLatest(OfSkill(entries, skill)).version) <= 0
    <2> DEFINE S == OfSkill(entries, skill)
               l == IndexLatest(S)
               a == l.version.core
               b == e.version.core
    <2>1. S \in SUBSET all /\ e \in S /\ \A x \in S : x.version.pre = <<>> BY <1>1 DEF OfSkill
    <2> HIDE DEF S
    <2>2. IsFiniteSet(S) /\ S # {} /\ \A x \in S : EntryIsValid(x) BY <1>2, <2>1, FS_Subset
    <2>3. l \in S /\ ~VersionKeyLess(l, e) BY <2>1, <2>2, LatestIsOne
    <2> HIDE DEF l
    <2>4. /\ l.version \in VersionType /\ e.version \in VersionType /\ l.version.pre = <<>> /\ e.version.pre = <<>>
          /\ l.runs \in Seq(Part) /\ e.runs \in Seq(Part)
      BY <2>1, <2>2, <2>3 DEF EntryIsValid
    <2>5. ~CoreBefore(a, b)
      <3> SUFFICES ASSUME CoreBefore(a, b) PROVE FALSE
        OBVIOUS
      <3> DEFINE k == VersionKey(l)
                 m == VersionKey(e)
      <3>1. /\ k \in Seq(Part) /\ m \in Seq(Part) /\ Len(k) >= 3 /\ Len(m) >= 3
            /\ \A n \in 1 .. 3 : k[n] = Number(a[n]) /\ m[n] = Number(b[n])
        <4>1. /\ k \in Seq(Part) /\ Len(k) = 3 + Len(l.runs) /\ \A n \in 1 .. 3 : k[n] = Number(a[n]) BY <2>4, KeyStart
        <4>2. /\ m \in Seq(Part) /\ Len(m) = 3 + Len(e.runs) /\ \A n \in 1 .. 3 : m[n] = Number(b[n]) BY <2>4, KeyStart
        <4>3. Len(l.runs) \in Nat /\ Len(e.runs) \in Nat BY <2>4
        <4> HIDE DEF k, m, a, b
        <4> QED BY <4>1, <4>2, <4>3
      <3>2. /\ a[1] \in Nat /\ a[2] \in Nat /\ a[3] \in Nat /\ b[1] \in Nat /\ b[2] \in Nat /\ b[3] \in Nat
        BY <2>4 DEF VersionType
      <3>3. \A i, j \in Nat : i < j => ComparePart(Number(i), Number(j)) = -1 BY DEF ComparePart, Sign, Number
      <3> HIDE DEF k, m, a, b
      <3>4. \E n \in 1 .. 3 : a[n] < b[n] /\ \A i \in 1 .. n - 1 : a[i] = b[i]
        BY <3>2 DEF CoreBefore
      <3>5. PICK n \in 1 .. 3 : a[n] < b[n] /\ \A i \in 1 .. n - 1 : a[i] = b[i] BY <3>4
      <3>6. \A i \in 1 .. n - 1 : k[i] = m[i]
        <4> TAKE i \in 1 .. n - 1
        <4>1. i \in 1 .. 3 /\ a[i] = b[i] BY <3>5
        <4> QED BY <3>1, <4>1
      <3>7. a[n] \in Nat /\ b[n] \in Nat
        <4>1. n = 1 \/ n = 2 \/ n = 3 OBVIOUS
        <4> QED BY <3>2, <4>1
      <3>8. ComparePart(k[n], m[n]) = -1 BY <3>1, <3>3, <3>5, <3>7
      <3>9. BeforeAt(k, m, n) BY <3>1, <3>6, <3>8 DEF BeforeAt
      <3>10. Before(k, m) BY <3>9 DEF Before
      <3> QED BY <2>3, <2>4, <3>10, KeyOrder DEF k, m
    <2>6. ~VersionBefore(l.version, e.version) BY <2>4, <2>5 DEF VersionBefore, Precedes
    <2>7. CompareVersions(e.version, l.version) \in {-1, 0} BY <2>4, <2>6, CompareIsBefore
    <2> QED BY <2>7 DEF l, S
  <1> QED BY <1>3 DEF LatestIsNewest

\* What the rules of visibility are asked of: a database the handlers can have left, a committed index,
\* a context the registry resolves a request to.
VisibleInput ==
    rule = "visible" =>
        /\ DatabaseIsValid(case.db) /\ FilesAreValid(case.files) /\ ContextIsValid(case.ctx)
        /\ case.limit \in Nat

\* For every database, committed index, context, reference and limit the discovery and registry APIs
\* show of the releases what may be read and no more, and agree about versions up to ties
\* (server/modules/discovery, server/modules/registry/service.py).
THEOREM VisibilityCorrect == VisibleInput => VisibilityIsRight
  <1> SUFFICES ASSUME rule = "visible", DatabaseIsValid(case.db), FilesAreValid(case.files), ContextIsValid(case.ctx),
                      case.limit \in Nat
               PROVE  VisibilityIsRight
    BY DEF VisibleInput, VisibilityIsRight, NothingLeaks, ReadableShown, HiddenIsIrrelevant, IndexInstallable,
           ServerLatestIsNewest
  <1>1. NothingLeaks BY OnlyReadable DEF NothingLeaks
  <1>2. ReadableShown BY ReleasesShown DEF ReadableShown
  <1>3. HiddenIsIrrelevant BY HiddenChangesNothing DEF HiddenIsIrrelevant
  <1>4. IndexInstallable
    <2>1. case.ctx.kind \in {"anonymous", "user", "agent", "grant"} BY DEF ContextIsValid
    <2> QED BY <2>1, IndexAgrees DEF IndexInstallable
  <1>5. ServerLatestIsNewest BY ServerIsNewest DEF ServerLatestIsNewest
  <1> QED BY <1>1, <1>2, <1>3, <1>4, <1>5 DEF VisibilityIsRight

-------------------------------------------------------------------------------
(* Sources: versions, registries and what is installed from them *)

\* What ^y and ~y stand for (parse_constraint_expression).
LEMMA RangeComparators ==
  ASSUME NEW x, NEW y, NEW op \in {"^", "~"}
  PROVE  LET bound == IF op = "^" THEN CaretUpperBound(y) ELSE TildeUpperBound(y)
         IN  VersionSatisfies(x, {Token(op, y)}) <=> CompareVersions(x, y) >= 0 /\ CompareVersions(x, bound) < 0
  <1> DEFINE bound == IF op = "^" THEN CaretUpperBound(y) ELSE TildeUpperBound(y)
  <1>1. Comparators({Token(op, y)}) = {Token(">=", y), Token("<", bound)}
    <2>1. Token(op, y).op = op /\ Token(op, y).v = y BY DEF Token
    <2> QED BY <2>1 DEF Comparators
  <1> HIDE DEF bound
  <1>2. /\ Token(">=", y).op = ">=" /\ Token(">=", y).v = y
        /\ Token("<", bound).op = "<" /\ Token("<", bound).v = bound
    BY DEF Token
  <1>3. VersionSatisfies(x, {Token(op, y)}) <=> CompareVersions(x, y) >= 0 /\ CompareVersions(x, bound) < 0
    BY <1>1, <1>2 DEF VersionSatisfies
  <1> QED BY <1>3 DEF bound

\* A release is before another release when its numbers are.
LEMMA ReleaseBefore ==
  ASSUME NEW x \in VersionType, x.pre = <<>>, NEW a \in Nat, NEW b \in Nat, NEW c \in Nat
  PROVE  /\ Version(a, b, c, <<>>) \in VersionType
         /\ CompareVersions(x, Version(a, b, c, <<>>)) < 0 <=> CoreBefore(x.core, <<a, b, c>>)
  <1> DEFINE y == Version(a, b, c, <<>>)
  <1>1. y \in VersionType /\ y.core = <<a, b, c>> /\ y.pre = <<>> BY DEF Version, VersionType
  <1> HIDE DEF y
  <1>2. ~Precedes(<<>>, <<>>) BY DEF Precedes
  <1>3. CompareVersions(x, y) \in {-1, 0, 1} /\ (CompareVersions(x, y) = -1 <=> VersionBefore(x, y))
    BY <1>1, CompareIsBefore
  <1>4. VersionBefore(x, y) <=> CoreBefore(x.core, <<a, b, c>>) BY <1>1, <1>2 DEF VersionBefore
  <1> QED BY <1>1, <1>3, <1>4 DEF y

\* The first of the numbers of two versions are equal.
LEMMA StartsAgree ==
  ASSUME NEW x \in Nat \X Nat \X Nat, NEW y \in Nat \X Nat \X Nat, NEW n \in 1 .. 3
  PROVE  SubSeq(x, 1, n) = SubSeq(y, 1, n) <=> \A k \in 1 .. n : x[k] = y[k]
  <1>1. x \in Seq(Nat) /\ y \in Seq(Nat) /\ Len(x) = 3 /\ Len(y) = 3
    <2>1. \A a, b, c \in Nat : <<a, b, c>> \in Seq(Nat) /\ Len(<<a, b, c>>) = 3 OBVIOUS
    <2>2. /\ x = <<x[1], x[2], x[3]>> /\ y = <<y[1], y[2], y[3]>>
          /\ x[1] \in Nat /\ x[2] \in Nat /\ x[3] \in Nat /\ y[1] \in Nat /\ y[2] \in Nat /\ y[3] \in Nat
      OBVIOUS
    <2> QED BY <2>1, <2>2
  <1>2. ASSUME NEW z \in Seq(Nat), Len(z) = 3
        PROVE  /\ SubSeq(z, 1, n) \in Seq(Nat) /\ Len(SubSeq(z, 1, n)) = n
               /\ \A k \in 1 .. n : SubSeq(z, 1, n)[k] = z[k]
    <2>1. 1 \in Int /\ n \in Int /\ 1 <= n /\ n \in 1 .. Len(z) BY <1>2
    <2>2. \A k \in 1 .. n : z[k] \in Nat
      <3> TAKE k \in 1 .. n
      <3>1. k \in 1 .. Len(z) BY <1>2
      <3> QED BY <3>1, ElementOfSeq
    <2>3. /\ SubSeq(z, 1, n) \in Seq(Nat) /\ Len(SubSeq(z, 1, n)) = n
          /\ \A k \in 1 .. n : SubSeq(z, 1, n)[k] = z[k]
      BY <2>1, <2>2, SubSeqProperties
    <2> QED BY <2>3
  <1>3. \A k \in 1 .. n : SubSeq(x, 1, n)[k] = x[k] /\ SubSeq(y, 1, n)[k] = y[k] BY <1>1, <1>2
  <1>4. /\ SubSeq(x, 1, n) \in Seq(Nat) /\ Len(SubSeq(x, 1, n)) = n
        /\ SubSeq(y, 1, n) \in Seq(Nat) /\ Len(SubSeq(y, 1, n)) = n
    BY <1>1, <1>2
  <1>5. SubSeq(x, 1, n) = SubSeq(y, 1, n) => \A k \in 1 .. n : x[k] = y[k] BY <1>3
  <1>6. (\A k \in 1 .. n : x[k] = y[k]) => SubSeq(x, 1, n) = SubSeq(y, 1, n) BY <1>3, <1>4, SeqEqual
  <1> QED BY <1>5, <1>6

\* Caret and tilde ranges (caret_upper_bound, tilde_upper_bound) admit among the releases exactly
\* the later ones that agree on the numbers they pin, for all versions.
THEOREM RangesNeverBreakAnything ==
  ASSUME NEW x \in VersionType, NEW y \in VersionType
  PROVE  RangesNeverBreak(x, y)
  <1> SUFFICES ASSUME x.pre = <<>> PROVE RangesNeverBreak(x, y)
    BY DEF RangesNeverBreak
  <1> DEFINE a == x.core
             b == y.core
  <1>1. /\ a \in Nat \X Nat \X Nat /\ b \in Nat \X Nat \X Nat
        /\ a[1] \in Nat /\ a[2] \in Nat /\ a[3] \in Nat /\ b[1] \in Nat /\ b[2] \in Nat /\ b[3] \in Nat
    BY DEF VersionType
  <1> HIDE DEF a, b
  <1>2. CompareVersions(x, y) >= 0 => a = b \/ CoreBefore(b, a)
    <2>1. CompareVersions(x, y) >= 0 => x = y \/ VersionBefore(y, x) BY CompareIsBefore
    <2> QED BY <2>1 DEF VersionBefore, a, b
  <1>3. CompareVersions(x, y) >= 0 =>
          (CompareVersions(x, TildeUpperBound(y)) < 0 <=> \A k \in 1 .. 2 : a[k] = b[k])
    <2>1. TildeUpperBound(y) = Version(b[1], b[2] + 1, 0, <<>>) BY DEF TildeUpperBound, b
    <2>2. CompareVersions(x, TildeUpperBound(y)) < 0 <=> CoreBefore(a, <<b[1], b[2] + 1, 0>>)
      <3>1. x.pre = <<>> /\ b[1] \in Nat /\ b[2] + 1 \in Nat /\ 0 \in Nat BY <1>1
      <3> QED BY <2>1, <3>1, ReleaseBefore DEF a
    <2>3. CoreBefore(a, <<b[1], b[2] + 1, 0>>) <=> a[1] < b[1] \/ (a[1] = b[1] /\ a[2] <= b[2])
      BY <1>1 DEF CoreBefore
    <2>4. (\A k \in 1 .. 2 : a[k] = b[k]) <=> a[1] = b[1] /\ a[2] = b[2] OBVIOUS
    <2> QED BY <1>1, <1>2, <2>2, <2>3, <2>4 DEF CoreBefore
  <1>4. CompareVersions(x, y) >= 0 =>
          (CompareVersions(x, CaretUpperBound(y)) < 0 <=> \A k \in 1 .. Pinned(y) : a[k] = b[k])
    <2>1. CASE b[1] > 0
      <3>1. CaretUpperBound(y) = Version(b[1] + 1, 0, 0, <<>>) /\ Pinned(y) = 1 BY <2>1 DEF CaretUpperBound, Pinned, b
      <3>2. CompareVersions(x, CaretUpperBound(y)) < 0 <=> CoreBefore(a, <<b[1] + 1, 0, 0>>)
        <4>1. x.pre = <<>> /\ b[1] + 1 \in Nat /\ 0 \in Nat BY <1>1
        <4> QED BY <3>1, <4>1, ReleaseBefore DEF a
      <3>3. CoreBefore(a, <<b[1] + 1, 0, 0>>) <=> a[1] <= b[1] BY <1>1 DEF CoreBefore
      <3>4. (\A k \in 1 .. 1 : a[k] = b[k]) <=> a[1] = b[1] OBVIOUS
      <3> QED BY <1>1, <1>2, <3>1, <3>2, <3>3, <3>4 DEF CoreBefore
    <2>2. CASE b[1] = 0 /\ b[2] > 0
      <3>1. CaretUpperBound(y) = Version(0, b[2] + 1, 0, <<>>) /\ Pinned(y) = 2 BY <2>2 DEF CaretUpperBound, Pinned, b
      <3>2. CompareVersions(x, CaretUpperBound(y)) < 0 <=> CoreBefore(a, <<0, b[2] + 1, 0>>)
        <4>1. x.pre = <<>> /\ b[2] + 1 \in Nat /\ 0 \in Nat BY <1>1
        <4> QED BY <3>1, <4>1, ReleaseBefore DEF a
      <3>3. CoreBefore(a, <<0, b[2] + 1, 0>>) <=> a[1] = 0 /\ a[2] <= b[2] BY <1>1 DEF CoreBefore
      <3>4. (\A k \in 1 .. 2 : a[k] = b[k]) <=> a[1] = b[1] /\ a[2] = b[2] OBVIOUS
      <3> QED BY <1>1, <1>2, <2>2, <3>1, <3>2, <3>3, <3>4 DEF CoreBefore
    <2>3. CASE b[1] = 0 /\ b[2] = 0
      <3>1. CaretUpperBound(y) = Version(0, 0, b[3] + 1, <<>>) /\ Pinned(y) = 3 BY <2>3 DEF CaretUpperBound, Pinned, b
      <3>2. CompareVersions(x, CaretUpperBound(y)) < 0 <=> CoreBefore(a, <<0, 0, b[3] + 1>>)
        <4>1. x.pre = <<>> /\ b[3] + 1 \in Nat /\ 0 \in Nat BY <1>1
        <4> QED BY <3>1, <4>1, ReleaseBefore DEF a
      <3>3. CoreBefore(a, <<0, 0, b[3] + 1>>) <=> a[1] = 0 /\ a[2] = 0 /\ a[3] <= b[3] BY <1>1 DEF CoreBefore
      <3>4. (\A k \in 1 .. 3 : a[k] = b[k]) <=> a[1] = b[1] /\ a[2] = b[2] /\ a[3] = b[3] OBVIOUS
      <3>5. a = b => a[1] = b[1] /\ a[2] = b[2] /\ a[3] = b[3] OBVIOUS
      <3>6. CompareVersions(x, y) >= 0 =>
              (CoreBefore(a, <<0, 0, b[3] + 1>>) <=> a[1] = b[1] /\ a[2] = b[2] /\ a[3] = b[3])
        BY <1>1, <1>2, <2>3, <3>3, <3>5 DEF CoreBefore
      <3> QED BY <3>1, <3>2, <3>4, <3>6
    <2> QED BY <1>1, <2>1, <2>2, <2>3
  <1>5. Pinned(y) \in 1 .. 3 BY DEF Pinned
  <1>6. SubSeq(a, 1, Pinned(y)) = SubSeq(b, 1, Pinned(y)) <=> \A k \in 1 .. Pinned(y) : a[k] = b[k]
    BY <1>1, <1>5, StartsAgree
  <1>7. SubSeq(a, 1, 2) = SubSeq(b, 1, 2) <=> \A k \in 1 .. 2 : a[k] = b[k] BY <1>1, StartsAgree
  <1>8. /\ VersionSatisfies(x, {Token("^", y)}) <=> CompareVersions(x, y) >= 0 /\ CompareVersions(x, CaretUpperBound(y)) < 0
        /\ VersionSatisfies(x, {Token("~", y)}) <=> CompareVersions(x, y) >= 0 /\ CompareVersions(x, TildeUpperBound(y)) < 0
    BY RangeComparators
  <1> QED BY <1>3, <1>4, <1>6, <1>7, <1>8 DEF RangesNeverBreak, a, b

-------------------------------------------------------------------------------
(* Registries *)

\* Parts of one character each are compared as text just as compare_prerelease compares them.
LEMMA CharactersDecide ==
  ASSUME NEW a \in Part, NEW b \in Part, a.word \/ a.rank <= 9, b.word \/ b.rank <= 9
  PROVE  CompareCharacters(a, b) = ComparePart(a, b)
  <1> DEFINE C(p) == IF p.word THEN 20 + p.rank ELSE 1 + p.rank
             l == Characters(a)
             r == Characters(b)
             differ == {n \in 1 .. 1 : Sign(l[n], r[n]) # 0}
  <1>1. a.word \in BOOLEAN /\ b.word \in BOOLEAN /\ a.rank \in Nat /\ b.rank \in Nat BY DEF Part
  <1>2. l = <<C(a)>> /\ r = <<C(b)>> BY <1>1 DEF Characters
  <1>3. Len(l) = 1 /\ Len(r) = 1 /\ l[1] = C(a) /\ r[1] = C(b) BY <1>2
  <1>4. C(a) \in Int /\ C(b) \in Int BY <1>1
  <1>5. Sign(C(a), C(b)) = ComparePart(a, b)
    BY <1>1 DEF Sign, ComparePart
  <1> HIDE DEF l, r, C
  <1>6. FirstDifference(l, r, Sign) = Sign(l[1], r[1])
    <2>1. FirstDifference(l, r, Sign)
            = IF differ = {} THEN 0
              ELSE LET n == CHOOSE n \in differ : \A k \in differ : n <= k IN Sign(l[n], r[n])
      BY <1>3 DEF FirstDifference
    <2>2. CASE Sign(l[1], r[1]) = 0
      <3>1. differ = {} BY <2>2
      <3> QED BY <2>1, <2>2, <3>1
    <2>3. CASE Sign(l[1], r[1]) # 0
      <3>1. differ = {1} BY <2>3
      <3>2. (CHOOSE n \in differ : \A k \in differ : n <= k) = 1 BY <3>1
      <3> QED BY <2>1, <3>1, <3>2
    <2> QED BY <2>2, <2>3
  <1>7. Sign(1, 1) = 0 BY DEF Sign
  <1>8. CompareCharacters(a, b)
          = IF FirstDifference(l, r, Sign) # 0 THEN FirstDifference(l, r, Sign) ELSE Sign(Len(l), Len(r))
    BY DEF CompareCharacters, l, r
  <1> QED BY <1>3, <1>5, <1>6, <1>7, <1>8

\* The default version of an index (semver_key) is the installer's newest (compare_versions), for
\* all versions but pre-releases with a number above nine.
THEOREM KeysOrder ==
  ASSUME NEW left \in VersionType, NEW right \in VersionType
  PROVE  KeysAgree(left, right)
  <1> DEFINE l == left.pre
             r == right.pre
             common == 1 .. (IF Len(l) < Len(r) THEN Len(l) ELSE Len(r))
             text == {n \in common : CompareCharacters(l[n], r[n]) # 0}
             parts == {n \in common : ComparePart(l[n], r[n]) # 0}
  <1>1. l \in Seq(Part) /\ r \in Seq(Part) /\ Len(l) \in Nat /\ Len(r) \in Nat BY DEF VersionType
  <1>2. (l = <<>> <=> Len(l) = 0) /\ (r = <<>> <=> Len(r) = 0) BY <1>1
  <1>3. ASSUME left.core # right.core PROVE CompareSemverKeys(left, right) = CompareVersions(left, right)
    BY <1>3 DEF CompareSemverKeys, CompareVersions
  <1>4. ASSUME left.core = right.core, l = <<>>, r # <<>>
        PROVE  CompareSemverKeys(left, right) = CompareVersions(left, right)
    <2>1. CompareSemverKeys(left, right) = 1 BY <1>4 DEF CompareSemverKeys
    <2>2. CompareVersions(left, right) = Sign(Len(r), Len(l)) BY <1>4 DEF CompareVersions, ComparePrerelease
    <2> QED BY <1>1, <1>2, <1>4, <2>1, <2>2 DEF Sign
  <1>5. ASSUME left.core = right.core, l # <<>>, r = <<>>
        PROVE  CompareSemverKeys(left, right) = CompareVersions(left, right)
    <2>1. CompareSemverKeys(left, right) = -1 BY <1>5 DEF CompareSemverKeys
    <2>2. CompareVersions(left, right) = Sign(Len(r), Len(l)) BY <1>5 DEF CompareVersions, ComparePrerelease
    <2> QED BY <1>1, <1>2, <1>5, <2>1, <2>2 DEF Sign
  <1>6. ASSUME left.core = right.core, l = <<>>, r = <<>>
        PROVE  CompareSemverKeys(left, right) = CompareVersions(left, right)
    <2>1. text = {} BY <1>2, <1>6
    <2>2. FirstDifference(l, r, CompareCharacters) = 0 BY <2>1 DEF FirstDifference
    <2>3. CompareText(l, r) = 0 BY <1>2, <1>6, <2>2 DEF CompareText, Sign
    <2>4. CompareVersions(left, right) = 0 BY <1>2, <1>6 DEF CompareVersions, ComparePrerelease, Sign
    <2>5. CompareSemverKeys(left, right) = CompareText(l, r) BY <1>6 DEF CompareSemverKeys
    <2> QED BY <2>3, <2>4, <2>5
  <1>7. ASSUME left.core = right.core, l # <<>>, r # <<>>,
               ~\E p \in Range(l) \cup Range(r) : ~p.word /\ p.rank > 9
        PROVE  CompareSemverKeys(left, right) = CompareVersions(left, right)
    <2>1. ASSUME NEW s \in {l, r}, NEW n \in 1 .. Len(s) PROVE s[n] \in Part /\ (s[n].word \/ s[n].rank <= 9)
      <3>1. s \in Seq(Part) BY <1>1
      <3>2. s[n] \in Part BY <3>1, ElementOfSeq
      <3>3. s[n] \in Range(s)
        <4>1. n \in DOMAIN s BY <3>1
        <4> QED BY <4>1 DEF Range
      <3>4. ~(~s[n].word /\ s[n].rank > 9) BY <1>7, <3>3
      <3> QED BY <3>2, <3>4 DEF Part
    <2>2. \A n \in common : CompareCharacters(l[n], r[n]) = ComparePart(l[n], r[n])
      <3> TAKE n \in common
      <3>1. n \in 1 .. Len(l) /\ n \in 1 .. Len(r) BY <1>1
      <3>2. l[n] \in Part /\ (l[n].word \/ l[n].rank <= 9) /\ r[n] \in Part /\ (r[n].word \/ r[n].rank <= 9)
        BY <2>1, <3>1
      <3> QED BY <3>2, CharactersDecide
    <2>3. text = parts BY <2>2
    <2> DEFINE first(S) == CHOOSE n \in S : \A k \in S : n <= k
    <2>4. /\ FirstDifference(l, r, CompareCharacters)
               = IF text = {} THEN 0 ELSE CompareCharacters(l[first(text)], r[first(text)])
          /\ FirstDifference(l, r, ComparePart) = IF parts = {} THEN 0 ELSE ComparePart(l[first(parts)], r[first(parts)])
      BY DEF FirstDifference
    <2>5. parts # {} => first(parts) \in common
      <3>1. parts \in SUBSET Nat /\ parts \subseteq common OBVIOUS
      <3> HIDE DEF parts
      <3>2. parts # {} => \E n \in parts : \A k \in parts : n <= k BY <3>1, LeastNumber
      <3>3. parts # {} => first(parts) \in parts BY <3>2
      <3> QED BY <3>1, <3>3
    <2> HIDE DEF first, text, parts, common
    <2>6. FirstDifference(l, r, CompareCharacters) = FirstDifference(l, r, ComparePart)
      BY <2>2, <2>3, <2>4, <2>5
    <2>7. CompareSemverKeys(left, right) = CompareText(l, r) /\ CompareVersions(left, right) = ComparePrerelease(l, r)
      BY <1>7 DEF CompareSemverKeys, CompareVersions
    <2> QED BY <1>7, <2>6, <2>7 DEF CompareText, ComparePrerelease
  <1> HIDE DEF l, r
  <1>8. CompareSemverKeys(left, right) # CompareVersions(left, right) =>
          /\ left.core = right.core /\ l # <<>> /\ r # <<>>
          /\ \E p \in Range(l) \cup Range(r) : ~p.word /\ p.rank > 9
    BY <1>3, <1>4, <1>5, <1>6, <1>7
  <1> QED BY <1>8 DEF KeysAgree, l, r

\* What validate_registry_config accepts of a registry's words, and a number for its age.
RegistryType(r) ==
    /\ r.kind \in {"git", "local", "http"} /\ r.trust \in {"private", "trusted", "public", "untrusted"}
    /\ r.update \in {"", "local-only", "track", "pinned", "remote-only"}
    /\ r.pin.mode \in {"branch", "tag", "commit"}
    /\ r.priority \in Int /\ r.age \in Int /\ r.refresh.interval \in Int /\ r.refresh.max \in Int

\* Validation (registry/policy.py) and sync (registry/sync.py) agree, for every registry.
THEOREM SyncAgrees ==
  ASSUME NEW r, RegistryType(r)
  PROVE  SyncAgreesWithPolicy(r)
  <1> DEFINE got == SyncedTo(r)[1]
             ref == PinRef(r.pin)
  <1> SUFFICES ASSUME r.enabled, RegistryValid(r)
               PROVE  /\ got = "refused" => \/ r.kind = "git" /\ UpdateMode(r) = "remote-only"
                                            \/ r.kind = "local" /\ r.url \notin AllowedHosts(r)
                      /\ got = "branch" => r.trust \in {"private", "trusted"} /\ r.mode # "federated" /\ r.pin.mode = "branch"
                      /\ r.kind = "git" /\ (r.trust = "untrusted" \/ r.checkout = "root") => got = "nothing"
    BY DEF SyncAgreesWithPolicy
  <1>0. ~(~r.enabled \/ ~RegistryValid(r)) OBVIOUS
  <1>4. \A a, b : <<a>>[1] = a /\ <<a, b>>[1] = a OBVIOUS
  <1>1. CASE r.kind = "http"
    <2>1. SyncedTo(r) = <<"catalogs">> BY <1>0, <1>1 DEF SyncedTo
    <2>2. got = "catalogs" BY <1>4, <2>1
    <2> HIDE DEF got
    <2> QED BY <1>1, <2>2
  <1>2. CASE r.kind = "local"
    <2>1. SyncedTo(r) = IF r.url # "" /\ r.url \notin AllowedHosts(r) THEN <<"refused">> ELSE <<"nothing">>
      BY <1>0, <1>2 DEF SyncedTo
    <2>3. got = "nothing" \/ (got = "refused" /\ r.url \notin AllowedHosts(r)) BY <1>4, <2>1
    <2> HIDE DEF got
    <2> QED BY <1>2, <2>3
  <1>3. CASE r.kind = "git"
    <2>1. /\ r.update # "" /\ UpdateMode(r) = r.update
          /\ r.update = "track" => r.pin.mode = "branch"
          /\ r.update = "pinned" => r.pin.mode \in {"tag", "commit"}
          /\ (r.update = "local-only") = (r.checkout # "")
          /\ r.trust = "public" => r.update # "track"
          /\ r.trust = "untrusted" => r.update = "local-only"
      BY <1>3 DEF RegistryValid, GitUpdateValid, UpdateMode
    <2>2. r.mode = "federated" => r.update # "track"
      BY <1>3, <2>1 DEF RegistryValid, FederationValid
    <2>3. ~(r.url # "" /\ r.url \notin AllowedHosts(r)) /\ ref \subseteq AllowedRefs(r)
      BY <1>3 DEF RegistryValid, GitPinValid
    <2>4. r.pin.mode = "branch" => ref # {} BY DEF PinRef
    <2>6. r.update \in {"local-only", "track", "pinned", "remote-only"} BY <2>1 DEF RegistryType
    <2>7. ASSUME r.update = "local-only" PROVE SyncedTo(r) = <<"nothing">>
      BY <1>0, <1>3, <2>1, <2>3, <2>7 DEF SyncedTo
    <2>8. ASSUME r.update = "track" PROVE SyncedTo(r) = <<"branch", PinName(r.pin)>>
      BY <1>0, <1>3, <2>1, <2>3, <2>4, <2>8 DEF SyncedTo
    <2>9. ASSUME r.update = "pinned"
          PROVE  SyncedTo(r) \in {<<"tag", PinName(r.pin)>>, <<"commit", PinName(r.pin)>>}
      BY <1>0, <1>3, <2>1, <2>3, <2>9 DEF SyncedTo
    <2>10. \/ r.update = "local-only" /\ got = "nothing"
           \/ r.update = "track" /\ got = "branch"
           \/ r.update = "pinned" /\ got \in {"tag", "commit"}
           \/ r.update = "remote-only"
      BY <1>4, <2>6, <2>7, <2>8, <2>9
    <2> HIDE DEF got, ref
    <2>11. r.update = "track" => r.trust \in {"private", "trusted"} BY <2>1 DEF RegistryType
    <2>12. r.update = "remote-only" => got # "branch"
      BY <1>0, <1>3, <1>4, <2>1, <2>3 DEF SyncedTo, got, ref
    <2>13. got = "refused" => r.kind = "git" /\ UpdateMode(r) = "remote-only" BY <1>3, <2>1, <2>10
    <2>14. got = "branch" => r.trust \in {"private", "trusted"} /\ r.mode # "federated" /\ r.pin.mode = "branch"
      BY <2>1, <2>2, <2>10, <2>11, <2>12
    <2>15. r.kind = "git" /\ (r.trust = "untrusted" \/ r.checkout = "root") => got = "nothing"
      BY <2>1, <2>10
    <2> QED BY <2>13, <2>14, <2>15
  <1> QED BY <1>1, <1>2, <1>3 DEF RegistryType

\* What is resolved is a candidate the registries offer, of the version or stage asked for.
LEMMA ResolvedIsCandidate ==
  ASSUME NEW regs, NEW ask, NEW x \in Resolve(regs, ask)
  PROVE  /\ x \in Matching(LoadCandidates(regs, ask), ask)
         /\ ask.v = 0 => x.stage = "active"
         /\ ask.v # 0 => x.v = ask.v
  <1> DEFINE items == Matching(LoadCandidates(regs, ask), ask)
  <1>1. x \in SelectCandidate(items, ask) BY DEF Resolve
  <1> HIDE DEF items
  <1>2. CASE ask.v = 0 BY <1>1, <1>2 DEF SelectCandidate, FirstBy, items
  <1>3. CASE ask.v # 0 /\ SnapshotsOf(items, ask) # {}
    BY <1>1, <1>3 DEF SelectCandidate, FirstBy, SnapshotsOf, items
  <1>4. CASE ask.v # 0 /\ SnapshotsOf(items, ask) = {} BY <1>1, <1>4 DEF SelectCandidate, FirstBy, items
  <1> QED BY <1>2, <1>3, <1>4

\* What scan_registry makes: an item of every distribution, and of every directory that has none.
LEMMA ScannedItem ==
  ASSUME NEW r, NEW x \in ScanRegistry(r)
  PROVE  \/ \E m \in r.dists : \E pub \in Federated(r, m.pub) :
               \/ x = SourceItem(r, m.pub, pub, m.v, IF m.v = r.latest THEN "active" ELSE "archived", {m}, <<>>, m.at, 0)
               \/ r.kind # "http" /\ x = SourceItem(r, m.pub, pub, m.v, m.status, {m}, <<>>, m.at, 0)
         \/ \E d \in r.dirs : \E pub \in Federated(r, d.pub) :
               \/ \E m \in DistributionOf(r, d) : x = SourceItem(r, d.pub, pub, d.v, m.status, {m}, d.snap, d.at, d.dir)
               \/ DistributionOf(r, d) = {} /\ x = SourceItem(r, d.pub, pub, d.v, d.stage, {}, d.snap, d.at, d.dir)
  <1>1. CASE r.kind = "http"
    <2>1. x \in HttpItems(r) BY <1>1 DEF ScanRegistry
    <2>2. PICK m \in r.dists :
            x \in {SourceItem(r, m.pub, pub, m.v, IF m.v = r.latest THEN "active" ELSE "archived", {m}, <<>>, m.at, 0) :
                     pub \in Federated(r, m.pub)}
      BY <2>1, Zenon DEF HttpItems
    <2>3. PICK pub \in Federated(r, m.pub) :
            x = SourceItem(r, m.pub, pub, m.v, IF m.v = r.latest THEN "active" ELSE "archived", {m}, <<>>, m.at, 0)
      BY <2>2
    <2> QED BY <2>3, Zenon
  <1>2. CASE r.kind # "http" /\ x \in DistributionItems(r)
    <2>1. PICK m \in r.dists :
            x \in {SourceItem(r, m.pub, pub, m.v, m.status, {m}, <<>>, m.at, 0) : pub \in Federated(r, m.pub)}
      BY <1>2, Zenon DEF DistributionItems
    <2>2. PICK pub \in Federated(r, m.pub) : x = SourceItem(r, m.pub, pub, m.v, m.status, {m}, <<>>, m.at, 0)
      BY <2>1
    <2> QED BY <1>2, <2>2, Zenon
  <1>3. CASE x \in DirectoryItems(r)
    <2> DEFINE F(d, pub, m) == SourceItem(r, d.pub, pub, d.v, m.status, {m}, d.snap, d.at, d.dir)
               G(d, pub) == SourceItem(r, d.pub, pub, d.v, d.stage, {}, d.snap, d.at, d.dir)
               released(d) == {F(d, pub, m) : pub \in Federated(r, d.pub), m \in DistributionOf(r, d)}
               unreleased(d) == {G(d, pub) : pub \in {p \in Federated(r, d.pub) : DistributionOf(r, d) = {}}}
    <2>1. DirectoryItems(r) = UNION {released(d) \cup unreleased(d) : d \in r.dirs} BY DEF DirectoryItems
    <2> HIDE DEF F, G
    <2>2. PICK d \in r.dirs : x \in released(d) \/ x \in unreleased(d)
      <3> HIDE DEF released, unreleased
      <3> QED BY <1>3, <2>1
    <2>3. ASSUME x \in released(d)
          PROVE  \E pub \in Federated(r, d.pub) : \E m \in DistributionOf(r, d) : x = F(d, pub, m)
      BY <2>3
    <2>4. ASSUME x \in unreleased(d)
          PROVE  \E pub \in Federated(r, d.pub) : DistributionOf(r, d) = {} /\ x = G(d, pub)
      BY <2>4
    <2>5. \E pub \in Federated(r, d.pub) :
             (\E m \in DistributionOf(r, d) : x = F(d, pub, m)) \/ (DistributionOf(r, d) = {} /\ x = G(d, pub))
      <3> HIDE DEF released, unreleased
      <3> QED BY <2>2, <2>3, <2>4
    <2> QED BY <2>5, Zenon DEF F, G
  <1> QED BY <1>1, <1>2, <1>3 DEF ScanRegistry

\* A candidate is what one registry in use holds, as it may be called there.
LEMMA CandidateIsHeld ==
  ASSUME NEW r, NEW x \in ScanRegistry(r)
  PROVE  /\ x.reg = r.name /\ x.priority = r.priority
         /\ x.pub \in Federated(r, x.upstream) /\ x.v \in Holds(r, x.upstream)
         /\ x.manifest = {} \/ \E m \in r.dists : x.manifest = {m} /\ m.pub = x.upstream /\ m.v = x.v
  <1>1. ASSUME NEW m \in r.dists, NEW pub \in Federated(r, m.pub), NEW stage, NEW snap, NEW at, NEW dir,
               x = SourceItem(r, m.pub, pub, m.v, stage, {m}, snap, at, dir)
        PROVE  /\ x.reg = r.name /\ x.priority = r.priority
               /\ x.pub \in Federated(r, x.upstream) /\ x.v \in Holds(r, x.upstream)
               /\ x.manifest = {} \/ \E n \in r.dists : x.manifest = {n} /\ n.pub = x.upstream /\ n.v = x.v
    <2>1. /\ x.reg = r.name /\ x.priority = r.priority /\ x.upstream = m.pub /\ x.pub = pub /\ x.v = m.v
          /\ x.manifest = {m}
      BY <1>1 DEF SourceItem
    <2>2. m.v \in Holds(r, m.pub) BY DEF Holds
    <2> QED BY <2>1, <2>2
  <1>2. ASSUME NEW m \in r.dists, NEW pub \in Federated(r, m.pub),
               \/ x = SourceItem(r, m.pub, pub, m.v, IF m.v = r.latest THEN "active" ELSE "archived", {m}, <<>>, m.at, 0)
               \/ r.kind # "http" /\ x = SourceItem(r, m.pub, pub, m.v, m.status, {m}, <<>>, m.at, 0)
        PROVE  /\ x.reg = r.name /\ x.priority = r.priority
               /\ x.pub \in Federated(r, x.upstream) /\ x.v \in Holds(r, x.upstream)
               /\ x.manifest = {} \/ \E n \in r.dists : x.manifest = {n} /\ n.pub = x.upstream /\ n.v = x.v
    <2> DEFINE stage == IF m.v = r.latest THEN "active" ELSE "archived"
    <2>1. x = SourceItem(r, m.pub, pub, m.v, stage, {m}, <<>>, m.at, 0) \/ x = SourceItem(r, m.pub, pub, m.v, m.status, {m}, <<>>, m.at, 0)
      BY <1>2
    <2> HIDE DEF stage
    <2> QED BY <1>1, <2>1
  <1>3. ASSUME NEW d \in r.dirs, NEW pub \in Federated(r, d.pub), NEW m \in DistributionOf(r, d),
               x = SourceItem(r, d.pub, pub, d.v, m.status, {m}, d.snap, d.at, d.dir)
        PROVE  /\ x.reg = r.name /\ x.priority = r.priority
               /\ x.pub \in Federated(r, x.upstream) /\ x.v \in Holds(r, x.upstream)
               /\ x.manifest = {} \/ \E n \in r.dists : x.manifest = {n} /\ n.pub = x.upstream /\ n.v = x.v
    <2>1. m \in r.dists /\ m.pub = d.pub /\ m.v = d.v BY DEF DistributionOf
    <2> QED BY <1>1, <1>3, <2>1
  <1>4. ASSUME NEW d \in r.dirs, NEW pub \in Federated(r, d.pub), DistributionOf(r, d) = {},
               x = SourceItem(r, d.pub, pub, d.v, d.stage, {}, d.snap, d.at, d.dir)
        PROVE  /\ x.reg = r.name /\ x.priority = r.priority
               /\ x.pub \in Federated(r, x.upstream) /\ x.v \in Holds(r, x.upstream)
               /\ x.manifest = {} \/ \E n \in r.dists : x.manifest = {n} /\ n.pub = x.upstream /\ n.v = x.v
    <2>1. /\ x.reg = r.name /\ x.priority = r.priority /\ x.upstream = d.pub /\ x.pub = pub /\ x.v = d.v
          /\ x.manifest = {}
      BY <1>4 DEF SourceItem
    <2>2. d.v \in Holds(r, d.pub) BY DEF Holds
    <2> QED BY <2>1, <2>2
  <1>5. \/ \E m \in r.dists : \E pub \in Federated(r, m.pub) :
              \/ x = SourceItem(r, m.pub, pub, m.v, IF m.v = r.latest THEN "active" ELSE "archived", {m}, <<>>, m.at, 0)
              \/ r.kind # "http" /\ x = SourceItem(r, m.pub, pub, m.v, m.status, {m}, <<>>, m.at, 0)
        \/ \E d \in r.dirs : \E pub \in Federated(r, d.pub) :
              \/ \E m \in DistributionOf(r, d) : x = SourceItem(r, d.pub, pub, d.v, m.status, {m}, d.snap, d.at, d.dir)
              \/ DistributionOf(r, d) = {} /\ x = SourceItem(r, d.pub, pub, d.v, d.stage, {}, d.snap, d.at, d.dir)
    BY ScannedItem
  <1> QED BY <1>2, <1>3, <1>4, <1>5

\* Where what is resolved comes from.
LEMMA ResolvedIsHeld ==
  ASSUME NEW regs, NEW ask, NEW x \in Resolve(regs, ask)
  PROVE  \E r \in Consulted(regs, ask) :
            /\ x \in ScanRegistry(r)
            /\ x.reg = r.name /\ x.priority = r.priority
            /\ x.pub \in Federated(r, x.upstream) /\ x.v \in Holds(r, x.upstream)
            /\ x.manifest = {} \/ \E m \in r.dists : x.manifest = {m} /\ m.pub = x.upstream /\ m.v = x.v
  <1>1. x \in LoadCandidates(regs, ask) BY ResolvedIsCandidate DEF Matching
  <1>2. PICK r \in Consulted(regs, ask) : x \in ScanRegistry(r) BY <1>1 DEF LoadCandidates
  <1> QED BY <1>2, CandidateIsHeld

\* Names of configured registries are unique (validate_registry_config).
NamedOnce(regs) == \A r, s \in regs : r.name = s.name => r = s

\* A cache serves exactly as long as its policy lets it (evaluate_refresh_status), whatever the
\* registries, their ages and the request.
THEOREM CachesAreFresh ==
  ASSUME NEW regs, NEW ask, NamedOnce(regs), \A r \in regs : RegistryType(r)
  PROVE  FreshEnough(regs, ask)
  <1> DEFINE remote(r) == r.kind = "git" /\ UpdateMode(r) # "local-only" /\ r.refresh.stale = "fail"
             within(r) == r.age >= 0 /\ r.age <= r.refresh.max
  <1>1. ASSUME NEW r \in regs, RegistryValid(r)
        PROVE  Blocked(r) <=> remote(r) /\ ~within(r)
    <2> DEFINE p == r.refresh
               state == FreshnessState(p, r.age)
    <2>1. p.interval \in Int /\ p.max \in Int /\ r.age \in Int BY DEF RegistryType
    <2>2. HasPolicy(p) => p.interval >= 1 /\ p.max >= p.interval /\ p.stale # ""
      BY <1>1 DEF RegistryValid, RefreshPolicyValid
    <2>3. p.stale = "fail" => HasPolicy(p) BY DEF HasPolicy
    <2> HIDE DEF p
    <2>4. /\ p.stale = "fail" => StaleState(p, "missing-state") = "stale-fail" /\ StaleState(p, "stale-ignored") = "stale-fail"
          /\ p.stale # "fail" => StaleState(p, "missing-state") # "stale-fail" /\ StaleState(p, "stale-ignored") # "stale-fail"
      BY DEF StaleState
    <2>5. HasPolicy(p) => (state = "stale-fail" <=> p.stale = "fail" /\ (r.age < 0 \/ r.age > p.max))
      <3> SUFFICES ASSUME HasPolicy(p) PROVE state = "stale-fail" <=> p.stale = "fail" /\ (r.age < 0 \/ r.age > p.max)
        OBVIOUS
      <3>5. p.interval >= 1 /\ p.max >= p.interval BY <2>2
      <3>1. p.max # 0 BY <2>1, <3>5
      <3>2. CASE r.age < 0
        <4>1. state = StaleState(p, "missing-state") BY <3>2 DEF FreshnessState
        <4> QED BY <2>4, <3>2, <4>1
      <3>3. CASE ~(r.age < 0) /\ r.age > p.max
        <4>1. state = StaleState(p, "stale-ignored") BY <3>1, <3>3 DEF FreshnessState
        <4> QED BY <2>4, <3>3, <4>1
      <3>4. CASE ~(r.age < 0) /\ ~(r.age > p.max)
        <4>1. state \in {"refresh-due", "fresh"} BY <3>4 DEF FreshnessState
        <4> QED BY <3>4, <4>1
      <3> QED BY <3>2, <3>3, <3>4
    <2>6. Blocked(r) <=> r.kind = "git" /\ UpdateMode(r) # "local-only" /\ HasPolicy(p) /\ state = "stale-fail"
      BY DEF Blocked, UsesRefreshCache, p
    <2>7. within(r) <=> r.age >= 0 /\ r.age <= p.max BY DEF p
    <2>8. remote(r) <=> r.kind = "git" /\ UpdateMode(r) # "local-only" /\ p.stale = "fail" BY DEF p
    <2> HIDE DEF state, within, remote
    <2> QED BY <2>1, <2>3, <2>5, <2>6, <2>7, <2>8
  <1>2. ASSUME NEW r \in regs, NEW x \in Resolve(regs, ask), x.reg = r.name
        PROVE  ~Blocked(r)
    <2>1. PICK s \in Consulted(regs, ask) : x.reg = s.name BY ResolvedIsHeld
    <2>2. s \in regs /\ ~Blocked(s) BY <2>1 DEF Consulted
    <2>3. s = r BY <1>2, <2>1, <2>2 DEF NamedOnce
    <2> QED BY <2>2, <2>3
  <1> HIDE DEF remote, within
  <1>3. \A r \in {r \in regs : RegistryValid(r)} :
          /\ (\E x \in Resolve(regs, ask) : x.reg = r.name) => (remote(r) => within(r))
          /\ Blocked(r) => remote(r) /\ ~within(r)
    BY <1>1, <1>2
  <1> QED BY <1>3 DEF FreshEnough, remote, within

\* What is installed is of the publisher and the version asked for and let in by its registry
\* (apply_registry_federation), for all registries and requests.
THEOREM AskedIsInstalled ==
  ASSUME NEW regs, NEW ask, NamedOnce(regs)
  PROVE  AskedAndAllowed(regs, ask)
  <1> SUFFICES ASSUME NEW x \in Resolve(regs, ask), NEW r \in regs, x.reg = r.name
               PROVE  /\ r.mode # "" /\ r.allowed # {} => x.upstream \in r.allowed
                      /\ ask.pub # "" => ask.pub = (IF r.mode = "" THEN x.upstream ELSE MapPublisher(r, x.upstream))
                      /\ x.v \in Holds(r, x.upstream)
                      /\ IF ask.v = 0 THEN x.stage = "active" ELSE x.v = ask.v
    BY DEF AskedAndAllowed
  <1>1. PICK s \in Consulted(regs, ask) :
          x.reg = s.name /\ x.pub \in Federated(s, x.upstream) /\ x.v \in Holds(s, x.upstream)
    BY ResolvedIsHeld
  <1>2. s = r BY <1>1 DEF Consulted, NamedOnce
  <1>3. /\ x \in Matching(LoadCandidates(regs, ask), ask)
        /\ ask.v = 0 => x.stage = "active"
        /\ ask.v # 0 => x.v = ask.v
    BY ResolvedIsCandidate
  <1>4. ask.pub # "" => x.pub = ask.pub BY <1>3 DEF Matching
  <1>5. x.pub \in Federated(r, x.upstream) /\ x.v \in Holds(r, x.upstream) BY <1>1, <1>2
  <1> QED BY <1>3, <1>4, <1>5 DEF Federated

\* A manifest is that of the version it is installed as (distribution_by_identity), for all registries.
THEOREM ManifestsFit ==
  ASSUME NEW regs, NEW ask
  PROVE  ManifestIsThisVersion(regs, ask)
  <1> SUFFICES ASSUME NEW x \in Resolve(regs, ask), NEW m \in x.manifest
               PROVE  x.manifest = {m} /\ m.pub = x.upstream /\ m.v = x.v
    BY DEF ManifestIsThisVersion
  <1>1. PICK r \in Consulted(regs, ask) :
          x.manifest = {} \/ \E n \in r.dists : x.manifest = {n} /\ n.pub = x.upstream /\ n.v = x.v
    BY ResolvedIsHeld
  <1> QED BY <1>1

\* What has a higher priority comes first, archived snapshots among themselves.
LEMMA PriorityFirst ==
  ASSUME NEW items, NEW y \in items, y.priority \in Int, NEW x, x.priority \in Int, x.priority < y.priority
  PROVE  x \notin FirstBy(items, CandidateSortKey) /\ x \notin FirstBy(items, ArchivedSnapshotSortKey)
  <1>1. -y.priority < -x.priority OBVIOUS
  <1>2. SortsBefore(CandidateSortKey(y), CandidateSortKey(x))
    <2>1. 1 \in DOMAIN CandidateSortKey(y) BY DEF CandidateSortKey
    <2>2. CandidateSortKey(y)[1] < CandidateSortKey(x)[1] BY <1>1 DEF CandidateSortKey
    <2> QED BY <2>1, <2>2 DEF SortsBefore
  <1>3. SortsBefore(ArchivedSnapshotSortKey(y), ArchivedSnapshotSortKey(x))
    <2>1. 1 \in DOMAIN ArchivedSnapshotSortKey(y) BY DEF ArchivedSnapshotSortKey
    <2>2. ArchivedSnapshotSortKey(y)[1] < ArchivedSnapshotSortKey(x)[1] BY <1>1 DEF ArchivedSnapshotSortKey
    <2> QED BY <2>1, <2>2 DEF SortsBefore
  <1> QED BY <1>2, <1>3 DEF FirstBy

\* Registries serve in the order of their priority (candidate_sort_key), whatever they offer.
THEOREM PriorityServes ==
  ASSUME NEW regs, NEW ask, \A r \in regs : r.priority \in Int
  PROVE  HighestPriorityServes(regs, ask)
  <1> SUFFICES ASSUME NEW x \in Resolve(regs, ask), NEW r \in regs, Resolve({r}, ask) # {}, x.priority < r.priority
               PROVE  x \in SnapshotsOf({x}, ask) /\ SnapshotsOf(Resolve({r}, ask), ask) = {}
    BY DEF HighestPriorityServes
  <1> DEFINE items == Matching(LoadCandidates(regs, ask), ask)
             snaps == SnapshotsOf(items, ask)
  <1>1. x.priority \in Int
    <2>1. PICK s \in Consulted(regs, ask) : x.priority = s.priority BY ResolvedIsHeld
    <2> QED BY <2>1 DEF Consulted
  <1>2. ASSUME NEW y \in Resolve({r}, ask)
        PROVE  /\ y \in items /\ y.priority = r.priority
               /\ ask.v = 0 => y.stage = "active"
               /\ ask.v # 0 => y.v = ask.v
    <2>1. /\ y \in Matching(LoadCandidates({r}, ask), ask)
          /\ ask.v = 0 => y.stage = "active"
          /\ ask.v # 0 => y.v = ask.v
      BY ResolvedIsCandidate
    <2>2. PICK s \in Consulted({r}, ask) : y.priority = s.priority BY ResolvedIsHeld
    <2>3. s = r BY <2>2 DEF Consulted
    <2>4. LoadCandidates({r}, ask) \subseteq LoadCandidates(regs, ask) BY DEF LoadCandidates, Consulted
    <2>5. y \in items BY <2>1, <2>4 DEF Matching
    <2> QED BY <2>1, <2>2, <2>3, <2>5
  <1>3. x \in SelectCandidate(items, ask) BY DEF Resolve
  <1>4. PICK y \in Resolve({r}, ask) : TRUE OBVIOUS
  <1> HIDE DEF items
  <1>5. ASSUME ask.v = 0 PROVE FALSE
    <2> DEFINE active == {z \in items : z.stage = "active"}
    <2>1. y \in active BY <1>2, <1>4, <1>5
    <2>2. x \in FirstBy(active, CandidateSortKey) BY <1>3, <1>5 DEF SelectCandidate
    <2> HIDE DEF active
    <2> QED BY <1>1, <1>2, <1>4, <2>1, <2>2, PriorityFirst
  <1>6. ASSUME ask.v # 0, snaps = {} PROVE FALSE
    <2> DEFINE held == {z \in items : z.v = ask.v}
    <2>1. y \in held BY <1>2, <1>4, <1>6
    <2>2. x \in FirstBy(held, CandidateSortKey) BY <1>3, <1>6 DEF SelectCandidate
    <2> HIDE DEF held
    <2> QED BY <1>1, <1>2, <1>4, <2>1, <2>2, PriorityFirst
  <1>7. ASSUME ask.v # 0, snaps # {}
        PROVE  x \in SnapshotsOf({x}, ask) /\ SnapshotsOf(Resolve({r}, ask), ask) = {}
    <2>1. x \in FirstBy(snaps, ArchivedSnapshotSortKey) BY <1>3, <1>7 DEF SelectCandidate
    <2>2. x \in snaps BY <2>1 DEF FirstBy
    <2>3. ASSUME NEW z \in SnapshotsOf(Resolve({r}, ask), ask) PROVE FALSE
      <3>1. z \in Resolve({r}, ask) BY DEF SnapshotsOf
      <3>2. z \in snaps /\ z.priority = r.priority BY <1>2, <3>1 DEF SnapshotsOf
      <3> HIDE DEF snaps
      <3> QED BY <1>1, <2>1, <3>2, PriorityFirst
    <2> QED BY <2>2, <2>3 DEF SnapshotsOf
  <1> QED BY <1>5, <1>6, <1>7

\* The image of a finite set under a function is finite.
LEMMA FiniteImage ==
  ASSUME NEW S, IsFiniteSet(S), NEW f
  PROVE  IsFiniteSet({f[x] : x \in S})
  <1> DEFINE T == {f[x] : x \in S}
             g == [x \in S |-> f[x]]
  <1>1. g \in [S -> T] OBVIOUS
  <1>2. \A y \in T : \E x \in S : g[x] = y OBVIOUS
  <1> HIDE DEF T, g
  <1>3. g \in Surjection(S, T) BY <1>1, <1>2 DEF Surjection
  <1> QED BY <1>3, FS_Surjection DEF T

\* Sorting by numbers is a strict order.
LEMMA SortsStrictly ==
  ASSUME NEW n \in Nat, NEW a \in Seq(Int), NEW b \in Seq(Int), NEW c \in Seq(Int), Len(a) = n, Len(b) = n, Len(c) = n
  PROVE  ~SortsBefore(a, a) /\ (SortsBefore(a, b) /\ SortsBefore(b, c) => SortsBefore(a, c))
  <1>1. /\ DOMAIN a = 1 .. n /\ DOMAIN b = 1 .. n /\ DOMAIN c = 1 .. n
        /\ \A k \in 1 .. n : a[k] \in Int /\ b[k] \in Int /\ c[k] \in Int
    <2>1. DOMAIN a = 1 .. n /\ DOMAIN b = 1 .. n /\ DOMAIN c = 1 .. n OBVIOUS
    <2> QED BY <2>1, ElementOfSeq
  <1>2. ~SortsBefore(a, a) BY <1>1 DEF SortsBefore
  <1>3. ASSUME NEW i \in 1 .. n, a[i] < b[i], \A m \in 1 .. i - 1 : a[m] = b[m],
               NEW j \in 1 .. n, b[j] < c[j], \A m \in 1 .. j - 1 : b[m] = c[m]
        PROVE  SortsBefore(a, c)
    <2> DEFINE k == IF i < j THEN i ELSE j
    <2>1. k \in 1 .. n /\ k <= i /\ k <= j /\ (k = i \/ k = j) OBVIOUS
    <2>2. k < i => k \in 1 .. i - 1 BY <2>1
    <2>3. k < j => k \in 1 .. j - 1 BY <2>1
    <2>4. k = i \/ k < i BY <2>1
    <2>5. k = j \/ k < j BY <2>1
    <2> HIDE DEF k
    <2>6. a[k] \in Int /\ b[k] \in Int /\ c[k] \in Int BY <1>1, <2>1
    <2>7. a[k] < b[k] \/ a[k] = b[k] BY <1>3, <2>2, <2>4
    <2>8. b[k] < c[k] \/ b[k] = c[k] BY <1>3, <2>3, <2>5
    <2>9. a[k] < b[k] \/ b[k] < c[k] BY <1>3, <2>1
    <2>10. a[k] < c[k] BY <2>6, <2>7, <2>8, <2>9
    <2>11. \A m \in 1 .. k - 1 : a[m] = c[m]
      <3> TAKE m \in 1 .. k - 1
      <3>1. m \in 1 .. i - 1 /\ m \in 1 .. j - 1 BY <2>1
      <3> QED BY <1>3, <3>1
    <2> QED BY <1>1, <2>1, <2>10, <2>11 DEF SortsBefore
  <1>4. ASSUME SortsBefore(a, b), SortsBefore(b, c) PROVE SortsBefore(a, c)
    <2>1. PICK i \in 1 .. n : a[i] < b[i] /\ \A m \in 1 .. i - 1 : a[m] = b[m] BY <1>1, <1>4 DEF SortsBefore
    <2>2. PICK j \in 1 .. n : b[j] < c[j] /\ \A m \in 1 .. j - 1 : b[m] = c[m] BY <1>1, <1>4 DEF SortsBefore
    <2> QED BY <1>3, <2>1, <2>2
  <1> QED BY <1>2, <1>4

\* Of finitely many candidates one is sorted first.
LEMMA OneIsFirst ==
  ASSUME NEW S, IsFiniteSet(S), S # {}, NEW n \in Nat, NEW k, \A x \in S : k[x] \in Seq(Int) /\ Len(k[x]) = n
  PROVE  \E x \in S : \A y \in S : ~SortsBefore(k[y], k[x])
  <1> DEFINE R == {p \in S \X S : SortsBefore(k[p[2]], k[p[1]])}
  <1>1. \A x, y \in S : <<x, y>> \in R <=> SortsBefore(k[y], k[x]) OBVIOUS
  <1> HIDE DEF R
  <1>2. \A x \in S : <<x, x>> \notin R BY <1>1, SortsStrictly
  <1>3. \A x, y, z \in S : SortsBefore(k[z], k[y]) /\ SortsBefore(k[y], k[x]) => SortsBefore(k[z], k[x])
    BY SortsStrictly
  <1>4. \A x, y, z \in S : <<x, y>> \in R /\ <<y, z>> \in R => <<x, z>> \in R BY <1>1, <1>3
  <1>5. PICK x \in S : \A y \in S : <<x, y>> \notin R BY <1>2, <1>4, LastExists
  <1> QED BY <1>1, <1>5

\* What a registry holds can be listed and sorted; a server has no directories here.
HeldType(r) ==
    /\ IsFiniteSet(r.dirs) /\ IsFiniteSet(r.dists) /\ r.priority \in Int
    /\ \A d \in r.dirs : d.v \in Nat \ {0} /\ d.at \in Int /\ d.dir \in Int
    /\ \A m \in r.dists : m.v \in Nat \ {0} /\ m.at \in Int
    /\ r.kind = "http" => r.dirs = {}

\* Items have numbers to sort them by.
LEMMA ItemNumbers ==
  ASSUME NEW r, HeldType(r), NEW x \in ScanRegistry(r)
  PROVE  x.priority \in Int /\ x.at \in Int /\ x.dir \in Int /\ x.v \in Nat \ {0}
  <1>1. ASSUME NEW m \in r.dists, NEW pub, NEW stage, x = SourceItem(r, m.pub, pub, m.v, stage, {m}, <<>>, m.at, 0)
        PROVE  x.at \in Int /\ x.dir \in Int
    <2>1. x.at = m.at /\ x.dir = 0 BY <1>1 DEF SourceItem
    <2> QED BY <2>1 DEF HeldType
  <1>2. ASSUME NEW d \in r.dirs, NEW pub, NEW stage, NEW manifest,
               x = SourceItem(r, d.pub, pub, d.v, stage, manifest, d.snap, d.at, d.dir)
        PROVE  x.at \in Int /\ x.dir \in Int
    <2>1. x.at = d.at /\ x.dir = d.dir BY <1>2 DEF SourceItem
    <2> QED BY <2>1 DEF HeldType
  <1>3. \/ \E m \in r.dists : \E pub \in Federated(r, m.pub) :
              \/ x = SourceItem(r, m.pub, pub, m.v, IF m.v = r.latest THEN "active" ELSE "archived", {m}, <<>>, m.at, 0)
              \/ r.kind # "http" /\ x = SourceItem(r, m.pub, pub, m.v, m.status, {m}, <<>>, m.at, 0)
        \/ \E d \in r.dirs : \E pub \in Federated(r, d.pub) :
              \/ \E m \in DistributionOf(r, d) : x = SourceItem(r, d.pub, pub, d.v, m.status, {m}, d.snap, d.at, d.dir)
              \/ DistributionOf(r, d) = {} /\ x = SourceItem(r, d.pub, pub, d.v, d.stage, {}, d.snap, d.at, d.dir)
    BY ScannedItem
  <1>4. x.at \in Int /\ x.dir \in Int
    <2>1. CASE \E m \in r.dists : \E pub \in Federated(r, m.pub) :
                 \/ x = SourceItem(r, m.pub, pub, m.v, IF m.v = r.latest THEN "active" ELSE "archived", {m}, <<>>, m.at, 0)
                 \/ r.kind # "http" /\ x = SourceItem(r, m.pub, pub, m.v, m.status, {m}, <<>>, m.at, 0)
      <3>1. PICK m \in r.dists : \E pub, stage : x = SourceItem(r, m.pub, pub, m.v, stage, {m}, <<>>, m.at, 0)
        BY <2>1
      <3> QED BY <1>1, <3>1
    <2>2. CASE \E d \in r.dirs : \E pub \in Federated(r, d.pub) :
              \/ \E m \in DistributionOf(r, d) : x = SourceItem(r, d.pub, pub, d.v, m.status, {m}, d.snap, d.at, d.dir)
              \/ DistributionOf(r, d) = {} /\ x = SourceItem(r, d.pub, pub, d.v, d.stage, {}, d.snap, d.at, d.dir)
      <3>1. PICK d \in r.dirs : \E pub, stage, manifest :
                x = SourceItem(r, d.pub, pub, d.v, stage, manifest, d.snap, d.at, d.dir)
        BY <2>2
      <3> QED BY <1>2, <3>1
    <2> QED BY <1>3, <2>1, <2>2
  <1>5. x.priority = r.priority /\ x.v \in Holds(r, x.upstream) BY CandidateIsHeld
  <1> QED BY <1>4, <1>5 DEF HeldType, Holds

\* What a registry offers can be listed.
LEMMA FiniteScan ==
  ASSUME NEW r, HeldType(r)
  PROVE  IsFiniteSet(ScanRegistry(r))
  <1> DEFINE name(pub) == IF r.mode = "" THEN pub ELSE MapPublisher(r, pub)
             F(m) == SourceItem(r, m.pub, name(m.pub), m.v, IF m.v = r.latest THEN "active" ELSE "archived", {m}, <<>>, m.at, 0)
             G(m) == SourceItem(r, m.pub, name(m.pub), m.v, m.status, {m}, <<>>, m.at, 0)
             H(d, m) == SourceItem(r, d.pub, name(d.pub), d.v, m.status, {m}, d.snap, d.at, d.dir)
             J(d) == SourceItem(r, d.pub, name(d.pub), d.v, d.stage, {}, d.snap, d.at, d.dir)
             f == [m \in r.dists |-> F(m)]
             g == [m \in r.dists |-> G(m)]
             h == [q \in r.dirs \X r.dists |-> H(q[1], q[2])]
             j == [d \in r.dirs |-> J(d)]
             A == {f[m] : m \in r.dists}
             B == {g[m] : m \in r.dists}
             C == {h[q] : q \in r.dirs \X r.dists}
             D == {j[d] : d \in r.dirs}
  <1>1. \A pub : Federated(r, pub) \subseteq {name(pub)} BY DEF Federated
  <1>2. IsFiniteSet(r.dirs) /\ IsFiniteSet(r.dists) BY DEF HeldType
  <1>3. IsFiniteSet(r.dirs \X r.dists) BY <1>2, FS_Product
  <1>4. IsFiniteSet(A) /\ IsFiniteSet(B) /\ IsFiniteSet(C) /\ IsFiniteSet(D)
    <2> HIDE DEF f, g, h, j
    <2> QED BY <1>2, <1>3, FiniteImage
  <1> HIDE DEF F, G, H, J
  <1>5. (\A m \in r.dists : F(m) \in A /\ G(m) \in B) /\ (\A d \in r.dirs : J(d) \in D)
    OBVIOUS
  <1>6. \A d \in r.dirs : \A m \in r.dists : H(d, m) \in C
    <2> TAKE d \in r.dirs
    <2> TAKE m \in r.dists
    <2>1. <<d, m>> \in r.dirs \X r.dists /\ h[<<d, m>>] = H(d, m) OBVIOUS
    <2> HIDE DEF h
    <2> QED BY <2>1
  <1> HIDE DEF name, A, B, C, D, f, g, h, j
  <1>7. ASSUME NEW x \in ScanRegistry(r) PROVE x \in A \cup B \cup C \cup D
    <2>1. \/ \E m \in r.dists : \E pub \in Federated(r, m.pub) :
                \/ x = SourceItem(r, m.pub, pub, m.v, IF m.v = r.latest THEN "active" ELSE "archived", {m}, <<>>, m.at, 0)
                \/ r.kind # "http" /\ x = SourceItem(r, m.pub, pub, m.v, m.status, {m}, <<>>, m.at, 0)
          \/ \E d \in r.dirs : \E pub \in Federated(r, d.pub) :
                \/ \E m \in DistributionOf(r, d) : x = SourceItem(r, d.pub, pub, d.v, m.status, {m}, d.snap, d.at, d.dir)
                \/ DistributionOf(r, d) = {} /\ x = SourceItem(r, d.pub, pub, d.v, d.stage, {}, d.snap, d.at, d.dir)
      BY ScannedItem
    <2>2. ASSUME NEW m \in r.dists, NEW pub \in Federated(r, m.pub),
                 \/ x = SourceItem(r, m.pub, pub, m.v, IF m.v = r.latest THEN "active" ELSE "archived", {m}, <<>>, m.at, 0)
                 \/ r.kind # "http" /\ x = SourceItem(r, m.pub, pub, m.v, m.status, {m}, <<>>, m.at, 0)
          PROVE  x \in A \cup B
      <3>1. pub = name(m.pub) BY <1>1
      <3>2. x = F(m) \/ x = G(m) BY <2>2, <3>1, Zenon DEF F, G
      <3> QED BY <1>5, <3>2
    <2>3. ASSUME NEW d \in r.dirs, NEW pub \in Federated(r, d.pub),
                 \/ \E m \in DistributionOf(r, d) : x = SourceItem(r, d.pub, pub, d.v, m.status, {m}, d.snap, d.at, d.dir)
                 \/ DistributionOf(r, d) = {} /\ x = SourceItem(r, d.pub, pub, d.v, d.stage, {}, d.snap, d.at, d.dir)
          PROVE  x \in C \cup D
      <3>1. pub = name(d.pub) BY <1>1
      <3>2. (\E m \in DistributionOf(r, d) : x = H(d, m)) \/ x = J(d) BY <2>3, <3>1, Zenon DEF H, J
      <3>3. DistributionOf(r, d) \subseteq r.dists BY DEF DistributionOf
      <3> QED BY <1>5, <1>6, <3>2, <3>3
    <2> QED BY <2>1, <2>2, <2>3
  <1>8. IsFiniteSet(A \cup B \cup C \cup D) BY <1>4, FS_Union
  <1>9. ScanRegistry(r) \in SUBSET (A \cup B \cup C \cup D) BY <1>7
  <1> QED BY <1>8, <1>9, FS_Subset

\* Registries as validate_registry_config and the scanners leave them.
RegistriesType(regs) ==
    /\ IsFiniteSet(regs) /\ NamedOnce(regs)
    /\ \A r \in regs : RegistryType(r) /\ HeldType(r)

\* The candidates can be sorted and one of them comes first.
LEMMA FirstCandidate ==
  ASSUME NEW regs, RegistriesType(regs), NEW ask, NEW S \in SUBSET LoadCandidates(regs, ask), S # {}
  PROVE  FirstBy(S, CandidateSortKey) # {} /\ FirstBy(S, ArchivedSnapshotSortKey) # {}
  <1> DEFINE used == Consulted(regs, ask)
             f == [r \in used |-> ScanRegistry(r)]
             k == [x \in S |-> CandidateSortKey(x)]
             l == [x \in S |-> ArchivedSnapshotSortKey(x)]
  <1>1. used \in SUBSET regs /\ IsFiniteSet(regs) BY DEF Consulted, RegistriesType
  <1>2. IsFiniteSet(used) BY <1>1, FS_Subset
  <1>3. LoadCandidates(regs, ask) = UNION {f[r] : r \in used} BY DEF LoadCandidates
  <1>4. \A r \in used : IsFiniteSet(f[r]) BY <1>1, FiniteScan DEF RegistriesType
  <1>5. IsFiniteSet({f[r] : r \in used})
    <2> HIDE DEF f, used
    <2> QED BY <1>2, FiniteImage
  <1>6. IsFiniteSet(LoadCandidates(regs, ask))
    <2>1. \A T \in {f[r] : r \in used} : IsFiniteSet(T) BY <1>4
    <2> HIDE DEF f, used
    <2> QED BY <1>3, <1>5, <2>1, FS_UNION
  <1>7. IsFiniteSet(S) BY <1>6, FS_Subset
  <1>8. \A x \in S : x.priority \in Int /\ x.at \in Int /\ x.dir \in Int
    <2> TAKE x \in S
    <2>1. PICK r \in used : x \in ScanRegistry(r) BY DEF LoadCandidates
    <2>2. HeldType(r) BY <1>1, <2>1 DEF RegistriesType
    <2> QED BY <2>1, <2>2, ItemNumbers
  <1>9. \A x \in S : k[x] \in Seq(Int) /\ Len(k[x]) = 5 /\ l[x] \in Seq(Int) /\ Len(l[x]) = 4
    <2> TAKE x \in S
    <2>1. ManifestFirst(x) \in Int /\ StageOrder(x.stage) \in Int BY DEF ManifestFirst, StageOrder
    <2>2. -x.priority \in Int /\ x.at \in Int /\ -x.at \in Int /\ x.dir \in Int BY <1>8
    <2>3. k[x] = <<-x.priority, ManifestFirst(x), StageOrder(x.stage), x.at, x.dir>> BY DEF CandidateSortKey
    <2>4. l[x] = <<-x.priority, ManifestFirst(x), -x.at, x.dir>> BY DEF ArchivedSnapshotSortKey
    <2> HIDE DEF k, l
    <2> QED BY <2>1, <2>2, <2>3, <2>4
  <1>10. \A x \in S : k[x] = CandidateSortKey(x) /\ l[x] = ArchivedSnapshotSortKey(x) OBVIOUS
  <1> HIDE DEF k, l
  <1>11. 5 \in Nat /\ 4 \in Nat OBVIOUS
  <1>12. (\E x \in S : \A y \in S : ~SortsBefore(k[y], k[x])) /\ (\E x \in S : \A y \in S : ~SortsBefore(l[y], l[x]))
    BY <1>7, <1>9, <1>11, OneIsFirst
  <1> QED BY <1>10, <1>12 DEF FirstBy

\* A distributed version is offered, from its distribution, in the stage this has or in that a server gives it.
LEMMA DistributedIsOffered ==
  ASSUME NEW r, HeldType(r), NEW m \in r.dists, NEW pub \in Federated(r, m.pub)
  PROVE  \E x \in ScanRegistry(r) : x.v = m.v /\ x.pub = pub /\ x.stage \in {m.status, "active", "archived"}
  <1>1. CASE r.kind = "http"
    <2> DEFINE stage == IF m.v = r.latest THEN "active" ELSE "archived"
               x == SourceItem(r, m.pub, pub, m.v, stage, {m}, <<>>, m.at, 0)
    <2>1. x.v = m.v /\ x.pub = pub /\ x.stage \in {"active", "archived"} BY DEF SourceItem
    <2>2. x \in HttpItems(r)
      <3>1. x \in {SourceItem(r, m.pub, q, m.v, IF m.v = r.latest THEN "active" ELSE "archived", {m}, <<>>, m.at, 0) :
                     q \in Federated(r, m.pub)}
        OBVIOUS
      <3> HIDE DEF x
      <3> QED BY <3>1, Zenon DEF HttpItems
    <2>3. ScanRegistry(r) = HttpItems(r) BY <1>1 DEF ScanRegistry
    <2> HIDE DEF x
    <2> QED BY <2>1, <2>2, <2>3
  <1>2. CASE r.kind # "http" /\ \A d \in r.dirs : m \notin DistributionOf(r, d)
    <2> DEFINE x == SourceItem(r, m.pub, pub, m.v, m.status, {m}, <<>>, m.at, 0)
    <2>1. x.v = m.v /\ x.pub = pub /\ x.stage = m.status BY DEF SourceItem
    <2>2. x \in DistributionItems(r)
      <3>1. x \in {SourceItem(r, m.pub, q, m.v, m.status, {m}, <<>>, m.at, 0) : q \in Federated(r, m.pub)} OBVIOUS
      <3>2. m \in {n \in r.dists : \A d \in r.dirs : n \notin DistributionOf(r, d)} BY <1>2
      <3> HIDE DEF x
      <3> QED BY <3>1, <3>2, Zenon DEF DistributionItems
    <2> HIDE DEF x
    <2>3. x \in ScanRegistry(r) BY <1>2, <2>2 DEF ScanRegistry
    <2> QED BY <2>1, <2>3
  <1>3. ASSUME r.kind # "http", NEW d \in r.dirs, m \in DistributionOf(r, d)
        PROVE  \E x \in ScanRegistry(r) : x.v = m.v /\ x.pub = pub /\ x.stage \in {m.status, "active", "archived"}
    <2> DEFINE F(e, q, n) == SourceItem(r, e.pub, q, e.v, n.status, {n}, e.snap, e.at, e.dir)
               G(e, q) == SourceItem(r, e.pub, q, e.v, e.stage, {}, e.snap, e.at, e.dir)
               released(e) == {F(e, q, n) : q \in Federated(r, e.pub), n \in DistributionOf(r, e)}
               unreleased(e) == {G(e, q) : q \in {q \in Federated(r, e.pub) : DistributionOf(r, e) = {}}}
    <2>1. d.pub = m.pub /\ d.v = m.v BY <1>3 DEF DistributionOf
    <2>2. F(d, pub, m).v = m.v /\ F(d, pub, m).pub = pub /\ F(d, pub, m).stage = m.status BY <2>1 DEF SourceItem
    <2>3. DirectoryItems(r) = UNION {released(e) \cup unreleased(e) : e \in r.dirs} BY DEF DirectoryItems
    <2> HIDE DEF F, G
    <2>4. F(d, pub, m) \in released(d) BY <1>3, <2>1
    <2> HIDE DEF released, unreleased
    <2>5. F(d, pub, m) \in DirectoryItems(r) BY <1>3, <2>3, <2>4
    <2>6. F(d, pub, m) \in ScanRegistry(r) BY <1>3, <2>5 DEF ScanRegistry
    <2> QED BY <2>2, <2>6
  <1> QED BY <1>1, <1>2, <1>3

\* A version without a distribution is offered from its directory.
LEMMA UndistributedIsOffered ==
  ASSUME NEW r, HeldType(r), NEW d \in r.dirs, NEW pub \in Federated(r, d.pub), DistributionOf(r, d) = {}
  PROVE  \E x \in ScanRegistry(r) : x.v = d.v /\ x.pub = pub
  <1> DEFINE F(e, q, n) == SourceItem(r, e.pub, q, e.v, n.status, {n}, e.snap, e.at, e.dir)
             G(e, q) == SourceItem(r, e.pub, q, e.v, e.stage, {}, e.snap, e.at, e.dir)
             released(e) == {F(e, q, n) : q \in Federated(r, e.pub), n \in DistributionOf(r, e)}
             unreleased(e) == {G(e, q) : q \in {q \in Federated(r, e.pub) : DistributionOf(r, e) = {}}}
  <1>1. G(d, pub).v = d.v /\ G(d, pub).pub = pub BY DEF SourceItem
  <1>2. DirectoryItems(r) = UNION {released(e) \cup unreleased(e) : e \in r.dirs} BY DEF DirectoryItems
  <1>3. r.kind # "http" BY DEF HeldType
  <1> HIDE DEF F, G
  <1>4. G(d, pub) \in unreleased(d) OBVIOUS
  <1> HIDE DEF released, unreleased
  <1>5. G(d, pub) \in DirectoryItems(r) BY <1>2, <1>4
  <1>6. G(d, pub) \in ScanRegistry(r) BY <1>3, <1>5 DEF ScanRegistry
  <1> QED BY <1>1, <1>6

\* A version that a registry holds is offered, under each of the publishers it is federated as.
LEMMA HeldIsOffered ==
  ASSUME NEW r, HeldType(r), NEW p, NEW v, v \in Holds(r, p), NEW pub \in Federated(r, p)
  PROVE  \E x \in ScanRegistry(r) : x.v = v /\ x.pub = pub
  <1>1. (\E d \in r.dirs : d.pub = p /\ d.v = v) \/ (\E m \in r.dists : m.pub = p /\ m.v = v) BY DEF Holds
  <1>2. ASSUME NEW m \in r.dists, m.pub = p, m.v = v PROVE \E x \in ScanRegistry(r) : x.v = v /\ x.pub = pub
    <2>1. pub \in Federated(r, m.pub) BY <1>2
    <2>2. \E x \in ScanRegistry(r) : x.v = m.v /\ x.pub = pub /\ x.stage \in {m.status, "active", "archived"}
      BY <2>1, DistributedIsOffered, Zenon
    <2> QED BY <1>2, <2>2, Zenon
  <1>3. ASSUME NEW d \in r.dirs, d.pub = p, d.v = v PROVE \E x \in ScanRegistry(r) : x.v = v /\ x.pub = pub
    <2>1. CASE DistributionOf(r, d) = {}
      <3>1. pub \in Federated(r, d.pub) BY <1>3
      <3> QED BY <1>3, <2>1, <3>1, UndistributedIsOffered, Zenon
    <2>2. CASE DistributionOf(r, d) # {}
      <3>1. \E m \in r.dists : m.pub = p /\ m.v = v BY <1>3, <2>2 DEF DistributionOf
      <3> QED BY <1>2, <3>1
    <2> QED BY <2>1, <2>2
  <1> QED BY <1>1, <1>2, <1>3

\* Something is resolved if a candidate of the version matches the request.
LEMMA MatchIsResolved ==
  ASSUME NEW regs, RegistriesType(regs), NEW ask, ask.v # 0,
         NEW x \in Matching(LoadCandidates(regs, ask), ask), x.v = ask.v
  PROVE  Resolve(regs, ask) # {}
  <1> DEFINE items == Matching(LoadCandidates(regs, ask), ask)
             snaps == SnapshotsOf(items, ask)
             held == {y \in items : y.v = ask.v}
  <1>1. items \in SUBSET LoadCandidates(regs, ask) BY DEF Matching
  <1>2. x \in held OBVIOUS
  <1>3. snaps \in SUBSET LoadCandidates(regs, ask) /\ held \in SUBSET LoadCandidates(regs, ask)
    BY <1>1 DEF SnapshotsOf
  <1>4. Resolve(regs, ask) = IF snaps # {} THEN FirstBy(snaps, ArchivedSnapshotSortKey) ELSE FirstBy(held, CandidateSortKey)
    BY DEF Resolve, SelectCandidate
  <1> HIDE DEF items, snaps, held
  <1>5. snaps # {} => FirstBy(snaps, ArchivedSnapshotSortKey) # {} BY <1>3, FirstCandidate
  <1>6. FirstBy(held, CandidateSortKey) # {} BY <1>2, <1>3, FirstCandidate
  <1> QED BY <1>4, <1>5, <1>6

\* A version that a registry in use holds of the publisher asked for is found, whatever the others offer.
THEOREM HeldIsFound ==
  ASSUME NEW regs, RegistriesType(regs), NEW ask
  PROVE  FoundWhenHeld(regs, ask)
  <1>1. ASSUME NEW r \in Consulted(regs, ask), NEW p, ask.v \in Holds(r, p), NEW pub \in Federated(r, p)
        PROVE  ask.v # 0 /\ \E x \in LoadCandidates(regs, ask) : x.v = ask.v /\ x.pub = pub
    <2>1. HeldType(r) BY DEF Consulted, RegistriesType
    <2>2. ask.v # 0 BY <1>1, <2>1 DEF Holds, HeldType
    <2>3. \E x \in ScanRegistry(r) : x.v = ask.v /\ x.pub = pub BY <1>1, <2>1, HeldIsOffered
    <2> QED BY <2>2, <2>3 DEF LoadCandidates
  <1> SUFFICES ASSUME NEW r \in Consulted(regs, ask), NEW p, ask.v \in Holds(r, p), Federated(r, p) # {},
                      ask.pub # "" => ask.pub \in Federated(r, p), ask.incubating
               PROVE  Resolve(regs, ask) # {}
    BY DEF FoundWhenHeld
  <1>2. PICK pub \in Federated(r, p) : ask.pub # "" => ask.pub = pub
    OBVIOUS
  <1>3. PICK x \in LoadCandidates(regs, ask) : x.v = ask.v /\ (ask.pub # "" => x.pub = ask.pub)
    <2>1. \E x \in LoadCandidates(regs, ask) : x.v = ask.v /\ x.pub = pub BY <1>1, Zenon
    <2> QED BY <1>2, <2>1, Zenon
  <1>4. x \in Matching(LoadCandidates(regs, ask), ask) BY <1>3 DEF Matching
  <1>5. ask.v # 0 BY <1>1, <1>2
  <1> QED BY <1>3, <1>4, <1>5, MatchIsResolved

-------------------------------------------------------------------------------
(* Discovery *)

\* What discovery looks at: registries with names, one of which may be the default.
ConfigType(c) ==
    /\ c = [regs |-> c.regs, default |-> c.default] /\ c.default # ""
    /\ RegistriesType(c.regs) /\ \A r \in c.regs : r.name # ""

\* The default version of an AI index is one of those distributed.
LEMMA NewestIsDistributed ==
  ASSUME NEW r, HeldType(r), NEW m \in r.dists
  PROVE  \E n \in r.dists : n.pub = m.pub /\ n.v = Max(DistributedVersions(r, m.pub))
  <1> DEFINE V == DistributedVersions(r, m.pub)
             of == {n \in r.dists : n.pub = m.pub}
             f == [n \in of |-> n.v]
             R == {q \in V \X V : q[1] < q[2]}
  <1>1. V = {f[n] : n \in of} BY DEF DistributedVersions
  <1>2. IsFiniteSet(of) BY FS_Subset DEF HeldType
  <1>3. IsFiniteSet(V)
    <2> HIDE DEF V, of, f
    <2> QED BY <1>1, <1>2, FiniteImage
  <1>4. \A v \in V : v \in Nat BY DEF HeldType, DistributedVersions
  <1>5. m.v \in V BY DEF DistributedVersions
  <1>8. \A v \in V : \E n \in r.dists : n.pub = m.pub /\ n.v = v BY DEF DistributedVersions
  <1> HIDE DEF V
  <1>6. \A x, y \in V : <<x, y>> \in R <=> x < y OBVIOUS
  <1> HIDE DEF R
  <1>7. PICK v \in V : \A w \in V : <<v, w>> \notin R
    <2>1. \A x \in V : <<x, x>> \notin R BY <1>4, <1>6
    <2>2. \A x, y, z \in V : <<x, y>> \in R /\ <<y, z>> \in R => <<x, z>> \in R BY <1>4, <1>6
    <2> QED BY <1>3, <1>5, <2>1, <2>2, LastExists
  <1>9. \A w \in V : v >= w
    <2> TAKE w \in V
    <2>1. v \in Nat /\ w \in Nat /\ ~(v < w) BY <1>4, <1>6, <1>7
    <2> QED BY <2>1
  <1>10. Max(V) \in V BY <1>9 DEF Max
  <1> QED BY <1>8, <1>10 DEF V

\* An index shows distributed versions of registries in use.
LEMMA ShownIsDistributed ==
  ASSUME NEW c, ConfigType(c), NEW x \in BuildDiscoveryIndex(c).skills
  PROVE  \E r \in c.regs :
            /\ r.enabled /\ x.reg = r.name
            /\ \E m \in r.dists : m.pub = x.pub /\ m.v = x.version
            /\ x.version \in Nat \ {0}
  <1> DEFINE used == {r \in c.regs : r.enabled}
  <1>1. x \in UNION {{DiscoverySkill(r, s) : s \in IndexPayload(r)} : r \in used} BY DEF BuildDiscoveryIndex
  <1>2. PICK r \in used : x \in {DiscoverySkill(r, s) : s \in IndexPayload(r)} BY <1>1
  <1>3. PICK s \in IndexPayload(r) : x = DiscoverySkill(r, s) BY <1>2
  <1>4. s \in BuildAiIndex(r) BY DEF IndexPayload
  <1>5. PICK m \in r.dists : s = AiSkill(r, m.pub) BY <1>4 DEF BuildAiIndex
  <1>6. s.pub = m.pub /\ s.version = Max(DistributedVersions(r, m.pub)) BY <1>5 DEF AiSkill
  <1>7. x.reg = r.name /\ x.pub = s.pub /\ x.version = s.version BY <1>3 DEF DiscoverySkill
  <1>8. HeldType(r) BY DEF ConfigType, RegistriesType
  <1>9. \E n \in r.dists : n.pub = m.pub /\ n.v = Max(DistributedVersions(r, m.pub)) BY <1>8, NewestIsDistributed
  <1> QED BY <1>6, <1>7, <1>8, <1>9 DEF HeldType

\* An index can be listed.
LEMMA FiniteIndex ==
  ASSUME NEW c, ConfigType(c)
  PROVE  IsFiniteSet(BuildDiscoveryIndex(c).skills)
  <1> DEFINE used == {r \in c.regs : r.enabled}
             shown(r) == {DiscoverySkill(r, s) : s \in IndexPayload(r)}
             f == [r \in used |-> shown(r)]
  <1>1. BuildDiscoveryIndex(c).skills = UNION {f[r] : r \in used}
    <2>1. BuildDiscoveryIndex(c).skills = UNION {shown(r) : r \in used} BY DEF BuildDiscoveryIndex
    <2> HIDE DEF shown
    <2> QED BY <2>1
  <1>2. used \in SUBSET c.regs /\ IsFiniteSet(c.regs) BY DEF ConfigType, RegistriesType
  <1>3. IsFiniteSet(used) BY <1>2, FS_Subset
  <1>4. ASSUME NEW r \in used PROVE IsFiniteSet(shown(r))
    <2> DEFINE g == [m \in r.dists |-> AiSkill(r, m.pub)]
               h == [s \in IndexPayload(r) |-> DiscoverySkill(r, s)]
    <2>1. IsFiniteSet(r.dists) BY <1>2 DEF ConfigType, RegistriesType, HeldType
    <2>2. BuildAiIndex(r) = {g[m] : m \in r.dists} BY DEF BuildAiIndex
    <2>3. IsFiniteSet(BuildAiIndex(r))
      <3> HIDE DEF g
      <3> QED BY <2>1, <2>2, FiniteImage
    <2>4. IndexPayload(r) \in SUBSET BuildAiIndex(r) BY DEF IndexPayload
    <2>5. IsFiniteSet(IndexPayload(r)) BY <2>3, <2>4, FS_Subset
    <2>6. shown(r) = {h[s] : s \in IndexPayload(r)} OBVIOUS
    <2> HIDE DEF h, shown
    <2> QED BY <2>5, <2>6, FiniteImage
  <1>5. IsFiniteSet({f[r] : r \in used})
    <2> HIDE DEF f, used
    <2> QED BY <1>3, FiniteImage
  <1>6. \A T \in {f[r] : r \in used} : IsFiniteSet(T) BY <1>4
  <1> HIDE DEF f, used
  <1> QED BY <1>1, <1>5, <1>6, FS_UNION

\* What resolve_skill finds in the default registry.
LEMMA FoundIsPrivate ==
  ASSUME NEW index, IsFiniteSet(index.skills), NEW query, NEW agent,
         ResolveSkill(index, query, agent).state = "private"
  PROVE  \E x \in index.skills :
            /\ ResolveSkill(index, query, agent).skills = {x}
            /\ x.reg = index.default /\ query \in {"", x.pub}
            /\ agent # "" => x.verified.state \notin Blocking
  <1> DEFINE all == FilterSkills(index, query)
             fit == {x \in all : SupportsTargetAgent(x, agent)}
             private == {x \in fit : x.reg = index.default}
             found == ResolveSkill(index, query, agent)
  <1>1. found = IF Cardinality(private) = 1 THEN Resolution("private", private)
                ELSE IF private = {} /\ Cardinality(fit) = 1 THEN Resolution("external", fit)
                ELSE IF fit # {} THEN Resolution("ambiguous", {})
                ELSE Resolution(IF all # {} THEN "incompatible" ELSE "not-found", {})
    BY DEF ResolveSkill
  <1>2. \A s, t : Resolution(s, t).state = s /\ Resolution(s, t).skills = t BY DEF Resolution
  <1>3. \A x \in private : /\ x \in index.skills /\ x.reg = index.default /\ query \in {"", x.pub}
                           /\ agent # "" => x.verified.state \notin Blocking
    BY DEF FilterSkills, SupportsTargetAgent
  <1> HIDE DEF private, fit, all, found
  <1>4. Cardinality(private) = 1 /\ found.skills = private
    <2>1. found.state = "private" BY DEF found
    <2>2. CASE Cardinality(private) = 1 BY <1>1, <1>2, <2>2
    <2>3. CASE Cardinality(private) # 1
      <3>1. found.state # "private" BY <1>1, <1>2, <2>3
      <3> QED BY <2>1, <3>1
    <2> QED BY <2>2, <2>3
  <1>6. private \in SUBSET index.skills BY <1>3
  <1>7. IsFiniteSet(private) BY <1>6, FS_Subset
  <1>5. \E x : private = {x} BY <1>4, <1>7, FS_Singleton
  <1> QED BY <1>3, <1>4, <1>5 DEF found

\* The one skill found in the default registry is of the index, and fits what was asked.
LEMMA FoundFits ==
  ASSUME NEW index, IsFiniteSet(index.skills), NEW ask, ResolveSkill(index, ask.query, ask.agent).state = "private",
         NEW x \in ResolveSkill(index, ask.query, ask.agent).skills
  PROVE  /\ x \in index.skills /\ x.reg = index.default /\ ask.query \in {"", x.pub}
         /\ ask.agent # "" => x.verified.state \notin Blocking
         /\ ResolveSkill(index, ask.query, ask.agent).skills = {x}
  <1>1. \E y \in index.skills :
            /\ ResolveSkill(index, ask.query, ask.agent).skills = {y}
            /\ y.reg = index.default /\ ask.query \in {"", y.pub}
            /\ ask.agent # "" => y.verified.state \notin Blocking
    BY FoundIsPrivate
  <1> QED BY <1>1

\* How resolve_source_candidate is asked for a skill that was found.
Pull(x, ask) == [registry |-> x.reg, pub |-> x.pub, incubating |-> FALSE, v |-> PulledVersion(x, ask)]

\* run_install_by_name is given one of two modes.
ModeIsKnown(ask) == ask.mode \in {"auto", "confirm"}

\* Nothing is installed by name but the skill found in the default registry, from there.
LEMMA InstalledByName ==
  ASSUME NEW config, NEW file, NEW ask, ModeIsKnown(ask)
  PROVE  LET index == LoadDiscoveryIndex(config, file)
             found == ResolveSkill(index, ask.query, ask.agent)
             got == UNION {Resolve(config.regs, Pull(x, ask)) : x \in found.skills}
             done == InstallByName(config, file, ask)
         IN  IF index.valid /\ found.state = "private" /\ ask.mode = "auto"
             THEN done.skills = got /\ (got # {} => done.state = "installed") ELSE done.skills = {}
  <1> DEFINE index == LoadDiscoveryIndex(config, file)
             found == ResolveSkill(index, ask.query, ask.agent)
             got == UNION {Resolve(config.regs, Pull(x, ask)) : x \in found.skills}
             done == InstallByName(config, file, ask)
  <1>1. done = IF ~index.valid \/ found.state \notin {"private", "external"} THEN Resolution("failed", {})
               ELSE IF found.state = "external" /\ ask.mode = "auto" THEN Resolution("confirmation-required", {})
               ELSE IF ask.mode = "confirm" THEN Resolution("planned", {})
               ELSE Resolution(IF got = {} THEN "failed" ELSE "installed", got)
    BY DEF InstallByName, Pull
  <1>2. \A s, t : Resolution(s, t).skills = t /\ Resolution(s, t).state = s BY DEF Resolution
  <1> HIDE DEF done, index, found, got
  <1>3. CASE index.valid /\ found.state = "private" /\ ask.mode = "auto"
    <2>1. done = Resolution(IF got = {} THEN "failed" ELSE "installed", got) BY <1>1, <1>3
    <2>2. done.skills = got BY <1>2, <2>1
    <2>3. got # {} => done.state = "installed" BY <1>2, <2>1
    <2> QED BY <1>3, <2>2, <2>3 DEF done, index, found, got
  <1>4. CASE ~(index.valid /\ found.state = "private" /\ ask.mode = "auto")
    <2>1. done.skills = {}
      <3>1. CASE ~index.valid \/ found.state \notin {"private", "external"} BY <1>1, <1>2, <3>1
      <3>2. CASE index.valid /\ found.state = "external" BY <1>1, <1>2, <3>2 DEF ModeIsKnown
      <3>3. CASE index.valid /\ found.state = "private" /\ ask.mode = "confirm" BY <1>1, <1>2, <3>3
      <3> QED BY <1>4, <3>1, <3>2, <3>3 DEF ModeIsKnown
    <2> QED BY <1>4, <2>1 DEF done, index, found
  <1> QED BY <1>3, <1>4

\* What is installed by name comes from the one skill found in the default registry.
LEMMA InstalledIsFound ==
  ASSUME NEW config, NEW file, NEW ask, ModeIsKnown(ask),
         NEW g \in InstallByName(config, file, ask).skills
  PROVE  LET index == LoadDiscoveryIndex(config, file)
             found == ResolveSkill(index, ask.query, ask.agent)
         IN  /\ index.valid /\ found.state = "private" /\ ask.mode = "auto"
             /\ \E x \in found.skills : g \in Resolve(config.regs, Pull(x, ask))
  <1> DEFINE index == LoadDiscoveryIndex(config, file)
             found == ResolveSkill(index, ask.query, ask.agent)
             got == UNION {Resolve(config.regs, Pull(x, ask)) : x \in found.skills}
             done == InstallByName(config, file, ask)
  <1>1. IF index.valid /\ found.state = "private" /\ ask.mode = "auto"
        THEN done.skills = got /\ (got # {} => done.state = "installed") ELSE done.skills = {}
    BY InstalledByName
  <1>2. g \in done.skills OBVIOUS
  <1> HIDE DEF done, index, found, got
  <1>3. index.valid /\ found.state = "private" /\ ask.mode = "auto" /\ g \in got BY <1>1, <1>2
  <1>4. \E x \in found.skills : g \in Resolve(config.regs, Pull(x, ask)) BY <1>3 DEF got
  <1> QED BY <1>3, <1>4 DEF index, found

\* An old index file is one of a configuration, too.
LEMMA IndexIsBuilt ==
  ASSUME NEW config, ConfigType(config), NEW file, \A f \in file : ConfigType(f)
  PROVE  \E c : ConfigType(c) /\ LoadDiscoveryIndex(config, file) = BuildDiscoveryIndex(c)
  <1>1. CASE file = {} \/ \E r \in config.regs : r.enabled /\ r.kind = "http" BY <1>1 DEF LoadDiscoveryIndex
  <1>2. CASE ~(file = {} \/ \E r \in config.regs : r.enabled /\ r.kind = "http")
    <2> DEFINE f == CHOOSE f \in file : TRUE
    <2>1. f \in file BY <1>2
    <2>2. LoadDiscoveryIndex(config, file) = BuildDiscoveryIndex(f) BY <1>2 DEF LoadDiscoveryIndex
    <2> QED BY <2>1, <2>2
  <1> QED BY <1>1, <1>2

\* What is asked of the registries for a skill of an index: its registry, its publisher, a version.
LEMMA PullNames ==
  ASSUME NEW x, NEW ask
  PROVE  /\ Pull(x, ask).registry = x.reg /\ Pull(x, ask).pub = x.pub /\ ~Pull(x, ask).incubating
         /\ Pull(x, ask).v = IF ask.v = 0 THEN x.version ELSE ask.v
BY DEF Pull, PulledVersion

\* What a skill that was found is installed from: an item of its registry, of its publisher.
LEMMA PulledIsHeld ==
  ASSUME NEW regs, NEW x, x.reg # "", x.version # 0, NEW ask, NEW g \in Resolve(regs, Pull(x, ask))
  PROVE  /\ g.reg = x.reg /\ x.pub \in {"", g.pub}
         /\ g.v = IF ask.v = 0 THEN x.version ELSE ask.v
         /\ \E r \in Consulted(regs, Pull(x, ask)) : r.name = x.reg /\ g \in ScanRegistry(r) /\ g.v \in Holds(r, g.upstream)
  <1> DEFINE pull == Pull(x, ask)
  <1>1. pull.registry = x.reg /\ pull.pub = x.pub /\ pull.v = (IF ask.v = 0 THEN x.version ELSE ask.v) BY PullNames
  <1>2. g \in Matching(LoadCandidates(regs, pull), pull) /\ (pull.v # 0 => g.v = pull.v) BY ResolvedIsCandidate
  <1>3. \E r \in Consulted(regs, pull) : g \in ScanRegistry(r) /\ g.reg = r.name /\ g.v \in Holds(r, g.upstream)
    BY ResolvedIsHeld
  <1> HIDE DEF pull
  <1>4. PICK r \in Consulted(regs, pull) : g \in ScanRegistry(r) /\ g.reg = r.name /\ g.v \in Holds(r, g.upstream) BY <1>3
  <1>5. r.name = x.reg BY <1>1, <1>4 DEF Consulted
  <1>6. x.pub # "" => g.pub = x.pub BY <1>1, <1>2 DEF Matching
  <1>7. pull.v # 0 BY <1>1
  <1> QED BY <1>1, <1>2, <1>4, <1>5, <1>6, <1>7 DEF pull

\* What install-by-name installs is what the index shows, held now by the default registry.
THEOREM DescribedIsInstalled ==
  ASSUME NEW config, ConfigType(config), NEW file, \A f \in file : ConfigType(f), NEW ask, ModeIsKnown(ask)
  PROVE  InstalledIsDescribed(config, file, ask)
  <1> DEFINE index == LoadDiscoveryIndex(config, file)
             found == ResolveSkill(index, ask.query, ask.agent)
  <1>1. PICK c : ConfigType(c) /\ index = BuildDiscoveryIndex(c) BY IndexIsBuilt
  <1>2. IsFiniteSet(index.skills) BY <1>1, FiniteIndex
  <1>3. \A x \in index.skills : x.reg # "" /\ x.version # 0
    <2> TAKE x \in index.skills
    <2>1. PICK r \in c.regs : x.reg = r.name /\ x.version \in Nat \ {0} BY <1>1, ShownIsDistributed
    <2> QED BY <1>1, <2>1 DEF ConfigType
  <1>4. ASSUME NEW g \in InstallByName(config, file, ask).skills
        PROVE  /\ \E x \in index.skills :
                     /\ x.reg = g.reg /\ g.reg = index.default /\ x.pub \in {"", g.pub}
                     /\ ask.query \in {"", x.pub}
                     /\ g.v = IF ask.v = 0 THEN x.version ELSE ask.v
                     /\ ask.agent # "" => x.verified.state \notin Blocking
               /\ \E r \in config.regs : r.enabled /\ r.name = g.reg /\ g.v \in Holds(r, g.upstream)
    <2>1. found.state = "private" /\ \E x \in found.skills : g \in Resolve(config.regs, Pull(x, ask))
      BY <1>4, InstalledIsFound
    <2> HIDE DEF index
    <2>2. PICK x \in found.skills : g \in Resolve(config.regs, Pull(x, ask)) BY <2>1
    <2>4. /\ x \in index.skills /\ x.reg = index.default /\ ask.query \in {"", x.pub}
          /\ ask.agent # "" => x.verified.state \notin Blocking
      BY <1>2, <2>1, <2>2, FoundFits
    <2>5. x.reg # "" /\ x.version # 0 BY <1>3, <2>4
    <2>6. /\ g.reg = x.reg /\ x.pub \in {"", g.pub}
          /\ g.v = (IF ask.v = 0 THEN x.version ELSE ask.v)
          /\ \E r \in Consulted(config.regs, Pull(x, ask)) : r.name = x.reg /\ g \in ScanRegistry(r) /\ g.v \in Holds(r, g.upstream)
      BY <2>2, <2>5, PulledIsHeld
    <2>7. \E r \in config.regs : r.enabled /\ r.name = g.reg /\ g.v \in Holds(r, g.upstream) BY <2>6 DEF Consulted
    <2> QED BY <2>4, <2>6, <2>7
  <1> QED BY <1>4 DEF InstalledIsDescribed

\* Only what is asked of the default registry counts.
LEMMA ConsultedAlone ==
  ASSUME NEW regs, NEW ask, ask.registry # ""
  PROVE  Resolve({r \in regs : r.name = ask.registry}, ask) = Resolve(regs, ask)
  <1>1. Consulted({r \in regs : r.name = ask.registry}, ask) = Consulted(regs, ask) BY DEF Consulted
  <1> QED BY <1>1 DEF Resolve, LoadCandidates

\* The skills that an index of the default registry alone shows are those it has in any index.
LEMMA IndexAlone ==
  ASSUME NEW config, ConfigType(config),
         NEW alone, alone = [config EXCEPT !.regs = {r \in @ : r.name = config.default}]
  PROVE  LET index == BuildDiscoveryIndex(config)
             own == BuildDiscoveryIndex(alone)
         IN  /\ own.skills = {x \in index.skills : x.reg = config.default}
             /\ index.default = config.default /\ own.default = config.default
             /\ index.valid => own.valid
  <1> DEFINE index == BuildDiscoveryIndex(config)
             own == BuildDiscoveryIndex(alone)
             shown(r) == {DiscoverySkill(r, s) : s \in IndexPayload(r)}
  <1>1. alone.regs = {r \in config.regs : r.name = config.default} /\ alone.default = config.default
    BY DEF ConfigType
  <1>2. /\ index.skills = UNION {shown(r) : r \in {r \in config.regs : r.enabled}}
        /\ own.skills = UNION {shown(r) : r \in {r \in alone.regs : r.enabled}}
        /\ index.default = config.default /\ own.default = config.default
    BY <1>1 DEF BuildDiscoveryIndex
  <1>3. index.valid => own.valid BY <1>1 DEF BuildDiscoveryIndex
  <1>4. \A r : \A x \in shown(r) : x.reg = r.name BY DEF DiscoverySkill
  <1> HIDE DEF shown, index, own
  <1>5. own.skills = {x \in index.skills : x.reg = config.default} BY <1>1, <1>2, <1>4
  <1> QED BY <1>2, <1>3, <1>5 DEF index, own

\* What is found in an index of the default registry alone is what is found there in any index.
LEMMA FoundAlone ==
  ASSUME NEW index, NEW own, NEW query, NEW agent,
         own.default = index.default, own.skills = {x \in index.skills : x.reg = index.default}
  PROVE  LET found == ResolveSkill(index, query, agent)
             one == ResolveSkill(own, query, agent)
         IN  /\ one.state # "external" /\ (one.state = "private" <=> found.state = "private")
             /\ one.state = "private" => one.skills = found.skills
  <1> DEFINE all == FilterSkills(index, query)
             fit == {x \in all : SupportsTargetAgent(x, agent)}
             private == {x \in fit : x.reg = index.default}
             ownAll == FilterSkills(own, query)
             ownFit == {x \in ownAll : SupportsTargetAgent(x, agent)}
             ownPrivate == {x \in ownFit : x.reg = own.default}
             found == ResolveSkill(index, query, agent)
             one == ResolveSkill(own, query, agent)
  <1>1. found = IF Cardinality(private) = 1 THEN Resolution("private", private)
                ELSE IF private = {} /\ Cardinality(fit) = 1 THEN Resolution("external", fit)
                ELSE IF fit # {} THEN Resolution("ambiguous", {})
                ELSE Resolution(IF all # {} THEN "incompatible" ELSE "not-found", {})
    BY DEF ResolveSkill
  <1>2. one = IF Cardinality(ownPrivate) = 1 THEN Resolution("private", ownPrivate)
              ELSE IF ownPrivate = {} /\ Cardinality(ownFit) = 1 THEN Resolution("external", ownFit)
              ELSE IF ownFit # {} THEN Resolution("ambiguous", {})
              ELSE Resolution(IF ownAll # {} THEN "incompatible" ELSE "not-found", {})
    BY DEF ResolveSkill
  <1>3. ownPrivate = private /\ ownFit = private BY DEF FilterSkills
  <1>4. \A s, t : Resolution(s, t).skills = t /\ Resolution(s, t).state = s BY DEF Resolution
  <1> HIDE DEF all, fit, private, ownAll, ownFit, ownPrivate, found, one
  <1>5. CASE Cardinality(private) = 1
    <2>1. found = Resolution("private", private) /\ one = Resolution("private", private) BY <1>1, <1>2, <1>3, <1>5
    <2>2. found.state = "private" /\ one.state = "private" /\ one.skills = found.skills BY <1>4, <2>1
    <2> QED BY <2>2 DEF found, one
  <1>6. CASE Cardinality(private) # 1
    <2>1. found.state # "private" BY <1>1, <1>4, <1>6
    <2>2. CASE private = {}
      <3>1. Cardinality({}) = 0 BY FS_EmptySet
      <3>2. one = Resolution(IF ownAll # {} THEN "incompatible" ELSE "not-found", {}) BY <1>2, <1>3, <2>2, <3>1
      <3>3. one.state \notin {"private", "external"} BY <1>4, <3>2
      <3> QED BY <2>1, <3>3 DEF found, one
    <2>3. CASE private # {}
      <3>1. one = Resolution("ambiguous", {}) BY <1>2, <1>3, <1>6, <2>3
      <3>2. one.state \notin {"private", "external"} BY <1>4, <3>1
      <3> QED BY <2>1, <3>2 DEF found, one
    <2> QED BY <2>2, <2>3
  <1> QED BY <1>5, <1>6

\* What is installed by name depends on the default registry alone.
THEOREM DefaultDecides ==
  ASSUME NEW config, ConfigType(config), NEW ask, ModeIsKnown(ask)
  PROVE  OnlyDefaultMatters(config, ask)
  <1> DEFINE alone == [config EXCEPT !.regs = {r \in @ : r.name = config.default}]
             index == BuildDiscoveryIndex(config)
             own == BuildDiscoveryIndex(alone)
             found == ResolveSkill(index, ask.query, ask.agent)
             one == ResolveSkill(own, ask.query, ask.agent)
             got == UNION {Resolve(config.regs, Pull(x, ask)) : x \in found.skills}
             gotOne == UNION {Resolve(alone.regs, Pull(x, ask)) : x \in one.skills}
  <1>1. LoadDiscoveryIndex(config, {}) = index /\ LoadDiscoveryIndex(alone, {}) = own BY DEF LoadDiscoveryIndex
  <1>2. /\ own.skills = {x \in index.skills : x.reg = config.default}
        /\ index.default = config.default /\ own.default = config.default
        /\ index.valid => own.valid
    BY IndexAlone
  <1>3. /\ one.state # "external" /\ (one.state = "private" <=> found.state = "private")
        /\ one.state = "private" => one.skills = found.skills
    <2> HIDE DEF index, own
    <2> QED BY <1>2, FoundAlone
  <1>4. alone.regs = {r \in config.regs : r.name = config.default} BY DEF ConfigType
  <1>5. IF index.valid /\ found.state = "private" /\ ask.mode = "auto"
        THEN InstallByName(config, {}, ask).skills = got ELSE InstallByName(config, {}, ask).skills = {}
    <2> HIDE DEF index
    <2> QED BY <1>1, InstalledByName
  <1>6. IF own.valid /\ one.state = "private" /\ ask.mode = "auto"
        THEN InstallByName(alone, {}, ask).skills = gotOne ELSE InstallByName(alone, {}, ask).skills = {}
    <2> HIDE DEF own, alone
    <2> QED BY <1>1, InstalledByName
  <1>7. ASSUME found.state = "private" PROVE gotOne = got
    <2>1. one.skills = found.skills BY <1>3, <1>7
    <2>2. ASSUME NEW x \in found.skills PROVE Resolve(alone.regs, Pull(x, ask)) = Resolve(config.regs, Pull(x, ask))
      <3>1. IsFiniteSet(index.skills) BY FiniteIndex
      <3> HIDE DEF index
      <3>2. x.reg = index.default BY <1>7, <2>2, <3>1, FoundFits
      <3>3. Pull(x, ask).registry = config.default BY <1>2, <3>2, PullNames
      <3>4. config.default # "" BY DEF ConfigType
      <3>5. Pull(x, ask).registry # "" BY <3>3, <3>4
      <3>6. Resolve({r \in config.regs : r.name = Pull(x, ask).registry}, Pull(x, ask)) = Resolve(config.regs, Pull(x, ask))
        BY <3>5, ConsultedAlone
      <3>7. alone.regs = {r \in config.regs : r.name = Pull(x, ask).registry} BY <1>4, <3>3
      <3> HIDE DEF alone
      <3> QED BY <3>6, <3>7
    <2> HIDE DEF found, one, alone
    <2> QED BY <2>1, <2>2
  <1> HIDE DEF index, own, found, one, got, gotOne, alone
  <1>8. index.valid => InstallByName(config, {}, ask).skills = InstallByName(alone, {}, ask).skills
    BY <1>2, <1>3, <1>5, <1>6, <1>7
  <1> QED BY <1>8 DEF OnlyDefaultMatters, alone, index

\* A distribution of a registry in use that is asked for by its publisher and version.
AsksFor(regs, ask, r, m) ==
    /\ r \in Consulted(regs, ask) /\ r.mode = "" /\ ask.registry = r.name /\ ask.registry # "" /\ ~ask.incubating
    /\ m \in r.dists /\ m.pub = ask.pub /\ m.v = ask.v /\ ask.pub # "" /\ m.status # "incubating"

\* Some candidate is such a distribution.
LEMMA DistributionMatches ==
  ASSUME NEW regs, RegistriesType(regs), NEW ask, NEW r, NEW m, AsksFor(regs, ask, r, m)
  PROVE  \E x \in Matching(LoadCandidates(regs, ask), ask) : x.v = ask.v
  <1>1. r \in regs /\ HeldType(r) BY DEF Consulted, RegistriesType, AsksFor
  <1>2. m \in r.dists /\ m.pub \in Federated(r, m.pub) BY DEF Federated, AsksFor
  <1>3. PICK x \in ScanRegistry(r) : x.v = m.v /\ x.pub = m.pub /\ x.stage \in {m.status, "active", "archived"}
    BY <1>1, <1>2, DistributedIsOffered
  <1>4. r \in Consulted(regs, ask) BY DEF AsksFor
  <1>5. x \in LoadCandidates(regs, ask) BY <1>3, <1>4 DEF LoadCandidates
  <1>6. x.v = ask.v /\ x.pub = ask.pub /\ x.stage # "incubating" BY <1>3 DEF AsksFor
  <1> QED BY <1>5, <1>6 DEF Matching

\* A directory is offered as itself only if its version is not distributed.
LEMMA WithoutManifest ==
  ASSUME NEW r, NEW g \in ScanRegistry(r), g.manifest = {}
  PROVE  \E d \in r.dirs : /\ DistributionOf(r, d) = {} /\ g.pub \in Federated(r, d.pub) /\ g.v = d.v
  <1>1. \/ \E n \in r.dists : \E pub \in Federated(r, n.pub) :
              \/ g = SourceItem(r, n.pub, pub, n.v, IF n.v = r.latest THEN "active" ELSE "archived", {n}, <<>>, n.at, 0)
              \/ r.kind # "http" /\ g = SourceItem(r, n.pub, pub, n.v, n.status, {n}, <<>>, n.at, 0)
        \/ \E d \in r.dirs : \E pub \in Federated(r, d.pub) :
              \/ \E n \in DistributionOf(r, d) : g = SourceItem(r, d.pub, pub, d.v, n.status, {n}, d.snap, d.at, d.dir)
              \/ DistributionOf(r, d) = {} /\ g = SourceItem(r, d.pub, pub, d.v, d.stage, {}, d.snap, d.at, d.dir)
    BY ScannedItem
  <1>2. ASSUME NEW up, NEW pub, NEW v, NEW stage, NEW n, NEW snap, NEW at, NEW dir,
               g = SourceItem(r, up, pub, v, stage, {n}, snap, at, dir)
        PROVE  FALSE
    <2>1. g.manifest = {n} BY <1>2 DEF SourceItem
    <2> QED BY <2>1
  <1>3. PICK d \in r.dirs : \E pub \in Federated(r, d.pub) :
           DistributionOf(r, d) = {} /\ g = SourceItem(r, d.pub, pub, d.v, d.stage, {}, d.snap, d.at, d.dir)
    BY <1>1, <1>2
  <1>4. ASSUME NEW pub \in Federated(r, d.pub), g = SourceItem(r, d.pub, pub, d.v, d.stage, {}, d.snap, d.at, d.dir)
        PROVE  g.pub \in Federated(r, d.pub) /\ g.v = d.v
    <2>1. g.pub = pub /\ g.v = d.v BY <1>4 DEF SourceItem
    <2> QED BY <2>1
  <1> QED BY <1>3, <1>4

\* A distribution that a new index shows of the default registry is the one it is installed from.
LEMMA PulledIsDistributed ==
  ASSUME NEW regs, RegistriesType(regs), NEW ask, NEW r, NEW m, AsksFor(regs, ask, r, m)
  PROVE  /\ Resolve(regs, ask) # {}
         /\ \A g \in Resolve(regs, ask) : \E d \in r.dists : g.manifest = {d} /\ d.v = ask.v
  <1>1. r \in regs /\ HeldType(r) /\ NamedOnce(regs) BY DEF Consulted, RegistriesType, AsksFor
  <1>2. ask.v # 0 BY <1>1 DEF HeldType, AsksFor
  <1>3. \A p : Federated(r, p) = {p} BY DEF Federated, AsksFor
  <1>4. \E x \in Matching(LoadCandidates(regs, ask), ask) : x.v = ask.v BY DistributionMatches
  <1>5. Resolve(regs, ask) # {} BY <1>2, <1>4, MatchIsResolved
  <1>6. ASSUME NEW g \in Resolve(regs, ask) PROVE \E d \in r.dists : g.manifest = {d} /\ d.v = ask.v
    <2>1. g \in Matching(LoadCandidates(regs, ask), ask) /\ g.v = ask.v BY <1>2, ResolvedIsCandidate
    <2>2. g.pub = ask.pub BY <2>1 DEF Matching, AsksFor
    <2>3. PICK q \in Consulted(regs, ask) :
             /\ g \in ScanRegistry(q) /\ g.reg = q.name
             /\ g.manifest = {} \/ \E n \in q.dists : g.manifest = {n} /\ n.pub = g.upstream /\ n.v = g.v
      BY ResolvedIsHeld
    <2>4. q \in regs /\ q.name = r.name BY <2>3 DEF Consulted, AsksFor
    <2>5. q = r BY <1>1, <2>4 DEF NamedOnce
    <2>6. ASSUME g.manifest = {} PROVE FALSE
      <3>1. g \in ScanRegistry(r) BY <2>3, <2>5
      <3>2. PICK d \in r.dirs : DistributionOf(r, d) = {} /\ g.pub \in Federated(r, d.pub) /\ g.v = d.v
        BY <2>6, <3>1, WithoutManifest
      <3>3. d.pub = ask.pub /\ d.v = ask.v BY <1>3, <2>1, <2>2, <3>2
      <3>4. m \in DistributionOf(r, d) BY <3>3 DEF DistributionOf, AsksFor
      <3> QED BY <3>2, <3>4
    <2> QED BY <2>1, <2>3, <2>5, <2>6
  <1> QED BY <1>5, <1>6

IsPrivate(found) == found.state = "private"

\* The skill found in the default registry is the only one.
LEMMA FoundIsOne ==
  ASSUME NEW index, IsFiniteSet(index.skills), NEW ask, IsPrivate(ResolveSkill(index, ask.query, ask.agent)),
         NEW x \in ResolveSkill(index, ask.query, ask.agent).skills
  PROVE  x \in index.skills /\ ResolveSkill(index, ask.query, ask.agent).skills = {x}
  <1>1. ResolveSkill(index, ask.query, ask.agent).state = "private" BY DEF IsPrivate
  <1>2. x \in index.skills BY <1>1, FoundFits
  <1>3. ResolveSkill(index, ask.query, ask.agent).skills = {x} BY <1>1, FoundFits
  <1> QED BY <1>2, <1>3

\* What InstalledByName says of a new index.
LEMMA NewIndexInstalled ==
  ASSUME NEW config, NEW ask, ModeIsKnown(ask)
  PROVE  LET index == BuildDiscoveryIndex(config)
             found == ResolveSkill(index, ask.query, ask.agent)
             got == UNION {Resolve(config.regs, Pull(x, ask)) : x \in found.skills}
             done == InstallByName(config, {}, ask)
         IN  IF index.valid /\ found.state = "private" /\ ask.mode = "auto"
             THEN done.skills = got /\ (got # {} => done.state = "installed") ELSE done.skills = {}
  <1>1. LoadDiscoveryIndex(config, {}) = BuildDiscoveryIndex(config) BY DEF LoadDiscoveryIndex
  <1>2. LET index == LoadDiscoveryIndex(config, {})
            found == ResolveSkill(index, ask.query, ask.agent)
            got == UNION {Resolve(config.regs, Pull(x, ask)) : x \in found.skills}
            done == InstallByName(config, {}, ask)
        IN  IF index.valid /\ found.state = "private" /\ ask.mode = "auto"
            THEN done.skills = got /\ (got # {} => done.state = "installed") ELSE done.skills = {}
    BY InstalledByName
  <1> QED BY <1>1, <1>2

\* What an up-to-date index offers from the default registry is installed from its distribution.
THEOREM OfferedIsInstalled ==
  ASSUME NEW config, ConfigType(config), NEW ask, ModeIsKnown(ask)
  PROVE  OfferedIsInstallable(config, ask)
  <1> DEFINE index == BuildDiscoveryIndex(config)
             found == ResolveSkill(index, ask.query, ask.agent)
             got == InstallByName(config, {}, ask)
  <1>1. ASSUME NEW x \in found.skills, NEW r \in config.regs,
               index.valid, found.state = "private", ask.mode = "auto", ask.v = 0,
               r.name = x.reg, r.mode = "", ~Blocked(r), x.pub # "",
               \A d \in r.dists : d.pub = x.pub /\ d.v = x.version => d.status # "incubating"
        PROVE  got.state = "installed" /\ \A g \in got.skills : \E d \in r.dists : g.manifest = {d} /\ d.v = x.version
    <2> DEFINE pull == Pull(x, ask)
               all == UNION {Resolve(config.regs, Pull(y, ask)) : y \in found.skills}
    <2>1. IsFiniteSet(index.skills) BY FiniteIndex
    <2>2. x \in index.skills /\ found.skills = {x}
      <3>1. found.state = "private" BY <1>1
      <3>2. x \in found.skills OBVIOUS
      <3>3. IsPrivate(found) BY <3>1 DEF IsPrivate
      <3> HIDE DEF index
      <3> QED BY <2>1, <3>2, <3>3, FoundIsOne
    <2>3. PICK q \in config.regs :
             /\ q.enabled /\ x.reg = q.name
             /\ \E m \in q.dists : m.pub = x.pub /\ m.v = x.version
             /\ x.version \in Nat \ {0}
      BY <2>2, ShownIsDistributed
    <2>4. RegistriesType(config.regs) BY DEF ConfigType
    <2>14. r.name # "" BY DEF ConfigType
    <2>5. q = r BY <1>1, <2>3, <2>4 DEF RegistriesType, NamedOnce
    <2>6. PICK m \in r.dists : m.pub = x.pub /\ m.v = x.version BY <2>3, <2>5
    <2>7. pull.registry = r.name /\ pull.pub = x.pub /\ ~pull.incubating /\ pull.v = x.version BY <1>1, PullNames
    <2>8. m.status # "incubating" BY <1>1, <2>6
    <2>9. LoadDiscoveryIndex(config, {}) = index BY DEF LoadDiscoveryIndex
    <2>10. got.skills = all /\ (all # {} => got.state = "installed")
      <3>1. IF index.valid /\ found.state = "private" /\ ask.mode = "auto"
            THEN got.skills = all /\ (all # {} => got.state = "installed") ELSE got.skills = {}
        BY <2>9, NewIndexInstalled
      <3> HIDE DEF index, found, got, all
      <3> QED BY <1>1, <3>1
    <2> HIDE DEF index, found, got, pull
    <2>11. all = Resolve(config.regs, pull) BY <2>2 DEF pull
    <2> HIDE DEF all
    <2>12. r \in Consulted(config.regs, pull) BY <1>1, <2>3, <2>5, <2>7 DEF Consulted
    <2>13. /\ Resolve(config.regs, pull) # {}
           /\ \A g \in Resolve(config.regs, pull) : \E d \in r.dists : g.manifest = {d} /\ d.v = pull.v
      <3>1. AsksFor(config.regs, pull, r, m) BY <1>1, <2>6, <2>7, <2>8, <2>12, <2>14 DEF AsksFor
      <3> QED BY <2>4, <3>1, PulledIsDistributed
    <2> QED BY <2>7, <2>10, <2>11, <2>13
  <1> QED BY <1>1 DEF OfferedIsInstallable

\* The filter of resolve and search and the signal of recommend are one rule.
THEOREM ViewsAreOne == \A x, agent : ViewsAgree(x, agent)
  <1> SUFFICES ASSUME NEW x, NEW agent PROVE SupportsTargetAgent(x, agent) = CompatibilitySignal(x, agent).compatible
    BY DEF ViewsAgree
  <1> DEFINE mode(compatible, bonus) == [compatible |-> compatible, bonus |-> bonus]
             blocked == x.verified.state \in Blocking
             supports == x.verified.state \in Supporting
             old == CASE x.verified.fresh = "fresh" -> 650 [] x.verified.fresh = "stale" -> 450 [] OTHER -> 550
             signal == CompatibilitySignal(x, agent)
  <1>1. signal = IF agent = "" THEN mode(TRUE, 500)
                 ELSE IF blocked THEN mode(FALSE, 0)
                 ELSE IF RuntimeReady(x, agent) THEN mode(TRUE, 650)
                 ELSE IF supports THEN mode(TRUE, old)
                 ELSE IF agent \in x.agents THEN mode(TRUE, 350) ELSE mode(FALSE, 0)
    BY DEF CompatibilitySignal
  <1>2. \A c, b : mode(c, b).compatible = c OBVIOUS
  <1>3. SupportsTargetAgent(x, agent) <=>
          agent = "" \/ (~blocked /\ (RuntimeReady(x, agent) \/ supports \/ agent \in x.agents))
    BY DEF SupportsTargetAgent
  <1>6. SupportsTargetAgent(x, agent) \in BOOLEAN BY DEF SupportsTargetAgent
  <1> HIDE DEF mode, blocked, supports, old, signal
  <1>4. ASSUME SupportsTargetAgent(x, agent) PROVE signal.compatible = TRUE
    <2>1. ASSUME agent = "" PROVE signal.compatible = TRUE
      <3>1. signal = mode(TRUE, 500) BY <1>1, <2>1
      <3> QED BY <3>1 DEF mode
    <2>2. ASSUME agent # "", ~blocked, RuntimeReady(x, agent) PROVE signal.compatible = TRUE
      <3>1. signal = mode(TRUE, 650) BY <1>1, <2>2
      <3> QED BY <3>1 DEF mode
    <2>3. ASSUME agent # "", ~blocked, ~RuntimeReady(x, agent), supports PROVE signal.compatible = TRUE
      <3>1. signal = mode(TRUE, old) BY <1>1, <2>3
      <3> QED BY <3>1 DEF mode
    <2>4. ASSUME agent # "", ~blocked, ~RuntimeReady(x, agent), ~supports, agent \in x.agents
          PROVE  signal.compatible = TRUE
      <3>1. signal = mode(TRUE, 350) BY <1>1, <2>4
      <3> QED BY <3>1 DEF mode
    <2> QED BY <1>3, <1>4, <2>1, <2>2, <2>3, <2>4
  <1>5. ASSUME ~SupportsTargetAgent(x, agent) PROVE signal.compatible = FALSE
    <2>1. agent # "" /\ (blocked \/ (~RuntimeReady(x, agent) /\ ~supports /\ agent \notin x.agents)) BY <1>3, <1>5
    <2>2. signal = mode(FALSE, 0) BY <1>1, <2>1
    <2> QED BY <1>2, <2>2
  <1> QED BY <1>4, <1>5, <1>6 DEF signal

\* What is known of a skill that is ranked: search terms matched, a quality up to 100, a check that was made or not.
RankedType(x) == x.matched \in Int /\ x.quality \in 0 .. 100 /\ x.checked \in BOOLEAN

\* What suits the agent gets 350 points at least, what does not suit it none.
LEMMA SignalBonus ==
  ASSUME NEW x, NEW agent
  PROVE  LET signal == CompatibilitySignal(x, agent)
         IN  /\ signal.bonus \in 0 .. 650
             /\ IF signal.compatible THEN signal.bonus >= 350 ELSE signal.bonus = 0
  <1> DEFINE mode(compatible, bonus) == [compatible |-> compatible, bonus |-> bonus]
             blocked == x.verified.state \in Blocking
             supports == x.verified.state \in Supporting
             old == CASE x.verified.fresh = "fresh" -> 650 [] x.verified.fresh = "stale" -> 450 [] OTHER -> 550
             signal == CompatibilitySignal(x, agent)
  <1>1. signal = IF agent = "" THEN mode(TRUE, 500)
                 ELSE IF blocked THEN mode(FALSE, 0)
                 ELSE IF RuntimeReady(x, agent) THEN mode(TRUE, 650)
                 ELSE IF supports THEN mode(TRUE, old)
                 ELSE IF agent \in x.agents THEN mode(TRUE, 350) ELSE mode(FALSE, 0)
    BY DEF CompatibilitySignal
  <1>2. old \in {450, 550, 650}
    <2>1. CASE x.verified.fresh = "fresh" BY <2>1
    <2>2. CASE x.verified.fresh = "stale" BY <2>2
    <2>3. CASE x.verified.fresh \notin {"fresh", "stale"} BY <2>3
    <2> QED BY <2>1, <2>2, <2>3
  <1> DEFINE Sensible == /\ signal.bonus \in 0 .. 650
                         /\ IF signal.compatible THEN signal.bonus >= 350 ELSE signal.bonus = 0
  <1>3. ASSUME NEW b \in {350, 450, 500, 550, 650}, signal = mode(TRUE, b) PROVE Sensible
    <2>1. signal.bonus = b BY <1>3
    <2>2. signal.compatible BY <1>3
    <2> HIDE DEF signal
    <2> QED BY <2>1, <2>2
  <1>4. ASSUME signal = mode(FALSE, 0) PROVE Sensible
    <2>1. signal.bonus = 0 BY <1>4
    <2>2. ~signal.compatible BY <1>4
    <2> HIDE DEF signal
    <2> QED BY <2>1, <2>2
  <1> HIDE DEF blocked, supports, old, mode, signal, Sensible
  <1>5. ASSUME agent = "" PROVE Sensible
    <2>1. signal = mode(TRUE, 500) BY <1>1, <1>5
    <2> QED BY <1>3, <2>1
  <1>6. ASSUME agent # "" /\ blocked PROVE Sensible
    <2>1. signal = mode(FALSE, 0) BY <1>1, <1>6
    <2> QED BY <1>4, <2>1
  <1>7. ASSUME agent # "" /\ ~blocked /\ RuntimeReady(x, agent) PROVE Sensible
    <2>1. signal = mode(TRUE, 650) BY <1>1, <1>7
    <2> QED BY <1>3, <2>1
  <1>8. ASSUME agent # "" /\ ~blocked /\ ~RuntimeReady(x, agent) /\ supports PROVE Sensible
    <2>1. signal = mode(TRUE, old) BY <1>1, <1>8
    <2>2. old = 450 \/ old = 550 \/ old = 650 BY <1>2
    <2>3. signal = mode(TRUE, 450) \/ signal = mode(TRUE, 550) \/ signal = mode(TRUE, 650) BY <2>1, <2>2
    <2>4. ASSUME signal = mode(TRUE, 450) PROVE Sensible BY <1>3, <2>4
    <2>5. ASSUME signal = mode(TRUE, 550) PROVE Sensible BY <1>3, <2>5
    <2>6. ASSUME signal = mode(TRUE, 650) PROVE Sensible BY <1>3, <2>6
    <2> QED BY <2>3, <2>4, <2>5, <2>6
  <1>9. ASSUME agent # "" /\ ~blocked /\ ~RuntimeReady(x, agent) /\ ~supports /\ agent \in x.agents PROVE Sensible
    <2>1. signal = mode(TRUE, 350) BY <1>1, <1>9
    <2> QED BY <1>3, <2>1
  <1>10. ASSUME agent # "" /\ ~blocked /\ ~RuntimeReady(x, agent) /\ ~supports /\ agent \notin x.agents PROVE Sensible
    <2>1. signal = mode(FALSE, 0) BY <1>1, <1>10
    <2> QED BY <1>4, <2>1
  <1> QED BY <1>5, <1>6, <1>7, <1>8, <1>9, <1>10 DEF Sensible, signal

\* The other merits of a skill are worth 260 points at most.
LEMMA MeritsCount ==
  ASSUME NEW x, RankedType(x), NEW agent, NEW default
  PROVE  \E merits \in 0 .. 260 :
            ScoreItem(x, agent, default) =
                (IF x.reg = default THEN 1000 ELSE 0) + CompatibilitySignal(x, agent).bonus + 100 * x.matched + merits
  <1> DEFINE t == TrustScore(x.trust)
             m == MaturityScore(x.maturity)
             c == IF x.checked THEN 10 ELSE 0
             b == CompatibilitySignal(x, agent).bonus
             d == IF x.reg = default THEN 1000 ELSE 0
  <1>1. t \in 0 .. 3
    <2>1. CASE x.trust = "verified" BY <2>1 DEF TrustScore
    <2>2. CASE x.trust = "attested" BY <2>2 DEF TrustScore
    <2>3. CASE x.trust = "installable" BY <2>3 DEF TrustScore
    <2>4. CASE x.trust \notin {"verified", "attested", "installable"} BY <2>4 DEF TrustScore
    <2> QED BY <2>1, <2>2, <2>3, <2>4
  <1>2. m \in 0 .. 3
    <2>1. CASE x.maturity = "stable" BY <2>1 DEF MaturityScore
    <2>2. CASE x.maturity = "beta" BY <2>2 DEF MaturityScore
    <2>3. CASE x.maturity = "experimental" BY <2>3 DEF MaturityScore
    <2>4. CASE x.maturity \notin {"stable", "beta", "experimental"} BY <2>4 DEF MaturityScore
    <2> QED BY <2>1, <2>2, <2>3, <2>4
  <1>3. c \in {0, 10} /\ d \in {0, 1000} OBVIOUS
  <1>4. b \in 0 .. 650 BY SignalBonus
  <1>5. ScoreItem(x, agent, default) = d + b + 100 * x.matched + 30 * t + 20 * m + x.quality + c BY DEF ScoreItem
  <1>6. x.matched \in Int /\ x.quality \in 0 .. 100 BY DEF RankedType
  <1> DEFINE merits == 30 * t + 20 * m + x.quality + c
  <1> HIDE DEF t, m, c, b, d
  <1>7. merits \in 0 .. 260 BY <1>1, <1>2, <1>3, <1>6
  <1>8. ScoreItem(x, agent, default) = d + b + 100 * x.matched + merits BY <1>1, <1>2, <1>3, <1>4, <1>5, <1>6
  <1> QED BY <1>7, <1>8 DEF b, d

\* No merit outweighs the default registry or compatibility.
THEOREM RankingIsRight ==
  ASSUME NEW x, NEW y, RankedType(x), RankedType(y), NEW agent, NEW default
  PROVE  RanksSensibly(x, y, agent, default)
  <1> DEFINE fx == CompatibilitySignal(x, agent).compatible
             fy == CompatibilitySignal(y, agent).compatible
             bx == CompatibilitySignal(x, agent).bonus
             by == CompatibilitySignal(y, agent).bonus
             sx == ScoreItem(x, agent, default)
             sy == ScoreItem(y, agent, default)
  <1>1. PICK mx \in 0 .. 260 : sx = (IF x.reg = default THEN 1000 ELSE 0) + bx + 100 * x.matched + mx BY MeritsCount
  <1>2. PICK my \in 0 .. 260 : sy = (IF y.reg = default THEN 1000 ELSE 0) + by + 100 * y.matched + my BY MeritsCount
  <1>3. bx \in 0 .. 650 /\ by \in 0 .. 650 BY SignalBonus
  <1>4. (fx => bx >= 350) /\ (~fy => by = 0) BY SignalBonus
  <1>5. x.matched \in Int /\ y.matched \in Int BY DEF RankedType
  <1> HIDE DEF fx, fy, bx, by, sx, sy
  <1>6. ASSUME x.matched = y.matched, x.reg = default, y.reg # default PROVE sx > sy
    BY <1>1, <1>2, <1>3, <1>5, <1>6
  <1>7. ASSUME x.matched = y.matched, (x.reg = default) <=> (y.reg = default), fx, ~fy PROVE sx > sy
    <2>1. bx >= 350 /\ by = 0 BY <1>4, <1>7
    <2> QED BY <1>1, <1>2, <1>3, <1>5, <1>7, <2>1
  <1> QED BY <1>6, <1>7 DEF RanksSensibly, fx, fy, sx, sy

\* What the rules of sources and discovery are asked of: versions, registries that validate_registry_config and
\* the scanners leave with the words, numbers and names they have, and skills as the recommender describes them.
SourceInput ==
    /\ rule = "versions" => case[1] \in VersionType /\ case[2] \in VersionType /\ case[3] \in VersionType
    /\ rule = "registry" => RegistryType(case)
    /\ rule = "source" => RegistriesType(case.regs)
    /\ rule = "named" => ConfigType(case.config) /\ (\A f \in case.file : ConfigType(f)) /\ ModeIsKnown(case.ask)
    /\ rule = "ranked" => RankedType(case.x) /\ RankedType(case.y)

\* Of any versions, registries, indexes and requests: versions are ordered, a skill comes from a registry that may
\* serve it, and what discovery offers is what is installed (install, registry and discovery of the command line).
THEOREM SourcesCorrect == SourceInput => SourcesAreRight
  <1> SUFFICES ASSUME SourceInput PROVE SourcesAreRight
    OBVIOUS
  <1>1. VersionsAreOrdered BY VersionsOrdered DEF VersionsAreOrdered, SourceInput
  <1>2. RangesAreSafe BY RangesNeverBreakAnything DEF RangesAreSafe, SourceInput
  <1>3. KeysOrderVersions BY KeysOrder DEF KeysOrderVersions, SourceInput
  <1>4. SyncFollowsPolicy BY SyncAgrees DEF SyncFollowsPolicy, SourceInput
  <1>5. rule = "source" => /\ NamedOnce(case.regs)
                           /\ \A r \in case.regs : RegistryType(r) /\ r.priority \in Int
    BY DEF SourceInput, RegistriesType, RegistryType
  <1>6. CachesAreFreshEnough BY <1>5, CachesAreFresh DEF CachesAreFreshEnough
  <1>7. SourcesAreAsked BY <1>5, AskedIsInstalled DEF SourcesAreAsked
  <1>8. ManifestsMatch BY ManifestsFit DEF ManifestsMatch
  <1>9. PriorityDecides BY <1>5, PriorityServes DEF PriorityDecides
  <1>10. HeldVersionsAreFound BY HeldIsFound DEF HeldVersionsAreFound, SourceInput
  <1>11. DescribedInstalled BY DescribedIsInstalled DEF DescribedInstalled, SourceInput
  <1>12. OthersDoNotMatter BY DefaultDecides DEF OthersDoNotMatter, SourceInput
  <1>13. OfferedInstalls BY OfferedIsInstalled DEF OfferedInstalls, SourceInput
  <1>14. AgentViewsAgree BY ViewsAreOne DEF AgentViewsAgree
  <1>15. RankingIsSensible BY RankingIsRight DEF RankingIsSensible, SourceInput
  <1> QED
    BY <1>1, <1>2, <1>3, <1>4, <1>6, <1>7, <1>8, <1>9, <1>10, <1>11, <1>12, <1>13, <1>14, <1>15 DEF SourcesAreRight

-------------------------------------------------------------------------------
(* The planning of an install *)

\* What the search has selected for p and what it still requires: one candidate per name, no conflict,
\* each dependency met or pending, and nothing selected that the root does not need.
SearchSound(p, sel, pend) ==
    /\ IdentityKey(p.root) \in DOMAIN sel /\ sel[IdentityKey(p.root)] = p.root
    /\ \A id \in DOMAIN sel : sel[id] \in Everyone(p) /\ IdentityKey(sel[id]) = id
    /\ \A id, k \in DOMAIN sel : id # k => sel[id].name # sel[k].name /\ ~Conflicting(sel[id], sel[k])
    /\ \A id \in DOMAIN sel : \A d \in sel[id].deps :
          \/ \E r \in pend : r.dep = d
          \/ IdentityKey(d) \in DOMAIN sel /\ Meets(sel[IdentityKey(d)], d)
    /\ \A r \in pend : \E id \in DOMAIN sel : r.dep \in sel[id].deps
    /\ \A T \in SUBSET DOMAIN sel : IdentityKey(p.root) \in T /\ Closed(sel, T) => T = DOMAIN sel

\* A call that tries candidates for one identity, n identities being selected.
CallSound(p, call, n) ==
    /\ SearchSound(p, call.selected, call.rest \cup call.reqs)
    /\ call.key \notin DOMAIN call.selected
    /\ call.reqs # {} /\ \A r \in call.reqs : IdentityKey(r.dep) = call.key
    /\ \A c \in call.left : IdentityKey(c) = call.key /\ SatisfiesAll(c, call.reqs)
    /\ IsFiniteSet(DOMAIN call.selected) /\ Cardinality(DOMAIN call.selected) = n

\* What has been selected and what each open call goes back to.
SearchInv ==
    Exact(problem) =>
        /\ \A n \in DOMAIN choices : CallSound(problem, choices[n], n)
        /\ phase = "resolving" =>
              /\ SearchSound(problem, selected, required)
              /\ IsFiniteSet(DOMAIN selected) /\ Cardinality(DOMAIN selected) = Len(choices) + 1
        /\ phase \in {"found", "ordering", "planned"} => SearchSound(problem, selected, {})

Within(sel, S) == \A id \in DOMAIN sel : sel[id] \in S

\* No consistent selection is lost: the present one is part of it, or an open call has it to try.
StillPossible(S) ==
    \/ phase \in {"found", "ordering", "planned", "unsafe", "overflow"}
    \/ phase = "resolving" /\ Within(selected, S)
    \/ \E n \in DOMAIN choices :
          Within(choices[n].selected, S) /\ \E c \in choices[n].left : c \in S

CompleteInv ==
    /\ phase = "unresolved" => choices = <<>>
    /\ Exact(problem) =>
        \A S \in SUBSET problem.catalog : Consistent(S \cup {problem.root}) => StillPossible(S \cup {problem.root})

Applied == {applyOrder[n] : n \in DOMAIN applyOrder}

Visiting == {visits[n].id : n \in DOMAIN visits}

\* Visited is what is applied and what is being visited, each once.
EachOnce ==
    /\ visited = Applied \cup Visiting /\ visited \subseteq DOMAIN selected
    /\ IsInjective(applyOrder) /\ Visiting \cap Applied = {}
    /\ \A m, n \in DOMAIN visits : m < n => visits[n].id # visits[m].id

\* Whoever is being visited needs those visited inside, and has only dependencies left.
Nested ==
    /\ \A m, n \in DOMAIN visits : m < n => visits[n].id \in Needed(selected, visits[m].id)
    /\ \A n \in DOMAIN visits :
          /\ visits[n].left \subseteq selected[visits[n].id].deps
          /\ \A d \in selected[visits[n].id].deps :
                IdentityKey(d) \in DOMAIN selected => d \in visits[n].left \/ IdentityKey(d) \in visited

\* What is applied comes after what it needs, or is needed by it.
AppliedAfter ==
    \A n \in DOMAIN applyOrder : \A k \in NeedsDirectly(selected, applyOrder[n]) :
        /\ k \in visited
        /\ (\E m \in 1 .. n - 1 : applyOrder[m] = k) \/ applyOrder[n] \in Needed(selected, k)

OrderInv == EachOnce /\ Nested /\ AppliedAfter

\* The order, and the check it is made after.
OrderedInv ==
    /\ phase \in {"ordering", "planned"} => FinalState(problem, selected) /\ RootKey \in visited /\ OrderInv
    /\ phase = "planned" => visits = <<>>
    /\ phase \in {"resolving", "choosing", "found"} => visits = <<>> /\ applyOrder = <<>>
    

PlanInv == PlanTypeOK /\ SearchInv /\ CompleteInv /\ OrderedInv

\* An identity says the name.
LEMMA SameName ==
  ASSUME NEW x, NEW y, IdentityKey(x) = IdentityKey(y)
  PROVE  x.name = y.name
  <1>1. CASE x.pub = "" /\ y.pub = "" BY <1>1 DEF IdentityKey
  <1>2. CASE x.pub # "" /\ y.pub # "" BY <1>2 DEF IdentityKey
  <1>3. ASSUME NEW a, NEW b, NEW c PROVE <<a>> # <<b, c>> OBVIOUS
  <1>4. x.pub = "" <=> y.pub = "" BY <1>3 DEF IdentityKey
  <1> QED BY <1>1, <1>2, <1>4

\* What is needed directly is needed, and so is what that needs.
LEMMA DirectIsNeeded ==
  ASSUME NEW sel, NEW id, NEW k \in NeedsDirectly(sel, id)
  PROVE  k \in Needed(sel, id)
  BY DEF Needed, NeedsDirectly

LEMMA NeededGoesOn ==
  ASSUME NEW sel, NEW id, NEW k \in Needed(sel, id), NEW j \in NeedsDirectly(sel, k)
  PROVE  j \in Needed(sel, id)
  <1>1. j \in DOMAIN sel BY DEF NeedsDirectly
  <1>2. ASSUME NEW T \in SUBSET DOMAIN sel, NeedsDirectly(sel, id) \subseteq T, Closed(sel, T)
        PROVE  j \in T
    <2>1. k \in T BY <1>2 DEF Needed
    <2> QED BY <2>1, <1>2 DEF Closed
  <1> QED BY <1>1, <1>2 DEF Needed

\* Candidates of one identity are one in a consistent selection.
LEMMA OnePerIdentity ==
  ASSUME NEW S, Consistent(S), NEW c \in S, NEW e \in S, IdentityKey(c) = IdentityKey(e)
  PROVE  c = e
  BY SameName DEF Consistent

LEMMA ConflictsAreMutual ==
  ASSUME NEW c, NEW d
  PROVE  Conflicting(c, d) <=> Conflicting(d, c)
  BY DEF Conflicting

\* Satisfying requirements is meeting the dependency of each.
LEMMA SatisfiesEach ==
  ASSUME NEW c, NEW reqs, reqs # {}
  PROVE  SatisfiesAll(c, reqs) <=> \A r \in reqs : Meets(c, r.dep)
  <1>1. ASSUME NEW r \in reqs
        PROVE  Meets(c, r.dep) <=> /\ c.installable
                                   /\ r.dep.reg \in {"", c.reg}
                                   /\ c.stage = "incubating" => r.dep.inc
                                   /\ c.stage = "archived" => ConstraintIsExact(r.dep.expr)
                                   /\ VersionSatisfies(c.v, r.dep.expr)
    <2> DEFINE one == [dep |-> r.dep]
    <2>1. one.dep = r.dep OBVIOUS
    <2> HIDE DEF one
    <2>2. Meets(c, r.dep) <=> SatisfiesAll(c, {one}) BY DEF Meets, one
    <2> QED BY <2>1, <2>2 DEF SatisfiesAll
  <1> QED BY <1>1 DEF SatisfiesAll

\* A candidate's requirements are its dependencies.
LEMMA RequirementsOf ==
  ASSUME NEW c
  PROVE  /\ \A d \in c.deps : \E r \in Requirements(c) : r.dep = d
         /\ \A r \in Requirements(c) : r.dep \in c.deps
  <1>1. ASSUME NEW d \in c.deps PROVE \E r \in Requirements(c) : r.dep = d
    <2> DEFINE r == [dep |-> d, from |-> c.reg]
    <2>1. r \in Requirements(c) BY DEF Requirements
    <2>2. r.dep = d OBVIOUS
    <2> QED BY <2>1, <2>2
  <1>2. ASSUME NEW r \in Requirements(c) PROVE r.dep \in c.deps BY DEF Requirements
  <1> QED BY <1>1, <1>2

\* The search starts with the root and what it needs.
LEMMA StartIsSound ==
  ASSUME NEW p
  PROVE  SearchSound(p, [id \in {IdentityKey(p.root)} |-> p.root], Requirements(p.root))
  <1> DEFINE key == IdentityKey(p.root)
             sel == [id \in {key} |-> p.root]
  <1>1. DOMAIN sel = {key} /\ sel[key] = p.root OBVIOUS
  <1> HIDE DEF sel
  <1>2. \A d \in p.root.deps : \E r \in Requirements(p.root) : r.dep = d BY RequirementsOf
  <1>3. \A r \in Requirements(p.root) : r.dep \in p.root.deps BY RequirementsOf
  <1>4. p.root \in Everyone(p) BY DEF Everyone
  <1>5. \A T \in SUBSET DOMAIN sel : key \in T => T = DOMAIN sel BY <1>1
  <1> HIDE DEF key
  <1>6. SearchSound(p, sel, Requirements(p.root)) BY <1>1, <1>2, <1>3, <1>4, <1>5 DEF SearchSound, key
  <1> QED BY <1>6 DEF sel, key

\* A requirement that the selected version meets is settled (_resolve_recursive).
LEMMA ReuseIsSound ==
  ASSUME NEW p, NEW sel, NEW pend, NEW key \in DOMAIN sel, SearchSound(p, sel, pend),
         NEW group, group = {r \in pend : IdentityKey(r.dep) = key}, SatisfiesAll(sel[key], group)
  PROVE  SearchSound(p, sel, pend \ group)
  <1>1. \A r \in group : Meets(sel[key], r.dep) BY SatisfiesEach
  <1>2. ASSUME NEW id \in DOMAIN sel, NEW d \in sel[id].deps
        PROVE  \/ \E r \in pend \ group : r.dep = d
               \/ IdentityKey(d) \in DOMAIN sel /\ Meets(sel[IdentityKey(d)], d)
    <2>1. CASE \E r \in group : r.dep = d
      <3>1. PICK r \in group : r.dep = d BY <2>1
      <3> QED BY <3>1, <1>1
    <2>2. CASE ~\E r \in group : r.dep = d BY <2>2 DEF SearchSound
    <2> QED BY <2>1, <2>2
  <1> QED BY <1>2 DEF SearchSound

\* Whoever is selected for a requirement takes over its place (_resolve_candidates).
LEMMA ChoiceIsSound ==
  ASSUME NEW p, NEW call, NEW n \in Nat, CallSound(p, call, n), NEW c \in call.left, c \in Everyone(p),
         ~SelectedConflict(c, call.selected)
  PROVE  LET sel == Selecting(call.selected, c) IN
         /\ SearchSound(p, sel, call.rest \cup Requirements(c))
         /\ IsFiniteSet(DOMAIN sel) /\ Cardinality(DOMAIN sel) = n + 1
  <1> DEFINE old == call.selected
             sel == Selecting(old, c)
             key == call.key
             was == call.rest \cup call.reqs
             pend == call.rest \cup Requirements(c)
             root == IdentityKey(p.root)
  <1>1. /\ SearchSound(p, old, was) /\ key \notin DOMAIN old
        /\ \A r \in call.reqs : IdentityKey(r.dep) = key
        /\ IdentityKey(c) = key /\ SatisfiesAll(c, call.reqs) /\ call.reqs # {}
        /\ IsFiniteSet(DOMAIN old) /\ Cardinality(DOMAIN old) = n
    BY DEF CallSound
  <1>2. \A r \in call.reqs : Meets(c, r.dep) BY <1>1, SatisfiesEach
  <1>3. /\ DOMAIN sel = DOMAIN old \cup {key} /\ sel[key] = c
        /\ \A id \in DOMAIN old : sel[id] = old[id]
    BY <1>1 DEF Selecting
  <1>4. \A id \in DOMAIN old : old[id].name # c.name /\ ~Conflicting(c, old[id]) /\ ~Conflicting(old[id], c)
    BY <1>1, ConflictsAreMutual DEF SelectedConflict
  <1>5. \A d \in c.deps : \E r \in pend : r.dep = d BY RequirementsOf
  <1>6. \A r \in pend : r \in was \/ r.dep \in c.deps BY RequirementsOf
  <1> HIDE DEF sel
  <1>7. root \in DOMAIN sel /\ sel[root] = p.root BY <1>1, <1>3 DEF SearchSound
  <1>8. \A id \in DOMAIN sel : sel[id] \in Everyone(p) /\ IdentityKey(sel[id]) = id
    BY <1>1, <1>3 DEF SearchSound
  <1>9. \A id, k \in DOMAIN sel : id # k => sel[id].name # sel[k].name /\ ~Conflicting(sel[id], sel[k])
    BY <1>1, <1>3, <1>4 DEF SearchSound
  <1>10. ASSUME NEW id \in DOMAIN sel, NEW d \in sel[id].deps
         PROVE  \/ \E r \in pend : r.dep = d
                \/ IdentityKey(d) \in DOMAIN sel /\ Meets(sel[IdentityKey(d)], d)
    <2>1. CASE id = key BY <2>1, <1>3, <1>5
    <2>2. CASE id # key
      <3>1. id \in DOMAIN old /\ d \in old[id].deps BY <2>2, <1>3
      <3>2. \/ \E r \in was : r.dep = d
            \/ IdentityKey(d) \in DOMAIN old /\ Meets(old[IdentityKey(d)], d)
        BY <1>1, <3>1 DEF SearchSound
      <3>3. ASSUME NEW r \in was, r.dep = d, r \notin call.rest
            PROVE  IdentityKey(d) = key /\ Meets(c, d)
        BY <3>3, <1>1, <1>2
      <3> QED BY <3>2, <3>3, <1>3
    <2> QED BY <2>1, <2>2
  <1>11. \A r \in pend : \E id \in DOMAIN sel : r.dep \in sel[id].deps
    BY <1>1, <1>3, <1>6 DEF SearchSound
  <1>12. ASSUME NEW T \in SUBSET DOMAIN sel, root \in T, Closed(sel, T)
         PROVE  T = DOMAIN sel
    <2> DEFINE U == T \ {key}
    <2>1. U \in SUBSET DOMAIN old BY <1>3
    <2>2. \A id \in DOMAIN old : NeedsDirectly(old, id) = NeedsDirectly(sel, id) \ {key}
      BY <1>1, <1>3 DEF NeedsDirectly
    <2>3. Closed(old, U) BY <1>12, <2>1, <2>2 DEF Closed
    <2>4. root \in U BY <1>12, <1>1 DEF SearchSound
    <2>5. U = DOMAIN old BY <2>1, <2>3, <2>4, <1>1 DEF SearchSound
    <2>6. PICK r \in call.reqs : TRUE BY <1>1
    <2>7. PICK id \in DOMAIN old : r.dep \in old[id].deps BY <2>6, <1>1 DEF SearchSound
    <2>8. IdentityKey(r.dep) \in NeedsDirectly(sel, id) BY <2>6, <2>7, <1>1, <1>3 DEF NeedsDirectly
    <2>9. key \in T BY <2>5, <2>7, <2>8, <2>6, <1>1, <1>12 DEF Closed
    <2> QED BY <2>5, <2>9, <1>3
  <1>13. SearchSound(p, sel, pend) BY <1>7, <1>8, <1>9, <1>10, <1>11, <1>12 DEF SearchSound
  <1>14. IsFiniteSet(DOMAIN sel) /\ Cardinality(DOMAIN sel) = n + 1 BY <1>1, <1>3, FS_AddElement
  <1> QED BY <1>13, <1>14 DEF sel

\* A consistent selection that contains all that is selected has one skill for the requirements of an identity.
LEMMA OneMeetsAll ==
  ASSUME NEW p, NEW sel, NEW pend, SearchSound(p, sel, pend), NEW S, Consistent(S), Within(sel, S),
         NEW group \in SUBSET pend, NEW r \in group, \A q \in group : IdentityKey(q.dep) = IdentityKey(r.dep)
  PROVE  \E e \in S : /\ IdentityKey(e) = IdentityKey(r.dep)
                      /\ SatisfiesAll(e, group) /\ Compatible(group)
  <1>1. ASSUME NEW q \in group PROVE \E e \in S : IdentityKey(e) = IdentityKey(q.dep) /\ Meets(e, q.dep)
    <2>1. PICK id \in DOMAIN sel : q.dep \in sel[id].deps BY DEF SearchSound
    <2>2. sel[id] \in S BY DEF Within
    <2> QED BY <2>1, <2>2 DEF Consistent, Chosen
  <1>2. PICK e \in S : IdentityKey(e) = IdentityKey(r.dep) /\ Meets(e, r.dep) BY <1>1
  <1>3. \A q \in group : Meets(e, q.dep) BY <1>1, <1>2, OnePerIdentity
  <1>4. SatisfiesAll(e, group) BY <1>3, SatisfiesEach
  <1>5. Compatible(group) BY <1>4 DEF SatisfiesAll, Compatible
  <1> QED BY <1>2, <1>4, <1>5

\* Sequences without their last element, and with its field left replaced.
LEMMA FrontOf ==
  ASSUME NEW S, NEW s \in Seq(S), s # <<>>
  PROVE  /\ Len(s) \in Nat \ {0} /\ Last(s) = s[Len(s)] /\ Last(s) \in S
         /\ Front(s) \in Seq(S) /\ Len(Front(s)) = Len(s) - 1
         /\ \A i \in 1 .. Len(s) - 1 : Front(s)[i] = s[i]
  <1> DEFINE n == Len(s) - 1
  <1>1. Len(s) \in Nat /\ Len(s) # 0 BY EmptySeq
  <1>2. n \in Int /\ n >= 0 /\ \A i \in 1 .. n : s[i] \in S BY <1>1
  <1>3. Front(s) = SubSeq(s, 1, n) BY DEF Front
  <1>4. s[Len(s)] \in S BY <1>1
  <1> HIDE DEF n
  <1>5. /\ SubSeq(s, 1, n) \in Seq(S)
        /\ Len(SubSeq(s, 1, n)) = IF 1 <= n THEN n - 1 + 1 ELSE 0
        /\ \A i \in 1 .. n - 1 + 1 : SubSeq(s, 1, n)[i] = s[1 + i - 1]
    <2>1. 1 \in Int OBVIOUS
    <2> QED BY ONLY <2>1, <1>2, SubSeqProperties
  <1>6. Front(s) \in Seq(S) /\ Len(Front(s)) = n /\ \A i \in 1 .. n : Front(s)[i] = s[i]
    BY <1>2, <1>3, <1>5
  <1> QED BY <1>1, <1>4, <1>6 DEF Last, n

\* A sequence whose last element has less left.
Leaving(x, left) == [x EXCEPT !.left = left]

LastLeaving(s, left) == [s EXCEPT ![Len(s)] = Leaving(Last(s), left)]

LEMMA LastLeft ==
  ASSUME NEW S, NEW s \in Seq(S), s # <<>>, NEW left, Leaving(Last(s), left) \in S
  PROVE  LET t == LastLeaving(s, left)
         IN  /\ t \in Seq(S) /\ Len(t) = Len(s) /\ t # <<>> /\ t[Len(s)] = Leaving(Last(s), left)
             /\ \A i \in 1 .. Len(s) - 1 : t[i] = s[i]
  <1> DEFINE e == Leaving(Last(s), left)
             t == LastLeaving(s, left)
  <1>1. Len(s) \in Nat \ {0} /\ e \in S BY FrontOf
  <1>2. t = [s EXCEPT ![Len(s)] = e] BY DEF LastLeaving
  <1> HIDE DEF e, t
  <1>3. /\ t \in Seq(S) /\ Len(t) = Len(s)
        /\ \A i \in 1 .. Len(s) : t[i] = IF i = Len(s) THEN e ELSE s[i]
    BY <1>1, <1>2, ExceptSeq
  <1>4. t # <<>> BY <1>1, <1>3
  <1>5. t \in Seq(S) /\ Len(t) = Len(s) /\ t # <<>> /\ t[Len(s)] = e /\ \A i \in 1 .. Len(s) - 1 : t[i] = s[i]
    BY <1>1, <1>3, <1>4
  <1> QED BY <1>5 DEF t, e

LEMMA LastLeavingIs ==
  ASSUME NEW S, NEW s \in Seq(S), s # <<>>, NEW left
  PROVE  [s EXCEPT ![Len(s)].left = left] = LastLeaving(s, left)
  <1>1. Last(s) = s[Len(s)] BY DEF Last
  <1> QED BY <1>1 DEF LastLeaving, Leaving

\* Selecting a candidate gives a selection of the problem.
LEMMA SelectingTypes ==
  ASSUME NEW p, NEW chosen \in Selections(p), NEW c \in p.catalog
  PROVE  Selecting(chosen, c) \in Selections(p) /\ Requirements(c) \subseteq AllRequirements(p)
  <1>1. PICK T \in SUBSET Identities(p) : IdentityKey(p.root) \in T /\ chosen \in [T -> Everyone(p)]
    BY DEF Selections
  <1>2. c \in Everyone(p) /\ IdentityKey(c) \in Identities(p) BY DEF Everyone, Identities
  <1> DEFINE U == T \cup {IdentityKey(c)}
  <1>3. U \in SUBSET Identities(p) /\ IdentityKey(p.root) \in U BY <1>1, <1>2
  <1>4. Selecting(chosen, c) \in [U -> Everyone(p)] BY <1>1, <1>2 DEF Selecting
  <1>5. Selecting(chosen, c) \in Selections(p) BY <1>3, <1>4 DEF Selections
  <1>6. Requirements(c) \subseteq AllRequirements(p) BY <1>2 DEF AllRequirements
  <1> QED BY <1>5, <1>6

LEMMA SelectionType ==
  ASSUME NEW p, NEW chosen \in Selections(p)
  PROVE  /\ DOMAIN chosen \subseteq Identities(p) /\ IdentityKey(p.root) \in DOMAIN chosen
         /\ \A id \in DOMAIN chosen : chosen[id] \in Everyone(p) /\ chosen[id].deps \subseteq Dependencies(p)
  BY DEF Selections, Dependencies

\* The search and the visits hold skills of the problem only (service.py, plan_builder.py).
THEOREM PlanTypeCorrect == PlanSpec => []PlanTypeOK
  <1>1. PlanInit => PlanTypeOK
    <2> SUFFICES ASSUME PlanInit PROVE PlanTypeOK
      OBVIOUS
    <2> DEFINE T == {RootKey}
    <2>1. problem.root \in Everyone(problem) BY DEF Everyone
    <2>2. T \in SUBSET Identities(problem) /\ IdentityKey(problem.root) \in T BY <2>1 DEF Identities, RootKey
    <2>3. selected \in [T -> Everyone(problem)] BY <2>1 DEF PlanInit, RootKey
    <2>4. selected \in Selections(problem) BY <2>2, <2>3 DEF Selections
    <2>5. required \subseteq AllRequirements(problem) BY <2>1 DEF PlanInit, AllRequirements
    <2> QED BY <2>4, <2>5 DEF PlanInit, PlanTypeOK
  <1>2. PlanTypeOK /\ [PlanNext]_planVars => PlanTypeOK'
    <2> SUFFICES ASSUME PlanTypeOK, [PlanNext]_planVars PROVE PlanTypeOK'
      OBVIOUS
    <2> USE DEF PlanTypeOK
    <2>1. CASE Finds BY <2>1 DEF Finds, searchVars, orderVars
    <2>2. CASE GivesUp
      <3>1. choices # <<>> BY <2>2 DEF GivesUp
      <3>2. Front(choices) \in Seq(Calls(problem)) BY <3>1, FrontOf
      <3> QED BY <2>2, <3>2 DEF GivesUp, Raises, orderVars
    <2>3. CASE Validates
      <3>1. RootKey \in DOMAIN selected /\ selected[RootKey].deps \subseteq Dependencies(problem) /\ RootKey \in Identities(problem)
        BY SelectionType DEF RootKey
      <3>2. Visit(RootKey) \in Visits(problem) BY <3>1 DEF Visit, Visits
      <3>3. <<Visit(RootKey)>> \in Seq(Visits(problem)) /\ <<Visit(RootKey)>> # <<>>
        BY <3>2
      <3>4. \/ visits' = <<Visit(RootKey)>> /\ visited' = {RootKey} /\ phase' = "ordering"
            \/ visits' = visits /\ visited' = visited /\ phase' = "unsafe"
        BY <2>3 DEF Validates
      <3>5. UNCHANGED <<problem, searchVars, applyOrder>> BY <2>3 DEF Validates
      <3>6. RootKey \in Identities(problem) BY <3>1
      <3> HIDE DEF RootKey
      <3> QED BY <3>3, <3>4, <3>5, <3>6 DEF searchVars
    <2>4. CASE Applies
      <3>1. visits # <<>> BY <2>4 DEF Applies
      <3>2. /\ Front(visits) \in Seq(Visits(problem))
            /\ Len(visits) \in Nat \ {0} /\ Len(Front(visits)) = Len(visits) - 1
            /\ Innermost \in Visits(problem)
        BY <3>1, FrontOf DEF Innermost
      <3>3. Len(visits) # 1 => Front(visits) # <<>> BY <3>2
      <3>4. Append(applyOrder, Innermost.id) \in Seq(Identities(problem)) BY <3>2 DEF Visits
      <3> QED BY <2>4, <3>2, <3>3, <3>4 DEF Applies, searchVars
    <2>5. ASSUME NEW key, NEW group, Disagrees(key, group) PROVE PlanTypeOK'
      BY <2>5 DEF Disagrees, Raises, searchVars, orderVars
    <2>6. ASSUME NEW key, NEW group, Reuses(key, group) PROVE PlanTypeOK'
      BY <2>6 DEF Reuses, orderVars
    <2>7. ASSUME NEW r \in required, NEW group, OpensChoice(IdentityKey(r.dep), group) PROVE PlanTypeOK'
      <3> DEFINE call == [key |-> IdentityKey(r.dep), reqs |-> group, left |-> MatchingCandidates(group),
                          selected |-> selected, rest |-> required \ group]
      <3>1. group \subseteq AllRequirements(problem) BY <2>7 DEF OpensChoice, Resolves, NextGroup
      <3>2. MatchingCandidates(group) \subseteq problem.catalog BY DEF MatchingCandidates, Pool
      <3>3. r.dep \in Dependencies(problem) BY RequirementsOf DEF Dependencies, AllRequirements
      <3>4. call \in Calls(problem)
        <4>1. required \ group \subseteq AllRequirements(problem) OBVIOUS
        <4> QED BY <3>1, <3>2, <3>3, <4>1 DEF Calls
      <3> HIDE DEF call
      <3>5. Append(choices, call) \in Seq(Calls(problem)) /\ Append(choices, call) # <<>> BY <3>4
      <3>6. \/ choices' = Append(choices, call) /\ phase' = "choosing"
            \/ choices' = choices /\ phase' = "overflow"
        BY <2>7 DEF OpensChoice, call
      <3>7. UNCHANGED <<problem, selected, required, orderVars>> BY <2>7 DEF OpensChoice
      <3> QED BY <3>5, <3>6, <3>7 DEF orderVars
    <2>8. ASSUME NEW c \in Call.left, phase = "choosing", RejectsCandidate(c) \/ TriesCandidate(c) PROVE PlanTypeOK'
      <3>1. choices # <<>> BY <2>8
      <3>2. Call \in Calls(problem) BY <3>1, FrontOf DEF Call
      <3>3. /\ Call.left \subseteq problem.catalog /\ Call.selected \in Selections(problem)
            /\ Call.rest \subseteq AllRequirements(problem)
        BY <3>2 DEF Calls
      <3> DEFINE left == Alternatives(Call.left, c)
                 t == LastLeaving(choices, left)
      <3>4. Leaving(Last(choices), left) \in Calls(problem) BY <3>2, <3>3 DEF Calls, Alternatives, Leaving, Call
      <3>5. t \in Seq(Calls(problem)) /\ t # <<>>
        <4> HIDE DEF left
        <4> QED BY <3>1, <3>4, LastLeft
      <3>6. choices' = t
        <4>1. choices' = [choices EXCEPT ![Len(choices)].left = left] BY <2>8 DEF RejectsCandidate, TriesCandidate, Passes
        <4> HIDE DEF left
        <4> QED BY <4>1, <3>1, LastLeavingIs
      <3> HIDE DEF t
      <3>7. CASE RejectsCandidate(c) BY <3>5, <3>6, <3>7 DEF RejectsCandidate, orderVars
      <3>8. CASE TriesCandidate(c)
        <4>1. /\ Selecting(Call.selected, c) \in Selections(problem) /\ Requirements(c) \subseteq AllRequirements(problem)
          BY <3>3, SelectingTypes
        <4> QED BY <4>1, <3>3, <3>5, <3>6, <3>8 DEF TriesCandidate, orderVars
      <3> QED BY <2>8, <3>7, <3>8
    <2>9. ASSUME NEW d, VisitsDependency(d) PROVE PlanTypeOK'
      <3> DEFINE id == IdentityKey(d)
                 left == Innermost.left \ {d}
                 rest == LastLeaving(visits, left)
      <3>1. visits # <<>> /\ visits \in Seq(Visits(problem)) BY <2>9 DEF VisitsDependency
      <3>2. Last(visits) = Innermost /\ Innermost \in Visits(problem) BY <3>1, FrontOf DEF Innermost
      <3>3. Leaving(Last(visits), left) \in Visits(problem) BY <3>2 DEF Visits, Leaving
      <3>4. rest \in Seq(Visits(problem)) /\ rest # <<>>
        <4> HIDE DEF left
        <4> QED BY <3>1, <3>3, LastLeft
      <3>5. rest = [visits EXCEPT ![Len(visits)].left = left]
        <4> HIDE DEF left
        <4> QED BY <3>1, LastLeavingIs
      <3> HIDE DEF rest
      <3>6. id \in DOMAIN selected => id \in Identities(problem) /\ Visit(id) \in Visits(problem)
        BY SelectionType DEF Visit, Visits
      <3>7. id \in DOMAIN selected => Append(rest, Visit(id)) \in Seq(Visits(problem)) /\ Append(rest, Visit(id)) # <<>>
        BY <3>4, <3>6
      <3>8. \/ id \in DOMAIN selected /\ visits' = Append(rest, Visit(id)) /\ visited' = visited \cup {id}
            \/ visits' = rest /\ visited' = visited
        BY <2>9, <3>5 DEF VisitsDependency
      <3>9. UNCHANGED <<problem, phase, searchVars, applyOrder>> BY <2>9 DEF VisitsDependency
      <3> HIDE DEF id
      <3> QED BY <3>4, <3>6, <3>7, <3>8, <3>9 DEF searchVars
    <2>10. CASE UNCHANGED planVars BY <2>10 DEF planVars
    <2> QED BY <2>1, <2>2, <2>3, <2>4, <2>5, <2>6, <2>7, <2>8, <2>9, <2>10 DEF PlanNext
  <1> QED BY <1>1, <1>2, PTL DEF PlanSpec

\* A problem whose dependencies find the identity they name has no other candidates to try (matching_candidates).
LEMMA CandidatesAreExact ==
  ASSUME Exact(problem), NEW sel, NEW pend, SearchSound(problem, sel, pend), NEW group \in SUBSET pend,
         NEW key, \A r \in group : IdentityKey(r.dep) = key, NEW c \in MatchingCandidates(group)
  PROVE  IdentityKey(c) = key /\ SatisfiesAll(c, group)
  <1>1. PICK r \in group : c \in Pool(problem.catalog, r.dep) BY DEF MatchingCandidates
  <1>2. PICK id \in DOMAIN sel : r.dep \in sel[id].deps BY DEF SearchSound
  <1>3. sel[id] \in Everyone(problem) BY DEF SearchSound
  <1>4. IdentityKey(c) = IdentityKey(r.dep) BY <1>1, <1>2, <1>3 DEF Exact
  <1> QED BY <1>4 DEF MatchingCandidates

\* A call with fewer candidates left, and its fields.
LEMMA LeavingACall ==
  ASSUME NEW p, NEW call \in Calls(p), NEW left
  PROVE  /\ Leaving(call, left).left = left /\ Leaving(call, left).selected = call.selected
         /\ Leaving(call, left).key = call.key /\ Leaving(call, left).reqs = call.reqs
         /\ Leaving(call, left).rest = call.rest
  BY DEF Calls, Leaving

LEMMA LeavingIsSound ==
  ASSUME NEW p, NEW call \in Calls(p), NEW n, CallSound(p, call, n), NEW left \in SUBSET call.left
  PROVE  CallSound(p, Leaving(call, left), n)
  <1> DEFINE less == Leaving(call, left)
  <1>1. /\ less.left = left /\ less.selected = call.selected /\ less.key = call.key
        /\ less.reqs = call.reqs /\ less.rest = call.rest
    BY LeavingACall
  <1> HIDE DEF less
  <1>2. CallSound(p, less, n) BY <1>1 DEF CallSound
  <1> QED BY <1>2 DEF less

\* The call that is opened has all that is pending, its own requirements apart.
LEMMA OpeningIsSound ==
  ASSUME Exact(problem), NEW n, SearchSound(problem, selected, required),
         IsFiniteSet(DOMAIN selected), Cardinality(DOMAIN selected) = n,
         NEW key, key \notin DOMAIN selected, NEW group, NextGroup(key, group),
         NEW call, call = [key |-> key, reqs |-> group, left |-> MatchingCandidates(group),
                           selected |-> selected, rest |-> required \ group]
  PROVE  CallSound(problem, call, n)
  <1>1. group = {r \in required : IdentityKey(r.dep) = key} /\ group # {} BY DEF NextGroup
  <1>2. (required \ group) \cup group = required BY <1>1
  <1>3. \A c \in MatchingCandidates(group) : IdentityKey(c) = key /\ SatisfiesAll(c, group)
    BY <1>1, CandidatesAreExact
  <1>4. /\ call.key = key /\ call.reqs = group /\ call.left = MatchingCandidates(group)
        /\ call.selected = selected /\ call.rest = required \ group
    OBVIOUS
  <1> QED BY <1>1, <1>2, <1>3, <1>4 DEF CallSound

\* The selection and what each open call goes back to are sound (_resolve_recursive, _resolve_candidates).
LEMMA SearchCorrect == PlanSpec => []SearchInv
  <1>1. PlanInit => SearchInv
    <2> SUFFICES ASSUME PlanInit PROVE SearchInv
      OBVIOUS
    <2>1. SearchSound(problem, selected, required) BY StartIsSound DEF PlanInit
    <2>2. IsFiniteSet(DOMAIN selected) /\ Cardinality(DOMAIN selected) = 1
      <3>1. DOMAIN selected = {IdentityKey(problem.root)} BY DEF PlanInit
      <3> QED BY <3>1, FS_Singleton
    <2>3. choices = <<>> /\ phase = "resolving" BY DEF PlanInit
    <2> QED BY <2>1, <2>2, <2>3 DEF SearchInv
  <1>2. PlanTypeOK /\ SearchInv /\ [PlanNext]_planVars => SearchInv'
    <2> SUFFICES ASSUME PlanTypeOK, SearchInv, [PlanNext]_planVars, Exact(problem') PROVE SearchInv'
      BY DEF SearchInv
    <2>1. problem' = problem
      BY DEF PlanNext, planVars, Finds, GivesUp, Validates, Applies, Disagrees, Reuses, OpensChoice,
             RejectsCandidate, TriesCandidate, VisitsDependency
    <2>2. /\ Exact(problem) /\ choices \in Seq(Calls(problem))
          /\ \A n \in DOMAIN choices : CallSound(problem, choices[n], n)
          /\ phase = "resolving" =>
                /\ SearchSound(problem, selected, required)
                /\ IsFiniteSet(DOMAIN selected) /\ Cardinality(DOMAIN selected) = Len(choices) + 1
          /\ phase \in {"found", "ordering", "planned"} => SearchSound(problem, selected, {})
          /\ phase = "choosing" => choices # <<>>
      BY <2>1 DEF SearchInv, PlanTypeOK
    <2>3. CASE Finds BY <2>1, <2>2, <2>3 DEF Finds, searchVars, SearchInv
    <2>4. CASE GivesUp
      <3>1. /\ choices # <<>> /\ choices' = Front(choices) /\ phase' \in {"unresolved", "choosing"}
        BY <2>2, <2>4 DEF GivesUp, Raises
      <3>2. /\ Len(choices') = Len(choices) - 1 /\ \A n \in 1 .. Len(choices) - 1 : choices'[n] = choices[n]
            /\ Len(choices) \in Nat /\ choices' \in Seq(Calls(problem))
        BY <2>2, <3>1, FrontOf
      <3>3. \A n \in DOMAIN choices' : n \in DOMAIN choices /\ choices'[n] = choices[n] BY <2>2, <3>2
      <3>4. \A n \in DOMAIN choices' : CallSound(problem, choices'[n], n) BY <2>2, <3>3
      <3> QED BY <2>1, <3>1, <3>4 DEF SearchInv
    <2>5. CASE Validates
      <3>1. phase = "found" /\ phase' \in {"ordering", "unsafe"} /\ UNCHANGED searchVars BY <2>5 DEF Validates
      <3> QED BY <2>1, <2>2, <3>1 DEF searchVars, SearchInv
    <2>6. CASE Applies
      <3>1. phase = "ordering" /\ phase' \in {"ordering", "planned"} /\ UNCHANGED searchVars BY <2>6 DEF Applies
      <3> QED BY <2>1, <2>2, <3>1 DEF searchVars, SearchInv
    <2>7. ASSUME NEW key, NEW group, Disagrees(key, group) PROVE SearchInv'
      <3>1. phase' \in {"unresolved", "choosing"} /\ UNCHANGED searchVars BY <2>7 DEF Disagrees, Raises
      <3> QED BY <2>1, <2>2, <3>1 DEF searchVars, SearchInv
    <2>8. ASSUME NEW key, NEW group, Reuses(key, group) PROVE SearchInv'
      <3>1. /\ phase = "resolving" /\ key \in DOMAIN selected /\ SatisfiesAll(selected[key], group)
            /\ group = {r \in required : IdentityKey(r.dep) = key}
            /\ required' = required \ group /\ UNCHANGED <<phase, selected, choices>>
        BY <2>8 DEF Reuses, Resolves, NextGroup
      <3>2. SearchSound(problem, selected, required \ group) BY <2>2, <3>1, ReuseIsSound
      <3> QED BY <2>1, <2>2, <3>1, <3>2 DEF SearchInv
    <2>9. ASSUME NEW key, NEW group, OpensChoice(key, group) PROVE SearchInv'
      <3> DEFINE call == [key |-> key, reqs |-> group, left |-> MatchingCandidates(group),
                          selected |-> selected, rest |-> required \ group]
      <3>1. /\ phase = "resolving" /\ key \notin DOMAIN selected /\ NextGroup(key, group)
            /\ UNCHANGED <<selected, required>>
        BY <2>9 DEF OpensChoice, Resolves
      <3>2. \/ choices' = choices /\ phase' = "overflow"
            \/ choices' = Append(choices, call) /\ phase' = "choosing"
        BY <2>9 DEF OpensChoice
      <3>3. CallSound(problem, call, Len(choices) + 1)
        <4> DEFINE n == Len(choices) + 1
        <4>1. Cardinality(DOMAIN selected) = n BY <2>2, <3>1
        <4> HIDE DEF n
        <4>2. CallSound(problem, call, n) BY <2>2, <3>1, <4>1, OpeningIsSound
        <4> QED BY <4>2 DEF n
      <3> HIDE DEF call
      <3>4. CASE choices' = choices /\ phase' = "overflow" BY <2>1, <2>2, <3>4 DEF SearchInv
      <3>5. CASE choices' = Append(choices, call) /\ phase' = "choosing"
        <4>1. \A n \in DOMAIN choices' : CallSound(problem, choices'[n], n)
          <5>1. Len(choices) \in Nat /\ DOMAIN choices = 1 .. Len(choices) BY <2>2
          <5>2. DOMAIN choices' = 1 .. Len(choices) + 1 /\ choices'[Len(choices) + 1] = call
                /\ \A n \in 1 .. Len(choices) : choices'[n] = choices[n]
            <6>1. Len(Append(choices, call)) = Len(choices) + 1 /\ DOMAIN Append(choices, call) = 1 .. Len(choices) + 1
              BY <2>2, <5>1, AppendProperties
            <6> QED BY <6>1, <3>5, <2>2, <5>1
          <5> QED BY <2>2, <3>3, <5>1, <5>2
        <4> QED BY <2>1, <3>5, <4>1 DEF SearchInv
      <3> QED BY <3>2, <3>4, <3>5
    <2>10. ASSUME NEW c \in Call.left, phase = "choosing", RejectsCandidate(c) \/ TriesCandidate(c) PROVE SearchInv'
      <3> DEFINE left == Alternatives(Call.left, c)
                 n == Len(choices)
      <3>1. /\ n \in Nat \ {0} /\ Call = choices[n] /\ Call \in Calls(problem) /\ CallSound(problem, Call, n)
            /\ DOMAIN choices = 1 .. n
        <4>1. n \in Nat \ {0} /\ Call = choices[n] /\ Call \in Calls(problem) BY <2>2, <2>10, FrontOf DEF Call
        <4> QED BY <2>2, <4>1
      <3>2. /\ left \in SUBSET Call.left BY DEF Alternatives
      <3>3. CallSound(problem, Leaving(Call, left), n) BY <3>1, <3>2, LeavingIsSound
      <3>4. choices' = LastLeaving(choices, left)
        <4>1. choices' = [choices EXCEPT ![Len(choices)].left = left] BY <2>10 DEF RejectsCandidate, TriesCandidate, Passes
        <4> HIDE DEF left
        <4> QED BY <4>1, <2>2, <2>10, LastLeavingIs
      <3>5. Leaving(Call, left) \in Calls(problem) BY <3>1, <3>2 DEF Leaving, Calls
      <3> HIDE DEF left
      <3>6. /\ Len(choices') = n /\ choices'[n] = Leaving(Call, left) /\ DOMAIN choices' = 1 .. n
            /\ \A m \in 1 .. n - 1 : choices'[m] = choices[m]
        <4>1. Last(choices) = Call BY DEF Call
        <4>2. choices \in Seq(Calls(problem)) /\ choices # <<>> BY <2>2, <2>10
        <4> DEFINE t == LastLeaving(choices, left)
        <4>3. t \in Seq(Calls(problem)) /\ Len(t) = n /\ t[n] = Leaving(Call, left) /\ \A m \in 1 .. n - 1 : t[m] = choices[m]
          BY <3>5, <4>1, <4>2, LastLeft
        <4> QED BY <3>4, <4>3
      <3>7. \A m \in DOMAIN choices' : CallSound(problem, choices'[m], m)
        <4> SUFFICES ASSUME NEW m \in 1 .. n PROVE CallSound(problem, choices'[m], m)
          BY <3>6
        <4>1. CASE m = n BY <4>1, <3>3, <3>6
        <4>2. CASE m # n
          <5>1. m \in 1 .. n - 1
            <6> HIDE DEF n
            <6> QED BY <4>2, <3>1
          <5> QED BY <5>1, <3>1, <3>6, <2>2
        <4> QED BY <4>1, <4>2
      <3>8. CASE RejectsCandidate(c)
        <4>1. phase' = "choosing" BY <2>10, <3>8 DEF RejectsCandidate
        <4> QED BY <2>1, <3>7, <4>1 DEF SearchInv
      <3>9. CASE TriesCandidate(c)
        <4>1. /\ phase' = "resolving" /\ selected' = Selecting(Call.selected, c)
              /\ required' = Call.rest \cup Requirements(c) /\ ~SelectedConflict(c, Call.selected)
          BY <3>9 DEF TriesCandidate
        <4>2. c \in Everyone(problem) BY <3>1 DEF Calls, Everyone
        <4>3. /\ SearchSound(problem, selected', required')
              /\ IsFiniteSet(DOMAIN selected') /\ Cardinality(DOMAIN selected') = n + 1
          BY <3>1, <4>1, <4>2, ChoiceIsSound
        <4> QED BY <2>1, <3>6, <3>7, <4>1, <4>3 DEF SearchInv
      <3> QED BY <2>10, <3>8, <3>9
    <2>11. ASSUME NEW d, VisitsDependency(d) PROVE SearchInv'
      <3>1. UNCHANGED <<phase, searchVars>> BY <2>11 DEF VisitsDependency
      <3> QED BY <2>1, <2>2, <3>1 DEF searchVars, SearchInv
    <2>12. CASE UNCHANGED planVars BY <2>1, <2>2, <2>12 DEF planVars, SearchInv
    <2> QED BY <2>3, <2>4, <2>5, <2>6, <2>7, <2>8, <2>9, <2>10, <2>11, <2>12 DEF PlanNext
  <1> QED BY <1>1, <1>2, PlanTypeCorrect, PTL DEF PlanSpec

\* A candidate of a consistent selection is among those that are tried (matching_candidates).
LEMMA ConsistentIsMatching ==
  ASSUME NEW S \in SUBSET problem.catalog, NEW e \in S \cup {problem.root}, e # problem.root,
         NEW group, NEW r \in group, IdentityKey(e) = IdentityKey(r.dep), SatisfiesAll(e, group)
  PROVE  e \in MatchingCandidates(group)
  <1>1. e \in Pool(problem.catalog, r.dep) BY DEF Pool
  <1> QED BY <1>1 DEF MatchingCandidates

\* No candidate of a consistent selection conflicts with what is selected of it (selected_conflict_reason).
LEMMA ConsistentPasses ==
  ASSUME NEW U, Consistent(U), NEW chosen, Within(chosen, U), NEW c \in U,
         \A id \in DOMAIN chosen : IdentityKey(chosen[id]) = id
  PROVE  ~SelectedConflict(c, chosen)
  <1> SUFFICES ASSUME NEW id \in DOMAIN chosen, id # IdentityKey(c)
               PROVE  chosen[id].name # c.name /\ ~Conflicting(c, chosen[id])
    BY DEF SelectedConflict
  <1>1. chosen[id] \in U /\ chosen[id] # c BY DEF Within
  <1> QED BY <1>1 DEF Consistent

LEMMA SelectingStaysWithin ==
  ASSUME NEW U, NEW chosen, Within(chosen, U), NEW c \in U
  PROVE  Within(Selecting(chosen, c), U)
  BY DEF Within, Selecting

\* What the requirements of the next identity find in a consistent selection (_resolve_recursive).
LEMMA ConsistentGoesOn ==
  ASSUME SearchSound(problem, selected, required), NEW U, Consistent(U), Within(selected, U),
         NEW key, NEW group, NextGroup(key, group)
  PROVE  /\ Compatible(group) /\ (key \in DOMAIN selected => SatisfiesAll(selected[key], group))
         /\ \E e \in U, r \in group : IdentityKey(e) = key /\ IdentityKey(r.dep) = key /\ SatisfiesAll(e, group)
  <1>1. group \in SUBSET required /\ (\A q \in group : IdentityKey(q.dep) = key) BY DEF NextGroup
  <1>2. PICK r \in group : IdentityKey(r.dep) = key BY DEF NextGroup
  <1>3. PICK e \in U : IdentityKey(e) = key /\ SatisfiesAll(e, group) /\ Compatible(group)
    <2>1. \A q \in group : IdentityKey(q.dep) = IdentityKey(r.dep) BY <1>1, <1>2
    <2>2. r \in group BY <1>2
    <2>3. \E e \in U : IdentityKey(e) = IdentityKey(r.dep) /\ SatisfiesAll(e, group) /\ Compatible(group)
      BY <1>1, <2>1, <2>2, OneMeetsAll
    <2> QED BY <2>3, <1>2
  <1>4. key \in DOMAIN selected => selected[key] = e
    <2> SUFFICES ASSUME key \in DOMAIN selected PROVE selected[key] = e
      OBVIOUS
    <2>1. selected[key] \in U /\ IdentityKey(selected[key]) = IdentityKey(e) BY <1>3 DEF Within, SearchSound
    <2> QED BY <2>1, <1>3, OnePerIdentity
  <1> QED BY <1>2, <1>3, <1>4

\* No selection that would do is given up (_resolve_candidates, _resolve_recursive).
LEMMA CompleteCorrect == PlanSpec => []CompleteInv
  <1>1. PlanInit => CompleteInv
    <2> SUFFICES ASSUME PlanInit PROVE CompleteInv
      OBVIOUS
    <2>1. \A S \in SUBSET problem.catalog : Within(selected, S \cup {problem.root}) BY DEF PlanInit, Within
    <2> QED BY <2>1 DEF CompleteInv, StillPossible, PlanInit
  <1>2. PlanTypeOK /\ SearchInv /\ CompleteInv /\ [PlanNext]_planVars => CompleteInv'
    <2> SUFFICES ASSUME PlanTypeOK, SearchInv, CompleteInv, [PlanNext]_planVars PROVE CompleteInv'
      OBVIOUS
    <2>1. problem' = problem
      BY DEF PlanNext, planVars, Finds, GivesUp, Validates, Applies, Disagrees, Reuses, OpensChoice,
             RejectsCandidate, TriesCandidate, VisitsDependency
    <2>2. phase' = "unresolved" => choices' = <<>>
      <3>1. CASE UNCHANGED <<phase, choices>> BY <3>1 DEF CompleteInv
      <3>2. CASE Finds \/ GivesUp \/ Validates \/ Applies
        BY <3>2 DEF Finds, GivesUp, Raises, Validates, Applies
      <3>3. ASSUME NEW key, NEW group, Disagrees(key, group) \/ Reuses(key, group) \/ OpensChoice(key, group)
            PROVE  phase' = "unresolved" => choices' = <<>>
        BY <3>3 DEF Disagrees, Raises, searchVars, Reuses, OpensChoice, Resolves
      <3>4. ASSUME NEW c, RejectsCandidate(c) \/ TriesCandidate(c)
            PROVE  phase' = "unresolved" => choices' = <<>>
        BY <3>4 DEF RejectsCandidate, TriesCandidate
      <3>5. ASSUME NEW d, VisitsDependency(d) PROVE UNCHANGED <<phase, choices>>
        BY <3>5 DEF VisitsDependency, searchVars
      <3>6. UNCHANGED planVars => UNCHANGED <<phase, choices>> BY DEF planVars
      <3> QED BY <3>1, <3>2, <3>3, <3>4, <3>5, <3>6 DEF PlanNext
    <2> SUFFICES ASSUME Exact(problem), NEW S \in SUBSET problem.catalog, Consistent(S \cup {problem.root}),
                        NEW U, U = S \cup {problem.root}
                 PROVE  StillPossible(U)'
      BY <2>1, <2>2 DEF CompleteInv
    <2>3. /\ choices \in Seq(Calls(problem)) /\ Len(choices) \in Nat /\ DOMAIN choices = 1 .. Len(choices)
          /\ phase = "choosing" => choices # <<>>
          /\ phase = "resolving" => SearchSound(problem, selected, required)
          /\ \A n \in DOMAIN choices : CallSound(problem, choices[n], n)
      BY DEF PlanTypeOK, SearchInv
    <2>4. Consistent(U) /\ StillPossible(U) BY DEF CompleteInv
    <2>6. \A n \in DOMAIN choices : n \in DOMAIN choices' /\ choices'[n] = choices[n] =>
             (Within(choices[n].selected, U) /\ (\E c \in choices[n].left : c \in U) => StillPossible(U)')
      BY DEF StillPossible
    <2>7. CASE Finds \/ Validates \/ Applies
      BY <2>7 DEF Finds, Validates, Applies, StillPossible
    <2>8. CASE GivesUp
      <3>1. choices # <<>> /\ choices' = Front(choices) /\ phase = "choosing" /\ Call.left = {}
        BY <2>3, <2>8 DEF GivesUp
      <3>2. /\ Call = choices[Len(choices)]
            /\ Len(choices') = Len(choices) - 1 /\ \A n \in 1 .. Len(choices) - 1 : choices'[n] = choices[n]
            /\ choices' \in Seq(Calls(problem))
        BY <2>3, <3>1, FrontOf DEF Call
      <3>3. PICK n \in DOMAIN choices : Within(choices[n].selected, U) /\ \E c \in choices[n].left : c \in U
        BY <2>4, <3>1 DEF StillPossible
      <3>4. n # Len(choices) BY <3>1, <3>2, <3>3
      <3>5. n \in DOMAIN choices' /\ choices'[n] = choices[n] BY <2>3, <3>2, <3>3, <3>4
      <3> QED BY <2>6, <3>3, <3>5
    <2>9. ASSUME NEW key, NEW group, Disagrees(key, group) PROVE StillPossible(U)'
      <3>1. phase = "resolving" /\ NextGroup(key, group) /\ choices' = choices
        BY <2>9 DEF Disagrees, Resolves, searchVars
      <3>2. Compatible(group) => key \in DOMAIN selected /\ ~SatisfiesAll(selected[key], group)
        BY <2>9 DEF Disagrees
      <3>3. ~Within(selected, U) BY <2>3, <2>4, <3>1, <3>2, ConsistentGoesOn
      <3>4. PICK n \in DOMAIN choices : Within(choices[n].selected, U) /\ \E c \in choices[n].left : c \in U
        BY <2>4, <3>1, <3>3 DEF StillPossible
      <3> QED BY <2>6, <3>1, <3>4
    <2>10. ASSUME NEW key, NEW group, Reuses(key, group) PROVE StillPossible(U)'
      BY <2>4, <2>10 DEF Reuses, StillPossible
    <2>11. ASSUME NEW key, NEW group, OpensChoice(key, group) PROVE StillPossible(U)'
      <3> DEFINE call == [key |-> key, reqs |-> group, left |-> MatchingCandidates(group),
                          selected |-> selected, rest |-> required \ group]
      <3>1. phase = "resolving" /\ NextGroup(key, group) /\ key \notin DOMAIN selected
        BY <2>11 DEF OpensChoice, Resolves
      <3>2. phase' = "overflow" \/ choices' = Append(choices, call) BY <2>11 DEF OpensChoice
      <3>3. call.selected = selected /\ call.left = MatchingCandidates(group) OBVIOUS
      <3> HIDE DEF call
      <3>4. CASE phase' = "overflow" BY <3>4 DEF StillPossible
      <3>5. CASE choices' = Append(choices, call)
        <4>1. /\ DOMAIN choices' = 1 .. Len(choices) + 1 /\ choices'[Len(choices) + 1] = call
              /\ \A n \in 1 .. Len(choices) : choices'[n] = choices[n]
          <5>1. /\ Len(Append(choices, call)) = Len(choices) + 1
                /\ DOMAIN Append(choices, call) = 1 .. Len(choices) + 1
            BY <2>3, AppendProperties
          <5> QED BY <5>1, <3>5, <2>3
        <4>2. CASE Within(selected, U)
          <5>1. PICK e \in U, r \in group : /\ IdentityKey(e) = key /\ IdentityKey(r.dep) = key
                                            /\ SatisfiesAll(e, group)
            BY <2>3, <2>4, <3>1, <4>2, ConsistentGoesOn
          <5>2. e # problem.root BY <2>3, <3>1, <5>1 DEF SearchSound
          <5>3. e \in MatchingCandidates(group)
            <6>1. e \in S \cup {problem.root} /\ r \in group BY <5>1
            <6> QED BY <5>1, <5>2, <6>1, ConsistentIsMatching
          <5>4. Len(choices) + 1 \in DOMAIN choices' BY <2>3, <4>1
          <5>5. Within(choices'[Len(choices) + 1].selected, U) /\ e \in choices'[Len(choices) + 1].left /\ e \in U
            BY <3>3, <4>1, <4>2, <5>1, <5>3
          <5> QED BY <5>4, <5>5 DEF StillPossible
        <4>3. CASE ~Within(selected, U)
          <5>1. PICK n \in DOMAIN choices : Within(choices[n].selected, U) /\ \E c \in choices[n].left : c \in U
            BY <2>4, <3>1, <4>3 DEF StillPossible
          <5>2. n \in DOMAIN choices' /\ choices'[n] = choices[n] BY <2>3, <4>1, <5>1
          <5> QED BY <2>6, <5>1, <5>2
        <4> QED BY <4>2, <4>3
      <3> QED BY <3>2, <3>4, <3>5
    <2>12. ASSUME NEW c \in Call.left, phase = "choosing", RejectsCandidate(c) \/ TriesCandidate(c)
           PROVE  StillPossible(U)'
      <3> DEFINE left == Alternatives(Call.left, c)
                 n == Len(choices)
      <3>1. n \in Nat \ {0} /\ Call = choices[n] /\ Call \in Calls(problem) /\ CallSound(problem, Call, n)
        <4>1. n \in Nat \ {0} /\ Call = choices[n] /\ Call \in Calls(problem) BY <2>3, <2>12, FrontOf DEF Call
        <4> QED BY <2>3, <4>1
      <3>2. choices' = LastLeaving(choices, left)
        <4>1. choices' = [choices EXCEPT ![Len(choices)].left = left] BY <2>12 DEF RejectsCandidate, TriesCandidate, Passes
        <4> HIDE DEF left
        <4> QED BY <4>1, <2>3, <2>12, LastLeavingIs
      <3>3. Leaving(Call, left) \in Calls(problem) BY <3>1 DEF Leaving, Calls, Alternatives
      <3>4. left = Call.left \ {c} BY DEF Alternatives
      <3> HIDE DEF left
      <3>5. /\ choices'[n] = Leaving(Call, left) /\ DOMAIN choices' = 1 .. n
            /\ \A m \in 1 .. n - 1 : choices'[m] = choices[m]
        <4>1. Last(choices) = Call BY DEF Call
        <4>2. choices \in Seq(Calls(problem)) /\ choices # <<>> BY <2>3, <2>12
        <4> DEFINE t == LastLeaving(choices, left)
        <4>3. t \in Seq(Calls(problem)) /\ Len(t) = n /\ t[n] = Leaving(Call, left) /\ \A m \in 1 .. n - 1 : t[m] = choices[m]
          BY <3>3, <4>1, <4>2, LastLeft
        <4> QED BY <3>2, <4>3
      <3>6. choices'[n].left = left /\ choices'[n].selected = Call.selected
        BY <3>1, <3>5, LeavingACall
      <3>7. PICK m \in 1 .. n : Within(choices[m].selected, U) /\ \E x \in choices[m].left : x \in U
        BY <2>3, <2>4, <2>12 DEF StillPossible
      <3>7a. PICK x \in choices[m].left : x \in U BY <3>7
      <3> HIDE DEF n
      <3>8. CASE m # n
        <4>1. m \in 1 .. n - 1 BY <3>1, <3>7, <3>8
        <4>2. m \in DOMAIN choices' /\ choices'[m] = choices[m] BY <3>5, <3>7, <4>1
        <4>3. x \in choices'[m].left /\ x \in U /\ Within(choices'[m].selected, U) BY <3>7, <3>7a, <4>2
        <4> QED BY <4>2, <4>3 DEF StillPossible
      <3>9. CASE m = n /\ x # c
        <4>1. x \in choices'[n].left /\ x \in U /\ Within(choices'[n].selected, U) BY <3>1, <3>4, <3>6, <3>7, <3>7a, <3>9
        <4>2. n \in DOMAIN choices' BY <3>1, <3>5
        <4> QED BY <4>1, <4>2 DEF StillPossible
      <3>10. CASE m = n /\ x = c
        <4>1. c \in U /\ Within(Call.selected, U) BY <3>1, <3>7, <3>7a, <3>10
        <4>2. \A id \in DOMAIN Call.selected : IdentityKey(Call.selected[id]) = id BY <3>1 DEF CallSound, SearchSound
        <4>3. ~SelectedConflict(c, Call.selected) BY <2>4, <4>1, <4>2, ConsistentPasses
        <4>4. TriesCandidate(c) BY <2>12, <4>3 DEF RejectsCandidate
        <4>5. phase' = "resolving" /\ selected' = Selecting(Call.selected, c) BY <4>4 DEF TriesCandidate
        <4>6. Within(selected', U) BY <4>1, <4>5, SelectingStaysWithin
        <4> QED BY <4>5, <4>6 DEF StillPossible
      <3> QED BY <3>8, <3>9, <3>10
    <2>13. ASSUME NEW d, VisitsDependency(d) PROVE StillPossible(U)'
      BY <2>13 DEF VisitsDependency, StillPossible
    <2>14. CASE UNCHANGED planVars BY <2>4, <2>14 DEF planVars, StillPossible
    <2> QED BY <2>7, <2>8, <2>9, <2>10, <2>11, <2>12, <2>13, <2>14 DEF PlanNext
  <1> QED BY <1>1, <1>2, PlanTypeCorrect, SearchCorrect, PTL DEF PlanSpec

\* The order of application while it is made (plan_builder.py, visit).
LEMMA VisitingKeepsOrder ==
  ASSUME PlanTypeOK, OrderInv, NEW d, VisitsDependency(d)
  PROVE  OrderInv'
  <1> DEFINE N == Len(visits)
             left == Innermost.left \ {d}
             rest == LastLeaving(visits, left)
             id == IdentityKey(d)
             new == id \in DOMAIN selected \ visited
  <1>1. visits \in Seq(Visits(problem)) /\ visits # <<>> BY DEF PlanTypeOK, VisitsDependency
  <1>2. N \in Nat \ {0} /\ Innermost = visits[N] /\ Innermost \in Visits(problem) /\ DOMAIN visits = 1 .. N
    BY <1>1, FrontOf DEF Innermost
  <1>3. Leaving(Innermost, left) \in Visits(problem) BY <1>2 DEF Visits, Leaving
  <1>4. Leaving(Innermost, left).id = Innermost.id /\ Leaving(Innermost, left).left = left
    BY <1>2 DEF Visits, Leaving
  <1>5. rest = [visits EXCEPT ![Len(visits)].left = left]
    <2> HIDE DEF left
    <2> QED BY <1>1, LastLeavingIs
  <1>6. /\ visits' = IF new THEN Append(rest, Visit(id)) ELSE rest
        /\ visited' = IF new THEN visited \cup {id} ELSE visited
        /\ UNCHANGED <<selected, applyOrder>> /\ d \in Innermost.left
    BY <1>5 DEF VisitsDependency, searchVars
  <1> HIDE DEF left
  <1>7. /\ rest \in Seq(Visits(problem)) /\ Len(rest) = N /\ rest[N] = Leaving(Innermost, left)
        /\ \A i \in 1 .. N - 1 : rest[i] = visits[i]
    <2>1. Last(visits) = Innermost BY DEF Innermost
    <2> QED BY <1>1, <1>3, <2>1, LastLeft
  <1>8. DOMAIN rest = 1 .. N BY <1>2, <1>7
  <1> HIDE DEF rest, N
  <1>9. \A i \in 1 .. N : rest[i].id = visits[i].id /\ rest[i].left = IF i = N THEN left ELSE visits[i].left
    <2> SUFFICES ASSUME NEW i \in 1 .. N
                 PROVE  rest[i].id = visits[i].id /\ rest[i].left = IF i = N THEN left ELSE visits[i].left
      OBVIOUS
    <2>1. CASE i = N BY <2>1, <1>2, <1>4, <1>7
    <2>2. CASE i # N
      <3>1. i \in 1 .. N - 1 BY <2>2, <1>2
      <3> QED BY <3>1, <2>2, <1>7
    <2> QED BY <2>1, <2>2
  <1>10. /\ \A i \in 1 .. N : i \in DOMAIN visits' /\ visits'[i] = rest[i]
         /\ ~new => DOMAIN visits' = 1 .. N
         /\ new => /\ DOMAIN visits' = 1 .. N + 1
                   /\ visits'[N + 1].id = id /\ visits'[N + 1].left = selected[id].deps
    <2>1. CASE ~new BY <2>1, <1>6, <1>8
    <2>2. CASE new
      <3>1. visits' = Append(rest, Visit(id)) BY <2>2, <1>6
      <3>2. Visit(id).id = id /\ Visit(id).left = selected[id].deps BY DEF Visit
      <3> HIDE DEF new, id
      <3>3. /\ Len(Append(rest, Visit(id))) = N + 1
            /\ DOMAIN Append(rest, Visit(id)) = 1 .. N + 1
            /\ Append(rest, Visit(id))[N + 1] = Visit(id)
            /\ \A i \in 1 .. N : Append(rest, Visit(id))[i] = rest[i]
        BY <1>2, <1>7, <1>8, AppendProperties
      <3> QED BY <2>2, <1>2, <3>1, <3>2, <3>3
    <2> QED BY <2>1, <2>2
  <1>11. EachOnce /\ Nested /\ AppliedAfter BY DEF OrderInv
  <1>12. /\ \A i \in 1 .. N : visits'[i].id = visits[i].id
         /\ \A i \in 1 .. N : visits'[i].left = IF i = N THEN left ELSE visits[i].left
    BY <1>9, <1>10
  <1>13. Applied' = Applied BY <1>6 DEF Applied
  <1>14. Visiting' = IF new THEN Visiting \cup {id} ELSE Visiting
    <2>1. CASE ~new BY <2>1, <1>2, <1>10, <1>12 DEF Visiting
    <2>2. CASE new
      <3>1. DOMAIN visits' = (1 .. N) \cup {N + 1} BY <2>2, <1>2, <1>10
      <3> HIDE DEF new
      <3> QED BY <2>2, <3>1, <1>2, <1>10, <1>12 DEF Visiting
    <2> QED BY <2>1, <2>2
  <1>15. id \in visited => id \notin DOMAIN selected \ visited OBVIOUS
  <1>16. \A i \in 1 .. N : visits[i].id \in visited BY <1>2, <1>11 DEF EachOnce, Visiting
  <1>17. d \in selected[Innermost.id].deps BY <1>2, <1>6, <1>11 DEF Nested
  <1>18. EachOnce'
    <2>1. visited' = Applied' \cup Visiting' /\ visited' \subseteq DOMAIN selected'
      BY <1>6, <1>11, <1>13, <1>14 DEF EachOnce
    <2>2. IsInjective(applyOrder') BY <1>6, <1>11 DEF EachOnce
    <2>3. Visiting' \cap Applied' = {} BY <1>11, <1>13, <1>14 DEF EachOnce
    <2>4. \A m, n \in DOMAIN visits' : m < n => visits'[n].id # visits'[m].id
      <3> SUFFICES ASSUME NEW m \in DOMAIN visits', NEW n \in DOMAIN visits', m < n
                   PROVE  visits'[n].id # visits'[m].id
        OBVIOUS
      <3>1. CASE n \in 1 .. N
        <4>1. m \in 1 .. N BY <3>1, <1>2, <1>10
        <4> QED BY <3>1, <4>1, <1>2, <1>11, <1>12 DEF EachOnce
      <3>2. CASE n \notin 1 .. N
        <4>1. new /\ n = N + 1 /\ m \in 1 .. N
          <5> HIDE DEF new
          <5> QED BY <3>2, <1>2, <1>10
        <4> QED BY <4>1, <1>10, <1>12, <1>16
      <3> QED BY <3>1, <3>2
    <2>5. IsInjective(applyOrder)' BY <2>2
    <2> QED BY <2>1, <2>3, <2>4, <2>5 DEF EachOnce
  <1>19. Nested'
    <2>1. \A m, n \in DOMAIN visits' : m < n => visits'[n].id \in Needed(selected, visits'[m].id)
      <3> SUFFICES ASSUME NEW m \in DOMAIN visits', NEW n \in DOMAIN visits', m < n
                   PROVE  visits'[n].id \in Needed(selected, visits'[m].id)
        OBVIOUS
      <3>1. CASE n \in 1 .. N
        <4>1. m \in 1 .. N BY <3>1, <1>2, <1>10
        <4> QED BY <3>1, <4>1, <1>2, <1>11, <1>12 DEF Nested
      <3>2. CASE n \notin 1 .. N
        <4>1. new /\ n = N + 1 /\ m \in 1 .. N
          <5> HIDE DEF new
          <5> QED BY <3>2, <1>2, <1>10
        <4>2. id \in NeedsDirectly(selected, visits[N].id) BY <4>1, <1>2, <1>17 DEF NeedsDirectly
        <4>3. CASE m = N
          <5>1. id \in Needed(selected, visits[N].id) BY <4>2, DirectIsNeeded
          <5> QED BY <4>1, <4>3, <5>1, <1>10, <1>12
        <4>4. CASE m # N
          <5>1. m < N BY <4>1, <4>4, <1>2
          <5>2. visits[N].id \in Needed(selected, visits[m].id) BY <4>1, <5>1, <1>2, <1>11 DEF Nested
          <5>3. id \in Needed(selected, visits[m].id) BY <4>2, <5>2, NeededGoesOn
          <5> QED BY <4>1, <5>3, <1>10, <1>12
        <4> QED BY <4>3, <4>4
      <3> QED BY <3>1, <3>2
    <2>2. ASSUME NEW n \in DOMAIN visits'
          PROVE  /\ visits'[n].left \subseteq selected[visits'[n].id].deps
                 /\ \A e \in selected[visits'[n].id].deps :
                       IdentityKey(e) \in DOMAIN selected => e \in visits'[n].left \/ IdentityKey(e) \in visited'
      <3>1. CASE n \in 1 .. N
        <4>1. visits[n].left \subseteq selected[visits[n].id].deps BY <3>1, <1>2, <1>11 DEF Nested
        <4>2. visits'[n].left \subseteq visits[n].left BY <3>1, <1>2, <1>12 DEF left
        <4>3. ASSUME NEW e \in selected[visits[n].id].deps, IdentityKey(e) \in DOMAIN selected
              PROVE  e \in visits'[n].left \/ IdentityKey(e) \in visited'
          <5>1. e \in visits[n].left \/ IdentityKey(e) \in visited BY <3>1, <4>3, <1>2, <1>11 DEF Nested
          <5>2. e # d => e \in visits'[n].left \/ IdentityKey(e) \in visited BY <5>1, <3>1, <1>2, <1>12 DEF left
          <5>3. visited \subseteq visited' BY <1>6
          <5>4. e = d => IdentityKey(e) \in visited' BY <4>3, <1>6
          <5> QED BY <5>2, <5>3, <5>4
        <4> QED BY <3>1, <4>1, <4>2, <4>3, <1>12
      <3>2. CASE n \notin 1 .. N
        <4>1. new /\ n = N + 1
          <5> HIDE DEF new
          <5> QED BY <2>2, <3>2, <1>2, <1>10
        <4>2. visits'[n].id = id /\ visits'[n].left = selected[id].deps BY <4>1, <1>10
        <4> HIDE DEF id
        <4> QED BY <4>2
      <3> QED BY <3>1, <3>2
    <2> QED BY <2>1, <2>2, <1>6 DEF Nested
  <1>20. AppliedAfter'
    <2>1. visited \subseteq visited' BY <1>6
    <2> QED BY <2>1, <1>6, <1>11 DEF AppliedAfter
  <1> QED BY <1>18, <1>19, <1>20 DEF OrderInv

LEMMA ApplyingKeepsOrder ==
  ASSUME PlanTypeOK, OrderInv, Applies
  PROVE  OrderInv' /\ (Len(visits) = 1 => visits' = <<>>)
  <1> DEFINE N == Len(visits)
             K == Len(applyOrder)
             a == Innermost.id
  <1>1. visits \in Seq(Visits(problem)) /\ visits # <<>> /\ applyOrder \in Seq(Identities(problem))
    BY DEF PlanTypeOK, Applies
  <1>2. N \in Nat \ {0} /\ Innermost = visits[N] /\ Innermost \in Visits(problem) /\ DOMAIN visits = 1 .. N
    BY <1>1, FrontOf DEF Innermost
  <1>3. K \in Nat /\ DOMAIN applyOrder = 1 .. K BY <1>1
  <1>4. /\ applyOrder' = Append(applyOrder, a) /\ visits' = Front(visits)
        /\ UNCHANGED <<selected, visited>> /\ Innermost.left = {}
    BY DEF Applies, searchVars
  <1>5. /\ visits' \in Seq(Visits(problem)) /\ Len(visits') = N - 1
        /\ \A i \in 1 .. N - 1 : visits'[i] = visits[i]
    BY <1>1, <1>4, FrontOf
  <1>6. DOMAIN visits' = 1 .. N - 1 BY <1>5, <1>2
  <1>7. N = 1 => visits' = <<>> BY <1>5, EmptySeq
  <1> HIDE DEF N, K, a
  <1>8. /\ DOMAIN applyOrder' = 1 .. K + 1 /\ applyOrder'[K + 1] = a
        /\ \A i \in 1 .. K : applyOrder'[i] = applyOrder[i]
    <2>1. a \in Identities(problem) BY <1>2 DEF a, Visits
    <2>2. Len(applyOrder) = K BY DEF K
    <2>3. /\ Len(Append(applyOrder, a)) = K + 1 /\ DOMAIN Append(applyOrder, a) = 1 .. K + 1
          /\ Append(applyOrder, a)[K + 1] = a /\ \A i \in 1 .. K : Append(applyOrder, a)[i] = applyOrder[i]
      BY <1>1, <2>1, <2>2, <1>3, AppendProperties
    <2> QED BY <2>3, <1>4
  <1>9. EachOnce /\ Nested /\ AppliedAfter BY DEF OrderInv
  <1>10. a = visits[N].id BY <1>2 DEF a
  <1>11. Applied' = Applied \cup {a}
    <2>1. DOMAIN applyOrder' = DOMAIN applyOrder \cup {K + 1} BY <1>3, <1>8
    <2> QED BY <2>1, <1>3, <1>8 DEF Applied
  <1>12. Visiting = Visiting' \cup {a}
    <2>1. DOMAIN visits = DOMAIN visits' \cup {N} BY <1>2, <1>6
    <2>2. \A i \in DOMAIN visits' : visits'[i] = visits[i] BY <1>5, <1>6
    <2> QED BY <2>1, <2>2, <1>10 DEF Visiting
  <1>13. a \notin Visiting'
    <2> SUFFICES ASSUME NEW n \in DOMAIN visits' PROVE visits'[n].id # a
      BY DEF Visiting
    <2>1. n \in DOMAIN visits /\ n < N /\ N \in DOMAIN visits /\ visits'[n] = visits[n] BY <1>2, <1>5, <1>6
    <2> QED BY <2>1, <1>9, <1>10 DEF EachOnce
  <1>14. EachOnce'
    <2>1. visited' = Applied' \cup Visiting' /\ visited' \subseteq DOMAIN selected'
      BY <1>4, <1>9, <1>11, <1>12 DEF EachOnce
    <2>2. Visiting' \cap Applied' = {} BY <1>9, <1>11, <1>12, <1>13 DEF EachOnce
    <2>3. a \notin Applied BY <1>9, <1>12 DEF EachOnce
    <2>4. IsInjective(applyOrder')
      <3> SUFFICES ASSUME NEW m \in DOMAIN applyOrder', NEW n \in DOMAIN applyOrder', applyOrder'[m] = applyOrder'[n]
                   PROVE  m = n
        BY DEF IsInjective
      <3>1. \A i \in 1 .. K : applyOrder'[i] \in Applied BY <1>3, <1>8 DEF Applied
      <3>2. (m \in 1 .. K \/ m = K + 1) /\ (n \in 1 .. K \/ n = K + 1) BY <1>3, <1>8
      <3>3. CASE m = K + 1 \/ n = K + 1 BY <3>1, <3>2, <3>3, <2>3, <1>8
      <3>4. CASE m \in 1 .. K /\ n \in 1 .. K
        <4>1. applyOrder[m] = applyOrder[n] /\ m \in DOMAIN applyOrder /\ n \in DOMAIN applyOrder
          BY <3>4, <1>3, <1>8
        <4> QED BY <4>1, <1>9 DEF EachOnce, IsInjective
      <3> QED BY <3>2, <3>3, <3>4
    <2>5. \A m, n \in DOMAIN visits' : m < n => visits'[n].id # visits'[m].id
      <3>1. \A n \in DOMAIN visits' : n \in DOMAIN visits /\ visits'[n] = visits[n] BY <1>2, <1>5, <1>6
      <3> QED BY <3>1, <1>9 DEF EachOnce
    <2>6. IsInjective(applyOrder)' BY <2>4
    <2> QED BY <2>1, <2>2, <2>5, <2>6 DEF EachOnce
  <1>15. Nested'
    <2>1. \A n \in DOMAIN visits' : n \in DOMAIN visits /\ visits'[n] = visits[n] BY <1>2, <1>5, <1>6
    <2> QED BY <2>1, <1>4, <1>9 DEF Nested
  <1>16. AppliedAfter'
    <2> SUFFICES ASSUME NEW n \in 1 .. K + 1, NEW k \in NeedsDirectly(selected, applyOrder'[n])
                 PROVE  /\ k \in visited
                        /\ (\E m \in 1 .. n - 1 : applyOrder'[m] = k) \/ applyOrder'[n] \in Needed(selected, k)
      BY <1>4, <1>8 DEF AppliedAfter
    <2>1. CASE n \in 1 .. K
      <3>1. applyOrder'[n] = applyOrder[n] /\ n \in DOMAIN applyOrder BY <2>1, <1>3, <1>8
      <3>2. \A m \in 1 .. n - 1 : applyOrder'[m] = applyOrder[m] BY <2>1, <1>3, <1>8
      <3> QED BY <3>1, <3>2, <1>9 DEF AppliedAfter
    <2>2. CASE n \notin 1 .. K
      <3>1. n = K + 1 /\ applyOrder'[n] = a BY <2>2, <1>3, <1>8
      <3>2. k \in NeedsDirectly(selected, a) BY <3>1
      <3>3. k \in visited
        <4>1. PICK d \in selected[a].deps : IdentityKey(d) = k /\ k \in DOMAIN selected BY <3>2 DEF NeedsDirectly
        <4>2. N \in DOMAIN visits /\ visits[N].left = {} BY <1>2, <1>4
        <4> QED BY <4>1, <4>2, <1>9, <1>10 DEF Nested
      <3>4. CASE k \in Applied
        <4>1. PICK m \in 1 .. K : applyOrder[m] = k BY <3>4, <1>3 DEF Applied
        <4>2. m \in 1 .. n - 1 /\ applyOrder'[m] = k BY <4>1, <3>1, <1>3, <1>8
        <4> QED BY <3>3, <4>2
      <3>5. CASE k \in Visiting
        <4>1. PICK m \in 1 .. N : visits[m].id = k BY <3>5, <1>2 DEF Visiting
        <4>2. CASE m = N
          <5>1. k = a BY <4>1, <4>2, <1>10
          <5>2. a \in Needed(selected, a) BY <3>2, <5>1, DirectIsNeeded
          <5> QED BY <3>1, <3>3, <5>1, <5>2
        <4>3. CASE m # N
          <5>1. m < N /\ m \in DOMAIN visits /\ N \in DOMAIN visits BY <4>1, <4>3, <1>2
          <5>2. a \in Needed(selected, k) BY <4>1, <5>1, <1>9, <1>10 DEF Nested
          <5> QED BY <3>1, <3>3, <5>2
        <4> QED BY <4>2, <4>3
      <3> QED BY <3>3, <3>4, <3>5, <1>9 DEF EachOnce
    <2> QED BY <2>1, <2>2
  <1>17. OrderInv' BY <1>14, <1>15, <1>16 DEF OrderInv
  <1> QED BY <1>7, <1>17 DEF N

\* A plan is ordered only when it fits what is installed, and its order is made step by step (plan_builder.py).
LEMMA OrderedCorrect == PlanSpec => []OrderedInv
  <1>1. PlanInit => OrderedInv BY DEF PlanInit, OrderedInv
  <1>2. PlanTypeOK /\ OrderedInv /\ [PlanNext]_planVars => OrderedInv'
    <2> SUFFICES ASSUME PlanTypeOK, OrderedInv, [PlanNext]_planVars PROVE OrderedInv'
      OBVIOUS
    <2>1. CASE phase' \in {"resolving", "choosing", "found", "unresolved", "overflow"} /\ UNCHANGED orderVars
               /\ phase \in {"resolving", "choosing", "found"}
      BY <2>1 DEF OrderedInv, orderVars
    <2>2. CASE Finds BY <2>1, <2>2 DEF Finds
    <2>3. CASE GivesUp BY <2>1, <2>3 DEF GivesUp, Raises
    <2>4. CASE Validates
      <3>1. phase = "found" /\ visits = <<>> /\ applyOrder = <<>> BY <2>4 DEF Validates, OrderedInv
      <3>2. CASE ~FinalState(problem, selected) BY <2>4, <3>2 DEF Validates, OrderedInv
      <3>3. CASE FinalState(problem, selected)
        <4>1. /\ phase' = "ordering" /\ visits' = <<Visit(RootKey)>> /\ visited' = {RootKey}
              /\ UNCHANGED <<problem, selected, applyOrder>>
          BY <2>4, <3>3 DEF Validates, searchVars
        <4>2. DOMAIN visits' = {1} /\ visits'[1].id = RootKey /\ visits'[1].left = selected[RootKey].deps
          BY <4>1 DEF Visit
        <4>3. Applied' = {} /\ Visiting' = {RootKey} BY <3>1, <4>1, <4>2 DEF Applied, Visiting
        <4>4. RootKey \in DOMAIN selected BY SelectionType DEF PlanTypeOK, RootKey
        <4>5. EachOnce'
          <5>1. IsInjective(applyOrder') BY <3>1, <4>1 DEF IsInjective
          <5>2. IsInjective(applyOrder)' BY <5>1
          <5> QED BY <4>1, <4>2, <4>3, <4>4, <5>2 DEF EachOnce
        <4>6. Nested' BY <4>1, <4>2 DEF Nested
        <4>7. AppliedAfter' BY <3>1, <4>1 DEF AppliedAfter
        <4>8. RootKey' = RootKey BY <4>1 DEF RootKey
        <4>9. OrderInv' BY <4>5, <4>6, <4>7 DEF OrderInv
        <4>10. FinalState(problem, selected)' BY <3>3, <4>1
        <4> QED BY <4>1, <4>8, <4>9, <4>10 DEF OrderedInv
      <3> QED BY <3>2, <3>3
    <2>5. CASE Applies
      <3>1. /\ phase = "ordering" /\ phase' = IF Len(visits) = 1 THEN "planned" ELSE "ordering"
            /\ UNCHANGED <<problem, selected, visited>>
        BY <2>5 DEF Applies, searchVars
      <3>2. FinalState(problem, selected) /\ RootKey \in visited /\ OrderInv BY <3>1 DEF OrderedInv
      <3>3. OrderInv' /\ (Len(visits) = 1 => visits' = <<>>) BY <2>5, <3>2, ApplyingKeepsOrder
      <3>4. FinalState(problem, selected)' /\ (RootKey \in visited)' BY <3>1, <3>2 DEF RootKey
      <3> QED BY <3>1, <3>3, <3>4 DEF OrderedInv
    <2>6. ASSUME NEW key, NEW group, Disagrees(key, group) \/ Reuses(key, group) \/ OpensChoice(key, group)
          PROVE  OrderedInv'
      <3>1. phase = "resolving" /\ UNCHANGED orderVars /\ phase' \in {"resolving", "choosing", "unresolved", "overflow"}
        BY <2>6 DEF Disagrees, Reuses, OpensChoice, Resolves, Raises
      <3> QED BY <2>1, <3>1
    <2>7. ASSUME NEW c, phase = "choosing", RejectsCandidate(c) \/ TriesCandidate(c) PROVE OrderedInv'
      <3>1. UNCHANGED orderVars /\ phase' \in {"resolving", "choosing"} BY <2>7 DEF RejectsCandidate, TriesCandidate
      <3> QED BY <2>1, <2>7, <3>1
    <2>8. ASSUME NEW d, VisitsDependency(d) PROVE OrderedInv'
      <3>1. phase = "ordering" /\ UNCHANGED <<problem, phase, selected>> BY <2>8 DEF VisitsDependency, searchVars
      <3>2. FinalState(problem, selected) /\ RootKey \in visited /\ OrderInv BY <3>1 DEF OrderedInv
      <3>3. OrderInv' BY <2>8, <3>2, VisitingKeepsOrder
      <3>4. visited \subseteq visited' BY <2>8 DEF VisitsDependency
      <3>5. FinalState(problem, selected)' /\ (RootKey \in visited)' BY <3>1, <3>2, <3>4 DEF RootKey
      <3> QED BY <3>1, <3>3, <3>5 DEF OrderedInv
    <2>9. CASE UNCHANGED planVars
      <3>1. UNCHANGED <<problem, phase, selected, visits, visited, applyOrder>> BY <2>9 DEF planVars
      <3>2. OrderInv => OrderInv'
        BY <3>1 DEF OrderInv, EachOnce, Nested, AppliedAfter, Applied, Visiting
      <3> QED BY <3>1, <3>2 DEF OrderedInv, RootKey
    <2> QED BY <2>2, <2>3, <2>4, <2>5, <2>6, <2>7, <2>8, <2>9 DEF PlanNext
  <1> QED BY <1>1, <1>2, PlanTypeCorrect, PTL DEF PlanSpec

\* What a finished plan applies is all that was selected (plan_builder.py, from_solution).
LEMMA AllIsApplied ==
  ASSUME PlanTypeOK, OrderedInv, phase = "planned", SearchSound(problem, selected, {})
  PROVE  Applied = DOMAIN selected
  <1>1. OrderInv /\ RootKey \in visited /\ visits = <<>> BY DEF OrderedInv
  <1>2. Visiting = {} BY <1>1 DEF Visiting
  <1>3. visited = Applied /\ Applied \subseteq DOMAIN selected BY <1>1, <1>2 DEF OrderInv, EachOnce
  <1>4. Closed(selected, Applied)
    <2> SUFFICES ASSUME NEW id \in Applied, NEW k \in NeedsDirectly(selected, id) PROVE k \in Applied
      BY DEF Closed
    <2>1. PICK n \in DOMAIN applyOrder : applyOrder[n] = id BY DEF Applied
    <2>2. k \in visited BY <1>1, <2>1 DEF OrderInv, AppliedAfter
    <2> QED BY <2>2, <1>3
  <1> QED BY <1>1, <1>3, <1>4 DEF SearchSound, RootKey

\* A plan applies one version of every skill that is needed, each meeting all that is required of it and
\* none in conflict, once, and after what it needs (DependencySolver, InstallPlanBuilder).
THEOREM PlanSoundCorrect == PlanSpec => []PlanIsSound
  <1>1. PlanTypeOK /\ SearchInv /\ OrderedInv => PlanIsSound
    <2> SUFFICES ASSUME PlanTypeOK, SearchInv, OrderedInv, Exact(problem), phase = "planned"
                 PROVE  /\ Consistent({selected[id] : id \in DOMAIN selected})
                        /\ IsInjective(applyOrder) /\ Applied = DOMAIN selected
                        /\ \A m, n \in DOMAIN applyOrder :
                              applyOrder[m] \in NeedsDirectly(selected, applyOrder[n]) =>
                                  m < n \/ applyOrder[n] \in Needed(selected, applyOrder[m])
      BY DEF PlanIsSound, Applied
    <2>1. SearchSound(problem, selected, {}) BY DEF SearchInv
    <2>2. OrderInv BY DEF OrderedInv
    <2> DEFINE S == {selected[id] : id \in DOMAIN selected}
    <2>3. \A c, d \in S : c # d => c.name # d.name /\ ~Conflicting(c, d)
      <3> SUFFICES ASSUME NEW id \in DOMAIN selected, NEW k \in DOMAIN selected, selected[id] # selected[k]
                   PROVE  selected[id].name # selected[k].name /\ ~Conflicting(selected[id], selected[k])
        OBVIOUS
      <3> QED BY <2>1 DEF SearchSound
    <2>4. ASSUME NEW id \in DOMAIN selected, NEW d \in selected[id].deps PROVE \E e \in Chosen(S, d) : Meets(e, d)
      <3>1. IdentityKey(d) \in DOMAIN selected /\ Meets(selected[IdentityKey(d)], d) BY <2>1 DEF SearchSound
      <3>2. selected[IdentityKey(d)] \in Chosen(S, d) BY <2>1, <3>1 DEF SearchSound, Chosen
      <3> QED BY <3>1, <3>2
    <2>5. Consistent(S) BY <2>3, <2>4 DEF Consistent
    <2>6. Applied = DOMAIN selected BY <2>1, AllIsApplied
    <2>7. IsInjective(applyOrder) BY <2>2 DEF OrderInv, EachOnce
    <2>8. ASSUME NEW m \in DOMAIN applyOrder, NEW n \in DOMAIN applyOrder,
                 applyOrder[m] \in NeedsDirectly(selected, applyOrder[n])
          PROVE  m < n \/ applyOrder[n] \in Needed(selected, applyOrder[m])
      <3>1. CASE applyOrder[n] \in Needed(selected, applyOrder[m]) BY <3>1
      <3>2. CASE \E i \in 1 .. n - 1 : applyOrder[i] = applyOrder[m]
        <4>1. PICK i \in 1 .. n - 1 : applyOrder[i] = applyOrder[m] BY <3>2
        <4>2. DOMAIN applyOrder = 1 .. Len(applyOrder) /\ Len(applyOrder) \in Nat BY DEF PlanTypeOK
        <4>3. i \in DOMAIN applyOrder /\ i < n BY <4>1, <4>2
        <4>4. i = m BY <2>7, <4>1, <4>3 DEF IsInjective
        <4> QED BY <4>3, <4>4
      <3> QED BY <2>2, <2>8, <3>1, <3>2 DEF OrderInv, AppliedAfter
    <2> QED BY <2>5, <2>6, <2>7, <2>8
  <1> QED BY <1>1, PlanTypeCorrect, SearchCorrect, OrderedCorrect, PTL

\* The search fails only when there is nothing to find (DependencySolver._resolve_recursive).
THEOREM PlanCompleteCorrect == PlanSpec => []PlanIsComplete
  <1>1. CompleteInv => PlanIsComplete
    <2> SUFFICES ASSUME CompleteInv, Exact(problem), phase = "unresolved", NEW S \in SUBSET problem.catalog,
                        Consistent(S \cup {problem.root})
                 PROVE  FALSE
      BY DEF PlanIsComplete
    <2>1. StillPossible(S \cup {problem.root}) /\ choices = <<>> BY DEF CompleteInv
    <2> QED BY <2>1 DEF StillPossible
  <1> QED BY <1>1, CompleteCorrect, PTL

\* No plan breaks a lock or an installed skill (validate_final_state).
THEOREM PlanInstalledCorrect == PlanSpec => []PlanRespectsInstalled
  <1>1. OrderedInv => PlanRespectsInstalled
    <2> SUFFICES ASSUME OrderedInv, phase = "planned", NEW id \in DOMAIN problem.installed
                 PROVE  IF id \in DOMAIN selected
                        THEN \/ PlanAction(problem, id, selected[id]) \in {"keep", "switch", "sync"}
                             \/ id = RootKey /\ problem.mode = "install"
                             \/ problem.installed[id].lock = {}
                        ELSE \A x \in DOMAIN selected : ~Conflicting(selected[x], problem.installed[id])
      BY DEF PlanRespectsInstalled
    <2>1. FinalState(problem, selected) BY DEF OrderedInv
    <2>2. CASE id \notin DOMAIN selected BY <2>1, <2>2 DEF FinalState
    <2>3. CASE id \in DOMAIN selected
      <3>1. CASE problem.installed[id].lock \subseteq {selected[id].v} /\ problem.installed[id].lock # {}
        <4> DEFINE c == selected[id]
                   item == problem.installed[id]
        <4>1. c.v \in {item.v} \cup item.lock BY <3>1
        <4> HIDE DEF c
        <4>2. PlanAction(problem, id, c) \in {"keep", "switch", "sync"} BY <4>1 DEF PlanAction
        <4> QED BY <4>2, <2>3 DEF c
      <3>2. CASE problem.mode = "install" /\ id = RootKey BY <2>3, <3>2
      <3> QED BY <2>1, <2>3, <3>1, <3>2 DEF FinalState, RootKey
    <2> QED BY <2>2, <2>3
  <1> QED BY <1>1, OrderedCorrect, PTL

\* The search is never deeper than there are identities (_resolve_candidates calls itself once for each).
THEOREM PlanFitsCorrect == PlanSpec => []PlanFits
  <1>1. PlanInit => PlanFits BY DEF PlanInit, PlanFits
  <1>2. PlanTypeOK /\ SearchInv /\ PlanTypeOK' /\ PlanFits /\ [PlanNext]_planVars => PlanFits'
    <2> SUFFICES ASSUME PlanTypeOK, SearchInv, PlanFits, [PlanNext]_planVars,
                        Exact(problem'), IsFiniteSet(Identities(problem')), Cardinality(Identities(problem')) <= MaxDepth
                 PROVE  phase' # "overflow"
      BY DEF PlanFits
    <2>1. problem' = problem
      BY DEF PlanNext, planVars, Finds, GivesUp, Validates, Applies, Disagrees, Reuses, OpensChoice,
             RejectsCandidate, TriesCandidate, VisitsDependency
    <2>2. phase # "overflow" BY <2>1 DEF PlanFits
    <2>3. ASSUME NEW r \in required, NEW group, OpensChoice(IdentityKey(r.dep), group) PROVE phase' # "overflow"
      <3> DEFINE key == IdentityKey(r.dep)
      <3>1. phase = "resolving" /\ key \notin DOMAIN selected BY <2>3 DEF OpensChoice, Resolves
      <3>2. CASE Len(choices) < MaxDepth BY <2>3, <3>2 DEF OpensChoice
      <3>3. CASE ~(Len(choices) < MaxDepth)
        <4>1. IsFiniteSet(DOMAIN selected) /\ Cardinality(DOMAIN selected) = Len(choices) + 1
          BY <2>1, <3>1 DEF SearchInv
        <4>2. DOMAIN selected \subseteq Identities(problem) BY SelectionType DEF PlanTypeOK
        <4>3. Cardinality(DOMAIN selected) <= Cardinality(Identities(problem)) BY <2>1, <4>2, FS_Subset
        <4>4. Len(choices) \in Nat BY DEF PlanTypeOK
        <4>5. Cardinality(Identities(problem)) \in Nat BY <2>1, FS_CardinalityType
        <4> QED BY <2>1, <3>3, <4>1, <4>3, <4>4, <4>5, MaxDepthAssumption
      <3> QED BY <3>2, <3>3
    <2>4. CASE Finds \/ GivesUp \/ Validates \/ Applies
      BY <2>4, <2>2 DEF Finds, GivesUp, Raises, Validates, Applies
    <2>5. ASSUME NEW key, NEW group, Disagrees(key, group) \/ Reuses(key, group) PROVE phase' # "overflow"
      BY <2>5, <2>2 DEF Disagrees, Raises, Reuses
    <2>6. ASSUME NEW c, RejectsCandidate(c) \/ TriesCandidate(c) PROVE phase' # "overflow"
      BY <2>6, <2>2 DEF RejectsCandidate, TriesCandidate
    <2>7. ASSUME NEW d, VisitsDependency(d) PROVE phase' # "overflow" BY <2>7, <2>2 DEF VisitsDependency
    <2>8. CASE UNCHANGED planVars BY <2>8, <2>2 DEF planVars
    <2> QED BY <2>3, <2>4, <2>5, <2>6, <2>7, <2>8 DEF PlanNext
  <1> QED BY <1>1, <1>2, PlanTypeCorrect, SearchCorrect, PTL DEF PlanSpec

\* All that an install's planning promises (DependencySolver, InstallPlanBuilder), for any catalog.
THEOREM PlansCorrect == PlanSpec => []PlansAreRight
  BY PlanTypeCorrect, PlanSoundCorrect, PlanCompleteCorrect, PlanInstalledCorrect, PlanFitsCorrect, PTL DEF PlansAreRight

-------------------------------------------------------------------------------
(* What is merged so far is layered: the invariant of a resolution *)

\* What the sources before the n-th say of the fields.
FieldsBefore(f, n) == UNION {FieldsOf(f, m) : m \in {m \in Sources(f) : m < n}}

\* What the sources before the n-th say of exceptions, and the first k items of the n-th.
ExceptionsSeen(f, n, k) ==
    {e \in UNION {ExceptionsOf(f, m) : m \in {m \in Sources(f) : m < n \/ (m = n /\ k > 0)}} :
        e.source < n \/ e.at <= k}

\* The merge of a source copies what there was and then goes through the source's items.
Copies(f) ==
    /\ Represents(ExceptionsSeen(f, next, 0), earlier)
    /\ \A p \in Payload(f, next) : taken <= Len(earlier) + Len(p.exceptions)
    /\ taken <= Len(earlier) => Len(result) = taken /\ \A n \in 1 .. taken : result[n] = earlier[n]
    /\ taken >= Len(earlier) => Represents(ExceptionsSeen(f, next, taken - Len(earlier)), result)

MergeInv ==
    /\ Layered(FieldsBefore(files, IF progress = "merging" THEN next + 1 ELSE next), fields)
    /\ IF progress = "merging" THEN Copies(files) ELSE Represents(ExceptionsSeen(files, next, 0), result)
    /\ progress = "merged" => next \notin Sources(files)

-------------------------------------------------------------------------------
(* The layers of policy files *)

USE DEF Records, Payloads, Entry

\* There are some sources, in an order.
LEMMA PacksCounted ==
    ASSUME FilesOK(files)
    PROVE  Len(ActivePacks(files)) \in Nat
<1>1. CASE files.selection = {}
  BY <1>1 DEF ActivePacks
<1>2. CASE files.selection # {}
  <2>1. ActivePacks(files) \in files.selection
    BY <1>2 DEF ActivePacks
  <2> QED BY <2>1 DEF FilesOK
<1> QED BY <1>1, <1>2

\* A source says at most one thing of the domain.
LEMMA OnePayload ==
    ASSUME FilesOK(files), NEW n \in Sources(files), NEW p \in Payload(files, n), NEW q \in Payload(files, n)
    PROVE  p = q
BY DEF FilesOK, Payload

LEMMA PayloadType ==
    ASSUME FilesOK(files), NEW n \in Sources(files), Loads(files, n), NEW p \in Payload(files, n)
    PROVE  p.fields \in Objects /\ p.exceptions \in Seq(Records)
BY DEF FilesOK

\* What is above a field that is above a field is above that.
LEMMA AboveAbove ==
    ASSUME NEW path \in Paths, NEW above \in FieldsAbove(path), NEW higher \in FieldsAbove(above)
    PROVE  higher \in FieldsAbove(path)
<1> path \in Seq(Keys)
  BY PathsAssumption
<1>1. PICK n \in 1 .. Len(path) - 1 : above = SubSeq(path, 1, n)
  BY DEF FieldsAbove
<1>2. Len(above) = n /\ \A i \in 1 .. n : above[i] = path[i]
  <2> 1 \in Int /\ n \in Int /\ 1 <= n /\ n <= Len(path)
    BY LenProperties
  <2> QED BY <1>1, SubSeqProperties
<1>3. above \in Seq(Keys)
  BY <1>1, LenProperties, SubSeqProperties
<1>4. PICK m \in 1 .. n - 1 : higher = SubSeq(above, 1, m)
  BY <1>2 DEF FieldsAbove
<1>5. SubSeq(above, 1, m) = SubSeq(path, 1, m)
  BY <1>2, <1>3, <1>4, SubSeqProperties, LenProperties, SeqEqual
<1> QED BY <1>4, <1>5, LenProperties DEF FieldsAbove

\* Two objects merge to an object.
LEMMA MergeIsObject ==
    ASSUME NEW base \in Objects, NEW overlay \in Objects
    PROVE  MergeValues(base, overlay) \in Objects
<1> DEFINE M == MergeValues(base, overlay)
<1>1. /\ DOMAIN base \subseteq Paths /\ DOMAIN overlay \subseteq Paths
      /\ base \in [DOMAIN base -> Values \cup {Mapping}] /\ overlay \in [DOMAIN overlay -> Values \cup {Mapping}]
      /\ IsObject(base) /\ IsObject(overlay)
  BY DEF Objects
<1>2. /\ DOMAIN M = DOMAIN overlay \cup {path \in DOMAIN base : Leaves(overlay, path)}
      /\ \A path \in DOMAIN M : M[path] = IF path \in DOMAIN overlay THEN overlay[path] ELSE base[path]
      /\ M \in [DOMAIN M -> Values \cup {Mapping}]
  BY <1>1 DEF MergeValues
<1>3. ASSUME NEW path \in DOMAIN M, NEW above \in FieldsAbove(path)
      PROVE  above \in DOMAIN M /\ M[above] = Mapping
  <2>1. CASE path \in DOMAIN overlay
    BY <1>1, <1>2, <1>3, <2>1 DEF IsObject
  <2>2. CASE path \notin DOMAIN overlay
    <3>1. path \in DOMAIN base /\ path \in Paths /\ Leaves(overlay, path)
      BY <1>1, <1>2, <1>3, <2>2
    <3>2. above \in DOMAIN base /\ base[above] = Mapping
      BY <1>1, <1>3, <3>1 DEF IsObject
    <3>3. CASE above \in DOMAIN overlay
      BY <1>2, <1>3, <3>1, <3>3 DEF Leaves
    <3>4. CASE above \notin DOMAIN overlay
      <4>1. Leaves(overlay, above)
        BY <1>3, <3>1, <3>4, AboveAbove DEF Leaves
      <4> QED BY <1>2, <3>2, <3>4, <4>1
    <3> QED BY <3>3, <3>4
  <2> QED BY <2>1, <2>2
<1>4. IsObject(M)
  BY <1>3 DEF IsObject
<1> HIDE DEF M
<1>5. DOMAIN M \in SUBSET Paths
  BY <1>1, <1>2
<1>6. M \in Objects
  BY <1>2, <1>4, <1>5 DEF Objects
<1> QED BY <1>6 DEF M

\* Merging one more record keeps the records typed.
LEMMA RecordsTyped ==
    ASSUME NEW records \in Seq(Records), NEW r \in Records
    PROVE  MergeRecord(records, r) \in Seq(Records)
<1> DEFINE merged(n) == IF records[n].id = r.id
                        THEN [id |-> r.id, body |-> MergeValues(records[n].body, r.body)] ELSE records[n]
<1>1. ASSUME NEW n \in DOMAIN records
      PROVE  merged(n) \in Records
  <2>1. records[n] \in Records
    BY ElementOfSeq, LenProperties
  <2>2. MergeValues(records[n].body, r.body) \in Objects
    BY <2>1, MergeIsObject
  <2> QED BY <2>1, <2>2
<1>2. CASE \E n \in DOMAIN records : records[n].id = r.id
  <2>1. MergeRecord(records, r) = [n \in DOMAIN records |-> merged(n)]
    BY <1>2 DEF MergeRecord
  <2> HIDE DEF merged
  <2> DOMAIN records = 1 .. Len(records) /\ Len(records) \in Nat
    BY LenProperties
  <2>2. [n \in 1 .. Len(records) |-> merged(n)] \in Seq(Records)
    BY <1>1, IsASeq
  <2> QED BY <2>1, <2>2
<1>3. CASE ~\E n \in DOMAIN records : records[n].id = r.id
  BY <1>3, AppendProperties DEF MergeRecord
<1> QED BY <1>2, <1>3

\* The item that is merged next is a record.
LEMMA ItemTyped ==
    ASSUME earlier \in Seq(Records), taken \in Nat, NEW p, p.exceptions \in Seq(Records),
           taken < Len(earlier) + Len(p.exceptions)
    PROVE  Item(p) \in Records
<1> Len(earlier) \in Nat /\ Len(p.exceptions) \in Nat
  BY LenProperties
<1>1. CASE taken < Len(earlier)
  <2>1. taken + 1 \in 1 .. Len(earlier)
    BY <1>1
  <2> QED BY <1>1, <2>1, ElementOfSeq DEF Item
<1>2. CASE ~(taken < Len(earlier))
  <2>1. taken + 1 - Len(earlier) \in 1 .. Len(p.exceptions)
    BY <1>2
  <2> QED BY <1>2, <2>1, ElementOfSeq DEF Item
<1> QED BY <1>1, <1>2

\* What is merged stays an object: every step keeps the fields, the exceptions and
\* the sources that loaded as they should be.
THEOREM PolicyTypeCorrect == PolicySpec => []PolicyTypeOK
<1>1. PolicyInit => PolicyTypeOK
  <2> SUFFICES ASSUME PolicyInit PROVE PolicyTypeOK
    OBVIOUS
  <2>1. Len(ActivePacks(files)) \in Nat
    BY PacksCounted DEF PolicyInit
  <2>2. Nothing \in Objects
    <3>1. DOMAIN Nothing = {} /\ Nothing \in [{} -> Values \cup {Mapping}] /\ IsObject(Nothing)
      BY DEF Nothing, IsObject
    <3>2. {} \in SUBSET Paths
      OBVIOUS
    <3> QED BY <3>1, <3>2 DEF Objects
  <2>3. <<>> \in Seq(Records)
    OBVIOUS
  <2> QED BY <2>1, <2>2, <2>3 DEF PolicyInit, PolicyTypeOK, Sources
<1>2. PolicyTypeOK /\ [PolicyNext]_policyVars => PolicyTypeOK'
  <2> SUFFICES ASSUME PolicyTypeOK, [PolicyNext]_policyVars PROVE PolicyTypeOK'
    OBVIOUS
  <2>0. Len(ActivePacks(files)) \in Nat /\ FilesOK(files)
    BY PacksCounted DEF PolicyTypeOK
  <2>1. CASE Selects
    BY <2>0, <2>1 DEF PolicyTypeOK, Selects, mergeVars, Sources
  <2>2. CASE PackRefuses
    BY <2>0, <2>2 DEF PolicyTypeOK, PackRefuses, mergeVars, Sources
  <2>3. CASE Skips
    BY <2>0, <2>3 DEF PolicyTypeOK, Skips, Reads, mergeVars, Sources
  <2>4. CASE Finishes
    BY <2>0, <2>4 DEF PolicyTypeOK, Finishes, mergeVars, Sources
  <2>5. ASSUME progress = "merging" \/ Reads, NEW p \in Payload(files, next),
               MergesFields(p) \/ MergesItem(p) \/ FinishesSource(p)
        PROVE  PolicyTypeOK'
    <3>0. p.fields \in Objects /\ p.exceptions \in Seq(Records) /\ next \in Sources(files) /\ Loads(files, next)
      BY <2>0, <2>5, PayloadType DEF PolicyTypeOK, Reads
    <3>1. CASE MergesFields(p)
      <4>1. fields' \in Objects
        BY <3>0, <3>1, MergeIsObject DEF PolicyTypeOK, MergesFields
      <4>2. earlier' \in Seq(Records) /\ result' \in Seq(Records) /\ taken' \in Nat
        BY <3>1 DEF PolicyTypeOK, MergesFields
      <4> QED BY <2>0, <3>0, <3>1, <4>1, <4>2 DEF PolicyTypeOK, MergesFields, Sources
    <3>2. CASE MergesItem(p)
      <4>1. result' \in Seq(Records)
        BY <3>0, <3>2, ItemTyped, RecordsTyped DEF PolicyTypeOK, MergesItem
      <4> QED BY <2>0, <3>0, <3>2, <4>1 DEF PolicyTypeOK, MergesItem, Sources
    <3>3. CASE FinishesSource(p)
      BY <2>0, <3>0, <3>3 DEF PolicyTypeOK, FinishesSource, mergeVars, Sources
    <3> QED BY <2>5, <3>1, <3>2, <3>3
  <2>6. CASE UNCHANGED policyVars
    BY <2>6 DEF PolicyTypeOK, policyVars
  <2> QED BY <2>1, <2>2, <2>3, <2>4, <2>5, <2>6 DEF PolicyNext
<1> QED BY <1>1, <1>2, PTL DEF PolicySpec

\* What an entry of a source says, and where.
LEMMA ExceptionTyped ==
    ASSUME FilesOK(files), NEW n \in Sources(files), Loads(files, n), NEW e \in ExceptionsOf(files, n)
    PROVE  e.source = n /\ n \in Nat /\ e.at \in Nat /\ e.at > 0 /\ e.id \in Ids /\ e.body \in Objects
<1>0. PICK p \in Payload(files, n) :
         \E k \in DOMAIN p.exceptions : e = Entry(n, k, p.exceptions[k].id, p.exceptions[k].body)
  BY DEF ExceptionsOf
<1>1. PICK k \in DOMAIN p.exceptions : e = Entry(n, k, p.exceptions[k].id, p.exceptions[k].body)
  BY <1>0
<1>2. p.exceptions \in Seq(Records)
  BY PayloadType
<1>3. k \in 1 .. Len(p.exceptions) /\ p.exceptions[k] \in Records /\ Len(p.exceptions) \in Nat
  BY <1>2, <1>1, ElementOfSeq, LenProperties
<1> QED BY <1>1, <1>3, PacksCounted DEF Sources

LEMMA FieldsTyped ==
    ASSUME FilesOK(files), NEW n \in Sources(files), Loads(files, n), NEW e \in FieldsOf(files, n)
    PROVE  e.source = n /\ n \in Nat /\ e.at \in Nat /\ e.body \in Objects
<1>1. PICK p \in Payload(files, n) : e = Entry(n, 0, "", p.fields)
  BY DEF FieldsOf
<1>2. p.fields \in Objects
  BY PayloadType
<1>3. n \in Nat
  BY PacksCounted DEF Sources
<1> QED BY <1>1, <1>2, <1>3

-------------------------------------------------------------------------------
(* One more layer *)

\* Entries of fields or of exceptions that have places in the order.
Placed(E) == \A e \in E : e.source \in Nat /\ e.at \in Nat /\ e.body \in Objects

\* An object on top of what is layered decides what it sets and hides what it replaces.
LEMMA MergeIsLayered ==
    ASSUME NEW E, NEW e0, Placed(E \cup {e0}), \A e \in E : After(e0, e), NEW body \in Objects, Layered(E, body)
    PROVE  Layered(E \cup {e0}, MergeValues(body, e0.body))
<1> DEFINE M == MergeValues(body, e0.body)
           F == E \cup {e0}
<1>1. /\ DOMAIN M = DOMAIN e0.body \cup {path \in DOMAIN body : Leaves(e0.body, path)}
      /\ \A path \in DOMAIN M : M[path] = IF path \in DOMAIN e0.body THEN e0.body[path] ELSE body[path]
  BY DEF MergeValues
<1>2. \A e \in E : ~After(e, e0)
  BY DEF After, Placed
<1>3. ~After(e0, e0)
  BY DEF After, Placed
<1> HIDE DEF M
<1>4. ASSUME NEW e \in F, NEW path \in DOMAIN e.body, Decides(F, e, path)
      PROVE  path \in DOMAIN M /\ M[path] = e.body[path]
  <2>1. CASE e = e0
    BY <1>1, <1>4, <2>1
  <2>2. CASE e \in E
    <3>1. Decides(E, e, path)
      BY <1>4 DEF Decides
    <3>2. path \in DOMAIN body /\ body[path] = e.body[path]
      BY <1>4, <2>2, <3>1 DEF Layered
    <3>3. Leaves(e0.body, path)
      BY <1>4, <2>2 DEF Decides
    <3>4. path \notin DOMAIN e0.body
      BY <3>3 DEF Leaves
    <3> QED BY <1>1, <3>2, <3>3, <3>4
  <2> QED BY <2>1, <2>2
<1>5. ASSUME NEW path \in DOMAIN M
      PROVE  \E e \in F : Decides(F, e, path)
  <2>1. CASE path \in DOMAIN e0.body
    <3>1. Decides(F, e0, path)
      BY <1>2, <1>3, <2>1 DEF Decides
    <3> QED BY <3>1
  <2>2. CASE path \notin DOMAIN e0.body
    <3>1. path \in DOMAIN body /\ Leaves(e0.body, path)
      BY <1>1, <1>5, <2>2
    <3>2. PICK e \in E : Decides(E, e, path)
      BY <3>1 DEF Layered
    <3>3. Decides(F, e, path)
      BY <3>1, <3>2 DEF Decides
    <3> QED BY <3>2, <3>3
  <2> QED BY <2>1, <2>2
<1>6. Layered(F, M)
  BY <1>4, <1>5 DEF Layered
<1> QED BY <1>6 DEF M

\* What one source says alone.
LEMMA OneLayer ==
    ASSUME NEW e0, Placed({e0})
    PROVE  Layered({e0}, e0.body)
<1>1. ~After(e0, e0)
  BY DEF After, Placed
<1> QED BY <1>1 DEF Layered, Decides

LEMMA NoLayer == Layered({}, Nothing)
BY DEF Layered, Nothing

\* Of the records of a policy no two have the same id.
LEMMA IdsDiffer ==
    ASSUME NEW E, Placed(E), NEW records \in Seq(Records), Represents(E, records),
           NEW m \in DOMAIN records, NEW n \in DOMAIN records, m < n
    PROVE  records[m].id # records[n].id
<1>1. PICK e \in Of(E, records[m].id) : \A g \in Of(E, records[n].id) : After(g, e)
  BY DEF Represents
<1>2. e \in E /\ e.id = records[m].id
  BY <1>1 DEF Of
<1>3. ~After(e, e)
  BY <1>2 DEF After, Placed
<1> QED BY <1>1, <1>2, <1>3 DEF Of

\* Merging an entry behind all others into the records they make gives the records
\* that all of them make.
LEMMA RecordMerges ==
    ASSUME NEW E, NEW e0, Placed(E \cup {e0}), e0.id \in Ids, \A e \in E : After(e0, e),
           NEW records \in Seq(Records), Represents(E, records),
           NEW r \in Records, r.id = e0.id, r.body = e0.body
    PROVE  Represents(E \cup {e0}, MergeRecord(records, r))
<1> DEFINE F == E \cup {e0}
           R == MergeRecord(records, r)
           Len0 == Len(records)
<1>0. DOMAIN records = 1 .. Len0 /\ Len0 \in Nat
  BY LenProperties
<1>1. Placed(E) /\ Placed({e0})
  BY DEF Placed
<1>2. \A id : id # e0.id => Of(F, id) = Of(E, id)
  BY DEF Of
<1>3. Of(F, e0.id) = Of(E, e0.id) \cup {e0}
  BY DEF Of
<1>4. \A id : Placed(Of(E, id) \cup {e0}) /\ \A e \in Of(E, id) : After(e0, e)
  BY DEF Placed, Of
<1>5. CASE \E n \in DOMAIN records : records[n].id = r.id
  <2>1. /\ DOMAIN R = DOMAIN records
        /\ \A n \in DOMAIN records :
              R[n] = IF records[n].id = r.id
                     THEN [id |-> r.id, body |-> MergeValues(records[n].body, r.body)] ELSE records[n]
    BY <1>5 DEF MergeRecord
  <2> HIDE DEF R
  <2>2. \A n \in DOMAIN records : R[n].id = records[n].id
    BY <2>1
  <2>3. {R[n].id : n \in DOMAIN R} = {e.id : e \in F}
    <3>1. {R[n].id : n \in DOMAIN R} = {records[n].id : n \in DOMAIN records}
      BY <2>1, <2>2
    <3>2. e0.id \in {e.id : e \in E}
      BY <1>5 DEF Represents
    <3> QED BY <3>1, <3>2 DEF Represents
  <2>4. ASSUME NEW n \in DOMAIN R
        PROVE  Layered(Of(F, R[n].id), R[n].body)
    <3>1. n \in DOMAIN records /\ Layered(Of(E, records[n].id), records[n].body)
      BY <2>1 DEF Represents
    <3>2. records[n].body \in Objects
      <4>1. records[n] \in Records
        BY <3>1, <1>0, ElementOfSeq
      <4> QED BY <4>1
    <3>3. CASE records[n].id = r.id
      <4>1. R[n].body = MergeValues(records[n].body, e0.body)
        BY <2>1, <3>1, <3>3
      <4>2. Layered(Of(E, e0.id) \cup {e0}, MergeValues(records[n].body, e0.body))
        BY <1>4, <3>1, <3>2, <3>3, MergeIsLayered
      <4> QED BY <1>3, <2>2, <3>1, <3>3, <4>1, <4>2
    <3>4. CASE records[n].id # r.id
      BY <1>2, <2>1, <3>1, <3>4
    <3> QED BY <3>3, <3>4
  <2>5. ASSUME NEW m \in DOMAIN R, NEW n \in DOMAIN R, m < n
        PROVE  \E e \in Of(F, R[m].id) : \A g \in Of(F, R[n].id) : After(g, e)
    <3>1. PICK e \in Of(E, records[m].id) : \A g \in Of(E, records[n].id) : After(g, e)
      BY <2>1, <2>5 DEF Represents
    <3>2. e \in Of(F, R[m].id) /\ e \in E
      BY <2>1, <2>2, <3>1 DEF Of
    <3>3. \A g \in Of(F, R[n].id) : After(g, e)
      BY <2>1, <2>2, <3>1, <3>2 DEF Of
    <3> QED BY <3>2, <3>3
  <2>6. Represents(F, R)
    BY <2>3, <2>4, <2>5 DEF Represents
  <2> QED BY <2>6 DEF R
<1>6. CASE ~\E n \in DOMAIN records : records[n].id = r.id
  <2>1. /\ R = Append(records, r) /\ Len(R) = Len0 + 1 /\ DOMAIN R = 1 .. Len0 + 1
        /\ \A n \in 1 .. Len0 : R[n] = records[n]
        /\ R[Len0 + 1] = r
    <3>1. R = Append(records, r)
      BY <1>6 DEF MergeRecord
    <3>2. Append(records, r) \in Seq(Records)
      BY AppendProperties
    <3> QED BY <1>0, <3>1, <3>2, AppendProperties, LenProperties
  <2> HIDE DEF R
  <2>2. Of(E, r.id) = {}
    <3>1. r.id \notin {records[n].id : n \in DOMAIN records}
      BY <1>6
    <3>2. r.id \notin {e.id : e \in E}
      BY <3>1 DEF Represents
    <3> QED BY <3>2 DEF Of
  <2>3. \A n \in 1 .. Len0 : Of(F, R[n].id) = Of(E, records[n].id)
    BY <1>0, <1>2, <1>6, <2>1
  <2>4. Of(F, r.id) = {e0}
    BY <1>3, <2>2
  <2>5. {R[n].id : n \in DOMAIN R} = {e.id : e \in F}
    <3>1. {R[n].id : n \in DOMAIN R} = {records[n].id : n \in DOMAIN records} \cup {r.id}
      <4>1. \A n \in DOMAIN R : n = Len0 + 1 \/ n \in DOMAIN records
        BY <1>0, <2>1
      <4>2. Len0 + 1 \in DOMAIN R /\ \A n \in DOMAIN records : n \in DOMAIN R
        BY <1>0, <2>1
      <4>3. \A n \in DOMAIN records : R[n].id = records[n].id
        BY <1>0, <2>1
      <4> QED BY <2>1, <4>1, <4>2, <4>3
    <3> QED BY <3>1 DEF Represents
  <2>6. ASSUME NEW n \in DOMAIN R
        PROVE  Layered(Of(F, R[n].id), R[n].body)
    <3>1. CASE n \in 1 .. Len0
      BY <1>0, <2>1, <2>3, <3>1 DEF Represents
    <3>2. CASE n = Len0 + 1
      BY <1>1, <2>1, <2>4, <3>2, OneLayer
    <3> QED BY <1>0, <2>1, <3>1, <3>2
  <2>7. ASSUME NEW m \in DOMAIN R, NEW n \in DOMAIN R, m < n
        PROVE  \E e \in Of(F, R[m].id) : \A g \in Of(F, R[n].id) : After(g, e)
    <3>1. m \in 1 .. Len0 /\ m \in DOMAIN records
      BY <1>0, <2>1, <2>7
    <3>2. CASE n \in 1 .. Len0
      BY <1>0, <2>3, <2>7, <3>1, <3>2 DEF Represents
    <3>3. CASE n = Len0 + 1
      <4>1. records[m].id \in {e.id : e \in E}
        BY <3>1 DEF Represents
      <4>2. PICK e \in E : e.id = records[m].id
        BY <4>1
      <4>3. e \in Of(F, R[m].id)
        BY <2>3, <3>1, <4>2 DEF Of
      <4>4. Of(F, R[n].id) = {e0} /\ After(e0, e)
        BY <2>1, <2>4, <3>3, <4>2
      <4> QED BY <4>3, <4>4
    <3>4. n \in 1 .. Len0 \/ n = Len0 + 1
      BY <1>0, <2>1
    <3> QED BY <3>2, <3>3, <3>4
  <2>8. Represents(F, R)
    BY <2>5, <2>6, <2>7 DEF Represents
  <2> QED BY <2>8 DEF R
<1> QED BY <1>5, <1>6

-------------------------------------------------------------------------------
(* What is merged so far *)

LEMMA FieldsPlaced ==
    ASSUME FilesOK(files), NEW n \in Nat, \A m \in Sources(files) : m < n => Loads(files, m)
    PROVE  /\ Placed(FieldsBefore(files, n))
           /\ \A e \in FieldsBefore(files, n) : e.source < n
<1> SUFFICES ASSUME NEW e \in FieldsBefore(files, n)
             PROVE  e.source \in Nat /\ e.at \in Nat /\ e.body \in Objects /\ e.source < n
  BY DEF Placed
<1>1. PICK m \in Sources(files) : m < n /\ e \in FieldsOf(files, m)
  BY DEF FieldsBefore
<1> QED BY <1>1, FieldsTyped

\* The exceptions seen come from sources that are loaded.
LEMMA WhatIsSeen ==
    ASSUME FilesOK(files), NEW n \in Nat, NEW k \in Nat,
           \A m \in Sources(files) : m < n \/ (m = n /\ k > 0) => Loads(files, m), NEW e
    PROVE  e \in ExceptionsSeen(files, n, k) <=>
              \E m \in Sources(files) :
                 /\ Loads(files, m) /\ e \in ExceptionsOf(files, m)
                 /\ m < n \/ (m = n /\ k > 0 /\ e.at <= k)
<1>0. \A m \in Sources(files) : m \in Nat
  BY PacksCounted DEF Sources
<1>1. ASSUME e \in ExceptionsSeen(files, n, k)
      PROVE  \E m \in Sources(files) :
                /\ Loads(files, m) /\ e \in ExceptionsOf(files, m)
                /\ m < n \/ (m = n /\ k > 0 /\ e.at <= k)
  <2>1. /\ e.source < n \/ e.at <= k
        /\ \E m \in Sources(files) : (m < n \/ (m = n /\ k > 0)) /\ e \in ExceptionsOf(files, m)
    BY <1>1 DEF ExceptionsSeen
  <2>2. PICK m \in Sources(files) : (m < n \/ (m = n /\ k > 0)) /\ e \in ExceptionsOf(files, m)
    BY <2>1
  <2>3. Loads(files, m) /\ e.source = m /\ m \in Nat
    BY <2>2, ExceptionTyped
  <2>4. m < n \/ (m = n /\ k > 0 /\ e.at <= k)
    BY <2>1, <2>2, <2>3
  <2> QED BY <2>2, <2>3, <2>4
<1>2. ASSUME NEW m \in Sources(files), Loads(files, m), e \in ExceptionsOf(files, m),
             m < n \/ (m = n /\ k > 0 /\ e.at <= k)
      PROVE  e \in ExceptionsSeen(files, n, k)
  <2>1. e.source = m
    BY <1>2, ExceptionTyped
  <2>2. e \in UNION {ExceptionsOf(files, i) : i \in {i \in Sources(files) : i < n \/ (i = n /\ k > 0)}}
    BY <1>2
  <2>3. e.source < n \/ e.at <= k
    BY <1>2, <2>1
  <2> QED BY <2>2, <2>3 DEF ExceptionsSeen
<1> QED BY <1>1, <1>2

LEMMA SeenPlaced ==
    ASSUME FilesOK(files), NEW n \in Nat, NEW k \in Nat,
           \A m \in Sources(files) : m < n \/ (m = n /\ k > 0) => Loads(files, m)
    PROVE  /\ Placed(ExceptionsSeen(files, n, k))
           /\ \A e \in ExceptionsSeen(files, n, k) : e.source < n \/ (e.source = n /\ e.at <= k)
<1> SUFFICES ASSUME NEW e \in ExceptionsSeen(files, n, k)
             PROVE  /\ e.source \in Nat /\ e.at \in Nat /\ e.body \in Objects
                    /\ e.source < n \/ (e.source = n /\ e.at <= k)
  BY DEF Placed
<1>1. PICK m \in Sources(files) :
         Loads(files, m) /\ e \in ExceptionsOf(files, m) /\ (m < n \/ (m = n /\ k > 0 /\ e.at <= k))
  BY WhatIsSeen
<1> QED BY <1>1, ExceptionTyped

\* When all items of a source are seen the next source is due.
LEMMA AllSeen ==
    ASSUME FilesOK(files), NEW n \in Sources(files), \A m \in Sources(files) : m <= n => Loads(files, m),
           NEW k \in Nat, \A e \in ExceptionsOf(files, n) : e.at <= k
    PROVE  ExceptionsSeen(files, n, k) = ExceptionsSeen(files, n + 1, 0)
<1>0. n \in Nat /\ \A m \in Sources(files) : m \in Nat
  BY PacksCounted DEF Sources
<1>1. ASSUME NEW e
      PROVE  e \in ExceptionsSeen(files, n, k) <=> e \in ExceptionsSeen(files, n + 1, 0)
  <2>1. e \in ExceptionsSeen(files, n, k) <=>
           \E m \in Sources(files) :
              Loads(files, m) /\ e \in ExceptionsOf(files, m) /\ (m < n \/ (m = n /\ k > 0 /\ e.at <= k))
    BY <1>0, WhatIsSeen
  <2>2. e \in ExceptionsSeen(files, n + 1, 0) <=>
           \E m \in Sources(files) :
              Loads(files, m) /\ e \in ExceptionsOf(files, m) /\ (m < n + 1 \/ (m = n + 1 /\ 0 > 0 /\ e.at <= 0))
    <3>1. n + 1 \in Nat /\ 0 \in Nat
      BY <1>0
    <3>2. \A m \in Sources(files) : m < n + 1 \/ (m = n + 1 /\ 0 > 0) => Loads(files, m)
      BY <1>0
    <3> QED BY <3>1, <3>2, WhatIsSeen
  <2>3. ASSUME NEW m \in Sources(files), Loads(files, m), e \in ExceptionsOf(files, m)
        PROVE  (m < n \/ (m = n /\ k > 0 /\ e.at <= k)) <=> (m < n + 1 \/ (m = n + 1 /\ 0 > 0 /\ e.at <= 0))
    <3>1. e.at \in Nat /\ e.at > 0 /\ (m = n => e.at <= k)
      BY <2>3, ExceptionTyped
    <3> QED BY <1>0, <3>1
  <2> QED BY <2>1, <2>2, <2>3
<1> QED BY <1>1

ItemEntry(n, p, k) == Entry(n, k, p.exceptions[k].id, p.exceptions[k].body)

\* The next item is an entry behind all that is seen.
LEMMA SeesOne ==
    ASSUME FilesOK(files), NEW n \in Sources(files), \A m \in Sources(files) : m <= n => Loads(files, m),
           NEW p \in Payload(files, n), NEW k \in 1 .. Len(p.exceptions)
    PROVE  /\ ExceptionsSeen(files, n, k) = ExceptionsSeen(files, n, k - 1) \cup {ItemEntry(n, p, k)}
           /\ \A e \in ExceptionsSeen(files, n, k - 1) : After(ItemEntry(n, p, k), e)
           /\ Placed(ExceptionsSeen(files, n, k - 1) \cup {ItemEntry(n, p, k)})
           /\ ItemEntry(n, p, k).id \in Ids
<1> DEFINE e0 == ItemEntry(n, p, k)
<1>0. n \in Nat /\ \A m \in Sources(files) : m \in Nat
  BY PacksCounted DEF Sources
<1>1. Loads(files, n) /\ p.exceptions \in Seq(Records) /\ DOMAIN p.exceptions = 1 .. Len(p.exceptions)
  <2>1. Loads(files, n)
    BY <1>0
  <2> QED BY <2>1, PayloadType, LenProperties
<1>2. k \in Nat /\ k > 0 /\ k - 1 \in Nat
  BY <1>1, LenProperties
<1>3. e0 \in ExceptionsOf(files, n) /\ e0.at = k /\ e0.source = n
  BY <1>1 DEF ExceptionsOf, ItemEntry
<1>4. ASSUME NEW e \in ExceptionsOf(files, n), e.at = k
      PROVE  e = e0
  <2>1. PICK q \in Payload(files, n) :
           \E i \in DOMAIN q.exceptions : e = Entry(n, i, q.exceptions[i].id, q.exceptions[i].body)
    BY DEF ExceptionsOf
  <2>2. q = p
    BY OnePayload
  <2>3. PICK i \in DOMAIN p.exceptions : e = Entry(n, i, p.exceptions[i].id, p.exceptions[i].body)
    BY <2>1, <2>2
  <2>4. i = k
    BY <1>4, <2>3
  <2> QED BY <2>3, <2>4 DEF ItemEntry
<1> HIDE DEF e0
<1>5. ASSUME NEW e
      PROVE  e \in ExceptionsSeen(files, n, k) <=> e \in ExceptionsSeen(files, n, k - 1) \cup {e0}
  <2>1. e \in ExceptionsSeen(files, n, k) <=>
           \E m \in Sources(files) :
              Loads(files, m) /\ e \in ExceptionsOf(files, m) /\ (m < n \/ (m = n /\ k > 0 /\ e.at <= k))
    BY <1>0, <1>2, WhatIsSeen
  <2>2. e \in ExceptionsSeen(files, n, k - 1) <=>
           \E m \in Sources(files) :
              Loads(files, m) /\ e \in ExceptionsOf(files, m) /\ (m < n \/ (m = n /\ k - 1 > 0 /\ e.at <= k - 1))
    BY <1>0, <1>2, WhatIsSeen
  <2>3. ASSUME NEW m \in Sources(files), Loads(files, m), e \in ExceptionsOf(files, m), m = n
        PROVE  (k > 0 /\ e.at <= k) <=> ((k - 1 > 0 /\ e.at <= k - 1) \/ e = e0)
    <3>1. e.at \in Nat /\ e.at > 0
      BY <2>3, ExceptionTyped
    <3>2. e.at = k <=> e = e0
      BY <1>3, <1>4, <2>3
    <3> QED BY <1>2, <3>1, <3>2
  <2>4. CASE e = e0
    BY <1>1, <1>2, <1>3, <2>1, <2>4
  <2>5. CASE e # e0
    <3>1. \A m \in Sources(files) : Loads(files, m) /\ e \in ExceptionsOf(files, m) =>
             ((m < n \/ (m = n /\ k > 0 /\ e.at <= k)) <=> (m < n \/ (m = n /\ k - 1 > 0 /\ e.at <= k - 1)))
      BY <2>3, <2>5
    <3> QED BY <2>1, <2>2, <2>5, <3>1
  <2> QED BY <2>4, <2>5
<1>6. /\ Placed(ExceptionsSeen(files, n, k - 1))
      /\ \A e \in ExceptionsSeen(files, n, k - 1) : e.source < n \/ (e.source = n /\ e.at <= k - 1)
  BY <1>0, <1>2, SeenPlaced
<1>7. \A e \in ExceptionsSeen(files, n, k - 1) : After(e0, e)
  BY <1>0, <1>2, <1>3, <1>6 DEF After, Placed
<1>8. e0.source \in Nat /\ e0.at \in Nat /\ e0.id \in Ids /\ e0.body \in Objects
  BY <1>1, <1>3, ExceptionTyped
<1>9. Placed(ExceptionsSeen(files, n, k - 1) \cup {e0})
  BY <1>6, <1>8 DEF Placed
<1> QED BY <1>5, <1>7, <1>8, <1>9 DEF e0

\* A source that says nothing of the domain adds nothing to the fields.
LEMMA FieldsPass ==
    ASSUME FilesOK(files), NEW n \in Sources(files), NEW F, F = FieldsOf(files, n)
    PROVE  FieldsBefore(files, n + 1) = FieldsBefore(files, n) \cup F
<1> \A m \in Sources(files) : m \in Nat /\ n \in Nat
  BY PacksCounted DEF Sources
<1>1. \A m \in Sources(files) : m < n + 1 <=> m < n \/ m = n
  OBVIOUS
<1> QED BY <1>1 DEF FieldsBefore

\* The fields of a source go on top of what there is.
LEMMA FieldsMerge ==
    ASSUME PolicyTypeOK, Layered(FieldsBefore(files, next), fields), Reads, NEW p \in Payload(files, next)
    PROVE  Layered(FieldsBefore(files, next + 1), MergeValues(fields, p.fields))
<1> DEFINE e0 == Entry(next, 0, "", p.fields)
<1>0. FilesOK(files) /\ next \in Sources(files) /\ next \in Nat /\ Loads(files, next) /\ fields \in Objects
  BY DEF PolicyTypeOK, Reads
<1>1. FieldsOf(files, next) = {e0}
  <2>1. Payload(files, next) = {p}
    BY <1>0, OnePayload
  <2> QED BY <2>1 DEF FieldsOf
<1>2. FieldsBefore(files, next + 1) = FieldsBefore(files, next) \cup {e0}
  BY <1>0, <1>1, FieldsPass
<1>3. e0.source = next /\ e0.at = 0 /\ e0.body = p.fields /\ p.fields \in Objects
  BY <1>0, PayloadType
<1>4. /\ Placed(FieldsBefore(files, next))
      /\ \A e \in FieldsBefore(files, next) : e.source < next
  <2>1. \A m \in Sources(files) : m < next => Loads(files, m)
    BY DEF PolicyTypeOK
  <2> QED BY <1>0, <2>1, FieldsPlaced
<1> HIDE DEF e0
<1>5. Placed(FieldsBefore(files, next) \cup {e0})
  BY <1>0, <1>3, <1>4 DEF Placed
<1>6. \A e \in FieldsBefore(files, next) : After(e0, e)
  BY <1>3, <1>4 DEF After
<1>7. Layered(FieldsBefore(files, next) \cup {e0}, MergeValues(fields, e0.body))
  BY <1>0, <1>5, <1>6, MergeIsLayered
<1> QED BY <1>2, <1>3, <1>7

\* Copying what there was meets no id twice.
LEMMA ItemCopied ==
    ASSUME earlier \in Seq(Records), result \in Seq(Records), taken \in Nat, taken < Len(earlier),
           Len(result) = taken, \A n \in 1 .. taken : result[n] = earlier[n],
           NEW E, Placed(E), Represents(E, earlier)
    PROVE  /\ Len(MergeRecord(result, earlier[taken + 1])) = taken + 1
           /\ \A n \in 1 .. taken + 1 : MergeRecord(result, earlier[taken + 1])[n] = earlier[n]
<1> DEFINE r == earlier[taken + 1]
<1>0. /\ DOMAIN result = 1 .. taken /\ DOMAIN earlier = 1 .. Len(earlier) /\ Len(earlier) \in Nat
      /\ taken + 1 \in 1 .. Len(earlier)
  BY LenProperties
<1>1. r \in Records
  BY <1>0, ElementOfSeq
<1>2. ASSUME NEW n \in DOMAIN result
      PROVE  result[n].id # r.id
  <2>1. n \in DOMAIN earlier /\ taken + 1 \in DOMAIN earlier /\ n < taken + 1 /\ result[n] = earlier[n]
    BY <1>0
  <2>2. earlier[n].id # earlier[taken + 1].id
    BY <2>1, IdsDiffer
  <2> QED BY <2>1, <2>2
<1> HIDE DEF r
<1>3. MergeRecord(result, r) = Append(result, r)
  BY <1>2 DEF MergeRecord
<1>4. /\ Len(Append(result, r)) = taken + 1
      /\ \A n \in 1 .. taken : Append(result, r)[n] = result[n]
      /\ Append(result, r)[taken + 1] = r
  BY <1>1, AppendProperties
<1>5. \A n \in 1 .. taken + 1 : n \in 1 .. taken \/ n = taken + 1
  OBVIOUS
<1> QED BY <1>3, <1>4, <1>5 DEF r

LEMMA MergeInit == PolicyInit => MergeInv
<1> SUFFICES ASSUME PolicyInit PROVE MergeInv
  OBVIOUS
<1>0. \A m \in Sources(files) : m \in Nat /\ m >= 1
  BY PacksCounted DEF Sources, PolicyInit
<1>1. FieldsBefore(files, 1) = {}
  BY <1>0 DEF FieldsBefore
<1>2. ExceptionsSeen(files, 1, 0) = {}
  BY <1>0 DEF ExceptionsSeen
<1>3. Represents({}, <<>>)
  BY DEF Represents
<1> QED BY <1>1, <1>2, <1>3, NoLayer DEF PolicyInit, MergeInv

\* One item of the list that is merged.
LEMMA ItemMerges ==
    ASSUME PolicyTypeOK, MergeInv, NEW p \in Payload(files, next), MergesItem(p)
    PROVE  MergeInv'
<1>0. /\ FilesOK(files) /\ next \in Sources(files) /\ next \in Nat /\ progress = "merging"
      /\ earlier \in Seq(Records) /\ result \in Seq(Records) /\ taken \in Nat
      /\ Len(earlier) \in Nat /\ Len(result) \in Nat
  BY LenProperties DEF PolicyTypeOK, MergesItem
<1>1. p.exceptions \in Seq(Records) /\ Len(p.exceptions) \in Nat
  <2>1. Loads(files, next)
    BY <1>0 DEF PolicyTypeOK
  <2> QED BY <1>0, <2>1, PayloadType, LenProperties
<1>2. \A m \in Sources(files) : m <= next => Loads(files, m)
  <2>1. \A m \in Sources(files) : m \in Nat
    BY <1>0, PacksCounted DEF Sources
  <2> QED BY <1>0, <2>1 DEF PolicyTypeOK
<1>3. Copies(files)
  BY <1>0 DEF MergeInv
<1>4. \A q \in Payload(files, next) : taken + 1 <= Len(earlier) + Len(q.exceptions)
  BY <1>0, <1>1, OnePayload DEF MergesItem
<1>5. taken + 1 <= Len(earlier) => Len(result') = taken + 1 /\ \A n \in 1 .. taken + 1 : result'[n] = earlier[n]
  <2> SUFFICES ASSUME taken + 1 <= Len(earlier)
               PROVE  Len(result') = taken + 1 /\ \A n \in 1 .. taken + 1 : result'[n] = earlier[n]
    OBVIOUS
  <2>1. result' = MergeRecord(result, earlier[taken + 1])
    BY <1>0 DEF MergesItem, Item
  <2>2. Placed(ExceptionsSeen(files, next, 0))
    <3>1. \A m \in Sources(files) : m < next \/ (m = next /\ 0 > 0) => Loads(files, m)
      BY <1>2, PacksCounted, <1>0 DEF Sources
    <3> QED BY <1>0, <3>1, SeenPlaced
  <2>3. Represents(ExceptionsSeen(files, next, 0), earlier)
    BY <1>3 DEF Copies
  <2>4. Len(result) = taken /\ \A n \in 1 .. taken : result[n] = earlier[n]
    BY <1>0, <1>3 DEF Copies
  <2>5. taken < Len(earlier)
    BY <1>0
  <2> QED BY <1>0, <2>1, <2>2, <2>3, <2>4, <2>5, ItemCopied
<1>6. taken + 1 >= Len(earlier) => Represents(ExceptionsSeen(files, next, taken + 1 - Len(earlier)), result')
  <2>1. CASE taken + 1 = Len(earlier)
    <3>1. Len(result') = Len(earlier) /\ \A n \in 1 .. Len(earlier) : result'[n] = earlier[n]
      BY <1>0, <1>5, <2>1
    <3>2. result' \in Seq(Records)
      BY <1>0, <1>1, ItemTyped, RecordsTyped DEF MergesItem
    <3>3. result' = earlier
      BY ONLY <3>1, <3>2, <1>0, SeqEqual
    <3>4. taken + 1 - Len(earlier) = 0
      BY <1>0, <2>1
    <3> QED BY <1>3, <3>3, <3>4 DEF Copies
  <2>2. CASE taken >= Len(earlier)
    <3> DEFINE k == taken + 1 - Len(earlier)
               r == p.exceptions[k]
               e0 == ItemEntry(next, p, k)
               E == ExceptionsSeen(files, next, k - 1)
    <3>1. k \in 1 .. Len(p.exceptions) /\ k - 1 = taken - Len(earlier)
      BY <1>0, <1>1, <2>2 DEF MergesItem
    <3>2. result' = MergeRecord(result, r)
      BY <1>0, <1>1, <2>2 DEF MergesItem, Item
    <3>3. r \in Records
      BY <1>1, <3>1, ElementOfSeq
    <3>4. Represents(E, result)
      BY <1>3, <2>2, <3>1 DEF Copies
    <3>5. e0.id = r.id /\ e0.body = r.body
      BY DEF ItemEntry
    <3> HIDE DEF k
    <3>7. /\ ExceptionsSeen(files, next, k) = E \cup {e0}
          /\ \A e \in E : After(e0, e)
          /\ Placed(E \cup {e0})
          /\ e0.id \in Ids
      BY <1>0, <1>2, <3>1, SeesOne
    <3> HIDE DEF E, e0, r
    <3>8. Represents(E \cup {e0}, MergeRecord(result, r))
      BY <1>0, <3>3, <3>4, <3>5, <3>7, RecordMerges
    <3> QED BY <3>2, <3>7, <3>8 DEF k
  <2> QED BY <1>0, <2>1, <2>2
<1>7. Copies(files)'
  <2>1. taken' = taken + 1 /\ files' = files /\ next' = next /\ earlier' = earlier
    BY DEF MergesItem
  <2>2. Represents(ExceptionsSeen(files, next, 0), earlier)'
    BY <1>3, <2>1 DEF Copies
  <2>3. (\A q \in Payload(files, next) : taken <= Len(earlier) + Len(q.exceptions))'
    BY <1>4, <2>1
  <2>4. (taken <= Len(earlier) => Len(result) = taken /\ \A n \in 1 .. taken : result[n] = earlier[n])'
    BY <1>5, <2>1
  <2>5. (taken >= Len(earlier) => Represents(ExceptionsSeen(files, next, taken - Len(earlier)), result))'
    <3> SUFFICES ASSUME taken' >= Len(earlier')
                 PROVE  Represents(ExceptionsSeen(files', next', taken' - Len(earlier')), result')
      OBVIOUS
    <3>1. taken' - Len(earlier') = taken + 1 - Len(earlier) /\ taken + 1 >= Len(earlier)
      BY <1>0, <2>1
    <3>2. Represents(ExceptionsSeen(files, next, taken + 1 - Len(earlier)), result')
      BY <1>6, <3>1
    <3> QED BY ONLY <2>1, <3>1, <3>2, Zenon
  <2> QED BY <2>2, <2>3, <2>4, <2>5 DEF Copies
<1> QED BY <1>0, <1>7 DEF MergeInv, MergesItem

\* What is merged so far is what the sources so far say.
LEMMA MergeCorrect == PolicySpec => []MergeInv
<1>1. PolicyTypeOK /\ MergeInv /\ [PolicyNext]_policyVars => MergeInv'
  <2> SUFFICES ASSUME PolicyTypeOK, MergeInv, [PolicyNext]_policyVars PROVE MergeInv'
    OBVIOUS
  <2>0. FilesOK(files) /\ next \in Nat /\ \A m \in Sources(files) : m \in Nat
    BY PacksCounted DEF PolicyTypeOK, Sources
  <2>1. CASE Selects
    BY <2>1 DEF MergeInv, Selects, mergeVars
  <2>2. CASE PackRefuses
    BY <2>2 DEF MergeInv, PackRefuses, mergeVars
  <2>3. CASE Skips
    <3>0. next \in Sources(files) /\ progress = "reading" /\ Loads(files, next)
      BY <2>3 DEF Skips, Reads
    <3>1. FieldsBefore(files, next + 1) = FieldsBefore(files, next)
      <4>1. FieldsOf(files, next) = {}
        BY <2>3 DEF Skips, FieldsOf
      <4>2. FieldsBefore(files, next + 1) = FieldsBefore(files, next) \cup {}
        BY <2>0, <3>0, <4>1, FieldsPass
      <4> QED BY <4>2
    <3>2. ExceptionsSeen(files, next + 1, 0) = ExceptionsSeen(files, next, 0)
      <4>1. \A e \in ExceptionsOf(files, next) : e.at <= 0
        BY <2>3 DEF Skips, ExceptionsOf
      <4>2. \A m \in Sources(files) : m <= next => Loads(files, m)
        BY <2>0, <3>0 DEF PolicyTypeOK
      <4> QED BY <2>0, <3>0, <4>1, <4>2, AllSeen
    <3> QED BY <2>3, <3>0, <3>1, <3>2 DEF MergeInv, Skips, mergeVars
  <2>4. CASE Finishes
    BY <2>4 DEF MergeInv, Finishes, mergeVars
  <2>5. ASSUME progress = "merging" \/ Reads, NEW p \in Payload(files, next),
               MergesFields(p) \/ MergesItem(p) \/ FinishesSource(p)
        PROVE  MergeInv'
    <3>0. /\ next \in Sources(files) /\ Loads(files, next)
          /\ \A m \in Sources(files) : m <= next => Loads(files, m)
      <4>1. next \in Sources(files) /\ Loads(files, next)
        BY <2>5 DEF PolicyTypeOK, Reads
      <4> QED BY <2>0, <4>1 DEF PolicyTypeOK
    <3>1. CASE MergesFields(p)
      <4>1. Layered(FieldsBefore(files, next + 1), fields')
        BY <3>1, FieldsMerge DEF MergesFields, MergeInv, Reads
      <4>2. Represents(ExceptionsSeen(files, next, 0), result)
        BY <3>1 DEF MergesFields, MergeInv, Reads
      <4>3. \A q \in Payload(files, next) : 0 <= Len(result) + Len(q.exceptions)
        BY <2>0, <3>0, PayloadType, LenProperties DEF PolicyTypeOK
      <4>4. 0 >= Len(result) => Represents(ExceptionsSeen(files, next, 0 - Len(result)), <<>>)
        <5> SUFFICES ASSUME 0 >= Len(result) PROVE Represents(ExceptionsSeen(files, next, 0 - Len(result)), <<>>)
          OBVIOUS
        <5>1. result \in Seq(Records) /\ Len(result) = 0
          BY LenProperties DEF PolicyTypeOK
        <5>2. result = <<>> /\ 0 - Len(result) = 0
          BY <5>1, EmptySeq
        <5> QED BY <4>2, <5>2
      <4>5. Copies(files)'
        BY <3>1, <4>2, <4>3, <4>4 DEF Copies, MergesFields
      <4> QED BY <3>1, <4>1, <4>5 DEF MergeInv, MergesFields
    <3>2. CASE MergesItem(p)
      BY <3>2, ItemMerges
    <3>3. CASE FinishesSource(p)
      <4>1. Copies(files) /\ Layered(FieldsBefore(files, next + 1), fields)
        BY <3>3 DEF MergeInv, FinishesSource
      <4>2. p.exceptions \in Seq(Records) /\ Len(p.exceptions) \in Nat /\ Len(earlier) \in Nat
        BY <2>0, <3>0, PayloadType, LenProperties DEF PolicyTypeOK
      <4>3. taken >= Len(earlier) /\ taken - Len(earlier) = Len(p.exceptions)
        BY <3>3, <4>2 DEF FinishesSource
      <4>4. Represents(ExceptionsSeen(files, next, Len(p.exceptions)), result)
        BY <4>1, <4>3 DEF Copies
      <4>5. \A e \in ExceptionsOf(files, next) : e.at <= Len(p.exceptions)
        <5> SUFFICES ASSUME NEW e \in ExceptionsOf(files, next) PROVE e.at <= Len(p.exceptions)
          OBVIOUS
        <5>1. PICK q \in Payload(files, next) :
                 \E i \in DOMAIN q.exceptions : e = Entry(next, i, q.exceptions[i].id, q.exceptions[i].body)
          BY DEF ExceptionsOf
        <5>2. q = p
          BY <2>0, <3>0, OnePayload
        <5>3. e.at \in DOMAIN p.exceptions
          BY <5>1, <5>2
        <5> QED BY <4>2, <5>3, LenProperties
      <4>6. ExceptionsSeen(files, next, Len(p.exceptions)) = ExceptionsSeen(files, next + 1, 0)
        BY <2>0, <3>0, <4>2, <4>5, AllSeen
      <4> QED BY <3>3, <4>1, <4>4, <4>6 DEF MergeInv, FinishesSource, mergeVars
    <3> QED BY <2>5, <3>1, <3>2, <3>3
  <2>6. CASE UNCHANGED policyVars
    BY <2>6 DEF MergeInv, Copies, policyVars
  <2> QED BY <2>1, <2>2, <2>3, <2>4, <2>5, <2>6 DEF PolicyNext
<1> QED BY <1>1, MergeInit, PolicyTypeCorrect, PTL DEF PolicySpec

\* The last source that sets a field decides it, nothing that no later source mentions
\* is lost, and nothing else is in the policy.
THEOREM LastSourceCorrect == PolicySpec => []LastSourceDecides
<1>1. PolicyTypeOK /\ MergeInv => LastSourceDecides
  <2> SUFFICES ASSUME PolicyTypeOK, MergeInv, progress = "merged"
               PROVE  Layered(FieldEntries(files), fields) /\ Represents(ExceptionEntries(files), result)
    BY DEF LastSourceDecides
  <2>0. FilesOK(files) /\ next \in Nat /\ Len(ActivePacks(files)) \in Nat
    BY PacksCounted DEF PolicyTypeOK
  <2>1. \A m \in Sources(files) : m < next /\ Loads(files, m)
    BY <2>0 DEF PolicyTypeOK, MergeInv, Sources
  <2>2. FieldsBefore(files, next) = FieldEntries(files)
    BY <2>1 DEF FieldsBefore, FieldEntries
  <2>3. ASSUME NEW e
        PROVE  e \in ExceptionsSeen(files, next, 0) <=> e \in ExceptionEntries(files)
    <3>1. e \in ExceptionsSeen(files, next, 0) <=>
             \E m \in Sources(files) :
                Loads(files, m) /\ e \in ExceptionsOf(files, m) /\ (m < next \/ (m = next /\ 0 > 0 /\ e.at <= 0))
      BY <2>0, <2>1, WhatIsSeen
    <3> QED BY <2>1, <3>1 DEF ExceptionEntries
  <2>4. ExceptionsSeen(files, next, 0) = ExceptionEntries(files)
    BY <2>3
  <2> QED BY <2>2, <2>4 DEF MergeInv
<1> QED BY <1>1, MergeCorrect, PolicyTypeCorrect, PTL

\* All that load_policy_domain_resolution promises, for any files.
THEOREM LayersCorrect == PolicySpec => []LayersAreRight
  BY PolicyTypeCorrect, LastSourceCorrect, PTL DEF LayersAreRight
===============================================================================
