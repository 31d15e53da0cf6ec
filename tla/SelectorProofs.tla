---------------------------- MODULE SelectorProofs ----------------------------
(***************************************************************************)
(* Theorems about Selectors, for any scene, limits of the server and       *)
(* selector: what a selector is resolved to is what it means.              *)
(*                                                                         *)
(* The argument: document order is a strict total order; flattening lists  *)
(* the nodes of the tree in that order, each once; and keeping some of a   *)
(* list keeps their order.  So the candidates are the nodes meant, and the *)
(* one with index i is the one that has i of them before it.  The recursive*)
(* functions are taken apart by the least argument at which they could go  *)
(* wrong: there is none.                                                   *)
(***************************************************************************)
EXTENDS Selectors, SequenceTheorems, FiniteSetTheorems, WellFoundedInduction, TLAPS

(* Document order.  Positions part at the first place where they differ;   *)
(* there one of them ends, or is the earlier child.                        *)
Positions == Seq(Nat)

Part(m, n, i) == /\ i \in 1..Len(n) /\ i <= Len(m) + 1
                 /\ \A j \in 1..i - 1 : m[j] = n[j]
                 /\ i <= Len(m) => m[i] < n[i]

(* The same front part, element by element.                                *)
LEMMA SameFront ==
    ASSUME NEW m \in Positions, NEW n \in Positions, NEW k \in Nat, k <= Len(m), k <= Len(n)
    PROVE  (SubSeq(m, 1, k) = SubSeq(n, 1, k)) <=> (\A j \in 1..k : m[j] = n[j])
<1> USE DEF Positions
<1>1. /\ \A j \in 1..k : m[j] \in Nat /\ n[j] \in Nat
      /\ 1 \in Int /\ k \in Int
  OBVIOUS
<1>2. /\ SubSeq(m, 1, k) \in Seq(Nat) /\ SubSeq(n, 1, k) \in Seq(Nat)
      /\ Len(SubSeq(m, 1, k)) = k /\ Len(SubSeq(n, 1, k)) = k
      /\ \A j \in 1..k : SubSeq(m, 1, k)[j] = m[j] /\ SubSeq(n, 1, k)[j] = n[j]
  <2>1. ASSUME NEW s \in Positions, k <= Len(s)
        PROVE  /\ SubSeq(s, 1, k) \in Seq(Nat) /\ Len(SubSeq(s, 1, k)) = k
               /\ \A j \in 1..k : SubSeq(s, 1, k)[j] = s[j]
    <3>1. \A j \in 1..k : s[j] \in Nat
      BY <2>1
    <3>2. /\ SubSeq(s, 1, k) \in Seq(Nat)
          /\ Len(SubSeq(s, 1, k)) = IF 1 <= k THEN k - 1 + 1 ELSE 0
          /\ \A j \in 1..k - 1 + 1 : SubSeq(s, 1, k)[j] = s[1 + j - 1]
      BY <1>1, <3>1, SubSeqProperties
    <3>3. \A j \in 1..k : j \in 1..k - 1 + 1 /\ 1 + j - 1 = j
      OBVIOUS
    <3>4. QED
      BY <3>2, <3>3
  <2>2. QED
    BY <2>1
<1>3. ASSUME \A j \in 1..k : m[j] = n[j] PROVE SubSeq(m, 1, k) = SubSeq(n, 1, k)
  BY <1>2, <1>3, SeqEqual
<1>4. QED
  BY <1>2, <1>3

LEMMA BeforeIsPart ==
    ASSUME NEW m \in Positions, NEW n \in Positions
    PROVE  Before(m, n) <=> \E i \in Nat : Part(m, n, i)
<1>1. /\ Len(m) \in Nat /\ Len(n) \in Nat /\ DOMAIN m = 1..Len(m) /\ DOMAIN n = 1..Len(n)
  BY DEF Positions
<1>2. SubSeq(m, 1, Len(m)) = m /\ SubSeq(n, 1, Len(n)) = n
  BY SubSeqFull DEF Positions
<1>3. ASSUME Inside(n, m) PROVE \E i \in Nat : Part(m, n, i)
  <2>1. /\ Len(m) <= Len(n) /\ SubSeq(m, 1, Len(m)) = SubSeq(n, 1, Len(m)) /\ m # n
    BY <1>3 DEF Inside, IsStrictPrefix, IsPrefix
  <2>2. \A j \in 1..Len(m) : m[j] = n[j]
    BY <1>1, <2>1, SameFront
  <2>3. Len(m) # Len(n)
    BY <2>1, <2>2, SeqEqual DEF Positions
  <2>4. Part(m, n, Len(m) + 1)
    <3>1. PICK k \in Nat, l \in Nat : k = Len(m) /\ l = Len(n)
      BY <1>1
    <3>2. k + 1 \in 1..l /\ k + 1 <= k + 1 /\ ~(k + 1 <= k) /\ (k + 1) - 1 = k
      BY <2>1, <2>3, <3>1
    <3>3. Part(m, n, k + 1)
      BY <2>2, <3>1, <3>2 DEF Part
    <3>4. QED
      BY <3>1, <3>3
  <2>5. QED
    BY <1>1, <2>4
<1>4. ASSUME NEW i \in DOMAIN m \cap DOMAIN n, m[i] < n[i], SubSeq(m, 1, i - 1) = SubSeq(n, 1, i - 1)
      PROVE  \E k \in Nat : Part(m, n, k)
  <2>1. i \in Nat /\ i - 1 \in Nat /\ i <= Len(m) /\ i <= Len(n)
    BY <1>1
  <2>2. \A j \in 1..i - 1 : m[j] = n[j]
    BY <1>1, <1>4, <2>1, SameFront
  <2>3. Part(m, n, i)
    BY <1>1, <1>4, <2>1, <2>2 DEF Part
  <2>4. QED
    BY <2>1, <2>3
<1>5. ASSUME NEW i \in Nat, Part(m, n, i) PROVE Before(m, n)
  <2>1. /\ i \in 1..Len(n) /\ i <= Len(m) + 1 /\ (\A j \in 1..i - 1 : m[j] = n[j])
        /\ i <= Len(m) => m[i] < n[i]
    BY <1>5 DEF Part
  <2>2. i - 1 \in Nat /\ i - 1 <= Len(m) /\ i - 1 <= Len(n)
    BY <1>1, <2>1
  <2>3. SubSeq(m, 1, i - 1) = SubSeq(n, 1, i - 1)
    BY <2>1, <2>2, SameFront
  <2>4. CASE i <= Len(m)
    <3>1. i \in DOMAIN m \cap DOMAIN n /\ m[i] < n[i]
      BY <1>1, <2>1, <2>4
    <3>2. QED
      BY <2>3, <3>1 DEF Before
  <2>5. CASE i = Len(m) + 1
    <3>1. i - 1 = Len(m) /\ Len(m) < Len(n)
      BY <1>1, <2>1, <2>5
    <3>2. Inside(n, m)
      BY <2>3, <3>1 DEF Inside, IsStrictPrefix, IsPrefix
    <3>3. QED
      BY <3>2 DEF Before
  <2>6. QED
    BY <1>1, <2>1, <2>4, <2>5
<1>6. QED
  BY <1>3, <1>4, <1>5 DEF Before

(* No node is before itself; before is transitive.                         *)
LEMMA BeforeIsOrder ==
    ASSUME NEW a \in Positions, NEW b \in Positions, NEW c \in Positions
    PROVE  /\ ~Before(a, a)
           /\ Before(a, b) /\ Before(b, c) => Before(a, c)
<1>1. \A s \in Positions : Len(s) \in Nat /\ \A j \in 1..Len(s) : s[j] \in Nat
  BY DEF Positions
<1>2. ~Before(a, a)
  <2>1. SUFFICES ASSUME NEW i \in Nat, Part(a, a, i) PROVE FALSE
    BY BeforeIsPart
  <2>2. i \in 1..Len(a) /\ a[i] < a[i]
    BY <1>1, <2>1 DEF Part
  <2>3. QED
    BY <1>1, <2>2
<1>3. ASSUME NEW i \in Nat, Part(a, b, i), NEW k \in Nat, Part(b, c, k)
      PROVE  Before(a, c)
  <2>1. /\ i \in 1..Len(b) /\ i <= Len(a) + 1 /\ (\A j \in 1..i - 1 : a[j] = b[j])
        /\ i <= Len(a) => a[i] < b[i]
    BY <1>3 DEF Part
  <2>2. /\ k \in 1..Len(c) /\ k <= Len(b) + 1 /\ (\A j \in 1..k - 1 : b[j] = c[j])
        /\ k <= Len(b) => b[k] < c[k]
    BY <1>3 DEF Part
  <2>3. /\ Len(a) \in Nat /\ Len(b) \in Nat /\ Len(c) \in Nat
    BY <1>1
  <2>4. CASE i < k
    <3>1. i \in 1..Len(c) /\ \A j \in 1..i - 1 : a[j] = c[j]
      BY <2>1, <2>2, <2>3, <2>4
    <3>2. i <= Len(a) => a[i] < c[i]
      BY <2>1, <2>2, <2>3, <2>4
    <3>3. Part(a, c, i)
      BY <2>1, <3>1, <3>2 DEF Part
    <3>4. QED
      BY <3>3, BeforeIsPart
  <2>5. CASE k < i
    <3>1. k <= Len(a) + 1 /\ \A j \in 1..k - 1 : a[j] = c[j]
      BY <2>1, <2>2, <2>3, <2>5
    <3>2. k <= Len(a) => a[k] < c[k]
      BY <2>1, <2>2, <2>3, <2>5
    <3>3. Part(a, c, k)
      BY <2>2, <3>1, <3>2 DEF Part
    <3>4. QED
      BY <3>3, BeforeIsPart
  <2>6. CASE i = k
    <3>1. \A j \in 1..i - 1 : a[j] = c[j]
      BY <2>1, <2>2, <2>6
    <3>2. i <= Len(a) => a[i] < c[i]
      <4>1. SUFFICES ASSUME i <= Len(a) PROVE a[i] < c[i]
        OBVIOUS
      <4>2. a[i] < b[i] /\ b[i] < c[i] /\ i \in 1..Len(a) /\ i \in 1..Len(b) /\ i \in 1..Len(c)
        BY <2>1, <2>2, <2>3, <2>6, <4>1
      <4>3. a[i] \in Nat /\ b[i] \in Nat /\ c[i] \in Nat
        BY <1>1, <4>2
      <4>4. QED
        BY <4>2, <4>3
    <3>3. Part(a, c, i)
      BY <2>1, <2>2, <2>6, <3>1, <3>2 DEF Part
    <3>4. QED
      BY <3>3, BeforeIsPart
  <2>7. QED
    BY <2>4, <2>5, <2>6
<1>4. QED
  BY <1>2, <1>3, BeforeIsPart

(* A set of natural numbers with an element has a least one.               *)
LEMMA LeastOne ==
    ASSUME NEW T, T \subseteq Nat, T # {}
    PROVE  \E x \in T : \A y \in T : x <= y
<1>1. PICK x \in T : \A y \in T : ~(<<y, x>> \in OpToRel(<, Nat))
  BY NatLessThanWellFounded, WFMin
<1>2. ASSUME NEW y \in T PROVE x <= y
  <2>1. <<y, x>> \in Nat \X Nat
    OBVIOUS
  <2>2. ~(y < x)
    BY <1>1, <2>1 DEF OpToRel
  <2>3. QED
    BY <2>2
<1>3. QED
  BY <1>2

(* Of two nodes one is before the other.                                   *)
LEMMA BeforeIsTotal ==
    ASSUME NEW m \in Positions, NEW n \in Positions, m # n
    PROVE  Before(m, n) \/ Before(n, m)
<1>1. /\ Len(m) \in Nat /\ Len(n) \in Nat
      /\ \A j \in 1..Len(m) : m[j] \in Nat
      /\ \A j \in 1..Len(n) : n[j] \in Nat
  BY DEF Positions
<1> DEFINE T == {i \in Nat : /\ i >= 1 /\ i <= Len(m) + 1 /\ i <= Len(n) + 1
                             /\ i <= Len(m) /\ i <= Len(n) => m[i] # n[i]}
<1>2. T \subseteq Nat /\ T # {}
  <2>1. CASE Len(m) <= Len(n)
    <3>1. Len(m) + 1 \in T
      BY <1>1, <2>1
    <3>2. QED
      BY <3>1
  <2>2. CASE Len(n) <= Len(m)
    <3>1. Len(n) + 1 \in T
      BY <1>1, <2>2
    <3>2. QED
      BY <3>1
  <2>3. QED
    BY <1>1, <2>1, <2>2
<1>3. PICK i \in T : \A y \in T : i <= y
  <2> HIDE DEF T
  <2>1. QED
    BY <1>2, LeastOne
<1>4. /\ i \in Nat /\ i >= 1 /\ i <= Len(m) + 1 /\ i <= Len(n) + 1
      /\ i <= Len(m) /\ i <= Len(n) => m[i] # n[i]
  OBVIOUS
<1>5. ASSUME NEW j \in 1..i - 1 PROVE m[j] = n[j]
  <2>1. j \in Nat /\ j >= 1 /\ j < i /\ j <= Len(m) /\ j <= Len(n)
    BY <1>1, <1>4
  <2>2. j \notin T
    BY <1>3, <1>4, <2>1
  <2>3. QED
    BY <2>1, <2>2
<1> HIDE DEF T
<1>6. CASE i <= Len(m) /\ i <= Len(n)
  <2>1. i \in 1..Len(m) /\ i \in 1..Len(n) /\ m[i] # n[i]
    BY <1>4, <1>6
  <2>2. m[i] < n[i] \/ n[i] < m[i]
    BY <1>1, <2>1
  <2>3. Part(m, n, i) \/ Part(n, m, i)
    BY <1>4, <1>5, <2>1, <2>2 DEF Part
  <2>4. QED
    BY <1>4, <2>3, BeforeIsPart
<1>7. CASE i = Len(m) + 1 /\ i <= Len(n)
  <2>1. Part(m, n, i)
    BY <1>1, <1>4, <1>5, <1>7 DEF Part
  <2>2. QED
    BY <1>4, <2>1, BeforeIsPart
<1>8. CASE i = Len(n) + 1 /\ i <= Len(m)
  <2>1. Part(n, m, i)
    BY <1>1, <1>4, <1>5, <1>8 DEF Part
  <2>2. QED
    BY <1>4, <2>1, BeforeIsPart
<1>9. CASE i = Len(m) + 1 /\ i = Len(n) + 1
  <2>1. Len(m) = Len(n) /\ \A j \in 1..Len(m) : m[j] = n[j]
    BY <1>1, <1>5, <1>9
  <2>2. m = n
    BY <2>1, SeqEqual DEF Positions
  <2>3. QED
    BY <2>2
<1>10. QED
  BY <1>1, <1>4, <1>6, <1>7, <1>8, <1>9

(* A selector means at most one node of a scene: two with the same number  *)
(* of matches before them would be the same.                               *)
LEMMA MeantIsUnique ==
    ASSUME NEW s, DOMAIN s \subseteq Seq(Nat), IsFiniteSet(DOMAIN s), NEW sel, NEW a, NEW b,
           IsMeant(s, sel, a), IsMeant(s, sel, b)
    PROVE  a = b
<1>1. /\ Meant(s, sel) \subseteq DOMAIN s /\ a \in Meant(s, sel) /\ b \in Meant(s, sel)
  BY DEF IsMeant, Meant
<1>2. CASE "index" \notin DOMAIN sel
  BY <1>2 DEF IsMeant
<1>3. CASE "index" \in DOMAIN sel
  <2> DEFINE Earlier(x) == {m \in Meant(s, sel) : Before(m, x)}
  <2>1. Cardinality(Earlier(a)) = sel.index /\ Cardinality(Earlier(b)) = sel.index
    BY <1>3 DEF IsMeant
  <2>2. ASSUME NEW x \in Meant(s, sel), NEW y \in Meant(s, sel), Before(x, y)
        PROVE  Cardinality(Earlier(x)) # Cardinality(Earlier(y))
    <3>1. Meant(s, sel) \subseteq Positions
      BY <1>1 DEF Positions
    <3>2. Earlier(x) \subseteq Earlier(y) /\ x \in Earlier(y) /\ x \notin Earlier(x)
      BY <2>2, <3>1, BeforeIsOrder
    <3>3. IsFiniteSet(Earlier(y))
      BY <1>1, FS_Subset
    <3> HIDE DEF Earlier
    <3>4. Earlier(x) \in SUBSET Earlier(y)
      BY <3>2
    <3>5. Cardinality(Earlier(y)) = Cardinality(Earlier(x)) => Earlier(y) = Earlier(x)
      BY <3>3, <3>4, FS_Subset
    <3>6. QED
      BY <3>2, <3>5
  <2>3. a \in Positions /\ b \in Positions
    BY <1>1 DEF Positions
  <2> HIDE DEF Earlier
  <2>4. QED
    BY <1>1, <2>1, <2>2, <2>3, BeforeIsTotal
<1>4. QED
  BY <1>2, <1>3

-----------------------------------------------------------------------------
(* Lists.  What a recursive function over numbers is, is shown from one    *)
(* number to the next.                                                     *)
LEMMA UpToAll ==
    ASSUME NEW S, 0 \in S, \A k \in Nat : k \in S => k + 1 \in S
    PROVE  Nat \subseteq S
<1>1. SUFFICES ASSUME Nat \ S # {} PROVE FALSE
  OBVIOUS
<1>2. PICK x \in Nat \ S : \A y \in Nat \ S : x <= y
  BY <1>1, LeastOne
<1>3. x \in Nat /\ x # 0 /\ x - 1 \in Nat /\ ~(x <= x - 1)
  BY <1>2
<1>4. x - 1 \in S
  BY <1>2, <1>3
<1>5. (x - 1) + 1 = x
  BY <1>3
<1>6. QED
  BY <1>2, <1>3, <1>4, <1>5

Elements(s) == {s[k] : k \in 1..Len(s)}
Ascending(s) == \A j, k \in 1..Len(s) : j < k => Before(s[j], s[k])
AllBefore(S, T) == \A x \in S, y \in T : Before(x, y)

LEMMA Joined ==
    ASSUME NEW D, NEW s \in Seq(D), NEW u \in Seq(D)
    PROVE  /\ s \o u \in Seq(D)
           /\ Elements(s \o u) = Elements(s) \cup Elements(u)
           /\ Ascending(s) /\ Ascending(u) /\ AllBefore(Elements(s), Elements(u))
                  => Ascending(s \o u)
<1>1. /\ s \o u \in Seq(D) /\ Len(s) \in Nat /\ Len(u) \in Nat
      /\ Len(s \o u) = Len(s) + Len(u)
      /\ \A i \in 1..Len(s) + Len(u) :
            (s \o u)[i] = IF i <= Len(s) THEN s[i] ELSE u[i - Len(s)]
  OBVIOUS
<1>2. PICK a \in Nat, b \in Nat : a = Len(s) /\ b = Len(u)
  BY <1>1
<1> DEFINE c == s \o u
<1>3. /\ Len(c) = a + b
      /\ \A i \in 1..a : i \in 1..a + b /\ c[i] = s[i]
      /\ \A i \in 1..b : a + i \in 1..a + b /\ c[a + i] = u[i]
      /\ \A i \in 1..a + b : i \in 1..a \/ (i - a \in 1..b /\ i = a + (i - a))
  <2>1. \A i \in 1..b : a + i \in 1..a + b /\ ~(a + i <= a) /\ (a + i) - a = i
    OBVIOUS
  <2>2. QED
    BY <1>1, <1>2, <2>1
<1> HIDE DEF c
<1>4. Elements(c) = Elements(s) \cup Elements(u)
  <2>1. Elements(c) \subseteq Elements(s) \cup Elements(u)
    <3>1. SUFFICES ASSUME NEW i \in 1..a + b PROVE c[i] \in Elements(s) \cup Elements(u)
      BY <1>3 DEF Elements
    <3>2. CASE i \in 1..a
      BY <1>2, <1>3, <3>2 DEF Elements
    <3>3. CASE i - a \in 1..b /\ i = a + (i - a)
      BY <1>2, <1>3, <3>3 DEF Elements
    <3>4. QED
      BY <1>3, <3>2, <3>3
  <2>2. Elements(s) \subseteq Elements(c)
    BY <1>2, <1>3 DEF Elements
  <2>3. Elements(u) \subseteq Elements(c)
    BY <1>2, <1>3 DEF Elements
  <2>4. QED
    BY <2>1, <2>2, <2>3
<1>5. ASSUME Ascending(s), Ascending(u), AllBefore(Elements(s), Elements(u))
      PROVE  Ascending(c)
  <2>1. SUFFICES ASSUME NEW j \in 1..a + b, NEW k \in 1..a + b, j < k
                 PROVE  Before(c[j], c[k])
    BY <1>3 DEF Ascending
  <2>2. CASE k \in 1..a
    <3>1. j \in 1..a
      BY <2>1, <2>2
    <3>2. QED
      BY <1>2, <1>3, <1>5, <2>1, <2>2, <3>1 DEF Ascending
  <2>3. CASE j \in 1..a /\ k - a \in 1..b /\ k = a + (k - a)
    <3>1. c[j] \in Elements(s) /\ c[k] \in Elements(u)
      BY <1>2, <1>3, <2>3 DEF Elements
    <3>2. QED
      BY <1>5, <3>1 DEF AllBefore
  <2>4. CASE /\ j - a \in 1..b /\ j = a + (j - a)
             /\ k - a \in 1..b /\ k = a + (k - a)
    <3>1. j - a < k - a
      BY <2>1
    <3>2. c[j] = u[j - a] /\ c[k] = u[k - a]
      BY <1>3, <2>4
    <3>3. QED
      BY <1>2, <1>5, <2>4, <3>1, <3>2 DEF Ascending
  <2>5. QED
    BY <1>3, <2>2, <2>3, <2>4
<1>6. QED
  BY <1>1, <1>4, <1>5 DEF c

(* A list of lists, one after the other.                                   *)
IsJoin(ss, g, k) == g = [i \in 1..k |-> IF i = 1 THEN ss[i] ELSE g[i - 1] \o ss[i]]
Joins(ss, f) == \A i \in 1..Len(ss) : f[i] = IF i = 1 THEN ss[i] ELSE f[i - 1] \o ss[i]

LEMMA JoinsExist ==
    ASSUME NEW D, NEW ss \in Seq(Seq(D)), ss # <<>>
    PROVE  \E f : Joins(ss, f) /\ FlattenSeq(ss) = f[Len(ss)]
<1>1. PICK l \in Nat : l = Len(ss) /\ l > 0
  BY EmptySeq
<1> DEFINE S == {k \in Nat : k <= l => \E g : IsJoin(ss, g, k)}
<1>2. 0 \in S
  <2>1. LET g == [i \in 1..0 |-> i] IN IsJoin(ss, g, 0)
    BY DEF IsJoin
  <2>2. QED
    BY <2>1
<1>3. ASSUME NEW k \in Nat, k \in S PROVE k + 1 \in S
  <2>1. SUFFICES ASSUME k + 1 <= l PROVE \E g : IsJoin(ss, g, k + 1)
    OBVIOUS
  <2>2. PICK g : IsJoin(ss, g, k)
    BY <1>1, <1>3, <2>1
  <2> DEFINE h == [i \in 1..k + 1 |->
                      IF i \in 1..k THEN g[i] ELSE IF i = 1 THEN ss[i] ELSE g[i - 1] \o ss[i]]
  <2>3. \A i \in 1..k : h[i] = g[i]
    OBVIOUS
  <2>4. \A i \in 1..k : g[i] = IF i = 1 THEN ss[i] ELSE g[i - 1] \o ss[i]
    BY <2>2 DEF IsJoin
  <2>5. ASSUME NEW i \in 1..k + 1
        PROVE  h[i] = IF i = 1 THEN ss[i] ELSE h[i - 1] \o ss[i]
    <3>1. i # 1 => i - 1 \in 1..k
      OBVIOUS
    <3>2. h[i] = IF i = 1 THEN ss[i] ELSE g[i - 1] \o ss[i]
      BY <2>4
    <3> HIDE DEF h
    <3>3. QED
      BY <2>3, <3>1, <3>2
  <2>6. h = [i \in 1..k + 1 |-> h[i]]
    OBVIOUS
  <2> HIDE DEF h
  <2>7. h = [i \in 1..k + 1 |-> IF i = 1 THEN ss[i] ELSE h[i - 1] \o ss[i]]
    BY <2>5, <2>6
  <2>8. QED
    BY <2>7 DEF IsJoin
<1>4. l \in S
  <2> HIDE DEF S
  <2>1. QED
    BY <1>2, <1>3, UpToAll
<1>5. \E g : g = [i \in 1..Len(ss) |-> IF i = 1 THEN ss[i] ELSE g[i - 1] \o ss[i]]
  <2>1. \E g : IsJoin(ss, g, l)
    BY <1>4
  <2>2. QED
    BY <1>1, <2>1 DEF IsJoin
<1> DEFINE f == CHOOSE g : g = [i \in 1..Len(ss) |-> IF i = 1 THEN ss[i] ELSE g[i - 1] \o ss[i]]
<1>6. f = [i \in 1..Len(ss) |-> IF i = 1 THEN ss[i] ELSE f[i - 1] \o ss[i]]
  BY <1>5
<1>7. FlattenSeq(ss) = f[Len(ss)]
  BY <1>1 DEF FlattenSeq
<1> HIDE DEF f
<1>8. Joins(ss, f)
  BY <1>6 DEF Joins
<1>9. QED
  BY <1>7, <1>8

LEMMA Flattened ==
    ASSUME NEW D, NEW ss \in Seq(Seq(D))
    PROVE  /\ FlattenSeq(ss) \in Seq(D)
           /\ Elements(FlattenSeq(ss)) = UNION {Elements(ss[i]) : i \in 1..Len(ss)}
           /\ (/\ \A i \in 1..Len(ss) : Ascending(ss[i])
               /\ \A i, j \in 1..Len(ss) : i < j => AllBefore(Elements(ss[i]), Elements(ss[j])))
              => Ascending(FlattenSeq(ss))
<1>1. CASE ss = <<>>
  <2>1. FlattenSeq(ss) = <<>> /\ Len(ss) = 0
    BY <1>1 DEF FlattenSeq
  <2>2. /\ <<>> \in Seq(D) /\ Elements(<<>>) = {} /\ Ascending(<<>>)
        /\ {Elements(ss[i]) : i \in 1..Len(ss)} = {}
    BY <2>1 DEF Elements, Ascending
  <2>3. QED
    BY <2>1, <2>2
<1>2. CASE ss # <<>>
  <2>1. PICK f : Joins(ss, f) /\ FlattenSeq(ss) = f[Len(ss)]
    BY <1>2, JoinsExist
  <2>2. PICK l \in Nat : l = Len(ss) /\ l > 0
    BY <1>2, EmptySeq
  <2> DEFINE Ordered == /\ \A i \in 1..Len(ss) : Ascending(ss[i])
                        /\ \A i, j \in 1..Len(ss) : i < j => AllBefore(Elements(ss[i]), Elements(ss[j]))
             Good(k) == /\ f[k] \in Seq(D)
                        /\ Elements(f[k]) = UNION {Elements(ss[i]) : i \in 1..k}
                        /\ Ordered => Ascending(f[k])
             S == {k \in Nat : k + 1 <= l => Good(k + 1)}
  <2>3. 0 \in S
    <3>1. 1 \in 1..Len(ss) /\ f[1] = ss[1] /\ ss[1] \in Seq(D)
      BY <2>1, <2>2 DEF Joins
    <3>2. {Elements(ss[i]) : i \in 1..1} = {Elements(ss[1])}
      OBVIOUS
    <3>3. QED
      BY <3>1, <3>2
  <2>4. ASSUME NEW k \in Nat, k \in S PROVE k + 1 \in S
    <3>1. SUFFICES ASSUME (k + 1) + 1 <= l PROVE Good((k + 1) + 1)
      OBVIOUS
    <3>2. PICK m \in Nat : m = k + 1 /\ m >= 1 /\ m + 1 <= l
      BY <3>1
    <3>3. Good(m)
      BY <2>4, <3>2
    <3>4. /\ m + 1 \in 1..l /\ m + 1 # 1 /\ (m + 1) - 1 = m /\ (\A i \in 1..m : i \in 1..l /\ i < m + 1)
          /\ \A i \in 1..m + 1 : i \in 1..m \/ i = m + 1
          /\ \A i \in 1..m : i \in 1..m + 1
      BY <3>2
    <3>5. ss[m + 1] \in Seq(D) /\ f[m + 1] = f[m] \o ss[m + 1]
      <4>1. ss[m + 1] \in Seq(D)
        BY <2>2, <3>4
      <4>2. m + 1 \in 1..Len(ss)
        BY <2>2, <3>4
      <4>3. f[m + 1] = IF m + 1 = 1 THEN ss[m + 1] ELSE f[(m + 1) - 1] \o ss[m + 1]
        BY <2>1, <4>2 DEF Joins
      <4>4. QED
        BY <3>4, <4>1, <4>3
    <3>6. /\ f[m + 1] \in Seq(D)
          /\ Elements(f[m + 1]) = Elements(f[m]) \cup Elements(ss[m + 1])
          /\ Ascending(f[m]) /\ Ascending(ss[m + 1]) /\ AllBefore(Elements(f[m]), Elements(ss[m + 1]))
                 => Ascending(f[m + 1])
      <4>1. f[m] \in Seq(D)
        BY <3>3
      <4> HIDE DEF Good, S, Ordered
      <4>2. QED
        BY <3>5, <4>1, Joined
    <3>7. Elements(f[m + 1]) = UNION {Elements(ss[i]) : i \in 1..m + 1}
      <4>1. Elements(f[m]) = UNION {Elements(ss[i]) : i \in 1..m}
        BY <3>3
      <4>2. UNION {Elements(ss[i]) : i \in 1..m + 1}
                = (UNION {Elements(ss[i]) : i \in 1..m}) \cup Elements(ss[m + 1])
        <5>1. 1..m + 1 = 1..m \cup {m + 1}
          BY <3>2, <3>4
        <5>2. QED
          BY <5>1
      <4>3. QED
        BY <3>6, <4>1, <4>2
    <3>8. ASSUME Ordered PROVE Ascending(f[m + 1])
      <4>1. Ascending(f[m]) /\ Ascending(ss[m + 1])
        BY <2>2, <3>3, <3>4, <3>8
      <4>2. AllBefore(Elements(f[m]), Elements(ss[m + 1]))
        <5>1. SUFFICES ASSUME NEW x \in Elements(f[m]), NEW y \in Elements(ss[m + 1])
                       PROVE  Before(x, y)
          BY DEF AllBefore
        <5>2. PICK i \in 1..m : x \in Elements(ss[i])
          BY <3>3
        <5>3. AllBefore(Elements(ss[i]), Elements(ss[m + 1]))
          BY <2>2, <3>4, <3>8
        <5>4. QED
          BY <5>2, <5>3 DEF AllBefore
      <4>3. QED
        BY <3>6, <4>1, <4>2
    <3>9. QED
      BY <3>2, <3>6, <3>7, <3>8
  <2>5. PICK k \in Nat : k + 1 = l /\ k \in S
    <3>1. l - 1 \in Nat /\ (l - 1) + 1 = l
      BY <2>2
    <3> HIDE DEF S
    <3>2. l - 1 \in S
      BY <2>3, <2>4, <3>1, UpToAll
    <3>3. QED
      BY <3>1, <3>2
  <2>6. Good(l)
    BY <2>5
  <2>7. QED
    BY <2>1, <2>2, <2>6
<1>3. QED
  BY <1>1, <1>2

(* As many things as there are different entries.                          *)
Values(f, k) == {f[i] : i \in 1..k}

LEMMA Counted ==
    ASSUME NEW f, NEW c \in Nat, \A i, j \in 1..c : f[i] = f[j] => i = j
    PROVE  IsFiniteSet(Values(f, c)) /\ Cardinality(Values(f, c)) = c
<1> DEFINE T(k) == Values(f, k)
           S == {k \in Nat : k <= c => IsFiniteSet(T(k)) /\ Cardinality(T(k)) = k}
<1>1. 0 \in S
  <2>1. T(0) = {}
    BY DEF Values
  <2> HIDE DEF T
  <2>2. QED
    BY <2>1, FS_EmptySet
<1>2. ASSUME NEW k \in Nat, k \in S PROVE k + 1 \in S
  <2>1. SUFFICES ASSUME k + 1 <= c
                 PROVE  IsFiniteSet(T(k + 1)) /\ Cardinality(T(k + 1)) = k + 1
    OBVIOUS
  <2>2. k <= c /\ k + 1 \in 1..c /\ \A i \in 1..k : i \in 1..c /\ i # k + 1
    BY <2>1
  <2>3. T(k + 1) = T(k) \cup {f[k + 1]}
    <3>1. 1..k + 1 = 1..k \cup {k + 1}
      OBVIOUS
    <3>2. QED
      BY <3>1 DEF Values
  <2>4. f[k + 1] \notin T(k)
    BY <2>2 DEF Values
  <2>5. IsFiniteSet(T(k)) /\ Cardinality(T(k)) = k
    BY <1>2, <2>2
  <2> HIDE DEF T, S
  <2>6. /\ IsFiniteSet(T(k) \cup {f[k + 1]})
        /\ Cardinality(T(k) \cup {f[k + 1]}) = Cardinality(T(k)) + 1
    BY <2>4, <2>5, FS_AddElement
  <2>7. QED
    BY <2>3, <2>5, <2>6
<1>3. c \in S
  <2> HIDE DEF S
  <2>1. QED
    BY <1>1, <1>2, UpToAll
<1>4. QED
  BY <1>3

-----------------------------------------------------------------------------
(* Trees as they are sent.                                                 *)
Numbers == Nat \ {0}

IsSent(t) ==
    /\ <<>> \in DOMAIN t /\ DOMAIN t \subseteq Seq(Numbers)
    /\ \A n \in DOMAIN t : Len(n) <= MaxDepthSent /\ \A i \in 1..Len(n) : n[i] <= MaxChildren
    /\ \A n \in DOMAIN t \ {<<>>} :
          /\ Front(n) \in DOMAIN t
          /\ \A i \in 1..Last(n) : Append(Front(n), i) \in DOMAIN t

LEMMA Ends ==
    ASSUME NEW n \in Seq(Numbers), n # <<>>
    PROVE  /\ Front(n) \in Seq(Numbers) /\ Last(n) \in Numbers /\ Len(n) \in Numbers
           /\ Len(Front(n)) = Len(n) - 1 /\ n[Len(n)] = Last(n)
           /\ \A i \in 1..Len(n) - 1 : Front(n)[i] = n[i]
           /\ n = Append(Front(n), Last(n))
<1>1. Len(n) \in Nat \ {0}
  BY EmptySeq
<1>2. PICK l \in Nat : l = Len(n) - 1 /\ l + 1 = Len(n)
  BY <1>1
<1>3. /\ \A i \in 1..l : n[i] \in Numbers
      /\ n[l + 1] \in Numbers /\ 1 \in Int /\ l \in Int
  <2>1. l + 1 \in 1..Len(n) /\ \A i \in 1..l : i \in 1..Len(n)
    BY <1>2
  <2>2. QED
    BY <2>1, ElementOfSeq
<1>4. PICK f : f = SubSeq(n, 1, l)
  OBVIOUS
<1>5. f \in Seq(Numbers) /\ Len(f) = l /\ \A i \in 1..l : f[i] = n[i]
  <2>1. /\ f \in Seq(Numbers) /\ Len(f) = IF 1 <= l THEN l - 1 + 1 ELSE 0
        /\ \A i \in 1..l - 1 + 1 : f[i] = n[1 + i - 1]
    BY <1>3, <1>4, SubSeqProperties
  <2>2. Len(f) = l /\ \A i \in 1..l : i \in 1..l - 1 + 1 /\ 1 + i - 1 = i
    BY <2>1
  <2>3. QED
    BY <2>1, <2>2
<1>6. Front(n) = f /\ Last(n) = n[l + 1]
  BY <1>2, <1>4 DEF Front, Last
<1>7. n = Append(f, n[l + 1])
  <2>1. PICK a : a = Append(f, n[l + 1])
    OBVIOUS
  <2>2. /\ a \in Seq(Numbers) /\ Len(a) = l + 1
        /\ \A i \in 1..l : a[i] = f[i]
        /\ a[l + 1] = n[l + 1]
    BY <1>3, <1>5, <2>1, AppendProperties
  <2>3. \A i \in 1..l + 1 : a[i] = n[i]
    BY <1>5, <2>2
  <2>4. QED
    BY <1>2, <2>1, <2>2, <2>3, SeqEqual
<1>8. Len(n) \in Numbers /\ Len(f) = Len(n) - 1 /\ n[Len(n)] = n[l + 1]
  BY <1>1, <1>2, <1>5 DEF Numbers
<1>9. \A i \in 1..Len(n) - 1 : f[i] = n[i]
  BY <1>2, <1>5
<1>10. QED
  BY <1>3, <1>5, <1>6, <1>7, <1>8, <1>9

LEMMA OneLonger ==
    ASSUME NEW n \in Seq(Numbers), NEW i \in Numbers
    PROVE  /\ Append(n, i) \in Seq(Numbers) /\ Append(n, i) # <<>>
           /\ Len(Append(n, i)) = Len(n) + 1 /\ Append(n, i)[Len(n) + 1] = i
           /\ \A j \in 1..Len(n) : Append(n, i)[j] = n[j]
           /\ Front(Append(n, i)) = n /\ Last(Append(n, i)) = i
<1>1. PICK a : a = Append(n, i)
  OBVIOUS
<1>2. /\ a \in Seq(Numbers) /\ a # <<>> /\ Len(a) = Len(n) + 1
      /\ a[Len(n) + 1] = i /\ \A j \in 1..Len(n) : a[j] = n[j]
  BY <1>1, AppendProperties
<1>3. PICK l \in Nat : l = Len(n)
  OBVIOUS
<1>4. Last(a) = i
  BY <1>2 DEF Last
<1>5. /\ Front(a) \in Seq(Numbers) /\ Len(Front(a)) = Len(a) - 1
      /\ \A j \in 1..Len(a) - 1 : Front(a)[j] = a[j]
  BY <1>2, Ends
<1>6. Len(Front(a)) = l /\ \A j \in 1..l : Front(a)[j] = n[j]
  BY <1>2, <1>3, <1>5
<1>7. Front(a) = n
  BY <1>3, <1>5, <1>6, SeqEqual
<1>8. QED
  BY <1>1, <1>2, <1>4, <1>7

(* The children of a node are those with the numbers up to their count.    *)
LEMMA ChildrenAre ==
    ASSUME NEW t, IsSent(t), NEW n \in DOMAIN t
    PROVE  /\ Children(t, n) \in Nat
           /\ \A i \in Numbers : Append(n, i) \in DOMAIN t <=> i \in 1..Children(t, n)
<1> DEFINE T == {k \in Nat : Append(n, k + 1) \notin DOMAIN t}
<1>1. n \in Seq(Numbers) /\ MaxChildren \in Nat
  BY TreeAssumption DEF IsSent
<1>2. MaxChildren \in T
  <2>1. SUFFICES ASSUME Append(n, MaxChildren + 1) \in DOMAIN t PROVE FALSE
    BY <1>1
  <2>2. PICK a : a = Append(n, MaxChildren + 1)
    OBVIOUS
  <2>3. Len(a) = Len(n) + 1 /\ a[Len(n) + 1] = MaxChildren + 1
    BY <1>1, <2>2, OneLonger DEF Numbers
  <2>4. Len(n) + 1 \in 1..Len(a)
    BY <1>1, <2>3
  <2>5. MaxChildren + 1 <= MaxChildren
    BY <2>1, <2>2, <2>3, <2>4 DEF IsSent
  <2>6. QED
    BY <1>1, <2>5
<1>3. PICK k \in T : \A y \in T : k <= y
  <2>1. T \subseteq Nat /\ T # {}
    BY <1>2
  <2> HIDE DEF T
  <2>2. QED
    BY <2>1, LeastOne
<1>4. k \in Nat /\ Append(n, k + 1) \notin DOMAIN t
  OBVIOUS
<1>5. ASSUME NEW i \in 1..k PROVE Append(n, i) \in DOMAIN t
  <2>1. i - 1 \in Nat /\ (i - 1) + 1 = i /\ ~(k <= i - 1)
    BY <1>4
  <2>2. i - 1 \notin T
    BY <1>3, <2>1
  <2>3. QED
    BY <2>1, <2>2
<1> HIDE DEF T
<1>6. ASSUME NEW i \in Numbers, Append(n, i) \in DOMAIN t PROVE i \in 1..k
  <2>1. SUFFICES ASSUME k + 1 <= i PROVE FALSE
    BY <1>4 DEF Numbers
  <2>2. Front(Append(n, i)) = n /\ Last(Append(n, i)) = i /\ Append(n, i) # <<>>
    BY <1>1, OneLonger
  <2>3. k + 1 \in 1..i
    BY <1>4, <2>1 DEF Numbers
  <2>4. \A j \in 1..i : Append(n, j) \in DOMAIN t
    BY <1>6, <2>2 DEF IsSent
  <2>5. QED
    BY <1>4, <2>3, <2>4
<1> DEFINE f == [i \in 1..k |-> Append(n, i)]
<1>7. {m \in DOMAIN t : IsChild(m, n)} = Values(f, k)
  <2>1. ASSUME NEW m \in DOMAIN t, IsChild(m, n) PROVE \E i \in 1..k : m = f[i]
    <3>1. m \in Seq(Numbers) /\ m # <<>> /\ Front(m) = n
      BY <2>1 DEF IsSent, IsChild
    <3>2. m = Append(n, Last(m)) /\ Last(m) \in Numbers
      BY <3>1, Ends
    <3>3. Last(m) \in 1..k
      BY <1>6, <3>2
    <3>4. QED
      BY <3>2, <3>3
  <2>2. ASSUME NEW i \in 1..k PROVE f[i] \in DOMAIN t /\ IsChild(f[i], n)
    <3>1. i \in Numbers /\ f[i] = Append(n, i)
      BY DEF Numbers
    <3>2. QED
      BY <1>1, <1>5, <3>1, OneLonger DEF IsChild
  <2> HIDE DEF f
  <2>3. QED
    BY <2>1, <2>2 DEF Values
<1>8. \A i, j \in 1..k : f[i] = f[j] => i = j
  <2>1. \A i \in 1..k : f[i][Len(n) + 1] = i
    BY <1>1, OneLonger DEF Numbers
  <2> HIDE DEF f
  <2>2. QED
    BY <2>1
<1> HIDE DEF f
<1>9. Children(t, n) = k
  <2>1. Cardinality(Values(f, k)) = k
    BY <1>4, <1>8, Counted
  <2>2. QED
    BY <1>7, <2>1 DEF Children
<1>10. QED
  BY <1>4, <1>5, <1>6, <1>9

-----------------------------------------------------------------------------
(* Flattening.  The nodes at most k levels above what is cut off.          *)
Low(t, k) == {n \in DOMAIN t : MaxDepthSent < Len(n) + k}

IsWalk(t, g, k) ==
    g = [n \in Low(t, k) |-> <<n>> \o FlattenSeq([i \in 1..Children(t, n) |-> g[Append(n, i)]])]

LEMMA LowFacts ==
    ASSUME NEW t, IsSent(t)
    PROVE  /\ Low(t, 0) = {} /\ MaxDepthSent + 1 \in Nat /\ Low(t, MaxDepthSent + 1) = DOMAIN t
           /\ \A k \in Nat : \A n \in Low(t, k + 1) : \A i \in 1..Children(t, n) :
                 n \in DOMAIN t /\ i \in Numbers /\ Append(n, i) \in Low(t, k)
           /\ \A k \in Nat : Low(t, k) \subseteq Low(t, k + 1)
<1>1. MaxDepthSent \in Nat
  BY TreeAssumption
<1>2. \A n \in DOMAIN t : Len(n) \in Nat /\ Len(n) <= MaxDepthSent /\ n \in Seq(Numbers)
  BY DEF IsSent
<1>3. ASSUME NEW k \in Nat, NEW n \in Low(t, k + 1), NEW i \in 1..Children(t, n)
      PROVE  n \in DOMAIN t /\ i \in Numbers /\ Append(n, i) \in Low(t, k)
  <2>1. n \in DOMAIN t /\ MaxDepthSent < Len(n) + (k + 1)
    BY DEF Low
  <2>2. Children(t, n) \in Nat
    BY <2>1, ChildrenAre
  <2>3. i \in Numbers
    BY <2>2 DEF Numbers
  <2>4. Append(n, i) \in DOMAIN t
    BY <2>1, <2>3, ChildrenAre
  <2>5. Len(Append(n, i)) = Len(n) + 1
    BY <1>2, <2>1, <2>3, OneLonger
  <2>6. MaxDepthSent < (Len(n) + 1) + k
    BY <1>1, <1>2, <2>1
  <2>7. QED
    BY <2>1, <2>3, <2>4, <2>5, <2>6 DEF Low
<1>4. Low(t, 0) = {} /\ MaxDepthSent + 1 \in Nat /\ Low(t, MaxDepthSent + 1) = DOMAIN t
  BY <1>1, <1>2 DEF Low
<1>5. \A k \in Nat : Low(t, k) \subseteq Low(t, k + 1)
  BY <1>1, <1>2 DEF Low
<1>6. QED
  BY <1>3, <1>4, <1>5

LEMMA WalkGoesUp ==
    ASSUME NEW t, IsSent(t), NEW k \in Nat, NEW g, IsWalk(t, g, k)
    PROVE  \E h : IsWalk(t, h, k + 1)
<1> DEFINE Under1(f, n) == <<n>> \o FlattenSeq([i \in 1..Children(t, n) |-> f[Append(n, i)]])
           h == [n \in Low(t, k + 1) |-> IF n \in Low(t, k) THEN g[n] ELSE Under1(g, n)]
<1>1. \A n \in Low(t, k) : g[n] = Under1(g, n)
  BY DEF IsWalk
<1>2. \A n \in Low(t, k) : n \in Low(t, k + 1)
  BY LowFacts
<1>3. \A n \in Low(t, k) : h[n] = g[n]
  BY <1>2
<1>4. \A n \in Low(t, k + 1) : h[n] = Under1(g, n)
  BY <1>1
<1>5. h = [n \in Low(t, k + 1) |-> h[n]]
  OBVIOUS
<1> HIDE DEF h
<1>6. ASSUME NEW n \in Low(t, k + 1) PROVE Under1(g, n) = Under1(h, n)
  <2>1. \A i \in 1..Children(t, n) : h[Append(n, i)] = g[Append(n, i)]
    BY <1>3, LowFacts
  <2>2. [i \in 1..Children(t, n) |-> h[Append(n, i)]] = [i \in 1..Children(t, n) |-> g[Append(n, i)]]
    BY <2>1
  <2>3. QED
    BY <2>2
<1>7. \A n \in Low(t, k + 1) : h[n] = Under1(h, n)
  BY <1>4, <1>6
<1>8. h = [n \in Low(t, k + 1) |-> Under1(h, n)]
  BY <1>5, <1>7
<1>9. QED
  BY <1>8 DEF IsWalk

LEMMA FlattenIsWalk ==
    ASSUME NEW t, IsSent(t)
    PROVE  \E f : /\ \A n \in DOMAIN t :
                        f[n] = <<n>> \o FlattenSeq([i \in 1..Children(t, n) |-> f[Append(n, i)]])
                  /\ \A n : Flatten(t, n) = f[n]
<1> DEFINE S == {k \in Nat : \E g : IsWalk(t, g, k)}
<1>1. 0 \in S
  <2>1. IsWalk(t, [n \in {} |-> n], 0)
    BY LowFacts DEF IsWalk
  <2>2. QED
    BY <2>1
<1>2. ASSUME NEW k \in Nat, k \in S PROVE k + 1 \in S
  BY <1>2, WalkGoesUp
<1>3. MaxDepthSent + 1 \in S
  <2> HIDE DEF S
  <2>1. QED
    BY <1>1, <1>2, LowFacts, UpToAll
<1>4. \E g : g = [n \in DOMAIN t |-> <<n>> \o FlattenSeq([i \in 1..Children(t, n) |-> g[Append(n, i)]])]
  <2>1. PICK g : IsWalk(t, g, MaxDepthSent + 1)
    BY <1>3
  <2>2. QED
    BY <2>1, LowFacts DEF IsWalk
<1> DEFINE f == CHOOSE g : g = [n \in DOMAIN t |->
                       <<n>> \o FlattenSeq([i \in 1..Children(t, n) |-> g[Append(n, i)]])]
<1>5. f = [n \in DOMAIN t |-> <<n>> \o FlattenSeq([i \in 1..Children(t, n) |-> f[Append(n, i)]])]
  BY <1>4
<1>6. \A n : Flatten(t, n) = f[n]
  BY DEF Flatten
<1> HIDE DEF f
<1>7. \A n \in DOMAIN t : f[n] = <<n>> \o FlattenSeq([i \in 1..Children(t, n) |-> f[Append(n, i)]])
  BY <1>5
<1>8. QED
  BY <1>6, <1>7

(* What lies under a node, and comes with it.                              *)
Under(t, n) == {m \in DOMAIN t : IsPrefix(n, m)}
Listing(t, s, n) == s \in Seq(DOMAIN t) /\ Elements(s) = Under(t, n) /\ Ascending(s)

LEMMA PrefixIs ==
    ASSUME NEW m \in Seq(Numbers), NEW n \in Seq(Numbers)
    PROVE  /\ m \in Positions /\ n \in Positions
           /\ IsPrefix(n, m) <=> Len(n) <= Len(m) /\ \A j \in 1..Len(n) : m[j] = n[j]
<1>1. Numbers \subseteq Nat
  BY DEF Numbers
<1>2. m \in Positions /\ n \in Positions
  BY <1>1, SeqMonotonic DEF Positions
<1>3. Len(n) \in Nat /\ Len(n) <= Len(n)
  OBVIOUS
<1>4. ASSUME Len(n) <= Len(m)
      PROVE  (SubSeq(n, 1, Len(n)) = SubSeq(m, 1, Len(n))) <=> \A j \in 1..Len(n) : n[j] = m[j]
  BY <1>2, <1>3, <1>4, SameFront
<1>5. QED
  BY <1>2, <1>4 DEF IsPrefix

LEMMA FrontsAreThere ==
    ASSUME NEW t, IsSent(t), NEW m \in DOMAIN t, NEW k \in Nat, k <= Len(m)
    PROVE  \E p \in DOMAIN t : Len(p) = k /\ \A j \in 1..k : p[j] = m[j]
<1> DEFINE Is(p, l) == Len(p) = l /\ \A j \in 1..l : p[j] = m[j]
           S == {d \in Nat : d <= Len(m) => \E p \in DOMAIN t : Is(p, Len(m) - d)}
<1>1. m \in Seq(Numbers) /\ Len(m) \in Nat
  BY DEF IsSent
<1>2. 0 \in S
  <2>1. Is(m, Len(m) - 0)
    BY <1>1
  <2>2. QED
    BY <2>1
<1>3. ASSUME NEW d \in Nat, d \in S PROVE d + 1 \in S
  <2>1. SUFFICES ASSUME d + 1 <= Len(m) PROVE \E p \in DOMAIN t : Is(p, Len(m) - (d + 1))
    OBVIOUS
  <2>2. PICK l \in Nat : l + 1 = Len(m) - d /\ l = Len(m) - (d + 1) /\ d <= Len(m)
    <3>1. PICK a \in Nat : a = Len(m)
      BY <1>1
    <3>2. a - (d + 1) \in Nat /\ (a - (d + 1)) + 1 = a - d /\ d <= a
      BY <2>1, <3>1
    <3>3. QED
      BY <3>1, <3>2
  <2>3. PICK p \in DOMAIN t : Is(p, l + 1)
    BY <1>3, <2>2
  <2>4. p \in Seq(Numbers) /\ p # <<>> /\ Len(p) = l + 1
    <3>1. p \in Seq(Numbers) /\ Len(p) = l + 1
      BY <2>3 DEF IsSent
    <3>2. l + 1 # 0
      OBVIOUS
    <3>3. QED
      BY <3>1, <3>2
  <2>5. Front(p) \in DOMAIN t
    BY <2>4 DEF IsSent
  <2>6. Len(Front(p)) = l /\ \A j \in 1..l : Front(p)[j] = p[j]
    <3>1. Len(Front(p)) = Len(p) - 1 /\ \A j \in 1..Len(p) - 1 : Front(p)[j] = p[j]
      BY <2>4, Ends
    <3>2. Len(p) - 1 = l
      BY <2>4
    <3>3. QED
      BY <3>1, <3>2
  <2>7. \A j \in 1..l : p[j] = m[j]
    BY <2>3
  <2>8. Is(Front(p), l)
    BY <2>6, <2>7
  <2>9. QED
    BY <2>2, <2>5, <2>8
<1>4. PICK d \in Nat : d <= Len(m) /\ Len(m) - d = k
  <2>1. Len(m) - k \in Nat /\ Len(m) - k <= Len(m) /\ Len(m) - (Len(m) - k) = k
    BY <1>1
  <2>2. QED
    BY <2>1
<1>5. d \in S
  <2> HIDE DEF S
  <2>1. QED
    BY <1>2, <1>3, UpToAll
<1>6. QED
  BY <1>4, <1>5

LEMMA UnderSplits ==
    ASSUME NEW t, IsSent(t), NEW n \in DOMAIN t
    PROVE  Under(t, n) = {n} \cup UNION {Under(t, Append(n, i)) : i \in 1..Children(t, n)}
<1>1. n \in Seq(Numbers) /\ Len(n) \in Nat
  BY DEF IsSent
<1>2. \A i \in 1..Children(t, n) : i \in Numbers /\ Append(n, i) \in DOMAIN t
  <2>1. Children(t, n) \in Nat
    BY ChildrenAre
  <2>2. \A i \in 1..Children(t, n) : i \in Numbers
    BY <2>1 DEF Numbers
  <2>3. QED
    BY <2>2, ChildrenAre
<1>3. n \in Under(t, n)
  BY <1>1, PrefixIs DEF Under
<1>4. ASSUME NEW i \in 1..Children(t, n), NEW m \in Under(t, Append(n, i)) PROVE m \in Under(t, n)
  <2>1. PICK a : a = Append(n, i)
    OBVIOUS
  <2>2. a \in Seq(Numbers) /\ Len(a) = Len(n) + 1 /\ \A j \in 1..Len(n) : a[j] = n[j]
    BY <1>1, <1>2, <2>1, OneLonger
  <2>3. m \in DOMAIN t /\ m \in Seq(Numbers) /\ Len(m) \in Nat /\ IsPrefix(a, m)
    BY <2>1 DEF Under, IsSent
  <2>4. Len(a) <= Len(m) /\ \A j \in 1..Len(a) : m[j] = a[j]
    BY <2>2, <2>3, PrefixIs
  <2>5. Len(n) <= Len(m) /\ \A j \in 1..Len(n) : m[j] = n[j]
    BY <1>1, <2>2, <2>3, <2>4
  <2>6. QED
    BY <1>1, <2>3, <2>5, PrefixIs DEF Under
<1>5. ASSUME NEW m \in Under(t, n), m # n
      PROVE  \E i \in 1..Children(t, n) : m \in Under(t, Append(n, i))
  <2>1. m \in DOMAIN t /\ m \in Seq(Numbers) /\ Len(m) \in Nat /\ IsPrefix(n, m)
    BY DEF Under, IsSent
  <2>2. Len(n) <= Len(m) /\ \A j \in 1..Len(n) : m[j] = n[j]
    BY <1>1, <2>1, PrefixIs
  <2>3. Len(n) # Len(m)
    BY <1>1, <1>5, <2>1, <2>2, SeqEqual
  <2>4. Len(n) + 1 \in Nat /\ Len(n) + 1 <= Len(m)
    BY <1>1, <2>1, <2>2, <2>3
  <2>5. PICK p \in DOMAIN t : Len(p) = Len(n) + 1 /\ \A j \in 1..Len(n) + 1 : p[j] = m[j]
    BY <2>1, <2>4, FrontsAreThere
  <2>6. p \in Seq(Numbers) /\ p # <<>>
    <3>1. p \in Seq(Numbers) /\ Len(p) # 0
      BY <1>1, <2>5 DEF IsSent
    <3>2. QED
      BY <3>1
  <2>7. /\ Front(p) \in Seq(Numbers) /\ Last(p) \in Numbers /\ p = Append(Front(p), Last(p))
        /\ Len(Front(p)) = Len(p) - 1
        /\ \A j \in 1..Len(p) - 1 : Front(p)[j] = p[j]
    BY <2>6, Ends
  <2>8. Len(Front(p)) = Len(n) /\ \A j \in 1..Len(n) : Front(p)[j] = n[j]
    BY <1>1, <2>2, <2>5, <2>7
  <2>9. Front(p) = n
    BY <1>1, <2>7, <2>8, SeqEqual
  <2>10. Last(p) \in 1..Children(t, n)
    BY <2>7, <2>9, ChildrenAre
  <2>11. IsPrefix(p, m)
    BY <2>1, <2>4, <2>5, <2>6, PrefixIs
  <2>12. QED
    BY <2>1, <2>7, <2>9, <2>10, <2>11 DEF Under
<1>6. QED
  BY <1>3, <1>4, <1>5

(* A node is before what is under it; what is under an earlier child is    *)
(* before what is under a later one.                                       *)
LEMMA UnderOrder ==
    ASSUME NEW t, IsSent(t), NEW n \in DOMAIN t, NEW i \in Numbers, NEW k \in Numbers
    PROVE  /\ AllBefore({n}, Under(t, Append(n, i)))
           /\ i < k => AllBefore(Under(t, Append(n, i)), Under(t, Append(n, k)))
<1>1. n \in Seq(Numbers) /\ Len(n) \in Nat /\ n \in Positions
  BY PrefixIs DEF IsSent
<1>2. ASSUME NEW c \in Numbers, NEW m \in Under(t, Append(n, c))
      PROVE  /\ m \in Positions /\ Len(m) \in Nat /\ Len(n) + 1 <= Len(m)
             /\ m[Len(n) + 1] = c /\ \A j \in 1..Len(n) : m[j] = n[j]
  <2>1. PICK a : a = Append(n, c)
    OBVIOUS
  <2>2. /\ a \in Seq(Numbers) /\ Len(a) = Len(n) + 1 /\ a[Len(n) + 1] = c
        /\ \A j \in 1..Len(n) : a[j] = n[j]
    BY <1>1, <2>1, OneLonger
  <2>3. m \in DOMAIN t /\ m \in Seq(Numbers) /\ Len(m) \in Nat /\ IsPrefix(a, m)
    BY <2>1 DEF Under, IsSent
  <2>4. m \in Positions /\ Len(a) <= Len(m) /\ \A j \in 1..Len(a) : m[j] = a[j]
    BY <2>2, <2>3, PrefixIs
  <2>5. Len(n) + 1 \in 1..Len(a) /\ \A j \in 1..Len(n) : j \in 1..Len(a)
    BY <1>1, <2>2
  <2>6. QED
    BY <2>2, <2>3, <2>4, <2>5
<1>3. ASSUME NEW m \in Under(t, Append(n, i)) PROVE Before(n, m)
  <2>1. /\ m \in Positions /\ Len(m) \in Nat /\ Len(n) + 1 <= Len(m)
        /\ \A j \in 1..Len(n) : m[j] = n[j]
    BY <1>2
  <2>2. PICK p \in Nat : p = Len(n) + 1 /\ p \in 1..Len(m) /\ ~(p <= Len(n)) /\ p <= Len(n) + 1
                         /\ \A j \in 1..p - 1 : j \in 1..Len(n)
    BY <1>1, <2>1
  <2>3. Part(n, m, p)
    BY <2>1, <2>2 DEF Part
  <2>4. QED
    BY <1>1, <2>1, <2>2, <2>3, BeforeIsPart
<1>4. ASSUME i < k, NEW x \in Under(t, Append(n, i)), NEW y \in Under(t, Append(n, k))
      PROVE  Before(x, y)
  <2>1. /\ x \in Positions /\ Len(x) \in Nat /\ Len(n) + 1 <= Len(x)
        /\ x[Len(n) + 1] = i /\ \A j \in 1..Len(n) : x[j] = n[j]
    BY <1>2
  <2>2. /\ y \in Positions /\ Len(y) \in Nat /\ Len(n) + 1 <= Len(y)
        /\ y[Len(n) + 1] = k /\ \A j \in 1..Len(n) : y[j] = n[j]
    BY <1>2
  <2>3. PICK p \in Nat : p = Len(n) + 1 /\ p \in 1..Len(y) /\ p <= Len(x) + 1
                         /\ \A j \in 1..p - 1 : j \in 1..Len(n)
    BY <1>1, <2>1, <2>2
  <2>4. Part(x, y, p)
    BY <1>4, <2>1, <2>2, <2>3 DEF Part
  <2>5. QED
    BY <2>1, <2>2, <2>3, <2>4, BeforeIsPart
<1>5. QED
  BY <1>3, <1>4 DEF AllBefore

(* Flattening lists what is under a node, each once and in document order. *)
LEMMA OneUp ==
    ASSUME NEW t, IsSent(t), NEW k \in Nat, NEW f, NEW n \in Low(t, k + 1),
           f[n] = <<n>> \o FlattenSeq([i \in 1..Children(t, n) |-> f[Append(n, i)]]),
           \A m \in Low(t, k) : Listing(t, f[m], m)
    PROVE  Listing(t, f[n], n)
<1>1. n \in DOMAIN t /\ Children(t, n) \in Nat
  BY ChildrenAre DEF Low
<1>2. PICK c \in Nat : c = Children(t, n)
  BY <1>1
<1>3. PICK ss : ss = [i \in 1..c |-> f[Append(n, i)]]
  OBVIOUS
<1>4. \A i \in 1..c : i \in Numbers /\ Listing(t, ss[i], Append(n, i))
  <2>1. ASSUME NEW i \in 1..c PROVE i \in Numbers /\ Listing(t, f[Append(n, i)], Append(n, i))
    <3>1. i \in Numbers /\ Append(n, i) \in Low(t, k)
      BY <1>2, LowFacts
    <3>2. QED
      BY <3>1
  <2>2. QED
    BY <1>3, <2>1
<1>5. ss \in Seq(Seq(DOMAIN t)) /\ Len(ss) = c
  <2>1. \A i \in 1..c : f[Append(n, i)] \in Seq(DOMAIN t)
    BY <1>3, <1>4 DEF Listing
  <2>2. QED
    BY <1>3, <2>1
<1>6. \A i \in 1..c : Elements(ss[i]) = Under(t, Append(n, i)) /\ Ascending(ss[i])
  BY <1>4 DEF Listing
<1>7. \A i, j \in 1..c : i < j => AllBefore(Elements(ss[i]), Elements(ss[j]))
  BY <1>1, <1>4, <1>6, UnderOrder
<1>8. PICK F : F = FlattenSeq(ss)
  OBVIOUS
<1>9. /\ F \in Seq(DOMAIN t) /\ Ascending(F)
      /\ Elements(F) = UNION {Elements(ss[i]) : i \in 1..c}
  BY <1>5, <1>6, <1>7, <1>8, Flattened
<1>10. Under(t, n) = {n} \cup Elements(F)
  <2>1. {Elements(ss[i]) : i \in 1..c} = {Under(t, Append(n, i)) : i \in 1..c}
    BY <1>6
  <2>2. QED
    BY <1>1, <1>2, <1>9, <2>1, UnderSplits
<1>11. AllBefore({n}, Elements(F))
  <2>1. SUFFICES ASSUME NEW m \in Elements(F) PROVE Before(n, m)
    BY DEF AllBefore
  <2>2. PICK i \in 1..c : m \in Under(t, Append(n, i))
    BY <1>6, <1>9
  <2>3. AllBefore({n}, Under(t, Append(n, i)))
    BY <1>1, <1>4, UnderOrder
  <2>4. QED
    BY <2>2, <2>3 DEF AllBefore
<1> DEFINE one == <<n>>
<1>12. one \in Seq(DOMAIN t) /\ Elements(one) = {n} /\ Ascending(one)
  <2>1. one \in Seq(DOMAIN t) /\ Len(one) = 1 /\ one[1] = n
    BY <1>1
  <2> HIDE DEF one
  <2>2. QED
    BY <2>1 DEF Elements, Ascending
<1>13. f[n] = one \o F
  BY <1>2, <1>3, <1>8
<1> HIDE DEF one
<1>14. /\ one \o F \in Seq(DOMAIN t) /\ Ascending(one \o F)
       /\ Elements(one \o F) = {n} \cup Elements(F)
  <2>1. AllBefore(Elements(one), Elements(F))
    BY <1>11, <1>12
  <2>2. PICK D : D = DOMAIN t /\ one \in Seq(D) /\ F \in Seq(D)
    BY <1>9, <1>12
  <2>3. /\ one \o F \in Seq(D)
        /\ Elements(one \o F) = Elements(one) \cup Elements(F)
        /\ Ascending(one) /\ Ascending(F) /\ AllBefore(Elements(one), Elements(F))
               => Ascending(one \o F)
    BY <2>2, Joined
  <2>4. QED
    BY <1>9, <1>12, <2>1, <2>2, <2>3
<1>15. QED
  BY <1>10, <1>13, <1>14 DEF Listing

LEMMA FlattenIsListing ==
    ASSUME NEW t, IsSent(t), NEW n \in DOMAIN t
    PROVE  Listing(t, Flatten(t, n), n)
<1>1. PICK f : /\ \A m \in DOMAIN t :
                     f[m] = <<m>> \o FlattenSeq([i \in 1..Children(t, m) |-> f[Append(m, i)]])
               /\ \A m : Flatten(t, m) = f[m]
  BY FlattenIsWalk
<1> DEFINE S == {k \in Nat : \A m \in Low(t, k) : Listing(t, f[m], m)}
<1>2. 0 \in S
  BY LowFacts
<1>3. ASSUME NEW k \in Nat, k \in S PROVE k + 1 \in S
  <2>1. \A m \in Low(t, k) : Listing(t, f[m], m)
    BY <1>3
  <2>2. ASSUME NEW m \in Low(t, k + 1) PROVE Listing(t, f[m], m)
    <3>1. m \in DOMAIN t
      BY DEF Low
    <3>2. f[m] = <<m>> \o FlattenSeq([i \in 1..Children(t, m) |-> f[Append(m, i)]])
      BY <1>1, <3>1
    <3> HIDE DEF S
    <3>3. QED
      BY <2>1, <3>2, OneUp
  <2>3. QED
    BY <2>2
<1>4. MaxDepthSent + 1 \in S
  <2> HIDE DEF S
  <2>1. QED
    BY <1>2, <1>3, LowFacts, UpToAll
<1>5. Listing(t, f[n], n)
  BY <1>4, LowFacts
<1>6. QED
  BY <1>1, <1>5

-----------------------------------------------------------------------------
(* Candidates.                                                             *)
LEMMA CandidatesAre ==
    ASSUME NEW t, IsSent(t), NEW sel
    PROVE  /\ Candidates(t, sel) \in Seq(DOMAIN t) /\ Ascending(Candidates(t, sel))
           /\ Elements(Candidates(t, sel)) = {n \in DOMAIN t : IsCandidate(t, n, sel)}
<1>1. <<>> \in DOMAIN t /\ Listing(t, Flatten(t, <<>>), <<>>)
  BY FlattenIsListing DEF IsSent
<1>2. PICK nodes : nodes = Flatten(t, <<>>)
  OBVIOUS
<1>3. nodes \in Seq(DOMAIN t) /\ Elements(nodes) = Under(t, <<>>) /\ Ascending(nodes)
  BY <1>1, <1>2 DEF Listing
<1>4. Under(t, <<>>) = DOMAIN t
  <2>1. ASSUME NEW m \in DOMAIN t PROVE IsPrefix(<<>>, m)
    <3> DEFINE e == <<>>
    <3>1. e \in Seq(Numbers) /\ Len(e) = 0
      OBVIOUS
    <3>2. m \in Seq(Numbers) /\ Len(m) \in Nat
      BY DEF IsSent
    <3>3. Len(e) <= Len(m) /\ \A j \in 1..Len(e) : m[j] = e[j]
      BY <3>1, <3>2
    <3> HIDE DEF e
    <3>4. IsPrefix(e, m)
      BY <3>1, <3>2, <3>3, PrefixIs
    <3>5. QED
      BY <3>4 DEF e
  <2>2. QED
    BY <2>1 DEF Under
<1>5. PICK l \in Nat : l = Len(nodes) /\ DOMAIN nodes = 1..l
  BY <1>3
<1>6. PICK ss : ss = [i \in 1..l |-> IF IsCandidate(t, nodes[i], sel) THEN <<nodes[i]>> ELSE <<>>]
  OBVIOUS
<1>7. \A i \in 1..l : nodes[i] \in DOMAIN t
  BY <1>3, <1>5
<1>8. ASSUME NEW i \in 1..l
      PROVE  /\ ss[i] \in Seq(DOMAIN t) /\ Ascending(ss[i])
             /\ Elements(ss[i]) = IF IsCandidate(t, nodes[i], sel) THEN {nodes[i]} ELSE {}
  <2>1. CASE IsCandidate(t, nodes[i], sel)
    <3>1. ss[i] = <<nodes[i]>> /\ Len(<<nodes[i]>>) = 1 /\ <<nodes[i]>>[1] = nodes[i]
      BY <1>6, <2>1
    <3>2. <<nodes[i]>> \in Seq(DOMAIN t)
      BY <1>7
    <3>3. QED
      BY <2>1, <3>1, <3>2 DEF Ascending, Elements
  <2>2. CASE ~IsCandidate(t, nodes[i], sel)
    <3>1. ss[i] = <<>> /\ Len(<<>>) = 0 /\ <<>> \in Seq(DOMAIN t)
      BY <1>6, <2>2
    <3>2. QED
      BY <2>2, <3>1 DEF Ascending, Elements
  <2>3. QED
    BY <2>1, <2>2
<1>9. ss \in Seq(Seq(DOMAIN t)) /\ Len(ss) = l
  <2>1. \A i \in 1..l : (IF IsCandidate(t, nodes[i], sel) THEN <<nodes[i]>> ELSE <<>>)
                          \in Seq(DOMAIN t)
    BY <1>6, <1>8
  <2>2. QED
    BY <1>6, <2>1
<1>10. \A i, j \in 1..l : i < j => AllBefore(Elements(ss[i]), Elements(ss[j]))
  <2>1. ASSUME NEW i \in 1..l, NEW j \in 1..l, i < j,
               NEW x \in Elements(ss[i]), NEW y \in Elements(ss[j])
        PROVE  Before(x, y)
    <3>1. x = nodes[i] /\ y = nodes[j]
      BY <1>8, <2>1
    <3>2. QED
      BY <1>3, <1>5, <2>1, <3>1 DEF Ascending
  <2>2. QED
    BY <2>1 DEF AllBefore
<1>11. PICK F : F = FlattenSeq(ss)
  OBVIOUS
<1>12. /\ F \in Seq(DOMAIN t) /\ Ascending(F)
       /\ Elements(F) = UNION {Elements(ss[i]) : i \in 1..l}
  <2>1. \A i \in 1..l : Ascending(ss[i])
    BY <1>8
  <2>2. QED
    BY <1>9, <1>10, <1>11, <2>1, Flattened
<1>13. Elements(F) = {n \in DOMAIN t : IsCandidate(t, n, sel)}
  <2>1. \A n \in DOMAIN t : \E i \in 1..l : n = nodes[i]
    BY <1>3, <1>4, <1>5 DEF Elements
  <2>2. ASSUME NEW n \in DOMAIN t, IsCandidate(t, n, sel) PROVE n \in Elements(F)
    <3>1. PICK i \in 1..l : n = nodes[i]
      BY <2>1
    <3>2. Elements(ss[i]) = {n}
      BY <1>8, <2>2, <3>1
    <3>3. QED
      BY <1>12, <3>2
  <2>3. ASSUME NEW n \in Elements(F) PROVE n \in DOMAIN t /\ IsCandidate(t, n, sel)
    <3>1. PICK i \in 1..l : n \in Elements(ss[i])
      BY <1>12
    <3>2. n = nodes[i] /\ IsCandidate(t, nodes[i], sel)
      BY <1>8, <3>1
    <3>3. QED
      BY <1>7, <3>2
  <2>4. QED
    BY <2>2, <2>3
<1>14. Candidates(t, sel) = F
  BY <1>2, <1>5, <1>6, <1>11 DEF Candidates
<1>15. QED
  BY <1>12, <1>13, <1>14

(* What the server sends of a scene is a tree of its own.                  *)
LEMMA WhatIsSent ==
    ASSUME NEW s, IsTree(s)
    PROVE  /\ IsSent(Serialize(s)) /\ DOMAIN Serialize(s) \subseteq DOMAIN s
           /\ \A n \in DOMAIN Serialize(s) : Serialize(s)[n] = s[n]
           /\ ~Truncated(s) => DOMAIN Serialize(s) = DOMAIN s
<1> DEFINE Fits(n) == Len(n) <= MaxDepthSent /\ \A i \in DOMAIN n : n[i] <= MaxChildren
<1>1. PICK t : t = Serialize(s)
  OBVIOUS
<1>2. /\ DOMAIN t = {n \in DOMAIN s : Fits(n)}
      /\ \A n \in DOMAIN t : t[n] = s[n]
  BY <1>1 DEF Serialize, Restricted
<1>3. DOMAIN s \subseteq Seq(Numbers)
  BY DEF IsTree, Numbers
<1>4. \A n \in DOMAIN t : n \in DOMAIN s /\ n \in Seq(Numbers) /\ DOMAIN n = 1..Len(n) /\ Fits(n)
  BY <1>2, <1>3
<1>5. <<>> \in DOMAIN t
  <2>1. Len(<<>>) = 0 /\ DOMAIN <<>> = {} /\ 0 <= MaxDepthSent
    BY TreeAssumption
  <2>2. Fits(<<>>)
    BY <2>1
  <2>3. QED
    BY <1>2, <2>2 DEF IsTree
<1>6. \A n \in DOMAIN t : Len(n) <= MaxDepthSent /\ \A i \in 1..Len(n) : n[i] <= MaxChildren
  BY <1>4
<1> HIDE DEF Fits
<1>7. ASSUME NEW n \in DOMAIN t \ {<<>>}
      PROVE  /\ Front(n) \in DOMAIN t
             /\ \A i \in 1..Last(n) : Append(Front(n), i) \in DOMAIN t
  <2>1. n \in DOMAIN s \ {<<>>} /\ n \in Seq(Numbers) /\ n # <<>>
    BY <1>4
  <2>2. Front(n) \in DOMAIN s /\ \A i \in 1..Last(n) : Append(Front(n), i) \in DOMAIN s
    BY <2>1 DEF IsTree
  <2>3. /\ Front(n) \in Seq(Numbers) /\ Last(n) \in Numbers /\ Len(n) \in Numbers
        /\ Len(Front(n)) = Len(n) - 1 /\ n[Len(n)] = Last(n)
        /\ \A i \in 1..Len(n) - 1 : Front(n)[i] = n[i]
    BY <2>1, Ends
  <2>4. PICK l \in Nat, p \in Seq(Numbers) :
             /\ p = Front(n) /\ Len(p) = l /\ l + 1 = Len(n)
             /\ \A i \in 1..l : p[i] = n[i]
    <3>1. Len(n) - 1 \in Nat /\ (Len(n) - 1) + 1 = Len(n)
      BY <2>3 DEF Numbers
    <3>2. QED
      BY <2>3, <3>1
  <2>5. /\ \A i \in 1..l : p[i] <= MaxChildren
        /\ Last(n) <= MaxChildren /\ l + 1 <= MaxDepthSent /\ l <= MaxDepthSent
    <3>1. l + 1 \in 1..Len(n) /\ \A i \in 1..l : i \in 1..Len(n)
      BY <2>4
    <3>2. l + 1 <= MaxDepthSent
      BY <1>6, <2>4
    <3>3. l <= MaxDepthSent
      BY <3>2, TreeAssumption
    <3>4. QED
      BY <1>6, <2>3, <2>4, <3>1, <3>2, <3>3
  <2>6. Fits(p)
    BY <2>4, <2>5 DEF Fits
  <2>7. ASSUME NEW i \in 1..Last(n) PROVE Fits(Append(p, i))
    <3>1. i \in Numbers /\ i <= MaxChildren
      BY <2>3, <2>5, TreeAssumption DEF Numbers
    <3>2. PICK a : a = Append(p, i)
      OBVIOUS
    <3>3. /\ a \in Seq(Numbers) /\ Len(a) = l + 1 /\ a[l + 1] = i
          /\ \A j \in 1..l : a[j] = p[j]
      BY <2>4, <3>1, <3>2, OneLonger
    <3>4. \A j \in 1..l + 1 : j \in 1..l \/ j = l + 1
      OBVIOUS
    <3>5. DOMAIN a = 1..l + 1
      BY <3>3
    <3>6. \A j \in DOMAIN a : a[j] <= MaxChildren
      BY <2>5, <3>1, <3>3, <3>4, <3>5
    <3>7. QED
      BY <2>5, <3>2, <3>3, <3>6 DEF Fits
  <2>8. QED
    BY <1>2, <2>2, <2>4, <2>6, <2>7
<1>8. IsSent(t)
  BY <1>4, <1>5, <1>6, <1>7 DEF IsSent
<1>9. ~Truncated(s) => DOMAIN t = DOMAIN s
  BY <1>1 DEF Truncated
<1>10. QED
  BY <1>1, <1>2, <1>8, <1>9

(* A candidate of the tree that was sent is meant in the scene; and one    *)
(* that is meant is a candidate, if nothing was cut.                       *)
LEMMA CandidatesAreMeant ==
    ASSUME NEW s, IsTree(s), NEW sel, NEW t, t = Serialize(s)
    PROVE  /\ \A n \in DOMAIN t : IsCandidate(t, n, sel) => n \in Meant(s, sel)
           /\ ~Truncated(s) => Meant(s, sel) = {n \in DOMAIN t : IsCandidate(t, n, sel)}
<1>1. /\ IsSent(t) /\ DOMAIN t \subseteq DOMAIN s
      /\ \A n \in DOMAIN t : t[n] = s[n]
      /\ ~Truncated(s) => DOMAIN t = DOMAIN s
  BY WhatIsSent
<1>2. \A n \in DOMAIN t : \A sub : Matches(t, n, sub) <=> Matches(s, n, sub)
  BY <1>1 DEF Matches
<1>3. ASSUME NEW n \in DOMAIN t, NEW sub
      PROVE  HasDescendant(t, n, sub) <=> \E m \in DOMAIN t : Inside(m, n) /\ Matches(s, m, sub)
  <2>1. PICK f : f = Flatten(t, n)
    OBVIOUS
  <2>2. f \in Seq(DOMAIN t) /\ Elements(f) = Under(t, n)
    BY <1>1, <2>1, FlattenIsListing DEF Listing
  <2>3. ToSet(f) = {m \in DOMAIN t : IsPrefix(n, m)}
    <3>1. DOMAIN f = 1..Len(f)
      BY <2>2
    <3>2. ToSet(f) = Elements(f)
      BY <3>1 DEF ToSet, Elements
    <3>3. QED
      BY <2>2, <3>2 DEF Under
  <2>4. \A m : Inside(m, n) <=> IsPrefix(n, m) /\ n # m
    BY DEF Inside, IsStrictPrefix
  <2>5. HasDescendant(t, n, sub) <=> \E m \in ToSet(f) \ {n} : Matches(t, m, sub)
    BY <2>1 DEF HasDescendant
  <2>6. QED
    BY <1>2, <2>3, <2>4, <2>5
<1>4. ASSUME NEW n \in DOMAIN t, NEW sub
      PROVE  (n # <<>> /\ Matches(t, Front(n), sub)) <=> \E p \in DOMAIN s : IsChild(n, p) /\ Matches(s, p, sub)
  <2>1. n # <<>> => Front(n) \in DOMAIN t
    BY <1>1 DEF IsSent
  <2>2. QED
    BY <1>1, <1>2, <2>1 DEF IsChild
<1>5. ASSUME NEW n \in DOMAIN t, IsCandidate(t, n, sel) PROVE n \in Meant(s, sel)
  <2>1. n \in DOMAIN s /\ Matches(s, n, sel)
    BY <1>1, <1>2, <1>5 DEF IsCandidate
  <2>2. "child_of" \in DOMAIN sel =>
            \E p \in DOMAIN s : IsChild(n, p) /\ Matches(s, p, sel.child_of)
    BY <1>4, <1>5 DEF IsCandidate
  <2>3. "contains" \in DOMAIN sel =>
            \E m \in DOMAIN s : Inside(m, n) /\ Matches(s, m, sel.contains)
    BY <1>1, <1>3, <1>5 DEF IsCandidate
  <2>4. QED
    BY <2>1, <2>2, <2>3 DEF Meant
<1>6. ASSUME ~Truncated(s), NEW n \in Meant(s, sel) PROVE n \in DOMAIN t /\ IsCandidate(t, n, sel)
  <2>1. n \in DOMAIN t /\ DOMAIN t = DOMAIN s
    BY <1>1, <1>6 DEF Meant
  <2>2. Matches(t, n, sel)
    BY <1>2, <2>1 DEF Meant
  <2>3. "child_of" \in DOMAIN sel => n # <<>> /\ Matches(t, Front(n), sel.child_of)
    BY <1>4, <2>1 DEF Meant
  <2>4. "contains" \in DOMAIN sel => HasDescendant(t, n, sel.contains)
    BY <1>3, <2>1 DEF Meant
  <2>5. QED
    BY <2>1, <2>2, <2>3, <2>4 DEF IsCandidate
<1>7. QED
  BY <1>5, <1>6

(* In an ascending list as many are before an entry as its place says.     *)
LEMMA Places ==
    ASSUME NEW D, D \subseteq Positions, NEW c \in Seq(D), Ascending(c), NEW k \in 1..Len(c)
    PROVE  /\ Cardinality({m \in Elements(c) : Before(m, c[k])}) = k - 1
           /\ \A j \in 1..Len(c) : c[j] = c[k] => j = k
<1>1. /\ \A i \in 1..Len(c) : c[i] \in Positions
      /\ Len(c) \in Nat /\ k \in Nat /\ k - 1 \in Nat
  BY ElementOfSeq
<1>2. \A i, j \in 1..Len(c) : i < j => Before(c[i], c[j])
  BY DEF Ascending
<1>3. \A i, j \in 1..Len(c) : Before(c[i], c[j]) => i < j
  <2>1. ASSUME NEW i \in 1..Len(c), NEW j \in 1..Len(c), Before(c[i], c[j]), ~(i < j)
        PROVE  FALSE
    <3>1. c[i] \in Positions /\ c[j] \in Positions
      BY <1>1
    <3>2. i = j \/ j < i
      BY <1>1, <2>1
    <3>3. CASE i = j
      BY <2>1, <3>1, <3>3, BeforeIsOrder
    <3>4. CASE j < i
      <4>1. Before(c[j], c[i])
        BY <1>2, <3>4
      <4>2. QED
        BY <2>1, <3>1, <4>1, BeforeIsOrder
    <3>5. QED
      BY <3>2, <3>3, <3>4
  <2>2. QED
    BY <2>1
<1>4. \A i, j \in 1..Len(c) : c[i] = c[j] => i = j
  <2>1. ASSUME NEW i \in 1..Len(c), NEW j \in 1..Len(c), c[i] = c[j], i < j PROVE FALSE
    <3>1. Before(c[i], c[i]) /\ c[i] \in Positions
      BY <1>1, <1>2, <2>1
    <3>2. QED
      BY <3>1, BeforeIsOrder
  <2>2. QED
    BY <1>1, <2>1
<1>5. {m \in Elements(c) : Before(m, c[k])} = Values(c, k - 1)
  <2>1. \A i \in 1..k - 1 : i \in 1..Len(c) /\ i < k
    BY <1>1
  <2>2. ASSUME NEW m \in Elements(c), Before(m, c[k]) PROVE m \in Values(c, k - 1)
    <3>1. PICK i \in 1..Len(c) : m = c[i]
      BY DEF Elements
    <3>2. i < k
      BY <1>3, <2>2, <3>1
    <3>3. i \in 1..k - 1
      BY <1>1, <3>2
    <3>4. QED
      BY <3>1, <3>3 DEF Values
  <2>3. ASSUME NEW m \in Values(c, k - 1) PROVE m \in Elements(c) /\ Before(m, c[k])
    BY <1>2, <2>1 DEF Values, Elements
  <2>4. QED
    BY <2>2, <2>3
<1>6. Cardinality(Values(c, k - 1)) = k - 1
  <2>1. \A i, j \in 1..k - 1 : c[i] = c[j] => i = j
    BY <1>1, <1>4
  <2>2. QED
    BY <1>1, <2>1, Counted
<1>7. QED
  BY <1>4, <1>5, <1>6

(* What a selector is resolved to is what it means (MeetsReference): a node*)
(* that is returned has all the selector asks, and if the tree was not cut *)
(* it is the one that is meant, nothing is returned only where nothing is  *)
(* meant and that is allowed, and it is an error in all other cases        *)
(* (resolve_selector, selectors.py:73-130).                                *)
THEOREM ResolutionMeetsReference == \A s, sel : IsTree(s) => MeetsReference(s, sel)
<1> SUFFICES ASSUME NEW s, NEW sel, IsTree(s) PROVE MeetsReference(s, sel)
  OBVIOUS
<1>1. PICK t : t = Serialize(s)
  OBVIOUS
<1>2. PICK c : c = Candidates(t, sel)
  OBVIOUS
<1>3. PICK D : D = DOMAIN t /\ D \subseteq Positions
  <2>1. DOMAIN t \subseteq Seq(Numbers)
    BY <1>1, WhatIsSent DEF IsSent
  <2>2. \A n \in DOMAIN t : n \in Positions
    BY <2>1, PrefixIs
  <2>3. QED
    BY <2>2
<1>4. /\ c \in Seq(D) /\ Ascending(c) /\ Len(c) \in Nat
      /\ Elements(c) = {n \in D : IsCandidate(t, n, sel)}
  BY <1>1, <1>2, <1>3, WhatIsSent, CandidatesAre
<1>5. \A i \in 1..Len(c) : c[i] \in Meant(s, sel)
  <2>1. \A i \in 1..Len(c) : c[i] \in Elements(c)
    BY DEF Elements
  <2>2. QED
    BY <1>1, <1>3, <1>4, <2>1, CandidatesAreMeant
<1>6. ~Truncated(s) => Meant(s, sel) = Elements(c)
  BY <1>1, <1>3, <1>4, CandidatesAreMeant
<1>7. /\ c = <<>> <=> Len(c) = 0
      /\ c = <<>> <=> Elements(c) = {}
  <2>1. c = <<>> <=> Len(c) = 0
    BY <1>4
  <2>2. Len(c) = 0 <=> Elements(c) = {}
    BY <1>4 DEF Elements
  <2>3. QED
    BY <2>1, <2>2
<1> DEFINE r == Resolve(t, sel)
<1>8. SUFFICES ASSUME ScreenSpaceOps \cap DOMAIN sel = {}
               PROVE  /\ r.is = "node" => r.node \in Meant(s, sel)
                      /\ ~Truncated(s) =>
                            /\ r.is = "node" => IsMeant(s, sel, r.node)
                            /\ r.is = "none" => Meant(s, sel) = {} /\ Optional(sel)
                            /\ r.is = "error" => /\ Meant(s, sel) = {} => ~Optional(sel)
                                                 /\ \A n \in DOMAIN s : ~IsMeant(s, sel, n)
  BY <1>1 DEF MeetsReference
<1>9. r = ResolveAmong(c, sel)
  BY <1>2, <1>8 DEF Resolve
<1>10. /\ NoNode.is = "none" /\ Error.is = "error"
       /\ \A n : Node(n).is = "node" /\ Node(n).node = n
  BY DEF NoNode, Error, Node
<1> HIDE DEF r
<1>11. CASE c = <<>>
  <2>1. CASE Optional(sel)
    <3>1. r = NoNode
      BY <1>7, <1>9, <1>11, <2>1 DEF ResolveAmong
    <3>2. QED
      BY <1>6, <1>7, <1>10, <1>11, <2>1, <3>1
  <2>2. CASE ~Optional(sel)
    <3>1. r = Error
      BY <1>7, <1>9, <1>11, <2>2 DEF ResolveAmong
    <3>2. \A n : ~Truncated(s) => ~IsMeant(s, sel, n)
      BY <1>6, <1>7, <1>11 DEF IsMeant
    <3>3. QED
      BY <1>10, <2>2, <3>1, <3>2
  <2>3. QED
    BY <2>1, <2>2
<1>12. CASE c # <<>> /\ "index" \in DOMAIN sel
  <2>1. CASE sel.index \in 0..Len(c) - 1
    <3>1. PICK k \in 1..Len(c) : k = sel.index + 1 /\ k - 1 = sel.index
      BY <1>4, <2>1
    <3>2. r = Node(c[k])
      BY <1>9, <1>12, <2>1, <3>1 DEF ResolveAmong
    <3>3. c[k] \in Meant(s, sel)
      BY <1>5
    <3>4. Cardinality({m \in Elements(c) : Before(m, c[k])}) = sel.index
      BY <1>3, <1>4, <3>1, Places
    <3>5. ~Truncated(s) => IsMeant(s, sel, c[k])
      BY <1>6, <1>12, <3>3, <3>4 DEF IsMeant
    <3>6. QED
      BY <1>10, <3>2, <3>3, <3>5
  <2>2. CASE sel.index \notin 0..Len(c) - 1
    <3>1. r = Error
      BY <1>9, <1>12, <2>2 DEF ResolveAmong
    <3>2. ASSUME ~Truncated(s), NEW n, IsMeant(s, sel, n) PROVE FALSE
      <4>1. /\ n \in Elements(c)
            /\ Cardinality({m \in Elements(c) : Before(m, n)}) = sel.index
        BY <1>6, <1>12, <3>2 DEF IsMeant
      <4>2. PICK k \in 1..Len(c) : n = c[k]
        BY <4>1 DEF Elements
      <4>3. Cardinality({m \in Elements(c) : Before(m, c[k])}) = k - 1
        BY <1>3, <1>4, Places
      <4>4. k - 1 \in 0..Len(c) - 1
        BY <1>4
      <4>5. QED
        BY <2>2, <4>1, <4>2, <4>3, <4>4
    <3>3. ~Truncated(s) => Meant(s, sel) # {}
      BY <1>6, <1>7, <1>12
    <3>4. QED
      BY <1>10, <3>1, <3>2, <3>3
  <2>3. QED
    BY <2>1, <2>2
<1>13. CASE c # <<>> /\ "index" \notin DOMAIN sel
  <2>1. CASE Len(c) = 1
    <3>1. r = Node(c[1])
      BY <1>9, <1>13, <2>1 DEF ResolveAmong
    <3>2. c[1] \in Meant(s, sel) /\ Elements(c) = {c[1]}
      <4>1. 1..Len(c) = {1}
        BY <2>1
      <4>2. QED
        BY <1>5, <4>1 DEF Elements
    <3>3. ~Truncated(s) => IsMeant(s, sel, c[1])
      BY <1>6, <1>13, <3>2 DEF IsMeant
    <3>4. QED
      BY <1>10, <3>1, <3>2, <3>3
  <2>2. CASE Len(c) # 1
    <3>1. r = Error
      BY <1>9, <1>13, <2>2 DEF ResolveAmong
    <3>2. ASSUME ~Truncated(s), NEW n, IsMeant(s, sel, n) PROVE FALSE
      <4>1. Elements(c) = {n}
        BY <1>6, <1>13, <3>2 DEF IsMeant
      <4>2. 1 \in 1..Len(c) /\ 2 \in 1..Len(c)
        <5>1. PICK l \in Nat : l = Len(c) /\ l # 0 /\ l # 1
          BY <1>4, <1>7, <1>13, <2>2
        <5>2. 1 \in 1..l /\ 2 \in 1..l
          BY <5>1
        <5>3. QED
          BY <5>1, <5>2
      <4>3. c[1] = n /\ c[2] = n
        BY <4>1, <4>2 DEF Elements
      <4>4. c[1] = c[2] => 1 = 2
        BY <1>3, <1>4, <4>2, Places
      <4>5. QED
        BY <4>3, <4>4
    <3>3. ~Truncated(s) => Meant(s, sel) # {}
      BY <1>6, <1>7, <1>13
    <3>4. QED
      BY <1>10, <3>1, <3>2, <3>3
  <2>3. QED
    BY <2>1, <2>2
<1>14. QED
  BY <1>11, <1>12, <1>13
=============================================================================
