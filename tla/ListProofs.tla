----------------------------- MODULE ListProofs -----------------------------
(***************************************************************************)
(* Facts about lists as sequences without repetition (common/list.h) that  *)
(* the proofs share, and the least element of a set of numbers, which      *)
(* stands in for induction: the first place where a claim fails.           *)
(***************************************************************************)
EXTENDS Integers, SequencesExt, SequenceTheorems, FiniteSetTheorems,
        WellFoundedInduction, TLAPS

\* No element stands twice on the list.
Once(s) == \A i, j \in 1..Len(s) : s[i] = s[j] => i = j

\* What is left of a list when an entry is taken off.
LEMMA RemoveAtList ==
  ASSUME NEW S, NEW s \in Seq(S), NEW i \in DOMAIN s
  PROVE  /\ RemoveAt(s, i) \in Seq(S)
         /\ Len(RemoveAt(s, i)) = Len(s) - 1
         /\ \A k \in 1..(Len(s) - 1) : RemoveAt(s, i)[k] = IF k < i THEN s[k] ELSE s[k + 1]
<1>1. Len(s) \in Nat /\ i \in 1..Len(s) /\ DOMAIN s = 1..Len(s)
  BY LenProperties
<1>2. /\ SubSeq(s, 1, i - 1) \in Seq(S)
      /\ Len(SubSeq(s, 1, i - 1)) = i - 1
      /\ \A k \in 1..(i - 1) : SubSeq(s, 1, i - 1)[k] = s[k]
  BY <1>1
<1>3. /\ SubSeq(s, i + 1, Len(s)) \in Seq(S)
      /\ Len(SubSeq(s, i + 1, Len(s))) = Len(s) - i
      /\ \A k \in 1..(Len(s) - i) : SubSeq(s, i + 1, Len(s))[k] = s[i + k]
  BY <1>1
<1> DEFINE a == SubSeq(s, 1, i - 1)
           b == SubSeq(s, i + 1, Len(s))
<1> HIDE DEF a, b
<1>4. /\ a \o b \in Seq(S)
      /\ Len(a \o b) = Len(a) + Len(b)
      /\ \A k \in 1..(Len(a) + Len(b)) :
           (a \o b)[k] = IF k <= Len(a) THEN a[k] ELSE b[k - Len(a)]
  BY <1>2, <1>3, ConcatProperties DEF a, b
<1>5. Len(a) = i - 1 /\ Len(b) = Len(s) - i
  BY <1>2, <1>3 DEF a, b
<1>6. ASSUME NEW k \in 1..(Len(s) - 1)
      PROVE  (a \o b)[k] = IF k < i THEN s[k] ELSE s[k + 1]
  <2>1. CASE k < i
    BY <1>1, <1>2, <1>4, <1>5, <2>1 DEF a
  <2>2. CASE ~(k < i)
    <3>1. k - (i - 1) \in 1..(Len(s) - i) /\ i + (k - (i - 1)) = k + 1
      BY <1>1, <2>2
    <3>2. b[k - (i - 1)] = s[k + 1]
      BY <1>3, <3>1 DEF b
    <3> QED BY <1>1, <1>4, <1>5, <2>2, <3>2
  <2> QED BY <2>1, <2>2
<1> DEFINE c == a \o b
<1>7. RemoveAt(s, i) = c
  BY DEF RemoveAt, a, b
<1>8. c \in Seq(S) /\ Len(c) = Len(s) - 1
  BY <1>1, <1>4, <1>5
<1>9. \A k \in 1..(Len(s) - 1) : c[k] = IF k < i THEN s[k] ELSE s[k + 1]
  BY <1>6
<1> HIDE DEF c
<1> QED BY <1>7, <1>8, <1>9

\* Taking an element off a list leaves all the others, and it is gone.
LEMMA RemoveAtOnce ==
  ASSUME NEW S, NEW s \in Seq(S), Once(s), NEW i \in 1..Len(s)
  PROVE  /\ RemoveAt(s, i) \in Seq(S)
         /\ Once(RemoveAt(s, i))
         /\ \A x : Contains(RemoveAt(s, i), x) <=> Contains(s, x) /\ x # s[i]
<1> DEFINE r == RemoveAt(s, i)
<1>1. /\ Len(s) \in Nat /\ DOMAIN s = 1..Len(s)
      /\ r \in Seq(S) /\ Len(r) = Len(s) - 1
      /\ \A k \in 1..(Len(s) - 1) : r[k] = IF k < i THEN s[k] ELSE s[k + 1]
  BY RemoveAtList, LenProperties
<1> HIDE DEF r
<1>2. Once(r)
  <2> SUFFICES ASSUME NEW k \in 1..Len(r), NEW l \in 1..Len(r), r[k] = r[l] PROVE k = l
    BY DEF Once
  <2> DEFINE old(n) == IF n < i THEN n ELSE n + 1
  <2>1. old(k) \in 1..Len(s) /\ old(l) \in 1..Len(s) /\ s[old(k)] = s[old(l)]
    BY <1>1
  <2>2. old(k) = old(l)
    BY <2>1 DEF Once
  <2> QED BY <1>1, <2>2
<1>3. ASSUME NEW x, Contains(r, x) PROVE Contains(s, x) /\ x # s[i]
  <2>1. PICK k \in 1..Len(r) : r[k] = x
    BY <1>3 DEF Contains
  <2> DEFINE old == IF k < i THEN k ELSE k + 1
  <2>2. old \in 1..Len(s) /\ s[old] = x /\ old # i
    BY <1>1, <2>1
  <2> HIDE DEF old
  <2> QED BY <2>2 DEF Contains, Once
<1>4. ASSUME NEW x, Contains(s, x), x # s[i] PROVE Contains(r, x)
  <2>1. PICK k \in 1..Len(s) : s[k] = x
    BY <1>4 DEF Contains
  <2>2. k # i
    BY <1>4, <2>1
  <2>3. CASE k < i
    <3>1. k \in 1..Len(r) /\ r[k] = x
      BY <1>1, <2>1, <2>3
    <3> QED BY <3>1 DEF Contains
  <2>4. CASE k > i
    <3>1. k - 1 \in 1..(Len(s) - 1) /\ ~(k - 1 < i) /\ (k - 1) + 1 = k
      BY <1>1, <2>4
    <3>2. k - 1 \in 1..Len(r) /\ r[k - 1] = x
      BY <1>1, <2>1, <3>1
    <3> QED BY <3>2 DEF Contains
  <2> QED BY <1>1, <2>2, <2>3, <2>4
<1> QED BY <1>1, <1>2, <1>3, <1>4 DEF r

\* An element that is put at the end stands there once.
LEMMA AppendOnce ==
  ASSUME NEW S, NEW s \in Seq(S), Once(s), NEW e \in S, ~Contains(s, e)
  PROVE  /\ Append(s, e) \in Seq(S)
         /\ Once(Append(s, e))
         /\ \A x : Contains(Append(s, e), x) <=> Contains(s, x) \/ x = e
<1> DEFINE a == Append(s, e)
<1>1. /\ Len(s) \in Nat
      /\ a \in Seq(S) /\ Len(a) = Len(s) + 1
      /\ \A k \in 1..Len(s) : a[k] = s[k]
      /\ a[Len(s) + 1] = e
  BY LenProperties, AppendProperties
<1> HIDE DEF a
<1>2. \A k \in 1..Len(s) : s[k] # e
  BY DEF Contains
<1>3. Once(a)
  BY <1>1, <1>2 DEF Once
<1>4. ASSUME NEW x, Contains(s, x) \/ x = e PROVE Contains(a, x)
  <2>1. CASE x = e
    BY <1>1, <2>1 DEF Contains
  <2>2. CASE Contains(s, x)
    BY <1>1, <2>2 DEF Contains
  <2> QED BY <1>4, <2>1, <2>2
<1>5. ASSUME NEW x, Contains(a, x) PROVE Contains(s, x) \/ x = e
  BY <1>1, <1>5 DEF Contains
<1> QED BY <1>1, <1>3, <1>4, <1>5 DEF a

\* A set of natural numbers has a least one.
LEMMA LeastElement ==
  ASSUME NEW T, T \subseteq Nat, T # {}
  PROVE  \E x \in T : \A y \in T : x <= y
<1> DEFINE R == OpToRel(<, Nat)
<1>1. IsWellFoundedOn(R, Nat)
  BY NatLessThanWellFounded
<1> HIDE DEF R
<1>2. PICK x \in T : \A y \in T : ~ (<<y, x>> \in R)
  BY <1>1, WFMin
<1>3. ASSUME NEW y \in T PROVE x <= y
  <2>1. y < x => <<y, x>> \in R
    BY DEF R, OpToRel
  <2> QED BY <1>2, <2>1
<1> QED BY <1>3

\* Induction along the places of a function.
LEMMA StaysIn ==
  ASSUME NEW S, NEW n \in Nat, NEW u, u[0] \in S,
         \A k \in 1..n : u[k - 1] \in S => u[k] \in S
  PROVE  \A k \in 0..n : u[k] \in S
<1> DEFINE B == {k \in 0..n : u[k] \notin S}
<1> SUFFICES ASSUME B # {} PROVE FALSE
  OBVIOUS
<1>1. B \subseteq Nat
  OBVIOUS
<1>2. PICK m \in B : \A y \in B : m <= y
  <2> HIDE DEF B
  <2> QED BY <1>1, LeastElement
<1>3. m \in 1..n /\ m - 1 \in 0..n /\ ~ (m <= m - 1)
  OBVIOUS
<1>4. u[m - 1] \in S
  BY <1>2, <1>3
<1> QED BY <1>3, <1>4

\* The same along places with a claim of their own.
LEMMA StaysAlong ==
  ASSUME NEW n \in Nat, NEW S, NEW u, u[0] \in S[0],
         \A k \in 1..n : u[k - 1] \in S[k - 1] => u[k] \in S[k]
  PROVE  \A k \in 0..n : u[k] \in S[k]
<1> DEFINE B == {k \in 0..n : u[k] \notin S[k]}
<1> SUFFICES ASSUME B # {} PROVE FALSE
  OBVIOUS
<1>1. B \subseteq Nat
  OBVIOUS
<1>2. PICK m \in B : \A y \in B : m <= y
  <2> HIDE DEF B
  <2> QED BY <1>1, LeastElement
<1>3. m \in 1..n /\ m - 1 \in 0..n /\ ~ (m <= m - 1)
  OBVIOUS
<1>4. u[m - 1] \in S[m - 1]
  BY <1>2, <1>3
<1> QED BY <1>3, <1>4

\* The states g of something that starts in s0 and takes the step F[k] at k.
Walks(S, s0, n, F) ==
  {g \in [0..n -> S] : g[0] = s0 /\ \A k \in 1..n : g[k] = F[k][g[k - 1]]}

\* What starts in S and goes through functions on S, one for each place, never
\* leaves S.
LEMMA WalkExists ==
  ASSUME NEW S, NEW s0 \in S, NEW n \in Nat, NEW F \in [1..n -> [S -> S]]
  PROVE  Walks(S, s0, n, F) # {}
<1> DEFINE Good(m) == \E g \in [0..m -> S] : g[0] = s0 /\ \A k \in 1..m : g[k] = F[k][g[k - 1]]
           Bad == {m \in 0..n : ~ Good(m)}
<1> SUFFICES Bad = {}
  <2>1. Good(n) => Walks(S, s0, n, F) # {}
    BY DEF Walks
  <2>2. n \in 0..n
    OBVIOUS
  <2> QED BY <2>1, <2>2
<1> SUFFICES ASSUME Bad # {} PROVE FALSE
  OBVIOUS
<1>1. PICK m \in Bad : \A y \in Bad : m <= y
  <2>1. Bad \subseteq Nat
    OBVIOUS
  <2> HIDE DEF Bad
  <2> QED BY <2>1, LeastElement
<1>2. m \in 0..n /\ ~ Good(m)
  OBVIOUS
<1>3. m # 0
  <2> DEFINE z == [k \in {0} |-> s0]
  <2>1. z \in [0..0 -> S] /\ z[0] = s0 /\ \A k \in 1..0 : FALSE
    OBVIOUS
  <2>2. Good(0)
    <3> HIDE DEF z
    <3> QED BY <2>1
  <2> QED BY <1>2, <2>2
<1>4. Good(m - 1)
  <2>1. m - 1 \in 0..n /\ ~ (m <= m - 1)
    BY <1>2, <1>3
  <2>2. m - 1 \notin Bad
    <3> HIDE DEF Bad
    <3> QED BY <1>1, <2>1
  <2> QED BY <2>1, <2>2
<1>5. PICK g \in [0..(m - 1) -> S] : g[0] = s0 /\ \A k \in 1..(m - 1) : g[k] = F[k][g[k - 1]]
  BY <1>4
<1> DEFINE h == [k \in 0..m |-> IF k < m THEN g[k] ELSE F[m][g[m - 1]]]
<1>6. m \in 1..n /\ m - 1 \in 0..(m - 1) /\ F[m] \in [S -> S]
  BY <1>2, <1>3
<1>7. F[m][g[m - 1]] \in S
  BY <1>5, <1>6
<1>8. h \in [0..m -> S] /\ h[0] = s0
  BY <1>5, <1>6, <1>7
<1>9. ASSUME NEW k \in 1..m PROVE h[k] = F[k][h[k - 1]]
  <2>1. k - 1 \in 0..m /\ k \in 0..m /\ h[k - 1] = g[k - 1]
    BY <1>6
  <2>2. CASE k < m
    BY <1>5, <1>6, <2>1, <2>2
  <2>3. CASE k = m
    BY <1>6, <2>1, <2>3
  <2> QED BY <1>6, <2>2, <2>3
<1>10. Good(m)
  <2> HIDE DEF h
  <2> QED BY <1>8, <1>9
<1> QED BY <1>2, <1>10
\* A function that starts in s0 and takes the step F[k] at k, from S[k - 1]
\* into S[k].
IsWalk(g, S, s0, n, F) ==
  /\ g = [k \in 0..n |-> g[k]]
  /\ g[0] = s0
  /\ \A k \in 1..n : g[k] = F[k][g[k - 1]]
  /\ \A k \in 0..n : g[k] \in S[k]

\* A recursive definition along places has a solution.
LEMMA WalkThrough ==
  ASSUME NEW n \in Nat, NEW S, NEW s0 \in S[0], NEW F,
         \A k \in 1..n : F[k] \in [S[k - 1] -> S[k]]
  PROVE  \E g : IsWalk(g, S, s0, n, F)
<1> DEFINE Is(g, m) == /\ g = [k \in 0..m |-> g[k]]
                       /\ g[0] = s0
                       /\ \A k \in 1..m : g[k] = F[k][g[k - 1]]
                       /\ \A k \in 0..m : g[k] \in S[k]
           Bad == {m \in 0..n : ~ \E g : Is(g, m)}
<1> SUFFICES Bad = {}
  <2>1. n \in 0..n
    OBVIOUS
  <2>2. n \notin Bad
    OBVIOUS
  <2>3. \E g : Is(g, n)
    <3> HIDE DEF Is
    <3> QED BY <2>1, <2>2
  <2> QED BY <2>3 DEF IsWalk
<1> SUFFICES ASSUME Bad # {} PROVE FALSE
  OBVIOUS
<1>1. PICK m \in Bad : \A y \in Bad : m <= y
  <2>1. Bad \subseteq Nat
    OBVIOUS
  <2> HIDE DEF Bad
  <2> QED BY <2>1, LeastElement
<1>2. m \in 0..n /\ ~ \E g : Is(g, m)
  <2> HIDE DEF Is
  <2> QED OBVIOUS
<1>3. m # 0
  <2> DEFINE z == [k \in 0..0 |-> s0]
  <2>1. /\ z[0] = s0
        /\ z = [k \in 0..0 |-> z[k]]
        /\ \A k \in 0..0 : k = 0
        /\ \A k \in 1..0 : FALSE
    OBVIOUS
  <2>2. Is(z, 0)
    <3> HIDE DEF z
    <3> QED BY <2>1
  <2> HIDE DEF Is
  <2> QED BY <1>2, <2>2
<1>4. \E g : Is(g, m - 1)
  <2>1. m - 1 \in 0..n /\ ~ (m <= m - 1)
    BY <1>2, <1>3
  <2>2. m - 1 \notin Bad
    <3> HIDE DEF Bad
    <3> QED BY <1>1, <2>1
  <2> HIDE DEF Is
  <2> QED BY <2>1, <2>2
<1>5. PICK g : Is(g, m - 1)
  <2> HIDE DEF Is
  <2> QED BY <1>4
<1> DEFINE v == F[m][g[m - 1]]
           h == [k \in 0..m |-> IF k < m THEN g[k] ELSE v]
<1>6. m \in 1..n /\ m - 1 \in 0..(m - 1) /\ F[m] \in [S[m - 1] -> S[m]]
  BY <1>2, <1>3
<1>7. v \in S[m]
  <2>1. g[m - 1] \in S[m - 1]
    BY <1>5, <1>6
  <2> QED BY <1>6, <2>1
<1>8. /\ h = [k \in 0..m |-> h[k]]
      /\ \A k \in 0..(m - 1) : h[k] = g[k]
      /\ h[m] = v
  <2> HIDE DEF v
  <2> QED BY <1>6
<1> HIDE DEF h
<1>9. h[0] = s0
  BY <1>5, <1>6, <1>8
<1>10. ASSUME NEW k \in 1..m PROVE h[k] = F[k][h[k - 1]]
  <2>1. k - 1 \in 0..(m - 1)
    BY <1>6
  <2>2. h[k - 1] = g[k - 1]
    BY <1>8, <2>1
  <2>3. CASE k < m
    <3>1. k \in 1..(m - 1) /\ k \in 0..(m - 1)
      BY <1>6, <2>3
    <3>2. h[k] = g[k]
      BY <1>8, <3>1
    <3> QED BY <1>5, <2>2, <3>1, <3>2
  <2>4. CASE k = m
    BY <1>8, <2>2, <2>4
  <2> QED BY <1>6, <2>3, <2>4
<1>11. ASSUME NEW k \in 0..m PROVE h[k] \in S[k]
  <2>1. CASE k < m
    <3>1. k \in 0..(m - 1)
      BY <1>6, <2>1
    <3>2. h[k] = g[k]
      BY <1>8, <3>1
    <3> QED BY <1>5, <3>1, <3>2
  <2>2. CASE k = m
    BY <1>7, <1>8, <2>2
  <2> QED BY <1>6, <2>1, <2>2
<1>12. Is(h, m)
  BY <1>8, <1>9, <1>10, <1>11
<1> HIDE DEF Is
<1> QED BY <1>2, <1>12

\* A finite set as a list of its elements.
LEMMA ListOfSet ==
  ASSUME NEW S, IsFiniteSet(S), NEW q, q = SetToSeq(S)
  PROVE  /\ q \in Seq(S) /\ Len(q) \in Nat
         /\ \A i, j \in 1..Len(q) : q[i] = q[j] => i = j
         /\ \A x \in S : \E i \in 1..Len(q) : q[i] = x
<1> DEFINE n == Cardinality(S)
<1>1. n \in Nat /\ ExistsBijection(1..n, S)
  BY FS_CardinalityType
<1> HIDE DEF n
<1>2. \E f \in [1..n -> S] : IsInjective(f)
  BY <1>1 DEF ExistsBijection, Bijection, Injection
<1>3. q \in [1..n -> S] /\ IsInjective(q)
  BY <1>2 DEF SetToSeq, n
<1>4. q \in Seq(S) /\ Len(q) = n
  BY <1>1, <1>3, SeqDef, LenProperties
<1>5. q \in Injection(1..n, S)
  BY <1>3 DEF Injection
<1>6. IsFiniteSet(1..n) /\ Cardinality(1..n) = n
  BY <1>1, FS_Interval
<1>7. q \in Surjection(1..n, S)
  BY <1>5, <1>6, FS_Injection DEF n
<1> QED BY <1>1, <1>3, <1>4, <1>7 DEF IsInjective, Surjection
=============================================================================
