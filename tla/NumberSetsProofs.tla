-------------------------- MODULE NumberSetsProofs --------------------------
(***************************************************************************)
(* What every proof about numbers, lists and sums keeps needing.           *)
(*                                                                         *)
(* HasLeast is how these proofs reason by induction: the least number for  *)
(* which a claim fails.                                                    *)
(***************************************************************************)
EXTENDS NumberSets, SequencesExt, FiniteSetTheorems, SequenceTheorems,
        WellFoundedInduction, TLAPS

\* The larger of two numbers.
LEMMA MaxOfTwo ==
  ASSUME NEW a \in Int, NEW b \in Int
  PROVE  Max({a, b}) = IF a >= b THEN a ELSE b
  BY DEF Max

\* The smaller of two numbers.
LEMMA MinOfTwo ==
  ASSUME NEW a \in Int, NEW b \in Int
  PROVE  Min({a, b}) = IF a <= b THEN a ELSE b
  BY DEF Min

\* The smallest of three.
LEMMA MinOfThree ==
  ASSUME NEW a \in Int, NEW b \in Int, NEW c \in Int
  PROVE  /\ Min({a, b, c}) \in {a, b, c}
         /\ Min({a, b, c}) <= a /\ Min({a, b, c}) <= b
         /\ Min({a, b, c}) <= c
<1>1. \E m \in {a, b, c} : \A y \in {a, b, c} : m <= y
  <2>1. CASE a <= b /\ a <= c
    BY <2>1
  <2>2. CASE b <= a /\ b <= c
    BY <2>2
  <2>3. CASE c <= a /\ c <= b
    BY <2>3
  <2>. QED
    BY <2>1, <2>2, <2>3
<1>. QED
  BY <1>1 DEF Min

\* The numbers up to n are n.
LEMMA UpTo ==
  ASSUME NEW n \in Nat
  PROVE  IsFiniteSet(1..n) /\ Cardinality(1..n) = n
  BY FS_Interval

\* Part of them is finite.
LEMMA PartOfRun ==
  ASSUME NEW n \in Nat, NEW S \in SUBSET (1..n)
  PROVE  IsFiniteSet(S) /\ S \in SUBSET Nat /\ Cardinality(S) \in Nat
<1>1. IsFiniteSet(S)
  BY UpTo, FS_Subset
<1>. QED
  BY <1>1, FS_CardinalityType

\* A set of numbers that is not empty has a least one.
LEMMA HasLeast ==
  ASSUME NEW T \in SUBSET Nat, T # {}
  PROVE  \E m \in T : \A y \in T : m <= y
<1> DEFINE R == {ab \in Nat \X Nat : ab[1] < ab[2]}
<1>1. OpToRel(<, Nat) = R 
  BY Zenon DEF OpToRel
<1>2. IsWellFoundedOn(R, Nat)
  BY Zenon, <1>1, NatLessThanWellFounded
<1>3. PICK m \in T : \A y \in T : ~ (<<y, m>> \in R)
  <2> HIDE DEF R
  <2>. QED
    BY <1>2, WFMin
<1>4. ASSUME NEW y \in T PROVE m <= y
  <2>1. <<y, m>> \in Nat \X Nat /\ y \in Nat /\ m \in Nat
    OBVIOUS
  <2>2. ~ (<<y, m>>[1] < <<y, m>>[2])
    BY <1>3, <2>1
  <2>. QED
    BY <2>1, <2>2
<1>. QED
  BY <1>4

\* One that is bounded besides has a last one.
LEMMA HasLast ==
  ASSUME NEW n \in Nat, NEW T \in SUBSET (1..n), T # {}
  PROVE  \E m \in T : \A y \in T : m >= y
<1> DEFINE W == {n - y : y \in T}
<1>1. W \in SUBSET Nat /\ W # {}
  <2>1. PICK t \in T : TRUE
    OBVIOUS
  <2>2. n - t \in W
    BY <2>1
  <2>3. \A y \in T : n - y \in Nat
    OBVIOUS
  <2>. QED
    BY <2>2, <2>3
<1>2. PICK w \in W : \A v \in W : w <= v
  BY <1>1, HasLeast
<1>3. n - w \in T
  BY <1>2
<1>4. \A y \in T : n - w >= y
  BY <1>2
<1>. QED
  BY <1>3, <1>4

\* The first of a sequence and the rest make up the sequence.
LEMMA HeadAndTail ==
  ASSUME NEW S, NEW s \in Seq(S), s # << >>
  PROVE  Range(s) = {Head(s)} \union Range(Tail(s))
<1>1. /\ Len(s) \in Nat \ {0} /\ DOMAIN s = 1..Len(s)
      /\ Head(s) = s[1]
      /\ DOMAIN Tail(s) = 1..(Len(s) - 1)
      /\ \A i \in 1..(Len(s) - 1) : Tail(s)[i] = s[i + 1]
  BY HeadTailProperties, EmptySeq
<1>2. ASSUME NEW i \in DOMAIN s PROVE s[i] \in {Head(s)} \union Range(Tail(s))
  <2>1. CASE i = 1
    BY <1>1, <2>1
  <2>2. CASE i # 1
    <3>1. i - 1 \in DOMAIN Tail(s) /\ Tail(s)[i - 1] = s[i]
      BY <1>1, <2>2
    <3>. QED
      BY <3>1 DEF Range
  <2>. QED
    BY <2>1, <2>2
<1>3. ASSUME NEW i \in DOMAIN Tail(s) PROVE Tail(s)[i] \in Range(s)
  <2>1. i + 1 \in DOMAIN s /\ Tail(s)[i] = s[i + 1]
    BY <1>1
  <2>. QED
    BY <2>1 DEF Range
<1>4. Head(s) \in Range(s)
  BY <1>1 DEF Range
<1>. QED
  BY <1>2, <1>3, <1>4 DEF Range

\* Ascending lists a finite set of numbers, each once.
LEMMA AscendingLists ==
  ASSUME NEW S \in SUBSET Nat, IsFiniteSet(S)
  PROVE  /\ Cardinality(S) \in Nat
         /\ Ascending(S) \in [1..Cardinality(S) -> S]
         /\ Range(Ascending(S)) = S
         /\ \A k \in 1..Cardinality(S) :
              Cardinality({y \in S : y <= Ascending(S)[k]}) = k
<1> DEFINE n == Cardinality(S)
           UpToIt(x) == {y \in S : y <= x}
           rank == [x \in S |-> Cardinality(UpToIt(x))]
<1>1. n \in Nat
  BY FS_CardinalityType
<1>2. \A x \in S : IsFiniteSet(UpToIt(x)) /\ rank[x] \in 1..n
  <2> TAKE x \in S
  <2>1. IsFiniteSet(UpToIt(x)) /\ Cardinality(UpToIt(x)) <= n
    <3>1. UpToIt(x) \in SUBSET S
      OBVIOUS
    <3>. QED
      BY <3>1, FS_Subset
  <2>2. UpToIt(x) # {}
    OBVIOUS
  <2>3. Cardinality(UpToIt(x)) \in Nat \ {0}
    BY <2>1, <2>2, FS_CardinalityType, FS_EmptySet
  <2>. QED
    BY <1>1, <2>1, <2>3
<1>3. rank \in [S -> 1..n]
  BY <1>2
<1>4. ASSUME NEW x \in S, NEW y \in S, x < y PROVE rank[x] < rank[y]
  <2>1. UpToIt(x) \in SUBSET UpToIt(y) /\ y \in UpToIt(y) /\ y \notin UpToIt(x)
    <3>1. x \in Nat /\ y \in Nat
      OBVIOUS
    <3>2. ASSUME NEW z \in UpToIt(x) PROVE z \in UpToIt(y)
      <4>1. z \in Nat /\ z <= x
        OBVIOUS
      <4>. QED
        BY <1>4, <3>1, <4>1
    <3>3. y \in UpToIt(y) /\ y \notin UpToIt(x)
      BY <1>4, <3>1
    <3>. QED
      BY <3>2, <3>3
  <2>2. /\ Cardinality(UpToIt(x)) <= Cardinality(UpToIt(y))
        /\ Cardinality(UpToIt(x)) # Cardinality(UpToIt(y))
    BY <1>2, <2>1, FS_Subset
  <2>3. rank[x] \in Nat /\ rank[y] \in Nat
    BY <1>2
  <2>. QED
    BY <2>2, <2>3
<1>5. rank \in Injection(S, 1..n)
  <2>1. ASSUME NEW x \in S, NEW y \in S, rank[x] = rank[y] PROVE x = y
    <3>1. rank[x] \in Nat
      BY <1>2
    <3>. QED
      BY <1>4, <2>1, <3>1
  <2>. QED
    BY <1>3, <2>1 DEF Injection, IsInjective
<1>6. rank \in Surjection(S, 1..n)
  <2>1. IsFiniteSet(1..n) /\ Cardinality(1..n) = n
    BY <1>1, FS_Interval
  <2> HIDE DEF rank
  <2>. QED
    BY <1>5, <2>1, FS_Injection
<1>7. \A k \in 1..n : \E x \in S : Cardinality(UpToIt(x)) = k
  BY <1>6 DEF Surjection
<1>8. \A k \in 1..n : /\ Ascending(S)[k] \in S
                      /\ Cardinality(UpToIt(Ascending(S)[k])) = k
  BY <1>7 DEF Ascending
<1>9. DOMAIN Ascending(S) = 1..n
  BY DEF Ascending
<1>10. Ascending(S) \in [1..n -> S]
  BY <1>8, <1>9 DEF Ascending
<1>11. ASSUME NEW x \in S PROVE \E k \in 1..n : Ascending(S)[k] = x
  <2>1. rank[x] \in 1..n
    BY <1>2
  <2>2. /\ Ascending(S)[rank[x]] \in S
        /\ rank[Ascending(S)[rank[x]]] = rank[x]
    BY <1>8, <2>1
  <2>. QED
    BY <1>5, <2>1, <2>2 DEF Injection, IsInjective
<1>12. Range(Ascending(S)) = S
  BY <1>8, <1>9, <1>11 DEF Range
<1>. QED
  BY <1>1, <1>8, <1>10, <1>12

\* A number of a set stands where its rank is.
LEMMA RankOf ==
  ASSUME NEW S \in SUBSET Nat, IsFiniteSet(S), NEW x \in S,
         NEW k, Cardinality({y \in S : y <= x}) = k
  PROVE  k \in 1..Cardinality(S) /\ Ascending(S)[k] = x
<1>1. /\ Ascending(S) \in [1..Cardinality(S) -> S] /\ Range(Ascending(S)) = S
      /\ \A j \in 1..Cardinality(S) :
           Cardinality({y \in S : y <= Ascending(S)[j]}) = j
  BY AscendingLists
<1>2. PICK j \in 1..Cardinality(S) : Ascending(S)[j] = x
  BY <1>1 DEF Range
<1>. QED
  BY <1>1, <1>2

\* Up to a number that a set has come to, it is what was before and that one.
LEMMA RankGrows ==
  ASSUME NEW S \in SUBSET Nat, IsFiniteSet(S), NEW x \in Nat
  PROVE  LET below == {y \in S : y < x} IN
         /\ Cardinality(below) \in Nat
         /\ Cardinality({y \in S : y < x + 1})
              = Cardinality(below) + (IF x \in S THEN 1 ELSE 0)
         /\ x \in S => Ascending(S)[Cardinality(below) + 1] = x
<1> DEFINE below == {y \in S : y < x}
<1>1. IsFiniteSet(below) /\ Cardinality(below) \in Nat
  BY FS_Subset, FS_CardinalityType
<1>0. /\ \A y \in Nat : y < x + 1 <=> y < x \/ y = x
      /\ \A y \in Nat : y <= x <=> y < x \/ y = x
      /\ ~ (x < x)
  OBVIOUS
<1>2. CASE x \in S
  <2>1. {y \in S : y < x + 1} = below \cup {x} /\ x \notin below
    BY <1>0, <1>2
  <2>2. {y \in S : y <= x} = below \cup {x}
    BY <1>0, <1>2
  <2>3. Cardinality(below \cup {x}) = Cardinality(below) + 1
    BY <1>1, <2>1, FS_AddElement
  <2>. QED
    BY <1>1, <1>2, <2>1, <2>2, <2>3, RankOf
<1>3. CASE x \notin S
  <2>1. {y \in S : y < x + 1} = below
    BY <1>0, <1>3
  <2>. QED
    BY <1>1, <1>3, <2>1
<1>. QED
  BY <1>2, <1>3

\* The empty set has an empty list.
LEMMA AscendingEmpty == Ascending({}) = <<>>
<1>1. Cardinality({}) = 0
  BY FS_EmptySet
<1>. QED
  BY <1>1 DEF Ascending

\* A list is a sequence.
LEMMA AscendingSeq ==
  ASSUME NEW S \in SUBSET Nat, IsFiniteSet(S)
  PROVE  /\ Ascending(S) \in Seq(S)
         /\ Len(Ascending(S)) = Cardinality(S)
         /\ DOMAIN Ascending(S) = 1..Cardinality(S)
<1>1. Cardinality(S) \in Nat /\ Ascending(S) \in [1..Cardinality(S) -> S]
  BY AscendingLists
<1>. QED
  BY <1>1

\* A number behind all others comes last.
LEMMA AscendingAppends ==
  ASSUME NEW S \in SUBSET Nat, IsFiniteSet(S), NEW m \in Nat,
         \A y \in S : y < m
  PROVE  /\ Cardinality(S \union {m}) = Cardinality(S) + 1
         /\ Ascending(S \union {m}) = Append(Ascending(S), m)
<1> DEFINE T == S \union {m}
           C == Cardinality(S)
<1>1. /\ m \notin S /\ C \in Nat
      /\ T \in SUBSET Nat /\ IsFiniteSet(T) /\ Cardinality(T) = C + 1
  <2>1. m \notin S
    OBVIOUS
  <2>2. IsFiniteSet(T) /\ Cardinality(T) = C + 1
    BY <2>1, FS_AddElement
  <2>. QED
    BY <2>1, <2>2, FS_CardinalityType
<1>2. /\ Ascending(S) \in [1..C -> S]
      /\ \A k \in 1..C : Cardinality({y \in S : y <= Ascending(S)[k]}) = k
      /\ Ascending(T) \in [1..(C + 1) -> T]
  BY <1>1, AscendingLists
<1>3. ASSUME NEW k \in 1..C PROVE Ascending(T)[k] = Ascending(S)[k]
  <2> DEFINE x == Ascending(S)[k]
  <2>1. x \in S /\ Cardinality({y \in S : y <= x}) = k
    BY <1>2
  <2>2. {y \in T : y <= x} = {y \in S : y <= x}
    <3> HIDE DEF x
    <3>1. x \in Nat /\ x < m
      BY <2>1
    <3>2. ~ (m <= x)
      BY <3>1
    <3>. QED
      BY <3>2
  <2>3. x \in T
    BY <2>1
  <2> HIDE DEF x, T
  <2>. QED
    BY <1>1, <2>1, <2>2, <2>3, RankOf DEF x
<1>4. Ascending(T)[C + 1] = m
  <2>1. {y \in T : y <= m} = T
    <3>1. \A y \in T : y \in Nat /\ (y < m \/ y = m)
      OBVIOUS
    <3>2. \A y \in Nat : y < m \/ y = m => y <= m
      OBVIOUS
    <3> HIDE DEF T
    <3>. QED
      BY <3>1, <3>2
  <2>2. m \in T
    OBVIOUS
  <2> HIDE DEF T, C
  <2>. QED
    BY <1>1, <2>1, <2>2, RankOf
<1>5. Ascending(T) = Append(Ascending(S), m)
  <2> HIDE DEF T, C
  <2>. QED
    BY <1>1, <1>2, <1>3, <1>4
<1>. QED
  BY <1>1, <1>5

-----------------------------------------------------------------------------
(* Sums.                                                                   *)

\* What the recursion of a sum over S asks of the partial sums g.
Unrolls(f, g, s) ==
  g[s] = IF s = {} THEN 0
         ELSE f[CHOOSE x \in s : TRUE] + g[s \ {CHOOSE x \in s : TRUE}]

Partial(f, g, S) ==
  g = [s \in SUBSET S |->
         IF s = {} THEN 0
         ELSE f[CHOOSE x \in s : TRUE] + g[s \ {CHOOSE x \in s : TRUE}]]

\* A sum is the last of its partial sums.
LEMMA SumIsPartial ==
  ASSUME NEW f, NEW S
  PROVE  SumOver(f, S) = (CHOOSE g : Partial(f, g, S))[S]
  BY DEF SumOver, MapThenSumSet, MapThenFoldSet, Partial

\* One element less.
LEMMA OneLess ==
  ASSUME NEW s, IsFiniteSet(s), NEW x \in s
  PROVE  /\ IsFiniteSet(s \ {x})
         /\ Cardinality(s) \in Nat /\ Cardinality(s \ {x}) \in Nat
         /\ Cardinality(s \ {x}) < Cardinality(s)
<1>1. IsFiniteSet(s \ {x}) /\ Cardinality(s \ {x}) = Cardinality(s) - 1
  BY FS_RemoveElement
<1>2. Cardinality(s) \in Nat /\ Cardinality(s \ {x}) \in Nat
  BY <1>1, FS_CardinalityType
<1>. QED
  BY <1>1, <1>2

\* There are partial sums: those of the sets of at most n elements extend to
\* those of at most n + 1.
LEMMA PartialExists ==
  ASSUME NEW f, NEW S, IsFiniteSet(S)
  PROVE  \E g : Partial(f, g, S)
<1> DEFINE pick(s) == CHOOSE x \in s : TRUE
           Good(n) == \E g : \A s \in SUBSET S :
                        Cardinality(s) <= n => Unrolls(f, g, s)
           Bad == {n \in Nat : ~Good(n)}
<1>1. \A s \in SUBSET S : IsFiniteSet(s) /\ Cardinality(s) \in Nat
  BY FS_Subset, FS_CardinalityType
<1>2. Good(0)
  <2> DEFINE g == [s \in SUBSET S |-> 0]
  <2>1. ASSUME NEW s \in SUBSET S, Cardinality(s) <= 0 PROVE Unrolls(f, g, s)
    <3>1. s = {}
      BY <1>1, <2>1, FS_EmptySet
    <3>. QED
      BY <3>1 DEF Unrolls
  <2> HIDE DEF g
  <2>. QED
    BY <2>1
<1>3. ASSUME NEW n \in Nat, Good(n) PROVE Good(n + 1)
  <2>1. PICK g : \A s \in SUBSET S : Cardinality(s) <= n => Unrolls(f, g, s)
    BY <1>3
  <2> DEFINE h == [s \in SUBSET S |->
                     IF s = {} THEN 0 ELSE f[pick(s)] + g[s \ {pick(s)}]]
  <2>2. ASSUME NEW s \in SUBSET S, Cardinality(s) <= n PROVE h[s] = g[s]
    BY <2>1, <2>2 DEF Unrolls
  <2>3. ASSUME NEW s \in SUBSET S, Cardinality(s) <= n + 1
        PROVE  Unrolls(f, h, s)
    <3>1. CASE s = {}
      BY <3>1 DEF Unrolls
    <3>2. CASE s # {}
      <4> DEFINE u == s \ {pick(s)}
      <4>1. pick(s) \in s
        BY <3>2
      <4>2. u \in SUBSET S /\ Cardinality(u) <= n
        <5>1. Cardinality(u) < Cardinality(s) /\ Cardinality(u) \in Nat
          BY <1>1, <4>1, OneLess
        <5>. QED
          BY <1>1, <2>3, <5>1
      <4>3. h[u] = g[u]
        BY <2>2, <4>2
      <4>4. h[s] = f[pick(s)] + g[u]
        BY <3>2
      <4>. QED
        BY <3>2, <4>3, <4>4 DEF Unrolls
    <3>. QED
      BY <3>1, <3>2
  <2> HIDE DEF h
  <2>. QED
    BY <2>3
<1>4. Bad = {}
  <2> SUFFICES ASSUME Bad # {} PROVE FALSE
    OBVIOUS
  <2>1. PICK m \in Bad : \A y \in Bad : m <= y
    <3>1. Bad \in SUBSET Nat
      OBVIOUS
    <3> HIDE DEF Bad
    <3>. QED
      BY <3>1, HasLeast
  <2>2. m # 0
    BY <1>2
  <2>3. m - 1 \in Nat /\ ~(m - 1 \in Bad)
    BY <2>1, <2>2
  <2>4. Good(m - 1) => Good((m - 1) + 1)
    <3> HIDE DEF Good
    <3>. QED
      BY <1>3, <2>3
  <2>5. Good(m - 1)
    BY <2>3
  <2>6. (m - 1) + 1 = m
    OBVIOUS
  <2>7. Good(m)
    <3> HIDE DEF Good
    <3>. QED
      BY <2>4, <2>5, <2>6
  <2>. QED
    BY <2>7
<1>5. Good(Cardinality(S))
  BY <1>1, <1>4
<1>6. PICK g : \A s \in SUBSET S : Cardinality(s) <= Cardinality(S)
                                     => Unrolls(f, g, s)
  BY <1>5
<1>7. \A s \in SUBSET S : Unrolls(f, g, s)
  BY <1>6, FS_Subset
<1> DEFINE h == [s \in SUBSET S |-> g[s]]
<1>8. Partial(f, h, S)
  <2>1. \A s \in SUBSET S : s # {} => s \ {pick(s)} \in SUBSET S
    OBVIOUS
  <2>2. \A s \in SUBSET S :
          h[s] = IF s = {} THEN 0 ELSE f[pick(s)] + h[s \ {pick(s)}]
    BY <1>7, <2>1 DEF Unrolls
  <2>3. h = [s \in SUBSET S |-> h[s]]
    OBVIOUS
  <2> HIDE DEF h
  <2>. QED
    BY <2>2, <2>3 DEF Partial
<1>. QED
  BY <1>8

\* And only one: they agree on the sets that both are defined on.
LEMMA PartialUnique ==
  ASSUME NEW f, NEW S, IsFiniteSet(S), NEW T \in SUBSET S, NEW g, NEW h,
         Partial(f, g, S), Partial(f, h, T)
  PROVE  g[T] = h[T]
<1> DEFINE pick(s) == CHOOSE x \in s : TRUE
           Bad == {Cardinality(s) : s \in {t \in SUBSET T : g[t] # h[t]}}
<1>1. \A s \in SUBSET T : IsFiniteSet(s) /\ Cardinality(s) \in Nat
  BY FS_Subset, FS_CardinalityType
<1>2. \A s \in SUBSET T : Unrolls(f, g, s) /\ Unrolls(f, h, s)
  BY DEF Partial, Unrolls
<1>3. Bad = {}
  <2> SUFFICES ASSUME Bad # {} PROVE FALSE
    OBVIOUS
  <2>1. PICK m \in Bad : \A y \in Bad : m <= y
    <3>1. Bad \in SUBSET Nat
      BY <1>1
    <3> HIDE DEF Bad
    <3>. QED
      BY <3>1, HasLeast
  <2>2. PICK s \in SUBSET T : Cardinality(s) = m /\ g[s] # h[s]
    OBVIOUS
  <2>3. s # {}
    BY <1>2, <2>2 DEF Unrolls
  <2> DEFINE u == s \ {pick(s)}
  <2>4. pick(s) \in s
    BY <2>3
  <2>5. u \in SUBSET T /\ Cardinality(u) < m /\ Cardinality(u) \in Nat /\ m \in Nat
    BY <1>1, <2>2, <2>4, OneLess
  <2>6. g[u] = h[u]
    <3>1. g[u] # h[u] => Cardinality(u) \in Bad
      BY <2>5
    <3>. QED
      BY <2>1, <2>5, <3>1
  <2>. QED
    BY <1>2, <2>2, <2>3, <2>6 DEF Unrolls
<1>. QED
  BY <1>3

\* The sum of nothing.
LEMMA SumEmpty ==
  ASSUME NEW f
  PROVE  SumOver(f, {}) = 0
<1>1. \E g : Partial(f, g, {})
  BY PartialExists, FS_EmptySet
<1>2. Partial(f, CHOOSE g : Partial(f, g, {}), {})
  BY <1>1
<1>3. \A g : Partial(f, g, {}) => g[{}] = 0
  BY DEF Partial
<1>. QED
  BY <1>2, <1>3, SumIsPartial

\* The sum takes out the element it chooses.
LEMMA SumPicks ==
  ASSUME NEW f, NEW S, IsFiniteSet(S), S # {}
  PROVE  SumOver(f, S) = f[CHOOSE x \in S : TRUE]
                           + SumOver(f, S \ {CHOOSE x \in S : TRUE})
<1> DEFINE T == S \ {CHOOSE x \in S : TRUE}
           g == CHOOSE g : Partial(f, g, S)
           h == CHOOSE h : Partial(f, h, T)
<1>1. IsFiniteSet(T) /\ T \in SUBSET S
  BY FS_Subset
<1>2. Partial(f, g, S) /\ Partial(f, h, T)
  BY <1>1, PartialExists
<1>3. SumOver(f, S) = g[S] /\ SumOver(f, T) = h[T]
  BY SumIsPartial
<1>4. g[S] = f[CHOOSE x \in S : TRUE] + g[T]
  <2> HIDE DEF g
  <2>. QED
    BY <1>2 DEF Partial
<1>5. g[T] = h[T]
  <2> HIDE DEF g, h
  <2>. QED
    BY <1>1, <1>2, PartialUnique
<1>. QED
  BY <1>3, <1>4, <1>5

\* The sum of integers is one.
LEMMA SumIsInt ==
  ASSUME NEW f, NEW S, IsFiniteSet(S), \A x \in S : f[x] \in Int
  PROVE  SumOver(f, S) \in Int
<1> DEFINE Bad == {Cardinality(s) : s \in {t \in SUBSET S : SumOver(f, t) \notin Int}}
<1>1. \A s \in SUBSET S : IsFiniteSet(s) /\ Cardinality(s) \in Nat
  BY FS_Subset, FS_CardinalityType
<1>2. Bad = {}
  <2> SUFFICES ASSUME Bad # {} PROVE FALSE
    OBVIOUS
  <2>1. PICK m \in Bad : \A y \in Bad : m <= y
    <3>1. Bad \in SUBSET Nat
      BY <1>1
    <3> HIDE DEF Bad
    <3>. QED
      BY <3>1, HasLeast
  <2>2. PICK s \in SUBSET S : Cardinality(s) = m /\ SumOver(f, s) \notin Int
    OBVIOUS
  <2>3. s # {}
    BY <2>2, SumEmpty
  <2> DEFINE x == CHOOSE x \in s : TRUE
             u == s \ {x}
  <2>4. x \in s
    BY <2>3
  <2>5. u \in SUBSET S /\ Cardinality(u) < m /\ Cardinality(u) \in Nat /\ m \in Nat
    BY <1>1, <2>2, <2>4, OneLess
  <2>6. SumOver(f, u) \in Int
    <3>1. SumOver(f, u) \notin Int => Cardinality(u) \in Bad
      BY <2>5
    <3>. QED
      BY <2>1, <2>5, <3>1
  <2>7. SumOver(f, s) = f[x] + SumOver(f, u)
    BY <1>1, <2>3, SumPicks
  <2>. QED
    BY <2>2, <2>4, <2>6, <2>7
<1>. QED
  BY <1>2

\* It may as well take out any other.
LEMMA SumTakesOut ==
  ASSUME NEW f, NEW S, IsFiniteSet(S), \A x \in S : f[x] \in Int, NEW e \in S
  PROVE  SumOver(f, S) = f[e] + SumOver(f, S \ {e})
<1> DEFINE Fails(s) == \E y \in s : SumOver(f, s) # f[y] + SumOver(f, s \ {y})
           Bad == {Cardinality(s) : s \in {t \in SUBSET S : Fails(t)}}
<1>1. \A s \in SUBSET S : IsFiniteSet(s) /\ Cardinality(s) \in Nat
  BY FS_Subset, FS_CardinalityType
<1>2. \A s \in SUBSET S : SumOver(f, s) \in Int
  BY <1>1, SumIsInt
<1>3. Bad = {}
  <2> SUFFICES ASSUME Bad # {} PROVE FALSE
    OBVIOUS
  <2>1. PICK m \in Bad : \A y \in Bad : m <= y
    <3>1. Bad \in SUBSET Nat
      BY <1>1
    <3> HIDE DEF Bad
    <3>. QED
      BY <3>1, HasLeast
  <2>2. PICK s \in SUBSET S : Cardinality(s) = m /\ Fails(s)
    OBVIOUS
  <2>3. PICK y \in s : SumOver(f, s) # f[y] + SumOver(f, s \ {y})
    BY <2>2
  <2> DEFINE x == CHOOSE x \in s : TRUE
  <2>4. /\ x \in s /\ x # y
        /\ SumOver(f, s) = f[x] + SumOver(f, s \ {x})
    BY <1>1, <2>3, SumPicks
  <2> HIDE DEF x
  <2>5. ASSUME NEW z \in s, NEW w \in s \ {z}
        PROVE  SumOver(f, s \ {z}) = f[w] + SumOver(f, (s \ {z}) \ {w})
    <3>1. /\ s \ {z} \in SUBSET S /\ Cardinality(s \ {z}) < m
          /\ Cardinality(s \ {z}) \in Nat /\ m \in Nat
      BY <1>1, <2>2, OneLess
    <3>2. Fails(s \ {z}) => Cardinality(s \ {z}) \in Bad
      BY <3>1
    <3>3. ~Fails(s \ {z})
      BY <2>1, <3>1, <3>2
    <3>. QED
      BY <3>3
  <2>6. /\ SumOver(f, s \ {x}) = f[y] + SumOver(f, (s \ {x}) \ {y})
        /\ SumOver(f, s \ {y}) = f[x] + SumOver(f, (s \ {y}) \ {x})
    BY <2>3, <2>4, <2>5
  <2> DEFINE v == (s \ {x}) \ {y}
  <2>7. v = (s \ {y}) \ {x}
    OBVIOUS
  <2>8. f[x] \in Int /\ f[y] \in Int /\ SumOver(f, v) \in Int
    BY <1>2, <2>3, <2>4
  <2>9. /\ SumOver(f, s \ {x}) = f[y] + SumOver(f, v)
        /\ SumOver(f, s \ {y}) = f[x] + SumOver(f, v)
    BY <2>6, <2>7
  <2> HIDE DEF v
  <2>. QED
    BY <2>3, <2>4, <2>8, <2>9
<1>4. ~Fails(S)
  BY <1>3
<1>. QED
  BY <1>4

\* The sum with an element put in.
LEMMA SumPutsIn ==
  ASSUME NEW f, NEW S, IsFiniteSet(S), NEW e, e \notin S,
         \A x \in S \union {e} : f[x] \in Int
  PROVE  SumOver(f, S \union {e}) = f[e] + SumOver(f, S)
<1>1. IsFiniteSet(S \union {e}) /\ (S \union {e}) \ {e} = S
  BY FS_AddElement
<1>. QED
  BY <1>1, SumTakesOut

\* A sum over fewer elements, of smaller terms, is no larger.
LEMMA SumGrows ==
  ASSUME NEW f, NEW g, NEW S, IsFiniteSet(S), NEW T \in SUBSET S,
         \A x \in S : f[x] \in Int /\ g[x] \in Nat,
         \A x \in T : f[x] <= g[x]
  PROVE  SumOver(f, T) <= SumOver(g, S)
<1> DEFINE Fails(s) == ~(SumOver(f, T \cap s) <= SumOver(g, s))
           Bad == {Cardinality(s) : s \in {t \in SUBSET S : Fails(t)}}
<1>1. \A s \in SUBSET S : IsFiniteSet(s) /\ Cardinality(s) \in Nat
  BY FS_Subset, FS_CardinalityType
<1>2. \A s \in SUBSET S : SumOver(f, s) \in Int /\ SumOver(g, s) \in Int
  BY <1>1, SumIsInt
<1>3. Bad = {}
  <2> SUFFICES ASSUME Bad # {} PROVE FALSE
    OBVIOUS
  <2>1. PICK m \in Bad : \A y \in Bad : m <= y
    <3>1. Bad \in SUBSET Nat
      BY <1>1
    <3> HIDE DEF Bad
    <3>. QED
      BY <3>1, HasLeast
  <2>2. PICK s \in SUBSET S : Cardinality(s) = m /\ Fails(s)
    OBVIOUS
  <2>3. s # {}
    <3>1. T \cap {} = {}
      OBVIOUS
    <3>. QED
      BY <2>2, <3>1, SumEmpty
  <2>4. PICK x \in s : TRUE
    BY <2>3
  <2> DEFINE u == s \ {x}
  <2>5. u \in SUBSET S /\ Cardinality(u) < m /\ Cardinality(u) \in Nat /\ m \in Nat
    BY <1>1, <2>2, OneLess
  <2>6. SumOver(f, T \cap u) <= SumOver(g, u)
    <3>1. Fails(u) => Cardinality(u) \in Bad
      BY <2>5
    <3>2. ~Fails(u)
      <4> HIDE DEF Fails, Bad, u
      <4>. QED
        BY <2>1, <2>5, <3>1
    <3>. QED
      BY <3>2
  <2>7. SumOver(g, s) = g[x] + SumOver(g, u)
    BY <1>1, SumTakesOut
  <2>8. /\ SumOver(g, u) \in Int /\ SumOver(f, T \cap u) \in Int
        /\ f[x] \in Int /\ g[x] \in Nat
    BY <1>2, <2>5
  <2>9. CASE x \in T
    <3>1. /\ x \in T \cap s /\ (T \cap s) \ {x} = T \cap u
          /\ IsFiniteSet(T \cap s) /\ \A y \in T \cap s : f[y] \in Int
      BY <1>1, <2>9
    <3>2. SumOver(f, T \cap s) = f[x] + SumOver(f, T \cap u)
      BY <3>1, SumTakesOut
    <3>. QED
      BY <2>2, <2>6, <2>7, <2>8, <2>9, <3>2
  <2>10. CASE x \notin T
    <3>1. T \cap s = T \cap u
      BY <2>10
    <3>2. SumOver(f, T \cap s) = SumOver(f, T \cap u)
      BY <3>1
    <3> HIDE DEF u
    <3>. QED
      BY <2>2, <2>6, <2>7, <2>8, <3>2
  <2>. QED
    BY <2>9, <2>10
<1>4. ~Fails(S) /\ T \cap S = T
  BY <1>3
<1>. QED
  BY <1>4

\* A sum looks at the terms only.
LEMMA SumSame ==
  ASSUME NEW f, NEW g, NEW S, IsFiniteSet(S),
         \A x \in S : f[x] \in Nat /\ g[x] = f[x]
  PROVE  SumOver(f, S) = SumOver(g, S)
<1>1. SumOver(f, S) <= SumOver(g, S) /\ SumOver(g, S) <= SumOver(f, S)
  BY SumGrows
<1>2. SumOver(f, S) \in Int /\ SumOver(g, S) \in Int
  BY SumIsInt
<1>. QED
  BY <1>1, <1>2

\* A sum of numbers is one.
LEMMA SumIsNat ==
  ASSUME NEW f, NEW S, IsFiniteSet(S), \A x \in S : f[x] \in Nat
  PROVE  SumOver(f, S) \in Nat
<1>1. SumOver(f, {}) <= SumOver(f, S)
  BY SumGrows
<1>. QED
  BY <1>1, SumEmpty, SumIsInt

\* The elements of S that f sends into T, counted by where it sends them.
LEMMA SumOfFibres ==
  ASSUME NEW S, IsFiniteSet(S), NEW f, NEW T, IsFiniteSet(T)
  PROVE  LET size == [t \in T |-> Cardinality({s \in S : f[s] = t})]
         IN  SumOver(size, T) = Cardinality({s \in S : f[s] \in T})
<1> DEFINE size == [t \in T |-> Cardinality({s \in S : f[s] = t})]
           Into(u) == {s \in S : f[s] \in u}
           Fails(u) == SumOver(size, u) # Cardinality(Into(u))
           Bad == {Cardinality(u) : u \in {v \in SUBSET T : Fails(v)}}
<1>1. \A u \in SUBSET T : IsFiniteSet(u) /\ Cardinality(u) \in Nat
  BY FS_Subset, FS_CardinalityType
<1>2. ASSUME NEW u PROVE IsFiniteSet(Into(u)) /\ Cardinality(Into(u)) \in Nat
  <2>1. Into(u) \in SUBSET S
    OBVIOUS
  <2> HIDE DEF Into
  <2>. QED
    BY <2>1, FS_Subset, FS_CardinalityType
<1>3. \A t \in T : size[t] = Cardinality(Into({t}))
  <2>1. \A t \in T : Into({t}) = {s \in S : f[s] = t}
    OBVIOUS
  <2>. QED
    BY <2>1
<1>4. Bad = {}
  <2> SUFFICES ASSUME Bad # {} PROVE FALSE
    OBVIOUS
  <2>1. PICK m \in Bad : \A y \in Bad : m <= y
    <3>1. Bad \in SUBSET Nat
      BY <1>1
    <3> HIDE DEF Bad
    <3>. QED
      BY <3>1, HasLeast
  <2>2. PICK u \in SUBSET T : Cardinality(u) = m /\ Fails(u)
    OBVIOUS
  <2>3. u # {}
    <3>1. Into({}) = {}
      OBVIOUS
    <3>2. Cardinality(Into({})) = 0
      BY <3>1, FS_EmptySet
    <3>. QED
      BY <2>2, <3>2, SumEmpty
  <2>4. PICK t \in u : TRUE
    BY <2>3
  <2> DEFINE v == u \ {t}
  <2>5. v \in SUBSET T /\ Cardinality(v) < m /\ Cardinality(v) \in Nat /\ m \in Nat
    BY <1>1, <2>2, OneLess
  <2>6. ~Fails(v)
    <3>1. Fails(v) => Cardinality(v) \in Bad
      BY <2>5
    <3> HIDE DEF Fails, Bad, v
    <3>. QED
      BY <2>1, <2>5, <3>1
  <2>7. SumOver(size, u) = size[t] + SumOver(size, v)
    <3> HIDE DEF size, Into
    <3>1. ASSUME NEW x \in u PROVE size[x] \in Int
      <4>1. size[x] = Cardinality(Into({x}))
        BY <1>3
      <4>2. Cardinality(Into({x})) \in Nat
        BY <1>2
      <4>. QED
        BY <4>1, <4>2
    <3>. QED
      BY <1>1, <3>1, SumTakesOut
  <2>8. Cardinality(Into(u)) = Cardinality(Into({t})) + Cardinality(Into(v))
    <3>1. /\ Into(u) = Into({t}) \union Into(v)
          /\ Into({t}) \cap Into(v) = {}
      OBVIOUS
    <3>2. Cardinality({}) = 0
      BY FS_EmptySet
    <3> HIDE DEF Into
    <3>3. /\ Cardinality(Into({t})) \in Nat /\ Cardinality(Into(v)) \in Nat
          /\ IsFiniteSet(Into({t})) /\ IsFiniteSet(Into(v))
      BY <1>2
    <3>4. Cardinality(Into({t}) \union Into(v)) =
            Cardinality(Into({t})) + Cardinality(Into(v))
              - Cardinality(Into({t}) \cap Into(v))
      BY <3>3, FS_Union
    <3>5. /\ Cardinality(Into(u)) = Cardinality(Into({t}) \union Into(v))
          /\ Cardinality(Into({t}) \cap Into(v)) = 0
      BY <3>1, <3>2
    <3> HIDE DEF v
    <3>. QED
      BY <3>3, <3>4, <3>5
  <2>9. SumOver(size, v) = Cardinality(Into(v)) /\ size[t] = Cardinality(Into({t}))
    BY <1>3, <2>6
  <2> HIDE DEF size, Into, v
  <2>. QED
    BY <2>2, <2>7, <2>8, <2>9
<1>5. ~Fails(T)
  BY <1>4
<1>. QED
  BY <1>5

\* The image of a finite set.
LEMMA ImageIsFinite ==
  ASSUME NEW S, IsFiniteSet(S), NEW f
  PROVE  /\ IsFiniteSet({f[s] : s \in S})
         /\ (\A s, t \in S : f[s] = f[t] => s = t) =>
              Cardinality({f[s] : s \in S}) = Cardinality(S)
<1> DEFINE T == {f[s] : s \in S}
           g == [s \in S |-> f[s]]
<1>1. g \in Surjection(S, T)
  BY DEF Surjection
<1>2. /\ IsFiniteSet(T)
      /\ Cardinality(T) = Cardinality(S) <=> g \in Injection(S, T)
  <2> HIDE DEF g, T
  <2>. QED
    BY <1>1, FS_Surjection
<1>3. (\A s, t \in S : f[s] = f[t] => s = t) => g \in Injection(S, T)
  BY DEF Injection, IsInjective
<1>. QED
  BY <1>2, <1>3
=============================================================================
