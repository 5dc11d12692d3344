------------------------------ MODULE DataLemmas ------------------------------
(***************************************************************************)
(* Facts about data that the proofs of several components use: sums over   *)
(* a set, and what is built up step by step along a sequence.              *)
(***************************************************************************)
EXTENDS Sums, Integers, Sequences, FiniteSetTheorems, WellFoundedInduction, TLAPS

-----------------------------------------------------------------------------
(* Sums. *)

LEMMA UnitsMembers ==
  ASSUME NEW S, NEW f \in [S -> Nat], NEW u
  PROVE  u \in UnitsOf(S, f) <=> \E i \in S : \E n \in 1..f[i] : u = <<i, n>>
BY DEF UnitsOf

LEMMA SumOfZeros ==
  ASSUME NEW S, NEW f \in [S -> Nat], \A i \in S : f[i] = 0
  PROVE  IsFiniteSet(UnitsOf(S, f)) /\ SumOver(S, f) = 0
<1>1. \A i \in S : 1..f[i] = {}
  OBVIOUS
<1>2. UnitsOf(S, f) = {}
  BY <1>1, UnitsMembers
<1> QED
  BY <1>2, FS_EmptySet DEF SumOver

\* One member is counted k units higher.
LEMMA SumRaised ==
  ASSUME NEW S, NEW f \in [S -> Nat], NEW g \in [S -> Nat], NEW i \in S, NEW k \in Nat,
         g[i] = f[i] + k, \A j \in S \ {i} : g[j] = f[j],
         IsFiniteSet(UnitsOf(S, f))
  PROVE  IsFiniteSet(UnitsOf(S, g)) /\ SumOver(S, g) = SumOver(S, f) + k
<1> DEFINE more == (f[i] + 1)..(f[i] + k)
           new == {i} \X more
<1>1. f[i] \in Nat
  OBVIOUS
<1>2. IsFiniteSet(more) /\ Cardinality(more) = k
  <2>1. \A a, n \in Nat : IsFiniteSet((a + 1)..(a + n)) /\ Cardinality((a + 1)..(a + n)) = n
    <3> SUFFICES ASSUME NEW a \in Nat, NEW n \in Nat
                 PROVE  IsFiniteSet((a + 1)..(a + n)) /\ Cardinality((a + 1)..(a + n)) = n
      OBVIOUS
    <3>1. a + 1 \in Int /\ a + n \in Int
      OBVIOUS
    <3>2. /\ IsFiniteSet((a + 1)..(a + n))
          /\ Cardinality((a + 1)..(a + n)) = IF a + 1 > a + n THEN 0 ELSE (a + n) - (a + 1) + 1
      BY <3>1, FS_Interval, Zenon
    <3> QED
      BY <3>2
  <2> QED
    BY <1>1, <2>1, Zenon
<1>3. IsFiniteSet(new) /\ Cardinality(new) = k
  <2>1. IsFiniteSet({i}) /\ Cardinality({i}) = 1
    BY FS_Singleton
  <2> HIDE DEF more
  <2>2. IsFiniteSet({i} \X more) /\ Cardinality({i} \X more) = 1 * k
    BY <1>2, <2>1, FS_Product
  <2> QED
    BY <2>2
<1>4. 1..g[i] = (1..f[i]) \cup more /\ (1..f[i]) \cap more = {}
  BY <1>1
<1>5. UnitsOf(S, g) = UnitsOf(S, f) \cup new
  <2>1. \A u : u \in new <=> \E n \in more : u = <<i, n>>
    OBVIOUS
  <2> HIDE DEF new, more
  <2> QED
    BY <1>4, <2>1, UnitsMembers
<1>6. UnitsOf(S, f) \cap new = {}
  <2>1. \A u : u \in new <=> \E n \in more : u = <<i, n>>
    OBVIOUS
  <2> HIDE DEF new, more
  <2> QED
    BY <1>4, <2>1, UnitsMembers
<1> HIDE DEF new
<1>7. Cardinality(UnitsOf(S, f)) \in Nat
  BY FS_CardinalityType
<1>8. /\ IsFiniteSet(UnitsOf(S, f) \cup new)
      /\ Cardinality(UnitsOf(S, f) \cup new) = Cardinality(UnitsOf(S, f)) + Cardinality(new)
  <2>1. /\ IsFiniteSet(UnitsOf(S, f) \cup new)
        /\ Cardinality(UnitsOf(S, f) \cup new)
             = Cardinality(UnitsOf(S, f)) + Cardinality(new) - Cardinality(UnitsOf(S, f) \cap new)
    BY <1>3, FS_Union, Zenon
  <2>2. Cardinality(UnitsOf(S, f) \cap new) = 0
    BY <1>6, FS_EmptySet, Zenon
  <2> QED
    BY <1>3, <1>7, <2>1, <2>2
<1> QED
  BY <1>3, <1>5, <1>8 DEF SumOver

\* One member is counted k units lower.
LEMMA SumLowered ==
  ASSUME NEW S, NEW f \in [S -> Nat], NEW g \in [S -> Nat], NEW i \in S, NEW k \in Nat,
         f[i] = g[i] + k, \A j \in S \ {i} : g[j] = f[j],
         IsFiniteSet(UnitsOf(S, f))
  PROVE  /\ IsFiniteSet(UnitsOf(S, g))
         /\ SumOver(S, g) \in Nat /\ SumOver(S, g) = SumOver(S, f) - k
<1>1. \A j \in S : \A n \in 1..g[j] : n \in 1..f[j]
  BY SMT
<1>2. UnitsOf(S, g) \subseteq UnitsOf(S, f)
  BY <1>1, UnitsMembers
<1>3. IsFiniteSet(UnitsOf(S, g)) /\ SumOver(S, g) \in Nat
  BY <1>2, FS_Subset, FS_CardinalityType DEF SumOver
<1>4. SumOver(S, f) = SumOver(S, g) + k
  BY <1>3, SumRaised
<1> QED
  BY <1>3, <1>4

\* A sum over a finite set is a number, and no member exceeds it.
LEMMA SumBounds ==
  ASSUME NEW S, IsFiniteSet(S), NEW f \in [S -> Nat]
  PROVE  SumOver(S, f) \in Nat /\ \A i \in S : f[i] <= SumOver(S, f)
<1>1. \A i \in S : IsFiniteSet({i} \X (1..f[i])) /\ Cardinality({i} \X (1..f[i])) = f[i]
  <2> SUFFICES ASSUME NEW i \in S
               PROVE  IsFiniteSet({i} \X (1..f[i])) /\ Cardinality({i} \X (1..f[i])) = f[i]
    OBVIOUS
  <2>1. IsFiniteSet({i}) /\ Cardinality({i}) = 1
    BY FS_Singleton
  <2>2. f[i] \in Nat
    OBVIOUS
  <2>3. IsFiniteSet(1..f[i]) /\ Cardinality(1..f[i]) = f[i]
    BY <2>2, FS_Interval
  <2>4. /\ IsFiniteSet({i} \X (1..f[i]))
        /\ Cardinality({i} \X (1..f[i])) = Cardinality({i}) * Cardinality(1..f[i])
    BY <2>1, <2>3, FS_Product
  <2> QED
    BY <2>1, <2>2, <2>3, <2>4
<1>2. IsFiniteSet(UnitsOf(S, f))
  <2> DEFINE part == [i \in S |-> {i} \X (1..f[i])]
             parts == {part[i] : i \in S}
  <2>1. IsFiniteSet(parts)
    <3>1. part \in Surjection(S, parts)
      BY DEF Surjection
    <3> HIDE DEF part, parts
    <3> QED
      BY <3>1, FS_Surjection, Zenon
  <2>2. \A p \in parts : IsFiniteSet(p)
    BY <1>1
  <2>3. UnitsOf(S, f) = UNION parts
    BY DEF UnitsOf
  <2> HIDE DEF parts
  <2> QED
    BY <2>1, <2>2, <2>3, FS_UNION
<1>3. \A i \in S : {i} \X (1..f[i]) \subseteq UnitsOf(S, f)
  BY DEF UnitsOf
<1>4. SumOver(S, f) \in Nat
  BY <1>2, FS_CardinalityType, Zenon DEF SumOver
<1>5. \A i \in S : Cardinality({i} \X (1..f[i])) <= Cardinality(UnitsOf(S, f))
  BY <1>2, <1>3, FS_Subset, Zenon
<1> QED
  BY <1>1, <1>4, <1>5 DEF SumOver

-----------------------------------------------------------------------------
(* Induction and recursion. *)

\* A set that holds 0, and with a number the next one, holds them all: a least
\* number that it does not hold would have a predecessor that it holds.
LEMMA NatSetInduction ==
  ASSUME NEW S, 0 \in S, \A n \in Nat : n \in S => n + 1 \in S
  PROVE  Nat \subseteq S
<1> DEFINE R == OpToRel(<, Nat)
           T == Nat \ S
<1> SUFFICES ASSUME T # {} PROVE FALSE
  OBVIOUS
<1>1. IsWellFoundedOn(R, Nat)
  BY NatLessThanWellFounded, Zenon
<1>2. \A x, y \in Nat : y < x => <<y, x>> \in R
  BY DEF OpToRel
<1>3. T \subseteq Nat
  OBVIOUS
<1> HIDE DEF R, T
<1>4. PICK x \in T : \A y \in T : ~ (<<y, x>> \in R)
  BY <1>1, <1>3, WFMin
<1> USE DEF T
<1>5. x # 0 /\ x \in Nat
  OBVIOUS
<1>6. x - 1 \in Nat /\ x - 1 < x /\ (x - 1) + 1 = x
  BY <1>5
<1>7. x - 1 \in S
  BY <1>2, <1>4, <1>5, <1>6
<1> QED
  BY <1>5, <1>6, <1>7

\* A set of numbers that is not empty has a least member.
LEMMA LeastMember ==
  ASSUME NEW S \in SUBSET Nat, S # {}
  PROVE  \E i \in S : \A j \in S : i <= j
<1> DEFINE R == OpToRel(<, Nat)
<1>1. IsWellFoundedOn(R, Nat)
  BY NatLessThanWellFounded, Zenon
<1>2. \A x, y \in Nat : y < x => <<y, x>> \in R
  BY DEF OpToRel
<1> HIDE DEF R
<1>3. PICK i \in S : \A j \in S : ~ (<<j, i>> \in R)
  BY <1>1, WFMin
<1>4. \A j \in S : ~(j < i)
  BY <1>2, <1>3
<1> QED
  BY <1>3, <1>4

\* Of finitely many members, one has the greatest value.
LEMMA GreatestValue ==
  ASSUME NEW S, IsFiniteSet(S), S # {}, NEW f \in [S -> Nat]
  PROVE  \E i \in S : \A j \in S : f[j] <= f[i]
<1> DEFINE B == SumOver(S, f)
           gaps == {B - f[i] : i \in S}
<1>1. B \in Nat /\ \A i \in S : f[i] \in Nat /\ f[i] <= B
  BY SumBounds
<1> HIDE DEF B
<1>2. gaps \in SUBSET Nat /\ gaps # {}
  BY <1>1
<1>3. PICK g \in gaps : \A h \in gaps : g <= h
  BY <1>2, LeastMember
<1>4. PICK i \in S : g = B - f[i]
  OBVIOUS
<1>5. \A j \in S : B - f[i] <= B - f[j]
  BY <1>3, <1>4
<1>6. \A j \in S : f[j] <= f[i]
  BY <1>1, <1>5
<1> QED
  BY <1>6

\* A strict order, perhaps partial.
Orders(above, S) ==
  /\ above \in SUBSET (S \X S)
  /\ \A i \in S : <<i, i>> \notin above
  /\ \A i, j, k \in S : <<i, j>> \in above /\ <<j, k>> \in above => <<i, k>> \in above

\* It has a maximal member in each part of a finite set that is not empty: the one above
\* the most members.
LEMMA MaximalMember ==
  ASSUME NEW S, IsFiniteSet(S), NEW above, Orders(above, S), NEW T \in SUBSET S, T # {}
  PROVE  \E i \in T : \A j \in T : <<j, i>> \notin above
<1> USE DEF Orders
<1> DEFINE below(i) == {j \in S : <<i, j>> \in above}
           rank == [i \in T |-> Cardinality(below(i))]
<1>1. \A i \in S : IsFiniteSet(below(i)) /\ Cardinality(below(i)) \in Nat
  <2> SUFFICES ASSUME NEW i \in S
               PROVE  IsFiniteSet(below(i)) /\ Cardinality(below(i)) \in Nat
    OBVIOUS
  <2>1. below(i) \subseteq S
    OBVIOUS
  <2> HIDE DEF below
  <2>2. IsFiniteSet(below(i))
    BY <2>1, FS_Subset
  <2> QED
    BY <2>2, FS_CardinalityType
<1>2. IsFiniteSet(T)
  BY FS_Subset
<1>3. rank \in [T -> Nat] /\ \A i \in T : rank[i] = Cardinality(below(i))
  <2> HIDE DEF below
  <2> QED
    BY <1>1
<1> HIDE DEF rank
<1>4. PICK i \in T : \A j \in T : rank[j] <= rank[i]
  BY <1>2, <1>3, GreatestValue
<1> SUFFICES ASSUME NEW j \in T, <<j, i>> \in above PROVE FALSE
  OBVIOUS
<1>5. below(i) \subseteq below(j) /\ i \in below(j) /\ i \notin below(i)
  OBVIOUS
<1> HIDE DEF below
<1>6. Cardinality(below(i)) < Cardinality(below(j))
  <2>1. IsFiniteSet(below(j)) /\ below(i) # below(j)
    BY <1>1, <1>5
  <2>2. /\ Cardinality(below(i)) <= Cardinality(below(j))
        /\ Cardinality(below(i)) = Cardinality(below(j)) => below(i) = below(j)
    BY <1>5, <2>1, FS_Subset
  <2> QED
    BY <1>1, <2>1, <2>2
<1>7. Cardinality(below(j)) <= Cardinality(below(i))
  BY <1>3, <1>4
<1> QED
  BY <1>1, <1>6, <1>7

\* What F makes of c along the members of s, step by step.
Steps(C, R) == [C \X R -> C]
Course(C, F, c, s) ==
  {g \in [0..Len(s) -> C] :
     g[0] = c /\ \A n \in 1..Len(s) : g[n] = F[<<g[n - 1], s[n]>>]}

LEMMA CourseExists ==
  ASSUME NEW C, NEW R, NEW F \in Steps(C, R), NEW c \in C, NEW s \in Seq(R)
  PROVE  Course(C, F, c, s) # {}
<1> USE DEF Steps
<1> DEFINE Reaches(g, m) ==
             g[0] = c /\ \A n \in 1..m : g[n] = F[<<g[n - 1], s[n]>>]
           S == {m \in Nat : m <= Len(s) => \E g \in [0..m -> C] : Reaches(g, m)}
<1>1. 0 \in S
  <2> DEFINE g == [n \in 0..0 |-> c]
  <2>1. g \in [0..0 -> C] /\ Reaches(g, 0)
    OBVIOUS
  <2> QED
    BY <2>1
<1>2. ASSUME NEW m \in Nat, m \in S PROVE m + 1 \in S
  <2> SUFFICES ASSUME m + 1 <= Len(s)
               PROVE  \E g \in [0..(m + 1) -> C] : Reaches(g, m + 1)
    OBVIOUS
  <2>1. PICK g \in [0..m -> C] : Reaches(g, m)
    BY <1>2
  <2>2. s[m + 1] \in R /\ g[m] \in C
    OBVIOUS
  <2> DEFINE next == F[<<g[m], s[m + 1]>>]
             h == [n \in 0..(m + 1) |-> IF n = m + 1 THEN next ELSE g[n]]
  <2>3. next \in C
    BY <2>2
  <2> HIDE DEF next
  <2>4. h \in [0..(m + 1) -> C]
    BY <2>3
  <2>5. h[0] = c
    BY <2>1
  <2>6. h[m + 1] = F[<<h[m], s[m + 1]>>]
    <3>1. h[m + 1] = next
      OBVIOUS
    <3>2. h[m] = g[m]
      OBVIOUS
    <3> HIDE DEF h
    <3> QED
      BY <3>1, <3>2 DEF next
  <2>7. \A n \in 1..m : h[n] = g[n] /\ h[n - 1] = g[n - 1]
    OBVIOUS
  <2> HIDE DEF h
  <2>8. ASSUME NEW n \in 1..(m + 1) PROVE h[n] = F[<<h[n - 1], s[n]>>]
    <3>1. CASE n = m + 1
      <4>1. n - 1 = m
        BY <3>1
      <4> QED
        BY <2>6, <3>1, <4>1
    <3>2. CASE n # m + 1
      <4>1. n \in 1..m
        BY <3>2
      <4> QED
        BY <2>1, <2>7, <4>1
    <3> QED
      BY <3>1, <3>2
  <2> QED
    BY <2>4, <2>5, <2>8
<1>3. Nat \subseteq S
  <2> HIDE DEF S
  <2> QED
    BY <1>1, <1>2, NatSetInduction
<1> QED
  BY <1>3 DEF Course

\* Whatever is built by the same steps from the same beginning is the same.
LEMMA CourseUnique ==
  ASSUME NEW C, NEW R, NEW F \in Steps(C, R), NEW c \in C, NEW s \in Seq(R),
         NEW g \in Course(C, F, c, s), NEW u, u[0] = c,
         \A n \in 1..Len(s) : u[n - 1] \in C => u[n] = F[<<u[n - 1], s[n]>>]
  PROVE  u[Len(s)] = g[Len(s)]
<1> DEFINE S == {n \in Nat : n <= Len(s) => u[n] = g[n]}
<1>1. 0 \in S
  BY DEF Course
<1>2. ASSUME NEW n \in Nat, n \in S PROVE n + 1 \in S
  <2> SUFFICES ASSUME n + 1 <= Len(s) PROVE u[n + 1] = g[n + 1]
    OBVIOUS
  <2>1. u[n] = g[n] /\ n + 1 \in 1..Len(s) /\ (n + 1) - 1 = n
    BY <1>2
  <2>2. g[n] \in C /\ g[n + 1] = F[<<g[n], s[n + 1]>>]
    BY <2>1 DEF Course
  <2>3. u[n + 1] = F[<<u[n], s[n + 1]>>]
    BY <2>1, <2>2
  <2> QED
    BY <2>1, <2>2, <2>3
<1>3. Nat \subseteq S
  <2> HIDE DEF S
  <2> QED
    BY <1>1, <1>2, NatSetInduction
<1> QED
  BY <1>3

\* A longer sequence leads through what the shorter one led to.
LEMMA CourseLonger ==
  ASSUME NEW C, NEW R, NEW F \in Steps(C, R), NEW c \in C, NEW s \in Seq(R), NEW r \in R,
         NEW g \in Course(C, F, c, s), NEW h \in Course(C, F, c, Append(s, r))
  PROVE  h[Len(s) + 1] = F[<<g[Len(s)], r>>]
<1> DEFINE m == Len(s)
           longer == Append(s, r)
<1>1. longer \in Seq(R) /\ Len(longer) = m + 1 /\ m \in Nat
  OBVIOUS
<1>2. longer[m + 1] = r /\ \A n \in 1..m : longer[n] = s[n]
  OBVIOUS
<1> HIDE DEF longer
<1>3. h[0] = c /\ \A n \in 1..(m + 1) : h[n] = F[<<h[n - 1], longer[n]>>]
  BY <1>1 DEF Course, longer
<1>4. \A n \in 1..m : h[n - 1] \in C => h[n] = F[<<h[n - 1], s[n]>>]
  BY <1>1, <1>2, <1>3
<1>5. h[m] = g[m]
  BY <1>3, <1>4, CourseUnique
<1> QED
  BY <1>1, <1>2, <1>3, <1>5
=============================================================================
