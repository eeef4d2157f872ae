-------------------------- MODULE CollectionLemmas --------------------------
(***************************************************************************)
(* What the proofs keep needing of lists, of counting and of sums.         *)
(*                                                                         *)
(* SumFunctionOnSet of the community modules is a fold, a function that is *)
(* defined by recursion over the subsets of a set.  That there is such a   *)
(* function, and that the order in which it takes the elements does not    *)
(* matter, is proved here by the least size for which it would fail.       *)
(***************************************************************************)
EXTENDS Integers, Sequences, Functions, FiniteSetTheorems, WellFoundedInduction, TLAPS

\* What Append does to a list of any kind.
LEMMA AppendedTo ==
  ASSUME NEW S, NEW s \in Seq(S), NEW x \in S
  PROVE  /\ Append(s, x) \in Seq(S) /\ Len(s) \in Nat
         /\ DOMAIN s = 1 .. Len(s) /\ Len(Append(s, x)) = Len(s) + 1
         /\ DOMAIN Append(s, x) = 1 .. Len(s) + 1
         /\ \A i \in DOMAIN s : Append(s, x)[i] = s[i] /\ i # Len(s) + 1 /\ i \in DOMAIN Append(s, x)
         /\ Append(s, x)[Len(s) + 1] = x /\ Len(s) + 1 \in DOMAIN Append(s, x)
         /\ \A i \in DOMAIN Append(s, x) : i = Len(s) + 1 \/ i \in DOMAIN s
  OBVIOUS

\* What a list of things of a kind has.
LEMMA ListOf ==
  ASSUME NEW S, NEW s \in Seq(S)
  PROVE  /\ Len(s) \in Nat /\ DOMAIN s = 1 .. Len(s) /\ IsFiniteSet(DOMAIN s)
         /\ \A i \in DOMAIN s : s[i] \in S
  <1>1. Len(s) \in Nat /\ DOMAIN s = 1 .. Len(s) /\ \A i \in DOMAIN s : s[i] \in S
    OBVIOUS
  <1> DEFINE n == Len(s)
  <1> HIDE DEF n
  <1>2. IsFiniteSet(1 .. n)
    BY <1>1, FS_Interval DEF n
  <1> QED
    BY <1>1, <1>2 DEF n

\* A list with the same places and other things.
LEMMA ListWith ==
  ASSUME NEW S, NEW R, NEW s \in Seq(R), NEW t \in [DOMAIN s -> S]
  PROVE  t \in Seq(S) /\ Len(t) = Len(s) /\ DOMAIN t = DOMAIN s
  OBVIOUS

\* A set of places of a list is finite, and a place behind the list is one more.
LEMMA CountNumbers ==
  ASSUME NEW k \in Nat, NEW S \in SUBSET (1 .. k)
  PROVE  /\ IsFiniteSet(S) /\ Cardinality(S) \in Nat
         /\ Cardinality(S \cup {k + 1}) = Cardinality(S) + 1
  <1>1. IsFiniteSet(1 .. k)
    BY FS_Interval
  <1>2. k + 1 \notin 1 .. k
    OBVIOUS
  <1>3. IsFiniteSet(S) /\ k + 1 \notin S
    BY <1>1, <1>2, FS_Subset
  <1> QED
    BY <1>3, FS_CardinalityType, FS_AddElement

\* A set of natural numbers has a least element.
LEMMA LeastNumber ==
  ASSUME NEW T \in SUBSET Nat, T # {}
  PROVE  \E x \in T : \A y \in T : x <= y
  <1>1. \E x \in T : \A y \in T : ~ (<<y, x>> \in OpToRel(<, Nat))
    BY NatLessThanWellFounded, WFMin
  <1>2. PICK x \in T : \A y \in T : ~ (<<y, x>> \in OpToRel(<, Nat))
    BY <1>1
  <1>3. \A y \in T : ~ (y < x)
    BY <1>2 DEF OpToRel
  <1> QED
    BY <1>3

\* A set of numbers that has 0, and with a number the next one, has them all.
LEMMA AllNumbers ==
  ASSUME NEW T \in SUBSET Nat, 0 \in T, \A n \in T : n + 1 \in T
  PROVE  T = Nat
  <1> SUFFICES ASSUME T # Nat PROVE FALSE
    OBVIOUS
  <1>1. PICK n \in Nat \ T : \A m \in Nat \ T : n <= m
    <2>1. Nat \ T \in SUBSET Nat /\ Nat \ T # {}
      OBVIOUS
    <2> QED
      BY <2>1, LeastNumber
  <1>2. n - 1 \in Nat /\ n = (n - 1) + 1
    BY <1>1
  <1>3. n - 1 \in T
    BY <1>1, <1>2
  <1> QED
    BY <1>1, <1>2, <1>3

-----------------------------------------------------------------------------
(***************************************************************************)
(* Sums                                                                    *)
(***************************************************************************)

AnyOf(s) == CHOOSE x \in s : TRUE

\* g holds the sums of f over the sets of D, as the fold computes them.
SumsUp(g, f, D) ==
  g = [s \in D |-> IF s = {} THEN 0 ELSE f[AnyOf(s)] + g[s \ {AnyOf(s)}]]

LEMMA AnyIsIn == ASSUME NEW s, s # {} PROVE AnyOf(s) \in s
  BY DEF AnyOf

\* A nonempty finite set without one of its elements has one less.
LEMMA OneLess ==
  ASSUME NEW s, IsFiniteSet(s), NEW x \in s
  PROVE  /\ IsFiniteSet(s \ {x}) /\ Cardinality(s \ {x}) = Cardinality(s) - 1
         /\ Cardinality(s) \in Nat \ {0} /\ Cardinality(s \ {x}) \in Nat
  BY FS_RemoveElement, FS_CardinalityType, FS_EmptySet

LEMMA SumsExist ==
  ASSUME NEW S, IsFiniteSet(S), NEW f
  PROVE  \E g : SumsUp(g, f, SUBSET S)
  <1> DEFINE Small(n) == {s \in SUBSET S : Cardinality(s) <= n}
             T == {n \in Nat : \E g : SumsUp(g, f, Small(n))}
  <1>1. \A s \in SUBSET S : IsFiniteSet(s) /\ Cardinality(s) \in Nat /\ Cardinality(s) <= Cardinality(S)
    BY FS_Subset, FS_CardinalityType
  <1>2. 0 \in T
    <2>1. Small(0) = {{}}
      BY <1>1, FS_EmptySet
    <2> DEFINE g == [s \in Small(0) |-> 0]
    <2>2. g = [s \in Small(0) |-> IF s = {} THEN 0 ELSE f[AnyOf(s)] + g[s \ {AnyOf(s)}]]
      BY <2>1
    <2> QED
      BY <2>2 DEF SumsUp
  <1>3. ASSUME NEW n \in T PROVE n + 1 \in T
    <2>1. PICK g : SumsUp(g, f, Small(n))
      OBVIOUS
    <2> DEFINE h == [s \in Small(n + 1) |-> IF s = {} THEN 0 ELSE f[AnyOf(s)] + g[s \ {AnyOf(s)}]]
    <2>2. \A s \in Small(n) : s \in Small(n + 1) /\ h[s] = g[s]
      <3>1. \A s \in Small(n) : g[s] = IF s = {} THEN 0 ELSE f[AnyOf(s)] + g[s \ {AnyOf(s)}]
        BY <2>1 DEF SumsUp
      <3>2. \A s \in Small(n) : s \in Small(n + 1)
        BY <1>1
      <3> QED
        BY <3>1, <3>2
    <2>3. \A s \in Small(n + 1) : s # {} => s \ {AnyOf(s)} \in Small(n)
      BY <1>1, OneLess, AnyIsIn
    <2> HIDE DEF h, Small
    <2>4. \A s \in Small(n + 1) : s # {} => g[s \ {AnyOf(s)}] = h[s \ {AnyOf(s)}]
      BY <2>2, <2>3
    <2>5. h = [s \in Small(n + 1) |-> IF s = {} THEN 0 ELSE f[AnyOf(s)] + h[s \ {AnyOf(s)}]]
      BY <2>4 DEF h
    <2>6. n + 1 \in Nat
      OBVIOUS
    <2>7. SumsUp(h, f, Small(n + 1))
      BY <2>5 DEF SumsUp
    <2> QED
      BY <2>6, <2>7
  <1>4. T = Nat
    <2>1. T \in SUBSET Nat
      OBVIOUS
    <2> HIDE DEF T
    <2> QED
      BY <1>2, <1>3, <2>1, AllNumbers
  <1>5. Small(Cardinality(S)) = SUBSET S
    BY <1>1
  <1>6. Cardinality(S) \in T
    BY <1>4, FS_CardinalityType
  <1> QED
    BY <1>5, <1>6

\* The fold is such a function.
LEMMA SumIsFold ==
  ASSUME NEW S, IsFiniteSet(S), NEW f
  PROVE  \E g : SumsUp(g, f, SUBSET S) /\ SumFunctionOnSet(f, S) = g[S]
  <1> DEFINE P(g) == SumsUp(g, f, SUBSET S)
             sums == CHOOSE g : P(g)
  <1>1. SumFunctionOnSet(f, S) = sums[S]
    BY DEF SumFunctionOnSet, FoldFunctionOnSet, MapThenFoldSet, SumsUp, AnyOf
  <1>2. \E g : P(g)
    BY SumsExist
  <1>3. P(sums)
    <2> HIDE DEF P
    <2> QED
      BY <1>2, Zenon
  <1> QED
    BY <1>1, <1>3

\* A sum depends on the elements that are summed only.
LEMMA SumsAgree ==
  ASSUME NEW S, IsFiniteSet(S), NEW R, NEW f, NEW h, NEW g, NEW k,
         SumsUp(g, f, SUBSET S), SumsUp(k, h, SUBSET R),
         NEW t \in SUBSET S, t \in SUBSET R, \A x \in t : f[x] = h[x]
  PROVE  g[t] = k[t]
  <1> DEFINE T == {n \in Nat : \A s \in SUBSET t : Cardinality(s) = n => g[s] = k[s]}
  <1>1. \A s \in SUBSET t : IsFiniteSet(s) /\ Cardinality(s) \in Nat
    BY FS_Subset, FS_CardinalityType
  <1>2. \A s \in SUBSET t : /\ g[s] = IF s = {} THEN 0 ELSE f[AnyOf(s)] + g[s \ {AnyOf(s)}]
                            /\ k[s] = IF s = {} THEN 0 ELSE h[AnyOf(s)] + k[s \ {AnyOf(s)}]
    BY DEF SumsUp
  <1>3. 0 \in T
    <2>1. \A s \in SUBSET t : Cardinality(s) = 0 => s = {}
      BY <1>1, FS_EmptySet
    <2> QED
      BY <1>2, <2>1
  <1>4. ASSUME NEW n \in T PROVE n + 1 \in T
    <2> SUFFICES ASSUME NEW s \in SUBSET t, Cardinality(s) = n + 1 PROVE g[s] = k[s]
      OBVIOUS
    <2>1. s # {}
      BY FS_EmptySet
    <2> DEFINE x == AnyOf(s)
    <2>2. x \in s /\ Cardinality(s \ {x}) = n
      BY <1>1, <2>1, AnyIsIn, OneLess
    <2>3. g[s \ {x}] = k[s \ {x}] /\ f[x] = h[x]
      BY <2>2
    <2> QED
      BY <1>2, <2>1, <2>3
  <1>5. T = Nat
    <2>1. T \in SUBSET Nat
      OBVIOUS
    <2> HIDE DEF T
    <2> QED
      BY <1>3, <1>4, <2>1, AllNumbers
  <1> QED
    BY <1>1, <1>5

\* Any element may be taken first.
LEMMA AnyElementFirst ==
  ASSUME NEW S, IsFiniteSet(S), NEW f, NEW g, SumsUp(g, f, SUBSET S), \A x \in S : f[x] \in Int,
         NEW W \in SUBSET S
  PROVE  g[W] \in Int /\ \A x \in W : g[W] = f[x] + g[W \ {x}]
  <1> DEFINE Good(s) == g[s] \in Int /\ \A x \in s : g[s] = f[x] + g[s \ {x}]
             T == {n \in Nat : \A s \in SUBSET S : Cardinality(s) <= n => Good(s)}
  <1>1. \A s \in SUBSET S : IsFiniteSet(s) /\ Cardinality(s) \in Nat
    BY FS_Subset, FS_CardinalityType
  <1>2. \A s \in SUBSET S : g[s] = IF s = {} THEN 0 ELSE f[AnyOf(s)] + g[s \ {AnyOf(s)}]
    BY DEF SumsUp
  <1>3. 0 \in T
    <2> SUFFICES ASSUME NEW s \in SUBSET S, Cardinality(s) <= 0 PROVE Good(s)
      BY Zenon
    <2>1. Cardinality(s) = 0 /\ s = {}
      BY <1>1, FS_EmptySet
    <2>2. g[s] = 0
      BY <1>2, <2>1
    <2> QED
      BY <2>1, <2>2
  <1>4. ASSUME NEW n \in T PROVE n + 1 \in T
    <2> SUFFICES ASSUME NEW s \in SUBSET S, Cardinality(s) = n + 1 PROVE Good(s)
      <3> HIDE DEF Good
      <3>1. n \in Nat /\ \A s \in SUBSET S : Cardinality(s) <= n + 1 => Cardinality(s) <= n \/ Cardinality(s) = n + 1
        BY <1>1
      <3> QED
        BY <3>1
    <2>0. n \in Nat /\ \A r \in SUBSET S : Cardinality(r) <= n => Good(r)
      <3> HIDE DEF Good
      <3> QED
        BY Zenon
    <2> DEFINE c == AnyOf(s)
    <2>1. s # {} /\ c \in s
      <3>1. s # {}
        <4> HIDE DEF T, Good
        <4> QED
          BY <2>0, FS_EmptySet
      <3> QED
        BY <3>1, AnyIsIn
    <2>2. ASSUME NEW x \in s
          PROVE  s \ {x} \in SUBSET S /\ Cardinality(s \ {x}) = n
      <3>1. IsFiniteSet(s) /\ Cardinality(s \ {x}) = Cardinality(s) - 1
        BY <1>1, OneLess
      <3> QED
        BY <2>0, <3>1
    <2>3. \A x \in s : Good(s \ {x})
      <3> HIDE DEF Good
      <3>1. n <= n
        BY <2>0
      <3> QED
        BY <2>0, <2>2, <3>1
    <2>4. g[s] = f[c] + g[s \ {c}] /\ f[c] \in Int /\ g[s \ {c}] \in Int
      <3>1. Good(s \ {c}) /\ f[c] \in Int
        BY <2>1, <2>3
      <3> QED
        BY <1>2, <2>1, <3>1
    <2>5. ASSUME NEW x \in s, x # c PROVE g[s] = f[x] + g[s \ {x}]
      <3> DEFINE d == (s \ {c}) \ {x}
      <3>1. x \in s \ {c} /\ c \in s \ {x} /\ d = (s \ {x}) \ {c} /\ d \in SUBSET S
        BY <2>1, <2>5
      <3>2. g[s \ {c}] = f[x] + g[d] /\ g[s \ {x}] = f[c] + g[d]
        <4>1. Good(s \ {c}) /\ Good(s \ {x})
          BY <2>1, <2>3
        <4> HIDE DEF d
        <4> QED
          BY <3>1, <4>1 DEF d
      <3>3. f[x] \in Int /\ g[d] \in Int
        <4>1. IsFiniteSet(s \ {c}) /\ Cardinality(s \ {c}) = n
          BY <1>1, <2>1, <2>2
        <4>2. Cardinality(d) = Cardinality(s \ {c}) - 1
          BY <3>1, <4>1, OneLess
        <4>3. Cardinality(d) <= n
          BY <2>0, <4>1, <4>2
        <4>4. Good(d)
          <5> HIDE DEF Good, d
          <5> QED
            BY <2>0, <3>1, <4>3
        <4> QED
          BY <4>4
      <3> HIDE DEF d
      <3> QED
        BY <2>4, <3>1, <3>2, <3>3
    <2> HIDE DEF c
    <2>6. \A x \in s : g[s] = f[x] + g[s \ {x}]
      BY <2>4, <2>5
    <2>7. g[s] \in Int
      BY <2>4
    <2> QED
      BY <2>6, <2>7
  <1>5. T = Nat
    <2>1. T \in SUBSET Nat
      OBVIOUS
    <2> HIDE DEF T
    <2> QED
      BY <1>3, <1>4, <2>1, AllNumbers
  <1>6. ASSUME NEW s \in SUBSET S PROVE Good(s)
    <2>1. Cardinality(s) \in T /\ Cardinality(s) <= Cardinality(s)
      BY <1>1, <1>5
    <2> HIDE DEF Good
    <2> QED
      BY <2>1
  <1> QED
    BY <1>6

LEMMA SumOfNone == ASSUME NEW f PROVE SumFunctionOnSet(f, {}) = 0
  <1>1. PICK g : SumsUp(g, f, SUBSET {}) /\ SumFunctionOnSet(f, {}) = g[{}]
    BY SumIsFold, FS_EmptySet
  <1> QED
    BY <1>1 DEF SumsUp

\* The sum over a set is an element and the sum over the others.
LEMMA SumTaken ==
  ASSUME NEW S, IsFiniteSet(S), NEW f, \A y \in S : f[y] \in Int, NEW x \in S
  PROVE  /\ SumFunctionOnSet(f, S) = f[x] + SumFunctionOnSet(f, S \ {x})
         /\ SumFunctionOnSet(f, S) \in Int /\ SumFunctionOnSet(f, S \ {x}) \in Int
  <1>1. PICK g : SumsUp(g, f, SUBSET S) /\ SumFunctionOnSet(f, S) = g[S]
    BY SumIsFold
  <1>2. IsFiniteSet(S \ {x})
    BY FS_Subset
  <1>3. PICK h : SumsUp(h, f, SUBSET (S \ {x})) /\ SumFunctionOnSet(f, S \ {x}) = h[S \ {x}]
    BY <1>2, SumIsFold
  <1>4. g[S \ {x}] = h[S \ {x}]
    <2>1. S \ {x} \in SUBSET S /\ S \ {x} \in SUBSET (S \ {x}) /\ \A y \in S \ {x} : f[y] = f[y]
      OBVIOUS
    <2> DEFINE t == S \ {x}
    <2> HIDE DEF t
    <2>2. t \in SUBSET S /\ t \in SUBSET t /\ (\A y \in t : f[y] = f[y]) /\ SumsUp(h, f, SUBSET t)
      BY <1>3, <2>1 DEF t
    <2>3. g[t] = h[t]
      BY <1>1, <2>2, SumsAgree
    <2> QED
      BY <2>3 DEF t
  <1>5. ASSUME NEW t \in SUBSET S
        PROVE  g[t] \in Int /\ \A y \in t : g[t] = f[y] + g[t \ {y}]
    BY <1>1, AnyElementFirst
  <1>6. S \in SUBSET S /\ S \ {x} \in SUBSET S
    OBVIOUS
  <1> QED
    BY <1>1, <1>3, <1>4, <1>5, <1>6

LEMMA SumAdded ==
  ASSUME NEW S, IsFiniteSet(S), NEW f, NEW x, x \notin S, \A y \in S \cup {x} : f[y] \in Int
  PROVE  SumFunctionOnSet(f, S \cup {x}) = SumFunctionOnSet(f, S) + f[x]
  <1>1. IsFiniteSet(S \cup {x}) /\ (S \cup {x}) \ {x} = S
    BY FS_AddElement
  <1>2. /\ SumFunctionOnSet(f, S \cup {x}) = f[x] + SumFunctionOnSet(f, S)
        /\ SumFunctionOnSet(f, S) \in Int
    BY <1>1, SumTaken
  <1> QED
    BY <1>2

LEMMA SumOfSame ==
  ASSUME NEW S, IsFiniteSet(S), NEW f, NEW h, \A x \in S : f[x] = h[x]
  PROVE  SumFunctionOnSet(f, S) = SumFunctionOnSet(h, S)
  <1>1. PICK g : SumsUp(g, f, SUBSET S) /\ SumFunctionOnSet(f, S) = g[S]
    BY SumIsFold
  <1>2. PICK k : SumsUp(k, h, SUBSET S) /\ SumFunctionOnSet(h, S) = k[S]
    BY SumIsFold
  <1> QED
    BY <1>1, <1>2, SumsAgree

LEMMA SumIsInt ==
  ASSUME NEW S, IsFiniteSet(S), NEW f, \A x \in S : f[x] \in Int
  PROVE  SumFunctionOnSet(f, S) \in Int
  <1>1. CASE S = {}
    BY <1>1, SumOfNone
  <1>2. CASE S # {}
    BY <1>2, SumTaken
  <1> QED
    BY <1>1, <1>2

\* What is summed changes at one element.
LEMMA SumChangedAt ==
  ASSUME NEW S, IsFiniteSet(S), NEW f, NEW h, NEW x \in S,
         \A y \in S : f[y] \in Int /\ h[y] \in Int, \A y \in S \ {x} : h[y] = f[y]
  PROVE  SumFunctionOnSet(h, S) = SumFunctionOnSet(f, S) - f[x] + h[x]
  <1>1. IsFiniteSet(S \ {x})
    BY FS_Subset
  <1>2. SumFunctionOnSet(h, S \ {x}) = SumFunctionOnSet(f, S \ {x})
    BY <1>1, SumOfSame
  <1>3. SumFunctionOnSet(h, S) = h[x] + SumFunctionOnSet(h, S \ {x})
    BY SumTaken
  <1>4. /\ SumFunctionOnSet(f, S) = f[x] + SumFunctionOnSet(f, S \ {x})
        /\ SumFunctionOnSet(f, S \ {x}) \in Int
    BY SumTaken
  <1>5. f[x] \in Int /\ h[x] \in Int
    OBVIOUS
  <1> QED
    BY <1>2, <1>3, <1>4, <1>5

\* A sum of natural numbers is at least the sum over a part of them.
LEMMA SumOfPart ==
  ASSUME NEW S, IsFiniteSet(S), NEW f, \A x \in S : f[x] \in Nat, NEW R \in SUBSET S
  PROVE  0 <= SumFunctionOnSet(f, R) /\ SumFunctionOnSet(f, R) <= SumFunctionOnSet(f, S)
  <1> DEFINE T == {n \in Nat : \A s, r \in SUBSET S : s \subseteq r /\ Cardinality(r) = n =>
                     0 <= SumFunctionOnSet(f, s) /\ SumFunctionOnSet(f, s) <= SumFunctionOnSet(f, r)}
  <1>1. \A s \in SUBSET S : IsFiniteSet(s) /\ Cardinality(s) \in Nat
    BY FS_Subset, FS_CardinalityType
  <1>2. 0 \in T
    <2> SUFFICES ASSUME NEW s \in SUBSET S, NEW r \in SUBSET S, s \subseteq r, Cardinality(r) = 0
                 PROVE  /\ 0 <= SumFunctionOnSet(f, s)
                        /\ SumFunctionOnSet(f, s) <= SumFunctionOnSet(f, r)
      BY Zenon
    <2>1. r = {} /\ s = {}
      BY <1>1, FS_EmptySet
    <2> QED
      BY <2>1, SumOfNone
  <1>3. ASSUME NEW n \in T PROVE n + 1 \in T
    <2> SUFFICES ASSUME NEW s \in SUBSET S, NEW r \in SUBSET S, s \subseteq r, Cardinality(r) = n + 1
                 PROVE  /\ 0 <= SumFunctionOnSet(f, s)
                        /\ SumFunctionOnSet(f, s) <= SumFunctionOnSet(f, r)
      OBVIOUS
    <2>0. n \in Nat /\ \A p, q \in SUBSET S : p \subseteq q /\ Cardinality(q) = n =>
                     0 <= SumFunctionOnSet(f, p) /\ SumFunctionOnSet(f, p) <= SumFunctionOnSet(f, q)
      BY Zenon
    <2> HIDE DEF T
    <2>1. ASSUME NEW x \in r
          PROVE  /\ IsFiniteSet(r) /\ Cardinality(r \ {x}) = n /\ r \ {x} \in SUBSET S /\ f[x] \in Nat
                 /\ SumFunctionOnSet(f, r) = f[x] + SumFunctionOnSet(f, r \ {x})
                 /\ SumFunctionOnSet(f, r \ {x}) \in Int /\ SumFunctionOnSet(f, r) \in Int
      <3>1. IsFiniteSet(r) /\ Cardinality(r \ {x}) = Cardinality(r) - 1
        BY <1>1, OneLess
      <3>2. \A y \in r : f[y] \in Int
        OBVIOUS
      <3> QED
        BY <2>0, <3>1, <3>2, SumTaken
    <2>2. CASE s # r
      <3>1. PICK x \in r : s \subseteq r \ {x}
        BY <2>2
      <3>2. /\ 0 <= SumFunctionOnSet(f, s) /\ SumFunctionOnSet(f, s) <= SumFunctionOnSet(f, r \ {x})
        BY <2>0, <2>1, <3>1
      <3>3. SumFunctionOnSet(f, s) \in Int
        BY <1>1, SumIsInt
      <3> QED
        BY <2>1, <3>1, <3>2, <3>3
    <2>3. CASE s = r
      <3>1. r # {}
        BY <2>0, FS_EmptySet
      <3>2. PICK x \in r : TRUE
        BY <3>1
      <3>3. 0 <= SumFunctionOnSet(f, r \ {x})
        BY <2>0, <2>1, <3>2
      <3> QED
        BY <2>1, <2>3, <3>2, <3>3
    <2> QED
      BY <2>2, <2>3
  <1>4. T = Nat
    <2>1. T \in SUBSET Nat
      OBVIOUS
    <2> HIDE DEF T
    <2> QED
      BY <1>2, <1>3, <2>1, AllNumbers
  <1>5. Cardinality(S) \in T /\ R \subseteq S
    BY <1>1, <1>4
  <1> QED
    BY <1>5

-----------------------------------------------------------------------------
(***************************************************************************)
(* Definitions from each number to the next, and lists of limited length   *)
(***************************************************************************)

StepsFrom(h, base, step, N) == h[0] = base /\ \A n \in 1 .. N : h[n] = step[<<n, h[n - 1]>>]

\* A function that is defined from each number to the next exists.
LEMMA StepByStep ==
  ASSUME NEW N \in Nat, NEW S, NEW base \in S, NEW step \in [(1 .. N) \X S -> S]
  PROVE  \E h \in [0 .. N -> S] : StepsFrom(h, base, step, N)
  <1> DEFINE Upto(m, h) == h[0] = base /\ \A n \in 1 .. m : h[n] = step[<<n, h[n - 1]>>]
             T == {m \in Nat : m <= N => \E h \in [0 .. m -> S] : Upto(m, h)}
  <1>1. 0 \in T
    <2>1. [n \in 0 .. 0 |-> base] \in [0 .. 0 -> S] /\ Upto(0, [n \in 0 .. 0 |-> base])
      OBVIOUS
    <2> QED
      BY <2>1
  <1>2. ASSUME NEW m \in T PROVE m + 1 \in T
    <2> SUFFICES ASSUME m + 1 <= N PROVE \E h \in [0 .. m + 1 -> S] : Upto(m + 1, h)
      OBVIOUS
    <2>1. PICK g \in [0 .. m -> S] : Upto(m, g)
      OBVIOUS
    <2> DEFINE h == [n \in 0 .. m + 1 |-> IF n <= m THEN g[n] ELSE step[<<m + 1, g[m]>>]]
    <2>2. m \in Nat /\ m + 1 \in 1 .. N /\ g[m] \in S
      OBVIOUS
    <2>3. step[<<m + 1, g[m]>>] \in S
      BY <2>2
    <2>4. h \in [0 .. m + 1 -> S]
      BY <2>2, <2>3
    <2>5. h[0] = base
      BY <2>1, <2>2
    <2>6. ASSUME NEW n \in 1 .. m + 1 PROVE h[n] = step[<<n, h[n - 1]>>]
      <3>1. CASE n = m + 1
        <4>1. n - 1 = m /\ m \in 0 .. m + 1 /\ n \in 0 .. m + 1 /\ ~(n <= m)
          BY <2>2, <3>1
        <4>2. h[n - 1] = g[m] /\ h[n] = step[<<m + 1, g[m]>>]
          BY <2>2, <4>1
        <4> QED
          BY <3>1, <4>2
      <3>2. CASE n # m + 1
        <4>1. n \in 1 .. m /\ n - 1 \in 0 .. m
          BY <2>2, <3>2
        <4>2. h[n] = g[n] /\ h[n - 1] = g[n - 1] /\ g[n] = step[<<n, g[n - 1]>>]
          BY <2>1, <2>2, <4>1
        <4> QED
          BY <4>2
      <3> QED
        BY <3>1, <3>2
    <2> QED
      BY <2>4, <2>5, <2>6
  <1> HIDE DEF T
  <1>3. T = Nat
    BY <1>1, <1>2, AllNumbers DEF T
  <1> QED
    BY <1>3 DEF T, StepsFrom

\* Two lists that are short make one that is not much longer.
LEMMA Joined ==
  ASSUME NEW S, NEW a \in Seq(S), NEW b \in Seq(S), NEW k \in Nat, NEW l \in Nat,
         Len(a) \in 0 .. k, Len(b) \in 0 .. l
  PROVE  a \o b \in Seq(S) /\ Len(a \o b) \in 0 .. k + l
  <1> DEFINE m == Len(a)
             n == Len(b)
             both == Len(a \o b)
  <1>1. a \o b \in Seq(S) /\ both = m + n
    OBVIOUS
  <1>2. m \in 0 .. k /\ n \in 0 .. l
    OBVIOUS
  <1> HIDE DEF m, n, both
  <1>3. both \in 0 .. k + l
    BY <1>1, <1>2
  <1> QED
    BY <1>1, <1>3 DEF both
=============================================================================
