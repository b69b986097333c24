------------------------------- MODULE SumLemmas -------------------------------
(***************************************************************************)
(* What the proofs about counts and means need of finite sets: induction   *)
(* over a finite set, greatest and least elements, and the sum of a        *)
(* function over a set, which the models write with MapThenSumSet.         *)
(*                                                                         *)
(* Induction is stated with a set of good subsets rather than with a       *)
(* predicate. It follows from the fact that of the bad subsets of a finite *)
(* set one has no bad subset of its own.                                   *)
(***************************************************************************)
EXTENDS Integers, FiniteSetsExt, FiniteSetTheorems, TLAPS

\* A set of subsets of S that holds each subset all of whose proper subsets it
\* holds, holds S.
LEMMA SubsetInduction ==
  ASSUME NEW S, IsFiniteSet(S), NEW Good,
         \A T \in SUBSET S : (\A U \in SUBSET T : U # T => U \in Good) => T \in Good
  PROVE  S \in Good
<1>1. FiniteSubsetsOf(S) = SUBSET S
  BY FS_FiniteSubsetsOfFinite
<1>2. IsWellFoundedOn(StrictSubsetOrdering(S), SUBSET S)
  BY <1>1, FS_StrictSubsetOrderingWellFounded
<1> DEFINE Bad == {T \in SUBSET S : T \notin Good}
<1> SUFFICES ASSUME Bad # {} PROVE FALSE
  OBVIOUS
<1>3. PICK T \in Bad : \A U \in Bad : <<U, T>> \notin StrictSubsetOrdering(S)
  <2>1. Bad \subseteq SUBSET S
    OBVIOUS
  <2> HIDE DEF Bad
  <2> QED
    BY <1>2, <2>1, WFMin
<1>4. ASSUME NEW U \in SUBSET T, U # T PROVE U \in Good
  <2>1. U \in SUBSET S /\ T \in SUBSET S
    BY <1>3, <1>4
  <2>2. <<U, T>> \in StrictSubsetOrdering(S)
    BY <1>4, <2>1 DEF StrictSubsetOrdering
  <2> QED
    BY <1>3, <2>1, <2>2
<1> QED
  BY <1>3, <1>4

\* A set of subsets of S that holds the empty one, and with each one also what
\* one element more makes of it, holds S.
LEMMA ElementInduction ==
  ASSUME NEW S, IsFiniteSet(S), NEW Good, {} \in Good,
         \A T \in SUBSET S : \A x \in S : T \in Good => T \cup {x} \in Good
  PROVE  S \in Good
<1>1. ASSUME NEW T \in SUBSET S, \A U \in SUBSET T : U # T => U \in Good
      PROVE  T \in Good
  <2>1. ASSUME NEW x \in T PROVE T \in Good
    <3>1. T \ {x} \in Good /\ T \ {x} \in SUBSET S /\ x \in S
      BY <1>1, <2>1
    <3>2. (T \ {x}) \cup {x} \in Good
      BY <3>1
    <3>3. (T \ {x}) \cup {x} = T
      BY <2>1
    <3> QED
      BY <3>2, <3>3
  <2> QED
    BY <2>1
<1> QED
  BY <1>1, SubsetInduction

-------------------------------------------------------------------------------
(* Sums.                                                                   *)

\* What the models take from the community modules to add up a function's values.
SumOf(f, S) == MapThenSumSet(LAMBDA x : f[x], S)

\* One element of each set, and the sums of f over the subsets of S, as
\* MapThenSumSet goes through them.
Some(S) == CHOOSE x \in S : TRUE

\* Sums, as the fold defines them.
AreSums(sums, f, S) ==
  sums = [T \in SUBSET S |-> IF T = {} THEN 0 ELSE f[Some(T)] + sums[T \ {Some(T)}]]

\* Sums, if there are such.
LEMMA SumOfAsSums ==
  ASSUME NEW f, NEW S
  PROVE  SumOf(f, S) = (CHOOSE sums : AreSums(sums, f, S))[S]
BY DEF SumOf, MapThenSumSet, MapThenFoldSet, AreSums, Some

\* The chosen element is one of the set.
LEMMA SomeIsOne ==
  ASSUME NEW S, S # {}
  PROVE  Some(S) \in S
BY DEF Some

\* There is one way at most to sum.
LEMMA SumsAreUnique ==
  ASSUME NEW f, NEW S, IsFiniteSet(S), NEW g, NEW h, AreSums(g, f, S), AreSums(h, f, S)
  PROVE  g = h
<1>1. \A T \in SUBSET S : /\ g[T] = IF T = {} THEN 0 ELSE f[Some(T)] + g[T \ {Some(T)}]
                          /\ h[T] = IF T = {} THEN 0 ELSE f[Some(T)] + h[T \ {Some(T)}]
  BY DEF AreSums
<1>2. ASSUME NEW R \in SUBSET S PROVE g[R] = h[R]
  <2> DEFINE Good == {T \in SUBSET R : g[T] = h[T]}
  <2>1. IsFiniteSet(R)
    BY FS_Subset
  <2>2. ASSUME NEW T \in SUBSET R, \A U \in SUBSET T : U # T => U \in Good
        PROVE  T \in Good
    <3>1. CASE T = {}
      BY <1>1, <3>1
    <3>2. CASE T # {}
      <4>1. Some(T) \in T /\ T \in SUBSET S
        BY <3>2, SomeIsOne
      <4>2. T \ {Some(T)} \in SUBSET T /\ T \ {Some(T)} # T
        BY <4>1
      <4>3. g[T \ {Some(T)}] = h[T \ {Some(T)}]
        BY <2>2, <4>2
      <4> QED
        BY <1>1, <3>2, <4>1, <4>3
    <3> QED
      BY <3>1, <3>2
  <2> HIDE DEF Good
  <2>3. R \in Good
    BY <2>1, <2>2, SubsetInduction
  <2> QED
    BY <2>3 DEF Good
<1>3. g = [T \in SUBSET S |-> g[T]] /\ h = [T \in SUBSET S |-> h[T]]
  BY DEF AreSums
<1> QED
  BY <1>2, <1>3

\* The sums over the subsets of S are sums over the subsets of its subsets.
LEMMA SumsOfSubset ==
  ASSUME NEW f, NEW S, NEW sums, AreSums(sums, f, S), NEW R \in SUBSET S
  PROVE  AreSums([T \in SUBSET R |-> sums[T]], f, R)
<1> DEFINE some == [T \in SUBSET R |-> sums[T]]
<1>1. ASSUME NEW T \in SUBSET R
      PROVE  some[T] = IF T = {} THEN 0 ELSE f[Some(T)] + some[T \ {Some(T)}]
  <2>1. T \in SUBSET S /\ T \ {Some(T)} \in SUBSET R
    OBVIOUS
  <2>2. sums[T] = IF T = {} THEN 0 ELSE f[Some(T)] + sums[T \ {Some(T)}]
    BY <2>1 DEF AreSums
  <2> QED
    BY <2>1, <2>2
<1>2. some = [T \in SUBSET R |-> some[T]]
  OBVIOUS
<1> HIDE DEF some
<1>3. AreSums(some, f, R)
  BY <1>1, <1>2 DEF AreSums
<1> QED
  BY <1>3 DEF some

\* A finite set can be summed.
LEMMA SumsExist ==
  ASSUME NEW f, NEW S, IsFiniteSet(S)
  PROVE  AreSums(CHOOSE sums : AreSums(sums, f, S), f, S)
<1> DEFINE Good == {T \in SUBSET S : \E sums : AreSums(sums, f, T)}
<1>1. ASSUME NEW T \in SUBSET S, \A U \in SUBSET T : U # T => U \in Good
      PROVE  T \in Good
  <2> DEFINE of(U) == CHOOSE sums : AreSums(sums, f, U)
             below == [U \in SUBSET T |-> IF U = {} THEN 0 ELSE f[Some(U)] + of(U \ {Some(U)})[U \ {Some(U)}]]
  <2>1. ASSUME NEW U \in SUBSET T, U # T PROVE AreSums(of(U), f, U)
    BY <1>1, <2>1
  <2>2. ASSUME NEW U \in SUBSET T, U # T, NEW V \in SUBSET U PROVE of(V)[V] = of(U)[V]
    <3>1. IsFiniteSet(V) /\ V \in SUBSET T /\ V # T
      <4>1. V \in SUBSET S /\ V \in SUBSET T /\ V # T
        BY <2>2
      <4> QED
        BY <4>1, FS_Subset
    <3>2. AreSums(of(V), f, V) /\ AreSums([W \in SUBSET V |-> of(U)[W]], f, V)
      BY <2>1, <2>2, <3>1, SumsOfSubset
    <3> HIDE DEF of
    <3>3. of(V) = [W \in SUBSET V |-> of(U)[W]]
      BY <3>1, <3>2, SumsAreUnique
    <3> QED
      BY <3>3
  <2>3. ASSUME NEW U \in SUBSET T, U # T PROVE of(U)[U] = below[U]
    <3>1. of(U)[U] = IF U = {} THEN 0 ELSE f[Some(U)] + of(U)[U \ {Some(U)}]
      <4>1. AreSums(of(U), f, U)
        BY <2>1, <2>3
      <4> HIDE DEF of
      <4> QED
        BY <4>1 DEF AreSums
    <3>2. of(U \ {Some(U)})[U \ {Some(U)}] = of(U)[U \ {Some(U)}]
      BY <2>2, <2>3
    <3> HIDE DEF of
    <3> QED
      BY <3>1, <3>2, <2>3
  <2>4. ASSUME NEW U \in SUBSET T, U # {}
        PROVE  of(U \ {Some(U)})[U \ {Some(U)}] = below[U \ {Some(U)}]
    <3>1. U \ {Some(U)} \in SUBSET T /\ U \ {Some(U)} # T
      BY <2>4, SomeIsOne
    <3> HIDE DEF of, below
    <3> QED
      BY <2>3, <3>1
  <2> HIDE DEF of
  <2>5. below = [U \in SUBSET T |-> IF U = {} THEN 0 ELSE f[Some(U)] + below[U \ {Some(U)}]]
    <3>1. \A U \in SUBSET T : below[U] = IF U = {} THEN 0 ELSE f[Some(U)] + below[U \ {Some(U)}]
      BY <2>4
    <3>2. below = [U \in SUBSET T |-> below[U]]
      OBVIOUS
    <3> HIDE DEF below
    <3> QED
      BY <3>1, <3>2
  <2>6. AreSums(below, f, T)
    BY <2>5 DEF AreSums
  <2> QED
    BY <2>6
<1> HIDE DEF Good
<1>2. S \in Good
  BY <1>1, SubsetInduction
<1> QED
  BY <1>2 DEF Good

\* The sum over no element, and over one of the elements and the rest.
LEMMA SumOfSome ==
  ASSUME NEW f, NEW S, IsFiniteSet(S)
  PROVE  SumOf(f, S) = IF S = {} THEN 0 ELSE f[Some(S)] + SumOf(f, S \ {Some(S)})
<1> DEFINE of(T) == CHOOSE sums : AreSums(sums, f, T)
           R == S \ {Some(S)}
<1>1. AreSums(of(S), f, S)
  BY SumsExist
<1>2. IsFiniteSet(R) /\ R \in SUBSET S
  BY FS_Subset
<1>3. AreSums(of(R), f, R)
  BY <1>2, SumsExist
<1>4. AreSums([T \in SUBSET R |-> of(S)[T]], f, R)
  <2> HIDE DEF of
  <2> QED
    BY <1>1, <1>2, SumsOfSubset
<1>5. SumOf(f, S) = of(S)[S] /\ SumOf(f, R) = of(R)[R]
  BY SumOfAsSums
<1> HIDE DEF of
<1>6. of(R) = [T \in SUBSET R |-> of(S)[T]]
  BY <1>2, <1>3, <1>4, SumsAreUnique
<1>7. of(S)[S] = IF S = {} THEN 0 ELSE f[Some(S)] + of(S)[R]
  BY <1>1 DEF AreSums
<1> QED
  BY <1>2, <1>5, <1>6, <1>7

\* Integers sum up to an integer, naturals to a natural.
LEMMA SumIsInt ==
  ASSUME NEW f, NEW S, IsFiniteSet(S), \A x \in S : f[x] \in Int
  PROVE  SumOf(f, S) \in Int
<1> DEFINE Good == {T \in SUBSET S : SumOf(f, T) \in Int}
<1>1. ASSUME NEW T \in SUBSET S, \A U \in SUBSET T : U # T => U \in Good
      PROVE  T \in Good
  <2>1. SumOf(f, T) = IF T = {} THEN 0 ELSE f[Some(T)] + SumOf(f, T \ {Some(T)})
    BY FS_Subset, SumOfSome
  <2>2. ASSUME T # {} PROVE SumOf(f, T \ {Some(T)}) \in Int /\ f[Some(T)] \in Int
    BY <1>1, <2>2, SomeIsOne
  <2> QED
    BY <2>1, <2>2
<1> HIDE DEF Good
<1>2. S \in Good
  BY <1>1, SubsetInduction
<1> QED
  BY <1>2 DEF Good

\* Any element may be taken first.
LEMMA SumTakesElement ==
  ASSUME NEW f, NEW S, IsFiniteSet(S), \A x \in S : f[x] \in Int, NEW x \in S
  PROVE  SumOf(f, S) = f[x] + SumOf(f, S \ {x})
<1> DEFINE Good == {T \in SUBSET S : \A y \in T : SumOf(f, T) = f[y] + SumOf(f, T \ {y})}
<1>1. ASSUME NEW T \in SUBSET S, \A U \in SUBSET T : U # T => U \in Good
      PROVE  T \in Good
  <2> SUFFICES ASSUME NEW y \in T PROVE SumOf(f, T) = f[y] + SumOf(f, T \ {y})
    OBVIOUS
  <2> DEFINE c == Some(T)
             rest == (T \ {c}) \ {y}
  <2>1. c \in T /\ SumOf(f, T) = f[c] + SumOf(f, T \ {c})
    BY FS_Subset, SumOfSome, SomeIsOne
  <2>2. CASE y = c
    BY <2>1, <2>2
  <2>3. CASE y # c
    <3> HIDE DEF c
    <3>1. T \ {c} \in Good /\ T \ {y} \in Good
      <4>1. T \ {c} # T /\ T \ {y} # T
        BY <2>1
      <4> HIDE DEF Good
      <4> QED
        BY <1>1, <4>1
    <3>2. SumOf(f, T \ {c}) = f[y] + SumOf(f, rest)
      BY <2>3, <3>1
    <3>3. (T \ {y}) \ {c} = rest
      OBVIOUS
    <3>4. SumOf(f, T \ {y}) = f[c] + SumOf(f, rest)
      BY <2>1, <2>3, <3>1, <3>3
    <3>5. f[c] \in Int /\ f[y] \in Int /\ SumOf(f, rest) \in Int
      <4>1. rest \in SUBSET S
        OBVIOUS
      <4>2. IsFiniteSet(rest)
        BY <4>1, FS_Subset
      <4> HIDE DEF rest
      <4> QED
        BY <2>1, <4>1, <4>2, SumIsInt
    <3> HIDE DEF rest, Good
    <3> QED
      BY <2>1, <3>2, <3>4, <3>5
  <2> QED
    BY <2>2, <2>3
<1> HIDE DEF Good
<1>2. S \in Good
  BY <1>1, SubsetInduction
<1> QED
  BY <1>2 DEF Good

\* One element more.
LEMMA SumAdds ==
  ASSUME NEW f, NEW S, IsFiniteSet(S), NEW x, x \notin S, \A y \in S \cup {x} : f[y] \in Int
  PROVE  SumOf(f, S \cup {x}) = f[x] + SumOf(f, S)
<1>1. IsFiniteSet(S \cup {x})
  BY FS_AddElement
<1>2. (S \cup {x}) \ {x} = S /\ x \in S \cup {x}
  OBVIOUS
<1> QED
  BY <1>1, <1>2, SumTakesElement

\* Nothing sums to zero.
LEMMA SumOfNothing ==
  ASSUME NEW f
  PROVE  SumOf(f, {}) = 0
BY FS_EmptySet, SumOfSome

\* A sum is between those of functions that are nowhere above it, and nowhere below.
LEMMA SumIsMonotonic ==
  ASSUME NEW S, IsFiniteSet(S), NEW f, NEW g,
         \A x \in S : f[x] \in Int /\ g[x] \in Int /\ f[x] <= g[x]
  PROVE  SumOf(f, S) <= SumOf(g, S)
<1> DEFINE Good == {T \in SUBSET S : SumOf(f, T) <= SumOf(g, T)}
<1>1. {} \in Good
  BY SumOfNothing
<1>2. ASSUME NEW T \in SUBSET S, NEW x \in S, T \in Good PROVE T \cup {x} \in Good
  <2>1. IsFiniteSet(T) /\ SumOf(f, T) <= SumOf(g, T)
    BY <1>2, FS_Subset
  <2>2. SumOf(f, T) \in Int /\ SumOf(g, T) \in Int
    BY <2>1, SumIsInt
  <2>3. CASE x \in T
    <3>1. T \cup {x} = T
      BY <2>3
    <3> QED
      BY <1>2, <3>1
  <2>4. CASE x \notin T
    <3>1. /\ SumOf(f, T \cup {x}) = f[x] + SumOf(f, T)
          /\ SumOf(g, T \cup {x}) = g[x] + SumOf(g, T)
      BY <2>1, <2>4, SumAdds
    <3> QED
      BY <2>1, <2>2, <3>1
  <2> QED
    BY <2>3, <2>4
<1> HIDE DEF Good
<1>3. S \in Good
  BY <1>1, <1>2, ElementInduction
<1> QED
  BY <1>3 DEF Good

\* A sum depends on the values of its function over the set only.
LEMMA SumOfEquals ==
  ASSUME NEW S, IsFiniteSet(S), NEW f, NEW g, \A x \in S : f[x] \in Int /\ f[x] = g[x]
  PROVE  SumOf(f, S) = SumOf(g, S)
<1>1. \A x \in S : g[x] \in Int /\ g[x] <= f[x] /\ f[x] <= g[x]
  OBVIOUS
<1>2. SumOf(f, S) <= SumOf(g, S) /\ SumOf(g, S) <= SumOf(f, S)
  BY <1>1, SumIsMonotonic
<1>3. SumOf(f, S) \in Int /\ SumOf(g, S) \in Int
  BY <1>1, SumIsInt
<1> QED
  BY <1>2, <1>3

\* Two sets without a common element.
LEMMA SumOfUnion ==
  ASSUME NEW S, IsFiniteSet(S), NEW T, IsFiniteSet(T), S \cap T = {},
         NEW f, \A x \in S \cup T : f[x] \in Int
  PROVE  SumOf(f, S \cup T) = SumOf(f, S) + SumOf(f, T)
<1> DEFINE Good == {U \in SUBSET T : SumOf(f, S \cup U) = SumOf(f, S) + SumOf(f, U)}
<1>1. {} \in Good
  <2>1. S \cup {} = S /\ SumOf(f, S) \in Int
    BY SumIsInt
  <2> QED
    BY <2>1, SumOfNothing
<1>2. ASSUME NEW U \in SUBSET T, NEW x \in T, U \in Good PROVE U \cup {x} \in Good
  <2>1. IsFiniteSet(U) /\ IsFiniteSet(S \cup U)
    BY FS_Subset, FS_Union
  <2>2. SumOf(f, U) \in Int /\ SumOf(f, S) \in Int /\ f[x] \in Int
    BY <2>1, SumIsInt
  <2>3. CASE x \in U
    <3>1. U \cup {x} = U
      BY <2>3
    <3> QED
      BY <1>2, <3>1
  <2>4. CASE x \notin U
    <3>1. SumOf(f, U \cup {x}) = f[x] + SumOf(f, U)
      BY <2>1, <2>4, SumAdds
    <3>2. x \notin S \cup U /\ S \cup (U \cup {x}) = (S \cup U) \cup {x}
      BY <2>4
    <3>3. \A y \in (S \cup U) \cup {x} : f[y] \in Int
      OBVIOUS
    <3>4. SumOf(f, (S \cup U) \cup {x}) = f[x] + SumOf(f, S \cup U)
      BY <2>1, <3>2, <3>3, SumAdds
    <3>5. SumOf(f, S \cup U) = SumOf(f, S) + SumOf(f, U)
      BY <1>2
    <3> DEFINE more == U \cup {x}
    <3> HIDE DEF more
    <3>6. SumOf(f, S \cup more) = SumOf(f, S) + SumOf(f, more)
      <4>1. S \cup more = (S \cup U) \cup {x}
        BY DEF more
      <4>2. SumOf(f, S \cup more) = f[x] + SumOf(f, S \cup U)
        BY <3>4, <4>1
      <4>3. SumOf(f, more) = f[x] + SumOf(f, U)
        BY <3>1 DEF more
      <4> QED
        BY <2>2, <3>5, <4>2, <4>3
    <3>7. more \in SUBSET T
      BY <1>2 DEF more
    <3>8. more \in Good
      BY <3>6, <3>7
    <3> QED
      BY <3>8 DEF more
  <2> QED
    BY <2>3, <2>4
<1> HIDE DEF Good
<1>3. T \in Good
  BY <1>1, <1>2, ElementInduction
<1> QED
  BY <1>3 DEF Good

\* Naturals sum up to a natural, and part of them to no more.
LEMMA SumOfNaturals ==
  ASSUME NEW S, IsFiniteSet(S), NEW f, \A x \in S : f[x] \in Nat
  PROVE  /\ SumOf(f, S) \in Nat
         /\ \A T \in SUBSET S : SumOf(f, T) \in Nat /\ SumOf(f, T) <= SumOf(f, S)
<1>1. ASSUME NEW T \in SUBSET S PROVE SumOf(f, T) \in Nat
  <2> DEFINE Good == {U \in SUBSET T : SumOf(f, U) \in Nat}
  <2>1. {} \in Good
    BY SumOfNothing
  <2>2. ASSUME NEW U \in SUBSET T, NEW x \in T, U \in Good PROVE U \cup {x} \in Good
    <3>1. IsFiniteSet(U)
      BY FS_Subset
    <3>2. CASE x \in U
      <4>1. U \cup {x} = U
        BY <3>2
      <4> QED
        BY <2>2, <4>1
    <3>3. CASE x \notin U
      <4>1. SumOf(f, U \cup {x}) = f[x] + SumOf(f, U)
        BY <3>1, <3>3, SumAdds
      <4> QED
        BY <2>2, <4>1
    <3> QED
      BY <3>2, <3>3
  <2>3. IsFiniteSet(T)
    BY FS_Subset
  <2> HIDE DEF Good
  <2>4. T \in Good
    BY <2>1, <2>2, <2>3, ElementInduction
  <2> QED
    BY <2>4 DEF Good
<1>2. ASSUME NEW T \in SUBSET S PROVE SumOf(f, T) <= SumOf(f, S)
  <2>1. IsFiniteSet(T) /\ IsFiniteSet(S \ T) /\ S = T \cup (S \ T) /\ T \cap (S \ T) = {}
    BY FS_Subset
  <2>2. SumOf(f, T \cup (S \ T)) = SumOf(f, T) + SumOf(f, S \ T)
    BY <2>1, SumOfUnion
  <2>3. SumOf(f, T) \in Nat /\ SumOf(f, S \ T) \in Nat
    BY <1>1
  <2>4. SumOf(f, S) = SumOf(f, T) + SumOf(f, S \ T)
    BY <2>1, <2>2
  <2> QED
    BY <2>3, <2>4
<1> QED
  BY <1>1, <1>2

\* One value changes.
LEMMA SumChanges ==
  ASSUME NEW S, IsFiniteSet(S), NEW f, NEW g, NEW x \in S,
         \A y \in S : f[y] \in Int /\ g[y] \in Int, \A y \in S \ {x} : g[y] = f[y]
  PROVE  SumOf(g, S) = SumOf(f, S) - f[x] + g[x]
<1>1. IsFiniteSet(S \ {x})
  BY FS_Subset
<1>2. SumOf(f, S) = f[x] + SumOf(f, S \ {x}) /\ SumOf(g, S) = g[x] + SumOf(g, S \ {x})
  BY SumTakesElement
<1>3. SumOf(f, S \ {x}) = SumOf(g, S \ {x})
  BY <1>1, SumOfEquals
<1>4. SumOf(f, S \ {x}) \in Int
  BY <1>1, SumIsInt
<1> QED
  BY <1>2, <1>3, <1>4

\* One value grows by one.
LEMMA SumGrows ==
  ASSUME NEW S, IsFiniteSet(S), NEW f, NEW g, NEW x, x \in S,
         \A y \in S : f[y] \in Int /\ g[y] \in Int, \A y \in S \ {x} : g[y] = f[y],
         g[x] = f[x] + 1
  PROVE  SumOf(g, S) = SumOf(f, S) + 1
<1>1. SumOf(g, S) = SumOf(f, S) - f[x] + g[x]
  BY SumChanges
<1>2. SumOf(f, S) \in Int /\ f[x] \in Int
  BY SumIsInt
<1> QED
  BY <1>1, <1>2

\* As many times a bound as there are elements.
LEMMA SumIsBounded ==
  ASSUME NEW S, IsFiniteSet(S), NEW f, NEW b \in Int, \A x \in S : f[x] \in Int /\ f[x] <= b
  PROVE  SumOf(f, S) <= b * Cardinality(S)
<1> DEFINE Good == {T \in SUBSET S : SumOf(f, T) <= b * Cardinality(T)}
<1>1. {} \in Good
  BY SumOfNothing, FS_EmptySet
<1>2. ASSUME NEW T \in SUBSET S, NEW x \in S, T \in Good PROVE T \cup {x} \in Good
  <2>1. IsFiniteSet(T)
    BY FS_Subset
  <2>2. SumOf(f, T) \in Int /\ Cardinality(T) \in Nat
    BY <2>1, SumIsInt, FS_CardinalityType
  <2>3. CASE x \in T
    <3>1. T \cup {x} = T
      BY <2>3
    <3> QED
      BY <1>2, <3>1
  <2>4. CASE x \notin T
    <3>1. SumOf(f, T \cup {x}) = f[x] + SumOf(f, T)
      BY <2>1, <2>4, SumAdds
    <3>2. Cardinality(T \cup {x}) = Cardinality(T) + 1
      BY <2>1, <2>4, FS_AddElement
    <3>3. b * (Cardinality(T) + 1) = b * Cardinality(T) + b
      BY <2>2
    <3>4. b * Cardinality(T) \in Int
      BY <2>2
    <3> QED
      BY <1>2, <2>2, <3>1, <3>2, <3>3, <3>4
  <2> QED
    BY <2>3, <2>4
<1> HIDE DEF Good
<1>3. S \in Good
  BY <1>1, <1>2, ElementInduction
<1> QED
  BY <1>3 DEF Good

-------------------------------------------------------------------------------
(* Greatest and least elements.                                            *)

\* A finite set of integers has a greatest element,
LEMMA GreatestExists ==
  ASSUME NEW S \in SUBSET Int, IsFiniteSet(S), S # {}
  PROVE  Max(S) \in S /\ \A x \in S : x <= Max(S)
<1> DEFINE Good == {T \in SUBSET S : T = {} \/ \E x \in T : \A y \in T : y <= x}
<1>1. {} \in Good
  OBVIOUS
<1>2. ASSUME NEW T \in SUBSET S, NEW x \in S, T \in Good PROVE T \cup {x} \in Good
  <2>1. CASE T = {}
    BY <2>1
  <2>2. CASE T # {}
    <3>1. PICK z \in T : \A y \in T : y <= z
      BY <1>2, <2>2
    <3>2. x \in Int /\ z \in Int /\ T \subseteq Int
      OBVIOUS
    <3>3. CASE x <= z
      BY <3>1, <3>2, <3>3
    <3>4. CASE z <= x
      <4>1. \A y \in T \cup {x} : y <= x
        BY <3>1, <3>2, <3>4
      <4> QED
        BY <4>1
    <3> QED
      BY <3>2, <3>3, <3>4
  <2> QED
    BY <2>1, <2>2
<1> HIDE DEF Good
<1>3. S \in Good
  BY <1>1, <1>2, ElementInduction
<1>4. \E x \in S : \A y \in S : y <= x
  BY <1>3 DEF Good
<1> QED
  BY <1>4 DEF Max

\* and a least one.
LEMMA LeastExists ==
  ASSUME NEW S \in SUBSET Int, IsFiniteSet(S), S # {}
  PROVE  Min(S) \in S /\ \A x \in S : Min(S) <= x
<1> DEFINE Good == {T \in SUBSET S : T = {} \/ \E x \in T : \A y \in T : x <= y}
<1>1. {} \in Good
  OBVIOUS
<1>2. ASSUME NEW T \in SUBSET S, NEW x \in S, T \in Good PROVE T \cup {x} \in Good
  <2>1. CASE T = {}
    BY <2>1
  <2>2. CASE T # {}
    <3>1. PICK z \in T : \A y \in T : z <= y
      BY <1>2, <2>2
    <3>2. x \in Int /\ z \in Int /\ T \subseteq Int
      OBVIOUS
    <3>3. CASE z <= x
      BY <3>1, <3>2, <3>3
    <3>4. CASE x <= z
      <4>1. \A y \in T \cup {x} : x <= y
        BY <3>1, <3>2, <3>4
      <4> QED
        BY <4>1
    <3> QED
      BY <3>2, <3>3, <3>4
  <2> QED
    BY <2>1, <2>2
<1> HIDE DEF Good
<1>3. S \in Good
  BY <1>1, <1>2, ElementInduction
<1>4. \E x \in S : \A y \in S : x <= y
  BY <1>3 DEF Good
<1> QED
  BY <1>4 DEF Min
\* The values of a function on a finite set are finitely many.
LEMMA ImageIsFinite ==
  ASSUME NEW f, NEW S, IsFiniteSet(S)
  PROVE  IsFiniteSet({f[x] : x \in S})
<1> DEFINE Good == {T \in SUBSET S : IsFiniteSet({f[x] : x \in T})}
<1>1. {} \in Good
  <2>1. {f[x] : x \in {}} = {}
    OBVIOUS
  <2> QED
    BY <2>1, FS_EmptySet
<1>2. ASSUME NEW T \in SUBSET S, NEW y \in S, T \in Good PROVE T \cup {y} \in Good
  <2>1. {f[x] : x \in T \cup {y}} = {f[x] : x \in T} \cup {f[y]}
    OBVIOUS
  <2>2. IsFiniteSet({f[x] : x \in T} \cup {f[y]})
    BY <1>2, FS_AddElement
  <2> QED
    BY <2>1, <2>2
<1> HIDE DEF Good
<1>3. S \in Good
  BY <1>1, <1>2, ElementInduction
<1> QED
  BY <1>3 DEF Good
===============================================================================
