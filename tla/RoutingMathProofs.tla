------------------------- MODULE RoutingMathProofs -------------------------
(***************************************************************************)
(* What the operators of RoutingMath compute, for any number of providers: *)
(* sums of functions over finite sets, the rounding of a plan, and what a  *)
(* plan does to the shares it starts from.  The theorems about the modules *)
(* that use them cite these lemmas.                                        *)
(*                                                                         *)
(* A sum is a fold, and a fold looks its result up in a table of the sums  *)
(* of all subsets; that the table exists, and that the order of summation  *)
(* does not matter, is shown by induction on the subsets of a finite set,  *)
(* stated with a set of subsets in place of a predicate.                   *)
(***************************************************************************)
EXTENDS RoutingMath, FiniteSetTheorems, WellFoundedInduction, TLAPS

-----------------------------------------------------------------------------
(* Induction, with a set in place of a predicate.                          *)

\* A set of subsets that has the empty one and grows by every element has all.
LEMMA SubsetInduction ==
    ASSUME NEW S, IsFiniteSet(S), NEW A, {} \in A,
           \A T \in SUBSET S, x \in S : T \in A => T \cup {x} \in A
    PROVE  S \in A
<1> DEFINE Bad == {T \in SUBSET S : T \notin A}
<1> SUFFICES ASSUME S \notin A PROVE FALSE
  OBVIOUS
<1>1. Bad \subseteq FiniteSubsetsOf(S) /\ Bad # {}
  BY FS_Subset DEF FiniteSubsetsOf
<1>2. PICK T \in Bad : \A U \in Bad : ~ (<<U, T>> \in StrictSubsetOrdering(S))
  BY <1>1, WFMin, FS_StrictSubsetOrderingWellFounded, Zenon
<1>3. PICK x \in T : TRUE
  OBVIOUS
<1>4. <<T \ {x}, T>> \in StrictSubsetOrdering(S)
  BY <1>3 DEF StrictSubsetOrdering
<1>5. T \ {x} \in A
  BY <1>2, <1>4
<1> QED
  BY <1>5, <1>3

\* A set that has zero and every successor has all natural numbers.
LEMMA Induction ==
    ASSUME NEW A, 0 \in A, \A n \in Nat : n \in A => n + 1 \in A
    PROVE  Nat \subseteq A
<1> SUFFICES ASSUME NEW n \in Nat PROVE n \in A
  OBVIOUS
<1> DEFINE B == {T \in SUBSET (1..n) : Cardinality(T) \in A}
<1>1. IsFiniteSet(1..n) /\ Cardinality(1..n) = n
  BY FS_Interval
<1>2. {} \in B
  BY FS_EmptySet
<1>3. ASSUME NEW T \in SUBSET (1..n), NEW x \in 1..n, T \in B
      PROVE  T \cup {x} \in B
  <2>1. IsFiniteSet(T) /\ Cardinality(T) \in Nat
    BY <1>1, FS_Subset, FS_CardinalityType
  <2>2. Cardinality(T \cup {x}) \in {Cardinality(T), Cardinality(T) + 1}
    BY <2>1, FS_AddElement
  <2> QED
    BY <1>3, <2>1, <2>2
<1>4. 1..n \in B
  <2> HIDE DEF B
  <2> QED BY <1>1, <1>2, <1>3, SubsetInduction
<1> QED
  BY <1>1, <1>4

-----------------------------------------------------------------------------
(* Sums of functions over finite sets.                                     *)

\* The recursion of a fold: an entry of the table of sums, from smaller ones.
RowOf(f, g, s) == IF s = {} THEN 0 ELSE LET x == CHOOSE x \in s : TRUE IN f[x] + g[s \ {x}]
IsTable(f, S, g) == g = [s \in SUBSET S |-> RowOf(f, g, s)]

\* The table exists: by induction on the size of the subsets it is right for.
LEMMA TableExists ==
    ASSUME NEW f, NEW S, IsFiniteSet(S)
    PROVE  \E g : IsTable(f, S, g)
<1> DEFINE A == {n \in Nat :
                   \E g : \A s \in SUBSET S : Cardinality(s) <= n => g[s] = RowOf(f, g, s)}
<1>1. \A s \in SUBSET S :
        IsFiniteSet(s) /\ Cardinality(s) \in Nat /\ (Cardinality(s) = 0 <=> s = {})
  BY FS_Subset, FS_CardinalityType, FS_EmptySet
<1>2. 0 \in A
  <2> DEFINE g == [s \in SUBSET S |-> 0]
  <2>1. \A s \in SUBSET S : Cardinality(s) <= 0 => g[s] = RowOf(f, g, s)
    BY <1>1 DEF RowOf
  <2> QED BY <2>1
<1>3. ASSUME NEW n \in Nat, n \in A PROVE n + 1 \in A
  <2>1. PICK g : \A s \in SUBSET S : Cardinality(s) <= n => g[s] = RowOf(f, g, s)
    BY <1>3
  <2> DEFINE h == [s \in SUBSET S |-> IF Cardinality(s) <= n THEN g[s] ELSE RowOf(f, g, s)]
  <2>2. ASSUME NEW s \in SUBSET S, Cardinality(s) <= n + 1
        PROVE  h[s] = RowOf(f, h, s)
    <3>1. CASE s = {}
      BY <3>1, <2>1, <1>1 DEF RowOf
    <3>2. CASE s # {}
      <4> DEFINE x == CHOOSE x \in s : TRUE
      <4>1. x \in s
        BY <3>2
      <4>2. s \ {x} \in SUBSET S /\ Cardinality(s \ {x}) = Cardinality(s) - 1
        BY <4>1, <1>1, FS_RemoveElement
      <4>3. h[s \ {x}] = g[s \ {x}]
        BY <4>2, <2>2, <1>1
      <4>4. h[s] = RowOf(f, g, s)
        BY <2>1
      <4> QED
        BY <4>3, <4>4, <3>2 DEF RowOf
    <3> QED BY <3>1, <3>2
  <2>3. \E k : \A s \in SUBSET S : Cardinality(s) <= n + 1 => k[s] = RowOf(f, k, s)
    <3> HIDE DEF h
    <3> QED BY <2>2
  <2> QED
    BY <2>3
<1>4. Cardinality(S) \in A
  <2> HIDE DEF A
  <2> QED BY <1>1, <1>2, <1>3, Induction
<1>5. PICK g : \A s \in SUBSET S : Cardinality(s) <= Cardinality(S) => g[s] = RowOf(f, g, s)
  BY <1>4
<1> DEFINE h == [s \in SUBSET S |-> g[s]]
<1>6. ASSUME NEW s \in SUBSET S PROVE h[s] = RowOf(f, h, s)
  <2>1. g[s] = RowOf(f, g, s)
    BY <1>5, FS_Subset
  <2> QED
    BY <2>1 DEF RowOf
<1>7. IsTable(f, S, h)
  BY <1>6 DEF IsTable
<1> QED
  BY <1>7

\* The table the fold of S looks its result up in.
TableOf(f, S) == CHOOSE g : IsTable(f, S, g)

\* SumFunctionOnSet is the last entry of its table.
LEMMA SumIsTabled ==
    ASSUME NEW f, NEW S
    PROVE  SumFunctionOnSet(f, S) = TableOf(f, S)[S]
BY DEF SumFunctionOnSet, FoldFunctionOnSet, MapThenFoldSet, IsTable, RowOf, TableOf

\* The entries of the table satisfy the recursion.
LEMMA Tabled ==
    ASSUME NEW f, NEW S, IsFiniteSet(S), NEW s \in SUBSET S
    PROVE  TableOf(f, S)[s] = RowOf(f, TableOf(f, S), s)
<1>1. IsTable(f, S, TableOf(f, S))
  BY TableExists DEF TableOf
<1> QED
  BY <1>1 DEF IsTable

\* Two tables agree where both have a row.
LEMMA TablesAgree ==
    ASSUME NEW f, NEW S, IsFiniteSet(S), NEW T \in SUBSET S
    PROVE  TableOf(f, S)[T] = TableOf(f, T)[T]
<1> DEFINE A == {n \in Nat :
                   \A s \in SUBSET T : Cardinality(s) <= n => TableOf(f, S)[s] = TableOf(f, T)[s]}
<1>1. \A s \in SUBSET T :
        IsFiniteSet(s) /\ Cardinality(s) \in Nat /\ (Cardinality(s) = 0 <=> s = {})
  BY FS_Subset, FS_CardinalityType, FS_EmptySet
<1>2. \A s \in SUBSET T : /\ TableOf(f, S)[s] = RowOf(f, TableOf(f, S), s)
                          /\ TableOf(f, T)[s] = RowOf(f, TableOf(f, T), s)
  BY Tabled, <1>1
<1>3. 0 \in A
  BY <1>1, <1>2 DEF RowOf
<1>4. ASSUME NEW n \in Nat, n \in A PROVE n + 1 \in A
  <2>1. ASSUME NEW s \in SUBSET T, Cardinality(s) <= n + 1, s # {}
        PROVE  TableOf(f, S)[s] = TableOf(f, T)[s]
    <3> DEFINE x == CHOOSE x \in s : TRUE
    <3>1. x \in s
      BY <2>1
    <3>2. s \ {x} \in SUBSET T /\ Cardinality(s \ {x}) <= n
      BY <3>1, <1>1, <2>1, FS_RemoveElement
    <3>3. TableOf(f, S)[s \ {x}] = TableOf(f, T)[s \ {x}]
      BY <3>2, <1>4
    <3> QED
      BY <3>3, <1>2, <2>1 DEF RowOf
  <2>2. TableOf(f, S)[{}] = TableOf(f, T)[{}]
    BY <1>2 DEF RowOf
  <2>3. \A s \in SUBSET T : Cardinality(s) <= n + 1 => TableOf(f, S)[s] = TableOf(f, T)[s]
    BY <2>1, <2>2
  <2> QED
    BY <2>3
<1>5. Cardinality(T) \in A
  <2> HIDE DEF A
  <2> QED BY <1>1, <1>3, <1>4, Induction
<1> QED
  BY <1>5, <1>1

\* The sum over no elements.
LEMMA SumEmpty == ASSUME NEW f PROVE SumFunctionOnSet(f, {}) = 0
BY SumIsTabled, Tabled, FS_EmptySet DEF RowOf

\* The fold takes out some element first.
LEMMA SumChosen ==
    ASSUME NEW f, NEW S, IsFiniteSet(S), S # {}
    PROVE  \E x \in S : SumFunctionOnSet(f, S) = f[x] + SumFunctionOnSet(f, S \ {x})
<1> DEFINE x == CHOOSE x \in S : TRUE
<1>1. x \in S
  OBVIOUS
<1>2. SumFunctionOnSet(f, S) = f[x] + TableOf(f, S)[S \ {x}]
  BY SumIsTabled, Tabled DEF RowOf
<1>3. TableOf(f, S)[S \ {x}] = SumFunctionOnSet(f, S \ {x})
  BY TablesAgree, SumIsTabled
<1> QED
  BY <1>1, <1>2, <1>3

\* A sum of integers is an integer.
LEMMA SumType ==
    ASSUME NEW f, NEW S, IsFiniteSet(S), \A x \in S : f[x] \in Int
    PROVE  SumFunctionOnSet(f, S) \in Int
<1> DEFINE A == {n \in Nat :
                   \A s \in SUBSET S : Cardinality(s) = n => SumFunctionOnSet(f, s) \in Int}
<1>1. \A s \in SUBSET S :
        IsFiniteSet(s) /\ Cardinality(s) \in Nat /\ (Cardinality(s) = 0 <=> s = {})
  BY FS_Subset, FS_CardinalityType, FS_EmptySet
<1>2. 0 \in A
  BY <1>1, SumEmpty
<1>3. ASSUME NEW n \in Nat, n \in A PROVE n + 1 \in A
  <2>1. ASSUME NEW s \in SUBSET S, Cardinality(s) = n + 1
        PROVE  SumFunctionOnSet(f, s) \in Int
    <3>1. PICK x \in s : SumFunctionOnSet(f, s) = f[x] + SumFunctionOnSet(f, s \ {x})
      BY <1>1, <2>1, SumChosen
    <3>2. s \ {x} \in SUBSET S /\ Cardinality(s \ {x}) = n
      BY <1>1, <2>1, FS_RemoveElement
    <3> QED
      BY <3>1, <3>2, <1>3
  <2> QED BY <2>1
<1>4. Cardinality(S) \in A
  <2> HIDE DEF A
  <2> QED BY <1>1, <1>2, <1>3, Induction
<1> QED
  BY <1>4

\* Any element may be taken out first.
LEMMA SumRemove ==
    ASSUME NEW f, NEW S, IsFiniteSet(S), \A x \in S : f[x] \in Int, NEW x \in S
    PROVE  SumFunctionOnSet(f, S) = f[x] + SumFunctionOnSet(f, S \ {x})
<1> DEFINE A == {n \in Nat : \A s \in SUBSET S, y \in S :
                   Cardinality(s) = n /\ y \in s =>
                     SumFunctionOnSet(f, s) = f[y] + SumFunctionOnSet(f, s \ {y})}
<1>1. \A s \in SUBSET S :
        IsFiniteSet(s) /\ Cardinality(s) \in Nat /\ (Cardinality(s) = 0 <=> s = {})
  BY FS_Subset, FS_CardinalityType, FS_EmptySet
<1>2. 0 \in A
  BY <1>1
<1>3. ASSUME NEW n \in Nat, n \in A PROVE n + 1 \in A
  <2>1. ASSUME NEW s \in SUBSET S, NEW y \in s, Cardinality(s) = n + 1
        PROVE  SumFunctionOnSet(f, s) = f[y] + SumFunctionOnSet(f, s \ {y})
    <3>1. PICK z \in s : SumFunctionOnSet(f, s) = f[z] + SumFunctionOnSet(f, s \ {z})
      BY <1>1, <2>1, SumChosen
    <3>2. CASE z = y
      BY <3>1, <3>2
    <3>3. CASE z # y
      <4> IsFiniteSet(s) /\ Cardinality(s) \in Nat
        BY <1>1
      <4>1. Cardinality(s \ {z}) = n /\ Cardinality(s \ {y}) = n
        <5>1. Cardinality(s \ {z}) = Cardinality(s) - 1
          BY FS_RemoveElement
        <5>2. Cardinality(s \ {y}) = Cardinality(s) - 1
          BY FS_RemoveElement
        <5> QED BY <5>1, <5>2, <2>1
      <4>2. SumFunctionOnSet(f, s \ {z}) = f[y] + SumFunctionOnSet(f, (s \ {z}) \ {y})
        BY <4>1, <3>3, <1>3
      <4>3. SumFunctionOnSet(f, s \ {y}) = f[z] + SumFunctionOnSet(f, (s \ {y}) \ {z})
        BY <4>1, <3>3, <1>3
      <4>4. (s \ {y}) \ {z} = (s \ {z}) \ {y}
        OBVIOUS
      <4>5. f[y] \in Int /\ f[z] \in Int /\ SumFunctionOnSet(f, (s \ {y}) \ {z}) \in Int
        BY SumType, <1>1
      <4>6. \A a, b, c \in Int : a + (b + c) = b + (a + c)
        OBVIOUS
      <4>7. SumFunctionOnSet(f, s) = f[z] + (f[y] + SumFunctionOnSet(f, (s \ {y}) \ {z}))
        BY <3>1, <4>2, <4>4
      <4> QED
        BY <4>3, <4>5, <4>6, <4>7
    <3> QED BY <3>2, <3>3
  <2> QED BY <2>1
<1>4. Cardinality(S) \in A
  <2> HIDE DEF A
  <2> QED BY <1>1, <1>2, <1>3, Induction
<1> QED
  BY <1>4

\* The sum over one element more.
LEMMA SumAdd ==
    ASSUME NEW f, NEW S, IsFiniteSet(S), NEW x, x \notin S, \A y \in S \cup {x} : f[y] \in Int
    PROVE  SumFunctionOnSet(f, S \cup {x}) = f[x] + SumFunctionOnSet(f, S)
<1>1. IsFiniteSet(S \cup {x}) /\ (S \cup {x}) \ {x} = S
  BY FS_AddElement
<1> QED
  BY <1>1, SumRemove

\* Functions that agree on a set have the same sum there.
LEMMA SumSame ==
    ASSUME NEW f, NEW g, NEW S, IsFiniteSet(S), \A x \in S : f[x] = g[x] /\ f[x] \in Int
    PROVE  SumFunctionOnSet(f, S) = SumFunctionOnSet(g, S)
<1> DEFINE A == {s \in SUBSET S : SumFunctionOnSet(f, s) = SumFunctionOnSet(g, s)}
<1>1. {} \in A
  BY SumEmpty
<1>2. ASSUME NEW s \in SUBSET S, NEW x \in S, s \in A PROVE s \cup {x} \in A
  <2>1. CASE x \in s
    BY <2>1, <1>2
  <2>2. CASE x \notin s
    <3>1. IsFiniteSet(s)
      BY FS_Subset
    <3>2. SumFunctionOnSet(f, s \cup {x}) = f[x] + SumFunctionOnSet(f, s)
      BY <2>2, <3>1, SumAdd
    <3>3. SumFunctionOnSet(g, s \cup {x}) = g[x] + SumFunctionOnSet(g, s)
      BY <2>2, <3>1, SumAdd
    <3> QED
      BY <3>2, <3>3, <1>2
  <2> QED BY <2>1, <2>2
<1>3. S \in A
  <2> HIDE DEF A
  <2> QED BY <1>1, <1>2, SubsetInduction
<1> QED
  BY <1>3

\* Sums of sums.
LEMMA SumPlus ==
    ASSUME NEW f, NEW g, NEW h, NEW S, IsFiniteSet(S),
           \A x \in S : f[x] \in Int /\ g[x] \in Int /\ h[x] = f[x] + g[x]
    PROVE  SumFunctionOnSet(h, S) = SumFunctionOnSet(f, S) + SumFunctionOnSet(g, S)
<1> DEFINE A == {s \in SUBSET S :
                   SumFunctionOnSet(h, s) = SumFunctionOnSet(f, s) + SumFunctionOnSet(g, s)}
<1>1. {} \in A
  BY SumEmpty
<1>2. ASSUME NEW s \in SUBSET S, NEW x \in S, s \in A PROVE s \cup {x} \in A
  <2>1. CASE x \in s
    BY <2>1, <1>2
  <2>2. CASE x \notin s
    <3>1. IsFiniteSet(s)
      BY FS_Subset
    <3>2. /\ SumFunctionOnSet(f, s \cup {x}) = f[x] + SumFunctionOnSet(f, s)
          /\ SumFunctionOnSet(g, s \cup {x}) = g[x] + SumFunctionOnSet(g, s)
          /\ SumFunctionOnSet(h, s \cup {x}) = h[x] + SumFunctionOnSet(h, s)
      BY <2>2, <3>1, SumAdd
    <3>3. SumFunctionOnSet(f, s) \in Int /\ SumFunctionOnSet(g, s) \in Int
      BY <3>1, SumType
    <3> QED
      BY <3>2, <3>3, <1>2
  <2> QED BY <2>1, <2>2
<1>3. S \in A
  <2> HIDE DEF A
  <2> QED BY <1>1, <1>2, SubsetInduction
<1> QED
  BY <1>3

\* Sums of multiples.
LEMMA SumScale ==
    ASSUME NEW f, NEW h, NEW a \in Int, NEW S, IsFiniteSet(S),
           \A x \in S : f[x] \in Int /\ h[x] = a * f[x]
    PROVE  SumFunctionOnSet(h, S) = a * SumFunctionOnSet(f, S)
<1> DEFINE A == {s \in SUBSET S : SumFunctionOnSet(h, s) = a * SumFunctionOnSet(f, s)}
<1>1. {} \in A
  BY SumEmpty
<1>2. ASSUME NEW s \in SUBSET S, NEW x \in S, s \in A PROVE s \cup {x} \in A
  <2>1. CASE x \in s
    BY <2>1, <1>2
  <2>2. CASE x \notin s
    <3>1. IsFiniteSet(s)
      BY FS_Subset
    <3>2. /\ SumFunctionOnSet(f, s \cup {x}) = f[x] + SumFunctionOnSet(f, s)
          /\ SumFunctionOnSet(h, s \cup {x}) = a * f[x] + SumFunctionOnSet(h, s)
      <4>1. \A y \in S : h[y] \in Int
        OBVIOUS
      <4> QED BY <2>2, <3>1, <4>1, SumAdd
    <3>3. SumFunctionOnSet(f, s) \in Int /\ f[x] \in Int
      BY <3>1, SumType
    <3>4. \A y, z \in Int : a * (y + z) = a * y + a * z
      OBVIOUS
    <3>5. SumFunctionOnSet(h, s \cup {x}) = a * SumFunctionOnSet(f, s \cup {x})
      BY <3>2, <3>3, <3>4, <1>2
    <3> QED
      BY <3>5
  <2> QED BY <2>1, <2>2
<1>3. S \in A
  <2> HIDE DEF A
  <2> QED BY <1>1, <1>2, SubsetInduction
<1> QED
  BY <1>3

\* Only the elements that are not cleared count.
LEMMA SumRestrict ==
    ASSUME NEW f, NEW g, NEW S, IsFiniteSet(S), NEW T \in SUBSET S,
           \A x \in S : f[x] \in Int /\ g[x] = IF x \in T THEN f[x] ELSE 0
    PROVE  SumFunctionOnSet(g, S) = SumFunctionOnSet(f, T)
<1> DEFINE A == {s \in SUBSET S : SumFunctionOnSet(g, s) = SumFunctionOnSet(f, s \cap T)}
<1>1. {} \in A
  <2>1. {} \cap T = {}
    OBVIOUS
  <2> QED BY <2>1, SumEmpty
<1>2. ASSUME NEW s \in SUBSET S, NEW x \in S, s \in A PROVE s \cup {x} \in A
  <2>1. CASE x \in s
    BY <2>1, <1>2
  <2>2. CASE x \notin s
    <3>1. IsFiniteSet(s) /\ IsFiniteSet(s \cap T)
      BY FS_Subset
    <3>2. SumFunctionOnSet(g, s \cup {x}) = g[x] + SumFunctionOnSet(g, s)
      BY <2>2, <3>1, SumAdd
    <3>3. CASE x \in T
      <4>1. (s \cup {x}) \cap T = (s \cap T) \cup {x}
        BY <3>3
      <4>2. SumFunctionOnSet(f, (s \cap T) \cup {x}) = f[x] + SumFunctionOnSet(f, s \cap T)
        BY <2>2, <3>1, SumAdd
      <4> QED
        BY <3>2, <3>3, <4>1, <4>2, <1>2
    <3>4. CASE x \notin T
      <4>1. (s \cup {x}) \cap T = s \cap T
        BY <3>4
      <4>2. SumFunctionOnSet(g, s) \in Int
        BY <3>1, SumType
      <4>3. g[x] = 0
        BY <3>4
      <4>4. SumFunctionOnSet(g, s \cup {x}) = SumFunctionOnSet(g, s)
        BY <3>2, <4>2, <4>3
      <4> QED
        BY <4>1, <4>4, <1>2
    <3> QED BY <3>3, <3>4
  <2> QED BY <2>1, <2>2
<1>3. S \in A
  <2> HIDE DEF A
  <2> QED BY <1>1, <1>2, SubsetInduction
<1>4. S \cap T = T
  OBVIOUS
<1> QED
  BY <1>3, <1>4

\* A sum of numbers between 0 and b.
LEMMA SumBound ==
    ASSUME NEW f, NEW S, IsFiniteSet(S), NEW b \in Nat, \A x \in S : f[x] \in 0..b
    PROVE  /\ SumFunctionOnSet(f, S) \in Nat
           /\ SumFunctionOnSet(f, S) <= Cardinality(S) * b
<1> DEFINE A == {s \in SUBSET S : /\ SumFunctionOnSet(f, s) \in Nat
                                 /\ SumFunctionOnSet(f, s) <= Cardinality(s) * b}
<1>1. {} \in A
  BY SumEmpty, FS_EmptySet
<1>2. ASSUME NEW s \in SUBSET S, NEW x \in S, s \in A PROVE s \cup {x} \in A
  <2>1. CASE x \in s
    BY <2>1, <1>2
  <2>2. CASE x \notin s
    <3>1. IsFiniteSet(s) /\ Cardinality(s) \in Nat
      BY FS_Subset, FS_CardinalityType
    <3>2. SumFunctionOnSet(f, s \cup {x}) = f[x] + SumFunctionOnSet(f, s)
      BY <2>2, <3>1, SumAdd
    <3>3. Cardinality(s \cup {x}) = Cardinality(s) + 1
      BY <2>2, <3>1, FS_AddElement
    <3>4. \A n \in Nat : (n + 1) * b = n * b + b /\ n * b \in Nat
      OBVIOUS
    <3>5. (Cardinality(s) + 1) * b = Cardinality(s) * b + b /\ Cardinality(s) * b \in Nat
      BY <3>1, <3>4
    <3> QED
      BY <3>2, <3>3, <3>5, <1>2
  <2> QED BY <2>1, <2>2
<1>3. S \in A
  <2> HIDE DEF A
  <2> QED BY <1>1, <1>2, SubsetInduction
<1> QED
  BY <1>3

\* A sum of natural numbers is at least each of them.
LEMMA SumNat ==
    ASSUME NEW f, NEW S, IsFiniteSet(S), \A x \in S : f[x] \in Nat
    PROVE  /\ SumFunctionOnSet(f, S) \in Nat
           /\ \A x \in S : f[x] <= SumFunctionOnSet(f, S)
<1> DEFINE A == {s \in SUBSET S : SumFunctionOnSet(f, s) \in Nat}
<1>1. {} \in A
  BY SumEmpty
<1>2. ASSUME NEW s \in SUBSET S, NEW x \in S, s \in A PROVE s \cup {x} \in A
  <2>1. CASE x \in s
    BY <2>1, <1>2
  <2>2. CASE x \notin s
    <3>1. IsFiniteSet(s)
      BY FS_Subset
    <3>2. SumFunctionOnSet(f, s \cup {x}) = f[x] + SumFunctionOnSet(f, s)
      BY <2>2, <3>1, SumAdd
    <3> QED
      BY <3>2, <1>2
  <2> QED BY <2>1, <2>2
<1>3. SUBSET S \subseteq A
  <2>1. ASSUME NEW T \in SUBSET S PROVE T \in A
    <3> IsFiniteSet(T)
      BY FS_Subset
    <3> HIDE DEF A
    <3> QED BY <1>1, <1>2, SubsetInduction
  <2> QED BY <2>1
<1>4. ASSUME NEW x \in S PROVE f[x] <= SumFunctionOnSet(f, S)
  <2>1. SumFunctionOnSet(f, S) = f[x] + SumFunctionOnSet(f, S \ {x})
    BY SumRemove
  <2>2. SumFunctionOnSet(f, S \ {x}) \in Nat
    BY <1>3
  <2> QED
    BY <2>1, <2>2
<1>5. S \in A
  BY <1>3
<1> QED
  BY <1>4, <1>5

\* Ones add up to the size of the set.
LEMMA SumOfOnes ==
    ASSUME NEW f, NEW S, IsFiniteSet(S), \A x \in S : f[x] = 1
    PROVE  SumFunctionOnSet(f, S) = Cardinality(S)
<1> DEFINE A == {s \in SUBSET S : SumFunctionOnSet(f, s) = Cardinality(s)}
<1>1. {} \in A
  BY SumEmpty, FS_EmptySet
<1>2. ASSUME NEW s \in SUBSET S, NEW x \in S, s \in A PROVE s \cup {x} \in A
  <2>1. CASE x \in s
    BY <2>1, <1>2
  <2>2. CASE x \notin s
    <3>1. IsFiniteSet(s) /\ Cardinality(s) \in Nat
      BY FS_Subset, FS_CardinalityType
    <3>2. SumFunctionOnSet(f, s \cup {x}) = f[x] + SumFunctionOnSet(f, s)
      BY <2>2, <3>1, SumAdd
    <3>3. Cardinality(s \cup {x}) = Cardinality(s) + 1
      BY <2>2, <3>1, FS_AddElement
    <3> QED
      BY <3>1, <3>2, <3>3, <1>2
  <2> QED BY <2>1, <2>2
<1>3. S \in A
  <2> HIDE DEF A
  <2> QED BY <1>1, <1>2, SubsetInduction
<1> QED
  BY <1>3

-----------------------------------------------------------------------------
(* roundPctToInt100.                                                        *)

\* Quotient and remainder.
LEMMA Division ==
    ASSUME NEW a \in Nat, NEW d \in Nat \ {0}
    PROVE  /\ a \div d \in Nat /\ a % d \in 0..(d - 1)
           /\ a = d * (a \div d) + (a % d)
OBVIOUS

\* How many providers there are.
Count == Cardinality(Providers)

\* Between one and a hundred.
LEMMA CountType == Count \in Nat /\ 0 < Count /\ Count <= 100
BY ProvidersAssumption, FewProviders, FS_CardinalityType, FS_EmptySet DEF Count

\* With fewer points to hand out than providers each gets one or none.
LEMMA OneRound ==
    ASSUME NEW i \in 1..Count, NEW n \in 0..(Count - 1)
    PROVE  Visits(i, n) = IF i <= n THEN 1 ELSE 0
<1>1. \A k \in 0..(n - 1) : k % Count = k
  BY CountType
<1>2. CASE i <= n
  <2>1. {k \in 0..(n - 1) : k % Count = i - 1} = {i - 1}
    BY <1>1, <1>2, CountType
  <2> QED
    BY <2>1, <1>2, FS_Singleton DEF Visits, Count
<1>3. CASE ~(i <= n)
  <2>1. {k \in 0..(n - 1) : k % Count = i - 1} = {}
    BY <1>1, <1>3, CountType
  <2> QED
    BY <2>1, <1>3, FS_EmptySet DEF Visits, Count
<1> QED
  BY <1>2, <1>3

\* The first n providers of an order are n providers.
LEMMA FirstOnes ==
    ASSUME NEW o \in Bijection(1..Count, Providers), NEW n \in 0..Count
    PROVE  /\ IsFiniteSet({o[i] : i \in 1..n})
           /\ Cardinality({o[i] : i \in 1..n}) = n
<1> DEFINE T == {o[i] : i \in 1..n}
           g == [i \in 1..n |-> o[i]]
<1>1. \A i \in 1..n : i \in 1..Count
  BY CountType
<1>2. g \in Bijection(1..n, T)
  <2>1. \A i, j \in 1..n : g[i] = g[j] => i = j
    BY <1>1 DEF Bijection, Injection, IsInjective
  <2>2. g \in [1..n -> T]
    OBVIOUS
  <2>3. \A t \in T : \E i \in 1..n : g[i] = t
    OBVIOUS
  <2> QED
    BY <2>1, <2>2, <2>3 DEF Bijection, Injection, Surjection, IsInjective
<1>3. IsFiniteSet(1..n) /\ Cardinality(1..n) = n
  BY FS_Interval, CountType
<1>4. ExistsBijection(1..n, T)
  BY <1>2 DEF ExistsBijection
<1> HIDE DEF T
<1> QED
  BY <1>3, <1>4, FS_Bijection DEF T

\* Products of natural numbers.
LEMMA Times ==
    ASSUME NEW a \in Nat, NEW b \in Nat, NEW d \in Nat
    PROVE  /\ d * a \in Nat /\ d * (a + b) = d * a + d * b
           /\ a <= b => d * a <= d * b
<1>1. d * a \in Nat /\ d * (a + b) = d * a + d * b
  OBVIOUS
<1>2. ASSUME a <= b PROVE d * a <= d * b
  <2>1. b - a \in Nat /\ b = a + (b - a)
    BY <1>2
  <2>2. \A x, y \in Nat : d * (x + y) = d * x + d * y /\ d * y \in Nat /\ d * x \in Nat
    OBVIOUS
  <2>3. d * b = d * a + d * (b - a) /\ d * (b - a) \in Nat /\ d * a \in Nat
    BY <2>1, <2>2
  <2> QED
    BY <2>3
<1> QED
  BY <1>1, <1>2

\* Exact shares num/den that add up to 100%.
Whole(num, den) ==
    /\ num \in [Providers -> Nat] /\ den \in Nat \ {0}
    /\ SumFunctionOnSet(num, Providers) = 100 * den

\* Floors and remainders of such shares, in points, and the points left over.
Divided(num, den, base, rem) ==
    /\ base \in [Providers -> Nat] /\ rem \in [Providers -> 0..(den - 1)]
    /\ \A p \in Providers : num[p] = den * base[p] + rem[p]
Missing(base) == 100 - SumFunctionOnSet(base, Providers)

\* Floors leave fewer points over than there are providers.
FewMissing(den, base, rem) ==
    /\ SumFunctionOnSet(base, Providers) \in 1..100
    /\ Missing(base) \in 0..(Count - 1)
    /\ SumFunctionOnSet(rem, Providers) = den * Missing(base)

\* What is left after the floors, for shares that add up to 100%.
LEMMA Floors ==
    ASSUME NEW num, NEW den, NEW base, NEW rem, Whole(num, den), Divided(num, den, base, rem)
    PROVE  FewMissing(den, base, rem)
<1> USE DEF Whole, Divided
<1> DEFINE B == SumFunctionOnSet(base, Providers)
           R == SumFunctionOnSet(rem, Providers)
           whole == [p \in Providers |-> den * base[p]]
<1>1. IsFiniteSet(Providers)
  BY ProvidersAssumption
<1>2. \A p \in Providers : base[p] \in Nat /\ rem[p] \in 0..(den - 1) /\ rem[p] \in Int
  OBVIOUS
<1>3. B \in Nat
  BY <1>1, <1>2, SumNat
<1>4. den - 1 \in Nat
  OBVIOUS
<1>5. R \in Nat /\ R <= Count * (den - 1)
  BY <1>1, <1>2, <1>4, SumBound DEF Count
<1>6. SumFunctionOnSet(whole, Providers) = den * B
  <2>1. \A p \in Providers : base[p] \in Int /\ whole[p] = den * base[p]
    OBVIOUS
  <2> HIDE DEF whole
  <2> QED
    BY <1>1, <2>1, SumScale
<1>7. SumFunctionOnSet(num, Providers) = SumFunctionOnSet(whole, Providers) + R
  <2>1. \A p \in Providers : whole[p] \in Int /\ rem[p] \in Int /\ num[p] = whole[p] + rem[p]
    BY <1>2, Times
  <2> HIDE DEF whole
  <2> QED
    BY <1>1, <2>1, SumPlus
<1>8. den * 100 = den * B + R
  BY <1>6, <1>7
<1> HIDE DEF B, R, whole
<1>9. B <= 100
  <2>1. SUFFICES ASSUME ~(B <= 100) PROVE FALSE
    OBVIOUS
  <2>2. den * 101 <= den * B
    BY <2>1, <1>3, Times
  <2>3. den * 101 = den * 100 + den /\ den * B \in Nat
    BY <1>3, Times
  <2> QED
    BY <2>2, <2>3, <1>5, <1>8
<1>10. 100 - B \in Nat /\ den * 100 = den * B + den * (100 - B)
  <2>1. 100 - B \in Nat /\ 100 = B + (100 - B)
    BY <1>3, <1>9
  <2> QED
    BY <1>3, <2>1, Times
<1>11. R = den * (100 - B)
  <2>1. den * B \in Nat /\ den * (100 - B) \in Nat
    BY <1>3, <1>10, Times
  <2> QED
    BY <1>5, <1>8, <1>10, <2>1
<1>12. 100 - B < Count
  <2>1. SUFFICES ASSUME Count <= 100 - B PROVE FALSE
    BY <1>10, CountType
  <2>2. den * Count <= den * (100 - B)
    BY <2>1, <1>10, CountType, Times
  <2>3. Count * (den - 1) < den * Count
    <3>1. \A n \in Nat : n * (den - 1) = den * n - n
      OBVIOUS
    <3>2. Count * (den - 1) = den * Count - Count /\ den * Count \in Nat
      BY <3>1, CountType, Times
    <3> QED
      BY <3>2, CountType
  <2>4. Count * (den - 1) \in Nat /\ den * Count \in Nat /\ den * (100 - B) \in Nat
    BY <1>4, <1>10, CountType, Times
  <2> QED
    BY <1>5, <1>11, <2>2, <2>3, <2>4
<1>13. B \in 1..100
  BY <1>3, <1>9, <1>12, CountType
<1> QED
  BY <1>10, <1>11, <1>12, <1>13, CountType DEF B, R, FewMissing, Missing

\* An order by remainder, largest first.
Sorted(o, rem) ==
    /\ o \in Bijection(1..Count, Providers)
    /\ \A i, j \in 1..Count : i < j => rem[o[i]] >= rem[o[j]]

\* Points go to remainders above zero: there are more of those than points.
LEMMA PointsToRemainders ==
    ASSUME NEW den \in Nat \ {0}, NEW base, NEW rem \in [Providers -> 0..(den - 1)],
           FewMissing(den, base, rem), NEW o, Sorted(o, rem),
           NEW j \in 1..Missing(base)
    PROVE  rem[o[j]] > 0
<1> DEFINE gap == Missing(base)
<1>0. /\ gap \in 0..(Count - 1) /\ j \in 1..gap
      /\ SumFunctionOnSet(rem, Providers) = den * gap
  BY DEF FewMissing
<1> USE DEF Sorted
<1> HIDE DEF gap
<1> DEFINE T == {o[i] : i \in 1..(j - 1)}
<1>1. j \in 1..Count /\ j - 1 \in 0..Count /\ j - 1 \in Nat /\ den - 1 \in Nat
  BY <1>0, CountType
<1>2. /\ o \in [1..Count -> Providers]
      /\ \A p \in Providers : \E i \in 1..Count : o[i] = p
  BY DEF Bijection, Injection, Surjection
<1>3. SUFFICES ASSUME rem[o[j]] = 0 PROVE FALSE
  BY <1>1, <1>2
<1>4. T \subseteq Providers /\ IsFiniteSet(T) /\ Cardinality(T) = j - 1
  <2>1. \A i \in 1..(j - 1) : i \in 1..Count
    BY <1>1, CountType
  <2>2. T \subseteq Providers
    BY <1>2, <2>1
  <2>3. IsFiniteSet(T) /\ Cardinality(T) = j - 1
    BY <1>1, FirstOnes
  <2> QED
    BY <2>2, <2>3
<1>5. ASSUME NEW p \in Providers, p \notin T PROVE rem[p] = 0
  <2>1. PICK i \in 1..Count : o[i] = p
    BY <1>2
  <2>2. i >= j
    BY <1>5, <2>1, <1>1
  <2>3. rem[p] <= 0
    BY <1>1, <1>3, <2>1, <2>2
  <2> QED
    BY <2>3
<1> HIDE DEF T
<1>6. SumFunctionOnSet(rem, Providers) = SumFunctionOnSet(rem, T)
  <2>1. \A p \in Providers : rem[p] \in Int /\ rem[p] = IF p \in T THEN rem[p] ELSE 0
    BY <1>5
  <2> QED
    BY <1>4, <2>1, ProvidersAssumption, SumRestrict
<1>7. SumFunctionOnSet(rem, T) <= (j - 1) * (den - 1) /\ SumFunctionOnSet(rem, T) \in Nat
  <2>1. \A p \in T : rem[p] \in 0..(den - 1)
    BY <1>4
  <2> QED
    BY <1>1, <1>4, <2>1, SumBound
<1>8. (j - 1) * (den - 1) < den * j
  <2>1. \A n \in Nat : n * (den - 1) = den * n - n /\ den * n \in Nat
    OBVIOUS
  <2>2. den * j = den * (j - 1) + den * 1
    <3>1. j = (j - 1) + 1
      OBVIOUS
    <3> QED
      BY <1>1, <3>1, Times
  <2> QED
    BY <1>1, <2>1, <2>2
<1>9. den * j <= den * gap
  BY <1>0, Times
<1>10. (j - 1) * (den - 1) \in Nat /\ den * j \in Nat /\ den * gap \in Nat
  BY <1>0, <1>1, Times
<1> QED
  BY <1>0, <1>6, <1>7, <1>8, <1>9, <1>10

\* The place of a provider in an order, and what it gets at place i.
PlaceIn(o, p) == CHOOSE i \in DOMAIN o : o[i] = p
Shared(floor, i, sum) ==
    LET gap == IF sum < 100 THEN 100 - sum ELSE sum - 100
        s   == IF sum < 100 THEN floor + Visits(i, gap) ELSE floor - Visits(i, gap)
    IN  Point * (IF s < 0 THEN 0 ELSE s)

Floor(x) == [p \in Providers |-> x.num[p] \div x.den]
Remainder(x) == [p \in Providers |-> x.num[p] % x.den]

\* Rounded, unfolded: some order decides who gets the missing points.
LEMMA RoundedByOrder ==
    ASSUME NEW x, NEW r \in Rounded(x), SumFunction(Floor(x)) # 0
    PROVE  \E o \in Orders(Remainder(x), SumFunction(Floor(x)) < 100) :
              r = [p \in Providers |->
                     Shared(Floor(x)[p], PlaceIn(o, p), SumFunction(Floor(x)))]
BY Zenon DEF Rounded, Shared, PlaceIn, Floor, Remainder

\* Each share is its whole part or a point more, and the points more went to
\* remainders no smaller than those that got none.
HandedOut(pts, base, rem) ==
    /\ \A p \in Providers : pts[p] \in {base[p], base[p] + 1}
    /\ \A p, q \in Providers : pts[p] # base[p] /\ pts[q] = base[q] => rem[p] >= rem[q]

\* What roundPctToInt100 makes of exact shares num/den that add up to 100%:
\* whole points that add up to 100, each less than a point from its exact
\* share, none for a share of nothing, handed out by remainder.
LEMMA Rounding ==
    ASSUME NEW num, NEW den, Whole(num, den),
           NEW r \in Rounded([num |-> num, den |-> den])
    PROVE  \E pts \in [Providers -> 0..100] :
              /\ r = [p \in Providers |-> Point * pts[p]]
              /\ SumFunctionOnSet(pts, Providers) = 100
              /\ \A p \in Providers : /\ pts[p] * den - num[p] \in (1 - den)..(den - 1)
                                      /\ num[p] = 0 => pts[p] = 0
              /\ HandedOut(pts, Floor([num |-> num, den |-> den]),
                                Remainder([num |-> num, den |-> den]))
<1> DEFINE base == [p \in Providers |-> num[p] \div den]
           rem == [p \in Providers |-> num[p] % den]
           B == SumFunctionOnSet(base, Providers)
           gap == Missing(base)
<1> num \in [Providers -> Nat] /\ den \in Nat \ {0}
  BY DEF Whole
<1>1. /\ base \in [Providers -> Nat] /\ rem \in [Providers -> 0..(den - 1)]
      /\ \A p \in Providers : num[p] = den * base[p] + rem[p]
  BY Division
<1>2. FewMissing(den, base, rem)
  <2>1. Divided(num, den, base, rem)
    BY <1>1 DEF Divided
  <2> HIDE DEF base, rem
  <2> QED
    BY <2>1, Floors
<1>3. SumFunction(base) = B
  BY DEF SumFunction
<1>4. B \in 1..100 /\ B # 0 /\ gap = 100 - B
  <2> HIDE DEF base, rem
  <2> QED BY <1>2 DEF FewMissing, Missing
<1>5. PICK o \in Orders(rem, B < 100) :
         r = [p \in Providers |-> Shared(base[p], PlaceIn(o, p), B)]
  <2> DEFINE x == [num |-> num, den |-> den]
  <2>1. Floor(x) = base /\ Remainder(x) = rem
    BY DEF Floor, Remainder
  <2> HIDE DEF x, base, rem, B
  <2>2. r \in Rounded(x)
    BY DEF x
  <2>3. SumFunction(Floor(x)) # 0
    BY <1>3, <1>4, <2>1
  <2>4. PICK o \in Orders(Remainder(x), SumFunction(Floor(x)) < 100) :
           r = [p \in Providers |->
                  Shared(Floor(x)[p], PlaceIn(o, p), SumFunction(Floor(x)))]
    BY <2>2, <2>3, RoundedByOrder
  <2> QED
    BY <1>3, <2>1, <2>4
<1>20. /\ Floor([num |-> num, den |-> den]) = base
       /\ Remainder([num |-> num, den |-> den]) = rem
  BY DEF Floor, Remainder
<1> HIDE DEF base, rem, B, gap
<1>6. gap \in 0..(Count - 1) /\ gap \in 0..Count
  BY <1>2, CountType DEF FewMissing, gap
<1>7. /\ o \in Bijection(1..Count, Providers)
      /\ B < 100 => Sorted(o, rem)
  <2>1. o \in Bijection(1..Count, Providers)
    BY DEF Orders, Count
  <2>2. DOMAIN o = 1..Count
    BY <2>1 DEF Bijection, Injection
  <2> QED
    BY <2>1, <2>2 DEF Orders, Count, Sorted
<1>8. /\ o \in [1..Count -> Providers]
      /\ \A i, j \in 1..Count : o[i] = o[j] => i = j
      /\ \A p \in Providers : \E i \in 1..Count : o[i] = p
  BY <1>7 DEF Bijection, Injection, Surjection, IsInjective
<1> DEFINE pos(p) == PlaceIn(o, p)
           T == {o[i] : i \in 1..gap}
           one == [p \in Providers |-> IF p \in T THEN 1 ELSE 0]
           pts == [p \in Providers |-> base[p] + one[p]]
<1>9. ASSUME NEW p \in Providers PROVE pos(p) \in 1..Count /\ o[pos(p)] = p
  BY <1>8 DEF PlaceIn
<1>10. ASSUME NEW p \in Providers PROVE p \in T <=> pos(p) <= gap
  <2> HIDE DEF pos
  <2>1. \A i \in 1..gap : i \in 1..Count
    BY <1>6, CountType
  <2>2. ASSUME p \in T PROVE pos(p) <= gap
    BY <2>1, <2>2, <1>8, <1>9
  <2>3. ASSUME pos(p) <= gap PROVE p \in T
    BY <2>3, <1>6, <1>9
  <2> QED
    BY <2>2, <2>3
<1>11. ASSUME NEW p \in Providers PROVE r[p] = Point * pts[p]
  <2> DEFINE i == pos(p)
  <2>1. i \in 1..Count
    BY <1>9
  <2>2. base[p] \in Nat
    BY <1>1
  <2> HIDE DEF T
  <2>3. r[p] = Shared(base[p], i, B)
    BY <1>5
  <2>4. i <= gap <=> p \in T
    BY <1>10
  <2>5. \A n \in Nat : n + 0 = n /\ n - 0 = n /\ ~(n < 0)
    OBVIOUS
  <2> HIDE DEF pos, i
  <2>6. CASE B < 100
    <3>1. Visits(i, gap) = one[p]
      BY <1>6, <2>1, <2>4, OneRound
    <3>2. base[p] + one[p] \in Nat
      BY <2>2
    <3> HIDE DEF one
    <3> QED
      BY <1>4, <2>3, <2>5, <2>6, <3>1, <3>2 DEF Shared
  <2>7. CASE ~(B < 100)
    <3>1. B - 100 = 0 /\ gap = 0
      BY <1>4, <2>7
    <3>2. Visits(i, 0) = 0
      BY <2>1, CountType, OneRound
    <3>3. one[p] = 0
      BY <2>1, <2>4, <3>1
    <3> HIDE DEF one
    <3> QED
      BY <2>2, <2>3, <2>5, <2>7, <3>1, <3>2, <3>3 DEF Shared
  <2> QED BY <2>6, <2>7
<1>12. SumFunctionOnSet(one, Providers) = gap
  <2> DEFINE ones == [p \in Providers |-> 1]
  <2>1. T \subseteq Providers /\ IsFiniteSet(T) /\ Cardinality(T) = gap
    <3>1. \A i \in 1..gap : i \in 1..Count
      BY <1>6, CountType
    <3>2. T \subseteq Providers
      BY <1>8, <3>1
    <3> QED
      BY <3>2, <1>6, <1>7, FirstOnes
  <2>2. \A p \in Providers : ones[p] \in Int /\ one[p] = IF p \in T THEN ones[p] ELSE 0
    OBVIOUS
  <2>3. \A p \in T : ones[p] = 1
    BY <2>1
  <2> HIDE DEF T, one, ones
  <2>4. SumFunctionOnSet(one, Providers) = SumFunctionOnSet(ones, T)
    BY <2>1, <2>2, ProvidersAssumption, SumRestrict
  <2> QED
    BY <2>1, <2>3, <2>4, SumOfOnes
<1>13. SumFunctionOnSet(pts, Providers) = 100
  <2>1. \A p \in Providers : base[p] \in Int /\ one[p] \in Int /\ pts[p] = base[p] + one[p]
    BY <1>1
  <2> HIDE DEF pts, one
  <2>2. SumFunctionOnSet(pts, Providers) = B + SumFunctionOnSet(one, Providers)
    BY <2>1, ProvidersAssumption, SumPlus DEF B
  <2> QED
    BY <2>2, <1>4, <1>12
<1>14. ASSUME NEW p \in T PROVE rem[p] > 0
  <2>1. PICK j \in 1..gap : o[j] = p
    OBVIOUS
  <2>2. B < 100
    BY <2>1, <1>4
  <2> HIDE DEF T
  <2>3. rem[o[j]] > 0
    BY <1>1, <1>2, <1>7, <2>2, PointsToRemainders DEF gap
  <2> QED
    BY <2>1, <2>3
<1>15. ASSUME NEW p \in Providers
       PROVE  /\ pts[p] \in Nat
              /\ pts[p] * den - num[p] \in (1 - den)..(den - 1)
              /\ num[p] = 0 => pts[p] = 0
  <2> HIDE DEF T
  <2>1. base[p] \in Nat /\ rem[p] \in 0..(den - 1) /\ num[p] = den * base[p] + rem[p]
    BY <1>1
  <2>2. \A n \in Nat : n * den = den * n /\ den * n \in Nat /\ (n + 1) * den = den * n + den
    OBVIOUS
  <2>3. CASE p \in T
    <3>1. pts[p] = base[p] + 1 /\ rem[p] > 0
      BY <2>3, <1>14
    <3>2. pts[p] * den = den * base[p] + den
      BY <2>1, <2>2, <3>1
    <3>3. den * base[p] \in Nat
      BY <2>1, <2>2
    <3> QED
      BY <2>1, <3>1, <3>2, <3>3
  <2>4. CASE p \notin T
    <3>1. pts[p] = base[p]
      BY <2>1, <2>4
    <3>2. pts[p] * den = den * base[p] /\ den * base[p] \in Nat
      BY <2>1, <2>2, <3>1
    <3>3. num[p] = 0 => base[p] = 0
      <4>1. ASSUME base[p] # 0 PROVE den <= den * base[p]
        <5>1. den * 1 <= den * base[p]
          BY <4>1, <2>1, Times
        <5> QED BY <5>1
      <4> QED
        BY <4>1, <2>1
    <3> QED
      BY <2>1, <3>1, <3>2, <3>3
  <2> QED BY <2>3, <2>4
<1>16. \A p \in Providers : pts[p] \in 0..100
  <2>1. \A p \in Providers : pts[p] \in Nat
    BY <1>15
  <2> HIDE DEF pts
  <2>2. \A p \in Providers : pts[p] <= 100
    BY <2>1, <1>13, ProvidersAssumption, SumNat
  <2> QED
    BY <2>1, <2>2
<1>17. pts \in [Providers -> 0..100]
  BY <1>16
<1>18. r = [p \in Providers |-> Point * pts[p]]
  <2>1. r = [p \in Providers |-> r[p]]
    BY <1>5
  <2> HIDE DEF pts
  <2> QED
    BY <1>11, <2>1
<1>19. HandedOut(pts, base, rem)
  <2>1. \A p \in Providers : base[p] \in Nat
    BY <1>1
  <2>2. \A p \in Providers : pts[p] = IF p \in T THEN base[p] + 1 ELSE base[p]
    BY <2>1
  <2>3. ASSUME NEW p \in T, NEW q \in Providers \ T PROVE rem[p] >= rem[q]
    <3>1. PICK j \in 1..gap : o[j] = p
      OBVIOUS
    <3>2. B < 100 /\ j \in 1..Count
      BY <3>1, <1>4, <1>6, CountType
    <3> HIDE DEF T, pos
    <3>3. ~(pos(q) <= gap) /\ pos(q) \in 1..Count /\ o[pos(q)] = q
      BY <1>9, <1>10
    <3>4. j < pos(q)
      BY <3>1, <3>3, <1>6
    <3> QED
      BY <1>7, <3>1, <3>2, <3>3, <3>4 DEF Sorted
  <2> HIDE DEF pts, T
  <2> QED
    BY <2>1, <2>2, <2>3 DEF HandedOut
<1> HIDE DEF pts
<1> QED
  BY <1>13, <1>15, <1>17, <1>18, <1>19, <1>20

-----------------------------------------------------------------------------
(* proposeShift, redistributeToHealthy and normalizePct.                    *)

\* A weight is at least one.
LEMMA WeightType ==
    ASSUME NEW m, NEW rate \in [Providers -> Nat]
    PROVE  Weight(m, rate) \in [Providers -> Nat \ {0}]
BY DEF Weight

\* There is something to move and somebody to receive it.
Shifts(pct, maintained, cut) ==
    /\ pct \in [Providers -> Nat] /\ cut \subseteq Providers
    /\ \E p \in cut : pct[p] > 0
    /\ Receivers(pct, maintained, cut) # {}

\* The weights of the receivers, and what is left of a share by the cut.
TotalWeight(pct, maintained, cut, m, rate) ==
    SumFunctionOnSet(Weight(m, rate), Receivers(pct, maintained, cut))
Kept(pct, cut) == [p \in Providers |-> IF p \in cut THEN 0 ELSE pct[p]]

\* What is moved, who receives it and what is kept are not nothing, and the
\* shares are what is kept and what is moved.
LEMMA Totals ==
    ASSUME NEW pct, NEW maintained, NEW cut, NEW m, NEW rate \in [Providers -> Nat],
           Shifts(pct, maintained, cut)
    PROVE  /\ TotalWeight(pct, maintained, cut, m, rate) \in Nat \ {0}
           /\ SumFunctionOnSet(pct, cut) \in Nat \ {0}
           /\ SumFunctionOnSet(Kept(pct, cut), Providers) \in Nat
           /\ SumFunction(pct) \in Nat
           /\ SumFunction(pct) = SumFunctionOnSet(Kept(pct, cut), Providers)
                                   + SumFunctionOnSet(pct, cut)
<1> USE DEF Shifts
<1> DEFINE good == Receivers(pct, maintained, cut)
           w == Weight(m, rate)
           kept == Kept(pct, cut)
           gone == [p \in Providers |-> IF p \in cut THEN pct[p] ELSE 0]
<1>1. IsFiniteSet(Providers) /\ IsFiniteSet(cut) /\ IsFiniteSet(good) /\ good \subseteq Providers
  BY ProvidersAssumption, FS_Subset DEF Receivers, Routable
<1>2. TotalWeight(pct, maintained, cut, m, rate) \in Nat \ {0}
  <2>1. PICK q \in good : TRUE
    OBVIOUS
  <2>2. \A p \in good : w[p] \in Nat /\ w[p] # 0
    BY <1>1, WeightType
  <2> HIDE DEF good, w
  <2>3. SumFunctionOnSet(w, good) \in Nat /\ w[q] <= SumFunctionOnSet(w, good)
    BY <1>1, <2>1, <2>2, SumNat
  <2>4. SumFunctionOnSet(w, good) # 0
    BY <2>1, <2>2, <2>3
  <2> QED
    BY <2>3, <2>4 DEF TotalWeight, w, good
<1>3. SumFunctionOnSet(pct, cut) \in Nat \ {0}
  <2>1. PICK q \in cut : pct[q] > 0
    OBVIOUS
  <2>2. \A p \in cut : pct[p] \in Nat
    OBVIOUS
  <2>3. SumFunctionOnSet(pct, cut) \in Nat /\ pct[q] <= SumFunctionOnSet(pct, cut)
    BY <1>1, <2>1, <2>2, SumNat
  <2> QED
    BY <2>1, <2>2, <2>3
<1>4. \A p \in Providers : kept[p] \in Nat /\ gone[p] \in Nat /\ pct[p] = kept[p] + gone[p]
  BY DEF Kept
<1>5. SumFunctionOnSet(kept, Providers) \in Nat
  <2> HIDE DEF kept
  <2> QED BY <1>1, <1>4, SumNat
<1>6. SumFunctionOnSet(gone, Providers) = SumFunctionOnSet(pct, cut)
  <2>1. \A p \in Providers : pct[p] \in Int /\ gone[p] = IF p \in cut THEN pct[p] ELSE 0
    OBVIOUS
  <2> HIDE DEF gone
  <2> QED BY <1>1, <2>1, SumRestrict
<1>7. SumFunctionOnSet(pct, Providers)
        = SumFunctionOnSet(kept, Providers) + SumFunctionOnSet(gone, Providers)
  <2> HIDE DEF kept, gone
  <2> QED BY <1>1, <1>4, SumPlus
<1>8. SumFunction(pct) = SumFunctionOnSet(pct, Providers)
  BY DEF SumFunction
<1> QED
  BY <1>2, <1>3, <1>5, <1>6, <1>7, <1>8

\* The exact shares of a plan: nothing for a cut provider, the old share for
\* who receives nothing, at least that for a receiver, and at most that and
\* all that is moved.
ExactlyShared(pct, maintained, m, rate, worst) ==
    LET cut   == Cut(m, worst)
        good  == Receivers(pct, maintained, cut)
        total == TotalWeight(pct, maintained, cut, m, rate)
        x     == Exact(pct, maintained, m, rate, worst)
    IN  /\ x = [num |-> x.num, den |-> x.den]
        /\ Whole(x.num, x.den)
        /\ x.den = SumFunction(pct) * total
        /\ \A p \in cut : x.num[p] = 0
        /\ \A p \in Providers \ cut :
              /\ x.num[p] >= 100 * (pct[p] * total)
              /\ x.num[p] <= 100 * (pct[p] * total + SumFunctionOnSet(pct, cut) * total)
        /\ \A p \in Providers \ (cut \cup good) : x.num[p] = 100 * (pct[p] * total)

\* They add up to 100%, whatever the shares the plan starts from add up to.
LEMMA ExactShares ==
    ASSUME NEW pct, NEW maintained, NEW m, NEW rate \in [Providers -> Nat], NEW worst,
           Shifts(pct, maintained, Cut(m, worst))
    PROVE  ExactlyShared(pct, maintained, m, rate, worst)
<1> DEFINE cut == Cut(m, worst)
           good == Receivers(pct, maintained, cut)
           total == TotalWeight(pct, maintained, cut, m, rate)
           drop == SumFunctionOnSet(pct, cut)
           w == Weight(m, rate)
           kept == Kept(pct, cut)
           part == [p \in Providers |-> IF p \in good THEN w[p] ELSE 0]
           stay == [p \in Providers |-> total * kept[p]]
           come == [p \in Providers |-> drop * part[p]]
           sum == [p \in Providers |-> stay[p] + come[p]]
           num == [p \in Providers |->
                     100 * (kept[p] * total + (IF p \in good THEN drop * w[p] ELSE 0))]
           den == SumFunction(pct) * total
           left == SumFunctionOnSet(kept, Providers)
<1>1. /\ total \in Nat \ {0} /\ drop \in Nat \ {0} /\ left \in Nat
      /\ SumFunction(pct) = left + drop
  <2> HIDE DEF cut
  <2> QED BY Totals DEF cut
<1>2. Exact(pct, maintained, m, rate, worst) = [num |-> num, den |-> den]
  <2>1. ~(drop = 0 \/ good = {})
    BY <1>1 DEF Shifts
  <2> QED
    BY <2>1 DEF Exact, TotalWeight, Kept, Normal
<1>3. /\ pct \in [Providers -> Nat] /\ cut \subseteq Providers
      /\ good \subseteq Providers \ cut /\ IsFiniteSet(Providers)
  BY ProvidersAssumption DEF Shifts, Receivers, Routable
<1>4. /\ w \in [Providers -> Nat] /\ kept \in [Providers -> Nat]
      /\ \A p \in Providers : kept[p] = IF p \in cut THEN 0 ELSE pct[p]
  BY <1>3, WeightType DEF Kept
<1>5. part \in [Providers -> Nat]
  BY <1>4
<1>6. SumFunctionOnSet(part, Providers) = total
  <2>1. \A p \in Providers : w[p] \in Int /\ part[p] = IF p \in good THEN w[p] ELSE 0
    BY <1>4
  <2>2. total = SumFunctionOnSet(w, good)
    BY DEF TotalWeight
  <2> HIDE DEF part, w, good, total
  <2> QED BY <1>3, <2>1, <2>2, SumRestrict
<1> HIDE DEF cut, good, total, drop, w, kept, left
<1>7. \A p \in Providers : stay[p] \in Nat /\ come[p] \in Nat
  BY <1>1, <1>4, <1>5, Times
<1>8. SumFunctionOnSet(stay, Providers) = total * left
  <2>1. \A p \in Providers : kept[p] \in Int /\ stay[p] = total * kept[p]
    BY <1>4
  <2> HIDE DEF stay
  <2> QED BY <1>1, <1>3, <2>1, SumScale DEF left
<1>9. SumFunctionOnSet(come, Providers) = drop * total
  <2>1. \A p \in Providers : part[p] \in Int /\ come[p] = drop * part[p]
    BY <1>5
  <2> HIDE DEF come, part
  <2>2. SumFunctionOnSet(come, Providers) = drop * SumFunctionOnSet(part, Providers)
    BY <1>1, <1>3, <2>1, SumScale
  <2> QED BY <1>6, <2>2
<1>10. SumFunctionOnSet(sum, Providers) = total * left + drop * total
  <2>1. \A p \in Providers : stay[p] \in Int /\ come[p] \in Int /\ sum[p] = stay[p] + come[p]
    BY <1>7
  <2> HIDE DEF sum, stay, come
  <2> QED BY <1>3, <1>8, <1>9, <2>1, SumPlus
<1>11. ASSUME NEW p \in Providers
       PROVE  sum[p] \in Nat /\ num[p] = 100 * sum[p] /\ num[p] \in Nat
  <2>1. kept[p] \in Nat /\ w[p] \in Nat
    BY <1>4
  <2>2. kept[p] * total = total * kept[p]
    BY <1>1, <2>1
  <2>3. come[p] = IF p \in good THEN drop * w[p] ELSE 0
    BY <1>1
  <2>4. num[p] = 100 * (stay[p] + come[p])
    BY <2>2, <2>3
  <2>5. stay[p] + come[p] \in Nat
    BY <1>7
  <2> HIDE DEF num, stay, come
  <2> QED
    BY <2>4, <2>5
<1>12. SumFunctionOnSet(num, Providers) = 100 * SumFunctionOnSet(sum, Providers)
  <2>1. \A p \in Providers : sum[p] \in Int /\ num[p] = 100 * sum[p]
    BY <1>11
  <2> HIDE DEF sum, num
  <2> QED BY <1>3, <2>1, SumScale
<1>13. den = total * left + drop * total /\ den \in Nat \ {0}
  <2>1. \A a, b, c \in Nat : (a + b) * c = c * a + b * c
    OBVIOUS
  <2>2. \A a, c \in Nat : a # 0 /\ c # 0 => a * c # 0 /\ a * c \in Nat
    OBVIOUS
  <2>3. left + drop \in Nat /\ left + drop # 0
    BY <1>1
  <2> QED
    BY <1>1, <2>1, <2>2, <2>3
<1>14. Whole(num, den)
  <2>1. num \in [Providers -> Nat]
    BY <1>11
  <2> HIDE DEF num, den
  <2> QED
    BY <1>10, <1>12, <1>13, <2>1 DEF Whole
<1>15. ASSUME NEW p \in Providers
       PROVE  /\ p \in cut => num[p] = 0
              /\ p \notin cut => num[p] >= 100 * (pct[p] * total)
              /\ p \notin cut => num[p] <= 100 * (pct[p] * total + drop * total)
              /\ p \notin cut /\ p \notin good => num[p] = 100 * (pct[p] * total)
  <2>1. kept[p] = IF p \in cut THEN 0 ELSE pct[p]
    BY <1>4
  <2>2. drop * w[p] \in Nat /\ pct[p] * total \in Nat
    <3>1. w[p] \in Nat /\ pct[p] \in Nat
      BY <1>3, <1>4
    <3> QED BY <1>1, <3>1, Times
  <2>5. drop * total \in Nat /\ (p \in good => drop * w[p] <= drop * total)
    <3>1. ASSUME p \in good PROVE w[p] <= total
      <4>1. IsFiniteSet(good) /\ \A q \in good : w[q] \in Nat
        BY <1>3, <1>4, FS_Subset
      <4>2. total = SumFunctionOnSet(w, good)
        BY DEF total, TotalWeight, w, good
      <4> QED BY <3>1, <4>1, <4>2, SumNat
    <3>2. w[p] \in Nat
      BY <1>4
    <3> QED BY <1>1, <3>1, <3>2, Times
  <2>3. CASE p \in cut
    <3>1. p \notin good
      BY <1>3, <2>3
    <3>2. kept[p] * total = 0
      BY <1>1, <2>1, <2>3
    <3> QED BY <2>3, <3>1, <3>2
  <2>4. CASE p \notin cut
    <3>1. num[p] = 100 * (pct[p] * total + (IF p \in good THEN drop * w[p] ELSE 0))
      BY <2>1, <2>4
    <3> HIDE DEF num
    <3> QED BY <2>2, <2>4, <2>5, <3>1
  <2> QED BY <2>3, <2>4
<1> HIDE DEF num, den
<1> DEFINE x == Exact(pct, maintained, m, rate, worst)
<1>16. x.num = num /\ x.den = den
  BY <1>2
<1> QED
  BY <1>2, <1>3, <1>14, <1>15, <1>16 DEF cut, good, total, den, drop, ExactlyShared

\* Whole points that add up to 100 as a plan; enforceSingleHealthyFullRouting
\* leaves them alone.
LEMMA PointsAre ==
    ASSUME NEW pts \in [Providers -> 0..100], SumFunctionOnSet(pts, Providers) = 100
    PROVE  LET r == [p \in Providers |-> Point * pts[p]]
           IN  /\ r \in [Providers -> 0..Full]
               /\ SumFunction(r) = Full
               /\ SoleGetsAll(r) = r
               /\ \A p \in Providers : r[p] % Point = 0 /\ r[p] \div Point = pts[p]
<1> DEFINE r == [p \in Providers |-> Point * pts[p]]
<1>1. IsFiniteSet(Providers) /\ \A p \in Providers : pts[p] \in 0..100 /\ pts[p] \in Int
  BY ProvidersAssumption
<1>2. /\ r \in [Providers -> 0..Full]
      /\ \A p \in Providers : r[p] % Point = 0 /\ r[p] \div Point = pts[p]
  BY <1>1 DEF Point, Full
<1>3. SumFunctionOnSet(r, Providers) = Point * SumFunctionOnSet(pts, Providers)
  <2>1. PICK a \in Int : a = Point
    BY DEF Point
  <2>2. \A p \in Providers : pts[p] \in Int /\ r[p] = a * pts[p]
    BY <2>1
  <2> HIDE DEF r
  <2>3. SumFunctionOnSet(r, Providers) = a * SumFunctionOnSet(pts, Providers)
    BY <1>1, <2>2, SumScale
  <2> QED BY <2>1, <2>3
<1>4. SumFunction(r) = Full
  <2>1. SumFunction(r) = SumFunctionOnSet(r, Providers)
    BY DEF SumFunction
  <2> QED BY <1>3, <2>1 DEF Point, Full
<1>5. SoleGetsAll(r) = r
  <2> DEFINE active == {p \in Providers : r[p] > 0}
  <2>1. CASE Cardinality(active) # 1
    BY <2>1 DEF SoleGetsAll
  <2>2. CASE Cardinality(active) = 1
    <3>1. PICK q : active = {q}
      <4>1. IsFiniteSet(active)
        BY <1>1, FS_Subset
      <4> QED BY <2>2, <4>1, FS_Singleton
    <3>2. q \in Providers /\ \A p \in Providers : p # q => pts[p] = 0
      <4>1. \A p \in Providers : r[p] > 0 <=> p = q
        BY <3>1
      <4>2. \A p \in Providers : r[p] > 0 <=> pts[p] # 0
        BY <1>1 DEF Point
      <4>3. q \in Providers
        BY <3>1
      <4> HIDE DEF r
      <4> QED BY <4>1, <4>2, <4>3
    <3>3. SumFunctionOnSet(pts, Providers) = SumFunctionOnSet(pts, {q})
      <4>1. \A p \in Providers : pts[p] \in Int /\ pts[p] = IF p \in {q} THEN pts[p] ELSE 0
        BY <1>1, <3>2
      <4> QED BY <1>1, <3>2, <4>1, SumRestrict
    <3>4. SumFunctionOnSet(pts, {q}) = pts[q]
      <4>1. IsFiniteSet({q}) /\ {q} \ {q} = {}
        BY FS_Singleton
      <4>2. SumFunctionOnSet(pts, {q}) = pts[q] + SumFunctionOnSet(pts, {q} \ {q})
        BY <1>1, <3>2, <4>1, SumRemove
      <4> QED BY <1>1, <3>2, <4>1, <4>2, SumEmpty
    <3>5. \A p \in Providers : r[p] = IF p \in active THEN Full ELSE 0
      BY <3>1, <3>2, <3>3, <3>4 DEF Point, Full
    <3>6. SoleGetsAll(r) = [p \in Providers |-> IF p \in active THEN Full ELSE 0]
      BY <2>2 DEF SoleGetsAll
    <3>7. r = [p \in Providers |-> r[p]]
      OBVIOUS
    <3> HIDE DEF r, active
    <3> QED BY <3>5, <3>6, <3>7
  <2> QED BY <2>1, <2>2
<1> QED
  BY <1>2, <1>4, <1>5

\* A share of a plan is less than a point from its exact share.
Near(share, num, den) ==
    (share \div Point) * den - num \in (1 - den)..(den - 1)

\* What a plan makes of the exact shares x.
IsPlan(r, x, cut) ==
    /\ r \in [Providers -> 0..Full] /\ SumFunction(r) = Full
    /\ \A p \in Providers : /\ r[p] % Point = 0
                            /\ Near(r[p], x.num[p], x.den)
                            /\ p \in cut => r[p] = 0
                            /\ x.num[p] = 0 => r[p] = 0
    /\ HandedOut([p \in Providers |-> r[p] \div Point], Floor(x), Remainder(x))

\* What a plan is, from any shares, when there is something to move and
\* somebody to receive it.
LEMMA PlanFacts ==
    ASSUME NEW pct, NEW maintained, NEW m, NEW rate \in [Providers -> Nat], NEW worst,
           Shifts(pct, maintained, Cut(m, worst)),
           NEW r \in BuildRoutingPlan(pct, maintained, m, rate, worst)
    PROVE  IsPlan(r, Exact(pct, maintained, m, rate, worst), Cut(m, worst))
<1> DEFINE x == Exact(pct, maintained, m, rate, worst)
<1>0. ExactlyShared(pct, maintained, m, rate, worst)
  BY ExactShares
<1>1. /\ x = [num |-> x.num, den |-> x.den] /\ Whole(x.num, x.den)
      /\ \A p \in Cut(m, worst) : x.num[p] = 0
  BY <1>0 DEF ExactlyShared
<1>2. PICK s \in Rounded(x) : r = SoleGetsAll(s)
  BY DEF BuildRoutingPlan
<1> HIDE DEF x
<1>3. PICK pts \in [Providers -> 0..100] :
         /\ s = [p \in Providers |-> Point * pts[p]]
         /\ SumFunctionOnSet(pts, Providers) = 100
         /\ \A p \in Providers : /\ pts[p] * x.den - x.num[p] \in (1 - x.den)..(x.den - 1)
                                 /\ x.num[p] = 0 => pts[p] = 0
         /\ HandedOut(pts, Floor(x), Remainder(x))
  <2> DEFINE num == x.num
             den == x.den
  <2>1. /\ Whole(num, den) /\ s \in Rounded([num |-> num, den |-> den])
        /\ x = [num |-> num, den |-> den]
    BY <1>1
  <2> HIDE DEF num, den
  <2>2. \E pts \in [Providers -> 0..100] :
           /\ s = [p \in Providers |-> Point * pts[p]]
           /\ SumFunctionOnSet(pts, Providers) = 100
           /\ \A p \in Providers : /\ pts[p] * den - num[p] \in (1 - den)..(den - 1)
                                   /\ num[p] = 0 => pts[p] = 0
           /\ HandedOut(pts, Floor([num |-> num, den |-> den]),
                             Remainder([num |-> num, den |-> den]))
    BY <2>1, Rounding
  <2> QED BY <2>1, <2>2 DEF num, den
<1>4. /\ s \in [Providers -> 0..Full] /\ SumFunction(s) = Full /\ SoleGetsAll(s) = s
      /\ \A p \in Providers : s[p] % Point = 0 /\ s[p] \div Point = pts[p]
  BY <1>3, PointsAre
<1>5. r = s
  BY <1>2, <1>4
<1>6. ASSUME NEW p \in Providers
      PROVE  r[p] % Point = 0 /\ Near(r[p], x.num[p], x.den) /\ (p \in Cut(m, worst) => r[p] = 0)
  <2>1. r[p] = Point * pts[p] /\ r[p] \div Point = pts[p]
    BY <1>3, <1>4, <1>5
  <2>2. p \in Cut(m, worst) => pts[p] = 0
    BY <1>1, <1>3
  <2>3. Near(r[p], x.num[p], x.den)
    BY <1>3, <2>1 DEF Near
  <2> QED BY <1>4, <1>5, <2>1, <2>2, <2>3 DEF Point
<1>7. HandedOut([p \in Providers |-> r[p] \div Point], Floor(x), Remainder(x))
  <2>1. \A p \in Providers : r[p] \div Point = pts[p]
    BY <1>4, <1>5
  <2> QED BY <1>3, <2>1 DEF HandedOut
<1>8. \A p \in Providers : x.num[p] = 0 => r[p] = 0
  BY <1>3, <1>5 DEF Point
<1> QED
  BY <1>4, <1>5, <1>6, <1>7, <1>8 DEF x, IsPlan

\* The part of it most proofs need.
LEMMA PlanShares ==
    ASSUME NEW pct, NEW maintained, NEW m, NEW rate \in [Providers -> Nat], NEW worst,
           Shifts(pct, maintained, Cut(m, worst)),
           NEW r \in BuildRoutingPlan(pct, maintained, m, rate, worst)
    PROVE  LET x == Exact(pct, maintained, m, rate, worst)
           IN  /\ r \in [Providers -> 0..Full]
               /\ SumFunction(r) = Full
               /\ \A p \in Providers : /\ r[p] % Point = 0
                                       /\ Near(r[p], x.num[p], x.den)
                                       /\ p \in Cut(m, worst) => r[p] = 0
<1>1. IsPlan(r, Exact(pct, maintained, m, rate, worst), Cut(m, worst))
  BY PlanFacts
<1> QED
  BY <1>1, Zenon DEF IsPlan

\* When the decision for a sku is to route, a plan has something to move off
\* the cut providers and somebody to receive it.
LEMMA RoutingShifts ==
    ASSUME NEW pct \in [Providers -> Nat], NEW maintained, NEW m, NEW worst \in Providers,
           \A p \in Providers : pct[p] = 0 => m[p] = "none",
           Flagged(m[worst]),
           SKURoutingDecision(pct, maintained, m) = "routing"
    PROVE  Shifts(pct, maintained, Cut(m, worst))
<1> DEFINE breached == {p \in Providers : MetricsBreach(m[p])}
           ways == Routable(pct, maintained)
<1>1. Cardinality(ways) > 1 /\ Healthy(pct, maintained, m) # {}
  BY DEF SKURoutingDecision
<1>2. \A p \in Providers : Flagged(m[p]) \/ MetricsBreach(m[p]) => pct[p] > 0
  <2>1. \A p \in Providers : Flagged(m[p]) \/ MetricsBreach(m[p]) => m[p] # "none"
    BY DEF Flagged, MetricsBreach
  <2>2. \A p \in Providers : pct[p] \in Nat
    OBVIOUS
  <2> QED BY <2>1, <2>2
<1>3. CASE breached = {}
  <2>1. Cut(m, worst) = {worst}
    BY <1>3 DEF Cut
  <2>2. IsFiniteSet(ways)
    BY ProvidersAssumption, FS_Subset DEF Routable
  <2>3. PICK q \in ways : q # worst
    <3>1. ~ \E x : ways = {x}
      BY <1>1, <2>2, FS_Singleton
    <3>2. ways # {}
      BY <1>1, FS_EmptySet
    <3> QED BY <3>1, <3>2
  <2>4. q \in Receivers(pct, maintained, {worst})
    BY <2>3 DEF Receivers
  <2> QED
    BY <1>2, <2>1, <2>4 DEF Shifts
<1>4. CASE breached # {}
  <2>1. Cut(m, worst) = breached
    BY <1>4 DEF Cut
  <2>2. PICK h \in Healthy(pct, maintained, m) : TRUE
    BY <1>1
  <2>3. h \in Receivers(pct, maintained, breached)
    BY <2>2 DEF Healthy, Receivers
  <2>4. \E p \in breached : pct[p] > 0
    BY <1>2, <1>4
  <2> QED
    BY <2>1, <2>3, <2>4 DEF Shifts
<1> QED BY <1>3, <1>4

\* Rounding aside, a plan adds nothing to a provider under maintenance.
LEMMA NoWindfall ==
    ASSUME NEW pct, NEW maintained, NEW m, NEW rate \in [Providers -> Nat], NEW worst,
           Shifts(pct, maintained, Cut(m, worst)), SumFunction(pct) = Full,
           NEW r \in BuildRoutingPlan(pct, maintained, m, rate, worst),
           NEW p \in maintained, p \in Providers
    PROVE  r[p] < pct[p] + Point
<1> DEFINE x == Exact(pct, maintained, m, rate, worst)
           T == TotalWeight(pct, maintained, Cut(m, worst), m, rate)
           k == r[p] \div Point
           num == x.num[p]
           den == x.den
<1>1. /\ r \in [Providers -> 0..Full] /\ r[p] % Point = 0 /\ Near(r[p], num, den)
      /\ p \in Cut(m, worst) => r[p] = 0
  BY PlanShares
<1>2. ExactlyShared(pct, maintained, m, rate, worst)
  BY ExactShares
<1>3. T \in Nat \ {0} /\ pct[p] \in Nat
  BY Totals DEF Shifts
<1>4. CASE p \in Cut(m, worst)
  BY <1>1, <1>3, <1>4 DEF Point
<1>5. CASE p \notin Cut(m, worst)
  <2>1. p \notin Receivers(pct, maintained, Cut(m, worst))
    BY DEF Receivers, Routable
  <2>2. num = 100 * (pct[p] * T) /\ den = Full * T
    BY <1>2, <1>5, <2>1 DEF ExactlyShared
  <2>3. r[p] = 100 * k /\ k \in Nat
    <3>1. r[p] \in Nat
      <4>1. r[p] \in 0..Full
        BY <1>1
      <4>2. \A i \in 0..Full : i \in Nat
        BY DEF Full
      <4> QED BY <4>1, <4>2
    <3>2. r[p] % Point = 0
      BY <1>1
    <3>3. Point \in Nat \ {0}
      BY DEF Point
    <3>4. r[p] = Point * k + (r[p] % Point) /\ k \in Nat
      BY <3>1, <3>3, Division
    <3> QED
      BY <3>2, <3>4 DEF Point
  <2>4. k * den - num \in (1 - den)..(den - 1)
    BY <1>1 DEF Near
  <2> HIDE DEF num, den, k, T
  <2>5. k * den = T * (Full * k) /\ num = T * (100 * pct[p]) /\ den = T * Full
    BY <1>3, <2>2, <2>3 DEF Full
  <2>6. SUFFICES ASSUME 100 * pct[p] + Full <= Full * k PROVE FALSE
    BY <1>3, <2>3 DEF Full, Point
  <2>7. Full * k \in Nat /\ 100 * pct[p] \in Nat /\ Full \in Nat /\ 100 * pct[p] + Full \in Nat
    BY <1>3, <2>3 DEF Full
  <2>8. /\ T * (100 * pct[p] + Full) <= T * (Full * k)
        /\ T * (100 * pct[p] + Full) = T * (100 * pct[p]) + T * Full
        /\ T * (100 * pct[p]) \in Nat /\ T * Full \in Nat /\ T * (Full * k) \in Nat
    BY <1>3, <2>6, <2>7, Times
  <2>9. num + den <= k * den /\ num \in Nat /\ den \in Nat /\ k * den \in Nat
    BY <2>5, <2>8
  <2> QED
    BY <2>4, <2>9
<1> QED BY <1>4, <1>5

\* A receiver with a hundredth of all traffic or more keeps some.
LEMMA Reaches ==
    ASSUME NEW pct, NEW maintained, NEW m, NEW rate \in [Providers -> Nat], NEW worst,
           Shifts(pct, maintained, Cut(m, worst)),
           NEW r \in BuildRoutingPlan(pct, maintained, m, rate, worst),
           NEW p \in Receivers(pct, maintained, Cut(m, worst)),
           100 * pct[p] >= SumFunction(pct)
    PROVE  r[p] > 0
<1> DEFINE x == Exact(pct, maintained, m, rate, worst)
           T == TotalWeight(pct, maintained, Cut(m, worst), m, rate)
           num == x.num[p]
           den == x.den
           all == SumFunction(pct)
<1>0. p \in Providers /\ p \notin Cut(m, worst)
  BY DEF Receivers, Routable
<1>1. r \in [Providers -> 0..Full] /\ Near(r[p], num, den)
  BY <1>0, PlanShares
<1>2. ExactlyShared(pct, maintained, m, rate, worst)
  BY ExactShares
<1>3. T \in Nat \ {0} /\ pct[p] \in Nat /\ all \in Nat
  <2>1. T \in Nat \ {0} /\ all \in Nat
    BY Totals
  <2> QED BY <1>0, <2>1 DEF Shifts
<1>4. num >= 100 * (pct[p] * T) /\ den = all * T
  BY <1>0, <1>2 DEF ExactlyShared
<1>5. num \in Nat
  BY <1>0, <1>2 DEF ExactlyShared, Whole
<1>6. SUFFICES ASSUME r[p] = 0 PROVE FALSE
  BY <1>0, <1>1
<1>7. 0 * den - num \in (1 - den)..(den - 1)
  BY <1>1, <1>6 DEF Near, Point
<1> HIDE DEF num, den, T, all
<1>8. 100 * (pct[p] * T) = T * (100 * pct[p]) /\ den = T * all
  BY <1>3, <1>4
<1>9. /\ T * all <= T * (100 * pct[p])
      /\ T * all \in Nat /\ T * (100 * pct[p]) \in Nat
  <2>1. all <= 100 * pct[p] /\ 100 * pct[p] \in Nat
    BY <1>3 DEF all
  <2> QED BY <1>3, <2>1, Times
<1>10. den <= num /\ den \in Nat
  BY <1>4, <1>5, <1>8, <1>9
<1> QED
  BY <1>5, <1>7, <1>10

-----------------------------------------------------------------------------
(* What the poll relies on (api/dashboard_suggest.go).                      *)

\* One of finitely many natural numbers is the largest.
LEMMA Largest ==
    ASSUME NEW f, NEW S, IsFiniteSet(S), S # {}, \A x \in S : f[x] \in Nat
    PROVE  \E x \in S : \A y \in S : f[y] <= f[x]
<1> DEFINE A == {T \in SUBSET S : T = {} \/ \E x \in T : \A y \in T : f[y] <= f[x]}
<1>1. {} \in A
  OBVIOUS
<1>2. ASSUME NEW T \in SUBSET S, NEW x \in S, T \in A
      PROVE  T \cup {x} \in A
  <2>1. CASE T = {}
    BY <2>1
  <2>2. CASE T # {}
    <3>1. PICK z \in T : \A y \in T : f[y] <= f[z]
      BY <1>2, <2>2
    <3>2. CASE f[x] <= f[z]
      BY <3>1, <3>2
    <3>3. CASE ~(f[x] <= f[z])
      <4>1. \A y \in T \cup {x} : f[y] <= f[x]
        BY <3>1, <3>3
      <4> QED BY <4>1
    <3> QED BY <3>2, <3>3
  <2> QED BY <2>1, <2>2
<1>3. S \in A
  <2> HIDE DEF A
  <2> QED BY <1>1, <1>2, SubsetInduction
<1> QED
  BY <1>3

\* A function that is nowhere above another and below it somewhere adds up to less.
LEMMA SumLess ==
    ASSUME NEW f, NEW g, NEW S, IsFiniteSet(S),
           \A x \in S : f[x] \in Nat /\ g[x] \in Nat /\ f[x] <= g[x],
           NEW y \in S, f[y] < g[y]
    PROVE  SumFunctionOnSet(f, S) # SumFunctionOnSet(g, S)
<1> DEFINE d == [x \in S |-> g[x] - f[x]]
<1>1. \A x \in S : f[x] \in Int /\ d[x] \in Int /\ d[x] \in Nat /\ g[x] = f[x] + d[x]
  OBVIOUS
<1>2. d[y] > 0
  OBVIOUS
<1> HIDE DEF d
<1>3. SumFunctionOnSet(g, S) = SumFunctionOnSet(f, S) + SumFunctionOnSet(d, S)
  BY <1>1, SumPlus
<1>4. SumFunctionOnSet(d, S) \in Nat /\ d[y] <= SumFunctionOnSet(d, S)
  BY <1>1, SumNat
<1>5. SumFunctionOnSet(f, S) \in Nat
  BY SumNat
<1> QED
  BY <1>1, <1>2, <1>3, <1>4, <1>5

\* Two ways to hand out the points by remainder are the same when in one of
\* them no remainder that got a point ties with one that got none.
LEMMA NoTies ==
    ASSUME NEW base \in [Providers -> Nat], NEW rem \in [Providers -> Nat],
           NEW a \in [Providers -> Nat], NEW b \in [Providers -> Nat],
           HandedOut(a, base, rem), HandedOut(b, base, rem),
           SumFunctionOnSet(a, Providers) = SumFunctionOnSet(b, Providers),
           \A p, q \in Providers : a[p] # base[p] /\ a[q] = base[q] => rem[p] > rem[q]
    PROVE  a = b
<1>1. IsFiniteSet(Providers)
  BY ProvidersAssumption
<1>2. SUFFICES ASSUME a # b PROVE FALSE
  OBVIOUS
<1>3. PICK z \in Providers : a[z] # b[z]
  BY <1>2
<1>4. PICK p \in Providers : a[p] < b[p]
  <2>1. SUFFICES ASSUME \A p \in Providers : b[p] <= a[p] PROVE FALSE
    OBVIOUS
  <2>2. b[z] < a[z]
    BY <1>3, <2>1
  <2> QED
    BY <1>1, <2>1, <2>2, SumLess
<1>5. PICK q \in Providers : b[q] < a[q]
  <2>1. SUFFICES ASSUME \A q \in Providers : a[q] <= b[q] PROVE FALSE
    OBVIOUS
  <2>2. a[z] < b[z]
    BY <1>3, <2>1
  <2> QED
    BY <1>1, <2>1, <2>2, SumLess
<1>6. a[p] = base[p] /\ b[p] # base[p] /\ a[q] # base[q] /\ b[q] = base[q]
  BY <1>4, <1>5 DEF HandedOut
<1>7. rem[p] >= rem[q] /\ rem[q] > rem[p]
  BY <1>6 DEF HandedOut
<1> QED
  BY <1>7

\* Shares within the tolerance of routingMapsEqual, five hundredths of a percent.
Alike(pct, r) == \A p \in Providers : pct[p] - r[p] \in -5..5

\* Up to how many providers that tolerance cannot hide a tie.
Dozen == Count <= 15

\* Add up to 100.00 %, give or take a hundredth (validateRoutingPct).
AboutFull(pct) == SumFunction(pct) \in (Full - 1)..(Full + 1)

\* What is moved is little when the plan is like the shares it starts from.
LEMMA LittleMoves ==
    ASSUME NEW pct \in [Providers -> Nat], NEW cut \in SUBSET Providers, Dozen,
           \A p \in cut : pct[p] <= 5
    PROVE  SumFunctionOnSet(pct, cut) \in 0..75
<1>1. IsFiniteSet(cut) /\ Cardinality(cut) \in Nat /\ Cardinality(cut) <= Count
  BY ProvidersAssumption, FS_Subset, FS_CardinalityType DEF Count
<1>2. \A p \in cut : pct[p] \in 0..5
  OBVIOUS
<1>3. SumFunctionOnSet(pct, cut) \in Nat /\ SumFunctionOnSet(pct, cut) <= Cardinality(cut) * 5
  BY <1>1, <1>2, SumBound
<1> QED
  BY <1>1, <1>3, CountType DEF Dozen

\* d is what is moved, t the weight of the receivers, b the whole part of num.
Split(pct, all, t, d, num, b, rem) ==
    /\ pct \in Nat /\ all \in (Full - 1)..(Full + 1) /\ t \in Nat \ {0} /\ d \in 0..75
    /\ num \in Nat /\ b \in 0..100 /\ rem \in Nat
    /\ num = (all * t) * b + rem
    /\ num >= 100 * (pct * t) /\ num <= 100 * (pct * t + d * t)

\* Then the remainders that got a point are far above those that got none.
LEMMA FarAbove ==
    ASSUME NEW pct, NEW all, NEW t, NEW d, NEW num, NEW b, NEW rem,
           Split(pct, all, t, d, num, b, rem)
    PROVE  /\ pct >= 100 * b + 95 => rem >= t * 9400
           /\ pct <= 100 * b + 5 => rem <= t * 8100
<1> USE DEF Split
<1>1. all * b \in Nat /\ all * b <= 10000 * b + 100 /\ 10000 * b <= all * b + 100
  <2>1. all = 9999 \/ all = 10000 \/ all = 10001
    BY DEF Full
  <2> QED BY <2>1
<1>2. (all * t) * b = t * (all * b) /\ all \in Nat
  BY DEF Full
<1>3. 100 * (pct * t) = t * (100 * pct) /\ 100 * (pct * t + d * t) = t * (100 * (pct + d))
  OBVIOUS
<1> DEFINE ab == all * b
<1>4. ab \in Nat /\ ab <= 10000 * b + 100 /\ 10000 * b <= ab + 100 /\ num = t * ab + rem
  BY <1>1, <1>2
<1>5. num >= t * (100 * pct) /\ num <= t * (100 * (pct + d))
  BY <1>3
<1> HIDE DEF ab
<1>6. ASSUME pct >= 100 * b + 95 PROVE rem >= t * 9400
  <2>1. ab + 9400 <= 100 * pct /\ 100 * pct \in Nat /\ ab + 9400 \in Nat
    BY <1>4, <1>6
  <2>2. t * (ab + 9400) <= t * (100 * pct) /\ t * (ab + 9400) = t * ab + t * 9400
    BY <1>4, <2>1, Times
  <2>3. t * ab \in Nat /\ t * 9400 \in Nat /\ t * (100 * pct) \in Nat
    BY <1>4, <2>1, Times
  <2> QED
    BY <1>4, <1>5, <2>2, <2>3
<1>7. ASSUME pct <= 100 * b + 5 PROVE rem <= t * 8100
  <2>1. 100 * (pct + d) <= ab + 8100 /\ 100 * (pct + d) \in Nat /\ ab + 8100 \in Nat
    BY <1>4, <1>7
  <2>2. t * (100 * (pct + d)) <= t * (ab + 8100) /\ t * (ab + 8100) = t * ab + t * 8100
    BY <1>4, <2>1, Times
  <2>3. t * ab \in Nat /\ t * 8100 \in Nat /\ t * (100 * (pct + d)) \in Nat
    BY <1>4, <2>1, Times
  <2> QED
    BY <1>4, <1>5, <2>2, <2>3
<1> QED
  BY <1>6, <1>7

\* The whole part and the rest of exact points.
LEMMA WholeAndRest ==
    ASSUME NEW x, x.num \in [Providers -> Nat], x.den \in Nat \ {0}
    PROVE  /\ Floor(x) \in [Providers -> Nat] /\ Remainder(x) \in [Providers -> Nat]
           /\ \A p \in Providers : x.num[p] = x.den * Floor(x)[p] + Remainder(x)[p]
<1>1. ASSUME NEW p \in Providers
      PROVE  /\ x.num[p] \div x.den \in Nat /\ x.num[p] % x.den \in Nat
             /\ x.num[p] = x.den * (x.num[p] \div x.den) + (x.num[p] % x.den)
  <2> DEFINE n == x.num[p]
             k == x.den
  <2>1. n \in Nat /\ k \in Nat \ {0}
    OBVIOUS
  <2> HIDE DEF n, k
  <2>2. n \div k \in Nat /\ n % k \in 0..(k - 1) /\ n = k * (n \div k) + (n % k)
    BY <2>1, Division
  <2>3. n % k \in Nat
    BY <2>1, <2>2
  <2> QED BY <2>2, <2>3 DEF n, k
<1> QED
  BY <1>1 DEF Floor, Remainder

\* A plan is like the shares it starts from: then no tie decides it, and it is
\* the only one that can be made of them.
LEMMA OnlyPlan ==
    ASSUME NEW pct \in [Providers -> 0..Full], NEW maintained, NEW m,
           NEW rate \in [Providers -> Nat], NEW worst, Shifts(pct, maintained, Cut(m, worst)),
           AboutFull(pct), Dozen,
           NEW r \in BuildRoutingPlan(pct, maintained, m, rate, worst), Alike(pct, r),
           NEW s \in BuildRoutingPlan(pct, maintained, m, rate, worst)
    PROVE  s = r
<1> DEFINE cut == Cut(m, worst)
           x == Exact(pct, maintained, m, rate, worst)
           t == TotalWeight(pct, maintained, cut, m, rate)
           d == SumFunctionOnSet(pct, cut)
           all == SumFunction(pct)
           base == Floor(x)
           rem == Remainder(x)
           a == [p \in Providers |-> r[p] \div Point]
           b == [p \in Providers |-> s[p] \div Point]
<1>0. pct \in [Providers -> Nat] /\ \A p \in Providers : pct[p] \in Nat
  <2>1. \A i \in 0..Full : i \in Nat
    BY DEF Full
  <2> QED BY <2>1
<1>1. IsPlan(r, x, cut) /\ IsPlan(s, x, cut)
  BY PlanFacts
<1>2. ExactlyShared(pct, maintained, m, rate, worst)
  BY ExactShares
<1>3. t \in Nat \ {0} /\ cut \subseteq Providers /\ all \in (Full - 1)..(Full + 1) /\ all \in Nat
  BY Totals DEF Shifts, AboutFull
<1>4. /\ x.num \in [Providers -> Nat] /\ x.den \in Nat \ {0} /\ x.den = all * t
      /\ \A p \in cut : x.num[p] = 0
      /\ \A p \in Providers \ cut : /\ x.num[p] >= 100 * (pct[p] * t)
                                    /\ x.num[p] <= 100 * (pct[p] * t + d * t)
  BY <1>2 DEF ExactlyShared, Whole
<1>5. /\ base \in [Providers -> Nat] /\ rem \in [Providers -> Nat]
      /\ \A p \in Providers : x.num[p] = x.den * base[p] + rem[p]
  <2>1. x.num \in [Providers -> Nat] /\ x.den \in Nat \ {0}
    BY <1>4
  <2> HIDE DEF x
  <2> QED BY ONLY <2>1, WholeAndRest DEF base, rem
<1>6. ASSUME NEW u \in {r, s}
      PROVE  /\ u \in [Providers -> 0..Full] /\ SumFunction(u) = Full
             /\ HandedOut([p \in Providers |-> u[p] \div Point], base, rem)
             /\ \A p \in Providers : /\ u[p] \div Point \in 0..100
                                     /\ u[p] = Point * (u[p] \div Point)
                                     /\ p \in cut => u[p] = 0
  <2>1. IsPlan(u, x, cut)
    BY <1>1, <1>6
  <2>2. ASSUME NEW n \in 0..Full, n % Point = 0
        PROVE  n \div Point \in 0..100 /\ n = Point * (n \div Point)
    <3>1. n \in 0..10000 /\ n % 100 = 0
      BY <2>2 DEF Full, Point
    <3>2. n \in Nat /\ 100 \in Nat \ {0}
      BY ONLY <3>1
    <3>3. n \div 100 \in Nat /\ n = 100 * (n \div 100) + (n % 100)
      BY ONLY <3>2, Division
    <3>4. n \div 100 \in 0..100 /\ n = 100 * (n \div 100)
      BY ONLY <3>1, <3>3
    <3> QED BY ONLY <3>4 DEF Point
  <2> HIDE DEF x, cut, base, rem
  <2> QED BY <2>1, <2>2 DEF IsPlan, base, rem
<1>7. d \in 0..75
  <2>1. \A p \in cut : pct[p] <= 5
    <3>1. \A p \in cut : r[p] = 0 /\ pct[p] - r[p] \in -5..5 /\ pct[p] \in Nat
      <4> HIDE DEF cut
      <4> QED BY <1>0, <1>3, <1>6 DEF Alike
    <3> QED BY <3>1
  <2> HIDE DEF cut
  <2> QED BY <1>0, <1>3, <2>1, LittleMoves
<1> HIDE DEF cut, x, t, d, all, base, rem
<1>8. ASSUME NEW p \in Providers
      PROVE  /\ a[p] # base[p] => rem[p] >= t * 9400
             /\ a[p] = base[p] => rem[p] <= t * 8100
  <2>0. a[p] \in 0..100 /\ r[p] = 100 * a[p] /\ (p \in cut => a[p] = 0)
    <3>1. r[p] \div Point \in 0..100 /\ r[p] = Point * (r[p] \div Point) /\ (p \in cut => r[p] = 0)
      BY <1>6
    <3> QED BY <3>1 DEF Point
  <2>1. a[p] = base[p] \/ a[p] = base[p] + 1
    <3>1. HandedOut(a, base, rem)
      BY <1>6
    <3> HIDE DEF a
    <3> QED BY <3>1 DEF HandedOut
  <2> HIDE DEF a
  <2>2. base[p] \in Nat /\ rem[p] \in Nat /\ x.num[p] = x.den * base[p] + rem[p]
    BY <1>5
  <2>3. CASE p \in cut
    <3>1. x.num[p] = 0 /\ a[p] = 0
      BY <1>4, <2>0, <2>3
    <3>2. x.den * base[p] \in Nat
      BY <1>4, <2>2, Times
    <3>3. rem[p] = 0 /\ a[p] = base[p]
      BY <2>1, <2>2, <3>1, <3>2
    <3>4. t * 8100 \in Nat
      BY <1>3
    <3> QED BY <3>3, <3>4
  <2>4. CASE p \notin cut
    <3>2. pct[p] \in Nat /\ pct[p] - r[p] \in -5..5
      BY <1>0 DEF Alike
    <3>1. /\ base[p] \in 0..100
          /\ a[p] = base[p] => pct[p] <= 100 * base[p] + 5
          /\ a[p] = base[p] + 1 => pct[p] >= 100 * base[p] + 95
      <4> DEFINE ap == a[p]
                 bp == base[p]
                 q == pct[p]
      <4>1. /\ ap \in 0..100 /\ bp \in Nat /\ q \in Nat /\ q - 100 * ap \in -5..5
            /\ ap = bp \/ ap = bp + 1
        BY <2>0, <2>1, <2>2, <3>2
      <4> HIDE DEF ap, bp, q
      <4>2. /\ bp \in 0..100
            /\ ap = bp => q <= 100 * bp + 5
            /\ ap = bp + 1 => q >= 100 * bp + 95
        BY ONLY <4>1
      <4> QED BY <4>2 DEF ap, bp, q
    <3>5. /\ x.num[p] \in Nat /\ x.num[p] = (all * t) * base[p] + rem[p]
          /\ x.num[p] >= 100 * (pct[p] * t) /\ x.num[p] <= 100 * (pct[p] * t + d * t)
      BY <1>4, <2>2, <2>4
    <3>6. Split(pct[p], all, t, d, x.num[p], base[p], rem[p])
      BY ONLY <1>3, <1>7, <2>2, <3>1, <3>2, <3>5 DEF Split
    <3>7. /\ pct[p] >= 100 * base[p] + 95 => rem[p] >= t * 9400
          /\ pct[p] <= 100 * base[p] + 5 => rem[p] <= t * 8100
      BY ONLY <3>6, FarAbove
    <3> QED BY <2>1, <3>1, <3>7
  <2> QED BY <2>3, <2>4
<1>9. \A p, q \in Providers : a[p] # base[p] /\ a[q] = base[q] => rem[p] > rem[q]
  <2>1. t * 8100 < t * 9400 /\ t * 8100 \in Nat /\ t * 9400 \in Nat
    BY <1>3
  <2> HIDE DEF a
  <2> QED BY <1>5, <1>8, <2>1
<1>10. /\ a \in [Providers -> Nat] /\ b \in [Providers -> Nat]
       /\ HandedOut(a, base, rem) /\ HandedOut(b, base, rem)
  BY <1>6
<1>11. SumFunctionOnSet(a, Providers) = 100 /\ SumFunctionOnSet(b, Providers) = 100
  <2>1. ASSUME NEW u \in [Providers -> 0..Full], NEW k \in [Providers -> Nat], SumFunction(u) = Full,
               \A p \in Providers : u[p] = Point * k[p]
        PROVE  SumFunctionOnSet(k, Providers) = 100
    <3>1. \A p \in Providers : k[p] \in Int /\ k[p] \in Nat /\ u[p] = 100 * k[p]
      BY <2>1 DEF Point
    <3>2. SumFunctionOnSet(u, Providers) = 100 * SumFunctionOnSet(k, Providers)
      BY <3>1, ProvidersAssumption, SumScale
    <3>3. SumFunctionOnSet(k, Providers) \in Nat
      BY <3>1, ProvidersAssumption, SumNat
    <3> QED BY <2>1, <3>2, <3>3 DEF SumFunction, Full
  <2>2. \A p \in Providers : r[p] = Point * a[p] /\ s[p] = Point * b[p]
    BY <1>6
  <2> HIDE DEF a, b
  <2> QED BY <1>6, <1>10, <2>1, <2>2
<1>12. a = b
  <2> HIDE DEF a, b
  <2> QED BY <1>5, <1>9, <1>10, <1>11, NoTies
<1>13. \A p \in Providers : r[p] = Point * a[p] /\ s[p] = Point * b[p]
  BY <1>6
<1>14. r \in [Providers -> 0..Full] /\ s \in [Providers -> 0..Full]
  BY <1>6
<1> HIDE DEF a, b
<1> QED
  BY <1>12, <1>13, <1>14
\* How often a provider is visited is a number.
LEMMA VisitsType == ASSUME NEW i, NEW n \in Nat PROVE Visits(i, n) \in Nat
<1>1. IsFiniteSet(0..(n - 1))
  BY FS_Interval
<1>2. IsFiniteSet({k \in 0..(n - 1) : k % Cardinality(Providers) = i - 1})
  BY <1>1, FS_Subset
<1> QED
  BY <1>2, FS_CardinalityType DEF Visits

\* Shares that are not rescaled stay what they are or become whole points.
LEMMA KeptRounded ==
    ASSUME NEW kept \in [Providers -> 0..Full],
           NEW r \in Rounded([num |-> kept, den |-> Point])
    PROVE  r = kept \/ \E k \in [Providers -> Nat] : r = [p \in Providers |-> Point * k[p]]
<1> DEFINE x == [num |-> kept, den |-> Point]
           sum == SumFunction(Floor(x))
<1>1. x.num = kept /\ x.den = Point /\ r \in Rounded(x)
  OBVIOUS
<1>2. \A p \in Providers : kept[p] \in Nat
  <2>1. \A i \in 0..Full : i \in Nat
    BY DEF Full
  <2> QED BY <2>1
<1>3. CASE sum = 0
  <2>1. r = [p \in Providers |-> (Point * x.num[p]) \div x.den]
    BY <1>1, <1>3, Zenon DEF Rounded, Floor
  <2>2. \A n \in Nat : (100 * n) \div 100 = n
    OBVIOUS
  <2>3. \A p \in Providers : r[p] = kept[p]
    BY <1>1, <1>2, <2>1, <2>2 DEF Point
  <2> QED BY <2>1, <2>3
<1>4. CASE sum # 0
  <2>1. PICK o : r = [p \in Providers |-> Shared(Floor(x)[p], PlaceIn(o, p), sum)]
    <3> HIDE DEF x
    <3> QED BY <1>1, <1>4, RoundedByOrder
  <2>2. x.num \in [Providers -> Nat] /\ x.den \in Nat \ {0}
    BY <1>2 DEF Point
  <2> HIDE DEF x
  <2>3. Floor(x) \in [Providers -> Nat]
    BY <2>2, WholeAndRest
  <2>4. sum \in Nat
    BY <2>3, ProvidersAssumption, SumNat DEF SumFunction
  <2> HIDE DEF sum
  <2>5. ASSUME NEW f \in Nat, NEW i
        PROVE  \E n \in Nat : Shared(f, i, sum) = Point * n
    <3>1. Visits(i, 100 - sum) \in Nat \/ ~(sum < 100)
      BY <2>4, VisitsType
    <3>2. Visits(i, sum - 100) \in Nat \/ sum < 100
      BY <2>4, VisitsType
    <3> QED BY <2>4, <3>1, <3>2 DEF Shared
  <2>6. \A p \in Providers : \E n \in Nat : r[p] = Point * n
    BY <2>1, <2>3, <2>5
  <2>7. PICK k \in [Providers -> Nat] : \A p \in Providers : r[p] = Point * k[p]
    <3> DEFINE k == [p \in Providers |-> CHOOSE n \in Nat : r[p] = Point * n]
    <3>1. \A p \in Providers : k[p] \in Nat /\ r[p] = Point * k[p]
      BY <2>6
    <3>2. k \in [Providers -> Nat]
      BY <3>1
    <3> HIDE DEF k
    <3> QED BY <3>1, <3>2
  <2>8. r = [p \in Providers |-> Point * k[p]]
    BY <2>1, <2>7
  <2> QED BY <2>8
<1> QED BY <1>3, <1>4

\* A plan that validateRoutingPct accepts gives nobody more than everything.
LEMMA StaysWithin ==
    ASSUME NEW pct \in [Providers -> 0..Full], NEW maintained, NEW m,
           NEW rate \in [Providers -> Nat], NEW worst \in Providers,
           NEW r \in BuildRoutingPlan(pct, maintained, m, rate, worst), AboutFull(r)
    PROVE  r \in [Providers -> 0..Full]
<1> DEFINE cut == Cut(m, worst)
           x == Exact(pct, maintained, m, rate, worst)
<1>1. cut \subseteq Providers /\ IsFiniteSet(cut)
  <2>1. cut \subseteq Providers
    BY DEF Cut
  <2> QED BY <2>1, ProvidersAssumption, FS_Subset
<1>2. pct \in [Providers -> Nat] /\ Kept(pct, cut) \in [Providers -> 0..Full]
  <2>1. 0 \in 0..Full /\ \A i \in 0..Full : i \in Nat
    BY DEF Full
  <2> HIDE DEF cut
  <2> QED BY <2>1 DEF Kept
<1>3. CASE Shifts(pct, maintained, cut)
  BY <1>3, PlanShares, Zenon
<1>4. CASE ~Shifts(pct, maintained, cut)
  <2>1. SumFunctionOnSet(pct, cut) = 0 \/ Receivers(pct, maintained, cut) = {}
    <3>1. SUFFICES ASSUME \A p \in cut : pct[p] = 0 PROVE SumFunctionOnSet(pct, cut) = 0
      <4>1. \A p \in cut : pct[p] \in Nat
        BY <1>1, <1>2
      <4> HIDE DEF cut
      <4> QED BY <1>1, <1>2, <1>4, <4>1 DEF Shifts
    <3>2. \A p \in cut : pct[p] \in 0..0
      BY <3>1
    <3>3. /\ SumFunctionOnSet(pct, cut) \in Nat
          /\ SumFunctionOnSet(pct, cut) <= Cardinality(cut) * 0
      <4> HIDE DEF cut
      <4> QED BY <1>1, <3>2, SumBound
    <3>4. Cardinality(cut) \in Nat
      BY <1>1, FS_CardinalityType
    <3> QED BY <3>3, <3>4
  <2>2. x = [num |-> Kept(pct, cut), den |-> Point]
    BY <2>1, Zenon DEF Exact, Kept, Receivers
  <2>3. PICK q \in Rounded(x) : r = SoleGetsAll(q)
    BY Zenon DEF BuildRoutingPlan
  <2>4. q = Kept(pct, cut) \/ \E k \in [Providers -> Nat] : q = [p \in Providers |-> Point * k[p]]
    <3> HIDE DEF x, cut
    <3> QED BY <1>2, <2>2, <2>3, KeptRounded
  <2>5. CASE r = q
    <3>1. CASE q = Kept(pct, cut)
      BY <1>2, <2>5, <3>1
    <3>2. ASSUME NEW k \in [Providers -> Nat], q = [p \in Providers |-> Point * k[p]]
          PROVE  r \in [Providers -> 0..Full]
      <4>1. \A p \in Providers : r[p] \in Nat /\ r[p] = 100 * k[p]
        BY <2>5, <3>2 DEF Point
      <4>2. SumFunction(r) = SumFunctionOnSet(r, Providers) /\ SumFunction(r) <= 10001
        BY <2>5, <3>2 DEF SumFunction, AboutFull, Full
      <4>3. \A p \in Providers : 100 * k[p] <= 10001
        <5>1. SumFunctionOnSet(r, Providers) \in Nat
              /\ \A p \in Providers : r[p] <= SumFunctionOnSet(r, Providers)
          BY <4>1, ProvidersAssumption, SumNat
        <5> HIDE DEF x, cut
        <5> QED BY <4>1, <4>2, <5>1
      <4>4. \A p \in Providers : r[p] \in 0..Full
        <5>1. \A i \in Nat : 100 * i <= 10001 => 100 * i \in 0..Full
          BY DEF Full
        <5> QED BY <4>1, <4>3, <5>1
      <4> QED BY <2>5, <3>2, <4>4
    <3> QED BY <2>4, <3>1, <3>2
  <2>6. CASE r # q
    <3>1. \E A : r = [p \in Providers |-> IF p \in A THEN Full ELSE 0]
      BY <2>3, <2>6, Zenon DEF SoleGetsAll
    <3> QED BY <3>1 DEF Full
  <2> QED BY <2>5, <2>6
<1> QED BY <1>3, <1>4

\* Who has nothing gets nothing.
LEMMA NothingForNone ==
    ASSUME NEW pct, NEW maintained, NEW m, NEW rate \in [Providers -> Nat], NEW worst,
           Shifts(pct, maintained, Cut(m, worst)),
           NEW r \in BuildRoutingPlan(pct, maintained, m, rate, worst),
           NEW p \in Providers, pct[p] = 0
    PROVE  r[p] = 0
<1> DEFINE x == Exact(pct, maintained, m, rate, worst)
           t == TotalWeight(pct, maintained, Cut(m, worst), m, rate)
<1>1. x.num[p] = 0
  <2>1. p \notin Receivers(pct, maintained, Cut(m, worst)) /\ Kept(pct, Cut(m, worst))[p] = 0
    BY DEF Receivers, Routable, Kept
  <2>2. \/ x.num = Kept(pct, Cut(m, worst))
        \/ x.num[p] = 100 * (Kept(pct, Cut(m, worst))[p] * t + 0)
    BY <2>1 DEF Exact, Kept, Receivers, TotalWeight
  <2>3. t \in Nat
    BY Totals
  <2> HIDE DEF t, x
  <2> QED BY <2>1, <2>2, <2>3
<1>2. IsPlan(r, x, Cut(m, worst))
  BY PlanFacts
<1> HIDE DEF x
<1> QED
  BY <1>1, <1>2, Zenon DEF IsPlan

=============================================================================
