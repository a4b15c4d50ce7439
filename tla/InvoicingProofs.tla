-------------------------- MODULE InvoicingProofs --------------------------
(***************************************************************************)
(* Theorems about module Invoicing, for any number of request slots,       *)
(* classes, students, enrollment rows, fees, discounts, credits and        *)
(* deaths.                                                                 *)
(*                                                                         *)
(* That everyone gets an invoice and that consumed credit is entered in    *)
(* the ledger hold however requests overlap (Sound, Accounted).  The other *)
(* properties hold as long as requests in progress have no student in      *)
(* common, MaxOverlap = 1: then what a request has found, that there is no *)
(* invoice (Fresh) and that there is so much credit (Funded), is still so  *)
(* when it acts on it, as only a request of the same student undoes it.    *)
(***************************************************************************)
EXTENDS Invoicing, FiniteSetTheorems, SequenceTheorems, WellFoundedInduction, TLAPS

-----------------------------------------------------------------------------
(* Sums.  Total is a fold, and a fold a function defined by recursion on   *)
(* the subsets of what it adds up: that there is one, that two of them     *)
(* agree, and what it adds up to are inductions on the cardinality.        *)

\* A set of numbers has a smallest one.
LEMMA Smallest ==
  ASSUME NEW S \in SUBSET Nat, S # {}
  PROVE  \E n \in S : \A k \in S : n <= k
<1>1. PICK n \in S : \A k \in S : <<k, n>> \notin OpToRel(<, Nat)
  BY NatLessThanWellFounded, WFMin
<1>2. \A k \in S : ~ (k < n)
  BY <1>1 DEF OpToRel
<1> QED
  BY <1>2

\* What MapThenSumSet takes first, and leaves.
Taken(T) == CHOOSE n \in T : TRUE
Rest(T) == T \ {Taken(T)}
\* f adds up the amounts of the sets in D.
Adds(f, D, amount) ==
  f = [T \in D |-> IF T = {} THEN 0 ELSE amount[Taken(T)] + f[Rest(T)]]

LEMMA TotalFold ==
  ASSUME NEW S, NEW amount
  PROVE  Total(S, amount) = (CHOOSE f : Adds(f, SUBSET S, amount))[S]
BY DEF Total, MapThenSumSet, MapThenFoldSet, Adds, Taken, Rest

\* A non-empty set has one element more than what is left of it.
LEMMA TakenOut ==
  ASSUME NEW T, IsFiniteSet(T), T # {}
  PROVE  /\ Taken(T) \in T /\ IsFiniteSet(Rest(T)) /\ Rest(T) \subseteq T
         /\ Cardinality(T) \in Nat /\ Cardinality(Rest(T)) \in Nat
         /\ Cardinality(T) = Cardinality(Rest(T)) + 1
<1>1. Taken(T) \in T
  BY DEF Taken
<1>2. IsFiniteSet(Rest(T)) /\ Cardinality(Rest(T)) = Cardinality(T) - 1
  BY <1>1, FS_RemoveElement DEF Rest
<1>3. Cardinality(T) \in Nat /\ Cardinality(Rest(T)) \in Nat
  BY <1>2, FS_CardinalityType
<1> QED
  BY <1>1, <1>2, <1>3 DEF Rest

\* There is such an f for every finite set.
LEMMA AddsExists ==
  ASSUME NEW S, IsFiniteSet(S), NEW amount
  PROVE  \E f : Adds(f, SUBSET S, amount)
<1> DEFINE Small(n) == {T \in SUBSET S : Cardinality(T) <= n}
           without == {n \in Nat : ~ \E f : Adds(f, Small(n), amount)}
<1>1. \A T \in SUBSET S : IsFiniteSet(T) /\ Cardinality(T) \in Nat /\ Cardinality(T) <= Cardinality(S)
  BY FS_Subset, FS_CardinalityType
<1>2. ASSUME without # {}
      PROVE  FALSE
  <2>1. PICK n \in without : \A k \in without : n <= k
    <3>1. without \in SUBSET Nat
      OBVIOUS
    <3> HIDE DEF without
    <3> QED
      BY <1>2, <3>1, Smallest
  <2>2. n \in Nat /\ ~ \E f : Adds(f, Small(n), amount)
    OBVIOUS
  <2>3. CASE n = 0
    <3>1. \A T \in Small(0) : T = {}
      BY <1>1, FS_EmptySet
    <3> DEFINE g == [T \in Small(0) |-> 0]
    <3>2. Adds(g, Small(0), amount)
      BY <3>1 DEF Adds
    <3> QED
      BY <2>2, <2>3, <3>2
  <2>4. CASE n # 0
    <3>1. n - 1 \in Nat /\ n - 1 \notin without
      <4> HIDE DEF without
      <4> QED
        BY <2>1, <2>2, <2>4
    <3>2. PICK f : Adds(f, Small(n - 1), amount)
      BY <3>1
    <3> DEFINE g == [T \in Small(n) |-> IF T = {} THEN 0 ELSE amount[Taken(T)] + f[Rest(T)]]
    <3>3. ASSUME NEW T \in Small(n), T # {}
          PROVE  g[Rest(T)] = f[Rest(T)]
      <4>1. Rest(T) \in Small(n - 1) /\ Rest(T) \in Small(n)
        <5>1. Rest(T) \in SUBSET S /\ Cardinality(Rest(T)) \in Nat
                /\ Cardinality(T) = Cardinality(Rest(T)) + 1
          BY <1>1, <3>3, TakenOut
        <5> QED
          BY <5>1, <2>2, <3>3
      <4>2. f[Rest(T)] = IF Rest(T) = {} THEN 0 ELSE amount[Taken(Rest(T))] + f[Rest(Rest(T))]
        <5> HIDE DEF Small
        <5> QED
          BY <4>1, <3>2 DEF Adds
      <4> HIDE DEF Small
      <4> QED
        BY <4>1, <4>2
    <3>4. Adds(g, Small(n), amount)
      <4>1. \A T \in Small(n) : g[T] = IF T = {} THEN 0 ELSE amount[Taken(T)] + g[Rest(T)]
        BY <3>3
      <4> HIDE DEF Small
      <4>2. g = [T \in Small(n) |-> g[T]]
        OBVIOUS
      <4>3. [T \in Small(n) |-> g[T]] =
              [T \in Small(n) |-> IF T = {} THEN 0 ELSE amount[Taken(T)] + g[Rest(T)]]
        BY <4>1
      <4> HIDE DEF g
      <4> QED
        BY <4>2, <4>3 DEF Adds
    <3> QED
      BY <2>2, <3>4
  <2> QED
    BY <2>3, <2>4
<1>3. PICK f : Adds(f, Small(Cardinality(S)), amount)
  BY <1>1, <1>2, FS_CardinalityType
<1>4. Small(Cardinality(S)) = SUBSET S
  BY <1>1
<1> QED
  BY <1>3, <1>4

\* Two of them agree on the sets that both add up.
LEMMA AddsAgree ==
  ASSUME NEW A, NEW B, NEW S \in (SUBSET A) \cap SUBSET B, IsFiniteSet(S), NEW f, NEW g,
           NEW amount, NEW other,
         Adds(f, SUBSET A, amount), Adds(g, SUBSET B, other), \A n \in S : amount[n] = other[n]
  PROVE  f[S] = g[S]
<1> DEFINE apart == {n \in Nat : \E T \in SUBSET S : Cardinality(T) = n /\ f[T] # g[T]}
<1>1. ASSUME apart # {}
      PROVE  FALSE
  <2>1. PICK n \in apart : \A k \in apart : n <= k
    <3>1. apart \in SUBSET Nat
      OBVIOUS
    <3> HIDE DEF apart
    <3> QED
      BY <1>1, <3>1, Smallest
  <2>2. PICK T \in SUBSET S : Cardinality(T) = n /\ f[T] # g[T]
    OBVIOUS
  <2>3. T \in SUBSET A /\ T \in SUBSET B /\ IsFiniteSet(T)
    BY FS_Subset
  <2>4. /\ f[T] = IF T = {} THEN 0 ELSE amount[Taken(T)] + f[Rest(T)]
        /\ g[T] = IF T = {} THEN 0 ELSE other[Taken(T)] + g[Rest(T)]
    BY <2>3 DEF Adds
  <2>5. T # {} /\ f[Rest(T)] # g[Rest(T)]
    <3>1. T # {}
      BY <2>2, <2>4
    <3>2. amount[Taken(T)] = other[Taken(T)]
      BY <2>3, <3>1, TakenOut
    <3> QED
      BY <2>2, <2>4, <3>1, <3>2
  <2>6. Rest(T) \in SUBSET S /\ Cardinality(Rest(T)) \in Nat /\ Cardinality(Rest(T)) < n
    BY <2>2, <2>3, <2>5, TakenOut
  <2>7. Cardinality(Rest(T)) \in apart
    BY <2>5, <2>6
  <2> QED
    BY <2>1, <2>6, <2>7
<1>2. Cardinality(S) \notin apart
  BY <1>1
<1> QED
  BY <1>2, FS_CardinalityType

\* The sum of nothing, and of what is taken and the rest.
LEMMA TotalTaken ==
  ASSUME NEW S, IsFiniteSet(S), NEW amount
  PROVE  Total(S, amount) = IF S = {} THEN 0 ELSE amount[Taken(S)] + Total(Rest(S), amount)
<1> DEFINE f == CHOOSE f : Adds(f, SUBSET S, amount)
           g == CHOOSE g : Adds(g, SUBSET Rest(S), amount)
<1>1. Adds(f, SUBSET S, amount)
  BY AddsExists, Zenon
<1>2. Total(S, amount) = f[S]
  BY TotalFold
<1>3. Total(Rest(S), amount) = g[Rest(S)]
  BY TotalFold
<1>4. f[S] = IF S = {} THEN 0 ELSE amount[Taken(S)] + f[Rest(S)]
  <2> HIDE DEF f
  <2> QED
    BY <1>1 DEF Adds
<1>5. ASSUME S # {}
      PROVE  f[Rest(S)] = g[Rest(S)]
  <2>1. IsFiniteSet(Rest(S)) /\ Rest(S) \in (SUBSET S) \cap SUBSET Rest(S)
    BY <1>5, TakenOut
  <2>2. Adds(g, SUBSET Rest(S), amount)
    BY <2>1, AddsExists, Zenon
  <2> HIDE DEF f, g
  <2> QED
    BY <1>1, <2>1, <2>2, AddsAgree
<1> HIDE DEF f, g
<1> QED
  BY <1>2, <1>3, <1>4, <1>5

\* Sums of the same amounts are the same.
LEMMA TotalSame ==
  ASSUME NEW S, IsFiniteSet(S), NEW amount, NEW other, \A n \in S : amount[n] = other[n]
  PROVE  Total(S, amount) = Total(S, other)
<1> DEFINE f == CHOOSE f : Adds(f, SUBSET S, amount)
           g == CHOOSE g : Adds(g, SUBSET S, other)
<1>1. Adds(f, SUBSET S, amount) /\ Adds(g, SUBSET S, other)
  BY AddsExists, Zenon
<1>2. Total(S, amount) = f[S] /\ Total(S, other) = g[S]
  BY TotalFold
<1>3. f[S] = g[S]
  <2> HIDE DEF f, g
  <2> QED
    BY <1>1, AddsAgree
<1> HIDE DEF f, g
<1> QED
  BY <1>2, <1>3

\* A sum of integers is one.
LEMMA TotalInt ==
  ASSUME NEW S, IsFiniteSet(S), NEW amount, \A n \in S : amount[n] \in Int
  PROVE  Total(S, amount) \in Int
<1> DEFINE bad == {n \in Nat : \E T \in SUBSET S : Cardinality(T) = n /\ Total(T, amount) \notin Int}
<1>1. ASSUME bad # {}
      PROVE  FALSE
  <2>1. PICK n \in bad : \A k \in bad : n <= k
    <3>1. bad \in SUBSET Nat
      OBVIOUS
    <3> HIDE DEF bad
    <3> QED
      BY <1>1, <3>1, Smallest
  <2>2. PICK T \in SUBSET S : Cardinality(T) = n /\ Total(T, amount) \notin Int
    OBVIOUS
  <2>3. IsFiniteSet(T)
    BY FS_Subset
  <2>4. T # {} /\ amount[Taken(T)] \in Int /\ Total(Rest(T), amount) \notin Int
    <3>1. T # {}
      BY <2>2, <2>3, TotalTaken
    <3>2. Total(T, amount) = amount[Taken(T)] + Total(Rest(T), amount)
      BY <2>3, <3>1, TotalTaken
    <3>3. amount[Taken(T)] \in Int
      BY <2>3, <3>1, TakenOut
    <3> QED
      BY <2>2, <3>1, <3>2, <3>3
  <2>5. Rest(T) \in SUBSET S /\ Cardinality(Rest(T)) \in Nat /\ Cardinality(Rest(T)) < n
    BY <2>2, <2>3, <2>4, TakenOut
  <2>6. Cardinality(Rest(T)) \in bad
    BY <2>4, <2>5
  <2> QED
    BY <2>1, <2>5, <2>6
<1>2. Cardinality(S) \notin bad
  BY <1>1
<1> QED
  BY <1>2, FS_CardinalityType

\* It does not matter what is taken first.
LEMMA TotalAdd ==
  ASSUME NEW S, IsFiniteSet(S), NEW x, x \notin S, NEW amount, \A n \in S \cup {x} : amount[n] \in Int
  PROVE  Total(S \cup {x}, amount) = Total(S, amount) + amount[x]
<1> DEFINE D == S \cup {x}
           wrong(T, y) == y \notin T /\ Total(T \cup {y}, amount) # Total(T, amount) + amount[y]
           bad == {n \in Nat : \E T \in SUBSET D, y \in D : Cardinality(T) = n /\ wrong(T, y)}
<1>0. IsFiniteSet(D)
  BY FS_AddElement
<1>s. \A T \in SUBSET D : IsFiniteSet(T) /\ Cardinality(T) \in Nat /\ Total(T, amount) \in Int
  <2> SUFFICES ASSUME NEW T \in SUBSET D
      PROVE IsFiniteSet(T) /\ Cardinality(T) \in Nat /\ Total(T, amount) \in Int
    OBVIOUS
  <2>1. IsFiniteSet(T)
    BY <1>0, FS_Subset
  <2>2. \A n \in T : amount[n] \in Int
    OBVIOUS
  <2> QED
    BY <2>1, <2>2, FS_CardinalityType, TotalInt
<1>1. ASSUME bad # {}
      PROVE  FALSE
  <2>1. PICK n \in bad : \A k \in bad : n <= k
    <3>1. bad \in SUBSET Nat
      OBVIOUS
    <3> HIDE DEF bad
    <3> QED
      BY <1>1, <3>1, Smallest
  <2>2. PICK T \in SUBSET D, y \in D : Cardinality(T) = n /\ wrong(T, y)
    OBVIOUS
  <2>n. n \in Nat
    OBVIOUS
  <2> DEFINE U == T \cup {y}
             p == Taken(U)
             V == T \ {p}
  <2>3. p \in U /\ Total(U, amount) = amount[p] + Total(Rest(U), amount) /\ Rest(U) = U \ {p}
    <3>1. IsFiniteSet(U) /\ U # {}
      BY <1>s
    <3>2. Rest(U) = U \ {p}
      BY DEF Rest
    <3> HIDE DEF U
    <3> QED
      BY <3>1, <3>2, TakenOut, TotalTaken
  <2> HIDE DEF p
  <2>4. p # y
    <3>1. ASSUME p = y PROVE FALSE
      <4>1. Rest(U) = T
        BY <2>2, <2>3, <3>1
      <4>2. amount[y] \in Int /\ Total(T, amount) \in Int
        BY <1>s, <2>2
      <4> QED
        BY <2>2, <2>3, <3>1, <4>1, <4>2
    <3> QED
      BY <3>1
  <2>5. p \in T /\ p \in D /\ Rest(U) = V \cup {y} /\ T = V \cup {p} /\ p \notin V /\ y \notin V
          /\ V \in SUBSET D
    BY <2>2, <2>3, <2>4
  <2>6. Cardinality(V) \in Nat /\ Cardinality(V) < n
    <3>1. IsFiniteSet(T) /\ Cardinality(T) \in Nat
      BY <1>s
    <3>2. Cardinality(V) = Cardinality(T) - 1
      BY <2>5, <3>1, FS_RemoveElement
    <3> QED
      BY <1>s, <2>2, <2>5, <3>1, <3>2
  <2>7. Cardinality(V) \notin bad
    <3> HIDE DEF bad
    <3> QED
      BY <2>1, <2>n, <2>6
  <2>8. ~wrong(V, y) /\ ~wrong(V, p)
    BY <2>5, <2>6, <2>7
  <2>9. /\ Total(V \cup {y}, amount) = Total(V, amount) + amount[y]
        /\ Total(T, amount) = Total(V, amount) + amount[p]
    BY <2>5, <2>8
  <2>10. Total(V, amount) \in Int /\ amount[y] \in Int /\ amount[p] \in Int
    BY <1>s, <2>2, <2>5
  <2>11. Total(U, amount) = Total(T, amount) + amount[y]
    <3>1. Total(Rest(U), amount) = Total(V, amount) + amount[y]
      BY <2>5, <2>9
    <3> HIDE DEF U, V
    <3> QED
      BY <2>3, <2>9, <2>10, <3>1
  <2> QED
    BY <2>2, <2>11
<1>2. Cardinality(S) \notin bad
  BY <1>1
<1>3. Cardinality(S) \in Nat
  BY FS_CardinalityType
<1> QED
  BY <1>2, <1>3

\* A sum with one more amount.
LEMMA TotalMore ==
  ASSUME NEW S, IsFiniteSet(S), NEW x, x \notin S, NEW old, NEW new,
         \A n \in S : old[n] \in Int /\ new[n] = old[n], new[x] \in Int
  PROVE  Total(S \cup {x}, new) = Total(S, old) + new[x]
<1>1. Total(S, new) = Total(S, old)
  BY TotalSame
<1>2. \A n \in S \cup {x} : new[n] \in Int
  OBVIOUS
<1>3. Total(S \cup {x}, new) = Total(S, new) + new[x]
  BY <1>2, TotalAdd
<1> QED
  BY <1>1, <1>3

LEMMA TotalNone == ASSUME NEW amount PROVE Total({}, amount) = 0
BY TotalTaken, FS_EmptySet

\* The entries of a table are finitely many.
LEMMA IndicesFinite == \A k \in Nat : IsFiniteSet(1..k)
BY FS_Interval

LEMMA RowsFinite ==
  ASSUME NEW R, NEW table \in Seq(R), NEW S, S \subseteq DOMAIN table
  PROVE  IsFiniteSet(S)
<1>0. Len(table) \in Nat
  OBVIOUS
<1>1. IsFiniteSet(1..Len(table))
  BY <1>0, IndicesFinite
<1>2. S \in SUBSET (1..Len(table))
  OBVIOUS
<1> QED
  BY <1>1, <1>2, FS_Subset

LEMMA SumOfInt ==
  ASSUME NEW s \in Seq(Int)
  PROVE  SumOf(s) \in Int
<1>1. IsFiniteSet(DOMAIN s)
  BY RowsFinite
<1>2. \A n \in DOMAIN s : s[n] \in Int
  OBVIOUS
<1> QED
  BY <1>1, <1>2, TotalInt DEF SumOf

LEMMA SumOfAppend ==
  ASSUME NEW s \in Seq(Int), NEW e \in Int
  PROVE  SumOf(Append(s, e)) = SumOf(s) + e
<1> DEFINE t == Append(s, e)
           x == Len(s) + 1
<1>1. IsFiniteSet(DOMAIN s)
  BY RowsFinite
<1>2. DOMAIN t = DOMAIN s \cup {x} /\ x \notin DOMAIN s /\ t[x] = e
  OBVIOUS
<1>3. \A n \in DOMAIN s : s[n] \in Int /\ t[n] = s[n]
  OBVIOUS
<1> HIDE DEF t, x
<1>4. Total(DOMAIN t, t) = Total(DOMAIN s, s) + e
  BY <1>1, <1>2, <1>3, TotalMore
<1> QED
  BY <1>4 DEF SumOf, t

LEMMA SumOfOne ==
  ASSUME NEW e \in Int
  PROVE  SumOf(<<e>>) = e
<1>1. SumOf(<<>>) = 0
  BY TotalNone DEF SumOf
<1>2. <<e>> = Append(<<>>, e) /\ <<>> \in Seq(Int)
  OBVIOUS
<1>3. SumOf(Append(<<>>, e)) = SumOf(<<>>) + e
  BY <1>2, SumOfAppend
<1> QED
  BY <1>1, <1>2, <1>3

-----------------------------------------------------------------------------
(* The price is a fold over the discounts, in the same way: from the last  *)
(* one back to the items before any.                                       *)

LEMMA LargestIn ==
  ASSUME NEW k \in Nat, NEW T \in SUBSET (1..k), T # {}
  PROVE  Max(T) \in T
<1> DEFINE below == {k - n : n \in T}
<1>0. \A n \in T : n \in Nat /\ n <= k
  OBVIOUS
<1>a. \A n \in T : k - n \in Nat
  BY <1>0
<1>b. PICK i \in T : TRUE
  OBVIOUS
<1>c. k - i \in below
  OBVIOUS
<1>1. below \in SUBSET Nat /\ below # {}
  BY <1>a, <1>c
<1>2. PICK m \in below : \A j \in below : m <= j
  <2> HIDE DEF below
  <2> QED
    BY <1>1, Smallest
<1>3. PICK n \in T : m = k - n
  OBVIOUS
<1>4. ASSUME NEW j \in T PROVE n >= j
  <2>1. k - j \in below
    OBVIOUS
  <2>2. m <= k - j
    <3> HIDE DEF below
    <3> QED
      BY <1>2, <2>1
  <2>3. n \in Nat /\ j \in Nat
    BY <1>0
  <2> HIDE DEF below
  <2> QED
    BY <1>3, <2>2, <2>3
<1> QED
  BY <1>3, <1>4 DEF Max

Discounted(items, d) == Append(items, -AmountOff(d, SumOf(items)))
Without(T) == T \ {Max(T)}
Prices(f, D, base, ds) ==
  f = [T \in D |-> IF T = {} THEN base ELSE Discounted(f[Without(T)], ds[Max(T)])]

LEMMA PricedFold ==
  ASSUME NEW f, NEW s, NEW c, NEW ds
  PROVE  Priced(f, s, c, ds) =
           (CHOOSE g : Prices(g, SUBSET DOMAIN ds, <<f>> \o Deduction(f, s, c), ds))[DOMAIN ds]
BY DEF Priced, FoldLeft, MapThenFoldSet, Prices, Discounted, Without

LEMMA WithoutOne ==
  ASSUME NEW k \in Nat, NEW T \in SUBSET (1..k), T # {}
  PROVE  /\ Without(T) \in SUBSET (1..k) /\ Max(T) \in T
         /\ Cardinality(T) \in Nat /\ Cardinality(Without(T)) \in Nat
         /\ Cardinality(T) = Cardinality(Without(T)) + 1
<1>0. IsFiniteSet(1..k)
  BY FS_Interval
<1>1. IsFiniteSet(T) /\ Max(T) \in T
  BY <1>0, FS_Subset, LargestIn
<1>2. IsFiniteSet(Without(T)) /\ Cardinality(Without(T)) = Cardinality(T) - 1
  BY <1>1, FS_RemoveElement DEF Without
<1>3. Cardinality(T) \in Nat /\ Cardinality(Without(T)) \in Nat
  BY <1>1, <1>2, FS_CardinalityType
<1>4. Without(T) \in SUBSET (1..k)
  BY DEF Without
<1> QED
  BY <1>1, <1>2, <1>3, <1>4

LEMMA PricesExists ==
  ASSUME NEW k \in Nat, NEW base, NEW ds
  PROVE  \E f : Prices(f, SUBSET (1..k), base, ds)
<1> DEFINE S == 1..k
           Small(n) == {T \in SUBSET S : Cardinality(T) <= n}
           without == {n \in Nat : ~ \E f : Prices(f, Small(n), base, ds)}
<1>0. IsFiniteSet(S)
  BY FS_Interval
<1>1. \A T \in SUBSET S : IsFiniteSet(T) /\ Cardinality(T) \in Nat /\ Cardinality(T) <= Cardinality(S)
  BY <1>0, FS_Subset, FS_CardinalityType
<1>2. ASSUME without # {}
      PROVE  FALSE
  <2>1. PICK n \in without : \A m \in without : n <= m
    <3>1. without \in SUBSET Nat
      OBVIOUS
    <3> HIDE DEF without
    <3> QED
      BY <1>2, <3>1, Smallest
  <2>2. n \in Nat /\ ~ \E f : Prices(f, Small(n), base, ds)
    OBVIOUS
  <2>3. CASE n = 0
    <3>1. \A T \in Small(0) : T = {}
      BY <1>1, FS_EmptySet
    <3> DEFINE g == [T \in Small(0) |-> base]
    <3>2. Prices(g, Small(0), base, ds)
      BY <3>1 DEF Prices
    <3> QED
      BY <2>2, <2>3, <3>2
  <2>4. CASE n # 0
    <3>1. n - 1 \in Nat /\ n - 1 \notin without
      <4> HIDE DEF without
      <4> QED
        BY <2>1, <2>2, <2>4
    <3>2. PICK f : Prices(f, Small(n - 1), base, ds)
      BY <3>1
    <3> DEFINE g == [T \in Small(n) |-> IF T = {} THEN base ELSE Discounted(f[Without(T)], ds[Max(T)])]
    <3>3. ASSUME NEW T \in Small(n), T # {}
          PROVE  g[Without(T)] = f[Without(T)]
      <4>1. Without(T) \in Small(n - 1) /\ Without(T) \in Small(n)
        <5>1. Without(T) \in SUBSET S /\ Cardinality(Without(T)) \in Nat
                /\ Cardinality(T) = Cardinality(Without(T)) + 1
          BY <3>3, WithoutOne
        <5> QED
          BY <5>1, <2>2, <3>3
      <4>2. f[Without(T)] = IF Without(T) = {} THEN base
                               ELSE Discounted(f[Without(Without(T))], ds[Max(Without(T))])
        <5> HIDE DEF Small
        <5> QED
          BY <4>1, <3>2 DEF Prices
      <4> HIDE DEF Small
      <4> QED
        BY <4>1, <4>2
    <3>4. Prices(g, Small(n), base, ds)
      <4>1. \A T \in Small(n) : g[T] = IF T = {} THEN base ELSE Discounted(g[Without(T)], ds[Max(T)])
        BY <3>3
      <4> HIDE DEF Small
      <4>2. g = [T \in Small(n) |-> g[T]]
        OBVIOUS
      <4>3. [T \in Small(n) |-> g[T]] =
              [T \in Small(n) |-> IF T = {} THEN base ELSE Discounted(g[Without(T)], ds[Max(T)])]
        BY <4>1
      <4> HIDE DEF g
      <4> QED
        BY <4>2, <4>3 DEF Prices
    <3> QED
      BY <2>2, <3>4
  <2> QED
    BY <2>3, <2>4
<1>3. PICK f : Prices(f, Small(Cardinality(S)), base, ds)
  BY <1>0, <1>1, <1>2, FS_CardinalityType
<1>4. Small(Cardinality(S)) = SUBSET S
  BY <1>1
<1> QED
  BY <1>3, <1>4

\* A discount that takes off no more than the whole price.
Reduction(d) == d.type = "percent" => d.value <= 100

LEMMA RoundNat ==
  ASSUME NEW n \in Nat, NEW d \in Nat \ {0}
  PROVE  Round(n, d) \in Nat
BY DEF Round

LEMMA PercentNat ==
  ASSUME NEW n \in Nat, NEW v \in Nat
  PROVE  n * v \in Nat
OBVIOUS

\* What the items say before any discount.
LEMMA BeforeDiscounts ==
  ASSUME NEW f \in Nat, NEW s \in Students, NEW c \in Classes
  PROVE  LET base == <<f>> \o Deduction(f, s, c)
         IN base \in Seq(Int) /\ base # <<>> /\ SumOf(base) <= f
<1>1. Absent[s][c] \in Nat /\ Held[c] \in Nat /\ Absent[s][c] <= Held[c]
  BY InvoicingAssumption
<1>2. <<f>> \in Seq(Int) /\ SumOf(<<f>>) = f
  BY SumOfOne
<1>3. CASE Absent[s][c] = 0
  <2>1. <<f>> \o Deduction(f, s, c) = <<f>>
    BY <1>3 DEF Deduction
  <2>2. <<f>> # <<>> /\ f <= f
    OBVIOUS
  <2> QED
    BY <1>2, <2>1, <2>2
<1>4. CASE Absent[s][c] # 0
  <2> DEFINE off == Round(f * Absent[s][c], Held[c])
  <2>1. off \in Nat
    <3>1. f * Absent[s][c] \in Nat /\ Held[c] \in Nat \ {0}
      BY <1>1, <1>4, PercentNat
    <3> QED
      BY <3>1, RoundNat
  <2>2. Deduction(f, s, c) = <<-off>>
    BY <1>4 DEF Deduction
  <2> HIDE DEF off
  <2>n. -off \in Int /\ f + (-off) <= f
    BY <2>1
  <2>3. <<f>> \o Deduction(f, s, c) = Append(<<f>>, -off)
    BY <2>1, <2>2
  <2>4. SumOf(Append(<<f>>, -off)) = SumOf(<<f>>) + (-off)
    BY <1>2, <2>n, SumOfAppend
  <2>5. Append(<<f>>, -off) \in Seq(Int) /\ Append(<<f>>, -off) # <<>>
    BY <2>n
  <2>6. SumOf(<<f>> \o Deduction(f, s, c)) <= f
    BY <1>2, <2>n, <2>3, <2>4
  <2> QED
    BY <2>3, <2>5, <2>6
<1> QED
  BY <1>3, <1>4

\* A percentage of a negative price leaves it negative.
LEMMA NegativeStays ==
  ASSUME NEW r \in Int, NEW v \in Nat, v <= 100, r <= 0
  PROVE  r - Round(r * v, 100) <= 0
<1> DEFINE p == r * v
<1>1. p \in Int /\ p >= 100 * r
  OBVIOUS
<1> HIDE DEF p
<1>2. r - ((2 * p + 100) \div 200) <= 0
  BY <1>1
<1> QED
  BY <1>2 DEF Round, p

\* A discount takes an amount off, and does not make the price higher than the fee.
LEMMA DiscountOff ==
  ASSUME NEW d \in Discounts, NEW r \in Int
  PROVE  /\ AmountOff(d, r) \in Int
         /\ \A f \in Nat : (Reduction(d) /\ r <= f) => r - AmountOff(d, r) <= f
<1>1. d.type \in {"flat", "percent"} /\ d.value \in Nat
  BY InvoicingAssumption
<1>2. CASE d.type # "percent"
  BY <1>1, <1>2 DEF AmountOff
<1>3. CASE d.type = "percent"
  <2>1. AmountOff(d, r) = Round(r * d.value, 100)
    BY <1>3 DEF AmountOff
  <2>2. Round(r * d.value, 100) \in Int
    <3>1. r * d.value \in Int
      BY <1>1
    <3> QED
      BY <3>1 DEF Round
  <2>3. CASE r >= 0
    <3>1. Round(r * d.value, 100) \in Nat
      BY <1>1, <2>3, PercentNat, RoundNat
    <3> QED
      BY <2>1, <2>3, <3>1
  <2>4. CASE r < 0
    <3>1. ASSUME Reduction(d)
          PROVE  r - Round(r * d.value, 100) <= 0
      <4>1. d.value <= 100
        BY <1>3, <3>1 DEF Reduction
      <4>2. r <= 0
        BY <2>4
      <4> QED
        BY <1>1, <4>1, <4>2, NegativeStays
    <3> QED
      BY <2>1, <2>2, <3>1
  <2> QED
    BY <2>3, <2>4
<1> QED
  BY <1>2, <1>3

\* The items of a price: they are amounts, there is at least the fee, and their sum is no more than it.
Items == {items \in Seq(Int) : items # <<>>}

LEMMA DiscountedItems ==
  ASSUME NEW items \in Items, NEW d \in Discounts
  PROVE  /\ Discounted(items, d) \in Items
         /\ \A f \in Nat : (Reduction(d) /\ SumOf(items) <= f) => SumOf(Discounted(items, d)) <= f
<1>1. items \in Seq(Int) /\ SumOf(items) \in Int
  BY SumOfInt DEF Items
<1>2. AmountOff(d, SumOf(items)) \in Int
  BY <1>1, DiscountOff
<1>3. -AmountOff(d, SumOf(items)) \in Int
  BY <1>2
<1>4. SumOf(Discounted(items, d)) = SumOf(items) + (-AmountOff(d, SumOf(items)))
  BY <1>1, <1>3, SumOfAppend DEF Discounted
<1>5. \A f \in Nat : (Reduction(d) /\ SumOf(items) <= f)
        => SumOf(items) - AmountOff(d, SumOf(items)) <= f
  BY <1>1, DiscountOff
<1>6. Discounted(items, d) \in Items
  BY <1>1, <1>3 DEF Discounted, Items
<1> QED
  BY <1>1, <1>2, <1>4, <1>5, <1>6

LEMMA PricedItems ==
  ASSUME NEW f \in Nat, NEW s \in Students, NEW c \in Classes, NEW ds, NEW k \in Nat,
         DOMAIN ds = 1..k, \A n \in 1..k : ds[n] \in Discounts
  PROVE  /\ Priced(f, s, c, ds) \in Items
         /\ (\A n \in 1..k : Reduction(ds[n])) => SumOf(Priced(f, s, c, ds)) <= f
<1> DEFINE base == <<f>> \o Deduction(f, s, c)
           g == CHOOSE g : Prices(g, SUBSET (1..k), base, ds)
           mild == \A n \in 1..k : Reduction(ds[n])
           fine(items) == items \in Items /\ (mild => SumOf(items) <= f)
           bad == {n \in Nat : \E T \in SUBSET (1..k) : Cardinality(T) = n /\ ~fine(g[T])}
<1>1. Prices(g, SUBSET (1..k), base, ds)
  BY PricesExists, Zenon
<1>2. Priced(f, s, c, ds) = g[1..k]
  BY PricedFold
<1>3. fine(base)
  BY BeforeDiscounts DEF Items
<1> HIDE DEF g, base
<1>4. ASSUME bad # {}
      PROVE  FALSE
  <2>1. PICK n \in bad : \A m \in bad : n <= m
    <3>1. bad \in SUBSET Nat
      OBVIOUS
    <3> HIDE DEF bad
    <3> QED
      BY <1>4, <3>1, Smallest
  <2>2. PICK T \in SUBSET (1..k) : Cardinality(T) = n /\ ~fine(g[T])
    OBVIOUS
  <2>n. n \in Nat
    OBVIOUS
  <2>3. g[T] = IF T = {} THEN base ELSE Discounted(g[Without(T)], ds[Max(T)])
    BY <1>1 DEF Prices
  <2>4. T # {} /\ g[T] = Discounted(g[Without(T)], ds[Max(T)])
    BY <1>3, <2>2, <2>3
  <2>5. Without(T) \in SUBSET (1..k) /\ Max(T) \in 1..k /\ Cardinality(Without(T)) \in Nat
          /\ Cardinality(Without(T)) < n
    <3>1. T \in SUBSET (1..k) /\ T # {} /\ Cardinality(T) = n
      BY <2>2, <2>4
    <3>2. /\ Without(T) \in SUBSET (1..k) /\ Max(T) \in T
          /\ Cardinality(T) \in Nat /\ Cardinality(Without(T)) \in Nat
          /\ Cardinality(T) = Cardinality(Without(T)) + 1
      BY <3>1, WithoutOne
    <3>3. Max(T) \in 1..k
      BY <3>1, <3>2
    <3>4. Cardinality(Without(T)) < n
      BY <3>1, <3>2
    <3> QED
      BY <3>2, <3>3, <3>4
  <2>6. ~fine(g[Without(T)])
    <3>1. ds[Max(T)] \in Discounts /\ (mild => Reduction(ds[Max(T)]))
      BY <2>5
    <3>2. ASSUME NEW items \in Items, mild => SumOf(items) <= f
          PROVE  fine(Discounted(items, ds[Max(T)]))
      BY <3>1, <3>2, DiscountedItems
    <3> QED
      BY <2>2, <2>4, <3>2
  <2>7. Cardinality(Without(T)) \in bad
    BY <2>5, <2>6
  <2> HIDE DEF bad
  <2> QED
    BY <2>1, <2>5, <2>7, <2>n
<1>5. IsFiniteSet(1..k) /\ Cardinality(1..k) \in Nat
  BY IndicesFinite, FS_CardinalityType
<1>6. fine(g[1..k])
  <2>1. Cardinality(1..k) \notin bad
    BY <1>4
  <2> QED
    BY <1>5, <2>1
<1> QED
  BY <1>2, <1>6

\* What a handler knows.
Memory(h) ==
  LET j == job[h] IN
  /\ Busy(h) => /\ j.class \in Classes /\ j.period \in Periods
                /\ j.fee \in Fees /\ j.todo \subseteq DOMAIN Enrolled[j.class]
  /\ pc[h] \in {"price", "credit", "invoice", "lines", "consume"}
       => j.student \in Range(Enrolled[j.class])
  /\ pc[h] \in {"credit", "invoice", "lines"} => j.items \in Items
  /\ pc[h] = "invoice" => j.credit <= NotBelowZero(SumOf(j.items))
  /\ pc[h] \in {"lines", "consume"} => j.row \in DOMAIN invoices
  /\ pc[h] = "consume" => j.credit > 0

\* Who is done with has an invoice, or is being billed.
Served(h) ==
  LET j == job[h] IN
  Busy(h) =>
    \A e \in DOMAIN Enrolled[j.class] \ j.todo :
      \/ Existing(Enrolled[j.class][e], Teacher[j.class], j.period) # {}
      \/ Enrolled[j.class][e] = j.student /\ pc[h] \in {"price", "credit", "invoice"}

Offered == fee \in [Classes -> Fees \union {None}]

Sound ==
  /\ TypeOK /\ Offered
  /\ \A h \in Handlers : Memory(h) /\ Served(h)

\* Requests in progress have no student in common.
Disjoint ==
  \A g, h \in Handlers : (g # h /\ Busy(g) /\ Busy(h)) => ~Shares(job[g].class, job[h].class)

\* The student a handler bills has no invoice yet.
Fresh(h) ==
  pc[h] \in {"price", "credit", "invoice"} =>
    Existing(job[h].student, Teacher[job[h].class], job[h].period) = {}

\* The credit a handler has read is still there until it consumes it.
Funded(h) ==
  pc[h] \in {"invoice", "lines", "consume"} => job[h].credit \in 0..Balance(job[h].student)

\* A price that only reductions led to is not above the fee.
Affordable(h) ==
  pc[h] \in {"credit", "invoice"} /\ OnlyReductions => SumOf(job[h].items) <= job[h].fee

\* The items written and those still to write explain the total.
Explains(h) ==
  pc[h] = "lines" =>
    NotBelowZero(SumOf(lines[job[h].row] \o job[h].items)) = invoices[job[h].row].total

OwnRows ==
  \A g, h \in Handlers : (g # h /\ pc[g] = "lines" /\ pc[h] = "lines") => job[g].row # job[h].row

Alone ==
  /\ Disjoint /\ NoDoubleBill /\ BalanceKept
  /\ \A h \in Handlers : Fresh(h) /\ Funded(h)

Clear ==
  /\ OwnRows /\ ItemsExplainTotal
  /\ \A h \in Handlers : Affordable(h) /\ Explains(h)

-----------------------------------------------------------------------------
\* The tables with one more row have the old rows.
LEMMA Grown ==
  ASSUME NEW A, NEW table \in Seq(A), NEW e
  PROVE  /\ Len(table) \in Nat /\ Len(Append(table, e)) = Len(table) + 1
         /\ DOMAIN Append(table, e) = DOMAIN table \cup {Len(table) + 1}
         /\ Len(table) + 1 \notin DOMAIN table
         /\ Append(table, e)[Len(table) + 1] = e
         /\ \A n \in DOMAIN table : Append(table, e)[n] = table[n]
OBVIOUS

LEMMA GrownInvoices ==
  ASSUME TypeOK, NEW e, invoices' = Append(invoices, e)
  PROVE  /\ DOMAIN invoices' = DOMAIN invoices \cup {Len(invoices) + 1}
         /\ Len(invoices) + 1 \notin DOMAIN invoices
         /\ invoices'[Len(invoices) + 1] = e
         /\ \A n \in DOMAIN invoices : invoices'[n] = invoices[n]
<1>1. invoices \in Seq([student : Students, teacher : Teachers, period : Periods,
                       subtotal : Nat, total : Nat, credit : Nat])
  BY DEF TypeOK
<1> QED
  BY <1>1, Grown

LEMMA GrownLedger ==
  ASSUME TypeOK, NEW e, ledger' = Append(ledger, e)
  PROVE  /\ DOMAIN ledger' = DOMAIN ledger \cup {Len(ledger) + 1}
         /\ Len(ledger) + 1 \notin DOMAIN ledger
         /\ ledger'[Len(ledger) + 1] = e
         /\ \A n \in DOMAIN ledger : ledger'[n] = ledger[n]
<1>1. ledger \in Seq([student : Students, amount : Int, source : 0..Len(invoices)])
  BY DEF TypeOK
<1> QED
  BY <1>1, Grown

Job == [class : Classes \union {None}, period : Periods \union {None},
        todo : SUBSET Nat, fee : Nat, student : Students \union {None},
        items : Seq(Int), credit : Int, row : Nat]

\* What a handler knows stays true when others issue invoices.
Kept == /\ Len(invoices') \in Nat /\ DOMAIN invoices \subseteq DOMAIN invoices'
        /\ \A n \in DOMAIN invoices : invoices'[n] = invoices[n]

LEMMA StillExisting ==
  ASSUME Kept, NEW s, NEW t, NEW p
  PROVE  Existing(s, t, p) \subseteq Existing(s, t, p)'
BY DEF Kept, Existing

LEMMA Elsewhere ==
  ASSUME Kept, NEW g \in Handlers, pc'[g] = pc[g], job'[g] = job[g], Memory(g), Served(g)
  PROVE  Memory(g)' /\ Served(g)'
<1>1. Memory(g)'
  BY DEF Kept, Memory, Busy
<1>2. Served(g)'
  <2> DEFINE j == job[g]
  <2> SUFFICES ASSUME Busy(g), NEW e \in DOMAIN Enrolled[j.class] \ j.todo
               PROVE  \/ (Existing(Enrolled[j.class][e], Teacher[j.class], j.period))' # {}
                      \/ Enrolled[j.class][e] = j.student /\ pc[g] \in {"price", "credit", "invoice"}
    BY DEF Served, Busy
  <2>1. \/ Existing(Enrolled[j.class][e], Teacher[j.class], j.period) # {}
        \/ Enrolled[j.class][e] = j.student /\ pc[g] \in {"price", "credit", "invoice"}
    BY DEF Served
  <2>2. Existing(Enrolled[j.class][e], Teacher[j.class], j.period)
          \subseteq (Existing(Enrolled[j.class][e], Teacher[j.class], j.period))'
    BY DEF Kept, Existing
  <2> QED
    BY <2>1, <2>2
<1> QED
  BY <1>1, <1>2

\* What TypeOK and Memory say of one handler.
LEMMA JobOf ==
  ASSUME TypeOK, NEW h \in Handlers
  PROVE  /\ job[h].class \in Classes \union {None} /\ job[h].period \in Periods \union {None}
         /\ job[h].todo \in SUBSET Nat /\ job[h].fee \in Nat
              /\ job[h].student \in Students \union {None}
         /\ job[h].items \in Seq(Int) /\ job[h].credit \in Int /\ job[h].row \in 0..Len(invoices)
         /\ job[h] \in Job /\ pc[h] \in PCs /\ Len(invoices) \in Nat
<1> DEFINE J == [class : Classes \union {None}, period : Periods \union {None},
                 todo : SUBSET Nat, fee : Nat, student : Students \union {None},
                 items : Seq(Int), credit : Int, row : 0..Len(invoices)]
<1>1. /\ invoices \in Seq([student : Students, teacher : Teachers, period : Periods,
                          subtotal : Nat, total : Nat, credit : Nat])
      /\ pc \in [Handlers -> PCs] /\ job \in [Handlers -> J]
  BY DEF TypeOK
<1>2. Len(invoices) \in Nat
  BY <1>1
<1>3. job[h] \in J /\ pc[h] \in PCs
  BY <1>1
<1>4. 0..Len(invoices) \subseteq Nat
  BY <1>2
<1>5. job[h] \in Job
  BY <1>3, <1>4 DEF Job
<1> QED
  BY <1>2, <1>3, <1>5

LEMMA StudentOf ==
  ASSUME NEW c \in Classes, NEW e \in DOMAIN Enrolled[c]
  PROVE  Enrolled[c][e] \in Students /\ Enrolled[c][e] \in Range(Enrolled[c]) /\ e \in Nat
<1>1. Enrolled[c] \in Seq(Students)
  BY InvoicingAssumption
<1> QED
  BY <1>1 DEF Range

LEMMA RangeStudents ==
  ASSUME NEW c \in Classes
  PROVE  Range(Enrolled[c]) \subseteq Students /\ DOMAIN Enrolled[c] \subseteq Nat
<1>1. Enrolled[c] \in Seq(Students)
  BY InvoicingAssumption
<1> QED
  BY <1>1 DEF Range

\* A step of one handler leaves the others as they are.
LEMMA OneMoves ==
  ASSUME Sound, NEW h \in Handlers, NEW k, NEW x, Kept,
         pc' = [pc EXCEPT ![h] = k], job' = [job EXCEPT ![h] = x],
         TypeOK', Offered', Memory(h)', Served(h)'
  PROVE  Sound'
<1>1. ASSUME NEW g \in Handlers
      PROVE  Memory(g)' /\ Served(g)'
  <2>1. CASE g = h
    BY <2>1
  <2>2. CASE g # h
    <3>1. pc'[g] = pc[g] /\ job'[g] = job[g]
      BY <2>2 DEF Sound, TypeOK
    <3>2. Memory(g) /\ Served(g)
      BY DEF Sound
    <3> QED
      BY <3>1, <3>2, Elsewhere
  <2> QED
    BY <2>1, <2>2
<1> QED
  BY <1>1 DEF Sound

\* The same when no handler moves.
LEMMA NoneMoves ==
  ASSUME Sound, Kept, pc' = pc, job' = job, TypeOK', Offered'
  PROVE  Sound'
<1>1. ASSUME NEW g \in Handlers
      PROVE  Memory(g)' /\ Served(g)'
  BY Elsewhere DEF Sound
<1> QED
  BY <1>1 DEF Sound

LEMMA InvoicesKept ==
  ASSUME TypeOK, invoices' = invoices
  PROVE  Kept
BY DEF TypeOK, Kept

\* Where a handler stands after a step that leaves its memory's types alone.
LEMMA RetypedJob ==
  ASSUME TypeOK, NEW h \in Handlers, NEW k \in PCs, NEW x \in Job, x.row <= Len(invoices),
         pc' = [pc EXCEPT ![h] = k], job' = [job EXCEPT ![h] = x],
         UNCHANGED invoices
  PROVE  /\ pc' \in [Handlers -> PCs]
         /\ job' \in [Handlers -> [class : Classes \union {None}, period : Periods \union {None},
                           todo : SUBSET Nat, fee : Nat, student : Students \union {None},
                           items : Seq(Int), credit : Int, row : 0..Len(invoices')]]
<1>1. Len(invoices) \in Nat
  BY DEF TypeOK
<1>2. x \in [class : Classes \union {None}, period : Periods \union {None},
             todo : SUBSET Nat, fee : Nat, student : Students \union {None},
             items : Seq(Int), credit : Int, row : 0..Len(invoices)]
  BY <1>1 DEF Job
<1> QED
  BY <1>2 DEF TypeOK

LEMMA EmptyHanded ==
  NoJob \in Job /\ NoJob.row = 0
BY DEF NoJob, Job

LEMMA SoundInit == Init => Sound
<1> SUFFICES ASSUME Init PROVE Sound
  OBVIOUS
<1>1. TypeOK
  BY InvoicingAssumption DEF Init, TypeOK, NoJob, PCs
<1>2. Offered
  BY DEF Init, Offered
<1>3. ASSUME NEW h \in Handlers PROVE Memory(h) /\ Served(h)
  BY DEF Init, Memory, Served, Busy
<1> QED
  BY <1>1, <1>2, <1>3 DEF Sound

LEMMA CreateFeeStructureSound ==
  ASSUME Sound, NEW c \in Classes, NEW a \in Fees, CreateFeeStructure(c, a)
  PROVE  Sound'
<1>1. TypeOK'
  BY InvoicingAssumption DEF Sound, TypeOK, CreateFeeStructure
<1>2. Offered'
  BY DEF Sound, Offered, CreateFeeStructure
<1> QED
  BY <1>1, <1>2, InvoicesKept, NoneMoves DEF CreateFeeStructure, Sound

LEMMA CreateDiscountSound ==
  ASSUME Sound, NEW d \in Discounts, CreateDiscount(d)
  PROVE  Sound'
<1>1. TypeOK'
  BY DEF Sound, TypeOK, CreateDiscount
<1>2. Offered'
  BY DEF Sound, Offered, CreateDiscount
<1> QED
  BY <1>1, <1>2, InvoicesKept, NoneMoves DEF CreateDiscount, Sound

LEMMA GrantCreditSound ==
  ASSUME Sound, NEW s \in Students, NEW a \in Grants, GrantCredit(s, a)
  PROVE  Sound'
<1>1. TypeOK'
  <2>1. Len(invoices) \in Nat /\ 0 \in 0..Len(invoices) /\ a \in Int
    BY InvoicingAssumption DEF Sound, TypeOK
  <2>2. ledger' \in Seq([student : Students, amount : Int, source : 0..Len(invoices)])
    BY <2>1 DEF Sound, TypeOK, GrantCredit
  <2> QED
    BY <2>2 DEF Sound, TypeOK, GrantCredit
<1>2. Offered'
  BY DEF Sound, Offered, GrantCredit
<1> QED
  BY <1>1, <1>2, InvoicesKept, NoneMoves DEF GrantCredit, Sound

\* A step after which a handler has nothing to do.
LEMMA Idles ==
  ASSUME Sound, NEW h \in Handlers, pc' = [pc EXCEPT ![h] = "idle"], job' = [job EXCEPT ![h] = NoJob],
         UNCHANGED <<fee, discounts, invoices, lines, ledger>>, fails' \in 0..MaxFails
  PROVE  Sound'
<1>1. Len(invoices) \in Nat
  BY DEF Sound, TypeOK
<1>2. TypeOK'
  <2>1. "idle" \in PCs /\ NoJob.row <= Len(invoices)
    BY <1>1, EmptyHanded DEF PCs
  <2> QED
    BY <2>1, EmptyHanded, RetypedJob DEF Sound, TypeOK
<1>3. Offered'
  BY DEF Sound, Offered
<1>4. Memory(h)' /\ Served(h)'
  BY DEF Memory, Served, Busy, Sound, TypeOK
<1> QED
  BY <1>2, <1>3, <1>4, InvoicesKept, OneMoves DEF Sound

LEMMA AnswerSound ==
  ASSUME Sound, NEW h \in Handlers, Answer(h)
  PROVE  Sound'
<1>1. fails' \in 0..MaxFails
  BY DEF Answer, Step, Sound, TypeOK
<1> QED
  BY <1>1, Idles DEF Answer, Step, rows

LEMMA FailSound ==
  ASSUME Sound, NEW h \in Handlers, Fail(h)
  PROVE  Sound'
<1>1. fails' \in 0..MaxFails
  BY InvoicingAssumption DEF Fail, Sound, TypeOK
<1> QED
  BY <1>1, Idles DEF Fail, rows

\* A step that only changes what a handler knows.
LEMMA Thinks ==
  ASSUME Sound, NEW h \in Handlers, NEW k \in PCs, NEW x \in Job, x.row <= Len(invoices),
         pc' = [pc EXCEPT ![h] = k], job' = [job EXCEPT ![h] = x], UNCHANGED <<rows, fails>>,
         Memory(h)', Served(h)'
  PROVE  Sound'
<1>1. TypeOK'
  BY RetypedJob DEF Sound, TypeOK, rows
<1>2. Offered'
  BY DEF Sound, Offered, rows
<1> QED
  BY <1>1, <1>2, InvoicesKept, OneMoves DEF Sound, rows

LEMMA StartGenerateSound ==
  ASSUME Sound, NEW h \in Handlers, NEW c \in Classes, NEW p \in Periods, StartGenerate(h, c, p)
  PROVE  Sound'
<1> DEFINE x == [NoJob EXCEPT !.class = c, !.period = p, !.fee = fee[c], !.todo = DOMAIN Enrolled[c]]
<1>1. fee[c] \in Fees /\ fee[c] \in Nat
  BY InvoicingAssumption DEF StartGenerate, Sound, Offered
<1>2. DOMAIN Enrolled[c] \in SUBSET Nat
  BY RangeStudents
<1>3. x \in Job /\ x.class = c /\ x.period = p /\ x.fee = fee[c] /\ x.todo = DOMAIN Enrolled[c]
        /\ x.row = 0
  <2>1. NoJob \in Job /\ NoJob.row = 0
    BY EmptyHanded
  <2> QED
    BY <1>1, <1>2, <2>1 DEF Job
<1>4. pc' = [pc EXCEPT ![h] = "next"] /\ job' = [job EXCEPT ![h] = x] /\ UNCHANGED <<rows, fails>>
  BY DEF StartGenerate, Step
<1> HIDE DEF x
<1>5. pc'[h] = "next" /\ job'[h] = x
  BY <1>4 DEF Sound, TypeOK
<1>6. Memory(h)'
  BY <1>1, <1>3, <1>5 DEF Memory, Busy
<1>7. Served(h)'
  BY <1>3, <1>5 DEF Served, Busy
<1>8. x.row <= Len(invoices) /\ "next" \in PCs
  BY <1>3 DEF Sound, TypeOK, PCs
<1> QED
  BY <1>3, <1>4, <1>6, <1>7, <1>8, Thinks

LEMMA CheckExistingSound ==
  ASSUME Sound, NEW h \in Handlers, NEW e \in job[h].todo, CheckExisting(h, e)
  PROVE  Sound'
<1> DEFINE j == job[h]
           s == Enrolled[j.class][e]
           billed == Existing(s, Teacher[j.class], j.period) # {}
           k == IF billed THEN "next" ELSE "price"
           x == [job[h] EXCEPT !.todo = job[h].todo \ {e}, !.student = s]
<1>1. pc[h] = "next" /\ Memory(h) /\ Served(h) /\ TypeOK
  BY DEF CheckExisting, Step, Sound
<1>2. j.class \in Classes /\ j.period \in Periods /\ j.fee \in Fees
        /\ j.todo \subseteq DOMAIN Enrolled[j.class]
  BY <1>1 DEF Memory, Busy
<1>3. s \in Students /\ s \in Range(Enrolled[j.class])
  BY <1>2, StudentOf
<1>4. j \in Job /\ j.row \in 0..Len(invoices) /\ Len(invoices) \in Nat
  BY <1>1, JobOf
<1>5. x \in Job /\ x.class = j.class /\ x.period = j.period /\ x.fee = j.fee /\ x.student = s
      /\ x.todo = j.todo \ {e} /\ x.row = j.row
  BY <1>3, <1>4 DEF Job
<1>6. pc' = [pc EXCEPT ![h] = k] /\ job' = [job EXCEPT ![h] = x] /\ UNCHANGED <<rows, fails>>
  <2>1. pc' = [pc EXCEPT ![h] = k] /\ UNCHANGED <<rows, fails>>
    BY DEF CheckExisting, Step
  <2>2. job' = [job EXCEPT ![h].todo = @ \ {e}, ![h].student = s]
    BY DEF CheckExisting
  <2>3. job' = [job EXCEPT ![h] = x]
    BY <1>1, <2>2 DEF TypeOK
  <2> QED
    BY <2>1, <2>3
<1>7. k \in PCs /\ k \in {"next", "price"}
  BY DEF PCs
<1> HIDE DEF x
<1>8. pc'[h] = k /\ job'[h] = x
  BY <1>1, <1>6 DEF TypeOK
<1>9. Memory(h)'
  BY <1>2, <1>3, <1>5, <1>7, <1>8 DEF Memory, Busy
<1>10. Served(h)'
  <2>1. ASSUME NEW d \in DOMAIN Enrolled[j.class] \ (j.todo \ {e})
        PROVE  \/ Existing(Enrolled[j.class][d], Teacher[j.class], j.period) # {}
               \/ Enrolled[j.class][d] = s /\ k = "price"
    <3>1. CASE d = e
      BY <3>1
    <3>2. CASE d # e
      BY <1>1, <3>2 DEF Served, Busy
    <3> QED
      BY <3>1, <3>2
  <2>2. invoices' = invoices
    BY <1>6 DEF rows
  <2> HIDE DEF k, s
  <2> QED
    BY <1>5, <1>8, <2>1, <2>2 DEF Served, Busy, Existing
<1>11. x.row <= Len(invoices)
  BY <1>4, <1>5
<1> QED
  BY <1>5, <1>6, <1>7, <1>9, <1>10, <1>11, Thinks

\* What pricing finds: items that are not dearer than the fee if all discounts are reductions.
LEMMA PriceFacts ==
  ASSUME Sound, NEW h \in Handlers, Price(h)
  PROVE  /\ pc[h] = "price" /\ pc' = [pc EXCEPT ![h] = "credit"] /\ UNCHANGED <<rows, fails>>
         /\ \E items \in Items : /\ OnlyReductions => SumOf(items) <= job[h].fee
                                /\ job' = [job EXCEPT ![h] = [job[h] EXCEPT !.items = items]]
<1> DEFINE j == job[h]
           s == j.student
           found == {n \in DOMAIN discounts : Applies(discounts[n], s, j.class)}
<1>1. pc[h] = "price" /\ Memory(h) /\ TypeOK
  BY DEF Price, Step, Sound
<1>2. j.class \in Classes /\ s \in Students /\ j.fee \in Nat
  <2>1. j.class \in Classes /\ j.fee \in Fees /\ s \in Range(Enrolled[j.class])
    BY <1>1 DEF Memory, Busy
  <2> QED
    BY <2>1, RangeStudents, InvoicingAssumption
<1>3. PICK order \in SetToSeqs(found) :
        job' = [job EXCEPT ![h].items = Priced(j.fee, s, j.class,
          [n \in DOMAIN order |-> discounts[order[n]]])]
  BY DEF Price
<1> DEFINE ds == [n \in DOMAIN order |-> discounts[order[n]]]
           items == Priced(j.fee, s, j.class, ds)
<1>4. Cardinality(found) \in Nat
  <2>1. IsFiniteSet(found)
    BY <1>1, RowsFinite DEF TypeOK
  <2> QED
    BY <2>1, FS_CardinalityType
<1>5. DOMAIN ds = 1..Cardinality(found) /\ \A n \in 1..Cardinality(found) : ds[n] \in Discounts
  <2>1. order \in [1..Cardinality(found) -> found]
    BY <1>3 DEF SetToSeqs
  <2>2. \A n \in found : discounts[n] \in Discounts
    BY <1>1 DEF TypeOK
  <2> HIDE DEF found
  <2> QED
    BY <2>1, <2>2
<1>9. OnlyReductions => \A n \in 1..Cardinality(found) : Reduction(ds[n])
  <2>1. order \in [1..Cardinality(found) -> found]
    BY <1>3 DEF SetToSeqs
  <2>2. OnlyReductions => \A n \in found : Reduction(discounts[n])
    BY DEF OnlyReductions, Reduction
  <2> HIDE DEF found
  <2> QED
    BY <1>5, <2>1, <2>2
<1> HIDE DEF ds
<1>6. items \in Items /\ (OnlyReductions => SumOf(items) <= j.fee)
  BY <1>2, <1>4, <1>5, <1>9, PricedItems
<1>7. job' = [job EXCEPT ![h] = [job[h] EXCEPT !.items = items]]
  BY <1>3 DEF ds
<1>8. pc' = [pc EXCEPT ![h] = "credit"] /\ UNCHANGED <<rows, fails>>
  BY DEF Price, Step
<1> HIDE DEF items
<1> QED
  BY <1>1, <1>6, <1>7, <1>8

LEMMA PriceSound ==
  ASSUME Sound, NEW h \in Handlers, Price(h)
  PROVE  Sound'
<1> DEFINE j == job[h]
<1>1. /\ pc[h] = "price" /\ pc' = [pc EXCEPT ![h] = "credit"] /\ UNCHANGED <<rows, fails>>
      /\ Memory(h) /\ Served(h) /\ TypeOK
  BY PriceFacts DEF Sound
<1>2. PICK items \in Items : job' = [job EXCEPT ![h] = [job[h] EXCEPT !.items = items]]
  BY PriceFacts
<1> DEFINE x == [job[h] EXCEPT !.items = items]
<1>3. j \in Job /\ j.row \in 0..Len(invoices) /\ Len(invoices) \in Nat
  BY <1>1, JobOf
<1>4. x \in Job /\ x.class = j.class /\ x.period = j.period /\ x.fee = j.fee /\ x.student = j.student
      /\ x.todo = j.todo /\ x.row = j.row /\ x.items = items
  BY <1>3 DEF Job, Items
<1>5. job' = [job EXCEPT ![h] = x]
  BY <1>2
<1> HIDE DEF x
<1>6. pc'[h] = "credit" /\ job'[h] = x
  BY <1>1, <1>5 DEF TypeOK
<1>7. Memory(h)'
  BY <1>1, <1>4, <1>6 DEF Memory, Busy
<1>8. Served(h)'
  <2>1. invoices' = invoices
    BY <1>1 DEF rows
  <2> QED
    BY <1>1, <1>4, <1>6, <2>1 DEF Served, Busy, Existing
<1>9. x.row <= Len(invoices) /\ "credit" \in PCs
  BY <1>3, <1>4 DEF PCs
<1> QED
  BY <1>1, <1>4, <1>5, <1>7, <1>8, <1>9, Thinks

LEMMA BalanceInt ==
  ASSUME TypeOK, NEW s
  PROVE  /\ Balance(s) \in Int /\ IsFiniteSet({n \in DOMAIN ledger : ledger[n].student = s})
         /\ \A n \in DOMAIN ledger : Entered[n] = ledger[n].amount /\ Entered[n] \in Int
<1> DEFINE S == {n \in DOMAIN ledger : ledger[n].student = s}
<1>1. IsFiniteSet(S)
  BY RowsFinite DEF TypeOK
<1>2. \A n \in DOMAIN ledger : Entered[n] = ledger[n].amount /\ Entered[n] \in Int
  <2>1. \A n \in DOMAIN ledger : ledger[n].amount \in Int
    <3> DEFINE R == [student : Students, amount : Int, source : 0..Len(invoices)]
    <3>1. ledger \in Seq(R) /\ \A r \in R : r.amount \in Int
      BY DEF TypeOK
    <3> HIDE DEF R
    <3> QED
      BY <3>1
  <2> QED
    BY <2>1 DEF Entered
<1>3. Balance(s) \in Int
  BY <1>1, <1>2, TotalInt DEF Balance
<1> QED
  BY <1>1, <1>2, <1>3

\* What a handler takes to be the credit.
LEMMA CreditForInt ==
  ASSUME TypeOK, NEW h \in Handlers
  PROVE  /\ CreditFor(h) \in Int /\ CreditFor(h) <= NotBelowZero(SumOf(job[h].items))
         /\ CreditFor(h) <= Balance(job[h].student)
         /\ Balance(job[h].student) >= 0 => CreditFor(h) >= 0
<1>1. SumOf(job[h].items) \in Int
  BY JobOf, SumOfInt
<1>2. Balance(job[h].student) \in Int
  BY BalanceInt
<1> QED
  BY <1>1, <1>2 DEF CreditFor, Lesser, NotBelowZero

LEMMA ReadCreditSound ==
  ASSUME Sound, NEW h \in Handlers, ReadCredit(h)
  PROVE  Sound'
<1> DEFINE j == job[h]
           x == [job[h] EXCEPT !.credit = CreditFor(h)]
<1>1. pc[h] = "credit" /\ Memory(h) /\ Served(h) /\ TypeOK
  BY DEF ReadCredit, Step, Sound
<1>2. j \in Job /\ j.row \in 0..Len(invoices) /\ Len(invoices) \in Nat
  BY <1>1, JobOf
<1>3. CreditFor(h) \in Int /\ CreditFor(h) <= NotBelowZero(SumOf(j.items))
  BY <1>1, CreditForInt
<1>4. x \in Job /\ x.class = j.class /\ x.period = j.period /\ x.fee = j.fee /\ x.student = j.student
      /\ x.todo = j.todo /\ x.row = j.row /\ x.items = j.items /\ x.credit = CreditFor(h)
  BY <1>2, <1>3 DEF Job
<1>5. pc' = [pc EXCEPT ![h] = "invoice"] /\ job' = [job EXCEPT ![h] = x] /\ UNCHANGED <<rows, fails>>
  BY DEF ReadCredit, Step
<1> HIDE DEF x
<1>6. pc'[h] = "invoice" /\ job'[h] = x
  BY <1>1, <1>5 DEF TypeOK
<1>7. Memory(h)'
  BY <1>1, <1>3, <1>4, <1>6 DEF Memory, Busy
<1>8. Served(h)'
  <2>1. invoices' = invoices
    BY <1>5 DEF rows
  <2> QED
    BY <1>1, <1>4, <1>6, <2>1 DEF Served, Busy, Existing
<1>9. x.row <= Len(invoices) /\ "invoice" \in PCs
  BY <1>2, <1>4 DEF PCs
<1> QED
  BY <1>4, <1>5, <1>7, <1>8, <1>9, Thinks

\* The prices a new invoice is made from.
LEMMA NewTotals ==
  ASSUME NEW n \in Int, NEW k \in Int, k <= NotBelowZero(n)
  PROVE  NotBelowZero(n) - k \in Nat /\ NotBelowZero(k) \in Nat
BY DEF NotBelowZero

LEMMA InsertInvoiceSound ==
  ASSUME Sound, NEW h \in Handlers, InsertInvoice(h)
  PROVE  Sound'
<1> DEFINE j == job[h]
           new == [student |-> j.student, teacher |-> Teacher[j.class], period |-> j.period,
                   subtotal |-> j.fee, total |-> NotBelowZero(SumOf(j.items)) - j.credit,
                   credit |-> NotBelowZero(j.credit)]
           Row == [student : Students, teacher : Teachers, period : Periods,
                   subtotal : Nat, total : Nat, credit : Nat]
           items == j.items \o CreditItem(j.credit)
           x == [job[h] EXCEPT !.row = Len(invoices) + 1, !.items = items]
<1>1. pc[h] = "invoice" /\ Memory(h) /\ Served(h) /\ TypeOK
  BY DEF InsertInvoice, Step, Sound
<1>2. /\ j.class \in Classes /\ j.period \in Periods /\ j.fee \in Fees
           /\ j.todo \subseteq DOMAIN Enrolled[j.class]
      /\ j.student \in Range(Enrolled[j.class]) /\ j.student \in Students /\ j.fee \in Nat
      /\ j.items \in Items /\ j.credit <= NotBelowZero(SumOf(j.items)) /\ Teacher[j.class] \in Teachers
  <2>1. /\ j.class \in Classes /\ j.period \in Periods /\ j.fee \in Fees
             /\ j.todo \subseteq DOMAIN Enrolled[j.class]
        /\ j.student \in Range(Enrolled[j.class])
        /\ j.items \in Items /\ j.credit <= NotBelowZero(SumOf(j.items))
    BY <1>1 DEF Memory, Busy
  <2> QED
    BY <2>1, RangeStudents, InvoicingAssumption
<1>3. j \in Job /\ j.row \in 0..Len(invoices) /\ Len(invoices) \in Nat /\ j.credit \in Int
        /\ j.items \in Seq(Int)
  BY <1>1, JobOf
<1>4. new \in Row
  <2>1. SumOf(j.items) \in Int
    BY <1>3, SumOfInt
  <2>2. NotBelowZero(SumOf(j.items)) - j.credit \in Nat /\ NotBelowZero(j.credit) \in Nat
    BY <1>2, <1>3, <2>1, NewTotals
  <2> QED
    BY <1>2, <2>2
<1>5. items \in Items
  <2>1. CreditItem(j.credit) \in Seq(Int)
    BY <1>3 DEF CreditItem
  <2> HIDE DEF Items
  <2>2. j.items \in Seq(Int) /\ j.items # <<>>
    BY <1>2 DEF Items
  <2>3. items \in Seq(Int) /\ items # <<>>
    BY <2>1, <2>2
  <2> QED
    BY <2>3 DEF Items
<1>6. /\ pc' = [pc EXCEPT ![h] = "lines"] /\ invoices' = Append(invoices, new)
           /\ lines' = Append(lines, <<>>)
      /\ job' = [job EXCEPT ![h] = x] /\ UNCHANGED <<fee, discounts, ledger, fails>>
  <2>1. job' = [job EXCEPT ![h].row = Len(invoices) + 1, ![h].items = items]
    BY DEF InsertInvoice
  <2>2. job' = [job EXCEPT ![h] = x]
    BY <1>1, <2>1 DEF TypeOK
  <2> QED
    BY <2>2 DEF InsertInvoice, Step
<1> HIDE DEF new, items
<1>7. x \in Job /\ x.class = j.class /\ x.period = j.period /\ x.fee = j.fee /\ x.student = j.student
      /\ x.todo = j.todo /\ x.row = Len(invoices) + 1 /\ x.items = items /\ x.credit = j.credit
  <2>1. items \in Seq(Int) /\ Len(invoices) + 1 \in Nat
    BY <1>3, <1>5 DEF Items
  <2> QED
    BY <1>3, <2>1 DEF Job
<1> HIDE DEF x
<1>8. pc'[h] = "lines" /\ job'[h] = x
  BY <1>1, <1>6 DEF TypeOK
<1>9. /\ Len(invoices') = Len(invoices) + 1
      /\ DOMAIN invoices' = DOMAIN invoices \cup {Len(invoices) + 1}
      /\ invoices'[Len(invoices) + 1] = new /\ \A n \in DOMAIN invoices : invoices'[n] = invoices[n]
      /\ invoices' \in Seq(Row)
  <2>1. invoices \in Seq(Row)
    BY <1>1 DEF TypeOK
  <2>2. invoices' = Append(invoices, new) /\ new \in Row
    BY <1>4, <1>6
  <2> HIDE DEF Row
  <2>3. Append(invoices, new) \in Seq(Row)
    BY <2>1, <2>2
  <2>4. /\ Len(Append(invoices, new)) = Len(invoices) + 1
        /\ DOMAIN Append(invoices, new) = DOMAIN invoices \cup {Len(invoices) + 1}
        /\ Append(invoices, new)[Len(invoices) + 1] = new
        /\ \A n \in DOMAIN invoices : Append(invoices, new)[n] = invoices[n]
    BY <2>1, Grown
  <2> QED
    BY <2>2, <2>3, <2>4
<1>10. Kept
  BY <1>3, <1>9 DEF Kept
<1>11. TypeOK'
  <2>1. lines' \in Seq(Seq(Int)) /\ Len(lines') = Len(invoices')
    <3>1. lines \in Seq(Seq(Int)) /\ Len(lines) = Len(invoices) /\ <<>> \in Seq(Int)
      BY <1>1 DEF TypeOK
    <3> QED
      BY <1>6, <1>9, <3>1
  <2>2. ledger' \in Seq([student : Students, amount : Int, source : 0..Len(invoices')])
    <3> DEFINE Old == [student : Students, amount : Int, source : 0..Len(invoices)]
               New == [student : Students, amount : Int, source : 0..Len(invoices')]
    <3>1. Old \subseteq New
      BY <1>3, <1>9
    <3>2. ledger \in Seq(Old)
      BY <1>1 DEF TypeOK
    <3> HIDE DEF Old, New
    <3>3. ledger \in Seq(New)
      BY <3>1, <3>2, SeqMonotonic
    <3> QED
      BY <1>6, <3>3 DEF New
  <2>3. pc' \in [Handlers -> PCs]
    BY <1>1, <1>6 DEF TypeOK, PCs
  <2>4. job' \in [Handlers -> [class : Classes \union {None}, period : Periods \union {None},
                           todo : SUBSET Nat, fee : Nat, student : Students \union {None},
                           items : Seq(Int), credit : Int, row : 0..Len(invoices')]]
    <3> DEFINE New == [class : Classes \union {None}, period : Periods \union {None},
                           todo : SUBSET Nat, fee : Nat, student : Students \union {None},
                           items : Seq(Int), credit : Int, row : 0..Len(invoices')]
    <3>1. ASSUME NEW g \in Handlers PROVE job[g] \in New
      <4>1. 0..Len(invoices) \subseteq 0..Len(invoices')
        BY <1>3, <1>9
      <4> QED
        BY <1>1, <4>1 DEF TypeOK
    <3>2. x \in New
      BY <1>3, <1>7, <1>9 DEF Job
    <3> HIDE DEF New
    <3>3. job' \in [Handlers -> New]
      BY <1>1, <1>6, <3>1, <3>2 DEF TypeOK
    <3> QED
      BY <3>3 DEF New
  <2>5. fee' \in [Classes -> Nat \union {None}] /\ discounts' \in Seq(Discounts)
          /\ fails' \in 0..MaxFails
    BY <1>1, <1>6 DEF TypeOK
  <2> QED
    BY <1>9, <2>1, <2>2, <2>3, <2>4, <2>5 DEF TypeOK
<1>12. Offered'
  BY <1>6 DEF Sound, Offered
<1>13. Memory(h)'
  BY <1>2, <1>5, <1>7, <1>8, <1>9 DEF Memory, Busy
<1>14. Served(h)'
  <2> SUFFICES ASSUME NEW e \in DOMAIN Enrolled[j.class] \ j.todo
               PROVE  \E n \in DOMAIN invoices' :
                        /\ invoices'[n].student = Enrolled[j.class][e]
                        /\ invoices'[n].teacher = Teacher[j.class] /\ invoices'[n].period = j.period
    BY <1>7, <1>8 DEF Served, Busy, Existing
  <2>1. CASE Existing(Enrolled[j.class][e], Teacher[j.class], j.period) # {}
    BY <1>9, <2>1 DEF Existing
  <2>2. CASE Enrolled[j.class][e] = j.student
    <3>1. new.student = j.student /\ new.teacher = Teacher[j.class] /\ new.period = j.period
      BY DEF new
    <3> QED
      BY <1>9, <2>2, <3>1
  <2> QED
    BY <1>1, <2>1, <2>2 DEF Served, Busy
<1> QED
  BY <1>6, <1>10, <1>11, <1>12, <1>13, <1>14, OneMoves

\* A line item is taken from the items still to write.
LEMMA Taking ==
  ASSUME NEW items \in Items
  PROVE  /\ Head(items) \in Int /\ Tail(items) \in Seq(Int) /\ Len(items) \in Nat
         /\ (Len(items) > 1 => Tail(items) \in Items)
         /\ (~(Len(items) > 1) => Len(items) = 1)
<1>1. items \in Seq(Int) /\ items # <<>>
  BY DEF Items
<1>2. Len(items) \in Nat /\ Len(items) # 0 /\ Head(items) \in Int /\ Tail(items) \in Seq(Int)
  BY <1>1
<1>3. Len(Tail(items)) = Len(items) - 1
  BY <1>1
<1>4. ASSUME Len(items) > 1 PROVE Tail(items) # <<>>
  BY <1>2, <1>3, <1>4
<1>5. Len(items) > 1 => Tail(items) \in Items
  BY <1>2, <1>4 DEF Items
<1>6. ~(Len(items) > 1) => Len(items) = 1
  <2>1. \A n \in Nat : (n # 0 /\ ~(n > 1)) => n = 1
    OBVIOUS
  <2> QED
    BY <1>2, <2>1
<1> QED
  BY <1>2, <1>5, <1>6

LEMMA InsertLineSound ==
  ASSUME Sound, NEW h \in Handlers, InsertLine(h)
  PROVE  Sound'
<1> DEFINE j == job[h]
           k == IF Len(j.items) > 1 THEN "lines" ELSE IF j.credit > 0 THEN "consume" ELSE "next"
           x == [job[h] EXCEPT !.items = Tail(job[h].items)]
<1>1. pc[h] = "lines" /\ Memory(h) /\ Served(h) /\ TypeOK
  BY DEF InsertLine, Step, Sound
<1>2. /\ j.class \in Classes /\ j.period \in Periods /\ j.fee \in Fees
           /\ j.todo \subseteq DOMAIN Enrolled[j.class]
      /\ j.student \in Range(Enrolled[j.class]) /\ j.items \in Items /\ j.row \in DOMAIN invoices
  BY <1>1 DEF Memory, Busy
<1>3. /\ Head(j.items) \in Int /\ Tail(j.items) \in Seq(Int)
      /\ Len(j.items) > 1 => Tail(j.items) \in Items
  BY <1>2, Taking
<1>4. j \in Job /\ j.row \in 0..Len(invoices) /\ Len(invoices) \in Nat
  BY <1>1, JobOf
<1>5. x \in Job /\ x.class = j.class /\ x.period = j.period /\ x.fee = j.fee /\ x.student = j.student
      /\ x.todo = j.todo /\ x.row = j.row /\ x.items = Tail(j.items) /\ x.credit = j.credit
  BY <1>3, <1>4 DEF Job
<1>6. /\ pc' = [pc EXCEPT ![h] = k] /\ job' = [job EXCEPT ![h] = x]
      /\ lines' = [lines EXCEPT ![j.row] = Append(@, Head(j.items))]
      /\ UNCHANGED <<fee, discounts, invoices, ledger, fails>>
  BY DEF InsertLine, Step
<1>7. k \in PCs /\ k \in {"lines", "consume", "next"} /\ (k = "lines" => Len(j.items) > 1)
        /\ (k = "consume" => j.credit > 0)
  BY DEF PCs
<1> HIDE DEF x, k
<1>8. pc'[h] = k /\ job'[h] = x
  BY <1>1, <1>6 DEF TypeOK
<1>9. TypeOK'
  <2>1. lines' \in Seq(Seq(Int)) /\ Len(lines') = Len(invoices')
    <3>1. lines \in Seq(Seq(Int)) /\ Len(lines) = Len(invoices)
      BY <1>1 DEF TypeOK
    <3>2. j.row \in DOMAIN lines /\ lines[j.row] \in Seq(Int)
      BY <1>2, <1>4, <3>1
    <3>3. Append(lines[j.row], Head(j.items)) \in Seq(Int)
      BY <1>3, <3>2
    <3> DEFINE grown == Append(lines[j.row], Head(j.items))
               S == Seq(Int)
    <3>4. lines \in Seq(S) /\ grown \in S /\ lines' = [lines EXCEPT ![j.row] = grown]
      BY <1>6, <3>1, <3>3
    <3> HIDE DEF grown, S
    <3>5. lines' \in Seq(S) /\ Len(lines') = Len(lines)
      BY <3>2, <3>4
    <3> QED
      BY <1>6, <3>1, <3>5 DEF S
  <2>2. /\ pc' \in [Handlers -> PCs]
        /\ job' \in [Handlers -> [class : Classes \union {None}, period : Periods \union {None},
                           todo : SUBSET Nat, fee : Nat, student : Students \union {None},
                           items : Seq(Int), credit : Int, row : 0..Len(invoices')]]
    <3>1. x.row <= Len(invoices)
      BY <1>4, <1>5
    <3> QED
      BY <1>1, <1>5, <1>6, <1>7, <3>1, RetypedJob
  <2> QED
    BY <1>1, <1>6, <2>1, <2>2 DEF TypeOK
<1>10. Offered'
  BY <1>6 DEF Sound, Offered
<1>11. Memory(h)'
  BY <1>2, <1>3, <1>5, <1>6, <1>7, <1>8 DEF Memory, Busy
<1>12. Served(h)'
  BY <1>1, <1>5, <1>6, <1>8 DEF Served, Busy, Existing
<1> QED
  BY <1>1, <1>6, <1>9, <1>10, <1>11, <1>12, InvoicesKept, OneMoves

LEMMA ConsumeCreditSound ==
  ASSUME Sound, NEW h \in Handlers, ConsumeCredit(h)
  PROVE  Sound'
<1> DEFINE j == job[h]
           R == [student : Students, amount : Int, source : 0..Len(invoices)]
<1>1. pc[h] = "consume" /\ Memory(h) /\ Served(h) /\ TypeOK
  BY DEF ConsumeCredit, Step, Sound
<1>2. /\ j.class \in Classes /\ j.period \in Periods /\ j.fee \in Fees
           /\ j.todo \subseteq DOMAIN Enrolled[j.class]
      /\ j.student \in Range(Enrolled[j.class]) /\ j.row \in DOMAIN invoices /\ j.credit > 0
  BY <1>1 DEF Memory, Busy
<1>3. j.credit \in Int /\ j.row \in 0..Len(invoices) /\ j.student \in Students
  BY <1>1, <1>2, JobOf, RangeStudents
<1>4. /\ pc' = [pc EXCEPT ![h] = "next"] /\ job' = job
      /\ ledger' = Append(ledger, [student |-> j.student, amount |-> -j.credit, source |-> j.row])
      /\ UNCHANGED <<fee, discounts, invoices, lines, fails>>
  BY DEF ConsumeCredit, Step
<1>5. job' = [job EXCEPT ![h] = job[h]]
  BY <1>1, <1>4 DEF TypeOK
<1>6. pc'[h] = "next" /\ job'[h] = j
  BY <1>1, <1>4 DEF TypeOK
<1>7. TypeOK'
  <2>1. ledger' \in Seq(R)
    <3>1. -j.credit \in Int
      BY <1>2, <1>3
    <3>2. [student |-> j.student, amount |-> -j.credit, source |-> j.row] \in R
      BY <1>3, <3>1
    <3>3. ledger \in Seq(R)
      BY <1>1 DEF TypeOK
    <3> HIDE DEF R
    <3> QED
      BY <1>4, <3>2, <3>3
  <2>2. pc' \in [Handlers -> PCs]
    BY <1>1, <1>4 DEF TypeOK, PCs
  <2> QED
    BY <1>1, <1>4, <2>1, <2>2 DEF TypeOK
<1>8. Offered'
  BY <1>4 DEF Sound, Offered
<1>9. Memory(h)'
  BY <1>2, <1>6 DEF Memory, Busy
<1>10. Served(h)'
  BY <1>1, <1>4, <1>6 DEF Served, Busy, Existing
<1> QED
  BY <1>1, <1>4, <1>5, <1>7, <1>8, <1>9, <1>10, InvoicesKept, OneMoves

LEMMA SoundNext == Sound /\ [Next]_vars => Sound'
<1> SUFFICES ASSUME Sound, [Next]_vars PROVE Sound'
  OBVIOUS
<1>1. CASE UNCHANGED vars
  <2>1. Kept
    BY <1>1 DEF Sound, TypeOK, Kept, vars, rows
  <2>2. TypeOK' /\ Offered'
    BY <1>1 DEF Sound, TypeOK, Offered, vars, rows
  <2> QED
    BY <1>1, <2>1, <2>2, NoneMoves DEF vars
<1>2. CASE Next
  <2>1. ASSUME NEW c \in Classes, NEW a \in Fees, CreateFeeStructure(c, a) PROVE Sound'
    BY <2>1, CreateFeeStructureSound
  <2>2. ASSUME NEW d \in Discounts, CreateDiscount(d) PROVE Sound'
    BY <2>2, CreateDiscountSound
  <2>3. ASSUME NEW s \in Students, NEW a \in Grants, GrantCredit(s, a) PROVE Sound'
    BY <2>3, GrantCreditSound
  <2>4. ASSUME NEW h \in Handlers, NEW c \in Classes, NEW p \in Periods, StartGenerate(h, c, p)
      PROVE Sound'
    BY <2>4, StartGenerateSound
  <2>5. ASSUME NEW h \in Handlers, Continue(h) PROVE Sound'
    <3>1. ASSUME NEW e \in job[h].todo, CheckExisting(h, e) PROVE Sound'
      BY <3>1, CheckExistingSound
    <3> QED
      BY <2>5, <3>1, AnswerSound, PriceSound, ReadCreditSound, InsertInvoiceSound, InsertLineSound,
         ConsumeCreditSound DEF Continue
  <2>6. ASSUME NEW h \in Handlers, Fail(h) PROVE Sound'
    BY <2>6, FailSound
  <2> QED
    BY <1>2, <2>1, <2>2, <2>3, <2>4, <2>5, <2>6 DEF Next
<1> QED
  BY <1>1, <1>2

\* The tables and the memory of every request stay well typed.
THEOREM TypeCorrect == Spec => []TypeOK
<1>1. Sound => TypeOK
  BY DEF Sound
<1> QED
  BY <1>1, SoundInit, SoundNext, PTL DEF Spec

\* Everyone a request is done with has an invoice.
THEOREM Billed == Spec => []AllBilled
<1>1. Sound => AllBilled
  BY DEF Sound, Served, Busy, AllBilled
<1> QED
  BY <1>1, SoundInit, SoundNext, PTL DEF Spec

-----------------------------------------------------------------------------
(* One request at a time for a student. *)

LEMMA BalanceSame ==
  ASSUME ledger' = ledger, NEW s \in Students
  PROVE  Balance(s)' = Balance(s)
BY DEF Balance, Entered

\* A new entry adds its amount to the balance of its student.
LEMMA BalanceMore ==
  ASSUME TypeOK, NEW e \in [student : Students, amount : Int, source : Nat],
         ledger' = Append(ledger, e), NEW s \in Students
  PROVE  Balance(s)' = Balance(s) + (IF e.student = s THEN e.amount ELSE 0)
<1> DEFINE S == {n \in DOMAIN ledger : ledger[n].student = s}
           T == {n \in DOMAIN ledger' : ledger'[n].student = s}
           x == Len(ledger) + 1
           New == [n \in DOMAIN ledger' |-> ledger'[n].amount]
<1>1. /\ DOMAIN ledger' = DOMAIN ledger \cup {x} /\ x \notin DOMAIN ledger
      /\ ledger'[x] = e /\ \A n \in DOMAIN ledger : ledger'[n] = ledger[n]
  BY GrownLedger
<1>2. Balance(s) = Total(S, Entered) /\ Balance(s)' = Total(T, New)
  BY DEF Balance, Entered
<1>3. /\ Balance(s) \in Int /\ IsFiniteSet(S)
      /\ \A n \in DOMAIN ledger : Entered[n] = ledger[n].amount /\ Entered[n] \in Int
  BY BalanceInt
<1>4. New[x] = e.amount /\ e.amount \in Int /\ \A n \in DOMAIN ledger : New[n] = Entered[n]
  BY <1>1, <1>3
<1>5. S \subseteq DOMAIN ledger /\ x \notin S
  BY <1>1
<1>6. T = IF e.student = s THEN S \cup {x} ELSE S
  BY <1>1
<1> HIDE DEF S, T, x, New
<1>7. CASE e.student = s
  <2>1. Total(S \cup {x}, New) = Total(S, Entered) + New[x]
    <3>1. (\A n \in S : Entered[n] \in Int /\ New[n] = Entered[n]) /\ New[x] \in Int
      BY <1>3, <1>4, <1>5
    <3> HIDE DEF New
    <3>2. Total(S \cup {x}, New) = Total(S, New) + New[x]
      <4>1. \A n \in S \cup {x} : New[n] \in Int
        BY <3>1
      <4> QED
        BY <1>3, <1>5, <4>1, TotalAdd
    <3>3. Total(S, New) = Total(S, Entered)
      BY <1>3, <3>1, TotalSame
    <3> QED
      BY <3>2, <3>3
  <2> QED
    BY <1>2, <1>4, <1>6, <1>7, <2>1
<1>8. CASE e.student # s
  <2>1. Total(S, New) = Total(S, Entered)
    BY <1>3, <1>4, <1>5, TotalSame
  <2> QED
    BY <1>2, <1>3, <1>6, <1>8, <2>1
<1> QED
  BY <1>7, <1>8

\* Handlers at work have different students.
LEMMA OthersStudent ==
  ASSUME Sound, Disjoint, NEW g \in Handlers, NEW h \in Handlers, g # h,
         pc[g] \in {"price", "credit", "invoice", "lines", "consume"},
         pc[h] \in {"price", "credit", "invoice", "lines", "consume"}
  PROVE  job[g].student # job[h].student
<1>1. job[g].student \in Range(Enrolled[job[g].class])
        /\ job[h].student \in Range(Enrolled[job[h].class])
  BY DEF Sound, Memory
<1>2. ~Shares(job[g].class, job[h].class)
  BY DEF Disjoint, Busy
<1> QED
  BY <1>1, <1>2 DEF Shares

LEMMA DisjointKept ==
  ASSUME Disjoint, \A g \in Handlers : pc'[g] # "idle" => pc[g] # "idle" /\ job'[g].class = job[g].class
  PROVE  Disjoint'
BY DEF Disjoint, Busy, Shares

LEMMA OthersAlone ==
  ASSUME Sound, Alone, NEW g \in Handlers, pc'[g] = pc[g], job'[g] = job[g], invoices' = invoices,
           ledger' = ledger
  PROVE  Fresh(g)' /\ Funded(g)'
<1>1. Fresh(g) /\ Funded(g)
  BY DEF Alone
<1>2. Fresh(g)'
  BY <1>1 DEF Fresh, Existing
<1>3. Funded(g)'
  BY <1>1 DEF Funded, Balance, Entered
<1> QED
  BY <1>2, <1>3

\* A step of a handler that writes neither an invoice nor the ledger.
LEMMA AloneThinks ==
  ASSUME Sound, Alone, NEW h \in Handlers, NEW k, NEW x,
         pc' = [pc EXCEPT ![h] = k], job' = [job EXCEPT ![h] = x],
         invoices' = invoices, ledger' = ledger, Disjoint', Fresh(h)', Funded(h)'
  PROVE  Alone'
<1>1. ASSUME NEW g \in Handlers PROVE Fresh(g)' /\ Funded(g)'
  <2>1. CASE g # h
    <3>1. pc'[g] = pc[g] /\ job'[g] = job[g]
      BY <2>1 DEF Sound, TypeOK
    <3> QED
      BY <3>1, OthersAlone
  <2> QED
    BY <2>1
<1>2. NoDoubleBill'
  BY DEF Alone, NoDoubleBill
<1>3. BalanceKept'
  BY DEF Alone, BalanceKept, Balance, Entered
<1> QED
  BY <1>1, <1>2, <1>3 DEF Alone

LEMMA AloneInit == Init => Alone
<1> SUFFICES ASSUME Init PROVE Alone
  OBVIOUS
<1>1. Disjoint /\ NoDoubleBill /\ \A h \in Handlers : Fresh(h) /\ Funded(h)
  BY DEF Init, Disjoint, NoDoubleBill, Fresh, Funded, Busy
<1>2. ASSUME NEW s \in Students PROVE Balance(s) >= 0
  <2>1. {n \in DOMAIN ledger : ledger[n].student = s} = {}
    BY DEF Init
  <2>2. Balance(s) = 0
    BY <2>1, TotalNone DEF Balance
  <2> QED
    BY <2>2
<1> QED
  BY <1>1, <1>2 DEF Alone, BalanceKept

LEMMA NoneMovesAlone ==
  ASSUME Sound, Alone, UNCHANGED <<pc, job, invoices, ledger>>
  PROVE  Alone'
<1>1. \A g \in Handlers : Fresh(g)' /\ Funded(g)'
  BY OthersAlone
<1>2. Disjoint' /\ NoDoubleBill'
  BY DEF Alone, Disjoint, Busy, NoDoubleBill
<1>3. BalanceKept'
  BY DEF Alone, BalanceKept, Balance, Entered
<1> QED
  BY <1>1, <1>2, <1>3 DEF Alone

LEMMA GrantCreditAlone ==
  ASSUME Sound, Alone, NEW s \in Students, NEW a \in Grants, GrantCredit(s, a)
  PROVE  Alone'
<1> DEFINE e == [student |-> s, amount |-> a, source |-> 0]
<1>1. ledger' = Append(ledger, e) /\ UNCHANGED <<invoices, pc, job>> /\ TypeOK
  BY DEF GrantCredit, Sound
<1>2. a \in Nat /\ e \in [student : Students, amount : Int, source : Nat] /\ e.amount = a
  BY InvoicingAssumption
<1> HIDE DEF e
<1>3. ASSUME NEW r \in Students
    PROVE Balance(r) \in Int /\ Balance(r)' \in Int /\ Balance(r)' >= Balance(r)
  <2>1. Balance(r)' = Balance(r) + (IF e.student = r THEN e.amount ELSE 0)
    BY <1>1, <1>2, BalanceMore
  <2>2. Balance(r) \in Int
    BY <1>1, BalanceInt
  <2> QED
    BY <1>2, <2>1, <2>2
<1>4. Disjoint' /\ NoDoubleBill' /\ \A h \in Handlers : Fresh(h)'
  BY <1>1 DEF Alone, Disjoint, Busy, NoDoubleBill, Fresh, Existing
<1>5. BalanceKept'
  BY <1>3 DEF Alone, BalanceKept
<1>6. ASSUME NEW h \in Handlers PROVE Funded(h)'
  <2> SUFFICES ASSUME pc[h] \in {"invoice", "lines", "consume"}
               PROVE  job[h].credit \in 0..Balance(job[h].student)'
    BY <1>1 DEF Funded
  <2>1. job[h].credit \in 0..Balance(job[h].student)
    BY DEF Alone, Funded
  <2>2. PICK r \in Students : r = job[h].student
    <3>1. job[h].class \in Classes /\ job[h].student \in Range(Enrolled[job[h].class])
      BY DEF Sound, Memory, Busy
    <3> QED
      BY <3>1, RangeStudents
  <2>3. Balance(r) \in Int /\ Balance(r)' \in Int /\ Balance(r)' >= Balance(r)
    BY <1>3
  <2>4. job[h].credit \in 0..Balance(r)'
    BY <2>1, <2>2, <2>3
  <2> QED
    BY <1>1, <2>2, <2>4
<1> QED
  BY <1>4, <1>5, <1>6 DEF Alone

LEMMA StartGenerateAlone ==
  ASSUME MaxOverlap = 1, Sound, Alone,
         NEW h \in Handlers, NEW c \in Classes, NEW p \in Periods, StartGenerate(h, c, p)
  PROVE  Alone'
<1> DEFINE x == [NoJob EXCEPT !.class = c, !.period = p, !.fee = fee[c], !.todo = DOMAIN Enrolled[c]]
           near == {g \in Handlers : Busy(g) /\ Shares(c, job[g].class)}
<1>1. /\ pc[h] = "idle" /\ pc' = [pc EXCEPT ![h] = "next"] /\ job' = [job EXCEPT ![h] = x]
      /\ invoices' = invoices /\ ledger' = ledger
  BY DEF StartGenerate, Step, rows
<1>2. x.class = c
  BY DEF NoJob
<1>3. near = {}
  <2>1. near \in SUBSET Handlers /\ IsFiniteSet(Handlers)
    BY InvoicingAssumption
  <2>2. Cardinality(near) < 1
    BY DEF StartGenerate
  <2> HIDE DEF near
  <2>3. IsFiniteSet(near) /\ Cardinality(near) \in Nat
    BY <2>1, FS_Subset, FS_CardinalityType
  <2>4. Cardinality(near) = 0
    BY <2>2, <2>3
  <2> QED
    BY <2>3, <2>4, FS_EmptySet
<1> HIDE DEF x
<1>4. pc'[h] = "next" /\ job'[h] = x /\ \A g \in Handlers \ {h} : pc'[g] = pc[g] /\ job'[g] = job[g]
  BY <1>1 DEF Sound, TypeOK
<1>5. Disjoint'
  <2> SUFFICES ASSUME NEW g \in Handlers, NEW k \in Handlers, g # k, pc'[g] # "idle", pc'[k] # "idle"
               PROVE  ~Shares(job'[g].class, job'[k].class)
    BY DEF Disjoint, Busy, Shares
  <2>1. \A f \in Handlers \ {h} : pc[f] # "idle" => ~Shares(c, job[f].class) /\ ~Shares(job[f].class, c)
    BY <1>3 DEF Busy, Shares
  <2>2. CASE g = h
    BY <1>2, <1>4, <2>1, <2>2
  <2>3. CASE k = h
    BY <1>2, <1>4, <2>1, <2>3
  <2>4. CASE g # h /\ k # h
    BY <1>4, <2>4 DEF Alone, Disjoint, Busy
  <2> QED
    BY <2>2, <2>3, <2>4
<1>6. Fresh(h)' /\ Funded(h)'
  BY <1>4 DEF Fresh, Funded
<1> QED
  BY <1>1, <1>5, <1>6, AloneThinks

LEMMA IdlesAlone ==
  ASSUME Sound, Alone, NEW h \in Handlers, pc' = [pc EXCEPT ![h] = "idle"],
           job' = [job EXCEPT ![h] = NoJob],
         invoices' = invoices, ledger' = ledger
  PROVE  Alone'
<1>1. pc'[h] = "idle" /\ \A g \in Handlers \ {h} : pc'[g] = pc[g] /\ job'[g] = job[g]
  BY DEF Sound, TypeOK
<1>2. Disjoint'
  <2>1. \A g \in Handlers : pc'[g] # "idle" => pc[g] # "idle" /\ job'[g].class = job[g].class
    BY <1>1
  <2> QED
    BY <2>1, DisjointKept DEF Alone
<1>3. Fresh(h)' /\ Funded(h)'
  BY <1>1 DEF Fresh, Funded
<1> QED
  BY <1>2, <1>3, AloneThinks

\* The same for a handler that stays with its class.
LEMMA StaysAlone ==
  ASSUME Sound, Alone, NEW h \in Handlers, NEW k, NEW x,
         pc' = [pc EXCEPT ![h] = k], job' = [job EXCEPT ![h] = x],
         invoices' = invoices, ledger' = ledger, pc[h] # "idle", x.class = job[h].class, Fresh(h)',
           Funded(h)'
  PROVE  Alone'
<1>1. job'[h] = x /\ \A g \in Handlers \ {h} : pc'[g] = pc[g] /\ job'[g] = job[g]
  BY DEF Sound, TypeOK
<1>2. Disjoint'
  <2>1. \A g \in Handlers : pc'[g] # "idle" => pc[g] # "idle" /\ job'[g].class = job[g].class
    BY <1>1
  <2> QED
    BY <2>1, DisjointKept DEF Alone
<1> QED
  BY <1>2, AloneThinks

LEMMA CheckExistingAlone ==
  ASSUME Sound, Alone, NEW h \in Handlers, NEW e \in job[h].todo, CheckExisting(h, e)
  PROVE  Alone'
<1> DEFINE j == job[h]
           s == Enrolled[j.class][e]
           billed == Existing(s, Teacher[j.class], j.period) # {}
           k == IF billed THEN "next" ELSE "price"
           x == [job[h] EXCEPT !.todo = job[h].todo \ {e}, !.student = s]
<1>1. pc[h] = "next" /\ TypeOK
  BY DEF CheckExisting, Step, Sound
<1>2. j \in Job
  BY <1>1, JobOf
<1>3. x.class = j.class /\ x.period = j.period /\ x.student = s
  BY <1>2 DEF Job
<1>4. pc' = [pc EXCEPT ![h] = k] /\ UNCHANGED <<rows, fails>>
  BY DEF CheckExisting, Step
<1>5. job' = [job EXCEPT ![h] = x]
  <2>1. job' = [job EXCEPT ![h].todo = @ \ {e}, ![h].student = s]
    BY DEF CheckExisting
  <2> QED
    BY <1>1, <2>1 DEF TypeOK
<1> HIDE DEF x
<1>6. pc'[h] = k /\ job'[h] = x
  BY <1>1, <1>4, <1>5 DEF TypeOK
<1>7. Fresh(h)'
  <2>1. invoices' = invoices
    BY <1>4 DEF rows
  <2>2. CASE billed
    BY <1>6, <2>2 DEF Fresh
  <2>3. CASE ~billed
    <3>1. Existing(s, Teacher[j.class], j.period) = {}
      BY <2>3
    <3> QED
      BY <1>3, <1>6, <2>1, <3>1 DEF Fresh, Existing
  <2> QED
    BY <2>2, <2>3
<1>8. Funded(h)'
  BY <1>6 DEF Funded
<1>9. invoices' = invoices /\ ledger' = ledger
  BY <1>4 DEF rows
<1> HIDE DEF k, s
<1> QED
  BY <1>1, <1>3, <1>4, <1>5, <1>7, <1>8, <1>9, StaysAlone

LEMMA PriceAlone ==
  ASSUME Sound, Alone, NEW h \in Handlers, Price(h)
  PROVE  Alone'
<1>1. /\ pc[h] = "price" /\ TypeOK /\ pc' = [pc EXCEPT ![h] = "credit"]
      /\ invoices' = invoices /\ ledger' = ledger
  BY DEF Price, Step, Sound, rows
<1>2. PICK items : job' = [job EXCEPT ![h].items = items]
  BY DEF Price
<1> DEFINE x == [job[h] EXCEPT !.items = items]
<1>3. job' = [job EXCEPT ![h] = x]
  BY <1>2
<1>4. x.class = job[h].class /\ x.period = job[h].period /\ x.student = job[h].student
  BY <1>1, JobOf DEF Job
<1> HIDE DEF x
<1>5. pc'[h] = "credit" /\ job'[h] = x
  BY <1>1, <1>3 DEF TypeOK
<1>6. Fresh(h)'
  BY <1>1, <1>4, <1>5 DEF Alone, Fresh, Existing
<1>7. Funded(h)'
  BY <1>5 DEF Funded
<1> QED
  BY <1>1, <1>3, <1>4, <1>6, <1>7, StaysAlone

LEMMA ReadCreditAlone ==
  ASSUME Sound, Alone, NEW h \in Handlers, ReadCredit(h)
  PROVE  Alone'
<1> DEFINE x == [job[h] EXCEPT !.credit = CreditFor(h)]
<1>1. /\ pc[h] = "credit" /\ TypeOK /\ pc' = [pc EXCEPT ![h] = "invoice"]
           /\ job' = [job EXCEPT ![h] = x]
      /\ invoices' = invoices /\ ledger' = ledger
  BY DEF ReadCredit, Step, Sound, rows
<1>2. /\ x.class = job[h].class /\ x.period = job[h].period /\ x.student = job[h].student
      /\ x.credit = CreditFor(h)
  BY <1>1, JobOf DEF Job
<1> HIDE DEF x
<1>3. pc'[h] = "invoice" /\ job'[h] = x
  BY <1>1 DEF TypeOK
<1>4. Fresh(h)'
  BY <1>1, <1>2, <1>3 DEF Alone, Fresh, Existing
<1>5. PICK s \in Students : s = job[h].student
  <2>1. job[h].class \in Classes /\ job[h].student \in Range(Enrolled[job[h].class])
    BY <1>1 DEF Sound, Memory, Busy
  <2> QED
    BY <2>1, RangeStudents
<1>6. CreditFor(h) \in 0..Balance(s)
  <2>1. Balance(s) >= 0
    BY DEF Alone, BalanceKept
  <2>2. CreditFor(h) \in Int /\ CreditFor(h) <= Balance(s) /\ CreditFor(h) >= 0
    BY <1>1, <1>5, <2>1, CreditForInt
  <2>3. Balance(s) \in Int
    BY <1>1, BalanceInt
  <2> QED
    BY <2>2, <2>3
<1>7. Funded(h)'
  <2>1. Balance(s)' = Balance(s)
    BY <1>1, BalanceSame
  <2>2. job'[h].student = s /\ job'[h].credit = CreditFor(h)
    BY <1>2, <1>3, <1>5
  <2>3. job'[h].credit \in 0..Balance(job[h].student)'
    BY <1>6, <2>1, <2>2
  <2> QED
    BY <2>3 DEF Funded
<1> QED
  BY <1>1, <1>2, <1>4, <1>7, StaysAlone

\* What saving an invoice adds, and what the handler does next.
LEMMA InsertInvoiceFacts ==
  ASSUME Sound, NEW h \in Handlers, InsertInvoice(h)
  PROVE  LET j == job[h]
             new == [student |-> j.student, teacher |-> Teacher[j.class], period |-> j.period,
                     subtotal |-> j.fee, total |-> NotBelowZero(SumOf(j.items)) - j.credit,
                     credit |-> NotBelowZero(j.credit)]
             x == [job[h] EXCEPT !.row = Len(invoices) + 1, !.items = j.items \o CreditItem(j.credit)]
         IN /\ TypeOK /\ pc[h] = "invoice" /\ pc' = [pc EXCEPT ![h] = "lines"]
                 /\ job' = [job EXCEPT ![h] = x]
            /\ pc'[h] = "lines" /\ job'[h] = x /\ \A g \in Handlers \ {h} : pc'[g] = pc[g]
                 /\ job'[g] = job[g]
            /\ x.class = j.class /\ x.period = j.period /\ x.student = j.student /\ x.fee = j.fee
            /\ x.credit = j.credit /\ x.row = Len(invoices) + 1
                 /\ x.items = j.items \o CreditItem(j.credit)
            /\ DOMAIN invoices' = DOMAIN invoices \cup {Len(invoices) + 1}
                 /\ Len(invoices) + 1 \notin DOMAIN invoices
            /\ invoices'[Len(invoices) + 1] = new
                 /\ \A n \in DOMAIN invoices : invoices'[n] = invoices[n]
            /\ lines' = Append(lines, <<>>) /\ ledger' = ledger /\ fails' = fails
<1> DEFINE j == job[h]
           new == [student |-> j.student, teacher |-> Teacher[j.class], period |-> j.period,
                   subtotal |-> j.fee, total |-> NotBelowZero(SumOf(j.items)) - j.credit,
                   credit |-> NotBelowZero(j.credit)]
           items == j.items \o CreditItem(j.credit)
           x == [job[h] EXCEPT !.row = Len(invoices) + 1, !.items = items]
<1>1. /\ TypeOK /\ pc[h] = "invoice" /\ pc' = [pc EXCEPT ![h] = "lines"]
      /\ job' = [job EXCEPT ![h].row = Len(invoices) + 1, ![h].items = items]
      /\ invoices' = Append(invoices, new) /\ lines' = Append(lines, <<>>) /\ ledger' = ledger
           /\ fails' = fails
  BY DEF InsertInvoice, Step, Sound
<1> HIDE DEF items, new
<1>2. job' = [job EXCEPT ![h] = x]
  BY <1>1 DEF TypeOK
<1>3. /\ x.class = j.class /\ x.period = j.period /\ x.student = j.student /\ x.fee = j.fee
      /\ x.credit = j.credit /\ x.row = Len(invoices) + 1 /\ x.items = items
  <2>1. j \in Job
    BY <1>1, JobOf
  <2> QED
    BY <2>1 DEF Job
<1>4. /\ DOMAIN invoices' = DOMAIN invoices \cup {Len(invoices) + 1}
           /\ Len(invoices) + 1 \notin DOMAIN invoices
      /\ invoices'[Len(invoices) + 1] = new /\ \A n \in DOMAIN invoices : invoices'[n] = invoices[n]
  BY <1>1, GrownInvoices
<1> HIDE DEF x
<1>5. pc'[h] = "lines" /\ job'[h] = x /\ \A g \in Handlers \ {h} : pc'[g] = pc[g] /\ job'[g] = job[g]
  BY <1>1, <1>2 DEF TypeOK
<1> QED
  BY <1>1, <1>2, <1>3, <1>4, <1>5 DEF x, items, new

LEMMA InsertInvoiceAlone ==
  ASSUME Sound, Alone, NEW h \in Handlers, InsertInvoice(h)
  PROVE  Alone'
<1> DEFINE j == job[h]
           row == Len(invoices) + 1
           x == [job[h] EXCEPT !.row = row, !.items = j.items \o CreditItem(j.credit)]
<1>1. /\ pc[h] = "invoice" /\ pc'[h] = "lines" /\ job'[h] = x
      /\ \A g \in Handlers \ {h} : pc'[g] = pc[g] /\ job'[g] = job[g]
      /\ x.class = j.class /\ x.student = j.student /\ x.credit = j.credit /\ ledger' = ledger
  BY InsertInvoiceFacts
<1>2. /\ DOMAIN invoices' = DOMAIN invoices \cup {row} /\ row \notin DOMAIN invoices
      /\ \A n \in DOMAIN invoices : invoices'[n] = invoices[n]
      /\ invoices'[row].student = j.student /\ invoices'[row].teacher = Teacher[j.class]
      /\ invoices'[row].period = j.period
  <2> DEFINE new == [student |-> j.student, teacher |-> Teacher[j.class], period |-> j.period,
                     subtotal |-> j.fee, total |-> NotBelowZero(SumOf(j.items)) - j.credit,
                     credit |-> NotBelowZero(j.credit)]
  <2>1. /\ DOMAIN invoices' = DOMAIN invoices \cup {row} /\ row \notin DOMAIN invoices
        /\ \A n \in DOMAIN invoices : invoices'[n] = invoices[n]
        /\ invoices'[row] = new
    BY InsertInvoiceFacts
  <2>2. new.student = j.student /\ new.teacher = Teacher[j.class] /\ new.period = j.period
    OBVIOUS
  <2> HIDE DEF new
  <2> QED
    BY <2>1, <2>2
<1> HIDE DEF x, row
<1>3. Disjoint'
  <2>1. \A g \in Handlers : pc'[g] # "idle" => pc[g] # "idle" /\ job'[g].class = job[g].class
    BY <1>1
  <2> QED
    BY <2>1, DisjointKept DEF Alone
<1>4. Existing(j.student, Teacher[j.class], j.period) = {}
  BY <1>1 DEF Alone, Fresh
<1>5. NoDoubleBill'
  <2> SUFFICES ASSUME NEW m \in DOMAIN invoices', NEW n \in DOMAIN invoices', m # n,
                      invoices'[m].student = invoices'[n].student,
                      invoices'[m].teacher = invoices'[n].teacher,
                        invoices'[m].period = invoices'[n].period
               PROVE  FALSE
    BY DEF NoDoubleBill
  <2>1. \A k \in DOMAIN invoices :
          ~(invoices[k].student = j.student /\ invoices[k].teacher = Teacher[j.class]
            /\ invoices[k].period = j.period)
    BY <1>4 DEF Existing
  <2>2. CASE m \in DOMAIN invoices /\ n \in DOMAIN invoices
    BY <1>2, <2>2 DEF Alone, NoDoubleBill
  <2>3. CASE m = row /\ n \in DOMAIN invoices
    BY <1>2, <2>1, <2>3
  <2>4. CASE n = row /\ m \in DOMAIN invoices
    BY <1>2, <2>1, <2>4
  <2> QED
    BY <1>2, <2>2, <2>3, <2>4
<1>6. BalanceKept'
  BY <1>1 DEF Alone, BalanceKept, Balance, Entered
<1>7. ASSUME NEW g \in Handlers PROVE Fresh(g)' /\ Funded(g)'
  <2>1. Fresh(g)'
    <3>1. CASE g = h
      BY <1>1, <3>1 DEF Fresh
    <3>2. CASE g # h
      <4> SUFFICES ASSUME pc[g] \in {"price", "credit", "invoice"},
                          NEW n \in DOMAIN invoices', invoices'[n].student = job[g].student,
                          invoices'[n].teacher = Teacher[job[g].class],
                            invoices'[n].period = job[g].period
                   PROVE  FALSE
        BY <1>1, <3>2 DEF Fresh, Existing
      <4>1. job[g].student # j.student
        BY <1>1, <3>2, OthersStudent DEF Alone
      <4>2. n \in DOMAIN invoices
        BY <1>2, <4>1
      <4> QED
        BY <1>2, <4>2 DEF Alone, Fresh, Existing
    <3> QED
      BY <3>1, <3>2
  <2>2. Funded(g)'
    <3>1. Funded(g) /\ (pc'[g] \in {"invoice", "lines", "consume"}
            => pc[g] \in {"invoice", "lines", "consume"})
      BY <1>1 DEF Alone
    <3>2. job'[g].credit = job[g].credit /\ job'[g].student = job[g].student
      BY <1>1
    <3> QED
      BY <1>1, <3>1, <3>2 DEF Funded, Balance, Entered
  <2> QED
    BY <2>1, <2>2
<1> QED
  BY <1>3, <1>5, <1>6, <1>7 DEF Alone

LEMMA InsertLineFacts ==
  ASSUME Sound, NEW h \in Handlers, InsertLine(h)
  PROVE  LET j == job[h]
             k == IF Len(j.items) > 1 THEN "lines" ELSE IF j.credit > 0 THEN "consume" ELSE "next"
             x == [job[h] EXCEPT !.items = Tail(job[h].items)]
         IN /\ TypeOK /\ pc[h] = "lines" /\ pc' = [pc EXCEPT ![h] = k] /\ job' = [job EXCEPT ![h] = x]
            /\ pc'[h] = k /\ job'[h] = x /\ \A g \in Handlers \ {h} : pc'[g] = pc[g] /\ job'[g] = job[g]
            /\ x.class = j.class /\ x.period = j.period /\ x.student = j.student /\ x.fee = j.fee
            /\ x.credit = j.credit /\ x.row = j.row /\ x.items = Tail(j.items)
            /\ lines' = [lines EXCEPT ![j.row] = Append(lines[j.row], Head(j.items))]
            /\ UNCHANGED <<invoices, ledger, fails>>
<1> DEFINE j == job[h]
           k == IF Len(j.items) > 1 THEN "lines" ELSE IF j.credit > 0 THEN "consume" ELSE "next"
           x == [job[h] EXCEPT !.items = Tail(job[h].items)]
<1>1. /\ TypeOK /\ pc[h] = "lines" /\ pc' = [pc EXCEPT ![h] = k] /\ job' = [job EXCEPT ![h] = x]
      /\ lines' = [lines EXCEPT ![j.row] = Append(@, Head(j.items))]
      /\ UNCHANGED <<invoices, ledger, fails>>
  BY DEF InsertLine, Step, Sound
<1>2. /\ x.class = j.class /\ x.period = j.period /\ x.student = j.student /\ x.fee = j.fee
      /\ x.credit = j.credit /\ x.row = j.row /\ x.items = Tail(j.items)
  <2>1. j \in Job
    BY <1>1, JobOf
  <2> QED
    BY <2>1 DEF Job
<1> HIDE DEF x, k
<1>3. pc'[h] = k /\ job'[h] = x /\ \A g \in Handlers \ {h} : pc'[g] = pc[g] /\ job'[g] = job[g]
  BY <1>1 DEF TypeOK
<1> QED
  BY <1>1, <1>2, <1>3 DEF x, k

LEMMA InsertLineAlone ==
  ASSUME Sound, Alone, NEW h \in Handlers, InsertLine(h)
  PROVE  Alone'
<1> DEFINE x == [job[h] EXCEPT !.items = Tail(job[h].items)]
<1>1. PICK k : /\ k \in {"lines", "consume", "next"} /\ pc' = [pc EXCEPT ![h] = k] /\ pc'[h] = k
  BY InsertLineFacts
<1>2. /\ pc[h] = "lines" /\ job' = [job EXCEPT ![h] = x] /\ job'[h] = x
      /\ x.class = job[h].class /\ x.student = job[h].student /\ x.credit = job[h].credit
      /\ invoices' = invoices /\ ledger' = ledger
  BY InsertLineFacts
<1> HIDE DEF x
<1>3. Fresh(h)'
  BY <1>1 DEF Fresh
<1>4. Funded(h)'
  BY <1>2 DEF Alone, Funded, Balance, Entered
<1> QED
  BY <1>1, <1>2, <1>3, <1>4, StaysAlone

LEMMA ConsumeCreditFacts ==
  ASSUME Sound, NEW h \in Handlers, ConsumeCredit(h)
  PROVE  /\ TypeOK /\ pc[h] = "consume" /\ pc' = [pc EXCEPT ![h] = "next"] /\ pc'[h] = "next"
         /\ \A g \in Handlers \ {h} : pc'[g] = pc[g]
         /\ job[h].credit \in Int /\ job[h].credit > 0 /\ job[h].student \in Students
         /\ job[h].row \in DOMAIN invoices /\ job[h].row \in Nat /\ job[h].row # 0
         /\ ledger' = Append(ledger, [student |-> job[h].student, amount |-> -job[h].credit,
              source |-> job[h].row])
         /\ UNCHANGED <<invoices, lines, job, fails>>
<1>1. /\ TypeOK /\ pc[h] = "consume" /\ pc' = [pc EXCEPT ![h] = "next"]
      /\ ledger' = Append(ledger, [student |-> job[h].student, amount |-> -job[h].credit,
           source |-> job[h].row])
      /\ UNCHANGED <<invoices, lines, job, fails>> /\ Memory(h)
  BY DEF ConsumeCredit, Step, Sound
<1>2. /\ job[h].credit > 0 /\ job[h].row \in DOMAIN invoices
           /\ job[h].student \in Range(Enrolled[job[h].class])
      /\ job[h].class \in Classes
  BY <1>1 DEF Memory, Busy
<1>3. job[h].credit \in Int /\ job[h].student \in Students
  BY <1>1, <1>2, JobOf, RangeStudents
<1>4. pc'[h] = "next" /\ \A g \in Handlers \ {h} : pc'[g] = pc[g]
  BY <1>1 DEF TypeOK
<1>5. job[h].row \in Nat /\ job[h].row # 0
  BY <1>1, <1>2 DEF TypeOK
<1> QED
  BY <1>1, <1>2, <1>3, <1>4, <1>5

LEMMA ConsumeCreditAlone ==
  ASSUME Sound, Alone, NEW h \in Handlers, ConsumeCredit(h)
  PROVE  Alone'
<1>1. PICK e \in [student : Students, amount : Int, source : Nat] :
        ledger' = Append(ledger, e) /\ e.student = job[h].student /\ e.amount = -job[h].credit
  <2> DEFINE new == [student |-> job[h].student, amount |-> -job[h].credit, source |-> job[h].row]
  <2>1. ledger' = Append(ledger, new) /\ job[h].student \in Students /\ job[h].credit \in Int
          /\ job[h].row \in Nat
    BY ConsumeCreditFacts
  <2>2. new \in [student : Students, amount : Int, source : Nat]
    BY <2>1
  <2>3. new.student = job[h].student /\ new.amount = -job[h].credit
    OBVIOUS
  <2> HIDE DEF new
  <2> QED
    BY <2>1, <2>2, <2>3
<1>2. /\ pc[h] = "consume" /\ pc'[h] = "next" /\ (\A g \in Handlers \ {h} : pc'[g] = pc[g]) /\ TypeOK
      /\ job[h].credit \in Int /\ invoices' = invoices /\ job' = job
  BY ConsumeCreditFacts
<1>3. ASSUME NEW r \in Students
      PROVE  /\ Balance(r) \in Int /\ Balance(r) >= 0
             /\ Balance(r)' = Balance(r) + (IF e.student = r THEN e.amount ELSE 0)
  BY <1>1, <1>2, BalanceMore, BalanceInt DEF Alone, BalanceKept
<1>4. BalanceKept'
  <2> SUFFICES ASSUME NEW r \in Students PROVE Balance(r)' >= 0
    BY DEF BalanceKept
  <2>1. CASE e.student = r
    <3>1. job[h].credit <= Balance(r)
      <4>1. job[h].credit \in 0..Balance(job[h].student)
        BY <1>2 DEF Alone, Funded
      <4> QED
        BY <1>1, <1>2, <1>3, <2>1, <4>1
    <3> QED
      BY <1>1, <1>2, <1>3, <2>1, <3>1
  <2>2. CASE e.student # r
    BY <1>3, <2>2
  <2> QED
    BY <2>1, <2>2
<1>5. Disjoint' /\ NoDoubleBill' /\ \A g \in Handlers : Fresh(g)'
  <2>1. \A g \in Handlers : pc'[g] # "idle" => pc[g] # "idle" /\ job'[g].class = job[g].class
    BY <1>2
  <2>2. Disjoint'
    BY <2>1, DisjointKept DEF Alone
  <2> QED
    BY <1>2, <2>2 DEF Alone, NoDoubleBill, Fresh, Existing
<1>6. ASSUME NEW g \in Handlers PROVE Funded(g)'
  <2>1. CASE g = h
    BY <1>2, <2>1 DEF Funded
  <2>2. CASE g # h
    <3> SUFFICES ASSUME pc[g] \in {"invoice", "lines", "consume"}
                 PROVE  job[g].credit \in 0..Balance(job[g].student)'
      BY <1>2, <2>2 DEF Funded
    <3>1. job[g].student # job[h].student /\ job[g].credit \in 0..Balance(job[g].student)
      BY <1>2, <2>2, OthersStudent DEF Alone, Funded
    <3>2. PICK r \in Students : r = job[g].student
      <4>1. job[g].class \in Classes /\ job[g].student \in Range(Enrolled[job[g].class])
        BY DEF Sound, Memory, Busy
      <4> QED
        BY <4>1, RangeStudents
    <3>3. Balance(r)' = Balance(r)
      BY <1>1, <1>3, <3>1, <3>2
    <3>4. job[g].credit \in 0..Balance(r)'
      BY <3>1, <3>2, <3>3
    <3> QED
      BY <1>2, <3>2, <3>4
  <2> QED
    BY <2>1, <2>2
<1> QED
  BY <1>4, <1>5, <1>6 DEF Alone

LEMMA AloneNext == MaxOverlap = 1 => (Sound /\ Alone /\ [Next]_vars => Alone')
<1> SUFFICES ASSUME MaxOverlap = 1, Sound, Alone, [Next]_vars PROVE Alone'
  OBVIOUS
<1>1. CASE UNCHANGED vars
  BY <1>1, NoneMovesAlone DEF vars, rows
<1>2. CASE Next
  <2>1. ASSUME NEW c \in Classes, NEW a \in Fees, CreateFeeStructure(c, a) PROVE Alone'
    BY <2>1, NoneMovesAlone DEF CreateFeeStructure
  <2>2. ASSUME NEW d \in Discounts, CreateDiscount(d) PROVE Alone'
    BY <2>2, NoneMovesAlone DEF CreateDiscount
  <2>3. ASSUME NEW s \in Students, NEW a \in Grants, GrantCredit(s, a) PROVE Alone'
    BY <2>3, GrantCreditAlone
  <2>4. ASSUME NEW h \in Handlers, NEW c \in Classes, NEW p \in Periods, StartGenerate(h, c, p)
      PROVE Alone'
    BY <2>4, StartGenerateAlone
  <2>5. ASSUME NEW h \in Handlers, Continue(h) PROVE Alone'
    <3>1. ASSUME NEW e \in job[h].todo, CheckExisting(h, e) PROVE Alone'
      BY <3>1, CheckExistingAlone
    <3>2. ASSUME Answer(h) PROVE Alone'
      BY <3>2, IdlesAlone DEF Answer, Step, rows
    <3> QED
      BY <2>5, <3>1, <3>2, PriceAlone, ReadCreditAlone, InsertInvoiceAlone, InsertLineAlone,
         ConsumeCreditAlone DEF Continue
  <2>6. ASSUME NEW h \in Handlers, Fail(h) PROVE Alone'
    BY <2>6, IdlesAlone DEF Fail, rows
  <2> QED
    BY <1>2, <2>1, <2>2, <2>3, <2>4, <2>5, <2>6 DEF Next
<1> QED
  BY <1>1, <1>2

\* Requests without a common student bill nobody twice.
THEOREM BilledOnce ==
  ASSUME MaxOverlap = 1
  PROVE  Spec => []NoDoubleBill
<1>1. Sound /\ Alone /\ [Next]_vars => Sound' /\ Alone'
  BY SoundNext, AloneNext
<1>2. Init => Sound /\ Alone
  BY SoundInit, AloneInit
<1>3. Alone => NoDoubleBill
  BY DEF Alone
<1> QED
  BY <1>1, <1>2, <1>3, PTL DEF Spec

\* Nor do they spend credit that is not there.
THEOREM CreditBacked ==
  ASSUME MaxOverlap = 1
  PROVE  Spec => []BalanceKept
<1>1. Sound /\ Alone /\ [Next]_vars => Sound' /\ Alone'
  BY SoundNext, AloneNext
<1>2. Init => Sound /\ Alone
  BY SoundInit, AloneInit
<1>3. Alone => BalanceKept
  BY DEF Alone
<1> QED
  BY <1>1, <1>2, <1>3, PTL DEF Spec

-----------------------------------------------------------------------------
(* The credit that invoices consume. *)

\* What a handler still has to enter in the ledger for a student.
Due(h, s) ==
  IF job[h].student = s /\ pc[h] \in {"lines", "consume"} THEN NotBelowZero(job[h].credit) ELSE 0

LEMMA DueNat ==
  ASSUME TypeOK, NEW h \in Handlers, NEW s
  PROVE  Due(h, s) \in Nat /\ NotBelowZero(job[h].credit) \in Nat
<1>1. job[h].credit \in Int
  BY JobOf
<1> QED
  BY <1>1 DEF Due, NotBelowZero

\* A step of one handler changes what is pending by what it has to enter.
LEMMA PendingStep ==
  ASSUME TypeOK, TypeOK', NEW h \in Handlers, NEW s,
         \A g \in Handlers \ {h} : pc'[g] = pc[g] /\ job'[g] = job[g]
  PROVE  Pending(s) \in Int /\ Pending(s)' = Pending(s) - Due(h, s) + Due(h, s)'
<1> DEFINE W == {g \in Handlers : job[g].student = s /\ pc[g] \in {"lines", "consume"}}
           V == {g \in Handlers : job'[g].student = s /\ pc'[g] \in {"lines", "consume"}}
           old == [g \in Handlers |-> NotBelowZero(job[g].credit)]
           new == [g \in Handlers |-> NotBelowZero(job'[g].credit)]
           R == W \ {h}
<1>1. Pending(s) = Total(W, old) /\ Pending(s)' = Total(V, new)
  BY DEF Pending
<1>2. \A g \in Handlers : old[g] \in Int /\ new[g] \in Int
  <2>1. \A g \in Handlers : job[g].credit \in Int /\ job'[g].credit \in Int
    BY DEF TypeOK
  <2> QED
    BY <2>1 DEF NotBelowZero
<1>3. IsFiniteSet(R)
  <2>1. R \in SUBSET Handlers /\ IsFiniteSet(Handlers)
    BY InvoicingAssumption
  <2> QED
    BY <2>1, FS_Subset
<1>4. /\ W = IF h \in W THEN R \cup {h} ELSE R
      /\ V = IF h \in V THEN R \cup {h} ELSE R
      /\ R \subseteq Handlers /\ h \notin R /\ \A g \in R : new[g] = old[g]
  OBVIOUS
<1>5. /\ Due(h, s) = IF h \in W THEN old[h] ELSE 0
      /\ Due(h, s)' = IF h \in V THEN new[h] ELSE 0
  BY DEF Due
<1> HIDE DEF W, V, R, old, new
<1>6. Total(R, old) = Total(R, new) /\ Total(R, old) \in Int
  <2>1. \A g \in R : old[g] = new[g] /\ old[g] \in Int
    BY <1>2, <1>4
  <2> QED
    BY <1>3, <2>1, TotalSame, TotalInt
<1>7. Total(R \cup {h}, old) = Total(R, old) + old[h] /\ Total(R \cup {h}, new) = Total(R, new) + new[h]
  <2>1. \A g \in R \cup {h} : old[g] \in Int /\ new[g] \in Int
    BY <1>2, <1>4
  <2> QED
    BY <1>3, <1>4, <2>1, TotalAdd
<1>8. Pending(s) = Total(R, old) + Due(h, s) /\ Pending(s)' = Total(R, old) + Due(h, s)'
  <2>1. Pending(s) = Total(R, old) + Due(h, s)
    <3>1. CASE h \in W
      BY <1>1, <1>4, <1>5, <1>7, <3>1
    <3>2. CASE h \notin W
      BY <1>1, <1>4, <1>5, <1>6, <3>2
    <3> QED
      BY <3>1, <3>2
  <2>2. Pending(s)' = Total(R, old) + Due(h, s)'
    BY <1>1, <1>4, <1>5, <1>6, <1>7
  <2> QED
    BY <2>1, <2>2
<1>9. Due(h, s) \in Int /\ Due(h, s)' \in Int
  BY <1>2, <1>5
<1> QED
  BY <1>6, <1>8, <1>9

LEMMA PendingSame ==
  ASSUME NEW s, pc' = pc, job' = job
  PROVE  Pending(s)' = Pending(s)
BY DEF Pending

LEMMA PendingInt ==
  ASSUME TypeOK, NEW s
  PROVE  Pending(s) \in Int
<1> DEFINE W == {g \in Handlers : job[g].student = s /\ pc[g] \in {"lines", "consume"}}
           due == [g \in Handlers |-> NotBelowZero(job[g].credit)]
<1>1. IsFiniteSet(W)
  <2>1. W \in SUBSET Handlers /\ IsFiniteSet(Handlers)
    BY InvoicingAssumption
  <2> QED
    BY <2>1, FS_Subset
<1>2. \A g \in W : due[g] \in Int
  <2>1. \A g \in Handlers : job[g].credit \in Int
    BY DEF TypeOK
  <2> QED
    BY <2>1 DEF NotBelowZero
<1>3. Total(W, due) \in Int
  BY <1>1, <1>2, TotalInt
<1> QED
  BY <1>3 DEF Pending

\* Credit that the invoices of a student consumed, and that the ledger says so of.
Consumed(s) ==
  Total({n \in DOMAIN invoices : invoices[n].student = s},
    [n \in DOMAIN invoices |-> invoices[n].credit])
Debited(s) == Total({n \in DOMAIN ledger : ledger[n].student = s /\ ledger[n].source # 0}, Entered)

LEMMA ConsumedMore ==
  ASSUME TypeOK, NEW e, e.credit \in Int, invoices' = Append(invoices, e), NEW s
  PROVE  /\ Consumed(s) \in Int
         /\ Consumed(s)' = Consumed(s) + (IF e.student = s THEN e.credit ELSE 0)
<1> DEFINE S == {n \in DOMAIN invoices : invoices[n].student = s}
           T == {n \in DOMAIN invoices' : invoices'[n].student = s}
           x == Len(invoices) + 1
           Old == [n \in DOMAIN invoices |-> invoices[n].credit]
           New == [n \in DOMAIN invoices' |-> invoices'[n].credit]
<1>1. /\ DOMAIN invoices' = DOMAIN invoices \cup {x} /\ x \notin DOMAIN invoices
      /\ invoices'[x] = e /\ \A n \in DOMAIN invoices : invoices'[n] = invoices[n]
  BY GrownInvoices
<1>2. Consumed(s) = Total(S, Old) /\ Consumed(s)' = Total(T, New)
  BY DEF Consumed
<1>3. IsFiniteSet(S)
  BY RowsFinite DEF TypeOK
<1>4. \A n \in DOMAIN invoices : Old[n] \in Int
  <2>1. \A n \in DOMAIN invoices : invoices[n].credit \in Int
    <3> DEFINE R == [student : Students, teacher : Teachers, period : Periods,
                     subtotal : Nat, total : Nat, credit : Nat]
    <3>1. invoices \in Seq(R) /\ \A r \in R : r.credit \in Int
      BY DEF TypeOK
    <3> HIDE DEF R
    <3> QED
      BY <3>1
  <2> QED
    BY <2>1
<1>5. New[x] = e.credit /\ \A n \in DOMAIN invoices : New[n] = Old[n]
  BY <1>1
<1>6. S \subseteq DOMAIN invoices /\ x \notin S
  BY <1>1
<1>7. T = IF e.student = s THEN S \cup {x} ELSE S
  BY <1>1
<1> HIDE DEF S, T, x, Old, New
<1>8. Total(S, Old) \in Int
  BY <1>3, <1>4, <1>6, TotalInt
<1>9. CASE e.student = s
  <2>1. (\A n \in S : Old[n] \in Int /\ New[n] = Old[n]) /\ New[x] \in Int
    BY <1>4, <1>5, <1>6
  <2>2. Total(S \cup {x}, New) = Total(S, New) + New[x]
    <3>1. \A n \in S \cup {x} : New[n] \in Int
      BY <2>1
    <3> QED
      BY <1>3, <1>6, <3>1, TotalAdd
  <2>3. Total(S, New) = Total(S, Old)
    BY <1>3, <2>1, TotalSame
  <2> QED
    BY <1>2, <1>5, <1>7, <1>8, <1>9, <2>2, <2>3
<1>10. CASE e.student # s
  <2>1. \A n \in S : New[n] = Old[n]
    BY <1>5, <1>6
  <2>2. Total(S, New) = Total(S, Old)
    BY <1>3, <2>1, TotalSame
  <2> QED
    BY <1>2, <1>7, <1>8, <1>10, <2>2
<1> QED
  BY <1>9, <1>10

LEMMA DebitedMore ==
  ASSUME TypeOK, NEW e \in [student : Students, amount : Int, source : Nat],
           ledger' = Append(ledger, e), NEW s
  PROVE  /\ Debited(s) \in Int
         /\ Debited(s)' = Debited(s) + (IF e.student = s /\ e.source # 0 THEN e.amount ELSE 0)
<1> DEFINE S == {n \in DOMAIN ledger : ledger[n].student = s /\ ledger[n].source # 0}
           T == {n \in DOMAIN ledger' : ledger'[n].student = s /\ ledger'[n].source # 0}
           x == Len(ledger) + 1
           New == [n \in DOMAIN ledger' |-> ledger'[n].amount]
<1>1. /\ DOMAIN ledger' = DOMAIN ledger \cup {x} /\ x \notin DOMAIN ledger
      /\ ledger'[x] = e /\ \A n \in DOMAIN ledger : ledger'[n] = ledger[n]
  BY GrownLedger
<1>2. Debited(s) = Total(S, Entered) /\ Debited(s)' = Total(T, New)
  BY DEF Debited, Entered
<1>3. IsFiniteSet(S)
  BY RowsFinite DEF TypeOK
<1>4. \A n \in DOMAIN ledger : Entered[n] = ledger[n].amount /\ Entered[n] \in Int
  BY BalanceInt
<1>5. New[x] = e.amount /\ e.amount \in Int /\ \A n \in DOMAIN ledger : New[n] = Entered[n]
  BY <1>1, <1>4
<1>6. S \subseteq DOMAIN ledger /\ x \notin S
  BY <1>1
<1>7. T = IF e.student = s /\ e.source # 0 THEN S \cup {x} ELSE S
  BY <1>1
<1> HIDE DEF S, T, x, New
<1>8. Total(S, Entered) \in Int
  BY <1>3, <1>4, <1>6, TotalInt
<1>9. CASE e.student = s /\ e.source # 0
  <2>1. (\A n \in S : Entered[n] \in Int /\ New[n] = Entered[n]) /\ New[x] \in Int
    BY <1>4, <1>5, <1>6
  <2>2. Total(S \cup {x}, New) = Total(S, New) + New[x]
    <3>1. \A n \in S \cup {x} : New[n] \in Int
      BY <2>1
    <3> QED
      BY <1>3, <1>6, <3>1, TotalAdd
  <2>3. Total(S, New) = Total(S, Entered)
    BY <1>3, <2>1, TotalSame
  <2> QED
    BY <1>2, <1>5, <1>7, <1>8, <1>9, <2>2, <2>3
<1>10. CASE ~(e.student = s /\ e.source # 0)
  <2>1. \A n \in S : New[n] = Entered[n]
    BY <1>5, <1>6
  <2>2. Total(S, New) = Total(S, Entered)
    BY <1>3, <2>1, TotalSame
  <2> QED
    BY <1>2, <1>7, <1>8, <1>10, <2>2
<1> QED
  BY <1>9, <1>10

Accounted == fails = 0 => \A s \in Students : Consumed(s) = Pending(s) - Debited(s)

LEMMA AccountedInit == Init => Accounted
<1> SUFFICES ASSUME Init, NEW s \in Students PROVE Consumed(s) = Pending(s) - Debited(s)
  BY DEF Accounted
<1>1. {n \in DOMAIN invoices : invoices[n].student = s} = {}
  BY DEF Init
<1>2. {n \in DOMAIN ledger : ledger[n].student = s /\ ledger[n].source # 0} = {}
  BY DEF Init
<1>3. {h \in Handlers : job[h].student = s /\ pc[h] \in {"lines", "consume"}} = {}
  BY DEF Init
<1>4. Consumed(s) = 0 /\ Debited(s) = 0
  BY <1>1, <1>2, TotalNone DEF Consumed, Debited
<1>5. Pending(s) = 0
  BY <1>3, TotalNone DEF Pending
<1> QED
  BY <1>4, <1>5

LEMMA TablesSame ==
  ASSUME NEW s, UNCHANGED <<invoices, ledger>>
  PROVE  Consumed(s)' = Consumed(s) /\ Debited(s)' = Debited(s)
BY DEF Consumed, Debited, Entered

\* A step of one handler that writes neither invoices nor the ledger and owes as much as before.
LEMMA OwesSame ==
  ASSUME Sound, Sound', Accounted, NEW h \in Handlers, UNCHANGED <<invoices, ledger, fails>>,
         \A g \in Handlers \ {h} : pc'[g] = pc[g] /\ job'[g] = job[g],
         \A s \in Students : Due(h, s)' = Due(h, s)
  PROVE  Accounted'
<1> SUFFICES ASSUME fails = 0, NEW s \in Students PROVE Consumed(s)' = Pending(s)' - Debited(s)'
  BY DEF Accounted
<1>1. Consumed(s)' = Consumed(s) /\ Debited(s)' = Debited(s)
  BY TablesSame
<1>2. Pending(s) \in Int /\ Pending(s)' = Pending(s) - Due(h, s) + Due(h, s)'
  BY PendingStep DEF Sound
<1>3. Due(h, s) \in Int /\ Due(h, s)' = Due(h, s)
  BY DueNat DEF Sound
<1>4. Pending(s)' = Pending(s)
  BY <1>2, <1>3
<1> QED
  BY <1>1, <1>4 DEF Accounted

LEMMA SameAccounted ==
  ASSUME Accounted, UNCHANGED <<pc, job, invoices, ledger, fails>>
  PROVE  Accounted'
<1>1. ASSUME NEW s \in Students
      PROVE  Consumed(s)' = Consumed(s) /\ Debited(s)' = Debited(s) /\ Pending(s)' = Pending(s)
  BY TablesSame, PendingSame
<1> QED
  BY <1>1 DEF Accounted

\* The steps of a handler that write neither invoices nor the ledger change nothing of what it owes.
Quiet(h) ==
  /\ UNCHANGED <<invoices, ledger, fails>>
  /\ \A g \in Handlers \ {h} : pc'[g] = pc[g] /\ job'[g] = job[g]
  /\ \A s \in Students : Due(h, s)' = Due(h, s)

LEMMA QuietThought ==
  ASSUME Sound, NEW h \in Handlers, NEW k, NEW x,
         k \notin {"lines", "consume"}, pc[h] \notin {"lines", "consume"},
         pc' = [pc EXCEPT ![h] = k], job' = [job EXCEPT ![h] = x], UNCHANGED <<rows, fails>>
  PROVE  Quiet(h)
<1>1. pc'[h] = k /\ \A g \in Handlers \ {h} : pc'[g] = pc[g] /\ job'[g] = job[g]
  BY DEF Sound, TypeOK
<1> QED
  BY <1>1 DEF Quiet, Due, rows

LEMMA QuietLine ==
  ASSUME Sound, NEW h \in Handlers, InsertLine(h)
  PROVE  Quiet(h)
<1> DEFINE j == job[h]
           k == IF Len(j.items) > 1 THEN "lines" ELSE IF j.credit > 0 THEN "consume" ELSE "next"
           x == [job[h] EXCEPT !.items = Tail(job[h].items)]
<1>1. /\ TypeOK /\ pc[h] = "lines" /\ pc'[h] = k /\ job'[h] = x
      /\ \A g \in Handlers \ {h} : pc'[g] = pc[g] /\ job'[g] = job[g]
      /\ x.student = j.student /\ x.credit = j.credit /\ UNCHANGED <<invoices, ledger, fails>>
  BY InsertLineFacts
<1>2. k \in {"lines", "consume"} \/ (k = "next" /\ NotBelowZero(j.credit) = 0)
  <2>1. j.credit \in Int
    BY <1>1, JobOf
  <2> QED
    BY <2>1 DEF NotBelowZero
<1> HIDE DEF x, k
<1>3. \A s \in Students : Due(h, s)' = Due(h, s)
  <2>1. CASE k \in {"lines", "consume"}
    BY <1>1, <2>1 DEF Due
  <2>2. CASE k = "next" /\ NotBelowZero(j.credit) = 0
    BY <1>1, <2>2 DEF Due
  <2> QED
    BY <1>2, <2>1, <2>2
<1> QED
  BY <1>1, <1>3 DEF Quiet

LEMMA QuietSteps ==
  ASSUME Sound, NEW h \in Handlers,
         \/ \E c \in Classes, p \in Periods : StartGenerate(h, c, p)
         \/ \E e \in job[h].todo : CheckExisting(h, e)
         \/ Answer(h) \/ Price(h) \/ ReadCredit(h) \/ InsertLine(h)
  PROVE  Quiet(h)
<1>1. ASSUME NEW c \in Classes, NEW p \in Periods, StartGenerate(h, c, p) PROVE Quiet(h)
  <2>1. PICK x : pc[h] = "idle" /\ pc' = [pc EXCEPT ![h] = "next"] /\ job' = [job EXCEPT ![h] = x]
    BY <1>1 DEF StartGenerate, Step
  <2> QED
    BY <1>1, <2>1, QuietThought DEF StartGenerate, Step
<1>2. ASSUME NEW e \in job[h].todo, CheckExisting(h, e) PROVE Quiet(h)
  <2> DEFINE s == Enrolled[job[h].class][e]
             k == IF Existing(s, Teacher[job[h].class], job[h].period) # {} THEN "next" ELSE "price"
             x == [job[h] EXCEPT !.todo = job[h].todo \ {e}, !.student = s]
  <2>1. pc[h] = "next" /\ pc' = [pc EXCEPT ![h] = k] /\ UNCHANGED <<rows, fails>>
    BY <1>2 DEF CheckExisting, Step
  <2>2. job' = [job EXCEPT ![h].todo = @ \ {e}, ![h].student = s]
    BY <1>2 DEF CheckExisting
  <2>3. job' = [job EXCEPT ![h] = x]
    BY <2>2 DEF Sound, TypeOK
  <2>4. k \notin {"lines", "consume"}
    OBVIOUS
  <2> HIDE DEF k, x
  <2> QED
    BY <2>1, <2>3, <2>4, QuietThought
<1>3. ASSUME Answer(h) PROVE Quiet(h)
  BY <1>3, QuietThought DEF Answer, Step
<1>4. ASSUME Price(h) PROVE Quiet(h)
  BY <1>4, PriceFacts, QuietThought
<1>5. ASSUME ReadCredit(h) PROVE Quiet(h)
  <2>1. job' = [job EXCEPT ![h] = [job[h] EXCEPT !.credit = CreditFor(h)]]
    BY <1>5 DEF ReadCredit
  <2> QED
    BY <1>5, <2>1, QuietThought DEF ReadCredit, Step
<1> QED
  BY <1>1, <1>2, <1>3, <1>4, <1>5, QuietLine

LEMMA GrantCreditAccounted ==
  ASSUME Sound, Accounted, NEW r \in Students, NEW a \in Grants, GrantCredit(r, a)
  PROVE  Accounted'
<1> DEFINE e == [student |-> r, amount |-> a, source |-> 0]
<1>1. ledger' = Append(ledger, e) /\ UNCHANGED <<invoices, pc, job, fails>> /\ TypeOK
  BY DEF GrantCredit, Sound
<1>2. e \in [student : Students, amount : Int, source : Nat] /\ e.source = 0
  BY InvoicingAssumption
<1> HIDE DEF e
<1>3. ASSUME NEW s \in Students
      PROVE  Consumed(s)' = Consumed(s) /\ Debited(s)' = Debited(s) /\ Pending(s)' = Pending(s)
  <2>1. Debited(s) \in Int /\ Debited(s)' = Debited(s) +
          (IF e.student = s /\ e.source # 0 THEN e.amount ELSE 0)
    BY <1>1, <1>2, DebitedMore
  <2>2. Debited(s)' = Debited(s)
    BY <1>2, <2>1
  <2>3. Consumed(s)' = Consumed(s)
    BY <1>1 DEF Consumed
  <2> QED
    BY <1>1, <2>2, <2>3, PendingSame
<1> QED
  BY <1>1, <1>3 DEF Accounted

LEMMA InsertInvoiceAccounted ==
  ASSUME Sound, Sound', Accounted, NEW h \in Handlers, InsertInvoice(h)
  PROVE  Accounted'
<1> SUFFICES ASSUME fails = 0, NEW s \in Students PROVE Consumed(s)' = Pending(s)' - Debited(s)'
  BY InsertInvoiceFacts DEF Accounted
<1> DEFINE j == job[h]
           new == [student |-> j.student, teacher |-> Teacher[j.class], period |-> j.period,
                   subtotal |-> j.fee, total |-> NotBelowZero(SumOf(j.items)) - j.credit,
                   credit |-> NotBelowZero(j.credit)]
           x == [job[h] EXCEPT !.row = Len(invoices) + 1, !.items = j.items \o CreditItem(j.credit)]
<1>1. /\ pc[h] = "invoice" /\ pc'[h] = "lines" /\ job'[h] = x
      /\ \A g \in Handlers \ {h} : pc'[g] = pc[g] /\ job'[g] = job[g]
      /\ x.student = j.student /\ x.credit = j.credit /\ ledger' = ledger /\ TypeOK /\ TypeOK'
  BY InsertInvoiceFacts DEF Sound
<1>2. invoices' = Append(invoices, new)
  BY DEF InsertInvoice
<1>3. new.student = j.student /\ new.credit = NotBelowZero(j.credit) /\ NotBelowZero(j.credit) \in Int
  BY <1>1, DueNat
<1> HIDE DEF new, x
<1>4. Consumed(s) \in Int /\ Consumed(s)' =
        Consumed(s) + (IF j.student = s THEN NotBelowZero(j.credit) ELSE 0)
  BY <1>1, <1>2, <1>3, ConsumedMore
<1>5. Due(h, s) = 0 /\ Due(h, s)' = IF j.student = s THEN NotBelowZero(j.credit) ELSE 0
  BY <1>1 DEF Due
<1>6. Pending(s) \in Int /\ Pending(s)' = Pending(s) - Due(h, s) + Due(h, s)'
  BY <1>1, PendingStep
<1>7. Debited(s)' = Debited(s)
  BY <1>1 DEF Debited, Entered
<1>8. Consumed(s) = Pending(s) - Debited(s)
  BY DEF Accounted
<1>9. Debited(s) \in Int
  <2>1. IsFiniteSet({n \in DOMAIN ledger : ledger[n].student = s /\ ledger[n].source # 0})
    BY <1>1, RowsFinite DEF TypeOK
  <2>2. \A n \in DOMAIN ledger : Entered[n] \in Int
    BY <1>1, BalanceInt
  <2> QED
    BY <2>1, <2>2, TotalInt DEF Debited
<1> QED
  BY <1>3, <1>4, <1>5, <1>6, <1>7, <1>8, <1>9

LEMMA ConsumeCreditAccounted ==
  ASSUME Sound, Sound', Accounted, NEW h \in Handlers, ConsumeCredit(h)
  PROVE  Accounted'
<1> SUFFICES ASSUME fails = 0, NEW s \in Students PROVE Consumed(s)' = Pending(s)' - Debited(s)'
  BY ConsumeCreditFacts DEF Accounted
<1>1. /\ TypeOK /\ TypeOK' /\ pc[h] = "consume" /\ pc'[h] = "next"
      /\ \A g \in Handlers \ {h} : pc'[g] = pc[g] /\ job'[g] = job[g]
      /\ job[h].credit \in Int /\ job[h].credit > 0 /\ invoices' = invoices /\ job' = job
  BY ConsumeCreditFacts DEF Sound
<1> DEFINE e == [student |-> job[h].student, amount |-> -job[h].credit, source |-> job[h].row]
<1>2. ledger' = Append(ledger, e) /\ e \in [student : Students, amount : Int, source : Nat]
  <2>1. /\ job[h].student \in Students /\ job[h].credit \in Int /\ job[h].row \in Nat
        /\ ledger' = Append(ledger, e)
    BY ConsumeCreditFacts
  <2> QED
    BY <2>1
<1>3. e.student = job[h].student /\ e.amount = -job[h].credit /\ e.source # 0
  BY ConsumeCreditFacts
<1> HIDE DEF e
<1>4. Debited(s) \in Int /\ Debited(s)' =
        Debited(s) + (IF job[h].student = s THEN -job[h].credit ELSE 0)
  BY <1>1, <1>2, <1>3, DebitedMore
<1>5. Due(h, s) = (IF job[h].student = s THEN job[h].credit ELSE 0) /\ Due(h, s)' = 0
  BY <1>1 DEF Due, NotBelowZero
<1>6. Pending(s) \in Int /\ Pending(s)' = Pending(s) - Due(h, s) + Due(h, s)'
  BY <1>1, PendingStep
<1>7. Consumed(s)' = Consumed(s)
  BY <1>1 DEF Consumed
<1>8. Consumed(s) = Pending(s) - Debited(s)
  BY DEF Accounted
<1> QED
  BY <1>1, <1>4, <1>5, <1>6, <1>7, <1>8

LEMMA AccountedNext == Sound /\ Accounted /\ [Next]_vars => Accounted'
<1> SUFFICES ASSUME Sound, Accounted, [Next]_vars PROVE Accounted'
  OBVIOUS
<1>1. Sound'
  BY SoundNext
<1>2. CASE UNCHANGED vars
  BY <1>2, SameAccounted DEF vars, rows
<1>3. CASE Next
  <2>1. ASSUME NEW c \in Classes, NEW a \in Fees, CreateFeeStructure(c, a) PROVE Accounted'
    BY <2>1, SameAccounted DEF CreateFeeStructure
  <2>2. ASSUME NEW d \in Discounts, CreateDiscount(d) PROVE Accounted'
    BY <2>2, SameAccounted DEF CreateDiscount
  <2>3. ASSUME NEW s \in Students, NEW a \in Grants, GrantCredit(s, a) PROVE Accounted'
    BY <2>3, GrantCreditAccounted
  <2>4. ASSUME NEW h \in Handlers, Quiet(h) PROVE Accounted'
    BY <1>1, <2>4, OwesSame DEF Quiet
  <2>5. ASSUME NEW h \in Handlers, Continue(h) PROVE Accounted'
    BY <1>1, <2>4, <2>5, QuietSteps, InsertInvoiceAccounted, ConsumeCreditAccounted DEF Continue
  <2>6. ASSUME NEW h \in Handlers, Fail(h) PROVE Accounted'
    BY <2>6 DEF Fail, Accounted, Sound, TypeOK
  <2> QED
    BY <1>3, <2>1, <2>2, <2>3, <2>4, <2>5, <2>6, QuietSteps DEF Next
<1> QED
  BY <1>2, <1>3

\* However requests overlap, what invoices consumed is entered or still to be entered.
THEOREM CreditEntered == Spec => []CreditAccounted
<1>1. Sound /\ Accounted /\ [Next]_vars => Sound' /\ Accounted'
  BY SoundNext, AccountedNext
<1>2. Init => Sound /\ Accounted
  BY SoundInit, AccountedInit
<1>3. Accounted => CreditAccounted
  BY DEF Accounted, CreditAccounted, Consumed, Debited
<1> QED
  BY <1>1, <1>2, <1>3, PTL DEF Spec

-----------------------------------------------------------------------------
(* Line items. *)

LEMMA SumOfExtended ==
  ASSUME NEW items \in Items, NEW k \in Int, k >= 0, k <= NotBelowZero(SumOf(items))
  PROVE  NotBelowZero(SumOf(<<>> \o (items \o CreditItem(k)))) = NotBelowZero(SumOf(items)) - k
<1>1. items \in Seq(Int) /\ SumOf(items) \in Int
  BY SumOfInt DEF Items
<1>2. CASE k = 0
  <2>1. <<>> \o (items \o CreditItem(k)) = items
    <3>1. CreditItem(k) = <<>>
      BY <1>2 DEF CreditItem
    <3> QED
      BY <1>1, <3>1, ConcatEmptySeq
  <2>2. NotBelowZero(SumOf(items)) \in Int
    BY <1>1 DEF NotBelowZero
  <2>3. NotBelowZero(SumOf(items)) - k = NotBelowZero(SumOf(items))
    BY <1>2, <2>2
  <2>4. NotBelowZero(SumOf(<<>> \o (items \o CreditItem(k)))) = NotBelowZero(SumOf(items))
    BY <2>1, Zenon
  <2> QED
    BY <2>3, <2>4, Zenon
<1>3. CASE k > 0
  <2>1. CreditItem(k) = <<-k>> /\ -k \in Int
    BY <1>3 DEF CreditItem
  <2>2. <<>> \o (items \o <<-k>>) = Append(items, -k)
    BY <1>1, <2>1
  <2>3. SumOf(Append(items, -k)) = SumOf(items) + (-k)
    BY <1>1, <2>1, SumOfAppend
  <2>4. NotBelowZero(SumOf(items) + (-k)) = NotBelowZero(SumOf(items)) - k
    BY <1>1, <1>3 DEF NotBelowZero
  <2> QED
    BY <2>1, <2>2, <2>3, <2>4
<1> QED
  BY <1>2, <1>3

\* Moving an item from the items to write to the items written changes nothing.
LEMMA Moved ==
  ASSUME NEW written \in Seq(Int), NEW items \in Items
  PROVE  /\ Append(written, Head(items)) \o Tail(items) = written \o items
         /\ Len(items) = 1 => Append(written, Head(items)) = written \o items
<1> DEFINE first == <<Head(items)>>
<1>1. items \in Seq(Int) /\ items # <<>> /\ Head(items) = items[1] /\ Len(items) \in Nat \ {0}
  BY DEF Items
<1>2. /\ Head(items) \in Int /\ Tail(items) \in Seq(Int) /\ Len(Tail(items)) = Len(items) - 1
      /\ \A n \in 1..Len(Tail(items)) : Tail(items)[n] = items[n + 1]
  BY <1>1, HeadTailProperties
<1>3. first \in Seq(Int) /\ Len(first) = 1 /\ first[1] = Head(items)
  BY <1>2
<1> DEFINE both == first \o Tail(items)
<1>4. /\ both \in Seq(Int) /\ Len(both) = Len(first) + Len(Tail(items))
      /\ \A n \in 1..(Len(first) + Len(Tail(items))) :
           both[n] = IF n <= Len(first) THEN first[n] ELSE Tail(items)[n - Len(first)]
  BY <1>2, <1>3, ConcatProperties
<1>5. Append(written, Head(items)) = written \o first
  BY <1>2, AppendIsConcat
<1>6. (written \o first) \o Tail(items) = written \o both
  BY <1>2, <1>3, ConcatAssociative
<1> DEFINE t == Tail(items)
           k == Len(items)
<1> HIDE DEF first, both, t, k
<1>7. both = items
  <2>1. Len(both) = k /\ k \in Nat \ {0} /\ Len(t) = k - 1
    BY <1>1, <1>2, <1>3, <1>4 DEF t, k
  <2>2. ASSUME NEW n \in 1..k PROVE both[n] = items[n]
    <3>1. both[n] = IF n <= 1 THEN first[n] ELSE t[n - 1]
      BY <1>3, <1>4, <2>1 DEF t
    <3>2. CASE n = 1
      BY <1>1, <1>3, <3>1, <3>2
    <3>3. CASE n > 1
      <4>1. n - 1 \in 1..Len(t) /\ (n - 1) + 1 = n
        BY <2>1, <3>3
      <4>2. t[n - 1] = items[(n - 1) + 1]
        BY <1>2, <4>1 DEF t
      <4> QED
        BY <3>1, <3>3, <4>1, <4>2
    <3> QED
      BY <2>1, <3>2, <3>3
  <2> QED
    BY <1>1, <1>4, <2>1, <2>2, SeqEqual DEF k
<1>8. ASSUME Len(items) = 1 PROVE Append(written, Head(items)) = written \o items
  <2>1. Tail(items) = <<>>
    <3>1. Len(Tail(items)) = 0
      BY <1>2, <1>8
    <3> QED
      BY <1>2, <3>1, EmptySeq
  <2>2. Append(written, Head(items)) \in Seq(Int)
    BY <1>2
  <2>3. Append(written, Head(items)) \o <<>> = Append(written, Head(items))
    BY <2>2, ConcatEmptySeq
  <2> QED
    BY <1>5, <1>6, <1>7, <2>1, <2>3
<1> QED
  BY <1>5, <1>6, <1>7, <1>8

LEMMA ClearInit == Init => Clear
<1> SUFFICES ASSUME Init PROVE Clear
  OBVIOUS
<1>1. DOMAIN invoices = {}
  BY DEF Init
<1> QED
  BY <1>1 DEF Init, Clear, OwnRows, ItemsExplainTotal, Affordable, Explains

LEMMA SameClear ==
  ASSUME Clear, UNCHANGED <<pc, job, invoices, lines, fails>>, OnlyReductions' => OnlyReductions
  PROVE  Clear'
BY DEF Clear, OwnRows, ItemsExplainTotal, Affordable, Explains

\* A step of a handler that writes no line items.
LEMMA ClearThinks ==
  ASSUME Clear, NEW h \in Handlers, \A g \in Handlers \ {h} : pc'[g] = pc[g] /\ job'[g] = job[g],
         pc[h] # "lines", pc'[h] # "lines", UNCHANGED <<discounts, invoices, lines, fails>>, Affordable(h)'
  PROVE  Clear'
<1>1. OwnRows'
  BY DEF Clear, OwnRows
<1>2. ItemsExplainTotal'
  <2>1. \A g \in Handlers, n \in DOMAIN invoices :
          (pc'[g] # "lines" \/ job'[g].row # n) => (pc[g] # "lines" \/ job[g].row # n)
    OBVIOUS
  <2> QED
    BY <2>1 DEF Clear, ItemsExplainTotal, OnlyReductions
<1>3. ASSUME NEW g \in Handlers PROVE Affordable(g)' /\ Explains(g)'
  <2>1. CASE g = h
    BY <2>1 DEF Explains
  <2>2. CASE g # h
    BY <2>2 DEF Clear, Affordable, Explains, OnlyReductions
  <2> QED
    BY <2>1, <2>2
<1> QED
  BY <1>1, <1>2, <1>3 DEF Clear

LEMMA FailClear ==
  ASSUME Sound, Clear, NEW h \in Handlers, Fail(h)
  PROVE  Clear'
<1>1. /\ pc'[h] = "idle" /\ (\A g \in Handlers \ {h} : pc'[g] = pc[g] /\ job'[g] = job[g])
      /\ UNCHANGED <<discounts, invoices, lines>> /\ fails' # 0
  BY DEF Fail, rows, Sound, TypeOK
<1>2. OwnRows'
  BY <1>1 DEF Clear, OwnRows
<1>3. ItemsExplainTotal'
  BY <1>1 DEF Clear, ItemsExplainTotal, OnlyReductions
<1>4. ASSUME NEW g \in Handlers PROVE Affordable(g)' /\ Explains(g)'
  <2>1. CASE g = h
    BY <1>1, <2>1 DEF Affordable, Explains
  <2>2. CASE g # h
    BY <1>1, <2>2 DEF Clear, Affordable, Explains, OnlyReductions
  <2> QED
    BY <2>1, <2>2
<1> QED
  BY <1>2, <1>3, <1>4 DEF Clear

LEMMA InsertInvoiceClear ==
  ASSUME Sound, Alone, Clear, NEW h \in Handlers, InsertInvoice(h)
  PROVE  Clear'
<1> DEFINE j == job[h]
           row == Len(invoices) + 1
           due == NotBelowZero(SumOf(j.items))
           items == j.items \o CreditItem(j.credit)
           new == [student |-> j.student, teacher |-> Teacher[j.class], period |-> j.period,
                   subtotal |-> j.fee, total |-> due - j.credit, credit |-> NotBelowZero(j.credit)]
           x == [job[h] EXCEPT !.row = row, !.items = items]
<1>1. /\ TypeOK /\ pc[h] = "invoice" /\ pc'[h] = "lines" /\ job'[h] = x
      /\ \A g \in Handlers \ {h} : pc'[g] = pc[g] /\ job'[g] = job[g]
      /\ x.row = row /\ x.items = items
      /\ DOMAIN invoices' = DOMAIN invoices \cup {row} /\ row \notin DOMAIN invoices
      /\ invoices'[row] = new /\ \A n \in DOMAIN invoices : invoices'[n] = invoices[n]
      /\ lines' = Append(lines, <<>>) /\ fails' = fails
  BY InsertInvoiceFacts
<1>2. new.total = due - j.credit /\ new.subtotal = j.fee
  OBVIOUS
<1>3. j.items \in Items /\ j.credit <= due /\ j.credit \in Int /\ SumOf(j.items) \in Int
        /\ j.fee \in Nat
  <2>1. j.items \in Items /\ j.credit <= due
    BY <1>1 DEF Sound, Memory
  <2>2. j.credit \in Int /\ j.items \in Seq(Int) /\ j.fee \in Nat
    BY <1>1, JobOf
  <2> QED
    BY <2>1, <2>2, SumOfInt
<1>4. j.credit >= 0
  <2>1. j.credit \in 0..Balance(j.student)
    BY <1>1 DEF Alone, Funded
  <2> QED
    BY <1>3, <2>1
<1>r. OnlyReductions' <=> OnlyReductions
  BY DEF InsertInvoice, OnlyReductions
<1>5. OnlyReductions => due <= j.fee
  <2>1. OnlyReductions => SumOf(j.items) <= j.fee
    BY <1>1 DEF Clear, Affordable
  <2> QED
    BY <1>3, <2>1 DEF NotBelowZero
<1>6. NotBelowZero(SumOf(<<>> \o items)) = due - j.credit
  BY <1>3, <1>4, SumOfExtended
<1>7. due \in Int
  BY <1>3 DEF NotBelowZero
<1>8. /\ lines'[row] = <<>> /\ \A n \in DOMAIN invoices : lines'[n] = lines[n]
  <2> DEFINE S == Seq(Int)
  <2>1. lines \in Seq(S) /\ Len(lines) = Len(invoices)
    BY <1>1 DEF TypeOK
  <2>2. DOMAIN invoices = DOMAIN lines
    BY <1>1, <2>1 DEF TypeOK
  <2> HIDE DEF S
  <2> QED
    BY <1>1, <2>1, <2>2, Grown
<1> HIDE DEF row, due, items, new, x
<1>9. OwnRows'
  <2>1. \A g \in Handlers : pc[g] = "lines" => job[g].row \in DOMAIN invoices
    BY DEF Sound, Memory
  <2> QED
    BY <1>1, <2>1 DEF Clear, OwnRows
<1>10. ItemsExplainTotal'
  <2> SUFFICES ASSUME NEW n \in DOMAIN invoices'
               PROVE  /\ OnlyReductions => invoices'[n].total <= invoices'[n].subtotal
                      /\ (fails' = 0 /\ \A g \in Handlers : pc'[g] # "lines" \/ job'[g].row # n)
                           => NotBelowZero(SumOf(lines'[n])) = invoices'[n].total
    BY <1>r DEF ItemsExplainTotal
  <2>1. CASE n = row
    <3>1. OnlyReductions => due - j.credit <= j.fee
      BY <1>3, <1>4, <1>5, <1>7
    <3> QED
      BY <1>1, <1>2, <2>1, <3>1
  <2>2. CASE n \in DOMAIN invoices
    <3>1. invoices'[n] = invoices[n] /\ lines'[n] = lines[n]
      BY <1>1, <1>8, <2>2
    <3>2. (\A g \in Handlers : pc'[g] # "lines" \/ job'[g].row # n)
            => (\A g \in Handlers : pc[g] # "lines" \/ job[g].row # n)
      BY <1>1
    <3> QED
      BY <1>1, <2>2, <3>1, <3>2 DEF Clear, ItemsExplainTotal
  <2> QED
    BY <1>1, <2>1, <2>2
<1>11. ASSUME NEW g \in Handlers PROVE Affordable(g)' /\ Explains(g)'
  <2>1. CASE g = h
    <3>1. lines'[job'[h].row] \o job'[h].items = <<>> \o items
            /\ invoices'[job'[h].row].total = due - j.credit
      BY <1>1, <1>2, <1>8
    <3>2. NotBelowZero(SumOf(lines'[job'[h].row] \o job'[h].items)) = invoices'[job'[h].row].total
      BY <1>6, <3>1
    <3> QED
      BY <1>1, <2>1, <3>2 DEF Affordable, Explains
  <2>2. CASE g # h
    <3>1. pc[g] = "lines" => job[g].row \in DOMAIN invoices
      BY DEF Sound, Memory
    <3>2. Affordable(g) /\ Explains(g)
      BY DEF Clear
    <3>3. pc[g] = "lines" => lines'[job[g].row] = lines[job[g].row]
            /\ invoices'[job[g].row] = invoices[job[g].row]
      BY <1>1, <1>8, <3>1
    <3> QED
      BY <1>1, <1>r, <2>2, <3>2, <3>3 DEF Affordable, Explains
  <2> QED
    BY <2>1, <2>2
<1> QED
  BY <1>9, <1>10, <1>11 DEF Clear

LEMMA InsertLineClear ==
  ASSUME Sound, Clear, NEW h \in Handlers, InsertLine(h)
  PROVE  Clear'
<1> DEFINE j == job[h]
           k == IF Len(j.items) > 1 THEN "lines" ELSE IF j.credit > 0 THEN "consume" ELSE "next"
           x == [job[h] EXCEPT !.items = Tail(job[h].items)]
           longer == Append(lines[j.row], Head(j.items))
<1>1. /\ TypeOK /\ pc[h] = "lines" /\ pc'[h] = k /\ job'[h] = x
      /\ (\A g \in Handlers \ {h} : pc'[g] = pc[g] /\ job'[g] = job[g])
      /\ x.row = j.row /\ x.items = Tail(j.items) /\ lines' = [lines EXCEPT ![j.row] = longer]
      /\ UNCHANGED <<invoices, fails>>
  BY InsertLineFacts
<1>2. j.items \in Items /\ j.row \in DOMAIN invoices
  BY <1>1 DEF Sound, Memory
<1>3. DOMAIN lines = DOMAIN invoices /\ lines[j.row] \in Seq(Int)
  <2> DEFINE S == Seq(Int)
  <2>1. lines \in Seq(S) /\ Len(lines) = Len(invoices)
    BY <1>1 DEF TypeOK
  <2>2. DOMAIN invoices = DOMAIN lines
    BY <1>1, <2>1 DEF TypeOK
  <2> HIDE DEF S
  <2>3. lines[j.row] \in S
    BY <1>2, <2>1, <2>2
  <2> QED
    BY <2>2, <2>3 DEF S
<1>4. longer \o Tail(j.items) = lines[j.row] \o j.items
        /\ (Len(j.items) = 1 => longer = lines[j.row] \o j.items)
  BY <1>2, <1>3, Moved
<1>5. k = "lines" \/ (k \in {"consume", "next"} /\ Len(j.items) = 1)
  BY <1>2, Taking
<1>6. NotBelowZero(SumOf(lines[j.row] \o j.items)) = invoices[j.row].total
  BY <1>1 DEF Clear, Explains
<1>7. \A g \in Handlers \ {h} : pc[g] = "lines" => job[g].row # j.row
  BY <1>1 DEF Clear, OwnRows
<1> HIDE DEF k, x, longer
<1>8. lines'[j.row] = longer /\ \A n \in DOMAIN invoices \ {j.row} : lines'[n] = lines[n]
  BY <1>1, <1>2, <1>3
<1>r. OnlyReductions' <=> OnlyReductions
  BY DEF InsertLine, OnlyReductions
<1>9. OwnRows'
  BY <1>1, <1>7 DEF Clear, OwnRows
<1>10. ItemsExplainTotal'
  <2> SUFFICES ASSUME NEW n \in DOMAIN invoices
               PROVE  /\ OnlyReductions => invoices[n].total <= invoices[n].subtotal
                      /\ (fails = 0 /\ \A g \in Handlers : pc'[g] # "lines" \/ job'[g].row # n)
                           => NotBelowZero(SumOf(lines'[n])) = invoices[n].total
    BY <1>1, <1>r DEF ItemsExplainTotal
  <2>1. OnlyReductions => invoices[n].total <= invoices[n].subtotal
    BY DEF Clear, ItemsExplainTotal
  <2>2. CASE n = j.row
    <3>1. CASE k = "lines"
      BY <1>1, <2>1, <2>2, <3>1
    <3>2. CASE Len(j.items) = 1
      BY <1>4, <1>6, <1>8, <2>1, <2>2, <3>2
    <3> QED
      BY <1>5, <3>1, <3>2
  <2>3. CASE n # j.row
    <3>1. (\A g \in Handlers : pc'[g] # "lines" \/ job'[g].row # n)
            => (\A g \in Handlers : pc[g] # "lines" \/ job[g].row # n)
      BY <1>1, <2>3
    <3> QED
      BY <1>8, <2>3, <3>1 DEF Clear, ItemsExplainTotal
  <2> QED
    BY <2>2, <2>3
<1>11. ASSUME NEW g \in Handlers PROVE Affordable(g)' /\ Explains(g)'
  <2>1. CASE g = h
    <3>1. lines'[job'[h].row] \o job'[h].items = lines[j.row] \o j.items
            /\ invoices'[job'[h].row] = invoices[j.row]
      BY <1>1, <1>4, <1>8
    <3>2. NotBelowZero(SumOf(lines'[job'[h].row] \o job'[h].items)) = invoices'[job'[h].row].total
      BY <1>6, <3>1
    <3>3. k \notin {"credit", "invoice"}
      BY <1>5
    <3> QED
      BY <1>1, <2>1, <3>2, <3>3 DEF Affordable, Explains
  <2>2. CASE g # h
    <3>1. pc[g] = "lines" => job[g].row \in DOMAIN invoices /\ job[g].row # j.row
      BY <1>7, <2>2 DEF Sound, Memory
    <3>2. Affordable(g) /\ Explains(g)
      BY DEF Clear
    <3>3. pc[g] = "lines" => lines'[job[g].row] = lines[job[g].row]
      BY <1>8, <3>1
    <3> QED
      BY <1>1, <1>r, <2>2, <3>2, <3>3 DEF Affordable, Explains
  <2> QED
    BY <2>1, <2>2
<1> QED
  BY <1>9, <1>10, <1>11 DEF Clear

LEMMA ClearNext == Sound /\ Alone /\ Clear /\ [Next]_vars => Clear'
<1> SUFFICES ASSUME Sound, Alone, Clear, [Next]_vars PROVE Clear'
  OBVIOUS
<1>1. CASE UNCHANGED vars
  BY <1>1, SameClear DEF vars, rows, OnlyReductions
<1>2. CASE Next
  <2>1. ASSUME NEW c \in Classes, NEW a \in Fees, CreateFeeStructure(c, a) PROVE Clear'
    BY <2>1, SameClear DEF CreateFeeStructure, OnlyReductions
  <2>2. ASSUME NEW d \in Discounts, CreateDiscount(d) PROVE Clear'
    <3>1. PICK S : S = Discounts
      OBVIOUS
    <3>2. discounts \in Seq(S) /\ d \in S /\ discounts' = Append(discounts, d)
      BY <2>2, <3>1 DEF CreateDiscount, Sound, TypeOK
    <3>3. \A n \in DOMAIN discounts : n \in DOMAIN discounts' /\ discounts'[n] = discounts[n]
      BY <3>2
    <3>4. OnlyReductions' => OnlyReductions
      BY <3>3 DEF OnlyReductions
    <3> QED
      BY <2>2, <3>4, SameClear DEF CreateDiscount
  <2>3. ASSUME NEW s \in Students, NEW a \in Grants, GrantCredit(s, a) PROVE Clear'
    BY <2>3, SameClear DEF GrantCredit, OnlyReductions
  <2>t. ASSUME NEW h \in Handlers, NEW k, NEW x, k # "lines", pc[h] # "lines",
               pc' = [pc EXCEPT ![h] = k], job' = [job EXCEPT ![h] = x], UNCHANGED <<rows, fails>>,
               k \in {"credit", "invoice"} /\ OnlyReductions => SumOf(x.items) <= x.fee
        PROVE  Clear'
    <3>1. pc'[h] = k /\ job'[h] = x /\ \A g \in Handlers \ {h} : pc'[g] = pc[g] /\ job'[g] = job[g]
      BY <2>t DEF Sound, TypeOK
    <3>2. Affordable(h)'
      BY <2>t, <3>1 DEF Affordable, OnlyReductions, rows
    <3>3. UNCHANGED <<discounts, invoices, lines, fails>>
      BY <2>t DEF rows
    <3> QED
      BY <2>t, <3>1, <3>2, <3>3, ClearThinks
  <2>4. ASSUME NEW h \in Handlers, NEW c \in Classes, NEW p \in Periods, StartGenerate(h, c, p)
      PROVE Clear'
    <3>1. PICK x : pc[h] = "idle" /\ pc' = [pc EXCEPT ![h] = "next"] /\ job' = [job EXCEPT ![h] = x]
      BY <2>4 DEF StartGenerate, Step
    <3> QED
      BY <2>4, <2>t, <3>1 DEF StartGenerate, Step
  <2>5. ASSUME NEW h \in Handlers, Continue(h) PROVE Clear'
    <3>1. ASSUME NEW e \in job[h].todo, CheckExisting(h, e) PROVE Clear'
      <4> DEFINE s == Enrolled[job[h].class][e]
                 k == IF Existing(s, Teacher[job[h].class], job[h].period) # {} THEN "next" ELSE "price"
                 x == [job[h] EXCEPT !.todo = job[h].todo \ {e}, !.student = s]
      <4>1. pc[h] = "next" /\ pc' = [pc EXCEPT ![h] = k] /\ UNCHANGED <<rows, fails>>
        BY <3>1 DEF CheckExisting, Step
      <4>2. job' = [job EXCEPT ![h].todo = @ \ {e}, ![h].student = s]
        BY <3>1 DEF CheckExisting
      <4>3. job' = [job EXCEPT ![h] = x]
        BY <4>2 DEF Sound, TypeOK
      <4>4. k \notin {"lines", "credit", "invoice"}
        OBVIOUS
      <4> HIDE DEF k, x
      <4> QED
        BY <2>t, <4>1, <4>3, <4>4
    <3>2. ASSUME Answer(h) PROVE Clear'
      BY <2>t, <3>2 DEF Answer, Step
    <3>3. ASSUME Price(h) PROVE Clear'
      <4>1. /\ pc[h] = "price" /\ pc' = [pc EXCEPT ![h] = "credit"] /\ UNCHANGED <<rows, fails>>
        BY <3>3, PriceFacts
      <4>2. PICK items \in Items : /\ OnlyReductions => SumOf(items) <= job[h].fee
                                   /\ job' = [job EXCEPT ![h] = [job[h] EXCEPT !.items = items]]
        BY <3>3, PriceFacts
      <4> DEFINE x == [job[h] EXCEPT !.items = items]
      <4>3. x.items = items /\ x.fee = job[h].fee
        BY JobOf DEF Sound, Job
      <4>4. job' = [job EXCEPT ![h] = x]
        BY <4>2
      <4> HIDE DEF x
      <4>5. OnlyReductions => SumOf(x.items) <= x.fee
        BY <4>2, <4>3
      <4> QED
        BY <2>t, <4>1, <4>4, <4>5
    <3>4. ASSUME ReadCredit(h) PROVE Clear'
      <4> DEFINE x == [job[h] EXCEPT !.credit = CreditFor(h)]
      <4>1. /\ pc[h] = "credit" /\ pc' = [pc EXCEPT ![h] = "invoice"] /\ UNCHANGED <<rows, fails>>
            /\ job' = [job EXCEPT ![h] = x]
        BY <3>4 DEF ReadCredit, Step
      <4>2. x.items = job[h].items /\ x.fee = job[h].fee
        BY JobOf DEF Sound, Job
      <4>3. OnlyReductions => SumOf(job[h].items) <= job[h].fee
        BY <4>1 DEF Clear, Affordable
      <4> HIDE DEF x
      <4>4. OnlyReductions => SumOf(x.items) <= x.fee
        BY <4>2, <4>3
      <4> QED
        BY <2>t, <4>1, <4>4
    <3>5. ASSUME ConsumeCredit(h) PROVE Clear'
      <4>1. pc[h] = "consume" /\ pc'[h] = "next" /\ (\A g \in Handlers \ {h} : pc'[g] = pc[g])
            /\ UNCHANGED <<discounts, invoices, lines, job, fails>>
        BY <3>5, ConsumeCreditFacts DEF ConsumeCredit
      <4>2. Affordable(h)'
        BY <4>1 DEF Affordable
      <4> QED
        BY <4>1, <4>2, ClearThinks
    <3> QED
      BY <2>5, <3>1, <3>2, <3>3, <3>4, <3>5, InsertInvoiceClear, InsertLineClear DEF Continue
  <2>6. ASSUME NEW h \in Handlers, Fail(h) PROVE Clear'
    BY <2>6, FailClear
  <2> QED
    BY <1>2, <2>1, <2>2, <2>3, <2>4, <2>5, <2>6 DEF Next
<1> QED
  BY <1>1, <1>2

\* The line items of every complete invoice explain its total, whatever discounts were granted;
\* and no invoice is dearer than its fee while none of them is above 100 percent.
THEOREM Explained ==
  ASSUME MaxOverlap = 1
  PROVE  Spec => []ItemsExplainTotal
<1>1. Sound /\ Alone /\ Clear /\ [Next]_vars => Sound' /\ Alone' /\ Clear'
  BY SoundNext, AloneNext, ClearNext
<1>2. Init => Sound /\ Alone /\ Clear
  BY SoundInit, AloneInit, ClearInit
<1>3. Clear => ItemsExplainTotal
  BY DEF Clear
<1> QED
  BY <1>1, <1>2, <1>3, PTL DEF Spec

-----------------------------------------------------------------------------
(* Billing is as good as atomic. *)

BillOf(r) == [student |-> r.student, teacher |-> r.teacher, period |-> r.period, total |-> r.total]
BillsOf(table) == [n \in DOMAIN table |-> BillOf(table[n])]
Bills == BillsOf(invoices)
Left(s) == Balance(s) - Pending(s)
Lefts == [s \in Students |-> Left(s)]

LEMMA LeftInt == TypeOK =>
  \A s \in Students : Balance(s) \in Int /\ Pending(s) \in Int /\ Left(s) \in Int
<1> SUFFICES ASSUME TypeOK, NEW s \in Students
    PROVE Balance(s) \in Int /\ Pending(s) \in Int /\ Left(s) \in Int
  OBVIOUS
<1>1. Balance(s) \in Int /\ Pending(s) \in Int
  BY BalanceInt, PendingInt
<1> QED
  BY <1>1 DEF Left

LEMMA BillingInit == Init => AtomicBilling!BInit
<1> SUFFICES ASSUME Init PROVE AtomicBilling!BInit
  OBVIOUS
<1>1. Bills = <<>>
  BY DEF Init, Bills, BillsOf
<1>2. ASSUME NEW s \in Students PROVE Left(s) = 0
  <2>1. {n \in DOMAIN ledger : ledger[n].student = s} = {}
    BY DEF Init
  <2>2. {h \in Handlers : job[h].student = s /\ pc[h] \in {"lines", "consume"}} = {}
    BY DEF Init
  <2>3. Balance(s) = 0 /\ Pending(s) = 0
    BY <2>1, <2>2, TotalNone DEF Balance, Pending
  <2> QED
    BY <2>3 DEF Left
<1>3. Lefts = [s \in Students |-> 0]
  BY <1>2 DEF Lefts
<1> QED
  BY <1>1, <1>3 DEF AtomicBilling!BInit, Bills, BillsOf, BillOf, Lefts, Left

BillingStep == [AtomicBilling!BNext]_<<Bills, Lefts>>

\* Nothing is billed and everyone has as much left as before.
LEMMA NothingBilled ==
  ASSUME invoices' = invoices, \A s \in Students : Left(s)' = Left(s)
  PROVE  BillingStep
<1>1. Bills' = Bills
  BY DEF Bills, BillsOf
<1>2. Lefts' = Lefts
  BY DEF Lefts
<1> QED
  BY <1>1, <1>2 DEF BillingStep

\* One student has more left.
LEMMA SomeoneHasMore ==
  ASSUME invoices' = invoices, NEW s \in Students, Left(s)' > Left(s),
         \A r \in Students \ {s} : Left(r)' = Left(r)
  PROVE  BillingStep
<1>1. Bills' = Bills
  BY DEF Bills, BillsOf
<1>2. Lefts'[s] > Lefts[s] /\ \A r \in Students \ {s} : Lefts'[r] = Lefts[r]
  BY DEF Lefts
<1>3. AtomicBilling!Add(s)
  BY <1>1, <1>2 DEF AtomicBilling!Add, AtomicBilling!OthersKept, Bills, BillsOf, BillOf, Lefts, Left
<1> QED
  BY <1>3 DEF BillingStep, AtomicBilling!BNext

LEMMA QuietBilling ==
  ASSUME Sound, Sound', NEW h \in Handlers, Quiet(h)
  PROVE  BillingStep
<1>1. ASSUME NEW s \in Students PROVE Left(s)' = Left(s)
  <2>1. Balance(s)' = Balance(s)
    BY DEF Quiet, Balance, Entered
  <2>2. Pending(s) \in Int /\ Pending(s)' = Pending(s) - Due(h, s) + Due(h, s)'
    BY PendingStep DEF Quiet, Sound
  <2>3. Due(h, s) \in Int /\ Due(h, s)' = Due(h, s)
    BY DueNat DEF Sound, Quiet
  <2>4. Pending(s)' = Pending(s)
    BY <2>2, <2>3
  <2> QED
    BY <2>1, <2>4 DEF Left
<1> QED
  BY <1>1, NothingBilled DEF Quiet

LEMMA GrantCreditBilling ==
  ASSUME Sound, NEW s \in Students, NEW a \in Grants, GrantCredit(s, a)
  PROVE  BillingStep
<1> DEFINE e == [student |-> s, amount |-> a, source |-> 0]
<1>1. ledger' = Append(ledger, e) /\ UNCHANGED <<invoices, pc, job>> /\ TypeOK
  BY DEF GrantCredit, Sound
<1>2. a \in Nat /\ e \in [student : Students, amount : Int, source : Nat] /\ e.amount = a
        /\ e.student = s
  BY InvoicingAssumption
<1> HIDE DEF e
<1>3. ASSUME NEW r \in Students
      PROVE  /\ Balance(r)' = Balance(r) + (IF s = r THEN a ELSE 0) /\ Pending(r)' = Pending(r)
             /\ Balance(r) \in Int /\ Pending(r) \in Int
  BY <1>1, <1>2, BalanceMore, PendingSame, LeftInt
<1>5. \A r \in Students \ {s} : Left(r)' = Left(r)
  BY <1>3 DEF Left
<1>6. CASE a = 0
  <2>1. Left(s)' = Left(s)
    BY <1>3, <1>6 DEF Left
  <2> QED
    BY <1>1, <1>5, <2>1, NothingBilled
<1>7. CASE a > 0
  <2>1. Left(s)' > Left(s)
    BY <1>2, <1>3, <1>7 DEF Left
  <2> QED
    BY <1>1, <1>5, <2>1, SomeoneHasMore
<1> QED
  BY <1>2, <1>6, <1>7

LEMMA ConsumeCreditBilling ==
  ASSUME Sound, Sound', NEW h \in Handlers, ConsumeCredit(h)
  PROVE  BillingStep
<1>1. /\ TypeOK /\ TypeOK' /\ pc[h] = "consume" /\ pc'[h] = "next"
      /\ \A g \in Handlers \ {h} : pc'[g] = pc[g] /\ job'[g] = job[g]
      /\ job[h].credit \in Int /\ job[h].credit > 0 /\ invoices' = invoices /\ job' = job
  BY ConsumeCreditFacts DEF Sound
<1> DEFINE e == [student |-> job[h].student, amount |-> -job[h].credit, source |-> job[h].row]
<1>2. ledger' = Append(ledger, e) /\ e \in [student : Students, amount : Int, source : Nat]
  <2>1. /\ job[h].student \in Students /\ job[h].credit \in Int /\ job[h].row \in Nat
        /\ ledger' = Append(ledger, e)
    BY ConsumeCreditFacts
  <2> QED
    BY <2>1
<1>3. e.student = job[h].student /\ e.amount = -job[h].credit
  OBVIOUS
<1> HIDE DEF e
<1>4. ASSUME NEW s \in Students PROVE Left(s)' = Left(s)
  <2>1. Balance(s) \in Int /\ Balance(s)' =
          Balance(s) + (IF job[h].student = s THEN -job[h].credit ELSE 0)
    BY <1>1, <1>2, <1>3, BalanceMore, BalanceInt
  <2>2. Due(h, s) = (IF job[h].student = s THEN job[h].credit ELSE 0) /\ Due(h, s)' = 0
    BY <1>1 DEF Due, NotBelowZero
  <2>3. Pending(s) \in Int /\ Pending(s)' = Pending(s) - Due(h, s) + Due(h, s)'
    BY <1>1, PendingStep
  <2> QED
    BY <1>1, <2>1, <2>2, <2>3 DEF Left
<1> QED
  BY <1>1, <1>4, NothingBilled

LEMMA FailBilling ==
  ASSUME Sound, Sound', NEW h \in Handlers, Fail(h)
  PROVE  BillingStep
<1>1. /\ pc'[h] = "idle" /\ (\A g \in Handlers \ {h} : pc'[g] = pc[g] /\ job'[g] = job[g])
      /\ UNCHANGED <<invoices, ledger>>
  BY DEF Fail, rows, Sound, TypeOK
<1>2. ASSUME NEW s \in Students
      PROVE  /\ Balance(s) \in Int /\ Balance(s)' = Balance(s) /\ Pending(s) \in Int
             /\ Due(h, s) \in Nat /\ Pending(s)' = Pending(s) - Due(h, s)
  <2>1. Balance(s)' = Balance(s) /\ Balance(s) \in Int
    BY <1>1, BalanceSame, BalanceInt DEF Sound
  <2>2. Pending(s) \in Int /\ Pending(s)' = Pending(s) - Due(h, s) + Due(h, s)'
    BY <1>1, PendingStep DEF Sound
  <2>3. Due(h, s)' = 0 /\ Due(h, s) \in Nat
    BY <1>1, DueNat DEF Due, Sound
  <2> QED
    BY <2>1, <2>2, <2>3
<1>3. CASE \A s \in Students : Due(h, s) = 0
  <2>1. \A s \in Students : Left(s)' = Left(s)
    BY <1>2, <1>3 DEF Left
  <2> QED
    BY <1>1, <2>1, NothingBilled
<1>4. CASE ~ \A s \in Students : Due(h, s) = 0
  <2>1. PICK s \in Students : Due(h, s) # 0
    BY <1>4
  <2>2. \A r \in Students \ {s} : Due(h, r) = 0
    BY <2>1 DEF Due
  <2>3. Left(s)' > Left(s)
    BY <1>2, <2>1 DEF Left
  <2>4. \A r \in Students \ {s} : Left(r)' = Left(r)
    BY <1>2, <2>2 DEF Left
  <2> QED
    BY <1>1, <2>3, <2>4, SomeoneHasMore
<1> QED
  BY <1>3, <1>4

LEMMA BillsRows ==
  ASSUME NEW table \in Seq([student : Students, teacher : Teachers, period : Periods,
                            subtotal : Nat, total : Nat, credit : Nat])
  PROVE  /\ BillsOf(table) \in Seq([student : Students, teacher : Teachers, period : Periods,
                                    total : Nat])
         /\ Len(BillsOf(table)) = Len(table) /\ DOMAIN table = 1..Len(table) /\ Len(table) \in Nat
<1> DEFINE R == [student : Students, teacher : Teachers, period : Periods,
                 subtotal : Nat, total : Nat, credit : Nat]
           B == [student : Students, teacher : Teachers, period : Periods, total : Nat]
<1>1. table \in Seq(R) /\ \A r \in R : BillOf(r) \in B
  BY DEF BillOf
<1> HIDE DEF R, B
<1>2. Len(table) \in Nat /\ DOMAIN table = 1..Len(table) /\ \A n \in DOMAIN table : table[n] \in R
  BY <1>1
<1>3. BillsOf(table) = [n \in 1..Len(table) |-> BillOf(table[n])]
        /\ \A n \in 1..Len(table) : BillOf(table[n]) \in B
  BY <1>1, <1>2 DEF BillsOf
<1>4. BillsOf(table) \in Seq(B) /\ Len(BillsOf(table)) = Len(table)
  BY <1>2, <1>3
<1> QED
  BY <1>2, <1>4 DEF B

LEMMA InsertInvoiceBilling ==
  ASSUME Sound, Sound', Alone, NEW h \in Handlers, InsertInvoice(h)
  PROVE  BillingStep
<1> DEFINE j == job[h]
           row == Len(invoices) + 1
           due == NotBelowZero(SumOf(j.items))
           items == j.items \o CreditItem(j.credit)
           new == [student |-> j.student, teacher |-> Teacher[j.class], period |-> j.period,
                   subtotal |-> j.fee, total |-> due - j.credit, credit |-> NotBelowZero(j.credit)]
           x == [job[h] EXCEPT !.row = row, !.items = items]
           bill == [student |-> j.student, teacher |-> Teacher[j.class], period |-> j.period,
             total |-> due - j.credit]
<1>1. /\ TypeOK /\ TypeOK' /\ pc[h] = "invoice" /\ pc'[h] = "lines" /\ job'[h] = x
      /\ \A g \in Handlers \ {h} : pc'[g] = pc[g] /\ job'[g] = job[g]
      /\ x.student = j.student /\ x.credit = j.credit
      /\ DOMAIN invoices' = DOMAIN invoices \cup {row} /\ row \notin DOMAIN invoices
      /\ invoices'[row] = new /\ (\A n \in DOMAIN invoices : invoices'[n] = invoices[n])
           /\ ledger' = ledger
  BY InsertInvoiceFacts DEF Sound
<1>2. BillOf(new) = bill /\ bill.total = due - j.credit
  BY DEF BillOf
<1>3. /\ j.class \in Classes /\ j.period \in Periods /\ j.student \in Students
           /\ Teacher[j.class] \in Teachers
      /\ j.credit <= due /\ j.credit \in Int
           /\ SumOf(j.items) \in Int
  <2>1. j.class \in Classes /\ j.period \in Periods
          /\ j.student \in Range(Enrolled[j.class]) /\ j.credit <= due
    BY <1>1 DEF Sound, Memory, Busy
  <2>2. j.credit \in Int /\ j.items \in Seq(Int)
    BY <1>1, JobOf
  <2>3. j.student \in Students /\ Teacher[j.class] \in Teachers
    BY <2>1, RangeStudents, InvoicingAssumption
  <2> QED
    BY <2>1, <2>2, <2>3, SumOfInt
<1>4. j.credit \in 0..Balance(j.student)
  BY <1>1 DEF Alone, Funded
<1>5. due \in Nat
  BY <1>3 DEF NotBelowZero
<1>6. PICK s \in Students, t \in Teachers, p \in Periods : s = j.student /\ t = Teacher[j.class]
             /\ p = j.period
  BY <1>3
<1>7. Pending(s) = 0
  <2>1. {g \in Handlers : job[g].student = s /\ pc[g] \in {"lines", "consume"}} = {}
    <3> SUFFICES ASSUME NEW g \in Handlers, job[g].student = s, pc[g] \in {"lines", "consume"}
        PROVE FALSE
      OBVIOUS
    <3> QED
      BY <1>1, <1>6, OthersStudent DEF Alone
  <2> QED
    BY <2>1, TotalNone DEF Pending
<1>8. ASSUME NEW r \in Students
      PROVE  /\ Balance(r) \in Int /\ Pending(r) \in Int
             /\ Left(r)' = Left(r) - (IF s = r THEN j.credit ELSE 0)
  <2>1. Balance(r)' = Balance(r) /\ Balance(r) \in Int
    BY <1>1, BalanceSame, BalanceInt
  <2>2. NotBelowZero(j.credit) = j.credit
    BY <1>3, <1>4 DEF NotBelowZero
  <2>3. Due(h, r) = 0 /\ Due(h, r)' = IF s = r THEN j.credit ELSE 0
    <3> HIDE DEF x
    <3> QED
      BY <1>1, <1>6, <2>2 DEF Due
  <2>4. Pending(r) \in Int /\ Pending(r)' = Pending(r) - Due(h, r) + Due(h, r)'
    BY <1>1, PendingStep
  <2> QED
    BY <1>3, <2>1, <2>3, <2>4 DEF Left
<1> HIDE DEF due, items, new, x
<1>9. Bills' = Append(Bills, bill)
  <2> DEFINE B == [student : Students, teacher : Teachers, period : Periods, total : Nat]
  <2>1. /\ Bills \in Seq(B) /\ Bills' \in Seq(B) /\ Len(Bills) = Len(invoices)
             /\ Len(Bills') = Len(invoices')
        /\ DOMAIN invoices = 1..Len(invoices) /\ DOMAIN invoices' = 1..Len(invoices')
        /\ Len(invoices) \in Nat /\ Len(invoices') \in Nat
    <3>1. Bills' = BillsOf(invoices')
      BY DEF Bills, BillsOf
    <3> QED
      BY <1>1, <3>1, BillsRows DEF Bills, TypeOK
  <2>2. due - j.credit \in Nat
    BY <1>3, <1>5
  <2>3. bill \in B
    BY <1>3, <2>2
  <2>4. Len(invoices') = row
    BY <1>1, <2>1
  <2> HIDE DEF B, bill
  <2>5. /\ Append(Bills, bill) \in Seq(B) /\ Len(Append(Bills, bill)) = row
        /\ Append(Bills, bill)[row] = bill
             /\ \A n \in 1..Len(invoices) : Append(Bills, bill)[n] = Bills[n]
    BY <2>1, <2>3, AppendProperties
  <2>6. ASSUME NEW n \in 1..row PROVE Bills'[n] = Append(Bills, bill)[n]
    <3>1. CASE n = row
      BY <1>1, <1>2, <2>1, <2>4, <2>5, <3>1 DEF Bills, BillsOf
    <3>2. CASE n # row
      <4>1. n \in 1..Len(invoices)
        BY <2>1, <3>2
      <4>2. Bills'[n] = BillOf(invoices'[n]) /\ Bills[n] = BillOf(invoices[n])
        BY <2>1, <2>4, <4>1 DEF Bills, BillsOf
      <4> QED
        BY <1>1, <2>1, <2>5, <4>1, <4>2
    <3> QED
      BY <3>1, <3>2
  <2> QED
    BY <2>1, <2>4, <2>5, <2>6, SeqEqual
<1>10. ~ \E n \in 1..Len(Bills) : Bills[n].student = s /\ Bills[n].teacher = t /\ Bills[n].period = p
  <2> SUFFICES ASSUME NEW n \in 1..Len(Bills), Bills[n].student = s, Bills[n].teacher = t,
                        Bills[n].period = p
               PROVE  FALSE
    OBVIOUS
  <2>1. n \in DOMAIN invoices /\ Bills[n] = BillOf(invoices[n])
    BY <1>1, BillsRows DEF Bills, BillsOf, TypeOK
  <2>2. invoices[n].student = s /\ invoices[n].teacher = t /\ invoices[n].period = p
    BY <2>1 DEF BillOf
  <2>3. Existing(j.student, Teacher[j.class], j.period) = {}
    BY <1>1 DEF Alone, Fresh
  <2> QED
    BY <1>6, <2>1, <2>2, <2>3 DEF Existing
<1>11. Lefts'[s] \in 0..Lefts[s] /\ \A r \in Students \ {s} : Lefts'[r] = Lefts[r]
  <2>1. Lefts'[s] = Left(s)' /\ Lefts[s] = Left(s)
          /\ \A r \in Students \ {s} : Lefts'[r] = Left(r)' /\ Lefts[r] = Left(r)
    BY DEF Lefts
  <2>2. Left(s) = Balance(s) /\ Balance(s) \in Int /\ Left(s)' = Balance(s) - j.credit
    BY <1>3, <1>7, <1>8 DEF Left
  <2>3. j.credit \in 0..Balance(s)
    BY <1>4, <1>6
  <2>4. Left(s)' \in 0..Left(s)
    BY <1>3, <2>2, <2>3
  <2>5. \A r \in Students \ {s} : Left(r)' = Left(r)
    BY <1>8, LeftInt, <1>1 DEF Left
  <2> QED
    BY <2>1, <2>4, <2>5
<1>12. bill \in [student : {s}, teacher : {t}, period : {p}, total : Nat]
  <2>1. due - j.credit \in Nat
    BY <1>3, <1>5
  <2> QED
    BY <1>6, <2>1
<1> HIDE DEF bill, row
<1>13. Len(Bills') = Len(Bills) + 1 /\ Bills'[Len(Bills) + 1] = bill
  <2>1. Bills \in Seq([student : Students, teacher : Teachers, period : Periods, total : Nat])
    BY <1>1, BillsRows DEF Bills, TypeOK
  <2> QED
    BY <1>9, <2>1
<1>14. AtomicBilling!Bill(s, t, p)
  BY <1>9, <1>10, <1>11, <1>12, <1>13 DEF AtomicBilling!Bill, AtomicBilling!Billed,
     AtomicBilling!OthersKept, Bills, BillsOf, BillOf, Lefts, Left
<1> QED
  BY <1>14 DEF BillingStep, AtomicBilling!BNext

LEMMA BillingNext == Sound /\ Alone /\ [Next]_vars => BillingStep
<1> SUFFICES ASSUME Sound, Alone, [Next]_vars PROVE BillingStep
  OBVIOUS
<1>1. Sound'
  BY SoundNext
<1>2. ASSUME UNCHANGED <<pc, job, invoices, ledger>> PROVE BillingStep
  <2>1. \A s \in Students : Left(s)' = Left(s)
    BY <1>2, BalanceSame, PendingSame DEF Left
  <2> QED
    BY <1>2, <2>1, NothingBilled
<1>3. CASE UNCHANGED vars
  BY <1>2, <1>3 DEF vars, rows
<1>4. CASE Next
  <2>1. ASSUME NEW c \in Classes, NEW a \in Fees, CreateFeeStructure(c, a) PROVE BillingStep
    BY <1>2, <2>1 DEF CreateFeeStructure
  <2>2. ASSUME NEW d \in Discounts, CreateDiscount(d) PROVE BillingStep
    BY <1>2, <2>2 DEF CreateDiscount
  <2>3. ASSUME NEW s \in Students, NEW a \in Grants, GrantCredit(s, a) PROVE BillingStep
    BY <2>3, GrantCreditBilling
  <2>4. ASSUME NEW h \in Handlers, Quiet(h) PROVE BillingStep
    BY <1>1, <2>4, QuietBilling
  <2>5. ASSUME NEW h \in Handlers, Continue(h) PROVE BillingStep
    BY <1>1, <2>4, <2>5, QuietSteps, InsertInvoiceBilling, ConsumeCreditBilling DEF Continue
  <2>6. ASSUME NEW h \in Handlers, Fail(h) PROVE BillingStep
    BY <1>1, <2>6, FailBilling
  <2> QED
    BY <1>4, <2>1, <2>2, <2>3, <2>4, <2>5, <2>6, QuietSteps DEF Next
<1> QED
  BY <1>3, <1>4

\* Generating invoices implements Billing as long as requests with a common student do not
\* overlap.
THEOREM BillingImplemented ==
  ASSUME MaxOverlap = 1
  PROVE  Spec => ImplementsBilling
<1>1. Sound /\ Alone /\ [Next]_vars => Sound' /\ Alone'
  BY SoundNext, AloneNext
<1>2. Init => Sound /\ Alone
  BY SoundInit, AloneInit
<1>3. Sound /\ Alone /\ [Next]_vars =>
        [AtomicBilling!BNext]_<<[n \in DOMAIN invoices |->
              [student |-> invoices[n].student, teacher |-> invoices[n].teacher,
               period |-> invoices[n].period, total |-> invoices[n].total]],
           [s \in Students |-> Balance(s) - Pending(s)]>>
  BY BillingNext DEF BillingStep, Bills, BillsOf, BillOf, Lefts, Left
<1> QED
  BY <1>1, <1>2, <1>3, BillingInit, PTL DEF Spec, ImplementsBilling, AtomicBilling!BSpec
=============================================================================
