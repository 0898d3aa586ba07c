------------------------------- MODULE Sums_proofs -------------------------------
(* Sums of numbers over finite sets, MapThenSumSet of FiniteSetsExt: a fold that    *)
(* takes the elements in the order CHOOSE gives, proved here to be a sum in any     *)
(* order. The sum over each subset of a finite set is a table, which exists because *)
(* it exists for the subsets of n elements at most, for the least n if not for all. *)
EXTENDS Integers, FiniteSets, FiniteSetsExt, FiniteSetTheorems, WellFoundedInduction, TLAPS

\* The element a fold takes first, the tables of the sums over the sets of D, and
\* the subsets of S that have n elements at most.
First(s) == CHOOSE x \in s : TRUE
Sums(g, D) == {f \in [D -> Int] : \A s \in D : f[s] = IF s = {} THEN 0 ELSE g[First(s)] + f[s \ {First(s)}]}
Small(S, n) == {s \in SUBSET S : Cardinality(s) <= n}

LEMMA FirstIn == ASSUME NEW s, s # {} PROVE First(s) \in s
BY DEF First

\* Every set of naturals that has one has a least.
LEMMA LessIsWF == \A T \in SUBSET Nat : T # {} => \E n \in T : \A m \in T : n <= m
<1> SUFFICES ASSUME NEW T \in SUBSET Nat, T # {} PROVE \E n \in T : \A m \in T : n <= m
  OBVIOUS
<1>1. PICK n \in T : \A m \in T : ~ (<<m, n>> \in OpToRel(<, Nat))
  BY NatLessThanWellFounded, WFMin
<1>2. \A m \in T : ~(m < n)
  BY <1>1 DEF OpToRel
<1> QED
  BY <1>2

LEMMA Smaller ==
  ASSUME NEW s, IsFiniteSet(s), NEW x \in s
  PROVE  IsFiniteSet(s \ {x}) /\ Cardinality(s \ {x}) = Cardinality(s) - 1 /\ Cardinality(s) \in Nat /\ Cardinality(s) > 0
BY FS_RemoveElement, FS_EmptySet, FS_CardinalityType

\* For sets of n elements at most there is a sum.
LEMMA SumsToHeight ==
  ASSUME NEW S, IsFiniteSet(S), NEW g \in [S -> Int]
  PROVE  \A n \in Nat : Sums(g, Small(S, n)) # {}
<1> DEFINE bad == {n \in Nat : Sums(g, Small(S, n)) = {}}
<1> SUFFICES ASSUME bad # {} PROVE FALSE
  OBVIOUS
<1>1. PICK n \in bad : \A m \in bad : n <= m
  BY LessIsWF
<1>f. \A s \in SUBSET S : IsFiniteSet(s) /\ Cardinality(s) \in Nat
  BY FS_Subset, FS_CardinalityType
<1>2. CASE n = 0
  <2> DEFINE f == [s \in Small(S, 0) |-> 0]
  <2>1. \A s \in Small(S, 0) : s = {}
    BY <1>f, FS_EmptySet DEF Small
  <2>2. f \in Sums(g, Small(S, 0))
    BY <2>1 DEF Sums
  <2> QED
    BY <1>2, <2>2
<1>3. CASE n # 0
  <2>1. n - 1 \in Nat /\ n - 1 \notin bad
    BY <1>1, <1>3
  <2>2. PICK e \in Sums(g, Small(S, n - 1)) : TRUE
    BY <2>1
  <2> DEFINE D == Small(S, n)
             f == [s \in D |-> IF s = {} THEN 0 ELSE g[First(s)] + e[s \ {First(s)}]]
  <2>3. \A s \in D : s # {} => s \ {First(s)} \in Small(S, n - 1) /\ First(s) \in S
    BY <1>f, FirstIn, Smaller DEF Small
  <2>e. e \in [Small(S, n - 1) -> Int] /\ \A s \in Small(S, n - 1) : e[s] = IF s = {} THEN 0 ELSE g[First(s)] + e[s \ {First(s)}]
    BY <2>2 DEF Sums
  <2>4. f \in [D -> Int]
    BY <2>3, <2>e
  <2>5. \A s \in Small(S, n - 1) : s \in D /\ f[s] = e[s]
    BY <2>e, <1>f, <1>1 DEF Small
  <2>6. \A s \in D : f[s] = IF s = {} THEN 0 ELSE g[First(s)] + f[s \ {First(s)}]
    <3> SUFFICES ASSUME NEW s \in D PROVE f[s] = IF s = {} THEN 0 ELSE g[First(s)] + f[s \ {First(s)}]
      OBVIOUS
    <3>1. CASE s = {}
      BY <3>1
    <3>2. CASE s # {}
      <4>1. f[s \ {First(s)}] = e[s \ {First(s)}]
        BY <2>3, <2>5, <3>2
      <4> QED
        BY <3>2, <4>1
    <3> QED
      BY <3>1, <3>2
  <2>7. f \in Sums(g, D)
    <3> HIDE DEF f, D
    <3> QED
      BY <2>4, <2>6 DEF Sums
  <2> QED
    BY <2>7
<1> QED
  BY <1>2, <1>3

\* The sum exists.
LEMMA SumsThere ==
  ASSUME NEW S, IsFiniteSet(S), NEW g \in [S -> Int]
  PROVE  Sums(g, SUBSET S) # {}
<1>1. Cardinality(S) \in Nat
  BY FS_CardinalityType
<1>2. Small(S, Cardinality(S)) = SUBSET S
  BY FS_Subset DEF Small
<1> QED
  BY <1>1, <1>2, SumsToHeight

-----------------------------------------------------------------------------
\* f is the table of the sums of g over the subsets of S.
Adding(f, g, S) == \A s \in SUBSET S : f[s] = IF s = {} THEN 0 ELSE g[First(s)] + f[s \ {First(s)}]

Numbers(g, S) == \A x \in S : g[x] \in Int

\* Two sums of functions that agree on T agree on the sets of T.
LEMMA SumsAgree ==
  ASSUME NEW T, IsFiniteSet(T), NEW g, NEW h, \A x \in T : g[x] = h[x],
         NEW f, NEW e, Adding(f, g, T), Adding(e, h, T)
  PROVE  \A s \in SUBSET T : f[s] = e[s]
<1> DEFINE bad == {s \in SUBSET T : f[s] # e[s]}
           sizes == {n \in Nat : \E s \in bad : n = Cardinality(s)}
<1> SUFFICES ASSUME bad # {} PROVE FALSE
  OBVIOUS
<1>f. \A s \in SUBSET T : IsFiniteSet(s) /\ Cardinality(s) \in Nat
  BY FS_Subset, FS_CardinalityType
<1>1. sizes # {}
  BY <1>f
<1>2. PICK n \in sizes : \A m \in sizes : n <= m
  BY <1>1, LessIsWF
<1>3. PICK s \in bad : n = Cardinality(s)
  BY <1>2
<1>4. CASE s = {}
  BY <1>3, <1>4 DEF Adding
<1>5. CASE s # {}
  <2>1. First(s) \in s /\ s \ {First(s)} \in SUBSET T
    BY <1>3, <1>5, FirstIn
  <2>2. Cardinality(s \ {First(s)}) = n - 1
    BY <1>f, <1>3, <2>1, Smaller
  <2>3. s \ {First(s)} \notin bad
    BY <1>f, <1>2, <1>3, <2>1, <2>2
  <2>4. f[s \ {First(s)}] = e[s \ {First(s)}]
    BY <2>1, <2>3
  <2>5. f[s] = g[First(s)] + f[s \ {First(s)}] /\ e[s] = h[First(s)] + e[s \ {First(s)}]
    BY <1>3, <1>5 DEF Adding
  <2> QED
    BY <1>3, <2>1, <2>4, <2>5
<1> QED
  BY <1>4, <1>5

\* The sum of g over S, and that it is the table's.
Total(g, S) == MapThenSumSet(LAMBDA x : g[x], S)

LEMMA TotalIs ==
  ASSUME NEW S, IsFiniteSet(S), NEW g, NEW f, Adding(f, g, S)
  PROVE  Total(g, S) = f[S]
<1> DEFINE body(h) == [s \in SUBSET S |-> IF s = {} THEN 0 ELSE g[CHOOSE x \in s : TRUE] + h[s \ {CHOOSE x \in s : TRUE}]]
           iter == CHOOSE h : h = body(h)
           e == [s \in SUBSET S |-> f[s]]
<1>1. Total(g, S) = iter[S]
  BY DEF Total, MapThenSumSet, MapThenFoldSet
<1>2. e = body(e)
  BY FirstIn DEF First, Adding
<1>3. ASSUME NEW h, h = body(h) PROVE h = e
  <2>1. Adding(h, g, S)
    BY <1>3 DEF First, Adding
  <2>2. \A s \in SUBSET S : h[s] = f[s]
    BY <2>1, SumsAgree
  <2> QED
    BY <2>2, <1>3
<1>4. iter = e
  <2> HIDE DEF body, e
  <2> QED
    BY <1>2, <1>3
<1> QED
  BY <1>1, <1>4

\* The sums of g over the sets of S.
Table(f, g, S) ==
  /\ f \in [SUBSET S -> Int] /\ Adding(f, g, S)
  /\ \A T \in SUBSET S : Total(g, T) = f[T]

\* The sum of the values on S, one for every set of S.
LEMMA SumsFor ==
  ASSUME NEW S, IsFiniteSet(S), NEW g, Numbers(g, S)
  PROVE  \E f : Table(f, g, S)
<1> DEFINE k == [x \in S |-> g[x]]
<1>1. PICK f \in Sums(k, SUBSET S) : TRUE
  BY SumsThere DEF Numbers
<1>2. f \in [SUBSET S -> Int] /\ Adding(f, g, S)
  BY FirstIn DEF Sums, Adding
<1>3. ASSUME NEW T \in SUBSET S PROVE Total(g, T) = f[T]
  <2>1. Adding(f, g, T) /\ IsFiniteSet(T)
    BY <1>2, FS_Subset DEF Adding
  <2> QED
    BY <2>1, TotalIs
<1> QED
  BY <1>2, <1>3 DEF Table

LEMMA TotalEmpty == ASSUME NEW g PROVE Total(g, {}) = 0
<1>1. Adding([s \in {{}} |-> 0], g, {})
  BY DEF Adding
<1> QED
  BY <1>1, TotalIs, FS_EmptySet

LEMMA TotalInt ==
  ASSUME NEW S, IsFiniteSet(S), NEW g, Numbers(g, S)
  PROVE  Total(g, S) \in Int
<1>1. PICK f : Table(f, g, S)
  BY SumsFor
<1> QED
  BY <1>1 DEF Table

\* Whichever element is taken first.
LEMMA SumsAnyOrder ==
  ASSUME NEW S, IsFiniteSet(S), NEW g, Numbers(g, S), NEW f, Table(f, g, S)
  PROVE  \A x \in S : f[S] = g[x] + f[S \ {x}]
<1> DEFINE bad == {s \in SUBSET S : \E x \in s : f[s] # g[x] + f[s \ {x}]}
           sizes == {n \in Nat : \E s \in bad : n = Cardinality(s)}
<1> SUFFICES ASSUME bad # {} PROVE FALSE
  OBVIOUS
<1>f. \A s \in SUBSET S : IsFiniteSet(s) /\ Cardinality(s) \in Nat
  BY FS_Subset, FS_CardinalityType
<1>1. sizes # {}
  BY <1>f
<1>2. PICK n \in sizes : \A m \in sizes : n <= m
  BY <1>1, LessIsWF
<1>3. PICK s \in bad : n = Cardinality(s)
  BY <1>2
<1>4. PICK x \in s : f[s] # g[x] + f[s \ {x}]
  BY <1>3
<1> DEFINE c == First(s)
<1>5. c \in s /\ f[s] = g[c] + f[s \ {c}]
  BY <1>3, <1>4, FirstIn DEF Adding, Table
<1>6. c # x
  BY <1>4, <1>5
<1> HIDE DEF c
<1>7. ASSUME NEW y \in s PROVE s \ {y} \in SUBSET S /\ s \ {y} \notin bad
  <2>1. Cardinality(s \ {y}) = n - 1
    BY <1>f, <1>3, Smaller
  <2> QED
    BY <1>2, <1>3, <1>f, <2>1
<1>8. f[s \ {c}] = g[x] + f[(s \ {c}) \ {x}]
  BY <1>5, <1>6, <1>7, <1>4
<1>9. f[s \ {x}] = g[c] + f[(s \ {x}) \ {c}]
  BY <1>5, <1>6, <1>7, <1>4
<1>10. (s \ {c}) \ {x} = (s \ {x}) \ {c} /\ (s \ {x}) \ {c} \in SUBSET S
  BY <1>3
<1> DEFINE rest == f[(s \ {x}) \ {c}]
<1>11. g[c] \in Int /\ g[x] \in Int /\ rest \in Int
  BY <1>3, <1>4, <1>5, <1>10 DEF Numbers, Table
<1>12. f[s] = g[c] + (g[x] + rest) /\ f[s \ {x}] = g[c] + rest
  BY <1>5, <1>8, <1>9, <1>10
<1> HIDE DEF rest
<1> QED
  BY <1>4, <1>11, <1>12

\* The total of a set is that of what is left when any of it is taken away.
LEMMA TotalTake ==
  ASSUME NEW S, IsFiniteSet(S), NEW g, Numbers(g, S), NEW x \in S
  PROVE  Total(g, S) = g[x] + Total(g, S \ {x})
<1>1. PICK f : Table(f, g, S)
  BY SumsFor
<1>2. \A y \in S : f[S] = g[y] + f[S \ {y}]
  BY <1>1, SumsAnyOrder
<1>3. f[S] = g[x] + f[S \ {x}] /\ S \ {x} \in SUBSET S
  BY <1>2
<1> QED
  BY <1>1, <1>3 DEF Table

\* What the function is elsewhere does not matter.
LEMMA TotalSame ==
  ASSUME NEW S, IsFiniteSet(S), NEW g, NEW h, Numbers(g, S), \A x \in S : g[x] = h[x]
  PROVE  Total(g, S) = Total(h, S)
<1>1. PICK f : Table(f, g, S)
  BY SumsFor
<1>2. Adding(f, h, S)
  BY <1>1, FirstIn DEF Adding, Table
<1> QED
  BY <1>1, <1>2, TotalIs DEF Table
\* The sum of values between lo and hi.
LEMMA TotalBetween ==
  ASSUME NEW S, IsFiniteSet(S), NEW g, NEW lo \in Int, NEW hi \in Int,
         \A x \in S : g[x] \in Int /\ lo <= g[x] /\ g[x] <= hi
  PROVE  lo * Cardinality(S) <= Total(g, S) /\ Total(g, S) <= hi * Cardinality(S)
<1>1. Numbers(g, S)
  BY DEF Numbers
<1>2. PICK f : Table(f, g, S)
  BY <1>1, SumsFor
<1> DEFINE Between(s) == lo * Cardinality(s) <= f[s] /\ f[s] <= hi * Cardinality(s)
           bad == {s \in SUBSET S : ~Between(s)}
           sizes == {n \in Nat : \E s \in bad : n = Cardinality(s)}
<1>3. bad = {}
  <2> SUFFICES ASSUME bad # {} PROVE FALSE
    OBVIOUS
  <2>f. \A s \in SUBSET S : IsFiniteSet(s) /\ Cardinality(s) \in Nat
    BY FS_Subset, FS_CardinalityType
  <2>1. sizes # {}
    BY <2>f
  <2>2. PICK n \in sizes : \A m \in sizes : n <= m
    BY <2>1, LessIsWF
  <2>3. PICK s \in bad : n = Cardinality(s)
    BY <2>2
  <2>4. CASE s = {}
    <3>1. f[s] = 0 /\ Cardinality(s) = 0
      BY <1>2, <2>3, <2>4, FS_EmptySet DEF Table, Adding
    <3> QED
      BY <2>3, <3>1
  <2>5. CASE s # {}
    <3> DEFINE x == First(s)
               t == s \ {x}
    <3>1. x \in s /\ t \in SUBSET S /\ f[s] = g[x] + f[t] /\ f[t] \in Int
      BY <1>2, <2>3, <2>5, FirstIn DEF Table, Adding
    <3>2. Cardinality(t) = n - 1 /\ n - 1 \in Nat
      BY <2>f, <2>3, <3>1, Smaller
    <3>3. t \notin bad
      BY <2>2, <2>f, <3>1, <3>2
    <3>4. lo * (n - 1) <= f[t] /\ f[t] <= hi * (n - 1)
      BY <3>1, <3>2, <3>3
    <3>5. g[x] \in Int /\ lo <= g[x] /\ g[x] <= hi
      BY <2>3, <3>1
    <3> HIDE DEF x, t
    <3>6. lo * n <= g[x] + f[t] /\ g[x] + f[t] <= hi * n
      BY <3>1, <3>2, <3>4, <3>5
    <3> QED
      BY <2>3, <3>1, <3>6
  <2> QED
    BY <2>4, <2>5
<1>4. S \in SUBSET S
  OBVIOUS
<1>5. Between(S)
  BY <1>3, <1>4
<1> QED
  BY <1>2, <1>4, <1>5 DEF Table

\* The sum of sums, and the lesser sum of lesser values.
LEMMA TotalPlus ==
  ASSUME NEW S, IsFiniteSet(S), NEW g, NEW h, NEW k, Numbers(g, S), Numbers(h, S),
         \A x \in S : k[x] = g[x] + h[x]
  PROVE  Total(k, S) = Total(g, S) + Total(h, S)
<1>1. PICK f : Table(f, g, S)
  BY SumsFor
<1>2. PICK e : Table(e, h, S)
  BY SumsFor
<1> DEFINE both == [s \in SUBSET S |-> f[s] + e[s]]
<1>3. Adding(both, k, S)
  <2> SUFFICES ASSUME NEW s \in SUBSET S
               PROVE  both[s] = IF s = {} THEN 0 ELSE k[First(s)] + both[s \ {First(s)}]
    BY DEF Adding
  <2>1. CASE s = {}
    <3>1. f[s] = 0 /\ e[s] = 0
      BY <1>1, <1>2, <2>1 DEF Table, Adding
    <3> QED
      BY <2>1, <3>1
  <2>2. CASE s # {}
    <3> DEFINE x == First(s)
               t == s \ {x}
    <3>1. x \in S /\ t \in SUBSET S /\ f[s] = g[x] + f[t] /\ e[s] = h[x] + e[t]
      BY <1>1, <1>2, <2>2, FirstIn DEF Table, Adding
    <3>2. k[x] = g[x] + h[x] /\ g[x] \in Int /\ h[x] \in Int /\ f[t] \in Int /\ e[t] \in Int
      BY <1>1, <1>2, <3>1 DEF Numbers, Table
    <3>3. both[s] = f[s] + e[s] /\ both[t] = f[t] + e[t]
      BY <3>1
    <3> HIDE DEF x, t, both
    <3>4. both[s] = k[x] + both[t]
      BY <3>1, <3>2, <3>3
    <3> QED
      BY <2>2, <3>4 DEF x, t
  <2> QED
    BY <2>1, <2>2
<1>4. S \in SUBSET S
  OBVIOUS
<1>5. Total(k, S) = both[S]
  BY <1>3, TotalIs
<1> QED
  BY <1>1, <1>2, <1>4, <1>5 DEF Table

LEMMA TotalLess ==
  ASSUME NEW S, IsFiniteSet(S), NEW g, NEW h, Numbers(g, S), Numbers(h, S), \A x \in S : g[x] <= h[x]
  PROVE  Total(g, S) <= Total(h, S)
<1>1. PICK f : Table(f, g, S)
  BY SumsFor
<1>2. PICK e : Table(e, h, S)
  BY SumsFor
<1> DEFINE bad == {s \in SUBSET S : ~(f[s] <= e[s])}
           sizes == {n \in Nat : \E s \in bad : n = Cardinality(s)}
<1>3. bad = {}
  <2> SUFFICES ASSUME bad # {} PROVE FALSE
    OBVIOUS
  <2>f. \A s \in SUBSET S : IsFiniteSet(s) /\ Cardinality(s) \in Nat
    BY FS_Subset, FS_CardinalityType
  <2>1. sizes # {}
    BY <2>f
  <2>2. PICK n \in sizes : \A m \in sizes : n <= m
    BY <2>1, LessIsWF
  <2>3. PICK s \in bad : n = Cardinality(s)
    BY <2>2
  <2>4. CASE s = {}
    <3>1. f[s] = 0 /\ e[s] = 0
      BY <1>1, <1>2, <2>3, <2>4 DEF Table, Adding
    <3> QED
      BY <2>3, <3>1
  <2>5. CASE s # {}
    <3> DEFINE x == First(s)
               t == s \ {x}
    <3>1. x \in s /\ t \in SUBSET S /\ f[s] = g[x] + f[t] /\ e[s] = h[x] + e[t]
          /\ f[t] \in Int /\ e[t] \in Int
      BY <1>1, <1>2, <2>3, <2>5, FirstIn DEF Table, Adding
    <3>2. Cardinality(t) = n - 1 /\ n - 1 \in Nat
      BY <2>f, <2>3, <3>1, Smaller
    <3>3. t \notin bad
      BY <2>2, <2>f, <3>1, <3>2
    <3>4. g[x] \in Int /\ h[x] \in Int /\ g[x] <= h[x]
      BY <2>3, <3>1 DEF Numbers
    <3>5. f[t] <= e[t] /\ ~(f[s] <= e[s])
      BY <2>3, <3>1, <3>3
    <3> HIDE DEF x, t
    <3> QED
      BY <3>1, <3>4, <3>5
  <2> QED
    BY <2>4, <2>5
<1>4. S \in SUBSET S
  OBVIOUS
<1>5. f[S] <= e[S]
  BY <1>3, <1>4
<1> QED
  BY <1>1, <1>2, <1>4, <1>5 DEF Table

\* Values that are no more than others are those others if their sum is no less.
LEMMA TotalTight ==
  ASSUME NEW S, IsFiniteSet(S), NEW g, NEW h, Numbers(g, S), Numbers(h, S), \A x \in S : g[x] <= h[x],
         Total(h, S) <= Total(g, S)
  PROVE  \A x \in S : g[x] = h[x]
<1> SUFFICES ASSUME NEW x \in S PROVE g[x] = h[x]
  OBVIOUS
<1> DEFINE T == S \ {x}
<1>1. IsFiniteSet(T) /\ Numbers(g, T) /\ Numbers(h, T) /\ \A y \in T : g[y] <= h[y]
  BY FS_Subset DEF Numbers
<1>2. Total(g, S) = g[x] + Total(g, T) /\ Total(h, S) = h[x] + Total(h, T)
  BY TotalTake
<1> HIDE DEF T
<1>3. Total(g, T) <= Total(h, T) /\ Total(g, T) \in Int /\ Total(h, T) \in Int
  BY <1>1, TotalLess, TotalInt
<1>4. g[x] \in Int /\ h[x] \in Int /\ g[x] <= h[x]
  BY DEF Numbers
<1> DEFINE p == Total(g, T)
           q == Total(h, T)
<1>5. p <= q /\ p \in Int /\ q \in Int /\ h[x] + q <= g[x] + p
  BY <1>2, <1>3
<1> HIDE DEF p, q
<1> QED
  BY <1>4, <1>5

==================================================================================
