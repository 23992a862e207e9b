------------------------------ MODULE RtProofs ------------------------------
(***************************************************************************)
(* The analyses of a task set and its simulation agree, for any task sets, *)
(* any lightness of the jobs, any number of hyperperiods and any cap on    *)
(* the horizon.  In order: induction over sets and what folds, sums and    *)
(* divisions are; fixed points, and what the iteration of the recurrence   *)
(* ends in; work, releases and hyperperiods; the simulation, its busy      *)
(* periods and its verdict; the demand bound, and the order of the         *)
(* policies.                                                               *)
(***************************************************************************)
EXTENDS Rt, WellFoundedInduction, FiniteSetTheorems, SequenceTheorems, TLAPS

-----------------------------------------------------------------------------
(* Induction, over sets instead of predicates.                             *)
LEMMA LeastNumber ==
  ASSUME NEW T, T \subseteq Nat, T # {}
  PROVE  \E n \in T : \A k \in T : n <= k
<1> DEFINE R == {ss \in Nat \X Nat : ss[1] < ss[2]}
<1>1. IsWellFoundedOn(R, Nat)
  BY NatLessThanWellFounded, Zenon DEF OpToRel
<1>2. ASSUME NEW k \in Nat, NEW n \in Nat, k < n PROVE <<k, n>> \in R
  <2> <<k, n>>[1] < <<k, n>>[2] BY <1>2
  <2>. QED OBVIOUS
<1> HIDE DEF R
<1>3. PICK n \in T : \A k \in T : <<k, n>> \notin R
  BY <1>1, WFMin, Zenon
<1>4. \A k \in T : ~(k < n)
  BY <1>2, <1>3
<1>. QED BY <1>4

LEMMA CountingUp ==
  ASSUME NEW T, 0 \in T, \A n \in Nat : n \in T => n + 1 \in T
  PROVE  \A n \in Nat : n \in T
<1> SUFFICES ASSUME Nat \ T # {} PROVE FALSE
  OBVIOUS
<1>1. PICK n \in Nat \ T : \A k \in Nat \ T : n <= k
  BY LeastNumber
<1>2. n # 0 /\ n - 1 \in Nat /\ n - 1 \in T
  BY <1>1
<1>. QED BY <1>1, <1>2

LEMMA GrowingSets ==
  ASSUME NEW D, IsFiniteSet(D), NEW T,
         \A s \in SUBSET D : (\A r \in SUBSET s : r # s => r \in T) => s \in T
  PROVE  D \in T
<1> SUFFICES ASSUME D \notin T PROVE FALSE
  OBVIOUS
<1> DEFINE sizes == {n \in Nat : \E s \in SUBSET D : s \notin T /\ Cardinality(s) = n}
<1>1. sizes # {}
  BY FS_CardinalityType
<1>2. PICK n \in sizes : \A k \in sizes : n <= k
  BY <1>1, LeastNumber
<1>3. PICK s \in SUBSET D : s \notin T /\ Cardinality(s) = n
  BY <1>2
<1>4. PICK r \in SUBSET s : r # s /\ r \notin T
  BY <1>3
<1>5. IsFiniteSet(s) /\ Cardinality(r) < Cardinality(s) /\ Cardinality(r) \in Nat
  BY <1>3, <1>4, FS_Subset, FS_CardinalityType
<1>6. Cardinality(r) \in sizes
  BY <1>3, <1>4, <1>5
<1>. QED BY <1>2, <1>3, <1>5, <1>6

-----------------------------------------------------------------------------
(* A fold over a finite set is what its recursion says: P picks the next    *)
(* element of a set, and F joins it to the fold of the others.              *)
IsFold(g, D, b, F, P) ==
  g = [s \in SUBSET D |-> IF s = {} THEN b ELSE F[<<P[s], g[s \ {P[s]}]>>]]

LEMMA FoldExists ==
  ASSUME NEW D, IsFiniteSet(D), NEW V, NEW b \in V, NEW F \in [D \X V -> V],
         NEW P, \A s \in SUBSET D : s # {} => P[s] \in s
  PROVE  \E g \in [SUBSET D -> V] : IsFold(g, D, b, F, P)
<1> DEFINE Small(n) == {s \in SUBSET D : Cardinality(s) <= n}
           Def(g, s) == IF s = {} THEN b ELSE F[<<P[s], g[s \ {P[s]}]>>]
           Fits(n) == \E g \in [Small(n) -> V] : g = [s \in Small(n) |-> Def(g, s)]
           T == {n \in Nat : Fits(n)}
<1>1. ASSUME NEW s \in SUBSET D, s # {}
      PROVE  /\ s \ {P[s]} \in SUBSET D /\ P[s] \in D
             /\ Cardinality(s) \in Nat /\ Cardinality(s) # 0
             /\ Cardinality(s \ {P[s]}) = Cardinality(s) - 1
  BY <1>1, FS_Subset, FS_RemoveElement, FS_CardinalityType, FS_EmptySet
<1>2. 0 \in T
  <2> DEFINE g == [s \in Small(0) |-> b]
  <2>1. ASSUME NEW s \in Small(0), s # {} PROVE FALSE
    <3>1. s \in SUBSET D /\ Cardinality(s) <= 0
      OBVIOUS
    <3>2. Cardinality(s) \in Nat /\ Cardinality(s) # 0
      BY <1>1, <2>1, <3>1
    <3>. QED BY <3>1, <3>2
  <2>2. g \in [Small(0) -> V]
    OBVIOUS
  <2>3. g = [s \in Small(0) |-> Def(g, s)]
    BY <2>1
  <2>. QED BY <2>2, <2>3
<1>3. ASSUME NEW n \in Nat, n \in T PROVE n + 1 \in T
  <2>1. PICK g \in [Small(n) -> V] : g = [s \in Small(n) |-> Def(g, s)]
    BY <1>3
  <2> DEFINE h == [s \in Small(n + 1) |-> Def(g, s)]
  <2>2. ASSUME NEW s \in Small(n + 1), s # {} PROVE s \ {P[s]} \in Small(n)
    BY <1>1, <2>2
  <2>3. ASSUME NEW s \in Small(n) PROVE s \in Small(n + 1) /\ h[s] = g[s]
    <3>1. s \in Small(n + 1)
      BY FS_Subset, FS_CardinalityType
    <3>2. g[s] = Def(g, s)
      BY <2>1
    <3>. QED BY <3>1, <3>2
  <2>4. ASSUME NEW s \in Small(n + 1) PROVE h[s] \in V /\ h[s] = Def(h, s)
    <3>1. CASE s = {}
      BY <3>1
    <3>2. CASE s # {}
      <4>1. s \ {P[s]} \in Small(n) /\ P[s] \in D
        BY <1>1, <2>2, <3>2
      <4>2. h[s \ {P[s]}] = g[s \ {P[s]}] /\ g[s \ {P[s]}] \in V
        BY <2>3, <4>1
      <4>3. h[s] = F[<<P[s], g[s \ {P[s]}]>>]
        BY <3>2
      <4>4. h[s] \in V
        BY <4>1, <4>2, <4>3
      <4>5. h[s] = Def(h, s)
        BY <3>2, <4>2, <4>3
      <4>. QED BY <4>4, <4>5
    <3>. QED BY <3>1, <3>2
  <2> HIDE DEF h
  <2>5. h = [s \in Small(n + 1) |-> h[s]]
    BY DEF h
  <2>6. h \in [Small(n + 1) -> V] /\ h = [s \in Small(n + 1) |-> Def(h, s)]
    BY <2>4, <2>5
  <2>7. Fits(n + 1)
    BY <2>6
  <2> HIDE DEF Fits
  <2>. QED BY <2>7
<1> HIDE DEF T
<1>4. Cardinality(D) \in Nat /\ Cardinality(D) \in T
  BY <1>2, <1>3, CountingUp, FS_CardinalityType
<1>5. \A s \in SUBSET D : Cardinality(s) <= Cardinality(D)
  BY FS_Subset
<1>6. Small(Cardinality(D)) = SUBSET D
  BY <1>5
<1>7. Fits(Cardinality(D))
  BY <1>4 DEF T
<1>8. PICK g \in [Small(Cardinality(D)) -> V] : g = [s \in Small(Cardinality(D)) |-> Def(g, s)]
  BY <1>7
<1>9. g \in [SUBSET D -> V] /\ g = [s \in SUBSET D |-> Def(g, s)]
  BY <1>6, <1>8
<1>. QED BY <1>9 DEF IsFold

(* Sums of integers.                                                        *)
Pick(s) == CHOOSE x \in s : TRUE
Sums(f) ==
  CHOOSE g : g = [s \in SUBSET DOMAIN f |->
                    IF s = {} THEN 0 ELSE f[Pick(s)] + g[s \ {Pick(s)}]]

LEMMA SumIsSums == ASSUME NEW f PROVE Sum(f) = Sums(f)[DOMAIN f]
BY Zenon DEF Sum, FoldFunction, FoldFunctionOnSet, MapThenFoldSet, Sums, Pick

LEMMA PickIn == ASSUME NEW s, s # {} PROVE Pick(s) \in s
BY DEF Pick

LEMMA SumsIs ==
  ASSUME NEW D, IsFiniteSet(D), NEW f \in [D -> Int]
  PROVE  Sums(f) = [s \in SUBSET D |->
                      IF s = {} THEN 0 ELSE f[Pick(s)] + Sums(f)[s \ {Pick(s)}]]
<1> DEFINE F == [e \in D \X Int |-> f[e[1]] + e[2]]
           P == [s \in SUBSET D |-> Pick(s)]
<1>1. F \in [D \X Int -> Int]
  OBVIOUS
<1>2. \A s \in SUBSET D : s # {} => P[s] \in s
  BY PickIn
<1>3. \A x \in D, n \in Int : F[<<x, n>>] = f[x] + n
  OBVIOUS
<1>4. \A s \in SUBSET D : P[s] = Pick(s)
  OBVIOUS
<1> HIDE DEF F, P
<1>5. PICK g \in [SUBSET D -> Int] :
        g = [s \in SUBSET D |-> IF s = {} THEN 0 ELSE F[<<P[s], g[s \ {P[s]}]>>]]
  <2> DEFINE V == Int
             b == 0
  <2>1. b \in V /\ F \in [D \X V -> V] BY <1>1
  <2> HIDE DEF V, b
  <2>2. \E g \in [SUBSET D -> V] : IsFold(g, D, b, F, P)
    BY <1>2, <2>1, FoldExists
  <2>. QED BY <2>2 DEF V, b, IsFold
<1>6. ASSUME NEW s \in SUBSET D
      PROVE  g[s] = IF s = {} THEN 0 ELSE f[Pick(s)] + g[s \ {Pick(s)}]
  <2>1. CASE s = {} BY <1>5, <2>1
  <2>2. CASE s # {}
    <3>1. P[s] = Pick(s) /\ Pick(s) \in D /\ s \ {Pick(s)} \in SUBSET D
      BY <1>4, <2>2, PickIn
    <3>2. g[s] = F[<<P[s], g[s \ {P[s]}]>>]
      BY <1>5, <2>2
    <3>. QED BY <1>3, <2>2, <3>1, <3>2
  <2>. QED BY <2>1, <2>2
<1>7. g = [s \in SUBSET D |-> IF s = {} THEN 0 ELSE f[Pick(s)] + g[s \ {Pick(s)}]]
  <2>1. g = [s \in SUBSET D |-> g[s]] OBVIOUS
  <2>. QED BY <1>6, <2>1
<1>8. DOMAIN f = D OBVIOUS
<1>. QED BY <1>7, <1>8, Zenon DEF Sums

LEMMA SumsAt ==
  ASSUME NEW D, IsFiniteSet(D), NEW f \in [D -> Int], NEW s \in SUBSET D
  PROVE  /\ s = {} => Sums(f)[s] = 0
         /\ s # {} => /\ Pick(s) \in s
                      /\ Sums(f)[s] = f[Pick(s)] + Sums(f)[s \ {Pick(s)}]
<1> DEFINE h == Sums(f)
           E(r) == IF r = {} THEN 0 ELSE f[Pick(r)] + h[r \ {Pick(r)}]
<1>1. h = [r \in SUBSET D |-> E(r)]
  BY SumsIs
<1> HIDE DEF h
<1>2. h[s] = E(s)
  <2> HIDE DEF E
  <2>. QED BY <1>1
<1>. QED BY <1>2, PickIn DEF h

LEMMA SumsInt ==
  ASSUME NEW D, IsFiniteSet(D), NEW f \in [D -> Int], NEW s \in SUBSET D
  PROVE  Sums(f)[s] \in Int
<1> DEFINE T == {r \in SUBSET D : Sums(f)[r] \in Int}
<1>1. ASSUME NEW r \in SUBSET s, \A q \in SUBSET r : q # r => q \in T
      PROVE  r \in T
  <2>0. r \in SUBSET D
    OBVIOUS
  <2>1. CASE r = {}
    <3>1. Sums(f)[r] = 0 BY <2>0, <2>1, SumsAt
    <3>. QED BY <2>0, <3>1
  <2>2. CASE r # {}
    <3>1. Pick(r) \in r /\ r \ {Pick(r)} \in T
      BY <1>1, <2>2, PickIn
    <3>2. Sums(f)[r] = f[Pick(r)] + Sums(f)[r \ {Pick(r)}]
      BY <2>0, <2>2, SumsAt
    <3>. QED BY <3>1, <3>2
  <2>. QED BY <2>1, <2>2
<1> HIDE DEF T
<1>2. s \in T
  BY <1>1, GrowingSets, FS_Subset
<1>. QED BY <1>2 DEF T

(* The order does not matter.                                               *)
LEMMA SumsAny ==
  ASSUME NEW D, IsFiniteSet(D), NEW f \in [D -> Int], NEW s \in SUBSET D, NEW x \in s
  PROVE  Sums(f)[s] = f[x] + Sums(f)[s \ {x}]
<1> DEFINE T == {r \in SUBSET D : \A y \in r : Sums(f)[r] = f[y] + Sums(f)[r \ {y}]}
<1>1. ASSUME NEW r \in SUBSET s, \A q \in SUBSET r : q # r => q \in T
      PROVE  r \in T
  <2> SUFFICES ASSUME NEW y \in r PROVE Sums(f)[r] = f[y] + Sums(f)[r \ {y}]
    OBVIOUS
  <2>1. Pick(r) \in r /\ Sums(f)[r] = f[Pick(r)] + Sums(f)[r \ {Pick(r)}]
    <3>1. r \in SUBSET D /\ r # {} OBVIOUS
    <3>. QED BY <3>1, SumsAt
  <2>2. CASE y # Pick(r)
    <3> DEFINE p == Pick(r)
               q == (r \ {p}) \ {y}
    <3>1. r \ {p} \in T /\ y \in r \ {p} /\ r \ {y} \in T /\ p \in r \ {y}
      BY <1>1, <2>1, <2>2
    <3>2. Sums(f)[r \ {p}] = f[y] + Sums(f)[q]
      BY <3>1
    <3>3. (r \ {y}) \ {p} = q
      OBVIOUS
    <3>4. Sums(f)[r \ {y}] = f[p] + Sums(f)[q]
      BY <3>1, <3>3
    <3>5. f[p] \in Int /\ f[y] \in Int /\ Sums(f)[q] \in Int
      <4>1. p \in D /\ y \in D /\ q \in SUBSET D BY <2>1
      <4> HIDE DEF p, q
      <4>. QED BY <4>1, SumsInt
    <3>6. Sums(f)[r] = f[p] + Sums(f)[r \ {p}]
      BY <2>1
    <3> HIDE DEF p, q
    <3>. QED BY <3>6, <3>2, <3>4, <3>5
  <2>. QED BY <2>1, <2>2
<1> HIDE DEF T
<1>2. s \in T
  BY <1>1, GrowingSets, FS_Subset
<1>. QED BY <1>2 DEF T

(* Only the summands in the set matter.                                     *)
LEMMA SumsLocal ==
  ASSUME NEW D, IsFiniteSet(D), NEW f \in [D -> Int],
         NEW E, IsFiniteSet(E), NEW g \in [E -> Int],
         NEW s, s \in SUBSET D, s \in SUBSET E, \A x \in s : f[x] = g[x]
  PROVE  Sums(f)[s] = Sums(g)[s]
<1> DEFINE T == {r \in SUBSET s : Sums(f)[r] = Sums(g)[r]}
<1>1. ASSUME NEW r \in SUBSET s, \A q \in SUBSET r : q # r => q \in T
      PROVE  r \in T
  <2>0. r \in SUBSET D /\ r \in SUBSET E
    OBVIOUS
  <2>1. CASE r = {}
    <3>1. Sums(f)[r] = 0 BY <2>0, <2>1, SumsAt
    <3>2. Sums(g)[r] = 0 BY <2>0, <2>1, SumsAt
    <3>. QED BY <3>1, <3>2
  <2>2. CASE r # {}
    <3>1. Pick(r) \in r /\ r \ {Pick(r)} \in T
      BY <1>1, <2>2, PickIn
    <3>2. Sums(f)[r] = f[Pick(r)] + Sums(f)[r \ {Pick(r)}]
      BY <2>0, <2>2, SumsAt
    <3>3. Sums(g)[r] = g[Pick(r)] + Sums(g)[r \ {Pick(r)}]
      <4>1. \A q \in SUBSET E : q # {} => Sums(g)[q] = g[Pick(q)] + Sums(g)[q \ {Pick(q)}]
        BY SumsAt
      <4>. QED BY <2>0, <2>2, <4>1
    <3>. QED BY <3>1, <3>2, <3>3
  <2>. QED BY <2>1, <2>2
<1> HIDE DEF T
<1>2. s \in T
  BY <1>1, GrowingSets, FS_Subset
<1>. QED BY <1>2 DEF T

-----------------------------------------------------------------------------
LEMMA SumIsInt ==
  ASSUME NEW D, IsFiniteSet(D), NEW f \in [D -> Int]
  PROVE  Sum(f) \in Int
BY SumIsSums, SumsInt

LEMMA SumWithout ==
  ASSUME NEW D, IsFiniteSet(D), NEW f \in [D -> Int], NEW x \in D
  PROVE  Sum(f) = f[x] + Sum([i \in D \ {x} |-> f[i]])
<1> DEFINE E == D \ {x}
           g == [i \in E |-> f[i]]
<1>1. IsFiniteSet(E) /\ g \in [E -> Int] /\ DOMAIN g = E /\ DOMAIN f = D
  BY FS_Subset
<1>2. \A y \in E : f[y] = g[y]
  OBVIOUS
<1> HIDE DEF g
<1>3. Sums(f)[E] = Sums(g)[E]
  BY <1>1, <1>2, SumsLocal
<1>4. Sums(f)[D] = f[x] + Sums(f)[E]
  BY SumsAny
<1>5. Sum(f) = Sums(f)[D] /\ Sum(g) = Sums(g)[E]
  BY <1>1, SumIsSums
<1>. QED BY <1>3, <1>4, <1>5 DEF g

(* A sum of nothing, of larger summands, of sums, and of naturals.          *)
LEMMA SumEmpty ==
  ASSUME NEW D, D = {}, NEW f \in [D -> Int]
  PROVE  Sum(f) = 0
<1>1. IsFiniteSet(D) /\ D \in SUBSET D /\ DOMAIN f = D
  BY FS_EmptySet
<1>2. Sums(f)[D] = 0
  BY <1>1, SumsAt
<1>. QED BY <1>1, <1>2, SumIsSums

LEMMA SumLe ==
  ASSUME NEW D, IsFiniteSet(D), NEW f \in [D -> Int], NEW g \in [D -> Int],
         \A i \in D : f[i] <= g[i]
  PROVE  Sum(f) <= Sum(g)
<1> DEFINE T == {r \in SUBSET D : Sums(f)[r] <= Sums(g)[r]}
<1>1. ASSUME NEW r \in SUBSET D, \A q \in SUBSET r : q # r => q \in T
      PROVE  r \in T
  <2>1. CASE r = {}
    <3>1. Sums(f)[r] = 0 BY <2>1, SumsAt
    <3>2. Sums(g)[r] = 0 BY <2>1, SumsAt
    <3>. QED BY <3>1, <3>2
  <2>2. CASE r # {}
    <3> DEFINE x == Pick(r)
               q == r \ {x}
    <3>1. x \in r /\ q \in SUBSET D /\ q \in T
      BY <1>1, <2>2, PickIn
    <3> HIDE DEF x
    <3>2. Sums(f)[r] = f[x] + Sums(f)[q]
      BY <3>1, SumsAny
    <3>3. Sums(g)[r] = g[x] + Sums(g)[q]
      BY <3>1, SumsAny
    <3>4. Sums(f)[q] \in Int /\ Sums(g)[q] \in Int
      BY <3>1, SumsInt
    <3>5. f[x] \in Int /\ g[x] \in Int /\ f[x] <= g[x] /\ Sums(f)[q] <= Sums(g)[q]
      BY <3>1
    <3> HIDE DEF q
    <3>6. Sums(f)[r] <= Sums(g)[r]
      BY <3>2, <3>3, <3>4, <3>5
    <3>. QED BY <3>6
  <2>. QED BY <2>1, <2>2
<1> HIDE DEF T
<1>2. D \in T
  BY <1>1, GrowingSets
<1>. QED BY <1>2, SumIsSums DEF T

LEMMA SumsSplit ==
  ASSUME NEW D, IsFiniteSet(D)
  PROVE  \A f \in [D -> Int] : \A s \in SUBSET D : \A y \in s :
           Sums(f)[s] = f[y] + Sums(f)[s \ {y}]
<1> SUFFICES ASSUME NEW f \in [D -> Int], NEW s \in SUBSET D, NEW y \in s
             PROVE  Sums(f)[s] = f[y] + Sums(f)[s \ {y}]
  OBVIOUS
<1>. QED BY SumsAny

LEMMA SumAdd ==
  ASSUME NEW D, IsFiniteSet(D), NEW f \in [D -> Int], NEW g \in [D -> Int],
         NEW h \in [D -> Int]
  PROVE  (\A i \in D : h[i] = f[i] + g[i]) => Sum(h) = Sum(f) + Sum(g)
<1>0. \A k \in [D -> Int] : \A s \in SUBSET D : \A y \in s :
        Sums(k)[s] = k[y] + Sums(k)[s \ {y}]
  BY SumsSplit, Zenon
<1>a. \A s \in SUBSET D : \A y \in s : Sums(f)[s] = f[y] + Sums(f)[s \ {y}]
  BY <1>0, Zenon
<1>b. \A s \in SUBSET D : \A y \in s : Sums(g)[s] = g[y] + Sums(g)[s \ {y}]
  BY <1>0, Zenon
<1>c. \A s \in SUBSET D : \A y \in s : Sums(h)[s] = h[y] + Sums(h)[s \ {y}]
  BY <1>0, Zenon
<1>. HAVE \A i \in D : h[i] = f[i] + g[i]
<1> DEFINE T == {r \in SUBSET D : Sums(h)[r] = Sums(f)[r] + Sums(g)[r]}
<1>1. ASSUME NEW r \in SUBSET D, \A q \in SUBSET r : q # r => q \in T
      PROVE  r \in T
  <2>1. CASE r = {}
    <3>1. Sums(f)[r] = 0 BY <2>1, SumsAt
    <3>2. Sums(g)[r] = 0 BY <2>1, SumsAt
    <3>3. Sums(h)[r] = 0 BY <2>1, SumsAt
    <3>. QED BY <3>1, <3>2, <3>3
  <2>2. CASE r # {}
    <3> DEFINE x == Pick(r)
               q == r \ {x}
    <3>1. x \in r /\ q \in SUBSET D /\ q \in T
      BY <1>1, <2>2, PickIn
    <3> HIDE DEF x
    <3>2. Sums(f)[r] = f[x] + Sums(f)[q]
      BY <1>a, <3>1
    <3>3. Sums(g)[r] = g[x] + Sums(g)[q]
      BY <1>b, <3>1
    <3>4. Sums(h)[r] = h[x] + Sums(h)[q]
      BY <1>c, <3>1
    <3>5. Sums(f)[q] \in Int /\ Sums(g)[q] \in Int /\ Sums(h)[q] \in Int
      BY <3>1, SumsInt
    <3>6. /\ f[x] \in Int /\ g[x] \in Int /\ h[x] = f[x] + g[x]
          /\ Sums(h)[q] = Sums(f)[q] + Sums(g)[q]
      BY <3>1
    <3> HIDE DEF q
    <3>7. Sums(h)[r] = Sums(f)[r] + Sums(g)[r]
      BY <3>2, <3>3, <3>4, <3>5, <3>6
    <3>. QED BY <3>7
  <2>. QED BY <2>1, <2>2
<1> HIDE DEF T
<1>2. D \in T
  BY <1>1, GrowingSets
<1>. QED BY <1>2, SumIsSums DEF T

LEMMA SumZero ==
  ASSUME NEW D, IsFiniteSet(D), NEW f \in [D -> Int], \A i \in D : f[i] = 0
  PROVE  Sum(f) = 0
<1>1. Sum(f) = Sum(f) + Sum(f)
  BY SumAdd
<1>. QED BY <1>1, SumIsInt

LEMMA SumNat ==
  ASSUME NEW D, IsFiniteSet(D), NEW f \in [D -> Nat]
  PROVE  Sum(f) \in Nat /\ \A i \in D : f[i] <= Sum(f)
<1>0. f \in [D -> Int] /\ Sum(f) \in Int
  BY SumIsInt
<1> DEFINE z(E) == [i \in E |-> 0]
<1>1. ASSUME NEW E, IsFiniteSet(E), NEW g \in [E -> Nat] PROVE Sum(g) >= 0
  <2>1. g \in [E -> Int] /\ z(E) \in [E -> Int] /\ \A i \in E : z(E)[i] <= g[i] /\ z(E)[i] = 0
    OBVIOUS
  <2> HIDE DEF z
  <2>2. Sum(z(E)) = 0 /\ Sum(z(E)) <= Sum(g)
    BY <1>1, <2>1, SumLe, SumZero
  <2>. QED BY <1>1, <2>1, <2>2, SumIsInt
<1>2. ASSUME NEW x \in D PROVE f[x] <= Sum(f)
  <2> DEFINE E == D \ {x}
             g == [i \in E |-> f[i]]
  <2>1. IsFiniteSet(E) /\ g \in [E -> Nat] /\ g \in [E -> Int]
    BY FS_Subset
  <2>2. Sum(f) = f[x] + Sum(g)
    BY <1>0, SumWithout
  <2> HIDE DEF g, E
  <2>3. Sum(g) >= 0 /\ Sum(g) \in Int
    BY <1>1, <2>1, SumIsInt
  <2>. QED BY <2>2, <2>3
<1>. QED BY <1>0, <1>1, <1>2

(* Division.                                                               *)
LEMMA DivIs ==
  ASSUME NEW a \in Nat, NEW b \in Nat, b > 0
  PROVE  /\ a \div b \in Nat /\ a % b \in Nat /\ a % b < b
         /\ a = (a \div b) * b + (a % b)
OBVIOUS

LEMMA DivAtLeast ==
  ASSUME NEW a \in Nat, NEW b \in Nat, b > 0, NEW q \in Int, NEW r \in Int,
         a = q * b + r, 0 <= r, r < b
  PROVE  a \div b = q /\ a % b = r
OBVIOUS

LEMMA CeilIs ==
  ASSUME NEW a \in Nat, NEW b \in Nat, b > 0
  PROVE  Ceil(a, b) \in Nat /\ Ceil(a, b) * b >= a /\ Ceil(a, b) * b < a + b
<1>1. a + b - 1 \in Nat
  OBVIOUS
<1>. QED BY <1>1, DivIs DEF Ceil

LEMMA LessTimes ==
  ASSUME NEW p \in Int, NEW q \in Int, NEW b \in Nat, p * b < q * b
  PROVE  p < q
OBVIOUS

LEMMA Times ==
  ASSUME NEW p \in Int, NEW q \in Int, p <= q, NEW b \in Nat
  PROVE  p * b <= q * b
OBVIOUS

LEMMA CeilAtMost ==
  ASSUME NEW a \in Nat, NEW b \in Nat, b > 0, NEW q \in Int, a <= q * b
  PROVE  Ceil(a, b) <= q
<1> DEFINE c == Ceil(a, b)
<1>1. c \in Nat /\ c * b < a + b
  BY CeilIs
<1> HIDE DEF c
<1>2. (q + 1) * b = q * b + b /\ q * b \in Int /\ c * b \in Int
  BY <1>1
<1>3. c * b < (q + 1) * b
  BY <1>1, <1>2
<1>4. c < q + 1
  BY <1>1, <1>3, LessTimes
<1>. QED BY <1>1, <1>4 DEF c

LEMMA CeilAtLeast ==
  ASSUME NEW a \in Nat, NEW b \in Nat, b > 0, NEW q \in Int, q * b < a + b
  PROVE  q <= Ceil(a, b)
<1> DEFINE c == Ceil(a, b)
<1>1. c \in Nat /\ a <= c * b
  BY CeilIs
<1> HIDE DEF c
<1>2. (c + 1) * b = c * b + b /\ q * b \in Int /\ c * b \in Int
  BY <1>1
<1>3. q * b < (c + 1) * b
  BY <1>1, <1>2
<1>4. q < c + 1
  BY <1>1, <1>3, LessTimes
<1>. QED BY <1>1, <1>4 DEF c

LEMMA CeilMono ==
  ASSUME NEW a \in Nat, NEW x \in Nat, a <= x, NEW b \in Nat, b > 0
  PROVE  Ceil(a, b) <= Ceil(x, b)
<1>1. a <= Ceil(x, b) * b /\ Ceil(x, b) \in Nat
  BY CeilIs
<1>. QED BY <1>1, CeilAtMost

LEMMA CeilSmall ==
  ASSUME NEW a \in Nat, NEW b \in Nat, b > 0
  PROVE  /\ a = 0 => Ceil(a, b) = 0
         /\ a > 0 => Ceil(a, b) >= 1
         /\ a > 0 /\ a <= b => Ceil(a, b) = 1
<1>1. CASE a = 0
  <2>1. a <= 0 * b /\ Ceil(a, b) \in Nat BY <1>1, CeilIs
  <2>2. Ceil(a, b) <= 0 BY <2>1, CeilAtMost
  <2>. QED BY <1>1, <2>1, <2>2
<1>2. CASE a > 0
  <2>1. 1 * b < a + b /\ Ceil(a, b) \in Nat BY <1>2, CeilIs
  <2>2. Ceil(a, b) >= 1 BY <2>1, CeilAtLeast
  <2>3. a <= b => a <= 1 * b OBVIOUS
  <2>4. a <= b => Ceil(a, b) <= 1 BY <2>3, CeilAtMost
  <2>. QED BY <1>2, <2>1, <2>2, <2>4
<1>. QED BY <1>1, <1>2

(* A release more at each multiple of the period, and none in between.      *)
LEMMA CeilNext ==
  ASSUME NEW a \in Nat, NEW b \in Nat, b > 0
  PROVE  /\ a % b = 0 => Ceil(a + 1, b) = Ceil(a, b) + 1
         /\ a % b # 0 => Ceil(a + 1, b) = Ceil(a, b)
<1> DEFINE q == a \div b
           r == a % b
<1>1. q \in Nat /\ r \in Nat /\ r < b /\ a = q * b + r
  BY DivIs
<1> HIDE DEF q, r
<1>2. CASE r = 0
  <2>1. a + b - 1 \in Nat /\ a + b - 1 = q * b + (b - 1)
    BY <1>1, <1>2
  <2>2. (q + 1) * b = q * b + b
    BY <1>1
  <2>3. a + b \in Nat /\ a + b = (q + 1) * b + 0
    BY <1>1, <1>2, <2>2
  <2>4. (a + b - 1) \div b = q
    BY <1>1, <2>1, DivAtLeast
  <2>5. (a + b) \div b = q + 1
    BY <1>1, <2>3, DivAtLeast
  <2>6. Ceil(a, b) = q /\ Ceil(a + 1, b) = q + 1
    <3>1. a + 1 + b - 1 = a + b OBVIOUS
    <3>. QED BY <2>4, <2>5, <3>1 DEF Ceil
  <2>. QED BY <1>2, <2>6 DEF r
<1>3. CASE r # 0
  <2>2. (q + 1) * b = q * b + b
    BY <1>1
  <2>1. a + b - 1 \in Nat /\ a + b - 1 = (q + 1) * b + (r - 1)
    BY <1>1, <1>3, <2>2
  <2>3. a + b \in Nat /\ a + b = (q + 1) * b + r
    BY <1>1, <1>3, <2>2
  <2>4. (a + b - 1) \div b = q + 1
    BY <1>1, <1>3, <2>1, DivAtLeast
  <2>5. (a + b) \div b = q + 1
    BY <1>1, <2>3, DivAtLeast
  <2>6. Ceil(a, b) = q + 1 /\ Ceil(a + 1, b) = q + 1
    <3>1. a + 1 + b - 1 = a + b OBVIOUS
    <3>. QED BY <2>4, <2>5, <3>1 DEF Ceil
  <2>. QED BY <1>3, <2>6 DEF r
<1>. QED BY <1>2, <1>3 DEF r

(* A window sees at most what a window from zero of the same length sees.   *)
LEMMA CeilSplit ==
  ASSUME NEW x \in Nat, NEW y \in Nat, NEW b \in Nat, b > 0
  PROVE  Ceil(x + y, b) <= Ceil(x, b) + Ceil(y, b)
<1> DEFINE p == Ceil(x, b)
           q == Ceil(y, b)
<1>1. p \in Nat /\ q \in Nat /\ x <= p * b /\ y <= q * b
  BY CeilIs
<1> HIDE DEF p, q
<1>2. (p + q) * b = p * b + q * b
  BY <1>1
<1>3. x + y <= (p + q) * b /\ x + y \in Nat /\ p + q \in Int
  BY <1>1, <1>2
<1>. QED BY <1>3, CeilAtMost DEF p, q

(* Two multiples of the period are a period apart.                          *)
LEMMA ModGap ==
  ASSUME NEW a \in Nat, NEW x \in Nat, a < x, NEW b \in Nat, b > 0,
         a % b = 0, x % b = 0
  PROVE  a + b <= x
<1> DEFINE p == a \div b
           q == x \div b
<1>1. p \in Nat /\ q \in Nat /\ a = p * b /\ x = q * b
  BY DivIs
<1> HIDE DEF p, q
<1>2. p < q
  BY <1>1, LessTimes
<1>3. (p + 1) * b <= q * b /\ (p + 1) * b = p * b + b
  BY <1>1, <1>2
<1>. QED BY <1>1, <1>3

-----------------------------------------------------------------------------
(* Fixed points of an increasing function.                                  *)
Mono(N, d) == \A x, y \in 0..d : x <= y => N[x] <= N[y]

LEMMA LeastFixedPoint ==
  ASSUME NEW N \in [Nat -> Nat], NEW d \in Nat, Mono(N, d), NEW y \in 0..d, N[y] <= y
  PROVE  \E r \in 0..y : N[r] = r /\ \A z \in 0..d : N[z] <= z => r <= z
<1> DEFINE T == {z \in 0..d : N[z] <= z}
<1>0. T \subseteq Nat /\ T # {}
  BY SMT
<1>1. PICK r \in T : \A z \in T : r <= z
  <2> HIDE DEF T
  <2>. QED BY <1>0, LeastNumber
<1>2. N[r] \in 0..d /\ N[N[r]] <= N[r]
  BY <1>1 DEF Mono
<1>. QED BY <1>1, <1>2

LEMMA GreatestIn ==
  ASSUME NEW S, NEW d \in Nat, S \subseteq 0..d, S # {}
  PROVE  \E y \in S : \A z \in S : z <= y
<1> DEFINE T == {n \in 0..d : d - n \in S}
<1>1. T \subseteq Nat /\ T # {}
  <2>1. PICK y \in S : TRUE OBVIOUS
  <2>2. d - (d - y) = y /\ d - y \in 0..d BY <2>1
  <2>3. d - y \in T BY <2>1, <2>2
  <2>4. T \subseteq Nat OBVIOUS
  <2> HIDE DEF T
  <2>. QED BY <2>3, <2>4
<1>2. PICK n \in T : \A k \in T : n <= k
  BY <1>1, LeastNumber
<1>3. ASSUME NEW z \in S PROVE z <= d - n
  <2>1. d - (d - z) = z /\ d - z \in 0..d BY <1>3
  <2>2. d - z \in T BY <2>1
  <2>3. n <= d - z BY <1>2, <2>2
  <2>. QED BY <1>2, <2>1, <2>3
<1>. QED BY <1>2, <1>3

(* The iteration of response_time, from r, is defined.                      *)
Iteration(N, d, a) ==
  a = [r \in Nat |-> IF N[r] > d THEN Late ELSE IF N[r] = r THEN r ELSE a[N[r]]]

LEMMA IterationExists ==
  ASSUME NEW N \in [Nat -> Nat], NEW d \in Nat, Mono(N, d)
  PROVE  \E a : Iteration(N, d, a)
<1> DEFINE Above(r) == {y \in r..d : N[y] = y}
           Below(r) == {y \in 0..r : N[y] = y}
           LF(r) == IF Above(r) = {} THEN 0 ELSE CHOOSE y \in Above(r) : \A z \in Above(r) : y <= z
           GF(r) == CHOOSE y \in Below(r) : \A z \in Below(r) : z <= y
           B(r) == IF N[r] >= r THEN LF(r) ELSE GF(r)
<1>1. ASSUME NEW r \in 0..d, N[r] = r PROVE B(r) = r
  <2>1. r \in Above(r) /\ \A z \in Above(r) : r <= z
    BY <1>1
  <2>2. \A y \in Above(r) : (\A z \in Above(r) : y <= z) => y = r
    BY <2>1
  <2>3. LF(r) = r
    BY <2>1, <2>2
  <2>. QED BY <1>1, <2>3
<1>2. ASSUME NEW r \in 0..d, N[r] > r, N[r] > d PROVE B(r) = 0
  <2>1. Above(r) = {}
    BY <1>2 DEF Mono
  <2>. QED BY <1>2, <2>1
<1>3. ASSUME NEW r \in 0..d, N[r] > r, N[r] <= d PROVE B(r) = B(N[r])
  <2>1. N[r] \in 0..d /\ N[N[r]] >= N[r]
    BY <1>3 DEF Mono
  <2>2. Above(r) = Above(N[r])
    BY <1>3 DEF Mono
  <2> HIDE DEF Above
  <2>. QED BY <1>3, <2>1, <2>2
<1>4. ASSUME NEW r \in 0..d, N[r] < r PROVE B(r) = B(N[r])
  <2>1. N[r] \in 0..d /\ N[N[r]] <= N[r]
    BY <1>4 DEF Mono
  <2>2. Below(r) = Below(N[r])
    BY <1>4 DEF Mono
  <2>3. B(r) = GF(N[r])
    <3> HIDE DEF Below
    <3>. QED BY <1>4, <2>2
  <2>4. CASE N[N[r]] < N[r]
    <3> HIDE DEF GF, LF
    <3>. QED BY <2>1, <2>3, <2>4
  <2>5. CASE N[N[r]] = N[r]
    <3>1. N[r] \in Below(N[r]) /\ \A z \in Below(N[r]) : z <= N[r]
      BY <2>1, <2>5
    <3>2. \A y \in Below(N[r]) : (\A z \in Below(N[r]) : z <= y) => y = N[r]
      BY <2>1, <3>1
    <3>3. GF(N[r]) = N[r]
      BY <3>1, <3>2
    <3>4. B(N[r]) = N[r]
      BY <1>1, <2>1, <2>5
    <3>. QED BY <2>3, <3>3, <3>4
  <2>. QED BY <2>1, <2>4, <2>5
<1> HIDE DEF B
<1> DEFINE a == [r \in Nat |-> IF N[r] > d THEN 0 ELSE IF r <= d THEN B(r) ELSE B(N[r])]
           E(r) == IF N[r] > d THEN Late ELSE IF N[r] = r THEN r ELSE a[N[r]]
<1>5. ASSUME NEW r \in Nat PROVE a[r] = E(r)
  <2>1. CASE N[r] > d
    BY <2>1 DEF Late
  <2>2. CASE N[r] <= d
    <3>0. N[r] \in 0..d /\ N[r] \in Nat
      BY <2>2
    <3>1. a[N[r]] = B(N[r])
      <4>1. a[N[r]] = IF N[N[r]] > d THEN 0 ELSE B(N[r])
        BY <3>0
      <4>2. N[N[r]] > d => B(N[r]) = 0
        BY <1>2, <3>0
      <4>. QED BY <4>1, <4>2
    <3>2. a[r] = IF r <= d THEN B(r) ELSE B(N[r])
      BY <2>2
    <3>3. r <= d => r \in 0..d
      OBVIOUS
    <3> HIDE DEF a
    <3>4. CASE N[r] = r
      BY <1>1, <3>0, <3>2, <3>4
    <3>5. CASE N[r] # r
      BY <1>3, <1>4, <3>0, <3>1, <3>2, <3>3, <3>5
    <3>. QED BY <3>4, <3>5
  <2>. QED BY <2>1, <2>2
<1>6. a = [r \in Nat |-> E(r)]
  <2>1. a = [r \in Nat |-> a[r]]
    OBVIOUS
  <2> HIDE DEF a
  <2>. QED BY <1>5, <2>1
<1>. QED BY <1>6 DEF Iteration

(* ... and ends in the least fixed point from there, if there is one.       *)
LEMMA IterationEnds ==
  ASSUME NEW N \in [Nat -> Nat], NEW d \in Nat, Mono(N, d), NEW a, Iteration(N, d, a),
         NEW c \in 0..d, N[c] >= c
  PROVE  /\ (\A y \in c..d : N[y] # y) => a[c] = Late
         /\ \A r \in c..d : N[r] = r /\ (\A y \in c..d : N[y] = y => r <= y) => a[c] = r
<1> DEFINE T == {k \in Nat : \A r \in 0..d : d - r < k /\ N[r] >= r =>
                    /\ (\A y \in r..d : N[y] # y) => a[r] = Late
                    /\ \A x \in r..d : N[x] = x /\ (\A y \in r..d : N[y] = y => x <= y) => a[r] = x}
<1>0. \A r \in Nat : a[r] = IF N[r] > d THEN Late ELSE IF N[r] = r THEN r ELSE a[N[r]]
  <2> DEFINE E(r) == IF N[r] > d THEN Late ELSE IF N[r] = r THEN r ELSE a[N[r]]
  <2>1. a = [r \in Nat |-> E(r)]
    BY DEF Iteration
  <2> HIDE DEF E
  <2>2. \A r \in Nat : a[r] = E(r)
    BY <2>1
  <2>. QED BY <2>2 DEF E
<1>1. 0 \in T
  OBVIOUS
<1>2. ASSUME NEW n \in Nat, n \in T PROVE n + 1 \in T
  <2> SUFFICES ASSUME NEW r \in 0..d, d - r < n + 1, N[r] >= r
               PROVE  /\ (\A y \in r..d : N[y] # y) => a[r] = Late
                      /\ \A x \in r..d : N[x] = x /\ (\A y \in r..d : N[y] = y => x <= y) => a[r] = x
    OBVIOUS
  <2>1. a[r] = IF N[r] > d THEN Late ELSE IF N[r] = r THEN r ELSE a[N[r]]
    BY <1>0
  <2>2. CASE N[r] > d
    BY <2>1, <2>2 DEF Mono
  <2>3. CASE N[r] = r
    BY <2>1, <2>3
  <2>4. CASE N[r] > r /\ N[r] <= d
    <3> DEFINE q == N[r]
    <3>1. q \in 0..d /\ d - q < n /\ N[q] >= q
      BY <2>4 DEF Mono
    <3>2. a[r] = a[q]
      BY <2>1, <2>4
    <3>3. \A y \in r..d : N[y] = y => y \in q..d
      BY <2>4 DEF Mono
    <3>4. \A y \in q..d : y \in r..d
      BY <2>4
    <3>5. /\ (\A y \in q..d : N[y] # y) => a[q] = Late
          /\ \A x \in q..d : N[x] = x /\ (\A y \in q..d : N[y] = y => x <= y) => a[q] = x
      BY <1>2, <3>1
    <3> HIDE DEF q
    <3>. QED BY <3>2, <3>3, <3>4, <3>5
  <2>. QED BY <2>2, <2>3, <2>4
<1> HIDE DEF T
<1>3. d + 1 \in T
  BY <1>1, <1>2, CountingUp
<1>4. d - c < d + 1
  OBVIOUS
<1>. QED BY <1>3, <1>4 DEF T

-----------------------------------------------------------------------------
(* Task sets and priorities.                                                *)
LEMMA TaskFacts ==
  ASSUME NEW tasks, IsTaskSet(tasks)
  PROVE  /\ IsFiniteSet(DOMAIN tasks)
         /\ \A i \in DOMAIN tasks :
              /\ tasks[i].c \in Nat /\ tasks[i].t \in Nat /\ tasks[i].d \in Nat
              /\ 0 < tasks[i].c /\ 0 < tasks[i].d /\ 0 < tasks[i].t /\ tasks[i].d <= tasks[i].t
              /\ i \in Nat
              /\ \A k \in DOMAIN tasks : tasks[i].d + tasks[k].t <= Word
<1>1. tasks \in Seq(Task)
  BY DEF IsTaskSet
<1>2. DOMAIN tasks = 1..Len(tasks) /\ Len(tasks) \in Nat
  BY <1>1
<1>3. IsFiniteSet(DOMAIN tasks)
  BY <1>2, FS_Interval
<1>4. ASSUME NEW i \in DOMAIN tasks
      PROVE  tasks[i].c \in Nat /\ tasks[i].t \in Nat /\ tasks[i].d \in Nat /\ i \in Nat
  <2>1. tasks[i] \in Task
    BY <1>1
  <2>. QED BY <2>1, <1>2 DEF Task
<1>. QED BY <1>3, <1>4 DEF IsTaskSet

Policies == {"RM", "DM"}

LEMMA HigherFacts ==
  ASSUME NEW tasks, IsTaskSet(tasks), NEW policy \in Policies, NEW i \in DOMAIN tasks
  PROVE  LET hp == Higher(tasks, policy, i)
         IN  /\ hp \subseteq DOMAIN tasks /\ IsFiniteSet(hp) /\ i \notin hp
             /\ \A j \in DOMAIN tasks : j \in hp \/ j = i \/ i \in Higher(tasks, policy, j)
             /\ \A j \in hp : Higher(tasks, policy, j) \subseteq hp
<1> DEFINE key(k) == Key(tasks[k], policy)
<1>1. \A k \in DOMAIN tasks : key(k) \in Nat /\ k \in Nat
  BY TaskFacts DEF Key, Policies
<1>2. \A k : Higher(tasks, policy, k) \subseteq DOMAIN tasks
  BY DEF Higher
<1>7. ASSUME NEW j \in DOMAIN tasks, NEW k \in DOMAIN tasks
      PROVE  j \in Higher(tasks, policy, k) <=> \/ key(j) < key(k)
                                                \/ key(j) = key(k) /\ j < k
  BY Zenon DEF Higher
<1> HIDE DEF key
<1>3. Higher(tasks, policy, i) \subseteq DOMAIN tasks /\ IsFiniteSet(Higher(tasks, policy, i))
  BY <1>2, TaskFacts, FS_Subset
<1>4. i \notin Higher(tasks, policy, i)
  BY <1>1, <1>7
<1>5. ASSUME NEW j \in DOMAIN tasks
      PROVE  j \in Higher(tasks, policy, i) \/ j = i \/ i \in Higher(tasks, policy, j)
  <2>1. key(i) \in Nat /\ key(j) \in Nat /\ i \in Nat /\ j \in Nat
    BY <1>1
  <2>2. key(j) < key(i) \/ key(i) < key(j) \/ (key(j) = key(i) /\ (j < i \/ i < j \/ j = i))
    BY <2>1
  <2>. QED BY <1>7, <2>2
<1>6. ASSUME NEW j \in Higher(tasks, policy, i), NEW k \in Higher(tasks, policy, j)
      PROVE  k \in Higher(tasks, policy, i)
  <2>1. j \in DOMAIN tasks /\ k \in DOMAIN tasks
    BY <1>2
  <2>2. /\ key(j) < key(i) \/ (key(j) = key(i) /\ j < i)
        /\ key(k) < key(j) \/ (key(k) = key(j) /\ k < j)
    BY <1>7, <2>1
  <2>3. key(i) \in Nat /\ key(j) \in Nat /\ key(k) \in Nat /\ i \in Nat /\ j \in Nat /\ k \in Nat
    BY <1>1, <2>1
  <2>4. key(k) < key(i) \/ (key(k) = key(i) /\ k < i)
    BY <2>2, <2>3
  <2>. QED BY <1>7, <2>1, <2>4
<1>. QED BY <1>3, <1>4, <1>5, <1>6

-----------------------------------------------------------------------------
(* The execution that task i may wait for in a window of x, its own         *)
(* included: the right-hand side of the recurrence, in the integers.        *)
Demand(tasks, S, x) == Sum([k \in S |-> Ceil(x, tasks[k].t) * tasks[k].c])
Level(tasks, policy, i, x) == tasks[i].c + Demand(tasks, Higher(tasks, policy, i), x)

LEMMA DemandFacts ==
  ASSUME NEW tasks, IsTaskSet(tasks), NEW S \in SUBSET DOMAIN tasks, NEW x \in Nat
  PROVE  /\ IsFiniteSet(S)
         /\ [k \in S |-> Ceil(x, tasks[k].t) * tasks[k].c] \in [S -> Nat]
         /\ Demand(tasks, S, x) \in Nat
         /\ \A k \in S : Ceil(x, tasks[k].t) * tasks[k].c <= Demand(tasks, S, x)
<1>1. IsFiniteSet(S)
  BY TaskFacts, FS_Subset
<1>2. ASSUME NEW k \in S PROVE Ceil(x, tasks[k].t) * tasks[k].c \in Nat
  <2>1. k \in DOMAIN tasks OBVIOUS
  <2>2. tasks[k].c \in Nat /\ tasks[k].t \in Nat /\ 0 < tasks[k].t
    BY <2>1, TaskFacts
  <2>3. Ceil(x, tasks[k].t) \in Nat
    BY <2>2, CeilIs
  <2>. QED BY <2>2, <2>3
<1> DEFINE f == [k \in S |-> Ceil(x, tasks[k].t) * tasks[k].c]
<1>3. f \in [S -> Nat] /\ \A k \in S : f[k] = Ceil(x, tasks[k].t) * tasks[k].c
  BY <1>2
<1> HIDE DEF f
<1>4. Sum(f) \in Nat /\ \A k \in S : f[k] <= Sum(f)
  BY <1>1, <1>3, SumNat
<1>5. Demand(tasks, S, x) = Sum(f)
  BY DEF Demand, f
<1>. QED BY <1>1, <1>3, <1>4, <1>5 DEF f

LEMMA DemandMono ==
  ASSUME NEW tasks, IsTaskSet(tasks), NEW S \in SUBSET DOMAIN tasks,
         NEW x \in Nat, NEW y \in Nat, x <= y
  PROVE  Demand(tasks, S, x) <= Demand(tasks, S, y)
<1> DEFINE f(z) == [k \in S |-> Ceil(z, tasks[k].t) * tasks[k].c]
<1>1. IsFiniteSet(S) /\ f(x) \in [S -> Nat] /\ f(y) \in [S -> Nat]
  BY DemandFacts
<1>2. ASSUME NEW k \in S PROVE f(x)[k] <= f(y)[k]
  <2>1. k \in DOMAIN tasks OBVIOUS
  <2>2. tasks[k].c \in Nat /\ tasks[k].t \in Nat /\ 0 < tasks[k].t
    BY <2>1, TaskFacts
  <2>3. Ceil(x, tasks[k].t) <= Ceil(y, tasks[k].t)
    BY <2>2, CeilMono
  <2>4. Ceil(x, tasks[k].t) \in Nat /\ Ceil(y, tasks[k].t) \in Nat
    BY <2>2, CeilIs
  <2>5. Ceil(x, tasks[k].t) * tasks[k].c <= Ceil(y, tasks[k].t) * tasks[k].c
    BY <2>2, <2>3, <2>4, Times
  <2>. QED BY <2>5
<1> DEFINE p == f(x)
           q == f(y)
<1>3. p \in [S -> Int] /\ q \in [S -> Int] /\ \A k \in S : p[k] <= q[k]
  BY <1>1, <1>2
<1>4. Demand(tasks, S, x) = Sum(p) /\ Demand(tasks, S, y) = Sum(q)
  BY DEF Demand
<1> HIDE DEF p, q
<1>. QED BY <1>1, <1>3, <1>4, SumLe

LEMMA LevelFacts ==
  ASSUME NEW tasks, IsTaskSet(tasks), NEW policy \in Policies, NEW i \in DOMAIN tasks
  PROVE  /\ \A x \in Nat : Level(tasks, policy, i, x) \in Nat /\ Level(tasks, policy, i, x) >= tasks[i].c
         /\ \A x, y \in Nat : x <= y => Level(tasks, policy, i, x) <= Level(tasks, policy, i, y)
<1> DEFINE hp == Higher(tasks, policy, i)
<1>1. hp \in SUBSET DOMAIN tasks
  BY HigherFacts
<1> HIDE DEF hp
<1>2. \A x \in Nat : Level(tasks, policy, i, x) = tasks[i].c + Demand(tasks, hp, x)
  BY DEF Level, hp
<1>3. \A x \in Nat : Demand(tasks, hp, x) \in Nat
  BY <1>1, DemandFacts
<1>4. \A x, y \in Nat : x <= y => Demand(tasks, hp, x) <= Demand(tasks, hp, y)
  BY <1>1, DemandMono
<1>5. tasks[i].c \in Nat
  BY TaskFacts
<1>6. ASSUME NEW x \in Nat
      PROVE  Level(tasks, policy, i, x) \in Nat /\ Level(tasks, policy, i, x) >= tasks[i].c
  BY <1>2, <1>3, <1>5
<1>7. ASSUME NEW x \in Nat, NEW y \in Nat, x <= y
      PROVE  Level(tasks, policy, i, x) <= Level(tasks, policy, i, y)
  <2>1. Demand(tasks, hp, x) <= Demand(tasks, hp, y) /\ Demand(tasks, hp, x) \in Nat /\ Demand(tasks, hp, y) \in Nat
    BY <1>3, <1>4, <1>7
  <2>. QED BY <1>2, <1>5, <2>1
<1>. QED BY <1>6, <1>7

(* In machine words the recurrence is the same up to the deadline, and      *)
(* never below the execution time.                                          *)
LEMMA RecurFacts ==
  ASSUME NEW tasks, IsTaskSet(tasks), NEW policy \in Policies, NEW i \in DOMAIN tasks,
         NEW r \in Nat
  PROVE  LET hp == Restrict(tasks, Higher(tasks, policy, i))
         IN  /\ Recur(tasks[i].c, hp, r) \in Nat
             /\ Recur(tasks[i].c, hp, r) >= tasks[i].c
             /\ r <= tasks[i].d => Recur(tasks[i].c, hp, r) = Level(tasks, policy, i, r)
<1> DEFINE S == Higher(tasks, policy, i)
           hp == Restrict(tasks, S)
           f == [k \in DOMAIN hp |-> div_ceil(r, hp[k].t) * hp[k].c]
           g == [k \in S |-> Ceil(r, tasks[k].t) * tasks[k].c]
<1>1. S \in SUBSET DOMAIN tasks /\ IsFiniteSet(S)
  BY HigherFacts
<1> HIDE DEF S
<1>2. DOMAIN hp = S /\ \A k \in S : hp[k] = tasks[k]
  BY DEF Restrict
<1> HIDE DEF hp
<1>3. ASSUME NEW k \in S
      PROVE  /\ f[k] \in Nat
             /\ r <= tasks[i].d => f[k] = g[k]
  <2>1. k \in DOMAIN tasks BY <1>1
  <2>2. /\ tasks[k].c \in Nat /\ tasks[k].t \in Nat /\ 0 < tasks[k].t
        /\ tasks[i].d \in Nat /\ tasks[i].d + tasks[k].t <= Word
    BY <2>1, TaskFacts
  <2>3. f[k] = div_ceil(r, tasks[k].t) * tasks[k].c /\ g[k] = Ceil(r, tasks[k].t) * tasks[k].c
    BY <1>2
  <2> DEFINE b == tasks[k].t
             m == (r + b - 1) % Word
  <2>4. b \in Nat /\ 0 < b /\ r + b - 1 \in Nat /\ Word \in Nat /\ Word > 0
    BY <2>2, RtAssumption
  <2>5. m \in Nat /\ (r + b - 1 < Word => m = r + b - 1)
    <3> HIDE DEF b
    <3>1. r + b - 1 < Word => r + b - 1 = 0 * Word + (r + b - 1)
      BY <2>4
    <3>. QED BY <2>4, <3>1, DivIs, DivAtLeast
  <2>6. div_ceil(r, b) = m \div b /\ Ceil(r, b) = (r + b - 1) \div b
    BY DEF div_ceil, Ceil
  <2>7. m \div b \in Nat
    <3> HIDE DEF m, b
    <3>. QED BY <2>4, <2>5, DivIs
  <2>8. r <= tasks[i].d => r + b - 1 < Word
    BY <2>2, <2>4
  <2> HIDE DEF m
  <2>9. r <= tasks[i].d => div_ceil(r, b) = Ceil(r, b)
    BY <2>5, <2>6, <2>8
  <2>10. div_ceil(r, b) \in Nat
    BY <2>6, <2>7
  <2> HIDE DEF f, g
  <2>. QED BY <2>2, <2>3, <2>9, <2>10
<1>4. f = [k \in S |-> f[k]] /\ g = [k \in S |-> g[k]]
  BY <1>2
<1>5. Recur(tasks[i].c, hp, r) = tasks[i].c + Sum(f)
  BY DEF Recur
<1>6. Level(tasks, policy, i, r) = tasks[i].c + Sum(g)
  BY DEF Level, Demand, S
<1> HIDE DEF f, g
<1>7. f \in [S -> Nat]
  BY <1>3, <1>4
<1>8. Sum(f) \in Nat
  BY <1>1, <1>7, SumNat
<1>9. r <= tasks[i].d => f = g
  BY <1>3, <1>4
<1>10. tasks[i].c \in Nat
  BY TaskFacts
<1>. QED BY <1>5, <1>6, <1>8, <1>9, <1>10 DEF hp, S

(* response_time is None, or the least fixed point up to the deadline.      *)
At(c, d, hp) ==
  CHOOSE at : at = [r \in Nat |-> IF Recur(c, hp, r) > d THEN Late
                                  ELSE IF Recur(c, hp, r) = r THEN r ELSE at[Recur(c, hp, r)]]

LEMMA ResponseIsAt == ASSUME NEW c, NEW d, NEW hp PROVE response_time(c, d, hp) = At(c, d, hp)[c]
BY Zenon DEF response_time, At

LEMMA ResponseTime ==
  ASSUME NEW tasks, IsTaskSet(tasks), NEW policy \in Policies, NEW i \in DOMAIN tasks
  PROVE  /\ (\A y \in tasks[i].c..tasks[i].d : Level(tasks, policy, i, y) # y)
              => wcrt(tasks, policy, i) = Late
         /\ \A r \in tasks[i].c..tasks[i].d :
              /\ Level(tasks, policy, i, r) = r
              /\ \A y \in tasks[i].c..tasks[i].d : Level(tasks, policy, i, y) = y => r <= y
              => wcrt(tasks, policy, i) = r
<1> DEFINE c == tasks[i].c
           d == tasks[i].d
           hp == Restrict(tasks, Higher(tasks, policy, i))
           L(r) == Level(tasks, policy, i, r)
           N == [r \in Nat |-> Recur(c, hp, r)]
           a == At(c, d, hp)
<1>1. c \in Nat /\ d \in Nat /\ c > 0
  BY TaskFacts
<1>2. \A r \in Nat : /\ Recur(c, hp, r) \in Nat /\ Recur(c, hp, r) >= c
                     /\ r <= d => Recur(c, hp, r) = L(r)
  BY RecurFacts
<1>3. \A x, y \in Nat : x <= y => L(x) <= L(y)
  BY LevelFacts
<1>4. wcrt(tasks, policy, i) = a[c]
  BY ResponseIsAt DEF wcrt
<1>10. a = CHOOSE at : at = [r \in Nat |-> IF Recur(c, hp, r) > d THEN Late
                                  ELSE IF Recur(c, hp, r) = r THEN r ELSE at[Recur(c, hp, r)]]
  BY DEF At
<1> HIDE DEF c, d, hp, L, a
<1>5. N \in [Nat -> Nat] /\ \A r \in Nat : N[r] = Recur(c, hp, r)
  BY <1>2
<1>6. \A at : Iteration(N, d, at) <=>
        at = [r \in Nat |-> IF Recur(c, hp, r) > d THEN Late
                             ELSE IF Recur(c, hp, r) = r THEN r ELSE at[Recur(c, hp, r)]]
  BY DEF Iteration
<1> HIDE DEF N
<1>7. Mono(N, d)
  BY <1>1, <1>2, <1>3, <1>5 DEF Mono
<1>8. Iteration(N, d, a)
  <2>1. \E at : Iteration(N, d, at)
    BY <1>1, <1>5, <1>7, IterationExists
  <2>. QED BY <1>6, <1>10, <2>1
<1>9. CASE c > d
  <2>1. a[c] = Late
    <3> DEFINE E(r) == IF N[r] > d THEN Late ELSE IF N[r] = r THEN r ELSE a[N[r]]
    <3>1. a = [r \in Nat |-> E(r)]
      BY <1>8 DEF Iteration
    <3> HIDE DEF E
    <3>2. a[c] = E(c)
      BY <1>1, <3>1
    <3>3. N[c] > d
      BY <1>1, <1>2, <1>5, <1>9
    <3>. QED BY <3>2, <3>3 DEF E
  <2>. QED BY <1>1, <1>4, <1>9, <2>1 DEF c, d
<1>11. CASE c <= d
  <2>1. c \in 0..d /\ N[c] >= c
    BY <1>1, <1>2, <1>5, <1>11
  <2>2. \A y \in c..d : N[y] = L(y)
    BY <1>1, <1>2, <1>5
  <2>3. /\ (\A y \in c..d : N[y] # y) => a[c] = Late
        /\ \A r \in c..d : N[r] = r /\ (\A y \in c..d : N[y] = y => r <= y) => a[c] = r
    BY <1>1, <1>5, <1>7, <1>8, <2>1, IterationEnds
  <2>4. /\ (\A y \in c..d : L(y) # y) => a[c] = Late
        /\ \A r \in c..d : L(r) = r /\ (\A y \in c..d : L(y) = y => r <= y) => a[c] = r
    BY <2>2, <2>3
  <2>. QED BY <1>4, <2>4 DEF c, d, L
<1>. QED BY <1>1, <1>9, <1>11

LEMMA Response ==
  ASSUME NEW tasks, IsTaskSet(tasks), NEW policy \in Policies, NEW i \in DOMAIN tasks
  PROVE  LET w == wcrt(tasks, policy, i)
             d == tasks[i].d
         IN  /\ w # Late => /\ w \in 1..d
                            /\ Level(tasks, policy, i, w) = w
                            /\ \A y \in 0..(w - 1) : Level(tasks, policy, i, y) > y
             /\ \A y \in 0..d : Level(tasks, policy, i, y) <= y => w # Late /\ w <= y
<1> DEFINE c == tasks[i].c
           d == tasks[i].d
           L(r) == Level(tasks, policy, i, r)
           w == wcrt(tasks, policy, i)
           T == {r \in c..d : L(r) = r}
           N == [r \in Nat |-> L(r)]
<1>1. c \in Nat /\ d \in Nat /\ c > 0
  BY TaskFacts
<1>2. /\ \A x \in Nat : L(x) \in Nat /\ L(x) >= c
      /\ \A x, y \in Nat : x <= y => L(x) <= L(y)
  BY LevelFacts
<1>3. /\ (\A y \in c..d : L(y) # y) => w = Late
      /\ \A r \in c..d : L(r) = r /\ (\A y \in c..d : L(y) = y => r <= y) => w = r
  BY ResponseTime
<1> HIDE DEF c, d, L, w
<1>4. N \in [Nat -> Nat] /\ (\A r \in Nat : N[r] = L(r)) /\ Mono(N, d)
  BY <1>1, <1>2 DEF Mono
<1> HIDE DEF N
<1>5. ASSUME NEW y \in 0..d, L(y) <= y
      PROVE  \E r \in T : r <= y
  <2>1. N[y] <= y
    BY <1>4, <1>5
  <2>2. PICK r \in 0..y : N[r] = r
    BY <1>1, <1>4, <2>1, LeastFixedPoint
  <2>3. r \in Nat /\ r <= d /\ L(r) = r /\ r >= c
    BY <1>1, <1>2, <1>4, <2>2
  <2>4. r \in T
    BY <1>1, <2>3
  <2>. QED BY <2>2, <2>4
<1>6. CASE T = {}
  <2>1. w = Late
    BY <1>3, <1>6
  <2>. QED BY <1>5, <1>6, <2>1 DEF d, L, w
<1>7. CASE T # {}
  <2>1. PICK r \in T : \A y \in T : r <= y
    <3>1. T \subseteq Nat BY <1>1
    <3> HIDE DEF T
    <3>. QED BY <1>7, <3>1, LeastNumber
  <2>2. r \in c..d /\ L(r) = r /\ (\A y \in c..d : L(y) = y => r <= y)
    BY <2>1
  <2>3. w = r
    BY <1>3, <2>2
  <2>4. r \in 1..d /\ r # Late
    BY <1>1, <2>2 DEF Late
  <2> HIDE DEF T
  <2>5. \A y \in 0..d : L(y) <= y => r <= y
    <3>1. T \subseteq Nat BY <1>1 DEF T
    <3>. QED BY <1>5, <2>1, <2>4, <3>1
  <2>6. \A y \in 0..(r - 1) : L(y) > y
    BY <1>1, <1>2, <2>4, <2>5
  <2>. QED BY <2>2, <2>3, <2>4, <2>5, <2>6 DEF d, L, w
<1>. QED BY <1>6, <1>7

(* The recurrence in machine words, as the run states it.                   *)
LEMMA RtaExact ==
  ASSUME NEW tasks, IsTaskSet(tasks), NEW policy \in Policies, NEW i \in DOMAIN tasks
  PROVE  LET hp == Higher(tasks, policy, i)
             fixed == {r \in tasks[i].c..tasks[i].d :
                         r = tasks[i].c + Sum([j \in hp |-> Ceil(r, tasks[j].t) * tasks[j].c])}
         IN  wcrt(tasks, policy, i) = IF fixed = {} THEN Late ELSE Min(fixed)
<1> DEFINE c == tasks[i].c
           d == tasks[i].d
           L(r) == Level(tasks, policy, i, r)
           w == wcrt(tasks, policy, i)
           T == {r \in c..d : r = L(r)}
<1>1. c \in Nat /\ d \in Nat /\ c > 0 /\ T \subseteq Nat
  BY TaskFacts
<1>2. /\ (\A y \in c..d : L(y) # y) => w = Late
      /\ \A r \in c..d : L(r) = r /\ (\A y \in c..d : L(y) = y => r <= y) => w = r
  BY ResponseTime
<1>3. \A r : L(r) = tasks[i].c + Sum([j \in Higher(tasks, policy, i) |-> Ceil(r, tasks[j].t) * tasks[j].c])
  BY DEF Level, Demand
<1>4. SUFFICES w = IF T = {} THEN Late ELSE Min(T)
  BY <1>3
<1> HIDE DEF c, d, L, w
<1>5. CASE T = {}
  BY <1>2, <1>5
<1>6. CASE T # {}
  <2>1. PICK r \in T : \A y \in T : r <= y
    <3> HIDE DEF T
    <3>. QED BY <1>1, <1>6, LeastNumber
  <2>2. r \in c..d /\ L(r) = r /\ (\A y \in c..d : L(y) = y => r <= y)
    BY <2>1
  <2>3. w = r
    BY <1>2, <2>2
  <2>4. Min(T) = r
    <3> HIDE DEF T
    <3>1. \A y \in T : (\A z \in T : y <= z) => y = r
      BY <1>1, <2>1
    <3>. QED BY <2>1, <3>1 DEF Min
  <2>. QED BY <1>6, <2>3, <2>4
<1>. QED BY <1>5, <1>6

-----------------------------------------------------------------------------
(* Work: what is left of the jobs of some tasks, what they released in a    *)
(* window, and what they release at an instant.                             *)
LeftIn(S, rem, act) == Sum([k \in S |-> IF act[k] THEN rem[k] ELSE 0])
ArrivedIn(tasks, S, s, x) ==
  Sum([k \in S |-> (Ceil(x, tasks[k].t) - Ceil(s, tasks[k].t)) * tasks[k].c])
DueIn(tasks, S, n) == Sum([k \in S |-> IF n % tasks[k].t = 0 THEN tasks[k].c ELSE 0])

LEMMA LeftFacts ==
  ASSUME NEW S, IsFiniteSet(S), NEW rem, NEW act, \A k \in S : rem[k] \in Nat
  PROVE  /\ [k \in S |-> IF act[k] THEN rem[k] ELSE 0] \in [S -> Nat]
         /\ LeftIn(S, rem, act) \in Nat
         /\ \A k \in S : act[k] => rem[k] <= LeftIn(S, rem, act)
         /\ (\A k \in S : ~(act[k] /\ rem[k] > 0)) => LeftIn(S, rem, act) = 0
<1> DEFINE f == [k \in S |-> IF act[k] THEN rem[k] ELSE 0]
<1>1. f \in [S -> Nat] /\ f \in [S -> Int] /\ (\A k \in S : f[k] = IF act[k] THEN rem[k] ELSE 0)
  OBVIOUS
<1>2. LeftIn(S, rem, act) = Sum(f)
  BY DEF LeftIn
<1> HIDE DEF f
<1>3. Sum(f) \in Nat /\ \A k \in S : f[k] <= Sum(f)
  BY <1>1, SumNat
<1>4. (\A k \in S : f[k] = 0) => Sum(f) = 0
  BY <1>1, SumZero
<1>. QED BY <1>1, <1>2, <1>3, <1>4 DEF f

LEMMA LeftLe ==
  ASSUME NEW S, IsFiniteSet(S), NEW rem, NEW act, \A k \in S : rem[k] \in Nat,
         NEW rem2, NEW act2, \A k \in S : rem2[k] \in Nat,
         \A k \in S : act2[k] => act[k] /\ rem2[k] <= rem[k]
  PROVE  LeftIn(S, rem2, act2) <= LeftIn(S, rem, act)
<1> DEFINE f == [k \in S |-> IF act[k] THEN rem[k] ELSE 0]
           g == [k \in S |-> IF act2[k] THEN rem2[k] ELSE 0]
<1>1. f \in [S -> Int] /\ g \in [S -> Int] /\ \A k \in S : g[k] <= f[k]
  OBVIOUS
<1>2. LeftIn(S, rem, act) = Sum(f) /\ LeftIn(S, rem2, act2) = Sum(g)
  BY DEF LeftIn
<1> HIDE DEF f, g
<1>. QED BY <1>1, <1>2, SumLe

LEMMA LeftRun ==
  ASSUME NEW S, IsFiniteSet(S), NEW rem, NEW act, \A k \in S : rem[k] \in Nat,
         NEW rem2, NEW act2, NEW j \in S, act[j], rem[j] > 0,
         rem2[j] = rem[j] - 1, act2[j] <=> rem[j] > 1,
         \A k \in S \ {j} : act2[k] = act[k] /\ rem2[k] = rem[k]
  PROVE  LeftIn(S, rem2, act2) = LeftIn(S, rem, act) - 1
<1> DEFINE f == [k \in S |-> IF act[k] THEN rem[k] ELSE 0]
           g == [k \in S |-> IF act2[k] THEN rem2[k] ELSE 0]
           R == S \ {j}
           f1 == [k \in R |-> f[k]]
           g1 == [k \in R |-> g[k]]
<1>0. rem[j] \in Nat /\ (rem[j] > 1 \/ rem[j] = 1)
  OBVIOUS
<1>1. f \in [S -> Int] /\ f[j] = rem[j]
  OBVIOUS
<1>2. g[j] = rem[j] - 1
  BY <1>0
<1>3. \A k \in R : g[k] = f[k]
  OBVIOUS
<1>4. g \in [S -> Int]
  <2>1. ASSUME NEW k \in S PROVE g[k] \in Int
    BY <1>0, <1>1, <1>2, <1>3
  <2>. QED BY <2>1
<1>5. f1 = g1
  BY <1>3
<1>6. LeftIn(S, rem, act) = Sum(f) /\ LeftIn(S, rem2, act2) = Sum(g)
  BY DEF LeftIn
<1> HIDE DEF f, g
<1>7. IsFiniteSet(R) /\ f1 \in [R -> Int]
  BY <1>1, FS_Subset
<1>8. Sum(f) = f[j] + Sum(f1)
  BY <1>1, SumWithout
<1>9. Sum(g) = g[j] + Sum(g1)
  BY <1>4, SumWithout
<1> HIDE DEF R, f1, g1
<1>10. Sum(f1) \in Int
  BY <1>7, SumIsInt
<1>. QED BY <1>0, <1>1, <1>2, <1>5, <1>6, <1>8, <1>9, <1>10

LEMMA LeftSame ==
  ASSUME NEW S, NEW rem, NEW act, NEW rem2, NEW act2,
         \A k \in S : act2[k] = act[k] /\ rem2[k] = rem[k]
  PROVE  LeftIn(S, rem2, act2) = LeftIn(S, rem, act)
<1>1. [k \in S |-> IF act2[k] THEN rem2[k] ELSE 0] = [k \in S |-> IF act[k] THEN rem[k] ELSE 0]
  OBVIOUS
<1>. QED BY <1>1 DEF LeftIn

LEMMA DueFacts ==
  ASSUME NEW tasks, IsTaskSet(tasks), NEW S \in SUBSET DOMAIN tasks, NEW n \in Nat
  PROVE  /\ [k \in S |-> IF n % tasks[k].t = 0 THEN tasks[k].c ELSE 0] \in [S -> Nat]
         /\ DueIn(tasks, S, n) \in Nat
<1> DEFINE f == [k \in S |-> IF n % tasks[k].t = 0 THEN tasks[k].c ELSE 0]
<1>1. \A k \in S : tasks[k].c \in Nat
  BY TaskFacts
<1>2. f \in [S -> Nat] /\ IsFiniteSet(S)
  BY <1>1, TaskFacts, FS_Subset
<1> HIDE DEF f
<1>3. Sum(f) \in Nat
  BY <1>2, SumNat
<1>. QED BY <1>2, <1>3 DEF DueIn, f

(* A release adds at most an execution time, and exactly one when every job *)
(* takes its worst case and finds none of its task still there.             *)
LEMMA LeftDue ==
  ASSUME NEW tasks, IsTaskSet(tasks), NEW S \in SUBSET DOMAIN tasks, NEW n \in Nat,
         NEW rem, NEW act, \A k \in S : rem[k] \in Nat,
         NEW rem2, NEW act2, \A k \in S : rem2[k] \in Nat,
         \A k \in S : IF n % tasks[k].t = 0
                      THEN act2[k] /\ rem2[k] <= tasks[k].c
                      ELSE act2[k] = act[k] /\ rem2[k] = rem[k]
  PROVE  /\ LeftIn(S, rem2, act2) <= LeftIn(S, rem, act) + DueIn(tasks, S, n)
         /\ (\A k \in S : n % tasks[k].t = 0 => ~act[k] /\ rem2[k] = tasks[k].c)
            => LeftIn(S, rem2, act2) = LeftIn(S, rem, act) + DueIn(tasks, S, n)
<1> DEFINE f == [k \in S |-> IF act[k] THEN rem[k] ELSE 0]
           g == [k \in S |-> IF act2[k] THEN rem2[k] ELSE 0]
           e == [k \in S |-> IF n % tasks[k].t = 0 THEN tasks[k].c ELSE 0]
           h == [k \in S |-> f[k] + e[k]]
<1>0. IsFiniteSet(S) /\ \A k \in S : tasks[k].c \in Nat
  BY TaskFacts, FS_Subset
<1>1. f \in [S -> Nat] /\ g \in [S -> Nat] /\ e \in [S -> Nat]
  BY <1>0
<1>2. \A k \in S : g[k] <= f[k] + e[k]
  <2> SUFFICES ASSUME NEW k \in S PROVE g[k] <= f[k] + e[k]
    OBVIOUS
  <2>1. rem[k] \in Nat /\ rem2[k] \in Nat /\ tasks[k].c \in Nat
    BY <1>0
  <2>2. CASE n % tasks[k].t = 0
    BY <2>1, <2>2
  <2>3. CASE n % tasks[k].t # 0
    BY <2>1, <2>3
  <2>. QED BY <2>2, <2>3
<1>3. ASSUME \A k \in S : n % tasks[k].t = 0 => ~act[k] /\ rem2[k] = tasks[k].c
      PROVE  \A k \in S : g[k] = f[k] + e[k]
  <2> SUFFICES ASSUME NEW k \in S PROVE g[k] = f[k] + e[k]
    OBVIOUS
  <2>1. rem[k] \in Nat /\ rem2[k] \in Nat /\ tasks[k].c \in Nat
    BY <1>0
  <2>2. CASE n % tasks[k].t = 0
    BY <1>3, <2>1, <2>2
  <2>3. CASE n % tasks[k].t # 0
    BY <2>1, <2>3
  <2>. QED BY <2>2, <2>3
<1>4. LeftIn(S, rem, act) = Sum(f) /\ LeftIn(S, rem2, act2) = Sum(g) /\ DueIn(tasks, S, n) = Sum(e)
  BY DEF LeftIn, DueIn
<1> HIDE DEF f, g, e
<1>5. f \in [S -> Int] /\ g \in [S -> Int] /\ e \in [S -> Int] /\ h \in [S -> Int]
      /\ \A k \in S : h[k] = f[k] + e[k]
  BY <1>1
<1> HIDE DEF h
<1>6. Sum(h) = Sum(f) + Sum(e)
  BY <1>0, <1>5, SumAdd
<1>7. Sum(g) <= Sum(h)
  BY <1>0, <1>2, <1>5, SumLe
<1>8. (\A k \in S : g[k] = f[k] + e[k]) => g = h
  BY <1>5
<1>. QED BY <1>3, <1>4, <1>6, <1>7, <1>8

LEMMA ArrivedFacts ==
  ASSUME NEW tasks, IsTaskSet(tasks), NEW S \in SUBSET DOMAIN tasks, NEW s \in Nat, NEW x \in Nat
  PROVE  /\ [k \in S |-> (Ceil(x, tasks[k].t) - Ceil(s, tasks[k].t)) * tasks[k].c] \in [S -> Int]
         /\ ArrivedIn(tasks, S, s, x) \in Int
         /\ ArrivedIn(tasks, S, s, s) = 0
         /\ ArrivedIn(tasks, S, s, x + 1) = ArrivedIn(tasks, S, s, x) + DueIn(tasks, S, x)
         /\ ArrivedIn(tasks, S, s, s + x) <= Demand(tasks, S, x)
         /\ Demand(tasks, S, x) = ArrivedIn(tasks, S, 0, x)
<1>0. /\ IsFiniteSet(S)
      /\ \A k \in S : tasks[k].c \in Nat /\ tasks[k].t \in Nat /\ tasks[k].t > 0
  BY TaskFacts, FS_Subset
<1> DEFINE f(p, q) == [k \in S |-> (Ceil(q, tasks[k].t) - Ceil(p, tasks[k].t)) * tasks[k].c]
           e == [k \in S |-> IF x % tasks[k].t = 0 THEN tasks[k].c ELSE 0]
           g == [k \in S |-> Ceil(x, tasks[k].t) * tasks[k].c]
<1>1. ASSUME NEW p \in Nat, NEW q \in Nat
      PROVE  f(p, q) \in [S -> Int] /\ Sum(f(p, q)) \in Int
  <2>1. ASSUME NEW k \in S PROVE (Ceil(q, tasks[k].t) - Ceil(p, tasks[k].t)) * tasks[k].c \in Int
    <3>1. Ceil(q, tasks[k].t) \in Nat /\ Ceil(p, tasks[k].t) \in Nat
      BY <1>0, CeilIs
    <3>. QED BY <1>0, <3>1
  <2> DEFINE h == f(p, q)
  <2>2. h \in [S -> Int]
    BY <2>1
  <2> HIDE DEF h
  <2>3. Sum(h) \in Int
    BY <1>0, <2>2, SumIsInt
  <2>. QED BY <2>2, <2>3 DEF h
<1>2. \A p, q : ArrivedIn(tasks, S, p, q) = Sum(f(p, q))
  BY DEF ArrivedIn
<1>3. Sum(f(s, s)) = 0
  <2> DEFINE h == f(s, s)
  <2>1. h \in [S -> Int]
    BY <1>1
  <2>2. ASSUME NEW k \in S PROVE h[k] = 0
    <3>1. Ceil(s, tasks[k].t) \in Nat /\ tasks[k].c \in Nat
      BY <1>0, CeilIs
    <3>. QED BY <3>1
  <2> HIDE DEF h
  <2>3. Sum(h) = 0
    BY <1>0, <2>1, <2>2, SumZero
  <2>. QED BY <2>3 DEF h
<1>4. Sum(f(s, x + 1)) = Sum(f(s, x)) + Sum(e)
  <2> DEFINE h1 == f(s, x + 1)
             h == f(s, x)
  <2>0. x + 1 \in Nat
    OBVIOUS
  <2>1. h1 \in [S -> Int] /\ h \in [S -> Int] /\ e \in [S -> Int]
    <3>1. h1 \in [S -> Int] /\ h \in [S -> Int]
      BY <1>1, <2>0
    <3>2. e \in [S -> Int]
      BY <1>0
    <3>. QED BY <3>1, <3>2
  <2>2. ASSUME NEW k \in S PROVE h1[k] = h[k] + e[k]
    <3> DEFINE b == tasks[k].t
               c == tasks[k].c
               u == Ceil(x, b)
               u1 == Ceil(x + 1, b)
               v == Ceil(s, b)
    <3>1. b \in Nat /\ b > 0 /\ c \in Nat
      BY <1>0
    <3>2. h1[k] = (u1 - v) * c /\ h[k] = (u - v) * c /\ e[k] = IF x % b = 0 THEN c ELSE 0
      OBVIOUS
    <3> HIDE DEF b, c, h, h1, e
    <3>3. u \in Nat /\ u1 \in Nat /\ v \in Nat
      BY <2>0, <3>1, CeilIs
    <3>4. (x % b = 0 => u1 = u + 1) /\ (x % b # 0 => u1 = u)
      BY <3>1, CeilNext
    <3> HIDE DEF u, u1, v
    <3>5. (u + 1 - v) * c = (u - v) * c + c /\ (u - v) * c \in Int
      BY <3>1, <3>3
    <3>. QED BY <3>1, <3>2, <3>3, <3>4, <3>5
  <2> HIDE DEF h, h1, e
  <2>3. Sum(h1) = Sum(h) + Sum(e)
    BY <1>0, <2>1, <2>2, SumAdd
  <2>. QED BY <2>3 DEF h, h1
<1>5. Sum(f(s, s + x)) <= Sum(g) /\ Sum(g) = Sum(f(0, x))
  <2> DEFINE h == f(s, s + x)
             h0 == f(0, x)
  <2>0. s + x \in Nat /\ 0 \in Nat
    OBVIOUS
  <2>1. h \in [S -> Int] /\ h0 \in [S -> Int]
    BY <1>1, <2>0
  <2>2. ASSUME NEW k \in S PROVE h[k] <= g[k] /\ g[k] = h0[k] /\ g[k] \in Int
    <3> DEFINE b == tasks[k].t
               c == tasks[k].c
               u == Ceil(x, b)
               u1 == Ceil(s + x, b)
               v == Ceil(s, b)
               z == Ceil(0, b)
    <3>1. b \in Nat /\ b > 0 /\ c \in Nat
      BY <1>0
    <3>2. h[k] = (u1 - v) * c /\ g[k] = u * c /\ h0[k] = (u - z) * c
      OBVIOUS
    <3> HIDE DEF b, c, h, h0, g
    <3>3. u \in Nat /\ u1 \in Nat /\ v \in Nat /\ z = 0
      BY <2>0, <3>1, CeilIs, CeilSmall
    <3>4. u1 <= v + u
      BY <3>1, CeilSplit
    <3> HIDE DEF u, u1, v, z
    <3>5. (u1 - v) * c <= u * c
      BY <3>1, <3>3, <3>4, Times
    <3>6. u * c \in Int
      BY <3>1, <3>3
    <3>. QED BY <3>2, <3>3, <3>5, <3>6
  <2>3. g \in [S -> Int]
    BY <2>2
  <2> HIDE DEF h, h0, g
  <2>4. Sum(h) <= Sum(g)
    BY <1>0, <2>1, <2>2, <2>3, SumLe
  <2>5. g = h0
    BY <2>1, <2>2, <2>3
  <2>. QED BY <2>4, <2>5 DEF h, h0
<1>6. DueIn(tasks, S, x) = Sum(e) /\ Demand(tasks, S, x) = Sum(g)
  BY DEF DueIn, Demand
<1>7. f(s, x) = [k \in S |-> (Ceil(x, tasks[k].t) - Ceil(s, tasks[k].t)) * tasks[k].c]
  OBVIOUS
<1> HIDE DEF f, e, g
<1>. QED BY <1>1, <1>2, <1>3, <1>4, <1>5, <1>6, <1>7

-----------------------------------------------------------------------------
(* The hyperperiod: the product of the periods is a multiple of each, so    *)
(* there is a least one.                                                    *)
Prods(f) ==
  CHOOSE g : g = [s \in SUBSET DOMAIN f |->
                    IF s = {} THEN 1 ELSE f[Pick(s)].t * g[s \ {Pick(s)}]]

LEMMA ProductIs ==
  ASSUME NEW f
  PROVE  FoldFunction(LAMBDA x, y : x.t * y, 1, f) = Prods(f)[DOMAIN f]
BY Zenon DEF FoldFunction, FoldFunctionOnSet, MapThenFoldSet, Prods, Pick

LEMMA ProdsAt ==
  ASSUME NEW f, IsFiniteSet(DOMAIN f), \A k \in DOMAIN f : f[k].t \in Nat \ {0}
  PROVE  \A s \in SUBSET DOMAIN f :
           /\ s = {} => Prods(f)[s] = 1
           /\ s # {} => /\ Pick(s) \in s
                        /\ Prods(f)[s] = f[Pick(s)].t * Prods(f)[s \ {Pick(s)}]
<1> DEFINE D == DOMAIN f
           V == Nat \ {0}
           F == [e \in D \X V |-> f[e[1]].t * e[2]]
           P == [s \in SUBSET D |-> Pick(s)]
<1>1. F \in [D \X V -> V]
  <2>1. ASSUME NEW e \in D \X V PROVE f[e[1]].t * e[2] \in V
    <3>1. f[e[1]].t \in V /\ e[2] \in V OBVIOUS
    <3>2. \A p, q \in V : p * q \in V OBVIOUS
    <3> HIDE DEF V
    <3>. QED BY <3>1, <3>2
  <2>. QED BY <2>1
<1>2. \A s \in SUBSET D : s # {} => P[s] \in s
  BY PickIn
<1>3. \A x \in D, n \in V : F[<<x, n>>] = f[x].t * n
  OBVIOUS
<1>4. \A s \in SUBSET D : P[s] = Pick(s)
  OBVIOUS
<1> HIDE DEF F, P
<1>5. PICK g \in [SUBSET D -> V] :
        g = [s \in SUBSET D |-> IF s = {} THEN 1 ELSE F[<<P[s], g[s \ {P[s]}]>>]]
  <2> DEFINE b == 1
  <2>1. b \in V OBVIOUS
  <2> HIDE DEF V, b
  <2>2. \E g \in [SUBSET D -> V] : IsFold(g, D, b, F, P)
    BY <1>1, <1>2, <2>1, FoldExists
  <2>. QED BY <2>2 DEF b, IsFold
<1> HIDE DEF V
<1>6. ASSUME NEW s \in SUBSET D
      PROVE  g[s] = IF s = {} THEN 1 ELSE f[Pick(s)].t * g[s \ {Pick(s)}]
  <2>1. CASE s = {} BY <1>5, <2>1
  <2>2. CASE s # {}
    <3>1. P[s] = Pick(s) /\ Pick(s) \in D /\ s \ {Pick(s)} \in SUBSET D
      BY <1>4, <2>2, PickIn
    <3>2. g[s] = F[<<P[s], g[s \ {P[s]}]>>]
      BY <1>5, <2>2
    <3>. QED BY <1>3, <2>2, <3>1, <3>2
  <2>. QED BY <2>1, <2>2
<1>7. g = [s \in SUBSET D |-> IF s = {} THEN 1 ELSE f[Pick(s)].t * g[s \ {Pick(s)}]]
  <2>1. g = [s \in SUBSET D |-> g[s]] OBVIOUS
  <2>. QED BY <1>6, <2>1
<1> DEFINE h == Prods(f)
           E(r) == IF r = {} THEN 1 ELSE f[Pick(r)].t * h[r \ {Pick(r)}]
<1>8. h = [s \in SUBSET D |-> E(s)]
  BY <1>7, Zenon DEF Prods
<1> HIDE DEF h
<1>9. ASSUME NEW s \in SUBSET D PROVE h[s] = E(s)
  <2> HIDE DEF E
  <2>. QED BY <1>8
<1>. QED BY <1>9, PickIn DEF h

LEMMA Multiple ==
  ASSUME NEW a \in Nat, NEW b \in Nat, b > 0
  PROVE  /\ a % b = 0 => \E q \in Nat : a = q * b /\ a \div b = q
         /\ \A q \in Nat : a = q * b => a % b = 0 /\ a \div b = q
<1>1. a % b = 0 => \E q \in Nat : a = q * b /\ a \div b = q
  BY DivIs
<1>2. \A q \in Nat : a = q * b => a = q * b + 0 /\ q \in Int
  OBVIOUS
<1>. QED BY <1>1, <1>2, DivAtLeast

LEMMA ProductFacts ==
  ASSUME NEW f, IsFiniteSet(DOMAIN f), \A k \in DOMAIN f : f[k].t \in Nat \ {0}
  PROVE  /\ Prods(f)[DOMAIN f] \in Nat \ {0}
         /\ \A k \in DOMAIN f : Prods(f)[DOMAIN f] % f[k].t = 0
<1> DEFINE D == DOMAIN f
           V == Nat \ {0}
           h == Prods(f)
           T == {s \in SUBSET D : h[s] \in V /\ \A k \in s : \E q \in Nat : h[s] = q * f[k].t}
<1>1. \A s \in SUBSET D : /\ s = {} => h[s] = 1
                          /\ s # {} => Pick(s) \in s /\ h[s] = f[Pick(s)].t * h[s \ {Pick(s)}]
  BY ProdsAt, Zenon
<1> HIDE DEF h
<1>2. ASSUME NEW s \in SUBSET D, \A r \in SUBSET s : r # s => r \in T
      PROVE  s \in T
  <2>1. CASE s = {}
    <3>1. h[s] = 1
      BY <1>1, <2>1
    <3>. QED BY <2>1, <3>1
  <2>2. CASE s # {}
    <3> DEFINE p == Pick(s)
               r == s \ {p}
    <3>1. p \in s /\ h[s] = f[p].t * h[r]
      BY <1>1, <2>2
    <3> HIDE DEF p
    <3>2. r \in T
      BY <1>2, <3>1
    <3>3. f[p].t \in V /\ h[r] \in V
      BY <3>1, <3>2
    <3>4. h[s] \in V
      <4>1. \A x, y \in V : x * y \in V OBVIOUS
      <4> HIDE DEF V, r
      <4>. QED BY <3>1, <3>3, <4>1
    <3>5. ASSUME NEW k \in s PROVE \E q \in Nat : h[s] = q * f[k].t
      <4>1. CASE k = p
        <5>1. h[s] = h[r] * f[p].t /\ h[r] \in Nat
          <6> HIDE DEF r
          <6>. QED BY <3>1, <3>3
        <5>. QED BY <4>1, <5>1
      <4>2. CASE k # p
        <5>1. k \in r BY <4>2
        <5>2. PICK q \in Nat : h[r] = q * f[k].t
          BY <3>2, <5>1
        <5> DEFINE a == f[p].t
                   b == f[k].t
        <5>3. a \in Nat /\ b \in Nat
          BY <3>3
        <5> HIDE DEF a, b, r
        <5>4. a * (q * b) = (a * q) * b /\ a * q \in Nat
          BY <5>3
        <5>. QED BY <3>1, <5>2, <5>4 DEF a, b
      <4>. QED BY <4>1, <4>2
    <3>. QED BY <3>4, <3>5
  <2>. QED BY <2>1, <2>2
<1> HIDE DEF T
<1>3. D \in T
  BY <1>2, GrowingSets
<1>4. h[D] \in V /\ \A k \in D : \E q \in Nat : h[D] = q * f[k].t
  BY <1>3 DEF T
<1>5. ASSUME NEW k \in D PROVE h[D] % f[k].t = 0
  <2>1. f[k].t \in Nat /\ f[k].t > 0 /\ h[D] \in Nat
    BY <1>4
  <2>2. PICK q \in Nat : h[D] = q * f[k].t
    BY <1>4
  <2> DEFINE b == f[k].t
             a == h[D]
  <2> HIDE DEF a, b
  <2>. QED BY <2>1, <2>2, Multiple DEF a, b
<1>. QED BY <1>4, <1>5 DEF h

LEMMA HyperFacts ==
  ASSUME NEW tasks, IsTaskSet(tasks)
  PROVE  /\ hyper(tasks) \in Nat /\ hyper(tasks) > 0
         /\ \A i \in DOMAIN tasks : hyper(tasks) % tasks[i].t = 0
<1> DEFINE D == DOMAIN tasks
           p == Prods(tasks)[D]
           T == {h \in 1..p : \A i \in DOMAIN tasks : h % tasks[i].t = 0}
<1>1. IsFiniteSet(D) /\ \A k \in D : tasks[k].t \in Nat \ {0}
  BY TaskFacts
<1>2. p \in Nat \ {0} /\ \A k \in D : p % tasks[k].t = 0
  BY <1>1, ProductFacts
<1>3. hyper(tasks) = Min(T)
  BY ProductIs, Zenon DEF hyper
<1> HIDE DEF p
<1>4. T # {} /\ T \subseteq Nat
  <2>1. p \in T BY <1>2
  <2>. QED BY <2>1
<1>5. Min(T) \in T
  <2> HIDE DEF T
  <2>1. \E x \in T : \A y \in T : x <= y
    BY <1>4, LeastNumber
  <2>. QED BY <2>1 DEF Min
<1>. QED BY <1>3, <1>5

-----------------------------------------------------------------------------
(* The simulation.  Upto is the time before which the releases are made.    *)
Passes == {"check", "release", "run", "done"}
Upto == IF pass = "run" THEN now + 1 ELSE now
hp(i) == Higher(ts, "RM", i)
Left(i) == LeftIn(hp(i), remaining, active)

Typed ==
  /\ ts \in TaskSets /\ alpha \in Alphas
  /\ now \in Nat /\ missed \in Nat /\ jobs \in Nat
  /\ pass \in Passes
  /\ remaining \in [DOMAIN ts -> Nat]
  /\ released \in [DOMAIN ts -> Nat]
  /\ active \in [DOMAIN ts -> BOOLEAN]

(* The last release of a task is less than a period ago, and its deadline   *)
(* is checked before the next.                                              *)
Timely(i) ==
  /\ active[i] => remaining[i] \in 1..ts[i].c
  /\ released[i] % ts[i].t = 0
  /\ released[i] <= now
  /\ pass # "run" /\ now > 0 => released[i] < now
  /\ Upto > 0 => Upto <= released[i] + ts[i].t
  /\ Upto = 0 => ~active[i]
  /\ active[i] /\ pass \in {"release", "run"} => now < deadline(i)
AllTimely == \A i \in DOMAIN ts : Timely(i)

LEMMA Tasks == ASSUME Typed PROVE IsTaskSet(ts) /\ Word \in Nat \ {0}
BY RtAssumption DEF Typed

LEMMA HorizonIsNat == ASSUME Typed PROVE horizon \in Nat
<1>1. hyper(ts) \in Nat /\ Cycles \in Nat /\ HorizonCap \in Nat
  BY Tasks, HyperFacts, RtAssumption
<1>2. hyper(ts) * Cycles \in Nat
  BY <1>1
<1>. QED BY <1>1, <1>2 DEF horizon, Least, Most

LEMMA LightestFacts ==
  ASSUME Typed, NEW i \in DOMAIN ts
  PROVE  /\ lightest(i) \in 1..ts[i].c
         /\ alpha = 2 => lightest(i) = ts[i].c
<1> DEFINE c == ts[i].c
           u == Ceil(alpha * c, 2)
<1>1. c \in Nat /\ c > 0 /\ alpha \in Nat
  BY Tasks, TaskFacts, RtAssumption DEF Typed
<1>5. lightest(i) = Most(1, Least(c, u))
  BY DEF lightest
<1> HIDE DEF c
<1>2. alpha * c \in Nat /\ 2 \in Nat /\ 2 > 0
  BY <1>1
<1>3. u \in Nat /\ u * 2 >= alpha * c /\ u * 2 < alpha * c + 2
  BY <1>2, CeilIs
<1> HIDE DEF u
<1>4. alpha = 2 => u = c
  BY <1>1, <1>3
<1>. QED BY <1>1, <1>3, <1>4, <1>5 DEF Most, Least, c

(* What each pass does.                                                     *)
Overdue == {i \in DOMAIN ts : active[i] /\ now >= deadline(i)}
Due == {i \in DOMAIN ts : now % ts[i].t = 0}

LEMMA CheckDoes ==
  ASSUME Typed, Check
  PROVE  /\ Typed' /\ pass = "check" /\ now < horizon /\ pass' = "release"
         /\ ts' = ts /\ alpha' = alpha /\ now' = now /\ remaining' = remaining
         /\ released' = released /\ jobs' = jobs
         /\ IsFiniteSet(Overdue) /\ Cardinality(Overdue) \in Nat
         /\ missed' = missed + Cardinality(Overdue)
         /\ \A i \in DOMAIN ts : active'[i] <=> active[i] /\ i \notin Overdue
<1>1. IsFiniteSet(Overdue) /\ Cardinality(Overdue) \in Nat
  BY Tasks, TaskFacts, FS_Subset, FS_CardinalityType DEF Overdue
<1>2. /\ missed' = missed + Cardinality(Overdue)
      /\ active' = [i \in DOMAIN ts |-> active[i] /\ i \notin Overdue]
  BY DEF Check, Overdue
<1>3. /\ pass = "check" /\ now < horizon /\ pass' = "release"
      /\ ts' = ts /\ alpha' = alpha /\ now' = now /\ remaining' = remaining
      /\ released' = released /\ jobs' = jobs
  BY DEF Check
<1> HIDE DEF Overdue
<1>4. \A i \in DOMAIN ts : active'[i] <=> active[i] /\ i \notin Overdue
  BY <1>2
<1>5. active' \in [DOMAIN ts -> BOOLEAN]
  BY <1>2
<1>6. Typed'
  BY <1>1, <1>2, <1>3, <1>5 DEF Typed, Passes
<1>. QED BY <1>1, <1>2, <1>3, <1>4, <1>6

LEMMA ReleaseDoes ==
  ASSUME Typed, Release
  PROVE  /\ Typed' /\ pass = "release" /\ pass' = "run"
         /\ ts' = ts /\ alpha' = alpha /\ now' = now /\ missed' = missed
         /\ IsFiniteSet(Counted(Due)) /\ Cardinality(Counted(Due)) \in Nat
         /\ jobs' = jobs + Cardinality(Counted(Due))
         /\ \A i \in DOMAIN ts :
              IF i \in Due
              THEN /\ active'[i] /\ released'[i] = now
                   /\ remaining'[i] \in lightest(i)..ts[i].c
                   /\ remaining'[i] \in 1..ts[i].c
                   /\ alpha = 2 => remaining'[i] = ts[i].c
              ELSE /\ active'[i] = active[i] /\ released'[i] = released[i]
                   /\ remaining'[i] = remaining[i]
<1>1. IsFiniteSet(Counted(Due)) /\ Cardinality(Counted(Due)) \in Nat
  BY Tasks, TaskFacts, FS_Subset, FS_CardinalityType DEF Counted, Due
<1>2. PICK run \in [Due -> 1..Max({ts[i].c : i \in DOMAIN ts})] :
        /\ \A i \in Due : run[i] \in lightest(i)..ts[i].c
        /\ remaining' = [i \in DOMAIN ts |-> IF i \in Due THEN run[i] ELSE remaining[i]]
  BY DEF Release, Due
<1>3. /\ released' = [i \in DOMAIN ts |-> IF i \in Due THEN now ELSE released[i]]
      /\ active' = [i \in DOMAIN ts |-> active[i] \/ i \in Due]
      /\ jobs' = jobs + Cardinality(Counted(Due))
      /\ pass = "release" /\ pass' = "run"
      /\ ts' = ts /\ alpha' = alpha /\ now' = now /\ missed' = missed
  BY DEF Release, Due
<1>4. Due \subseteq DOMAIN ts
  BY DEF Due
<1>5. ASSUME NEW i \in Due
      PROVE  /\ run[i] \in Nat /\ run[i] \in lightest(i)..ts[i].c
             /\ run[i] \in 1..ts[i].c
             /\ alpha = 2 => run[i] = ts[i].c
  <2>1. /\ lightest(i) \in 1..ts[i].c /\ (alpha = 2 => lightest(i) = ts[i].c)
        /\ ts[i].c \in Nat
    BY <1>4, LightestFacts, Tasks, TaskFacts
  <2>2. run[i] \in lightest(i)..ts[i].c
    BY <1>2
  <2> HIDE DEF Due
  <2>3. /\ run[i] \in Nat /\ run[i] \in 1..ts[i].c
        /\ alpha = 2 => run[i] = ts[i].c
    BY <2>1, <2>2
  <2>. QED BY <2>2, <2>3
<1>6. remaining' \in [DOMAIN ts -> Nat]
  BY <1>2, <1>5 DEF Typed
<1>7. Typed'
  BY <1>1, <1>3, <1>6 DEF Typed, Passes
<1>8. ASSUME NEW i \in DOMAIN ts
      PROVE IF i \in Due
              THEN /\ active'[i] /\ released'[i] = now
                   /\ remaining'[i] \in lightest(i)..ts[i].c
                   /\ remaining'[i] \in 1..ts[i].c
                   /\ alpha = 2 => remaining'[i] = ts[i].c
              ELSE /\ active'[i] = active[i] /\ released'[i] = released[i]
                   /\ remaining'[i] = remaining[i]
  <2>1. CASE i \in Due
    BY <1>2, <1>3, <1>5, <2>1
  <2>2. CASE i \notin Due
    BY <1>2, <1>3, <2>2 DEF Typed
  <2>. QED BY <2>1, <2>2
<1>. QED BY <1>1, <1>3, <1>7, <1>8

LEMMA RunDoes ==
  ASSUME Typed, Run
  PROVE  /\ Typed' /\ pass = "run" /\ pass' = "check" /\ now' = now + 1
         /\ ts' = ts /\ alpha' = alpha /\ missed' = missed /\ released' = released /\ jobs' = jobs
         /\ \/ \E j \in DOMAIN ts :
                 /\ Runs(j) /\ remaining'[j] = remaining[j] - 1
                 /\ active'[j] <=> remaining[j] > 1
                 /\ \A k \in DOMAIN ts \ {j} : active'[k] = active[k] /\ remaining'[k] = remaining[k]
            \/ /\ \A j \in DOMAIN ts : ~(active[j] /\ remaining[j] > 0)
               /\ remaining' = remaining /\ active' = active
<1>1. /\ pass = "run" /\ pass' = "check" /\ now' = now + 1
      /\ ts' = ts /\ alpha' = alpha /\ missed' = missed /\ released' = released /\ jobs' = jobs
  BY DEF Run
<1>2. ASSUME NEW j \in DOMAIN ts, Runs(j),
             remaining' = [remaining EXCEPT ![j] = @ - 1],
             active' = [active EXCEPT ![j] = remaining[j] > 1]
      PROVE  /\ Typed'
             /\ remaining'[j] = remaining[j] - 1
             /\ active'[j] <=> remaining[j] > 1
             /\ \A k \in DOMAIN ts \ {j} : active'[k] = active[k] /\ remaining'[k] = remaining[k]
  <2>1. remaining[j] \in Nat /\ remaining[j] > 0
    BY <1>2 DEF Typed, Runs
  <2>2. remaining[j] - 1 \in Nat
    BY <2>1
  <2>3. remaining' \in [DOMAIN ts -> Nat] /\ active' \in [DOMAIN ts -> BOOLEAN]
    BY <1>2, <2>2 DEF Typed
  <2>4. Typed'
    BY <1>1, <2>3 DEF Typed, Passes
  <2>. QED BY <1>2, <2>4 DEF Typed
<1>3. ASSUME \A j \in DOMAIN ts : ~(active[j] /\ remaining[j] > 0),
             remaining' = remaining, active' = active
      PROVE  Typed'
  BY <1>1, <1>3 DEF Typed, Passes
<1>. QED BY <1>1, <1>2, <1>3 DEF Run

LEMMA SweepDoes ==
  ASSUME Typed, Sweep
  PROVE  LET late == {i \in DOMAIN ts : active[i] /\ deadline(i) <= horizon}
         IN  /\ Typed' /\ pass = "check" /\ now = horizon /\ pass' = "done"
             /\ ts' = ts /\ alpha' = alpha /\ now' = now /\ remaining' = remaining
             /\ released' = released /\ jobs' = jobs /\ active' = active
             /\ IsFiniteSet(late) /\ Cardinality(late) \in Nat
             /\ missed' = missed + Cardinality(late)
<1> DEFINE late == {i \in DOMAIN ts : active[i] /\ deadline(i) <= horizon}
<1>1. IsFiniteSet(late) /\ Cardinality(late) \in Nat
  BY Tasks, TaskFacts, FS_Subset, FS_CardinalityType
<1>2. /\ pass = "check" /\ now = horizon /\ pass' = "done"
      /\ ts' = ts /\ alpha' = alpha /\ now' = now /\ remaining' = remaining
      /\ released' = released /\ jobs' = jobs /\ active' = active
      /\ missed' = missed + Cardinality(late)
  BY DEF Sweep
<1> HIDE DEF late
<1>3. Typed'
  BY <1>1, <1>2 DEF Typed, Passes
<1>. QED BY <1>1, <1>2, <1>3 DEF late

LEMMA NextMultiple ==
  ASSUME NEW a \in Nat, NEW b \in Nat, b > 0, a % b = 0
  PROVE  (a + b) % b = 0
<1>1. PICK q \in Nat : a = q * b
  BY Multiple
<1>2. a + b = (q + 1) * b /\ q + 1 \in Nat /\ a + b \in Nat
  BY <1>1
<1>. QED BY <1>2, Multiple

LEMMA ZeroMultiple == ASSUME NEW b \in Nat, b > 0 PROVE 0 % b = 0
<1>1. 0 = 0 * b /\ 0 \in Nat
  OBVIOUS
<1>. QED BY <1>1, Multiple

LEMMA TimelyStep ==
  ASSUME Typed, AllTimely, [RtNext]_sim
  PROVE  AllTimely'
<1>1. DOMAIN ts' = DOMAIN ts /\ ts' = ts
  BY DEF RtNext, Check, Release, Run, Sweep, sim
<1> SUFFICES ASSUME NEW i \in DOMAIN ts PROVE Timely(i)'
  BY <1>1 DEF AllTimely
<1> DEFINE c == ts[i].c
           t == ts[i].t
           d == ts[i].d
<1>2. /\ c \in Nat /\ t \in Nat /\ d \in Nat /\ t > 0 /\ d > 0 /\ c > 0
      /\ now \in Nat /\ remaining[i] \in Nat /\ released[i] \in Nat /\ active[i] \in BOOLEAN
  BY Tasks, TaskFacts DEF Typed
<1>3. Timely(i)
  BY DEF AllTimely
<1>4. CASE Check
  BY <1>2, <1>3, <1>4, CheckDoes DEF Timely, Upto, deadline, Overdue
<1>5. CASE Release
  <2>1. /\ pass = "release" /\ pass' = "run" /\ now' = now /\ ts' = ts /\ Upto = now /\ Upto' = now + 1
    BY <1>5, ReleaseDoes DEF Upto
  <2>2. CASE i \in Due
    <3>1. active'[i] /\ released'[i] = now /\ remaining'[i] \in 1..c
      BY <1>5, <2>2, ReleaseDoes
    <3>2. now % t = 0
      BY <2>2 DEF Due
    <3> HIDE DEF c, t, d
    <3>3. deadline(i)' = now + d
      BY <2>1, <3>1 DEF deadline, d
    <3>. QED BY <1>2, <2>1, <3>1, <3>2, <3>3 DEF Timely, c, t
  <2>3. CASE i \notin Due
    <3>1. active'[i] = active[i] /\ released'[i] = released[i] /\ remaining'[i] = remaining[i]
      BY <1>5, <2>3, ReleaseDoes
    <3>2. now % t # 0
      BY <2>3 DEF Due
    <3>3. now # 0
      BY <1>2, <3>2, ZeroMultiple
    <3>4. now <= released[i] + t /\ released[i] % t = 0
      BY <1>2, <1>3, <2>1, <3>3 DEF Timely
    <3>5. now # released[i] + t
      BY <1>2, <3>2, <3>4, NextMultiple
    <3>6. deadline(i)' = deadline(i)
      BY <2>1, <3>1 DEF deadline
    <3>7. now + 1 <= released[i] + t
      <4> HIDE DEF t
      <4>. QED BY <1>2, <3>4, <3>5
    <3>. QED BY <1>2, <1>3, <2>1, <3>1, <3>3, <3>6, <3>7 DEF Timely
  <2>. QED BY <2>2, <2>3
<1>6. CASE Run
  <2>1. /\ pass = "run" /\ pass' = "check" /\ now' = now + 1 /\ ts' = ts /\ released' = released
        /\ Upto = now + 1 /\ Upto' = now + 1
    BY <1>6, RunDoes DEF Upto
  <2>2. active'[i] => active[i] /\ remaining'[i] \in 1..c
    <3>1. CASE remaining'[i] = remaining[i] /\ active'[i] = active[i]
      BY <1>3, <3>1 DEF Timely
    <3>2. CASE remaining'[i] = remaining[i] - 1 /\ (active'[i] <=> remaining[i] > 1) /\ Runs(i)
      BY <1>2, <1>3, <3>2 DEF Timely, Runs
    <3>. QED BY <1>6, <3>1, <3>2, RunDoes
  <2>. QED BY <1>2, <1>3, <2>1, <2>2 DEF Timely
<1>7. CASE Sweep
  BY <1>2, <1>3, <1>7, SweepDoes DEF Timely, Upto
<1>8. CASE UNCHANGED sim
  BY <1>3, <1>8 DEF sim, Timely, Upto, deadline
<1>. QED BY <1>4, <1>5, <1>6, <1>7, <1>8 DEF RtNext

-----------------------------------------------------------------------------
(* What a unit of execution does to the work of the tasks above i.          *)
LEMMA HpFacts ==
  ASSUME Typed, NEW i \in DOMAIN ts
  PROVE  /\ hp(i) \in SUBSET DOMAIN ts /\ IsFiniteSet(hp(i)) /\ i \notin hp(i)
         /\ \A k \in hp(i) : remaining[k] \in Nat
         /\ Left(i) \in Nat
         /\ \A k \in hp(i) : active[k] => remaining[k] <= Left(i)
         /\ (\A k \in hp(i) : ~(active[k] /\ remaining[k] > 0)) => Left(i) = 0
         /\ "RM" \in Policies
<1>1. "RM" \in Policies
  BY DEF Policies
<1>2. hp(i) \in SUBSET DOMAIN ts /\ IsFiniteSet(hp(i)) /\ i \notin hp(i)
  BY <1>1, Tasks, HigherFacts DEF hp
<1> HIDE DEF hp
<1>3. \A k \in hp(i) : remaining[k] \in Nat
  BY <1>2 DEF Typed
<1>. QED BY <1>1, <1>2, <1>3, LeftFacts DEF Left

LEMMA RunCases ==
  ASSUME Typed, Run, NEW i \in DOMAIN ts
  PROVE  \/ /\ Left(i) > 0 /\ Left(i)' = Left(i) - 1
            /\ remaining'[i] = remaining[i] /\ active'[i] = active[i]
         \/ /\ Left(i) = 0 /\ Left(i)' = 0 /\ active[i] /\ remaining[i] > 0
            /\ remaining'[i] = remaining[i] - 1 /\ (active'[i] <=> remaining[i] > 1)
         \/ /\ Left(i) = 0 /\ Left(i)' = 0 /\ ~(active[i] /\ remaining[i] > 0)
            /\ remaining'[i] = remaining[i] /\ active'[i] = active[i]
<1> DEFINE S == hp(i)
<1>1. S \in SUBSET DOMAIN ts /\ IsFiniteSet(S) /\ i \notin S /\ \A k \in S : remaining[k] \in Nat
  BY HpFacts
<1>2. /\ Left(i) = LeftIn(S, remaining, active)
      /\ Left(i)' = LeftIn(S, remaining', active')
  <2>1. ts' = ts BY RunDoes
  <2>. QED BY <2>1 DEF Left, hp
<1>3. /\ (\A k \in S : ~(active[k] /\ remaining[k] > 0)) => Left(i) = 0
      /\ Left(i) \in Nat /\ \A k \in S : active[k] => remaining[k] <= Left(i)
  BY HpFacts
<1>4. ASSUME NEW j \in DOMAIN ts, Runs(j), remaining'[j] = remaining[j] - 1,
             active'[j] <=> remaining[j] > 1,
             \A k \in DOMAIN ts \ {j} : active'[k] = active[k] /\ remaining'[k] = remaining[k]
      PROVE  \/ /\ Left(i) > 0 /\ Left(i)' = Left(i) - 1
                /\ remaining'[i] = remaining[i] /\ active'[i] = active[i]
             \/ /\ Left(i) = 0 /\ Left(i)' = 0 /\ active[i] /\ remaining[i] > 0
                /\ remaining'[i] = remaining[i] - 1 /\ (active'[i] <=> remaining[i] > 1)
             \/ /\ Left(i) = 0 /\ Left(i)' = 0 /\ ~(active[i] /\ remaining[i] > 0)
                /\ remaining'[i] = remaining[i] /\ active'[i] = active[i]
  <2>1. active[j] /\ remaining[j] > 0 /\ \A k \in hp(j) : ~(active[k] /\ remaining[k] > 0)
    BY <1>4 DEF Runs, hp
  <2>2. CASE j \in S
    <3>1. remaining[j] \in Nat /\ i # j
      BY <1>1, <2>2
    <3>2. \A k \in S \ {j} : active'[k] = active[k] /\ remaining'[k] = remaining[k]
      BY <1>1, <1>4
    <3> HIDE DEF S
    <3>3. Left(i)' = Left(i) - 1
      BY <1>1, <1>2, <1>4, <2>1, <2>2, <3>2, LeftRun
    <3>4. Left(i) > 0
      BY <1>3, <2>1, <2>2, <3>1
    <3>. QED BY <1>4, <3>1, <3>3, <3>4
  <2>3. CASE j \notin S
    <3>1. \A k \in S : active'[k] = active[k] /\ remaining'[k] = remaining[k]
      BY <1>1, <1>4, <2>3
    <3>2. Left(i)' = Left(i)
      <4> HIDE DEF S
      <4>. QED BY <1>2, <3>1, LeftSame
    <3>3. CASE j = i
      <4>1. Left(i) = 0
        BY <1>3, <2>1, <3>3
      <4>. QED BY <1>4, <2>1, <3>2, <3>3, <4>1
    <3>4. CASE j # i
      <4>1. i \in hp(j) /\ hp(i) \subseteq hp(j)
        BY <2>3, <3>4, HpFacts, Tasks, HigherFacts DEF hp
      <4>2. Left(i) = 0 /\ ~(active[i] /\ remaining[i] > 0)
        BY <1>3, <2>1, <4>1
      <4>. QED BY <1>4, <3>2, <3>4, <4>2
    <3>. QED BY <3>3, <3>4
  <2>. QED BY <2>2, <2>3
<1>5. ASSUME \A j \in DOMAIN ts : ~(active[j] /\ remaining[j] > 0),
             remaining' = remaining, active' = active
      PROVE  /\ Left(i) = 0 /\ Left(i)' = 0 /\ ~(active[i] /\ remaining[i] > 0)
             /\ remaining'[i] = remaining[i] /\ active'[i] = active[i]
  BY <1>1, <1>2, <1>3, <1>5
<1> HIDE DEF S
<1>. QED BY <1>4, <1>5, RunDoes

(* Before a fixed point of the recurrence passes, the tasks above i are     *)
(* done, and then i is: since the start of the busy period s, only they and *)
(* this job of i have run, and no more than arrived.                        *)
W(i, x) == Level(ts, "RM", i, x)
Came(i, s) == ArrivedIn(ts, hp(i), s, Upto)
Busy(i, r) == \E s \in 0..now : now - s < r /\ Left(i) + (now - s) <= Came(i, s)
Own(i, r) ==
  active[i] => \E s \in 0..released[i] :
                 now - s < r /\ remaining[i] + Left(i) + (now - s) <= ts[i].c + Came(i, s)
Bounded == \A i \in DOMAIN ts : \A r \in Nat : W(i, r) = r => Busy(i, r) /\ Own(i, r)

LEMMA CameFacts ==
  ASSUME Typed, NEW i \in DOMAIN ts, NEW s \in Nat
  PROVE  /\ ArrivedIn(ts, hp(i), s, now) \in Int /\ ArrivedIn(ts, hp(i), s, now + 1) \in Int
         /\ ArrivedIn(ts, hp(i), s, s) = 0
         /\ ArrivedIn(ts, hp(i), s, now + 1) = ArrivedIn(ts, hp(i), s, now) + DueIn(ts, hp(i), now)
         /\ DueIn(ts, hp(i), now) \in Nat
         /\ Came(i, s) \in Int
         /\ ts[i].c \in Nat /\ ts[i].c > 0
<1>1. hp(i) \in SUBSET DOMAIN ts /\ IsTaskSet(ts) /\ now \in Nat /\ now + 1 \in Nat
  BY HpFacts, Tasks DEF Typed
<1>. QED BY <1>1, ArrivedFacts, DueFacts, TaskFacts DEF Came, Upto

(* A window in which more arrived than ran is not the whole response.       *)
LEMMA Strict ==
  ASSUME Typed, NEW i \in DOMAIN ts, NEW r \in Nat, W(i, r) = r, NEW s \in 0..now,
         now - s < r, ts[i].c + ArrivedIn(ts, hp(i), s, now + 1) > now + 1 - s
  PROVE  now + 1 - s < r
<1> DEFINE x == now + 1 - s
           A == ArrivedIn(ts, hp(i), s, now + 1)
<1>1. now \in Nat /\ x \in Nat /\ s \in Nat /\ s + x = now + 1
  BY DEF Typed
<1>2. A <= Demand(ts, hp(i), x) /\ A \in Int /\ Demand(ts, hp(i), x) \in Nat
  <2>1. hp(i) \in SUBSET DOMAIN ts /\ IsTaskSet(ts)
    BY HpFacts, Tasks
  <2>2. ArrivedIn(ts, hp(i), s, s + x) <= Demand(ts, hp(i), x)
    BY <1>1, <2>1, ArrivedFacts
  <2>3. Demand(ts, hp(i), x) \in Nat
    BY <1>1, <2>1, DemandFacts
  <2>4. A \in Int
    BY <1>1, CameFacts
  <2>. QED BY <1>1, <2>2, <2>3, <2>4
<1>3. W(i, x) = ts[i].c + Demand(ts, hp(i), x)
  BY DEF W, Level, hp
<1>4. ts[i].c \in Nat
  BY CameFacts, <1>1
<1>5. x # r
  <2> SUFFICES ASSUME x = r PROVE FALSE
    OBVIOUS
  <2>1. W(i, x) = x
    BY DEF x
  <2> HIDE DEF x, A
  <2>2. ts[i].c + A > x
    BY DEF A, x
  <2>. QED BY <1>1, <1>2, <1>3, <1>4, <2>1, <2>2
<1>. QED BY <1>1, <1>5

LEMMA BoundedInit == ASSUME RtInit, RtAssumption PROVE Bounded
<1>1. Typed
  <2>1. IsTaskSet(ts) BY RtAssumption DEF RtInit
  <2>. QED BY <2>1, TaskFacts DEF RtInit, Typed, Passes
<1> SUFFICES ASSUME NEW i \in DOMAIN ts, NEW r \in Nat, W(i, r) = r PROVE Busy(i, r) /\ Own(i, r)
  BY DEF Bounded
<1>2. ~active[i] /\ now = 0 /\ Upto = 0
  BY DEF RtInit, Upto
<1>3. Left(i) = 0
  <2>1. \A k \in hp(i) : ~active[k]
    BY <1>1, HpFacts DEF RtInit
  <2>. QED BY <1>1, <2>1, HpFacts
<1>4. Came(i, 0) = 0
  BY <1>1, <1>2, CameFacts DEF Came
<1>5. r > 0
  <2>1. "RM" \in Policies BY DEF Policies
  <2>2. r >= ts[i].c /\ ts[i].c \in Nat /\ ts[i].c > 0
    BY <1>1, <2>1, Tasks, LevelFacts, TaskFacts DEF W
  <2>. QED BY <2>2
<1>6. Busy(i, r)
  <2>1. 0 \in 0..now /\ now - 0 < r /\ Left(i) + (now - 0) <= Came(i, 0)
    BY <1>2, <1>3, <1>4, <1>5
  <2>. QED BY <2>1 DEF Busy
<1>. QED BY <1>2, <1>6 DEF Own

LEMMA BoundedCheck ==
  ASSUME Typed, Check, NEW i \in DOMAIN ts, NEW r \in Nat, Busy(i, r), Own(i, r)
  PROVE  Busy(i, r)' /\ Own(i, r)'
<1>1. /\ ts' = ts /\ now' = now /\ remaining' = remaining /\ released' = released
      /\ Upto' = Upto /\ Typed'
      /\ \A k \in DOMAIN ts : active'[k] => active[k]
  BY CheckDoes DEF Upto
<1>2. Left(i)' <= Left(i) /\ Left(i) \in Nat /\ Left(i)' \in Nat
  <2>1. hp(i)' = hp(i)
    BY <1>1 DEF hp
  <2>2. /\ hp(i) \in SUBSET DOMAIN ts /\ IsFiniteSet(hp(i))
        /\ \A k \in hp(i) : remaining[k] \in Nat /\ Left(i) \in Nat
    BY HpFacts
  <2>3. \A k \in hp(i) : active'[k] => active[k] /\ remaining'[k] <= remaining[k]
    BY <1>1, <2>2
  <2>4. \A k \in hp(i) : remaining'[k] \in Nat
    BY <1>1, <2>2
  <2>5. LeftIn(hp(i), remaining', active') <= LeftIn(hp(i), remaining, active)
    <3> HIDE DEF hp
    <3>. QED BY <2>2, <2>3, <2>4, LeftLe
  <2>6. Left(i)' \in Nat
    <3>1. LeftIn(hp(i), remaining', active') \in Nat
      BY <2>2, <2>4, LeftFacts
    <3>. QED BY <2>1, <3>1 DEF Left
  <2>7. Left(i) \in Nat
    BY HpFacts
  <2>. QED BY <2>1, <2>5, <2>6, <2>7 DEF Left
<1>3. \A s : Came(i, s)' = Came(i, s)
  BY <1>1 DEF Came, hp
<1>4. Busy(i, r)'
  <2>1. PICK s \in 0..now : now - s < r /\ Left(i) + (now - s) <= Came(i, s)
    BY DEF Busy
  <2>2. Left(i)' + (now - s) <= Came(i, s)
    BY <1>2, <2>1, CameFacts DEF Typed
  <2>. QED BY <1>1, <1>3, <2>1, <2>2 DEF Busy
<1>5. Own(i, r)'
  <2> SUFFICES ASSUME active'[i]
               PROVE  \E s \in 0..released[i] : now - s < r /\ remaining[i] + Left(i)' + (now - s) <= ts[i].c + Came(i, s)
    BY <1>1, <1>3 DEF Own
  <2>1. PICK s \in 0..released[i] : now - s < r /\ remaining[i] + Left(i) + (now - s) <= ts[i].c + Came(i, s)
    BY <1>1 DEF Own
  <2>2. now \in Nat /\ s \in Nat /\ remaining[i] \in Nat /\ Came(i, s) \in Int /\ ts[i].c \in Nat
    BY CameFacts DEF Typed
  <2>3. remaining[i] + Left(i)' + (now - s) <= ts[i].c + Came(i, s)
    BY <1>2, <2>1, <2>2
  <2>. QED BY <2>1, <2>3
<1>. QED BY <1>4, <1>5

LEMMA LeftRelease ==
  ASSUME Typed, Release, NEW i \in DOMAIN ts
  PROVE  /\ Left(i) \in Nat /\ Left(i)' \in Nat
         /\ Left(i)' <= Left(i) + DueIn(ts, hp(i), now)
         /\ alpha = 2 /\ (\A k \in Due : ~active[k])
            => Left(i)' = Left(i) + DueIn(ts, hp(i), now)
<1> DEFINE S == hp(i)
<1>1. /\ S \in SUBSET DOMAIN ts /\ IsFiniteSet(S) /\ IsTaskSet(ts)
      /\ \A k \in S : remaining[k] \in Nat /\ Left(i) \in Nat
  BY HpFacts, Tasks
<1>2. Typed' /\ ts' = ts /\ now' = now /\ now \in Nat
  BY ReleaseDoes DEF Typed
<1>3. \A k \in S : remaining'[k] \in Nat
  BY <1>1, <1>2 DEF Typed
<1>4. \A k \in DOMAIN ts : k \in Due <=> now % ts[k].t = 0
  BY DEF Due
<1>5. \A k \in S : IF now % ts[k].t = 0
                   THEN active'[k] /\ remaining'[k] <= ts[k].c
                   ELSE active'[k] = active[k] /\ remaining'[k] = remaining[k]
  <2> SUFFICES ASSUME NEW k \in S
               PROVE IF now % ts[k].t = 0
                   THEN active'[k] /\ remaining'[k] <= ts[k].c
                   ELSE active'[k] = active[k] /\ remaining'[k] = remaining[k]
    OBVIOUS
  <2>1. k \in DOMAIN ts BY <1>1
  <2>2. k \in Due => active'[k] /\ remaining'[k] <= ts[k].c
    BY <2>1, ReleaseDoes, Tasks, TaskFacts
  <2>3. k \notin Due => active'[k] = active[k] /\ remaining'[k] = remaining[k]
    BY <2>1, ReleaseDoes
  <2>. QED BY <1>4, <2>1, <2>2, <2>3
<1>6. ASSUME alpha = 2, \A k \in Due : ~active[k]
      PROVE  \A k \in S : now % ts[k].t = 0 => ~active[k] /\ remaining'[k] = ts[k].c
  BY <1>1, <1>4, <1>6, ReleaseDoes
<1>7. Left(i) = LeftIn(S, remaining, active) /\ Left(i)' = LeftIn(S, remaining', active')
  BY <1>2 DEF Left, hp
<1> HIDE DEF S
<1>8. /\ LeftIn(S, remaining', active') <= LeftIn(S, remaining, active) + DueIn(ts, S, now)
      /\ (\A k \in S : now % ts[k].t = 0 => ~active[k] /\ remaining'[k] = ts[k].c)
         => LeftIn(S, remaining', active') = LeftIn(S, remaining, active) + DueIn(ts, S, now)
  BY <1>1, <1>2, <1>3, <1>5, LeftDue
<1>9. LeftIn(S, remaining', active') \in Nat /\ LeftIn(S, remaining, active) \in Nat
  BY <1>1, <1>3, LeftFacts
<1>. QED BY <1>6, <1>7, <1>8, <1>9 DEF S

LEMMA BoundedRelease ==
  ASSUME Typed, Release, NEW i \in DOMAIN ts, NEW r \in Nat, Busy(i, r), Own(i, r)
  PROVE  Busy(i, r)' /\ Own(i, r)'
<1> DEFINE e == DueIn(ts, hp(i), now)
<1>1. /\ ts' = ts /\ now' = now /\ now \in Nat /\ Upto = now /\ Upto' = now + 1
  BY ReleaseDoes DEF Upto, Typed
<1>2. Left(i) \in Nat /\ Left(i)' \in Nat /\ Left(i)' <= Left(i) + e /\ e \in Nat
  BY LeftRelease, CameFacts, <1>1
<1>3. \A s \in Nat : Came(i, s)' = Came(i, s) + e /\ Came(i, s) \in Int
  <2> SUFFICES ASSUME NEW s \in Nat PROVE Came(i, s)' = Came(i, s) + e /\ Came(i, s) \in Int
    OBVIOUS
  <2>1. Came(i, s)' = ArrivedIn(ts, hp(i), s, now + 1) /\ Came(i, s) = ArrivedIn(ts, hp(i), s, now)
    BY <1>1 DEF Came, hp
  <2>. QED BY <2>1, CameFacts
<1>4. PICK s0 \in 0..now : now - s0 < r /\ Left(i) + (now - s0) <= Came(i, s0)
  BY DEF Busy
<1> HIDE DEF e
<1>5. Left(i)' + (now - s0) <= Came(i, s0)'
  <2>1. Came(i, s0)' = Came(i, s0) + e /\ Came(i, s0) \in Int
    BY <1>3
  <2>. QED BY <1>1, <1>2, <1>4, <2>1
<1>6. Busy(i, r)'
  <2>1. \E s \in 0..now : now - s < r /\ Left(i)' + (now - s) <= Came(i, s)'
    BY <1>4, <1>5
  <2>. QED BY <1>1, <2>1 DEF Busy
<1>7. CASE i \in Due
  <2>1. released'[i] = now /\ remaining'[i] \in 1..ts[i].c /\ ts[i].c \in Nat
    BY <1>7, ReleaseDoes, Tasks, TaskFacts
  <2>2. remaining'[i] + Left(i)' + (now - s0) <= ts[i].c + Came(i, s0)'
    <3>1. Came(i, s0)' = Came(i, s0) + e /\ Came(i, s0) \in Int
      BY <1>3
    <3>. QED BY <1>1, <1>2, <1>5, <2>1, <3>1
  <2>3. \E s \in 0..released'[i] : now' - s < r /\ remaining'[i] + Left(i)' + (now' - s) <= ts'[i].c + Came(i, s)'
    BY <1>1, <1>4, <2>1, <2>2
  <2>. QED BY <1>6, <2>3 DEF Own
<1>8. CASE i \notin Due
  <2>1. released'[i] = released[i] /\ remaining'[i] = remaining[i] /\ active'[i] = active[i]
    BY <1>8, ReleaseDoes
  <2>2. ASSUME active'[i]
        PROVE \E s \in 0..released'[i] : now' - s < r /\ remaining'[i] + Left(i)' + (now' - s) <= ts'[i].c + Came(i, s)'
    <3>1. PICK s \in 0..released[i] : now - s < r /\ remaining[i] + Left(i) + (now - s) <= ts[i].c + Came(i, s)
      BY <2>1, <2>2 DEF Own
    <3>2. remaining[i] \in Nat /\ released[i] \in Nat /\ ts[i].c \in Nat /\ s \in Nat
      BY CameFacts, <1>1 DEF Typed
    <3>3. Came(i, s)' = Came(i, s) + e /\ Came(i, s) \in Int
      BY <1>3, <3>2
    <3>4. remaining[i] + Left(i)' + (now - s) <= ts[i].c + Came(i, s)'
      BY <1>1, <1>2, <3>1, <3>2, <3>3
    <3>. QED BY <1>1, <2>1, <3>1, <3>4
  <2>. QED BY <1>6, <2>2 DEF Own
<1>. QED BY <1>7, <1>8

LEMMA BoundedRun ==
  ASSUME Typed, AllTimely, Run, NEW i \in DOMAIN ts, NEW r \in Nat, W(i, r) = r,
         Busy(i, r), Own(i, r)
  PROVE  Busy(i, r)' /\ Own(i, r)'
<1>1. /\ ts' = ts /\ now' = now + 1 /\ now \in Nat /\ Upto = now + 1 /\ Upto' = now + 1
      /\ released' = released /\ released[i] \in Nat /\ remaining[i] \in Nat
      /\ active[i] \in BOOLEAN
  BY RunDoes DEF Upto, Typed
<1>2. Left(i) \in Nat /\ ts[i].c \in Nat /\ ts[i].c > 0
  BY HpFacts, Tasks, TaskFacts
<1>3. \A s \in Nat : /\ Came(i, s)' = Came(i, s) /\ Came(i, s) \in Int
                     /\ Came(i, s) = ArrivedIn(ts, hp(i), s, now + 1)
  BY <1>1, CameFacts DEF Came, hp
<1>4. active[i] => remaining[i] > 0
  BY <1>1, <1>2 DEF AllTimely, Timely
<1>5. Busy(i, r)'
  <2>1. PICK s \in 0..now : now - s < r /\ Left(i) + (now - s) <= Came(i, s)
    BY DEF Busy
  <2>2. Came(i, s)' = Came(i, s) /\ Came(i, s) \in Int /\ Came(i, s) = ArrivedIn(ts, hp(i), s, now + 1)
    BY <1>1, <1>3
  <2>3. CASE Left(i) > 0 /\ Left(i)' = Left(i) - 1
    <3>1. now + 1 - s < r
      <4>1. ts[i].c + ArrivedIn(ts, hp(i), s, now + 1) > now + 1 - s
        BY <1>1, <1>2, <2>1, <2>2, <2>3
      <4>. QED BY <2>1, <4>1, Strict
    <3>2. Left(i)' + (now + 1 - s) <= Came(i, s)' /\ s \in 0..(now + 1)
      BY <1>1, <1>2, <2>1, <2>2, <2>3
    <3>. QED BY <1>1, <3>1, <3>2 DEF Busy
  <2>4. CASE Left(i)' = 0
    <3>1. PICK n \in Nat : n = now + 1
      BY <1>1
    <3>2. Came(i, n)' = ArrivedIn(ts, hp(i), n, n)
      BY <1>3, <3>1
    <3>3. ArrivedIn(ts, hp(i), n, n) = 0
      BY CameFacts
    <3>4. r > 0
      <4>1. "RM" \in Policies BY DEF Policies
      <4>2. r >= ts[i].c
        BY <4>1, Tasks, LevelFacts DEF W
      <4>. QED BY <1>2, <4>2
    <3>5. /\ n \in 0..now' /\ now' - n < r
          /\ Left(i)' + (now' - n) <= Came(i, n)'
      BY <1>1, <2>4, <3>1, <3>2, <3>3, <3>4
    <3>. QED BY <3>5 DEF Busy
  <2>. QED BY <2>3, <2>4, RunCases
<1>6. Own(i, r)'
  <2> SUFFICES ASSUME active'[i]
               PROVE  \E s \in 0..released[i] : /\ now + 1 - s < r
                        /\ remaining'[i] + Left(i)' + (now + 1 - s) <= ts[i].c + Came(i, s)'
    BY <1>1 DEF Own
  <2>1. active[i]
    BY RunCases
  <2>2. PICK s \in 0..released[i] : now - s < r /\ remaining[i] + Left(i) + (now - s) <= ts[i].c + Came(i, s)
    BY <2>1 DEF Own
  <2>3. s \in 0..now
    BY <1>1, <2>2 DEF AllTimely, Timely
  <2>4. Came(i, s)' = Came(i, s) /\ Came(i, s) \in Int /\ Came(i, s) = ArrivedIn(ts, hp(i), s, now + 1)
    BY <1>1, <1>3, <2>3
  <2>5. /\ remaining'[i] + Left(i)' = remaining[i] + Left(i) - 1
        /\ remaining[i] + Left(i) >= 2
        /\ remaining'[i] \in Nat /\ Left(i)' \in Int
    BY <1>1, <1>2, <1>4, <2>1, RunCases
  <2>6. now + 1 - s < r
    <3>1. ts[i].c + ArrivedIn(ts, hp(i), s, now + 1) > now + 1 - s
      BY <1>1, <1>2, <2>2, <2>3, <2>4, <2>5
    <3>. QED BY <2>2, <2>3, <3>1, Strict
  <2>7. remaining'[i] + Left(i)' + (now + 1 - s) <= ts[i].c + Came(i, s)'
    BY <1>1, <1>2, <2>2, <2>3, <2>4, <2>5
  <2>. QED BY <2>6, <2>7
<1>. QED BY <1>5, <1>6

LEMMA BoundedStep ==
  ASSUME Typed, AllTimely, Bounded, [RtNext]_sim
  PROVE  Bounded'
<1>1. ts' = ts
  BY DEF RtNext, Check, Release, Run, Sweep, sim
<1> SUFFICES ASSUME NEW i \in DOMAIN ts, NEW r \in Nat, W(i, r) = r
             PROVE  Busy(i, r)' /\ Own(i, r)'
  BY <1>1 DEF Bounded, W
<1>2. Busy(i, r) /\ Own(i, r)
  BY DEF Bounded
<1>3. CASE Check
  BY <1>2, <1>3, BoundedCheck
<1>4. CASE Release
  BY <1>2, <1>4, BoundedRelease
<1>5. CASE Run
  BY <1>2, <1>5, BoundedRun
<1>6. CASE Sweep \/ UNCHANGED sim
  <2>1. /\ now' = now /\ remaining' = remaining /\ released' = released /\ active' = active
        /\ Upto' = Upto
    BY <1>6, SweepDoes DEF sim, Upto
  <2>. QED BY <1>1, <1>2, <2>1 DEF Busy, Own, Came, Left, hp
<1>. QED BY <1>3, <1>4, <1>5, <1>6 DEF RtNext

(* Soundness: a job of a task that the analysis passes is done in time.     *)
LEMMA Meets ==
  ASSUME Typed, Bounded, NEW i \in DOMAIN ts, active[i], wcrt(ts, "RM", i) # Late
  PROVE  now - released[i] < wcrt(ts, "RM", i) /\ now < deadline(i)
<1> DEFINE w == wcrt(ts, "RM", i)
<1>1. w \in 1..ts[i].d /\ W(i, w) = w
  <2>1. "RM" \in Policies BY DEF Policies
  <2>. QED BY <2>1, Tasks, Response DEF W
<1>2. ts[i].d \in Nat /\ released[i] \in Nat /\ now \in Nat
  BY Tasks, TaskFacts DEF Typed
<1> HIDE DEF w
<1>3. w \in Nat
  BY <1>1, <1>2
<1>4. PICK s \in 0..released[i] : now - s < w
  BY <1>1, <1>3 DEF Bounded, Own
<1>. QED BY <1>1, <1>2, <1>3, <1>4 DEF deadline, w

Passed == schedulable(ts, "RM") => missed = 0

LEMMA PassedStep ==
  ASSUME Typed, Bounded, Passed, [RtNext]_sim
  PROVE  Passed'
<1>1. ts' = ts
  BY DEF RtNext, Check, Release, Run, Sweep, sim
<1> SUFFICES ASSUME schedulable(ts, "RM") PROVE missed' = 0
  BY <1>1 DEF Passed
<1>2. missed = 0
  BY DEF Passed
<1>3. \A i \in DOMAIN ts : active[i] => now < deadline(i)
  BY Meets DEF schedulable
<1>4. \A i \in DOMAIN ts : now \in Nat /\ deadline(i) \in Nat
  BY Tasks, TaskFacts DEF Typed, deadline
<1>5. CASE Check
  <2>1. Overdue = {}
    BY <1>3, <1>4 DEF Overdue
  <2>. QED BY <1>2, <1>5, <2>1, CheckDoes, FS_EmptySet
<1>6. CASE Sweep
  <2> DEFINE late == {i \in DOMAIN ts : active[i] /\ deadline(i) <= horizon}
  <2>1. now = horizon /\ missed' = missed + Cardinality(late)
    BY <1>6, SweepDoes
  <2>2. late = {}
    BY <1>3, <1>4, <2>1
  <2>. QED BY <1>2, <2>1, <2>2, FS_EmptySet
<1>7. CASE Release \/ Run \/ UNCHANGED sim
  BY <1>2, <1>7, ReleaseDoes, RunDoes DEF sim
<1>. QED BY <1>5, <1>6, <1>7 DEF RtNext

-----------------------------------------------------------------------------
(* Exactness: with every job at its worst case and none missed, the first   *)
(* job of each task runs for a least fixed point.                           *)
First(i) == active[i] /\ released[i] = 0
Attaining(i) ==
  First(i) => /\ remaining[i] + Left(i) + now = W(i, Upto)
              /\ \A y \in 0..now : W(i, y) > y
Attained(i) ==
  ~First(i) /\ Upto > 0 => \E r \in 1..ts[i].d : W(i, r) = r /\ \A y \in 0..(r - 1) : W(i, y) > y
Exact == alpha = 2 /\ missed = 0 => \A i \in DOMAIN ts : Attaining(i) /\ Attained(i)

LEMMA WFacts ==
  ASSUME Typed, NEW i \in DOMAIN ts
  PROVE  /\ \A x \in Nat : W(i, x) \in Nat /\ W(i, x) >= ts[i].c
         /\ W(i, 0) = ts[i].c
         /\ W(i, now + 1) = W(i, now) + DueIn(ts, hp(i), now)
         /\ ts[i].c \in Nat /\ ts[i].c > 0 /\ ts[i].d \in Nat /\ ts[i].t \in Nat /\ ts[i].t > 0
         /\ now \in Nat
<1> DEFINE S == hp(i)
<1>1. /\ ts[i].c \in Nat /\ ts[i].c > 0 /\ ts[i].d \in Nat /\ ts[i].t \in Nat /\ ts[i].t > 0
      /\ now \in Nat /\ IsTaskSet(ts) /\ "RM" \in Policies /\ now + 1 \in Nat
  BY Tasks, TaskFacts DEF Typed, Policies
<1>2. \A x \in Nat : W(i, x) \in Nat /\ W(i, x) >= ts[i].c
  BY <1>1, LevelFacts DEF W
<1>3. \A x : W(i, x) = ts[i].c + Demand(ts, S, x)
  BY DEF W, Level, hp
<1>4. S \in SUBSET DOMAIN ts
  BY HpFacts
<1> HIDE DEF S
<1>5. \A x \in Nat : Demand(ts, S, x) = ArrivedIn(ts, S, 0, x)
  BY <1>1, <1>4, ArrivedFacts
<1>6. Demand(ts, S, 0) = 0
  <2> DEFINE z == 0
  <2>1. z \in Nat
    OBVIOUS
  <2>2. Demand(ts, S, z) = ArrivedIn(ts, S, z, z)
    BY <1>5, <2>1
  <2> HIDE DEF z
  <2>3. ArrivedIn(ts, S, z, z) = 0
    BY <1>1, <1>4, <2>1, ArrivedFacts
  <2>. QED BY <2>2, <2>3 DEF z
<1>7. Demand(ts, S, now + 1) = Demand(ts, S, now) + DueIn(ts, S, now)
  <2>1. 0 \in Nat /\ now >= 0
    BY <1>1
  <2>2. ArrivedIn(ts, S, 0, now + 1) = ArrivedIn(ts, S, 0, now) + DueIn(ts, S, now)
    BY <1>1, <1>4, <2>1, ArrivedFacts
  <2>. QED BY <1>1, <1>5, <2>2
<1>8. Demand(ts, S, now) \in Nat /\ DueIn(ts, S, now) \in Nat
  BY <1>1, <1>4, DemandFacts, DueFacts
<1>. QED BY <1>1, <1>2, <1>3, <1>6, <1>7, <1>8 DEF S

LEMMA ExactInit == ASSUME RtInit, RtAssumption PROVE Exact
BY DEF RtInit, Exact, Attaining, Attained, First, Upto

LEMMA NoneOverdue ==
  ASSUME Typed, Check, missed' = 0
  PROVE  missed = 0 /\ \A i \in DOMAIN ts : active'[i] = active[i]
<1>1. missed = 0 /\ Cardinality(Overdue) = 0 /\ IsFiniteSet(Overdue)
  BY CheckDoes DEF Typed
<1>2. Overdue = {}
  BY <1>1, FS_EmptySet
<1>. QED BY <1>1, <1>2, CheckDoes DEF Typed

LEMMA ExactCheck ==
  ASSUME Typed, Check, Exact, alpha = 2, missed' = 0, NEW i \in DOMAIN ts
  PROVE  Attaining(i)' /\ Attained(i)'
<1>1. Attaining(i) /\ Attained(i) /\ \A k \in DOMAIN ts : active'[k] = active[k]
  BY NoneOverdue DEF Exact
<1>2. /\ ts' = ts /\ now' = now /\ remaining' = remaining /\ released' = released
      /\ Upto' = Upto
  BY CheckDoes DEF Upto
<1>3. Left(i)' = Left(i)
  <2>1. \A k \in hp(i) : active'[k] = active[k] /\ remaining'[k] = remaining[k]
    BY <1>1, <1>2, HpFacts
  <2>2. hp(i)' = hp(i)
    BY <1>2 DEF hp
  <2> HIDE DEF hp
  <2>3. LeftIn(hp(i), remaining', active') = LeftIn(hp(i), remaining, active)
    BY <2>1, LeftSame
  <2>. QED BY <2>2, <2>3 DEF Left
<1>. QED BY <1>1, <1>2, <1>3 DEF Attaining, Attained, First, W

LEMMA DueIsIdle ==
  ASSUME Typed, AllTimely, Release
  PROVE  \A k \in Due : ~active[k]
<1> SUFFICES ASSUME NEW k \in Due, active[k] PROVE FALSE
  OBVIOUS
<1>1. /\ k \in DOMAIN ts /\ now % ts[k].t = 0 /\ pass = "release" /\ Upto = now
  BY ReleaseDoes DEF Due, Upto
<1>2. /\ ts[k].t \in Nat /\ ts[k].t > 0 /\ ts[k].d \in Nat /\ ts[k].d <= ts[k].t
      /\ now \in Nat /\ released[k] \in Nat
  BY <1>1, Tasks, TaskFacts DEF Typed
<1>3. Timely(k)
  BY <1>1 DEF AllTimely
<1>4. now > 0
  BY <1>1, <1>2, <1>3 DEF Timely
<1>5. released[k] < now /\ released[k] % ts[k].t = 0 /\ now < released[k] + ts[k].d
  BY <1>1, <1>3, <1>4 DEF Timely, deadline
<1>6. released[k] + ts[k].t <= now
  BY <1>1, <1>2, <1>5, ModGap
<1>. QED BY <1>2, <1>5, <1>6

LEMMA ExactRelease ==
  ASSUME Typed, AllTimely, Release, Exact, alpha = 2, missed' = 0, NEW i \in DOMAIN ts
  PROVE  Attaining(i)' /\ Attained(i)'
<1>1. /\ ts' = ts /\ now' = now /\ Upto = now /\ Upto' = now + 1 /\ missed = 0
  BY ReleaseDoes DEF Upto
<1>2. Attaining(i) /\ Attained(i)
  BY <1>1 DEF Exact
<1>3. \A k \in Due : ~active[k]
  BY DueIsIdle
<1>4. Left(i) \in Nat /\ Left(i)' = Left(i) + DueIn(ts, hp(i), now) /\ DueIn(ts, hp(i), now) \in Nat
  BY <1>3, LeftRelease, CameFacts, WFacts
<1>5. \A x : W(i, x)' = W(i, x)
  BY <1>1 DEF W
<1>6. remaining[i] \in Nat /\ remaining'[i] \in Nat
  BY ReleaseDoes, <1>1 DEF Typed
<1>7. CASE now = 0
  <2>1. i \in Due
    BY <1>7, WFacts, ZeroMultiple DEF Due
  <2>2. remaining'[i] = ts[i].c
    BY <2>1, ReleaseDoes
  <2>3. Left(i) = 0
    <3>1. \A k \in hp(i) : ~active[k]
      BY <1>1, <1>7, HpFacts DEF AllTimely, Timely
    <3>. QED BY <3>1, HpFacts
  <2>4. remaining'[i] + Left(i)' + now = W(i, now + 1)
    BY <1>4, <1>7, <2>2, <2>3, WFacts
  <2>5. \A y \in 0..now : W(i, y) > y
    BY <1>7, WFacts
  <2>6. First(i)'
    BY <1>7, <2>1, ReleaseDoes DEF First
  <2>7. W(i, Upto)' = W(i, now + 1)
    BY <1>1 DEF W
  <2>8. Attaining(i)'
    BY <1>1, <1>5, <2>4, <2>5, <2>7 DEF Attaining
  <2>. QED BY <2>6, <2>8 DEF Attained
<1>8. CASE now # 0
  <2>1. now > 0
    BY <1>8, WFacts
  <2>2. First(i)' => i \notin Due /\ First(i) /\ remaining'[i] = remaining[i]
    BY <1>8, ReleaseDoes DEF First
  <2>3. ~First(i)' => ~First(i)
    BY <1>3, ReleaseDoes DEF First
  <2>4. W(i, Upto)' = W(i, now + 1) /\ W(i, now) \in Nat
    BY <1>1, WFacts DEF W
  <2>5. First(i) => remaining[i] + Left(i)' + now = W(i, now + 1)
    BY <1>1, <1>2, <1>4, <1>6, <2>4, WFacts DEF Attaining
  <2>6. Attaining(i)'
    BY <1>1, <1>2, <1>5, <2>2, <2>4, <2>5 DEF Attaining
  <2>7. Attained(i)'
    BY <1>1, <1>2, <1>5, <2>1, <2>3 DEF Attained
  <2>. QED BY <2>6, <2>7
<1>. QED BY <1>7, <1>8

LEMMA ExactRun ==
  ASSUME Typed, AllTimely, Run, Exact, alpha = 2, missed' = 0, NEW i \in DOMAIN ts
  PROVE  Attaining(i)' /\ Attained(i)'
<1>1. /\ ts' = ts /\ now' = now + 1 /\ Upto = now + 1 /\ Upto' = now + 1 /\ missed = 0
      /\ released' = released /\ pass = "run"
  BY RunDoes DEF Upto
<1>2. Attaining(i) /\ Attained(i)
  BY <1>1 DEF Exact
<1>3. /\ remaining[i] \in Nat /\ remaining'[i] \in Nat /\ Left(i) \in Nat /\ Left(i)' \in Nat
      /\ now \in Nat /\ released[i] \in Nat
  <2>1. now \in Nat /\ remaining[i] \in Nat /\ released[i] \in Nat
    BY DEF Typed
  <2>2. Left(i) \in Nat
    BY HpFacts
  <2>3. remaining'[i] \in Nat
    BY RunDoes, <1>1 DEF Typed
  <2>4. Left(i)' \in Nat
    BY <2>2, RunCases
  <2>. QED BY <2>1, <2>2, <2>3, <2>4
<1>4. \A x : W(i, x)' = W(i, x)
  BY <1>1 DEF W
<1>5. W(i, Upto)' = W(i, now + 1) /\ W(i, now + 1) \in Nat
  BY <1>1, <1>3, WFacts DEF W
<1>6. CASE First(i)
  <2>1. remaining[i] > 0 /\ now < ts[i].d /\ active[i]
    BY <1>1, <1>3, <1>6, WFacts DEF First, AllTimely, Timely, deadline
  <2>2. remaining[i] + Left(i) + now = W(i, now + 1) /\ \A y \in 0..now : W(i, y) > y
    BY <1>1, <1>2, <1>6 DEF Attaining
  <2>3. remaining'[i] + Left(i)' + (now + 1) = W(i, now + 1)
    BY <1>3, <2>1, <2>2, RunCases
  <2>4. CASE active'[i]
    <3>1. remaining'[i] > 0
      <4>1. AllTimely'
        BY TimelyStep DEF RtNext
      <4>2. 1 <= remaining'[i]
        BY <1>1, <1>3, <2>4, <4>1, WFacts DEF AllTimely, Timely
      <4>. QED BY <1>3, <4>2
    <3>2. W(i, now + 1) > now + 1
      BY <1>3, <1>5, <2>3, <3>1
    <3>3. \A y \in 0..(now + 1) : W(i, y) > y
      BY <1>3, <2>2, <3>2
    <3>4. Attaining(i)'
      BY <1>1, <1>4, <1>5, <2>3, <3>3 DEF Attaining
    <3>5. First(i)'
      BY <1>1, <1>6, <2>4 DEF First
    <3>. QED BY <3>4, <3>5 DEF Attained
  <2>5. CASE ~active'[i]
    <3>1. Left(i) = 0 /\ remaining[i] = 1
      BY <1>3, <2>1, <2>5, RunCases
    <3>2. W(i, now + 1) = now + 1
      BY <1>3, <2>2, <3>1
    <3>3. now + 1 \in 1..ts[i].d /\ \A y \in 0..(now + 1 - 1) : W(i, y) > y
      BY <1>3, <2>1, <2>2, WFacts
    <3>4. \E r \in 1..ts[i].d : W(i, r) = r /\ \A y \in 0..(r - 1) : W(i, y) > y
      <4> DEFINE r == now + 1
      <4>1. W(i, r) = r
        BY <3>2
      <4>2. r \in 1..ts[i].d
        BY <3>3
      <4>3. \A y \in 0..(r - 1) : W(i, y) > y
        <5>1. r - 1 = now
          BY <1>3
        <5> HIDE DEF r
        <5>. QED BY <2>2, <5>1
      <4> HIDE DEF r
      <4>. QED BY <4>1, <4>2, <4>3
    <3>5. ~First(i)'
      BY <2>5 DEF First
    <3>. QED BY <1>1, <1>4, <3>4, <3>5 DEF Attaining, Attained
  <2>. QED BY <2>4, <2>5
<1>7. CASE ~First(i)
  <2>1. ~First(i)'
    BY <1>1, <1>7, RunCases DEF First
  <2>2. \E r \in 1..ts[i].d : W(i, r) = r /\ \A y \in 0..(r - 1) : W(i, y) > y
    BY <1>1, <1>2, <1>3, <1>7 DEF Attained
  <2>. QED BY <1>1, <1>4, <2>1, <2>2 DEF Attaining, Attained
<1>. QED BY <1>6, <1>7

LEMMA ExactStep ==
  ASSUME Typed, AllTimely, Exact, [RtNext]_sim
  PROVE  Exact'
<1>1. ts' = ts /\ alpha' = alpha
  BY DEF RtNext, Check, Release, Run, Sweep, sim
<1> SUFFICES ASSUME alpha = 2, missed' = 0, NEW i \in DOMAIN ts
             PROVE  Attaining(i)' /\ Attained(i)'
  BY <1>1 DEF Exact
<1>2. CASE Check BY <1>2, ExactCheck
<1>3. CASE Release BY <1>3, ExactRelease
<1>4. CASE Run BY <1>4, ExactRun
<1>5. CASE Sweep \/ UNCHANGED sim
  <2>1. /\ now' = now /\ remaining' = remaining /\ released' = released /\ active' = active
        /\ Upto' = Upto /\ missed = 0
    <3>1. CASE UNCHANGED sim
      BY <3>1 DEF sim, Upto
    <3>2. CASE Sweep
      <4> DEFINE late == {k \in DOMAIN ts : active[k] /\ deadline(k) <= horizon}
      <4>1. missed' = missed + Cardinality(late) /\ pass = "check" /\ pass' = "done" /\ now' = now
        BY <3>2, SweepDoes
      <4>2. late \in SUBSET DOMAIN ts /\ IsFiniteSet(DOMAIN ts) /\ missed \in Nat
        BY Tasks, TaskFacts DEF Typed
      <4>3. Cardinality(late) \in Nat
        BY <4>2, FS_Subset, FS_CardinalityType
      <4>4. missed = 0
        <5> HIDE DEF late
        <5>. QED BY <4>1, <4>2, <4>3
      <4>. QED BY <3>2, <4>1, <4>4, SweepDoes DEF Upto, Sweep
    <3>. QED BY <1>5, <3>1, <3>2
  <2>2. Attaining(i) /\ Attained(i)
    BY <2>1 DEF Exact
  <2>3. Left(i)' = Left(i)
    BY <1>1, <2>1 DEF Left, hp
  <2>. QED BY <1>1, <2>1, <2>2, <2>3 DEF Attaining, Attained, First, W
<1>. QED BY <1>2, <1>3, <1>4, <1>5 DEF RtNext

(* The last pass settles what is due at the horizon.                        *)
Settled ==
  pass = "done" =>
    /\ now = horizon
    /\ missed = 0 => \A i \in DOMAIN ts : active[i] => deadline(i) > horizon

LEMMA SettledStep ==
  ASSUME Typed, Settled, [RtNext]_sim
  PROVE  Settled'
<1>1. CASE Sweep
  <2> DEFINE late == {i \in DOMAIN ts : active[i] /\ deadline(i) <= horizon}
  <2>1. /\ ts' = ts /\ now' = horizon /\ horizon' = horizon /\ active' = active
        /\ \A i : deadline(i)' = deadline(i)
    BY <1>1, SweepDoes DEF deadline, horizon
  <2>2. SUFFICES ASSUME missed' = 0, NEW i \in DOMAIN ts, active[i], deadline(i) <= horizon
                 PROVE  FALSE
    <3>1. \A i \in DOMAIN ts : deadline(i) \in Int
      BY Tasks, TaskFacts DEF Typed, deadline
    <3>. QED BY <2>1, <3>1, HorizonIsNat DEF Settled
  <2>3. missed' = missed + Cardinality(late) /\ IsFiniteSet(late) /\ Cardinality(late) \in Nat
    BY <1>1, SweepDoes
  <2>4. Cardinality(late) = 0
    <3> HIDE DEF late
    <3>. QED BY <2>2, <2>3 DEF Typed
  <2>5. late = {}
    BY <2>3, <2>4, FS_EmptySet
  <2>. QED BY <2>2, <2>5
<1>2. CASE UNCHANGED sim
  BY <1>2 DEF sim, Settled, horizon, deadline
<1>3. CASE Check \/ Release \/ Run
  BY <1>3, CheckDoes, ReleaseDoes, RunDoes DEF Settled
<1>. QED BY <1>1, <1>2, <1>3 DEF RtNext

-----------------------------------------------------------------------------
(* What is missed, and what may still be missed, was counted.               *)
Within == {i \in DOMAIN ts : active[i] /\ deadline(i) <= horizon}
Accounted ==
  /\ missed <= jobs
  /\ pass # "done" => missed + Cardinality(Within) <= jobs

LEMMA WithinFacts ==
  ASSUME Typed
  PROVE  /\ IsFiniteSet(Within) /\ Cardinality(Within) \in Nat
         /\ missed \in Nat /\ jobs \in Nat /\ horizon \in Nat
         /\ \A i \in DOMAIN ts : deadline(i) \in Nat
<1>1. Within \subseteq DOMAIN ts /\ IsFiniteSet(DOMAIN ts)
  BY Tasks, TaskFacts DEF Within
<1>2. \A i \in DOMAIN ts : deadline(i) \in Nat
  BY Tasks, TaskFacts DEF Typed, deadline
<1>. QED BY <1>1, <1>2, FS_Subset, FS_CardinalityType, HorizonIsNat DEF Typed

LEMMA AccountedStep ==
  ASSUME Typed, Accounted, [RtNext]_sim
  PROVE  Accounted'
<1>0. IsFiniteSet(Within) /\ Cardinality(Within) \in Nat /\ missed \in Nat /\ jobs \in Nat
  BY WithinFacts
<1>1. CASE Check
  <2>1. /\ ts' = ts /\ jobs' = jobs /\ pass = "check" /\ horizon' = horizon
        /\ missed' = missed + Cardinality(Overdue) /\ Cardinality(Overdue) \in Nat
        /\ \A i : deadline(i)' = deadline(i)
    BY <1>1, CheckDoes DEF deadline, horizon
  <2>2. Overdue \subseteq Within
    BY <1>1, CheckDoes, WithinFacts DEF Overdue, Within, Typed
  <2>3. Within' = Within \ Overdue
    BY <1>1, <2>1, CheckDoes DEF Within
  <2>4. Cardinality(Within \ Overdue) = Cardinality(Within) - Cardinality(Overdue)
    <3>1. Within \cap Overdue = Overdue
      BY <2>2
    <3>. QED BY <1>0, <3>1, FS_Difference
  <2>5. missed' + Cardinality(Within)' = missed + Cardinality(Within)
    BY <1>0, <2>1, <2>3, <2>4
  <2>6. missed + Cardinality(Within) <= jobs /\ Cardinality(Overdue) <= Cardinality(Within)
    <3>1. Cardinality(Within \ Overdue) \in Nat
      BY <1>0, FS_Difference, FS_CardinalityType
    <3>. QED BY <1>0, <2>1, <2>4, <3>1 DEF Accounted
  <2>. QED BY <1>0, <2>1, <2>5, <2>6 DEF Accounted
<1>2. CASE Release
  <2> DEFINE counted == Counted(Due)
  <2>1. /\ ts' = ts /\ now' = now /\ missed' = missed /\ horizon' = horizon /\ pass = "release"
        /\ IsFiniteSet(counted) /\ Cardinality(counted) \in Nat
        /\ jobs' = jobs + Cardinality(counted)
    BY <1>2, ReleaseDoes DEF horizon
  <2>2. Within' \subseteq Within \cup counted
    BY <1>2, <2>1, ReleaseDoes DEF Within, Counted, deadline
  <2>3. /\ Cardinality(Within \cup counted) <= Cardinality(Within) + Cardinality(counted)
        /\ IsFiniteSet(Within \cup counted)
    <3>1. /\ IsFiniteSet(Within \cup counted)
          /\ Cardinality(Within \cup counted)
               = Cardinality(Within) + Cardinality(counted) - Cardinality(Within \cap counted)
      BY <1>0, <2>1, FS_Union
    <3>2. Cardinality(Within \cap counted) \in Nat
      BY <1>0, FS_Intersection, FS_CardinalityType
    <3>. QED BY <1>0, <2>1, <3>1, <3>2
  <2>4. Cardinality(Within') <= Cardinality(Within \cup counted) /\ Cardinality(Within') \in Nat
        /\ Cardinality(Within \cup counted) \in Nat
    BY <2>2, <2>3, FS_Subset, FS_CardinalityType
  <2> HIDE DEF counted
  <2>. QED BY <1>0, <2>1, <2>3, <2>4 DEF Accounted
<1>3. CASE Run
  <2>1. /\ ts' = ts /\ now' = now + 1 /\ missed' = missed /\ jobs' = jobs /\ horizon' = horizon
        /\ pass = "run" /\ pass' = "check" /\ \A i : deadline(i)' = deadline(i)
    BY <1>3, RunDoes DEF horizon, deadline
  <2>2. \A i \in DOMAIN ts : active'[i] => active[i]
    BY <1>3, RunDoes DEF Runs
  <2>3. Within' \subseteq Within
    BY <2>1, <2>2 DEF Within
  <2>4. Cardinality(Within') <= Cardinality(Within) /\ Cardinality(Within') \in Nat
    BY <1>0, <2>3, FS_Subset, FS_CardinalityType
  <2>. QED BY <1>0, <2>1, <2>4 DEF Accounted
<1>4. CASE Sweep
  <2>1. missed' = missed + Cardinality(Within) /\ jobs' = jobs /\ pass = "check" /\ pass' = "done"
    BY <1>4, SweepDoes DEF Within
  <2>. QED BY <1>0, <2>1 DEF Accounted
<1>5. CASE UNCHANGED sim
  BY <1>5 DEF sim, Accounted, Within, horizon, deadline
<1>. QED BY <1>1, <1>2, <1>3, <1>4, <1>5 DEF RtNext

-----------------------------------------------------------------------------
IInv ==
  /\ Typed /\ AllTimely /\ Bounded /\ Passed /\ Exact /\ Settled /\ Accounted

LEMMA TypedInit == ASSUME RtInit PROVE Typed /\ AllTimely /\ Passed /\ Settled
<1>1. Typed
  BY DEF RtInit, Typed, Passes
<1>2. \A i \in DOMAIN ts : ts[i].t \in Nat /\ ts[i].t > 0
  BY <1>1, Tasks, TaskFacts
<1>3. \A i \in DOMAIN ts : 0 % ts[i].t = 0
  BY <1>2, ZeroMultiple
<1>. QED BY <1>1, <1>2, <1>3 DEF RtInit, AllTimely, Timely, Passed, Settled, Upto

LEMMA AccountedInit == ASSUME RtInit PROVE Accounted
<1>1. Within = {}
  BY DEF RtInit, Within
<1>. QED BY <1>1, FS_EmptySet DEF RtInit, Accounted

LEMMA IInvInit == RtInit => IInv
BY TypedInit, AccountedInit, BoundedInit, ExactInit, RtAssumption DEF IInv

LEMMA IInvNext == IInv /\ [RtNext]_sim => IInv'
<1> SUFFICES ASSUME IInv, [RtNext]_sim PROVE IInv'
  OBVIOUS
<1>1. Typed'
  BY CheckDoes, ReleaseDoes, RunDoes, SweepDoes DEF IInv, RtNext, sim, Typed
<1>. QED BY <1>1, TimelyStep, BoundedStep, PassedStep, ExactStep, SettledStep, AccountedStep DEF IInv

-----------------------------------------------------------------------------
LEMMA MaxFacts ==
  ASSUME NEW tasks, IsTaskSet(tasks), Word \in Nat
  PROVE  \A i \in DOMAIN tasks : max_d(tasks) \in Nat /\ tasks[i].d <= max_d(tasks)
<1> DEFINE S == {tasks[i].d : i \in DOMAIN tasks}
<1>1. S \subseteq 0..Word
  BY TaskFacts
<1> SUFFICES ASSUME NEW i \in DOMAIN tasks PROVE max_d(tasks) \in Nat /\ tasks[i].d <= max_d(tasks)
  OBVIOUS
<1>2. S # {}
  OBVIOUS
<1>3. \E y \in S : \A z \in S : z <= y
  BY <1>1, <1>2, GreatestIn
<1>4. \E y \in S : \A z \in S : y >= z
  BY <1>1, <1>3
<1>5. Max(S) \in S /\ \A z \in S : Max(S) >= z
  BY <1>4 DEF Max
<1>. QED BY <1>1, <1>5 DEF max_d

LEMMA VerdictHolds == IInv => HardVerdictIsExact
<1> SUFFICES ASSUME IInv PROVE HardVerdictIsExact
  OBVIOUS
<1>1. (schedulable(ts, "RM") => missed = 0) /\ missed <= jobs /\ missed \in Nat
  BY DEF IInv, Passed, Accounted, Typed
<1>2. ASSUME pass = "done", alpha = 2, horizon >= max_d(ts), missed = 0
      PROVE  schedulable(ts, "RM")
  <2> SUFFICES ASSUME NEW i \in DOMAIN ts PROVE wcrt(ts, "RM", i) # Late
    BY DEF schedulable
  <2>1. /\ IsTaskSet(ts) /\ "RM" \in Policies /\ Word \in Nat
        /\ ts[i].d \in Nat /\ ts[i].d > 0 /\ horizon \in Nat
    BY Tasks, TaskFacts, HorizonIsNat DEF IInv, Policies
  <2>2. max_d(ts) \in Nat /\ ts[i].d <= max_d(ts) /\ now = horizon
    BY <1>2, <2>1, MaxFacts DEF IInv, Settled
  <2>3. ~First(i)
    BY <1>2, <2>1, <2>2 DEF IInv, Settled, First, deadline
  <2>4. Upto > 0
    BY <1>2, <2>1, <2>2 DEF Upto
  <2>5. PICK r \in 1..ts[i].d : W(i, r) = r
    BY <1>2, <2>3, <2>4 DEF IInv, Exact, Attained
  <2>. QED BY <2>1, <2>5, Response DEF W
<1>. QED BY <1>1, <1>2 DEF HardVerdictIsExact

(* HardVerdictIsExact: a set that the analysis passes is never seen to miss,*)
(* one that it rejects always is when its jobs take their worst case and    *)
(* the horizon holds the first of them, and no more is missed than counted. *)
THEOREM VerdictIsExact == RtSpec => [](HardVerdictIsExact)
BY IInvInit, IInvNext, VerdictHolds, PTL DEF RtSpec

LEMMA CompletionStep ==
  ASSUME IInv, [RtNext]_sim
  PROVE  [\A i \in DOMAIN ts : InWorstCase(i) /\ AttainsWorstCase(i)]_sim
<1> SUFFICES ASSUME RtNext, NEW i \in DOMAIN ts, pass = "run", active[i], ~active'[i]
             PROVE  /\ wcrt(ts, "RM", i) # Late => now' - released[i] <= wcrt(ts, "RM", i)
                    /\ alpha = 2 /\ schedulable(ts, "RM") /\ released[i] = 0
                         => now' = wcrt(ts, "RM", i)
  BY DEF InWorstCase, AttainsWorstCase
<1> DEFINE w == wcrt(ts, "RM", i)
<1>1. Run
  BY DEF RtNext, Check, Release, Sweep
<1>2. Typed /\ Bounded /\ AllTimely /\ Passed /\ Exact
  BY DEF IInv
<1>3. now' = now + 1 /\ now \in Nat /\ released[i] \in Nat /\ Upto = now + 1
  BY <1>1, <1>2, RunDoes DEF Typed, Upto
<1>4. IsTaskSet(ts) /\ "RM" \in Policies /\ ts[i].d \in Nat
  BY <1>2, Tasks, TaskFacts DEF Policies
<1>5. w # Late => /\ w \in 1..ts[i].d
                  /\ W(i, w) = w
                  /\ \A y \in 0..(w - 1) : W(i, y) > y
  BY <1>4, Response DEF W
<1>6. w # Late => now - released[i] < w
  BY <1>2, Meets
<1>7. ASSUME alpha = 2, schedulable(ts, "RM"), released[i] = 0
      PROVE  now' = w
  <2>1. w # Late
    BY <1>7 DEF schedulable
  <2>2. remaining[i] + Left(i) + now = W(i, now + 1) /\ \A y \in 0..now : W(i, y) > y
    BY <1>2, <1>3, <1>7 DEF Passed, Exact, Attaining, First
  <2>3. Left(i) = 0 /\ remaining[i] = 1
    <3>1. remaining[i] \in Nat /\ Left(i) = 0 /\ ~(remaining[i] > 1) /\ remaining[i] > 0
      BY <1>1, <1>2, RunCases DEF Typed
    <3>. QED BY <3>1
  <2>4. W(i, now + 1) = now + 1
    BY <1>3, <2>2, <2>3
  <2> HIDE DEF w
  <2>5. ~(w \in 0..now)
    <3>1. W(i, w) = w /\ w \in Nat
      BY <1>4, <1>5, <2>1
    <3>2. \A y \in 0..now : W(i, y) > y
      BY <2>2
    <3>. QED BY <3>1, <3>2
  <2>6. ~(now + 1 \in 0..(w - 1))
    <3> DEFINE n == now + 1
    <3>1. W(i, n) = n /\ n \in Nat
      BY <1>3, <2>4
    <3>2. \A y \in 0..(w - 1) : W(i, y) > y
      BY <1>5, <2>1
    <3> HIDE DEF n
    <3>3. ~(n \in 0..(w - 1))
      BY <3>1, <3>2
    <3>. QED BY <3>3 DEF n
  <2>. QED BY <1>3, <1>4, <1>5, <2>1, <2>5, <2>6
<1>8. w # Late => now' - released[i] <= w
  <2> HIDE DEF w
  <2>. QED BY <1>3, <1>4, <1>5, <1>6
<1>. QED BY <1>7, <1>8

(* WorstCaseIsExact: the worst case of the certificate bounds the response  *)
(* of every completed job, and is attained at the start.                    *)
THEOREM ResponseIsExact == RtSpec => WorstCaseIsExact
<1>1. IInv /\ [RtNext]_sim => [\A i \in DOMAIN ts : InWorstCase(i) /\ AttainsWorstCase(i)]_sim
  BY CompletionStep
<1>. QED BY <1>1, IInvInit, IInvNext, PTL DEF RtSpec, WorstCaseIsExact

-----------------------------------------------------------------------------
(* More of sums: over a part that holds all there is, and multiplied.       *)
LEMMA SumsPart ==
  ASSUME NEW D, IsFiniteSet(D), NEW f \in [D -> Int], NEW S \in SUBSET D,
         \A k \in D \ S : f[k] = 0
  PROVE  Sum(f) = Sum([k \in S |-> f[k]])
<1> DEFINE T == {s \in SUBSET D : Sums(f)[s] = Sums(f)[s \cap S]}
           part == [k \in S |-> f[k]]
<1>1. ASSUME NEW s \in SUBSET D, \A r \in SUBSET s : r # s => r \in T
      PROVE  s \in T
  <2>1. CASE s = {}
    <3>1. s \cap S = s
      BY <2>1
    <3>. QED BY <3>1
  <2>2. CASE s # {}
    <3>1. PICK y \in s : TRUE
      BY <2>2
    <3>2. Sums(f)[s] = f[y] + Sums(f)[s \ {y}]
      BY <3>1, SumsAny
    <3>3. s \ {y} \in SUBSET s /\ s \ {y} # s
      BY <3>1
    <3>4. Sums(f)[s \ {y}] = Sums(f)[(s \ {y}) \cap S]
      BY <1>1, <3>3
    <3>5. CASE y \in S
      <4>1. Sums(f)[s \cap S] = f[y] + Sums(f)[(s \cap S) \ {y}]
        BY <3>1, <3>5, SumsAny
      <4>2. (s \cap S) \ {y} = (s \ {y}) \cap S
        OBVIOUS
      <4>. QED BY <3>2, <3>4, <4>1, <4>2
    <3>6. CASE y \notin S
      <4>1. (s \ {y}) \cap S = s \cap S /\ f[y] = 0 /\ s \cap S \in SUBSET D
        BY <3>1, <3>6
      <4>2. Sums(f)[s \cap S] \in Int
        BY <4>1, SumsInt
      <4>. QED BY <3>2, <3>4, <4>1, <4>2
    <3>. QED BY <3>5, <3>6
  <2>. QED BY <2>1, <2>2
<1> HIDE DEF T
<1>2. D \in T
  BY <1>1, GrowingSets
<1>3. Sums(f)[D] = Sums(f)[S]
  <2>1. D \cap S = S
    OBVIOUS
  <2>. QED BY <1>2, <2>1 DEF T
<1>4. part \in [S -> Int] /\ IsFiniteSet(S)
  BY FS_Subset
<1>5. Sums(f)[S] = Sums(part)[S]
  BY <1>4, SumsLocal
<1>. QED BY <1>3, <1>4, <1>5, SumIsSums

LEMMA SumScale ==
  ASSUME NEW D, IsFiniteSet(D), NEW f \in [D -> Int], NEW a \in Int, NEW g \in [D -> Int],
         \A k \in D : g[k] = a * f[k]
  PROVE  Sum(g) = a * Sum(f)
<1>0. \A k \in [D -> Int] : \A s \in SUBSET D : \A y \in s :
        Sums(k)[s] = k[y] + Sums(k)[s \ {y}]
  BY SumsSplit, Zenon
<1>a. \A s \in SUBSET D : \A y \in s : Sums(f)[s] = f[y] + Sums(f)[s \ {y}]
  BY <1>0, Zenon
<1>b. \A s \in SUBSET D : \A y \in s : Sums(g)[s] = g[y] + Sums(g)[s \ {y}]
  BY <1>0, Zenon
<1> DEFINE T == {s \in SUBSET D : Sums(g)[s] = a * Sums(f)[s]}
<1>1. ASSUME NEW s \in SUBSET D, \A r \in SUBSET s : r # s => r \in T
      PROVE  s \in T
  <2>1. CASE s = {}
    <3>1. Sums(f)[s] = 0
      BY <2>1, SumsAt
    <3>2. Sums(g)[s] = 0
      BY <2>1, SumsAt
    <3>3. a * 0 = 0
      OBVIOUS
    <3>. QED BY <3>1, <3>2, <3>3
  <2>2. CASE s # {}
    <3>1. PICK y \in s : TRUE
      BY <2>2
    <3>2. Sums(f)[s] = f[y] + Sums(f)[s \ {y}] /\ Sums(g)[s] = g[y] + Sums(g)[s \ {y}]
      <4>1. Sums(f)[s] = f[y] + Sums(f)[s \ {y}]
        BY <1>a, <3>1, Zenon
      <4>2. Sums(g)[s] = g[y] + Sums(g)[s \ {y}]
        BY <1>b, <3>1, Zenon
      <4>. QED BY <4>1, <4>2
    <3>3. s \ {y} \in SUBSET s /\ s \ {y} # s
      BY <3>1
    <3>4. Sums(g)[s \ {y}] = a * Sums(f)[s \ {y}]
      BY <1>1, <3>3
    <3>5. Sums(f)[s \ {y}] \in Int /\ f[y] \in Int /\ g[y] = a * f[y]
      BY <3>1, SumsInt
    <3>. QED BY <3>2, <3>4, <3>5
  <2>. QED BY <2>1, <2>2
<1> HIDE DEF T
<1>2. D \in T
  BY <1>1, GrowingSets
<1>. QED BY <1>2, SumIsSums DEF T

-----------------------------------------------------------------------------
(* The demand bound counts the deadlines of each task up to t.              *)
Jobs(task, t) == (t + (task.t - task.d)) \div task.t
DemandBound(tasks, t) == Sum([i \in DOMAIN tasks |-> Jobs(tasks[i], t) * tasks[i].c])

LEMMA JobsFacts ==
  ASSUME NEW tasks, IsTaskSet(tasks), NEW i \in DOMAIN tasks, NEW t \in Nat
  PROVE  /\ Jobs(tasks[i], t) \in Nat
         /\ t < tasks[i].d => Jobs(tasks[i], t) = 0
         /\ t >= tasks[i].d => Jobs(tasks[i], t) = (t - tasks[i].d) \div tasks[i].t + 1
         /\ Jobs(tasks[i], t) * tasks[i].t <= t + (tasks[i].t - tasks[i].d)
         /\ t + (tasks[i].t - tasks[i].d) < Jobs(tasks[i], t) * tasks[i].t + tasks[i].t
<1> DEFINE T == tasks[i].t
           d == tasks[i].d
           o == T - d
           q == (t + o) \div T
<1>1. T \in Nat /\ T > 0 /\ d \in Nat /\ d > 0 /\ d <= T
  BY TaskFacts
<1>2. o \in Nat /\ o < T /\ t + o \in Nat
  BY <1>1
<1>3. Jobs(tasks[i], t) = q
  BY DEF Jobs
<1> HIDE DEF T, d, o, q
<1>4. q \in Nat /\ (t + o) % T \in Nat /\ (t + o) % T < T /\ t + o = q * T + ((t + o) % T)
  BY <1>1, <1>2, DivIs DEF q
<1>5. q * T <= t + o /\ t + o < q * T + T
  BY <1>1, <1>2, <1>4
<1>6. ASSUME t < d PROVE q = 0
  <2>1. t + o = 0 * T + (t + o) /\ 0 <= t + o /\ t + o < T /\ t + o \in Int
    BY <1>1, <1>2, <1>6 DEF o
  <2>. QED BY <1>1, <1>2, <2>1, DivAtLeast DEF q
<1>7. ASSUME t >= d PROVE q = (t - d) \div T + 1
  <2> DEFINE p == (t - d) \div T
             r == (t - d) % T
  <2>1. t - d \in Nat
    BY <1>1, <1>7
  <2>2. p \in Nat /\ r \in Nat /\ r < T /\ t - d = p * T + r
    BY <1>1, <2>1, DivIs
  <2> HIDE DEF p, r
  <2>3. (p + 1) * T = p * T + T /\ p * T \in Int
    BY <1>1, <2>2
  <2>4. t + o = (p + 1) * T + r
    BY <1>1, <2>2, <2>3 DEF o
  <2>5. (t + o) \div T = p + 1
    BY <1>1, <1>2, <2>2, <2>4, DivAtLeast
  <2>. QED BY <2>5 DEF p, q
<1>8. t + (tasks[i].t - tasks[i].d) = t + o /\ T = tasks[i].t
  BY DEF T, d, o
<1>. QED BY <1>3, <1>4, <1>5, <1>6, <1>7, <1>8 DEF T, d

LEMMA DemandBoundFacts ==
  ASSUME NEW tasks, IsTaskSet(tasks), NEW t \in Nat
  PROVE  /\ [i \in DOMAIN tasks |-> Jobs(tasks[i], t) * tasks[i].c] \in [DOMAIN tasks -> Nat]
         /\ DemandBound(tasks, t) \in Nat
         /\ dbf(tasks, t) = DemandBound(tasks, t)
<1> DEFINE f == [i \in DOMAIN tasks |-> Jobs(tasks[i], t) * tasks[i].c]
           S == {j \in DOMAIN tasks : tasks[j].d <= t}
           g == [i \in S |-> ((t - tasks[i].d) \div tasks[i].t + 1) * tasks[i].c]
<1>1. f \in [DOMAIN tasks -> Nat] /\ IsFiniteSet(DOMAIN tasks)
  BY JobsFacts, TaskFacts
<1>2. \A k \in DOMAIN tasks \ S : f[k] = 0
  <2> SUFFICES ASSUME NEW k \in DOMAIN tasks, ~(tasks[k].d <= t) PROVE f[k] = 0
    OBVIOUS
  <2>1. t < tasks[k].d /\ tasks[k].c \in Nat
    BY TaskFacts
  <2>2. Jobs(tasks[k], t) = 0
    BY <2>1, JobsFacts
  <2>. QED BY <2>1, <2>2
<1>3. f \in [DOMAIN tasks -> Int] /\ S \in SUBSET DOMAIN tasks
  BY <1>1
<1>4. [k \in S |-> f[k]] = g
  <2>1. \A k \in S : f[k] = ((t - tasks[k].d) \div tasks[k].t + 1) * tasks[k].c
    BY JobsFacts, TaskFacts
  <2> HIDE DEF f
  <2>. QED BY <2>1
<1>5. Sum(f) = Sum(g)
  <2> HIDE DEF f, S, g
  <2>1. Sum(f) = Sum([k \in S |-> f[k]])
    BY <1>1, <1>2, <1>3, SumsPart
  <2>. QED BY <1>4, <2>1
<1>6. Sum(f) \in Nat
  <2> HIDE DEF f
  <2>. QED BY <1>1, SumNat
<1>. QED BY <1>1, <1>5, <1>6 DEF DemandBound, dbf

(* It steps only at the deadlines, which are the points the test checks.    *)
LEMMA BoundSteps ==
  ASSUME NEW tasks, IsTaskSet(tasks), NEW t \in Nat, t > 0,
         \A i \in DOMAIN tasks : ~(t >= tasks[i].d /\ (t - tasks[i].d) % tasks[i].t = 0)
  PROVE  dbf(tasks, t) = dbf(tasks, t - 1)
<1>1. ASSUME NEW i \in DOMAIN tasks PROVE Jobs(tasks[i], t) = Jobs(tasks[i], t - 1)
  <2> DEFINE T == tasks[i].t
             o == T - tasks[i].d
             q == Jobs(tasks[i], t)
  <2>1. T \in Nat /\ T > 0 /\ tasks[i].d \in Nat /\ tasks[i].d > 0 /\ tasks[i].d <= T
    BY TaskFacts
  <2>2. /\ q \in Nat /\ q * T <= t + o /\ t + o < q * T + T
        /\ t < tasks[i].d => q = 0
        /\ t >= tasks[i].d => q = (t - tasks[i].d) \div T + 1
    BY JobsFacts
  <2>3. o \in Nat /\ q * T \in Int /\ q * T \in Nat
    BY <2>1, <2>2
  <2>4. q * T # t + o
    <3>1. CASE t < tasks[i].d
      <4>1. q * T = 0
        BY <2>1, <2>2, <3>1
      <4>. QED BY <2>3, <4>1
    <3>2. CASE t >= tasks[i].d
      <4> DEFINE p == (t - tasks[i].d) \div T
                 r == (t - tasks[i].d) % T
      <4>1. t - tasks[i].d \in Nat
        BY <2>1, <3>2
      <4>2. p \in Nat /\ r \in Nat /\ t - tasks[i].d = p * T + r
        BY <2>1, <4>1, DivIs
      <4>3. r # 0 /\ q = p + 1
        BY <2>2, <3>2
      <4> HIDE DEF p, r, q
      <4>4. (p + 1) * T = p * T + T /\ p * T \in Int
        BY <2>1, <4>2
      <4>5. t + o = p * T + T + r
        <5>1. o = T - tasks[i].d
          OBVIOUS
        <5> DEFINE m == p * T
                   d == tasks[i].d
        <5>2. m \in Int /\ t - d = m + r /\ d \in Nat /\ T \in Nat /\ r \in Nat
          BY <2>1, <4>2, <4>4
        <5> HIDE DEF m, d, T
        <5>3. t + (T - d) = m + T + r
          BY <5>2
        <5>. QED BY <5>1, <5>3 DEF m, d
      <4>. QED BY <2>1, <4>2, <4>3, <4>4, <4>5
    <3>. QED BY <2>1, <3>1, <3>2
  <2>5. ((t - 1) + o) \div T = q
    <3> DEFINE a == (t - 1) + o
               r == a - q * T
    <3> HIDE DEF q
    <3>1. a \in Nat /\ r \in Int /\ a = q * T + r /\ 0 <= r /\ r < T
      <4> HIDE DEF T, o
      <4>. QED BY <2>1, <2>2, <2>3, <2>4
    <3> HIDE DEF a, r
    <3>2. a \div T = q
      <4>1. T \in Nat /\ T > 0 /\ q \in Int
        BY <2>1, <2>2
      <4> HIDE DEF T
      <4>. QED BY <4>1, <3>1, DivAtLeast
    <3>. QED BY <3>2 DEF a
  <2>. QED BY <2>5 DEF Jobs
<1>2. t - 1 \in Nat
  OBVIOUS
<1>3. DemandBound(tasks, t) = DemandBound(tasks, t - 1)
  BY <1>1 DEF DemandBound
<1>. QED BY <1>2, <1>3, DemandBoundFacts

LEMMA BoundAtZero == ASSUME NEW tasks, IsTaskSet(tasks) PROVE dbf(tasks, 0) = 0
<1> DEFINE z == 0
           f == [i \in DOMAIN tasks |-> Jobs(tasks[i], z) * tasks[i].c]
<1>1. z \in Nat
  OBVIOUS
<1>2. \A i \in DOMAIN tasks : Jobs(tasks[i], z) = 0 /\ tasks[i].c \in Nat
  BY <1>1, JobsFacts, TaskFacts
<1>3. f \in [DOMAIN tasks -> Int] /\ \A i \in DOMAIN tasks : f[i] = 0
  <2> HIDE DEF z
  <2>. QED BY <1>2
<1>4. Sum(f) = 0
  <2> HIDE DEF f
  <2>. QED BY <1>3, SumZero, TaskFacts
<1>5. dbf(tasks, z) = Sum(f)
  <2> HIDE DEF z
  <2>. QED BY <1>1, DemandBoundFacts DEF DemandBound
<1>. QED BY <1>4, <1>5

LEMMA PointsAreEnough ==
  ASSUME NEW tasks, IsTaskSet(tasks), NEW l \in Nat
  PROVE  (\A t \in Points(tasks, l) : dbf(tasks, t) <= t) <=> \A t \in 1..l : dbf(tasks, t) <= t
<1>1. (\A t \in 1..l : dbf(tasks, t) <= t) => \A t \in Points(tasks, l) : dbf(tasks, t) <= t
  BY DEF Points
<1>2. ASSUME \A t \in Points(tasks, l) : dbf(tasks, t) <= t,
             NEW t0 \in 1..l, ~(dbf(tasks, t0) <= t0)
      PROVE  FALSE
  <2> DEFINE T == {t \in 1..l : ~(dbf(tasks, t) <= t)}
  <2>1. PICK t \in T : \A k \in T : t <= k
    <3>1. T \subseteq Nat /\ T # {}
      BY <1>2
    <3> HIDE DEF T
    <3>. QED BY <3>1, LeastNumber
  <2>2. t \in Nat /\ t > 0 /\ t - 1 \in Nat
    OBVIOUS
  <2>3. t \notin Points(tasks, l)
    BY <1>2
  <2>4. dbf(tasks, t) = dbf(tasks, t - 1)
    BY <2>2, <2>3, BoundSteps DEF Points
  <2>5. t - 1 \notin T
    BY <2>1, <2>2
  <2>6. dbf(tasks, t) \in Nat /\ dbf(tasks, t - 1) \in Nat
    BY <2>2, DemandBoundFacts
  <2>7. CASE t = 1
    BY <2>4, <2>7, BoundAtZero
  <2>8. CASE t # 1
    BY <2>2, <2>4, <2>5, <2>6, <2>8
  <2>. QED BY <2>7, <2>8
<1>. QED BY <1>1, <1>2

-----------------------------------------------------------------------------
(* The bound grows by the load with each hyperperiod.                       *)
LoadOf(tasks) == [i \in DOMAIN tasks |-> tasks[i].c * (hyper(tasks) \div tasks[i].t)]
SlackOf(tasks) ==
  [i \in DOMAIN tasks |->
     (tasks[i].t - tasks[i].d) * tasks[i].c * (hyper(tasks) \div tasks[i].t)]

LEMMA LoadFacts ==
  ASSUME NEW tasks, IsTaskSet(tasks)
  PROVE  /\ hyper(tasks) \in Nat /\ hyper(tasks) > 0
         /\ Load(tasks) = Sum(LoadOf(tasks)) /\ Slack(tasks) = Sum(SlackOf(tasks))
         /\ LoadOf(tasks) \in [DOMAIN tasks -> Nat] /\ SlackOf(tasks) \in [DOMAIN tasks -> Nat]
         /\ Load(tasks) \in Nat /\ Slack(tasks) \in Nat
         /\ \A i \in DOMAIN tasks : /\ hyper(tasks) \div tasks[i].t \in Nat
                                    /\ (hyper(tasks) \div tasks[i].t) * tasks[i].t = hyper(tasks)
<1>1. hyper(tasks) \in Nat /\ hyper(tasks) > 0
  BY HyperFacts
<1>2. ASSUME NEW i \in DOMAIN tasks
      PROVE  /\ hyper(tasks) \div tasks[i].t \in Nat
             /\ (hyper(tasks) \div tasks[i].t) * tasks[i].t = hyper(tasks)
  <2>1. tasks[i].t \in Nat /\ tasks[i].t > 0 /\ hyper(tasks) % tasks[i].t = 0
    BY TaskFacts, HyperFacts
  <2>. QED BY <1>1, <2>1, Multiple
<1>3. LoadOf(tasks) \in [DOMAIN tasks -> Nat]
  BY <1>2, TaskFacts DEF LoadOf
<1>4. SlackOf(tasks) \in [DOMAIN tasks -> Nat]
  <2>1. ASSUME NEW i \in DOMAIN tasks
        PROVE  (tasks[i].t - tasks[i].d) * tasks[i].c * (hyper(tasks) \div tasks[i].t) \in Nat
    <3> DEFINE o == tasks[i].t - tasks[i].d
               q == hyper(tasks) \div tasks[i].t
    <3>1. o \in Nat /\ tasks[i].c \in Nat /\ q \in Nat
      BY <1>2, TaskFacts
    <3> HIDE DEF o, q
    <3>2. o * tasks[i].c \in Nat
      BY <3>1
    <3>3. (o * tasks[i].c) * q \in Nat
      BY <3>1, <3>2
    <3>. QED BY <3>3 DEF o, q
  <2>. QED BY <2>1 DEF SlackOf
<1>5. Load(tasks) = Sum(LoadOf(tasks)) /\ Slack(tasks) = Sum(SlackOf(tasks))
  BY DEF Load, Slack, LoadOf, SlackOf
<1>. QED BY <1>1, <1>2, <1>3, <1>4, <1>5, SumNat, TaskFacts

LEMMA BoundPeriodic ==
  ASSUME NEW tasks, IsTaskSet(tasks), NEW t \in Nat
  PROVE  dbf(tasks, t + hyper(tasks)) = dbf(tasks, t) + Load(tasks)
<1> DEFINE H == hyper(tasks)
           f == [i \in DOMAIN tasks |-> Jobs(tasks[i], t) * tasks[i].c]
           h == [i \in DOMAIN tasks |-> Jobs(tasks[i], t + H) * tasks[i].c]
<1>1. H \in Nat /\ t + H \in Nat
  BY LoadFacts
<1>2. ASSUME NEW i \in DOMAIN tasks
      PROVE  Jobs(tasks[i], t + H) * tasks[i].c = f[i] + LoadOf(tasks)[i]
  <2> DEFINE T == tasks[i].t
             o == T - tasks[i].d
             p == Jobs(tasks[i], t)
             q == H \div T
             r == (t + o) % T
  <2>1. T \in Nat /\ T > 0 /\ o \in Nat /\ t + o \in Nat /\ tasks[i].c \in Nat
    BY TaskFacts
  <2>2. q \in Nat /\ q * T = H
    BY LoadFacts
  <2>3. p \in Nat /\ r \in Nat /\ r < T /\ t + o = p * T + r
    BY <2>1, DivIs DEF Jobs
  <2>4. (t + H) + o = (p + q) * T + r
    <3> HIDE DEF H, T, o, p, q, r
    <3>1. (p + q) * T = p * T + q * T /\ p * T \in Int
      BY <2>1, <2>2, <2>3
    <3>. QED BY <1>1, <2>1, <2>2, <2>3, <3>1
  <2>5. Jobs(tasks[i], t + H) = p + q
    <3>1. ((t + H) + o) \div T = p + q
      <4> HIDE DEF H, T, o, p, q, r
      <4>. QED BY <1>1, <2>1, <2>2, <2>3, <2>4, DivAtLeast
    <3>. QED BY <3>1 DEF Jobs
  <2>6. f[i] = p * tasks[i].c /\ LoadOf(tasks)[i] = tasks[i].c * q
    BY DEF LoadOf
  <2>7. (p + q) * tasks[i].c = p * tasks[i].c + tasks[i].c * q
    <3> HIDE DEF p, q
    <3>. QED BY <2>1, <2>2, <2>3
  <2>. QED BY <2>5, <2>6, <2>7
<1>3. \A i \in DOMAIN tasks : h[i] = f[i] + LoadOf(tasks)[i]
  BY <1>2
<1>4. /\ f \in [DOMAIN tasks -> Nat] /\ h \in [DOMAIN tasks -> Nat]
      /\ dbf(tasks, t) = Sum(f) /\ dbf(tasks, t + H) = Sum(h)
  <2> HIDE DEF H
  <2>. QED BY <1>1, DemandBoundFacts DEF DemandBound
<1>5. /\ LoadOf(tasks) \in [DOMAIN tasks -> Int] /\ IsFiniteSet(DOMAIN tasks)
      /\ Load(tasks) = Sum(LoadOf(tasks))
  BY LoadFacts, TaskFacts
<1>6. f \in [DOMAIN tasks -> Int] /\ h \in [DOMAIN tasks -> Int]
  BY <1>4
<1> HIDE DEF f, h, H
<1>7. Sum(h) = Sum(f) + Sum(LoadOf(tasks))
  BY <1>3, <1>5, <1>6, SumAdd
<1>. QED BY <1>4, <1>5, <1>7 DEF H

(* ... and stays under the line of the load and the slack.                  *)
LEMMA BoundLine ==
  ASSUME NEW tasks, IsTaskSet(tasks), NEW t \in Nat
  PROVE  hyper(tasks) * dbf(tasks, t) <= t * Load(tasks) + Slack(tasks)
<1> DEFINE H == hyper(tasks)
           D == DOMAIN tasks
           f == [i \in D |-> Jobs(tasks[i], t) * tasks[i].c]
           hf == [i \in D |-> H * f[i]]
           tl == [i \in D |-> t * LoadOf(tasks)[i]]
           sum == [i \in D |-> tl[i] + SlackOf(tasks)[i]]
<1>1. /\ H \in Nat /\ IsFiniteSet(D)
      /\ Load(tasks) = Sum(LoadOf(tasks)) /\ Slack(tasks) = Sum(SlackOf(tasks))
      /\ LoadOf(tasks) \in [D -> Nat] /\ SlackOf(tasks) \in [D -> Nat]
      /\ Load(tasks) \in Nat /\ Slack(tasks) \in Nat
  BY LoadFacts, TaskFacts
<1>2. f \in [D -> Nat] /\ dbf(tasks, t) = Sum(f) /\ Sum(f) \in Nat
  BY DemandBoundFacts DEF DemandBound
<1>3. hf \in [D -> Int] /\ \A i \in D : hf[i] = H * f[i]
  <2> HIDE DEF H, f, D
  <2>. QED BY <1>1, <1>2
<1>4. tl \in [D -> Int] /\ \A i \in D : tl[i] = t * LoadOf(tasks)[i]
  <2> HIDE DEF D
  <2>. QED BY <1>1
<1>5. sum \in [D -> Int] /\ \A i \in D : sum[i] = tl[i] + SlackOf(tasks)[i]
  <2> HIDE DEF D, tl
  <2>. QED BY <1>1, <1>4
<1>6. ASSUME NEW i \in D PROVE hf[i] <= sum[i]
  <2> DEFINE T == tasks[i].t
             o == T - tasks[i].d
             c == tasks[i].c
             n == Jobs(tasks[i], t)
             q == H \div T
  <2>1. T \in Nat /\ o \in Nat /\ c \in Nat /\ n \in Nat /\ n * T <= t + o
    BY TaskFacts, JobsFacts
  <2>2. q \in Nat /\ q * T = H
    BY LoadFacts
  <2>3. hf[i] = H * (n * c) /\ tl[i] = t * (c * q) /\ SlackOf(tasks)[i] = o * c * q
    BY DEF LoadOf, SlackOf
  <2>4. sum[i] = t * (c * q) + o * c * q
    BY <1>5, <2>3
  <2> HIDE DEF T, o, c, n, q, H, hf, sum
  <2>5. (n * T) * (q * c) <= (t + o) * (q * c)
    <3>1. n * T \in Int /\ t + o \in Int /\ q * c \in Nat
      BY <2>1, <2>2
    <3> DEFINE a == n * T
               b == t + o
               e == q * c
    <3>2. a \in Int /\ b \in Int /\ e \in Nat /\ a <= b
      BY <2>1, <3>1
    <3> HIDE DEF a, b, e
    <3>3. a * e <= b * e
      BY <3>2, Times
    <3>. QED BY <3>3 DEF a, b, e
  <2>6. (n * T) * (q * c) = (q * T) * (n * c)
    BY <2>1, <2>2
  <2>7. (t + o) * (q * c) = t * (c * q) + o * c * q
    BY <2>1, <2>2
  <2>. QED BY <2>2, <2>3, <2>4, <2>5, <2>6, <2>7
<1>7. /\ LoadOf(tasks) \in [D -> Int] /\ SlackOf(tasks) \in [D -> Int] /\ f \in [D -> Int]
      /\ H \in Int /\ t \in Int
  BY <1>1, <1>2
<1> HIDE DEF H, f, hf, tl, sum, D
<1>8. Sum(hf) = H * Sum(f)
  BY <1>1, <1>3, <1>7, SumScale
<1>9. Sum(tl) = t * Sum(LoadOf(tasks))
  BY <1>1, <1>4, <1>7, SumScale
<1>10. Sum(sum) = Sum(tl) + Sum(SlackOf(tasks))
  BY <1>1, <1>4, <1>5, <1>7, SumAdd
<1>11. Sum(hf) <= Sum(sum)
  BY <1>1, <1>3, <1>5, <1>6, SumLe
<1>. QED BY <1>1, <1>2, <1>8, <1>9, <1>10, <1>11 DEF H

(* So the windows up to the horizon speak for all.                          *)
Met(tasks, t) == dbf(tasks, t) <= t

LEMMA MetByPeriod ==
  ASSUME NEW tasks, IsTaskSet(tasks), Load(tasks) <= hyper(tasks),
         \A t \in 1..hyper(tasks) : Met(tasks, t)
  PROVE  \A t \in Nat : Met(tasks, t)
<1> DEFINE T == {t \in Nat : ~Met(tasks, t)}
           H == hyper(tasks)
<1> SUFFICES ASSUME T # {} PROVE FALSE
  OBVIOUS
<1>1. PICK t \in T : \A k \in T : t <= k
  <2>1. T \subseteq Nat
    OBVIOUS
  <2> HIDE DEF T
  <2>. QED BY <2>1, LeastNumber
<1>2. t \in Nat /\ ~Met(tasks, t) /\ H \in Nat /\ H > 0 /\ Load(tasks) \in Nat
  BY LoadFacts
<1>3. t # 0
  BY <1>2, BoundAtZero DEF Met
<1>4. t > H
  BY <1>2, <1>3
<1> DEFINE s == t - H
<1>5. s \in Nat /\ s < t /\ t = s + H
  <2> HIDE DEF H, T
  <2>. QED BY <1>2, <1>4
<1> HIDE DEF s
<1>6. Met(tasks, s)
  <2> HIDE DEF H
  <2>. QED BY <1>1, <1>2, <1>5
<1>7. dbf(tasks, t) = dbf(tasks, s) + Load(tasks) /\ dbf(tasks, s) \in Nat
  BY <1>5, BoundPeriodic, DemandBoundFacts
<1>8. dbf(tasks, s) <= s
  BY <1>6 DEF Met
<1>9. ~(dbf(tasks, t) <= t)
  BY <1>2 DEF Met
<1> HIDE DEF H, T
<1>10. Load(tasks) <= H
  BY DEF H
<1>. QED BY <1>2, <1>5, <1>7, <1>8, <1>9, <1>10

LEMMA MetByLine ==
  ASSUME NEW tasks, IsTaskSet(tasks), NEW t \in Nat,
         Slack(tasks) <= t * (hyper(tasks) - Load(tasks))
  PROVE  Met(tasks, t)
<1> DEFINE H == hyper(tasks)
           L == Load(tasks)
           x == dbf(tasks, t)
<1>1. H \in Nat /\ H > 0 /\ L \in Nat /\ Slack(tasks) \in Nat /\ x \in Nat
  BY LoadFacts, DemandBoundFacts
<1>2. H * x <= t * L + Slack(tasks)
  BY BoundLine
<1>3. Slack(tasks) <= t * (H - L)
  OBVIOUS
<1> HIDE DEF H, L, x
<1>4. t * (H - L) = t * H - t * L /\ t * L \in Int /\ t * H \in Int
  BY <1>1
<1>5. x * H <= t * H
  <2>1. H * x = x * H
    BY <1>1
  <2>. QED BY <1>1, <1>2, <1>3, <1>4, <2>1
<1>6. ~(t * H < x * H)
  <2>1. x * H \in Int
    BY <1>1
  <2>. QED BY <1>4, <1>5, <2>1
<1>7. ~(t < x)
  <2> SUFFICES ASSUME t < x PROVE FALSE
    OBVIOUS
  <2>1. t + 1 <= x /\ t + 1 \in Int /\ x \in Int
    BY <1>1
  <2>2. (t + 1) * H <= x * H
    BY <1>1, <2>1, Times
  <2>3. (t + 1) * H = t * H + H
    BY <1>1
  <2>4. x * H \in Int
    BY <1>1
  <2>. QED BY <1>1, <1>4, <1>5, <2>2, <2>3, <2>4
<1>8. x <= t
  BY <1>1, <1>7
<1>. QED BY <1>8 DEF Met, x

LEMMA HorizonFacts ==
  ASSUME NEW tasks, IsTaskSet(tasks), Word \in Nat, NEW below \in BOOLEAN,
         Load(tasks) <= hyper(tasks)
  PROVE  LET l == Horizon(tasks, below)
         IN  /\ l \in Nat /\ l <= hyper(tasks) + max_d(tasks) /\ max_d(tasks) \in Nat
             /\ \/ l >= hyper(tasks)
                \/ \A t \in Nat : t > l => Slack(tasks) <= t * (hyper(tasks) - Load(tasks))
<1> DEFINE H == hyper(tasks)
           L == Load(tasks)
           S == Slack(tasks)
           m == max_d(tasks)
           spare == H - L
           busy == IF spare > 0 THEN Ceil(S, spare) + 1
                   ELSE IF below /\ S = 0 THEN 1 ELSE H
           l == Most(Least(H, busy), m)
<1>1. H \in Nat /\ H > 0 /\ L \in Nat /\ S \in Nat /\ L <= H
  BY LoadFacts
<1>2. m \in Nat
  <2>1. 1 \in DOMAIN tasks
    BY DEF IsTaskSet
  <2>. QED BY <2>1, MaxFacts
<1>3. l = Horizon(tasks, below)
  BY DEF Horizon
<1> HIDE DEF H, L, S, m
<1>4. busy \in Nat /\ (spare > 0 => Ceil(S, spare) \in Nat /\ Ceil(S, spare) * spare >= S)
  <2>1. CASE spare > 0
    <3>1. spare \in Nat
      BY <1>1, <2>1
    <3> HIDE DEF spare
    <3>2. Ceil(S, spare) \in Nat /\ Ceil(S, spare) * spare >= S
      BY <1>1, <2>1, <3>1, CeilIs
    <3>. QED BY <2>1, <3>2
  <2>2. CASE ~(spare > 0)
    BY <1>1, <2>2
  <2>. QED BY <2>1, <2>2
<1>5. l \in Nat /\ l <= H + m /\ (l >= H \/ (l >= busy /\ busy < H))
  <2> HIDE DEF busy
  <2>. QED BY <1>1, <1>2, <1>4 DEF Least, Most
<1>6. ASSUME l >= busy, busy < H, NEW t \in Nat, t > l
      PROVE  S <= t * spare
  <2>0. t >= busy
    <3> HIDE DEF busy
    <3>. QED BY <1>4, <1>5, <1>6
  <2>1. CASE spare > 0
    <3> DEFINE k == Ceil(S, spare)
    <3>1. spare \in Nat /\ k \in Nat /\ k * spare >= S
      BY <1>1, <1>4, <2>1
    <3>2. k <= t /\ k \in Int /\ t \in Int
      BY <1>4, <2>0, <2>1
    <3> HIDE DEF k, spare
    <3>3. k * spare <= t * spare
      BY <3>1, <3>2, Times
    <3>4. k * spare \in Int /\ t * spare \in Int
      BY <3>1
    <3>. QED BY <1>1, <3>1, <3>3, <3>4
  <2>2. CASE ~(spare > 0)
    <3>1. spare = 0 /\ S = 0
      BY <1>1, <1>6, <2>2
    <3>2. t * spare = 0
      <4> HIDE DEF spare
      <4>. QED BY <3>1
    <3>. QED BY <3>1, <3>2
  <2>. QED BY <2>1, <2>2
<1>7. l >= H \/ \A t \in Nat : t > l => S <= t * spare
  <2> HIDE DEF l, spare, busy
  <2>. QED BY <1>5, <1>6
<1>. QED BY <1>2, <1>3, <1>5, <1>7 DEF H, L, S, m

LEMMA DemandTest ==
  ASSUME NEW tasks, IsTaskSet(tasks), Word \in Nat, NEW below \in BOOLEAN
  PROVE  demand_bound_test(tasks, below)
           <=> /\ Load(tasks) <= hyper(tasks)
               /\ \A t \in 1..(hyper(tasks) + max_d(tasks)) : dbf(tasks, t) <= t
<1> DEFINE l == Horizon(tasks, below)
           H == hyper(tasks)
<1> SUFFICES ASSUME Load(tasks) <= H
             PROVE  (\A t \in Points(tasks, l) : dbf(tasks, t) <= t)
                      <=> \A t \in 1..(H + max_d(tasks)) : dbf(tasks, t) <= t
  BY DEF demand_bound_test
<1>1. /\ l \in Nat /\ l <= H + max_d(tasks) /\ max_d(tasks) \in Nat
      /\ l >= H \/ \A t \in Nat : t > l => Slack(tasks) <= t * (H - Load(tasks))
  BY HorizonFacts
<1>2. H \in Nat
  BY LoadFacts
<1> HIDE DEF l
<1>3. (\A t \in Points(tasks, l) : dbf(tasks, t) <= t) <=> \A t \in 1..l : dbf(tasks, t) <= t
  BY <1>1, PointsAreEnough
<1>4. ASSUME \A t \in 1..l : dbf(tasks, t) <= t, NEW t \in 1..(H + max_d(tasks))
      PROVE  dbf(tasks, t) <= t
  <2>1. \A k \in 1..l : Met(tasks, k)
    BY <1>4 DEF Met
  <2>2. t \in Nat /\ t > 0
    BY <1>1, <1>2
  <2>3. CASE t <= l
    BY <1>1, <1>4, <2>2, <2>3
  <2>4. CASE l >= H
    <3>1. \A k \in 1..H : Met(tasks, k)
      <4> HIDE DEF H
      <4>. QED BY <1>1, <1>2, <2>1, <2>4
    <3>. QED BY <2>2, <3>1, MetByPeriod DEF Met
  <2>5. CASE t > l /\ Slack(tasks) <= t * (H - Load(tasks))
    BY <2>2, <2>5, MetByLine DEF Met
  <2> HIDE DEF H
  <2>. QED BY <1>1, <2>2, <2>3, <2>4, <2>5
<1>5. ASSUME \A t \in 1..(H + max_d(tasks)) : dbf(tasks, t) <= t, NEW t \in 1..l
      PROVE  dbf(tasks, t) <= t
  <2> HIDE DEF H
  <2>. QED BY <1>1, <1>2, <1>5
<1>. QED BY <1>3, <1>4, <1>5

-----------------------------------------------------------------------------
(* The last of some tasks, in the order of a policy.                        *)
LEMMA Lowest ==
  ASSUME NEW tasks, IsTaskSet(tasks), NEW policy \in Policies,
         NEW S \in SUBSET DOMAIN tasks, S # {}
  PROVE  \E j \in S : S \ {j} \subseteq Higher(tasks, policy, j)
<1> DEFINE Has(s) == \E j \in s : s \ {j} \subseteq Higher(tasks, policy, j)
           T == {s \in SUBSET DOMAIN tasks : s = {} \/ Has(s)}
<1>1. ASSUME NEW s \in SUBSET DOMAIN tasks, \A r \in SUBSET s : r # s => r \in T
      PROVE  s \in T
  <2> SUFFICES ASSUME s # {} PROVE Has(s)
    OBVIOUS
  <2>1. PICK y \in s : TRUE
    OBVIOUS
  <2>2. s \ {y} \in T
    BY <1>1, <2>1
  <2>3. CASE s \ {y} = {}
    BY <2>1, <2>3
  <2>4. CASE s \ {y} # {}
    <3>1. PICK j \in s \ {y} : (s \ {y}) \ {j} \subseteq Higher(tasks, policy, j)
      BY <2>2, <2>4
    <3> DEFINE above(k) == Higher(tasks, policy, k)
    <3>2. y \in above(j) \/ (j \in above(y) /\ above(j) \subseteq above(y))
      BY <2>1, <3>1, HigherFacts
    <3>3. CASE y \in above(j)
      BY <2>1, <3>1, <3>3
    <3>4. CASE j \in above(y) /\ above(j) \subseteq above(y)
      BY <2>1, <3>1, <3>4
    <3>. QED BY <3>2, <3>3, <3>4
  <2>. QED BY <2>3, <2>4
<1>2. IsFiniteSet(S)
  BY TaskFacts, FS_Subset
<1>3. ASSUME NEW s \in SUBSET S, \A r \in SUBSET s : r # s => r \in T
      PROVE  s \in T
  <2> HIDE DEF T
  <2>. QED BY <1>1, <1>3
<1> HIDE DEF T
<1>4. S \in T
  BY <1>2, <1>3, GrowingSets
<1>. QED BY <1>4 DEF T

(* The demand of some tasks is that of one, and of the others.              *)
LEMMA DemandOne ==
  ASSUME NEW tasks, IsTaskSet(tasks), NEW S \in SUBSET DOMAIN tasks, NEW j \in S, NEW x \in Nat
  PROVE  Demand(tasks, S, x) = Ceil(x, tasks[j].t) * tasks[j].c + Demand(tasks, S \ {j}, x)
<1> DEFINE f == [k \in S |-> Ceil(x, tasks[k].t) * tasks[k].c]
<1>1. f \in [S -> Nat] /\ IsFiniteSet(S) /\ Demand(tasks, S, x) = Sum(f)
  <2>1. f \in [S -> Nat] /\ IsFiniteSet(S)
    BY DemandFacts
  <2>2. Demand(tasks, S, x) = Sum(f)
    BY DEF Demand
  <2>. QED BY <2>1, <2>2
<1>2. f \in [S -> Int]
  BY <1>1
<1>3. [k \in S \ {j} |-> f[k]] = [k \in S \ {j} |-> Ceil(x, tasks[k].t) * tasks[k].c]
  OBVIOUS
<1>4. f[j] = Ceil(x, tasks[j].t) * tasks[j].c
  OBVIOUS
<1> HIDE DEF f
<1>5. Sum(f) = f[j] + Sum([k \in S \ {j} |-> f[k]])
  BY <1>1, <1>2, SumWithout
<1>. QED BY <1>1, <1>3, <1>4, <1>5 DEF Demand

LEMMA DemandPart ==
  ASSUME NEW tasks, IsTaskSet(tasks), NEW S \in SUBSET DOMAIN tasks, NEW R \in SUBSET S, NEW x \in Nat
  PROVE  Demand(tasks, R, x) <= Demand(tasks, S, x)
<1> DEFINE f == [k \in S |-> Ceil(x, tasks[k].t) * tasks[k].c]
           g == [k \in S |-> IF k \in R THEN f[k] ELSE 0]
<1>1. f \in [S -> Nat] /\ IsFiniteSet(S) /\ Demand(tasks, S, x) = Sum(f)
  <2>1. f \in [S -> Nat] /\ IsFiniteSet(S)
    BY DemandFacts
  <2>2. Demand(tasks, S, x) = Sum(f)
    BY DEF Demand
  <2>. QED BY <2>1, <2>2
<1>2. [k \in R |-> f[k]] = [k \in R |-> Ceil(x, tasks[k].t) * tasks[k].c]
  OBVIOUS
<1> HIDE DEF f
<1>3. /\ f \in [S -> Int] /\ g \in [S -> Int]
      /\ \A k \in S : g[k] <= f[k]
      /\ \A k \in S \ R : g[k] = 0
  BY <1>1
<1>4. [k \in R |-> g[k]] = [k \in R |-> f[k]]
  OBVIOUS
<1> HIDE DEF g
<1>5. Sum(g) <= Sum(f)
  BY <1>1, <1>3, SumLe
<1>6. Sum(g) = Sum([k \in R |-> g[k]])
  BY <1>1, <1>3, SumsPart
<1>. QED BY <1>1, <1>2, <1>4, <1>5, <1>6 DEF Demand

(* The tasks above the last of some, and itself, need no more than its      *)
(* response time.                                                           *)
LEMMA DemandAtResponse ==
  ASSUME NEW tasks, IsTaskSet(tasks), NEW policy \in Policies, NEW S \in SUBSET DOMAIN tasks,
         NEW j \in S, S \ {j} \subseteq Higher(tasks, policy, j), wcrt(tasks, policy, j) # Late
  PROVE  LET r == wcrt(tasks, policy, j)
         IN  /\ r \in Nat /\ r >= 1 /\ r <= tasks[j].d
             /\ Demand(tasks, S, r) <= r
<1> DEFINE r == wcrt(tasks, policy, j)
           ahead == Higher(tasks, policy, j)
<1>1. j \in DOMAIN tasks /\ tasks[j].c \in Nat /\ tasks[j].d \in Nat /\ tasks[j].t \in Nat
      /\ tasks[j].d <= tasks[j].t /\ tasks[j].t > 0
  BY TaskFacts
<1>2. r \in 1..tasks[j].d /\ Level(tasks, policy, j, r) = r
  BY <1>1, Response
<1>3. ahead \in SUBSET DOMAIN tasks
  BY <1>1, HigherFacts
<1> HIDE DEF r, ahead
<1>4. r \in Nat /\ r >= 1 /\ r <= tasks[j].d
  BY <1>1, <1>2
<1>5. Ceil(r, tasks[j].t) = 1
  BY <1>1, <1>4, CeilSmall
<1>6. Demand(tasks, S, r) = tasks[j].c + Demand(tasks, S \ {j}, r)
  BY <1>1, <1>4, <1>5, DemandOne
<1>7. Demand(tasks, S \ {j}, r) <= Demand(tasks, ahead, r)
  BY <1>3, <1>4, DemandPart DEF ahead
<1>8. Level(tasks, policy, j, r) = tasks[j].c + Demand(tasks, ahead, r)
  BY DEF Level, ahead
<1>9. Demand(tasks, S \ {j}, r) \in Nat /\ Demand(tasks, ahead, r) \in Nat
  <2>1. S \ {j} \in SUBSET DOMAIN tasks
    OBVIOUS
  <2>. QED BY <1>3, <1>4, <2>1, DemandFacts
<1>. QED BY <1>1, <1>2, <1>4, <1>6, <1>7, <1>8, <1>9 DEF r

LEMMA RmThenDm ==
  ASSUME NEW tasks, IsTaskSet(tasks), schedulable(tasks, "RM")
  PROVE  schedulable(tasks, "DM")
<1> SUFFICES ASSUME NEW i \in DOMAIN tasks PROVE wcrt(tasks, "DM", i) # Late
  BY DEF schedulable
<1> DEFINE ahead == Higher(tasks, "DM", i)
           S == ahead \cup {i}
<1>1. "RM" \in Policies /\ "DM" \in Policies
  BY DEF Policies
<1>2. ahead \subseteq DOMAIN tasks /\ i \notin ahead /\ S \in SUBSET DOMAIN tasks /\ S # {}
  BY <1>1, HigherFacts
<1>3. \A k \in S : tasks[k].d <= tasks[i].d
  BY TaskFacts DEF Higher, Key
<1> HIDE DEF ahead, S
<1>4. PICK j \in S : S \ {j} \subseteq Higher(tasks, "RM", j)
  BY <1>1, <1>2, Lowest
<1>5. wcrt(tasks, "RM", j) # Late
  BY <1>2 DEF schedulable
<1> DEFINE r == wcrt(tasks, "RM", j)
<1>6. r \in Nat /\ r >= 1 /\ r <= tasks[j].d /\ Demand(tasks, S, r) <= r
  BY <1>1, <1>2, <1>4, <1>5, DemandAtResponse
<1> HIDE DEF r
<1>7. /\ tasks[i].d \in Nat /\ tasks[j].d \in Nat /\ tasks[i].c \in Nat /\ tasks[i].t \in Nat
      /\ tasks[i].t > 0
  BY <1>2, TaskFacts
<1>8. Demand(tasks, S, r) = Ceil(r, tasks[i].t) * tasks[i].c + Demand(tasks, ahead, r)
  <2>1. i \in S /\ S \ {i} = ahead
    BY <1>2 DEF S
  <2>. QED BY <1>2, <1>6, <2>1, DemandOne
<1>9. Ceil(r, tasks[i].t) * tasks[i].c >= tasks[i].c
  <2>1. Ceil(r, tasks[i].t) >= 1 /\ Ceil(r, tasks[i].t) \in Nat
    <3>1. r > 0 /\ r \in Nat /\ tasks[i].t \in Nat /\ tasks[i].t > 0
      BY <1>6, <1>7
    <3>2. Ceil(r, tasks[i].t) \in Nat
      BY <3>1, CeilIs
    <3>3. Ceil(r, tasks[i].t) >= 1
      BY <3>1, CeilSmall
    <3>. QED BY <3>2, <3>3
  <2>2. 1 * tasks[i].c <= Ceil(r, tasks[i].t) * tasks[i].c
    BY <1>7, <2>1, Times
  <2>. QED BY <1>7, <2>1, <2>2
<1>10. Level(tasks, "DM", i, r) <= r
  <2>1. Level(tasks, "DM", i, r) = tasks[i].c + Demand(tasks, ahead, r)
    BY DEF Level, ahead
  <2>2. Demand(tasks, ahead, r) \in Nat
    BY <1>2, <1>6, DemandFacts
  <2> DEFINE x == Ceil(r, tasks[i].t) * tasks[i].c
  <2>3. x \in Nat
    <3>1. r \in Nat /\ tasks[i].t \in Nat /\ tasks[i].t > 0
      BY <1>6, <1>7
    <3>2. Ceil(r, tasks[i].t) \in Nat
      BY <3>1, CeilIs
    <3>. QED BY <1>7, <3>2
  <2> HIDE DEF x
  <2>4. x >= tasks[i].c /\ Demand(tasks, S, r) = x + Demand(tasks, ahead, r)
    BY <1>8, <1>9 DEF x
  <2>. QED BY <1>6, <1>7, <2>1, <2>2, <2>3, <2>4
<1>11. r \in 0..tasks[i].d
  BY <1>2, <1>3, <1>6, <1>7
<1>. QED BY <1>1, <1>10, <1>11, Response

-----------------------------------------------------------------------------
(* A window is one response of the last task due in it, and the rest.       *)
LEMMA JobsSplit ==
  ASSUME NEW tasks, IsTaskSet(tasks), NEW k \in DOMAIN tasks, NEW t \in Nat,
         NEW r \in Nat, r <= t
  PROVE  Jobs(tasks[k], t) <= Ceil(r, tasks[k].t) + Jobs(tasks[k], t - r)
<1> DEFINE T == tasks[k].t
           o == T - tasks[k].d
           p == Jobs(tasks[k], t)
           q == Jobs(tasks[k], t - r)
           e == Ceil(r, T)
<1>1. T \in Nat /\ T > 0 /\ o \in Nat
  BY TaskFacts
<1>2. t - r \in Nat
  OBVIOUS
<1>3. p \in Nat /\ p * T <= t + o
  BY JobsFacts
<1>4. q \in Nat /\ (t - r) + o < q * T + T
  BY <1>2, JobsFacts
<1>5. e \in Nat /\ e * T >= r
  BY <1>1, CeilIs
<1> HIDE DEF T, o, p, q, e
<1>6. (e + q + 1) * T = e * T + q * T + T /\ e * T \in Int /\ q * T \in Int /\ p * T \in Int
  BY <1>1, <1>3, <1>4, <1>5
<1>7. p * T < (e + q + 1) * T
  BY <1>1, <1>3, <1>4, <1>5, <1>6
<1>8. p < e + q + 1
  <2>1. e + q + 1 \in Int /\ p \in Int
    BY <1>3, <1>4, <1>5
  <2> DEFINE n == e + q + 1
  <2>2. n \in Int /\ p * T < n * T
    BY <1>7, <2>1
  <2> HIDE DEF n
  <2>3. p < n
    BY <1>1, <2>1, <2>2, LessTimes
  <2>. QED BY <2>3 DEF n
<1>9. p <= e + q
  BY <1>3, <1>4, <1>5, <1>8
<1>. QED BY <1>9 DEF p, q, e, T

LEMMA BoundSplit ==
  ASSUME NEW tasks, IsTaskSet(tasks), NEW t \in Nat, NEW r \in Nat, r <= t
  PROVE  dbf(tasks, t) <= Demand(tasks, {k \in DOMAIN tasks : tasks[k].d <= t}, r)
                            + dbf(tasks, t - r)
<1> DEFINE D == DOMAIN tasks
           S == {k \in D : tasks[k].d <= t}
           f == [k \in D |-> Jobs(tasks[k], t) * tasks[k].c]
           g == [k \in D |-> Jobs(tasks[k], t - r) * tasks[k].c]
           e == [k \in D |-> IF k \in S THEN Ceil(r, tasks[k].t) * tasks[k].c ELSE 0]
           h == [k \in D |-> e[k] + g[k]]
<1>1. t - r \in Nat /\ IsFiniteSet(D) /\ S \in SUBSET D
  BY TaskFacts
<1>2. f \in [D -> Nat] /\ dbf(tasks, t) = Sum(f)
  BY DemandBoundFacts DEF DemandBound
<1>3. g \in [D -> Nat] /\ dbf(tasks, t - r) = Sum(g)
  BY <1>1, DemandBoundFacts DEF DemandBound
<1>4. e \in [D -> Nat]
  <2>1. ASSUME NEW k \in D PROVE Ceil(r, tasks[k].t) * tasks[k].c \in Nat
    <3>1. tasks[k].t \in Nat /\ tasks[k].t > 0 /\ tasks[k].c \in Nat
      BY TaskFacts
    <3>2. Ceil(r, tasks[k].t) \in Nat
      BY <3>1, CeilIs
    <3>. QED BY <3>1, <3>2
  <2> HIDE DEF S
  <2>. QED BY <2>1
<1>5. Sum(e) = Demand(tasks, S, r)
  <2>1. e \in [D -> Int] /\ \A k \in D \ S : e[k] = 0
    BY <1>4
  <2>2. [k \in S |-> e[k]] = [k \in S |-> Ceil(r, tasks[k].t) * tasks[k].c]
    OBVIOUS
  <2> HIDE DEF e, S, D
  <2>3. Sum(e) = Sum([k \in S |-> e[k]])
    BY <1>1, <2>1, SumsPart
  <2>. QED BY <2>2, <2>3 DEF Demand
<1>6. ASSUME NEW k \in D PROVE f[k] <= e[k] + g[k]
  <2>1. tasks[k].c \in Nat /\ tasks[k].d \in Nat
    BY TaskFacts
  <2>2. CASE k \in S
    <3> DEFINE a == Jobs(tasks[k], t)
               b == Ceil(r, tasks[k].t)
               n == Jobs(tasks[k], t - r)
    <3>1. a \in Nat /\ n \in Nat /\ b \in Nat
      <4>1. tasks[k].t \in Nat /\ tasks[k].t > 0
        BY TaskFacts
      <4>2. b \in Nat
        BY <4>1, CeilIs
      <4>. QED BY <1>1, <4>2, JobsFacts
    <3>2. a <= b + n
      BY JobsSplit
    <3>3. f[k] = a * tasks[k].c /\ e[k] = b * tasks[k].c /\ g[k] = n * tasks[k].c
      BY <2>2
    <3> HIDE DEF a, b, n, f, e, g
    <3>4. a * tasks[k].c <= (b + n) * tasks[k].c
      <4> DEFINE y == b + n
      <4>1. a \in Int /\ y \in Int /\ a <= y
        BY <3>1, <3>2
      <4> HIDE DEF y
      <4>2. a * tasks[k].c <= y * tasks[k].c
        BY <2>1, <4>1, Times
      <4>. QED BY <4>2 DEF y
    <3>5. (b + n) * tasks[k].c = b * tasks[k].c + n * tasks[k].c
      BY <2>1, <3>1
    <3>. QED BY <3>3, <3>4, <3>5
  <2>3. CASE k \notin S
    <3>1. Jobs(tasks[k], t) = 0
      BY <2>1, <2>3, JobsFacts
    <3>2. f[k] = 0
      BY <2>1, <3>1
    <3> HIDE DEF f, e, g
    <3>. QED BY <1>3, <1>4, <3>2
  <2>. QED BY <2>2, <2>3
<1>7. /\ f \in [D -> Int] /\ e \in [D -> Int] /\ g \in [D -> Int]
  BY <1>2, <1>3, <1>4
<1> HIDE DEF f, e, g, S, D
<1>8. h \in [D -> Int] /\ (\A k \in D : h[k] = e[k] + g[k]) /\ \A k \in D : f[k] <= h[k]
  BY <1>6, <1>7
<1> HIDE DEF h
<1>9. Sum(h) = Sum(e) + Sum(g)
  BY <1>1, <1>7, <1>8, SumAdd
<1>10. Sum(f) <= Sum(h)
  BY <1>1, <1>7, <1>8, SumLe
<1>11. dbf(tasks, t) <= Demand(tasks, S, r) + dbf(tasks, t - r)
  BY <1>2, <1>3, <1>5, <1>9, <1>10
<1>. QED BY <1>11 DEF S, D

LEMMA DmThenEdf ==
  ASSUME NEW tasks, IsTaskSet(tasks), schedulable(tasks, "DM")
  PROVE  demand_bound_test(tasks, FALSE)
<1> DEFINE T == {t \in Nat : ~Met(tasks, t)}
<1>1. T = {}
  <2> SUFFICES ASSUME T # {} PROVE FALSE
    OBVIOUS
  <2>1. PICK t \in T : \A k \in T : t <= k
    <3>1. T \subseteq Nat
      OBVIOUS
    <3> HIDE DEF T
    <3>. QED BY <3>1, LeastNumber
  <2> DEFINE S == {k \in DOMAIN tasks : tasks[k].d <= t}
  <2>2. t \in Nat /\ ~(dbf(tasks, t) <= t)
    BY DEF Met
  <2>3. S \in SUBSET DOMAIN tasks
    OBVIOUS
  <2>4. S # {}
    <3> SUFFICES ASSUME S = {} PROVE dbf(tasks, t) <= t
      BY <2>2
    <3> DEFINE f == [k \in DOMAIN tasks |-> Jobs(tasks[k], t) * tasks[k].c]
    <3>1. \A k \in DOMAIN tasks : t < tasks[k].d /\ tasks[k].c \in Nat
      BY TaskFacts
    <3>2. \A k \in DOMAIN tasks : Jobs(tasks[k], t) = 0
      BY <2>2, <3>1, JobsFacts
    <3>3. \A k \in DOMAIN tasks : f[k] = 0
      BY <3>1, <3>2
    <3>4. f \in [DOMAIN tasks -> Int] /\ dbf(tasks, t) = Sum(f) /\ IsFiniteSet(DOMAIN tasks)
      BY <2>2, DemandBoundFacts, TaskFacts DEF DemandBound
    <3> HIDE DEF f
    <3>5. Sum(f) = 0
      BY <3>3, <3>4, SumZero
    <3>. QED BY <2>2, <3>4, <3>5
  <2>5. "DM" \in Policies
    BY DEF Policies
  <2> HIDE DEF S
  <2>6. PICK j \in S : S \ {j} \subseteq Higher(tasks, "DM", j)
    BY <2>3, <2>4, <2>5, Lowest
  <2> DEFINE r == wcrt(tasks, "DM", j)
  <2>7. j \in DOMAIN tasks /\ tasks[j].d <= t /\ tasks[j].d \in Nat
    BY TaskFacts DEF S
  <2>8. r \in Nat /\ r >= 1 /\ r <= tasks[j].d /\ Demand(tasks, S, r) <= r
    <3>1. wcrt(tasks, "DM", j) # Late
      BY <2>7 DEF schedulable
    <3>. QED BY <2>3, <2>5, <2>6, <3>1, DemandAtResponse
  <2> HIDE DEF r
  <2>9. r <= t /\ t - r \in Nat /\ t - r < t
    BY <2>2, <2>7, <2>8
  <2>10. dbf(tasks, t) <= Demand(tasks, S, r) + dbf(tasks, t - r)
    BY <2>2, <2>8, <2>9, BoundSplit DEF S
  <2>11. dbf(tasks, t - r) <= t - r
    <3>1. t - r \notin T
      BY <2>1, <2>2, <2>9
    <3>. QED BY <2>9, <3>1 DEF Met
  <2>12. dbf(tasks, t) \in Nat /\ dbf(tasks, t - r) \in Nat /\ Demand(tasks, S, r) \in Nat
    <3>1. dbf(tasks, t) \in Nat
      BY <2>2, DemandBoundFacts
    <3>2. dbf(tasks, t - r) \in Nat
      BY <2>9, DemandBoundFacts
    <3>3. Demand(tasks, S, r) \in Nat
      BY <2>3, <2>8, DemandFacts
    <3>. QED BY <3>1, <3>2, <3>3
  <2>. QED BY <2>2, <2>8, <2>9, <2>10, <2>11, <2>12
<1>2. \A t \in Nat : dbf(tasks, t) <= t
  BY <1>1 DEF Met
<1>3. Load(tasks) <= hyper(tasks)
  <2> DEFINE z == 0
             H == hyper(tasks)
  <2>1. z \in Nat /\ H \in Nat /\ Load(tasks) \in Nat /\ dbf(tasks, z) = 0
    BY LoadFacts, BoundAtZero
  <2>2. dbf(tasks, z + H) = dbf(tasks, z) + Load(tasks)
    <3> HIDE DEF z
    <3>. QED BY <2>1, BoundPeriodic
  <2>3. z + H = H
    BY <2>1
  <2> HIDE DEF z, H
  <2>4. dbf(tasks, H) <= H
    BY <1>2, <2>1
  <2>5. dbf(tasks, H) = Load(tasks)
    BY <2>1, <2>2, <2>3
  <2>. QED BY <2>4, <2>5 DEF H
<1>4. \A t \in Points(tasks, Horizon(tasks, FALSE)) : dbf(tasks, t) <= t
  BY <1>2 DEF Points
<1>. QED BY <1>3, <1>4 DEF demand_bound_test

-----------------------------------------------------------------------------
(* The analyses are exact, and ordered as the theory orders them.           *)
LEMMA AnalysesHold ==
  ASSUME IsTaskSet(ts), Word \in Nat
  PROVE  RtaIsLeastFixedPoint /\ DemandIsExact /\ PoliciesAreOrdered
<1>1. RtaIsLeastFixedPoint
  <2>1. \A i \in DOMAIN ts, policy \in Policies :
          LET ahead == Higher(ts, policy, i)
              fixed == {r \in ts[i].c..ts[i].d :
                          r = ts[i].c + Sum([j \in ahead |-> Ceil(r, ts[j].t) * ts[j].c])}
          IN  wcrt(ts, policy, i) = IF fixed = {} THEN Late ELSE Min(fixed)
    BY RtaExact
  <2>. QED BY <2>1 DEF RtaIsLeastFixedPoint, Policies
<1>2. DemandIsExact
  BY DemandTest DEF DemandIsExact
<1>3. PoliciesAreOrdered
  BY RmThenDm, DmThenEdf DEF PoliciesAreOrdered
<1>. QED BY <1>1, <1>2, <1>3

(* AnalysesAreExact: for every task set, the response-time analysis finds   *)
(* the least fixed points and the demand-bound test decides as a check of   *)
(* every window does; RM schedules no more than DM, nor DM than EDF.        *)
THEOREM AnalysesExact == RtSpec => []AnalysesAreExact
<1>1. IInv => AnalysesAreExact
  BY AnalysesHold, Tasks DEF IInv, AnalysesAreExact
<1>. QED BY <1>1, IInvInit, IInvNext, PTL DEF RtSpec

-----------------------------------------------------------------------------
(* As many ones as there are numbers up to j.                               *)
LEMMA SumOnes ==
  ASSUME NEW j \in Nat
  PROVE  Sum([k \in 1..j |-> 1]) = j
<1> DEFINE ones(n) == [k \in 1..n |-> 1]
           T == {n \in Nat : Sum(ones(n)) = n}
<1>1. 0 \in T
  <2>1. 1..0 = {} /\ ones(0) \in [1..0 -> Int]
    OBVIOUS
  <2>. QED BY <2>1, SumEmpty
<1>2. ASSUME NEW n \in Nat, n \in T
      PROVE  n + 1 \in T
  <2> DEFINE f == ones(n + 1)
             D == 1..(n + 1)
  <2>1. f \in [D -> Int] /\ n + 1 \in D /\ f[n + 1] = 1
    OBVIOUS
  <2>2. IsFiniteSet(D)
    BY FS_Interval
  <2>3. D \ {n + 1} = 1..n
    OBVIOUS
  <2>4. [i \in D \ {n + 1} |-> f[i]] = ones(n)
    BY <2>3
  <2> HIDE DEF f, D
  <2>5. Sum(f) = f[n + 1] + Sum([i \in D \ {n + 1} |-> f[i]])
    BY <2>1, <2>2, SumWithout
  <2>6. Sum(f) = 1 + n
    BY <1>2, <2>1, <2>4, <2>5
  <2>. QED BY <2>6 DEF f
<1> HIDE DEF T
<1>3. j \in T
  BY <1>1, <1>2, CountingUp
<1>. QED BY <1>3 DEF T

(* The lanes of a folded datapath, one unit in every ii for each, meet      *)
(* their deadlines exactly if they are no more than the slots, as           *)
(* fpga.rs:477-482 says of the fold.                                        *)
Lanes(n, ii) == [k \in 1..n |-> [c |-> 1, t |-> ii, d |-> ii]]

THEOREM LanesFit ==
  ASSUME NEW n \in Nat \ {0}, NEW ii \in Nat \ {0}, ii + ii <= Word
  PROVE  schedulable(Lanes(n, ii), "RM") <=> n <= ii
<1> DEFINE tasks == Lanes(n, ii)
<1>1. tasks \in Seq(Task) /\ tasks # <<>> /\ DOMAIN tasks = 1..n
  <2>1. tasks \in [1..n -> Task]
    BY DEF Lanes, Task
  <2>2. tasks \in Seq(Task)
    BY <2>1
  <2>3. DOMAIN tasks = 1..n /\ 1 \in 1..n
    BY DEF Lanes
  <2>. QED BY <2>2, <2>3
<1>2. \A i \in 1..n : tasks[i].c = 1 /\ tasks[i].t = ii /\ tasks[i].d = ii
  BY DEF Lanes
<1> HIDE DEF tasks
<1>3. IsTaskSet(tasks)
  BY <1>1, <1>2 DEF IsTaskSet
<1>4. ASSUME NEW i \in 1..n
      PROVE  Higher(tasks, "RM", i) = 1..(i - 1)
  <2>1. \A k \in 1..n : Key(tasks[k], "RM") = ii
    BY <1>2 DEF Key
  <2>2. Higher(tasks, "RM", i) = {j \in 1..n : j < i}
    BY <1>1, <2>1 DEF Higher
  <2>3. {j \in 1..n : j < i} = 1..(i - 1)
    OBVIOUS
  <2>. QED BY <2>2, <2>3
<1>5. ASSUME NEW i \in 1..n, NEW x \in 1..ii
      PROVE  Level(tasks, "RM", i, x) = i
  <2>1. Ceil(x, ii) = 1
    BY CeilSmall
  <2>2. \A k \in 1..(i - 1) : Ceil(x, tasks[k].t) * tasks[k].c = 1
    <3>1. ASSUME NEW k \in 1..(i - 1) PROVE Ceil(x, tasks[k].t) * tasks[k].c = 1
      <4>1. k \in 1..n OBVIOUS
      <4>. QED BY <1>2, <2>1, <4>1
    <3>. QED BY <3>1
  <2>3. Demand(tasks, 1..(i - 1), x) = Sum([k \in 1..(i - 1) |-> 1])
    BY <2>2 DEF Demand
  <2>4. Demand(tasks, 1..(i - 1), x) = i - 1
    <3>1. i - 1 \in Nat OBVIOUS
    <3>. QED BY <2>3, <3>1, SumOnes
  <2>. QED BY <1>2, <1>4, <2>4 DEF Level
<1>6. ASSUME NEW i \in 1..n
      PROVE  wcrt(tasks, "RM", i) # Late <=> i <= ii
  <2> DEFINE w == wcrt(tasks, "RM", i)
  <2>1. /\ w # Late => w \in 1..ii /\ Level(tasks, "RM", i, w) = w
        /\ \A y \in 0..ii : Level(tasks, "RM", i, y) <= y => w # Late
    <3>1. i \in DOMAIN tasks /\ "RM" \in Policies /\ tasks[i].d = ii
      BY <1>1, <1>2 DEF Policies
    <3>. QED BY <1>3, <3>1, Response
  <2> HIDE DEF w
  <2>2. w # Late => i <= ii
    BY <1>5, <2>1
  <2>3. i <= ii => w # Late
    BY <1>5, <2>1
  <2>. QED BY <2>2, <2>3 DEF w
<1>7. schedulable(tasks, "RM") <=> \A i \in 1..n : i <= ii
  BY <1>1, <1>6 DEF schedulable
<1>8. n \in 1..n
  OBVIOUS
<1>. QED BY <1>7, <1>8 DEF tasks
=============================================================================
