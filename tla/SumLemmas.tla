------------------------------- MODULE SumLemmas -------------------------------
(***************************************************************************)
(* Induction over naturals and finite sets, functions that are defined by  *)
(* recursion, and what follows of the sum of a function over a finite set. *)
(* Induction is stated of sets of values instead of predicates: G collects *)
(* the values of which the claim holds.                                    *)
(***************************************************************************)
EXTENDS Integers, Functions, FiniteSetTheorems, WellFoundedInduction, TLAPS

(* What a quotient is. *)
LEMMA DivBounds ==
  ASSUME NEW a \in Int, NEW b \in Nat, b >= 1
  PROVE  /\ a \div b \in Int
         /\ b * (a \div b) <= a
         /\ a < b * (a \div b) + b
  BY SMTT(30)

-----------------------------------------------------------------------------
(* Induction *)

(* Every nonempty set of naturals has a least element. *)
LEMMA LeastNatural ==
  ASSUME NEW S \in SUBSET Nat, S # {}
  PROVE  \E n \in S : \A k \in S : n <= k
<1>1. \E n \in S : \A k \in S : ~(<<k, n>> \in OpToRel(<, Nat))
  BY NatLessThanWellFounded, WFMin
<1>2. \A k, n \in Nat : ~(<<k, n>> \in OpToRel(<, Nat)) => n <= k
  BY DEF OpToRel
<1>3. QED BY <1>1, <1>2

(* What holds of zero, and of n + 1 if it holds of n, holds of all. *)
LEMMA InductionOnNat ==
  ASSUME NEW G, 0 \in G, \A n \in Nat : n \in G => n + 1 \in G
  PROVE  Nat \subseteq G
<1> DEFINE Bad == {n \in Nat : n \notin G}
<1>1. SUFFICES ASSUME Bad # {} PROVE FALSE OBVIOUS
<1>2. PICK n \in Bad : \A k \in Bad : n <= k
  <2>1. Bad \in SUBSET Nat OBVIOUS
  <2> HIDE DEF Bad
  <2>2. QED BY <1>1, <2>1, LeastNatural
<1>3. n \in Nat /\ n \notin G /\ n # 0 OBVIOUS
<1>4. n - 1 \in Nat /\ ~(n <= n - 1) /\ (n - 1) + 1 = n BY <1>3
<1>5. n - 1 \notin Bad BY <1>2, <1>4
<1>6. n - 1 \in G BY <1>4, <1>5
<1>7. (n - 1) + 1 \in G BY <1>4, <1>6
<1>8. QED BY <1>3, <1>4, <1>7

(* What holds of a finite set as soon as it holds of the set without any   *)
(* one of its elements holds of every subset of a finite set.              *)
LEMMA InductionOnSubsets ==
  ASSUME NEW S, IsFiniteSet(S), NEW G,
         \A s \in SUBSET S : (\A x \in s : s \ {x} \in G) => s \in G
  PROVE  \A s \in SUBSET S : s \in G
<1> DEFINE Bad == {s \in SUBSET S : s \notin G}
           Sizes == {Cardinality(s) : s \in Bad}
<1>1. SUFFICES ASSUME Bad # {} PROVE FALSE OBVIOUS
<1>2. \A s \in SUBSET S : IsFiniteSet(s) /\ Cardinality(s) \in Nat
  BY FS_Subset, FS_CardinalityType
<1>3. PICK n \in Sizes : \A k \in Sizes : n <= k
  <2>1. Sizes \in SUBSET Nat /\ Sizes # {} BY <1>1, <1>2
  <2> HIDE DEF Sizes
  <2>2. QED BY <2>1, LeastNatural
<1>4. PICK s \in Bad : n = Cardinality(s) OBVIOUS
<1>5. ASSUME NEW x \in s PROVE s \ {x} \in G
  <2>1. s \ {x} \in SUBSET S BY <1>4
  <2>2. Cardinality(s \ {x}) = n - 1 BY <1>2, <1>4, <1>5, FS_RemoveElement
  <2>3. n \in Nat BY <1>2, <1>4
  <2>4. ~(n <= n - 1) BY <2>3
  <2>5. n - 1 \notin Sizes BY <1>3, <2>4
  <2>6. s \ {x} \notin Bad BY <2>2, <2>5
  <2>7. QED BY <2>1, <2>6
<1>6. QED BY <1>4, <1>5

-----------------------------------------------------------------------------
(* Recursion *)

\* f starts with base and goes on with step
Along(f, base, step, n) ==
  f[0] = base /\ \A k \in 0 .. n : k # 0 => f[k] = step[k][f[k - 1]]
AlongNat(f, base, step) ==
  f[0] = base /\ \A k \in Nat : f[k + 1] = step[k + 1][f[k]]

(* Recursion along 0 .. N whose values stay in V has a solution. *)
LEMMA RecursionUpto ==
  ASSUME NEW N \in Nat, NEW V, NEW base \in V, NEW step \in [Nat -> [V -> V]]
  PROVE  \E f : f \in [0 .. N -> V] /\ Along(f, base, step, N)
<1> DEFINE Def(f, n) == f[0] = base /\ \A k \in 0 .. n : k # 0 => f[k] = step[k][f[k - 1]]
           G == {n \in Nat : \E f \in [0 .. n -> V] : Def(f, n)}
<1>1. 0 \in G
  <2>1. [k \in 0 .. 0 |-> base] \in [0 .. 0 -> V] OBVIOUS
  <2>2. Def([k \in 0 .. 0 |-> base], 0) OBVIOUS
  <2> HIDE DEF Def
  <2>3. QED BY <2>1, <2>2
<1>2. ASSUME NEW n \in Nat, n \in G PROVE n + 1 \in G
  <2>1. PICK f \in [0 .. n -> V] : Def(f, n) BY <1>2
  <2> DEFINE g == [k \in 0 .. (n + 1) |-> IF k = n + 1 THEN step[n + 1][f[n]] ELSE f[k]]
  <2>2. g \in [0 .. (n + 1) -> V]
    <3>1. step[n + 1] \in [V -> V] /\ f[n] \in V OBVIOUS
    <3>2. \A k \in 0 .. (n + 1) : k # n + 1 => k \in 0 .. n OBVIOUS
    <3>3. QED BY <3>1, <3>2
  <2>3. g[0] = base /\ \A k \in 0 .. n : g[k] = f[k] /\ (k # 0 => f[k] = step[k][f[k - 1]])
    BY <2>1
  <2>4. \A k \in 0 .. (n + 1) : k # 0 => k - 1 \in 0 .. n OBVIOUS
  <2>5. g[n + 1] = step[n + 1][f[n]] /\ (n + 1) - 1 = n OBVIOUS
  <2>6. Def(g, n + 1)
    <3> HIDE DEF g
    <3>1. SUFFICES ASSUME NEW k \in 0 .. (n + 1), k # 0 PROVE g[k] = step[k][g[k - 1]]
      BY <2>3
    <3>2. CASE k = n + 1
      <4>1. n \in 0 .. n OBVIOUS
      <4>2. QED BY <2>3, <2>5, <3>2, <4>1
    <3>3. CASE k # n + 1
      <4>1. k \in 0 .. n BY <3>3
      <4>2. QED BY <2>3, <2>4, <3>1, <4>1
    <3>4. QED BY <3>2, <3>3
  <2> HIDE DEF g, Def
  <2>7. QED BY <2>2, <2>6
<1>3. N \in G
  <2> HIDE DEF G
  <2>1. QED BY <1>1, <1>2, InductionOnNat
<1>4. QED BY <1>3 DEF Along

(* And recursion over all naturals. *)
LEMMA RecursionOnNat ==
  ASSUME NEW V, NEW base \in V, NEW step \in [Nat -> [V -> V]]
  PROVE  \E f : f \in [Nat -> V] /\ AlongNat(f, base, step)
<1> DEFINE Def(f, n) == /\ f \in [0 .. n -> V] /\ f[0] = base
                        /\ \A k \in 0 .. n : k # 0 => f[k] = step[k][f[k - 1]]
           g(n) == CHOOSE f : Def(f, n)
           h == [n \in Nat |-> g(n)[n]]
<1>1. \A n \in Nat : Def(g(n), n)
  <2>1. TAKE n \in Nat
  <2>2. \E f : f \in [0 .. n -> V] /\ Along(f, base, step, n) BY RecursionUpto
  <2>3. PICK f : Def(f, n) BY <2>2 DEF Along
  <2> HIDE DEF Def
  <2>4. QED BY <2>3
<1>2. ASSUME NEW n \in Nat, NEW m \in Nat, n <= m PROVE g(n)[n] = g(m)[n]
  <2> DEFINE G == {k \in Nat : k <= n => g(n)[k] = g(m)[k]}
  <2>1. Def(g(n), n) /\ Def(g(m), m) BY <1>1
  <2> HIDE DEF g
  <2>2. 0 \in G BY <2>1
  <2>3. ASSUME NEW k \in Nat, k \in G PROVE k + 1 \in G
    <3>1. CASE k + 1 <= n
      <4>1. k + 1 \in 0 .. n /\ k + 1 \in 0 .. m /\ (k + 1) - 1 = k /\ k + 1 # 0
        BY <1>2, <3>1
      <4>2. g(n)[k] = g(m)[k] BY <2>3, <3>1
      <4>3. g(n)[k + 1] = step[k + 1][g(n)[k]] /\ g(m)[k + 1] = step[k + 1][g(m)[k]]
        BY <2>1, <4>1
      <4>4. QED BY <4>2, <4>3
    <3>2. QED BY <3>1
  <2>4. n \in G
    <3> HIDE DEF G
    <3>1. QED BY <2>2, <2>3, InductionOnNat
  <2>5. QED BY <2>4
<1>3. \A n \in Nat : h[n] = g(n)[n] /\ h[n] \in V
  <2>1. TAKE n \in Nat
  <2>2. Def(g(n), n) BY <1>1
  <2> HIDE DEF g
  <2>3. QED BY <2>2
<1>4. \A n \in Nat : h[n + 1] = step[n + 1][h[n]]
  <2>1. TAKE n \in Nat
  <2>2. Def(g(n + 1), n + 1)
    <3> HIDE DEF Def, g
    <3>1. QED BY <1>1
  <2>3. n + 1 \in 0 .. (n + 1) /\ n + 1 # 0 /\ (n + 1) - 1 = n /\ n <= n + 1 OBVIOUS
  <2> HIDE DEF g, h
  <2>4. g(n + 1)[n + 1] = step[n + 1][g(n + 1)[n]] BY <2>2, <2>3
  <2>5. g(n)[n] = g(n + 1)[n] BY <1>2, <2>3
  <2>6. QED BY <1>3, <2>4, <2>5
<1>5. h[0] = base
  <2>1. Def(g(0), 0) BY <1>1
  <2> HIDE DEF g, h
  <2>2. QED BY <1>3, <2>1
<1>6. h \in [Nat -> V]
  <2>1. h = [n \in Nat |-> h[n]] OBVIOUS
  <2> HIDE DEF h
  <2>2. QED BY <1>3, <2>1
<1> HIDE DEF h
<1>7. QED BY <1>4, <1>5, <1>6 DEF AlongNat

-----------------------------------------------------------------------------
(* The sum is well defined *)

Pick(s) == CHOOSE x \in s : TRUE

\* g sums f over the sets in D
Sums(f, D, g) ==
  g = [s \in D |-> IF s = {} THEN 0 ELSE f[Pick(s)] + g[s \ {Pick(s)}]]

LEMMA SumIs ==
  ASSUME NEW f, NEW S
  PROVE  SumFunctionOnSet(f, S) = (CHOOSE g : Sums(f, SUBSET S, g))[S]
BY DEF SumFunctionOnSet, FoldFunctionOnSet, MapThenFoldSet, Sums, Pick

LEMMA Picked ==
  ASSUME NEW s, s # {}
  PROVE  Pick(s) \in s
BY DEF Pick

(* The recursion the sum is written with has a solution. *)
LEMMA SumsExist ==
  ASSUME NEW f, NEW S, IsFiniteSet(S)
  PROVE  \E g : Sums(f, SUBSET S, g)
<1> DEFINE Upto(n) == {s \in SUBSET S : Cardinality(s) <= n}
           G == {n \in Nat : \E g : Sums(f, Upto(n), g)}
<1>1. \A s \in SUBSET S : IsFiniteSet(s) /\ Cardinality(s) \in Nat
  BY FS_Subset, FS_CardinalityType
<1>2. 0 \in G
  <2>1. Upto(0) = {{}}
    <3>1. \A s \in SUBSET S : Cardinality(s) <= 0 => s = {} BY <1>1, FS_EmptySet
    <3>2. Cardinality({}) <= 0 BY FS_EmptySet
    <3>3. QED BY <3>1, <3>2
  <2>2. Sums(f, {{}}, [s \in {{}} |-> 0]) BY DEF Sums
  <2>3. QED BY <2>1, <2>2
<1>3. ASSUME NEW n \in Nat, n \in G PROVE n + 1 \in G
  <2>1. PICK g : Sums(f, Upto(n), g) BY <1>3
  <2> DEFINE Body(s, h) == IF s = {} THEN 0 ELSE f[Pick(s)] + h[s \ {Pick(s)}]
             h == [s \in Upto(n + 1) |-> Body(s, g)]
  <2>2. \A s \in Upto(n) : g[s] = Body(s, g) BY <2>1 DEF Sums
  <2>3. ASSUME NEW s \in Upto(n + 1), s # {}
        PROVE  s \ {Pick(s)} \in Upto(n)
    <3>1. Cardinality(s \ {Pick(s)}) = Cardinality(s) - 1
      BY <1>1, <2>3, Picked, FS_RemoveElement
    <3>2. Cardinality(s) \in Nat /\ Cardinality(s) <= n + 1 BY <1>1
    <3>3. Cardinality(s) - 1 <= n BY <3>2
    <3>4. QED BY <3>1, <3>3
  <2>4. ASSUME NEW s \in Upto(n) PROVE s \in Upto(n + 1) /\ h[s] = g[s]
    <3>1. Cardinality(s) <= n + 1 BY <1>1
    <3>2. s \in Upto(n + 1) BY <3>1
    <3>3. h[s] = Body(s, g) BY <3>2
    <3>4. QED BY <2>2, <3>2, <3>3
  <2>5. \A s \in Upto(n + 1) : Body(s, g) = Body(s, h)
    <3> HIDE DEF h, Upto
    <3>1. QED BY <2>3, <2>4
  <2>6. h = [s \in Upto(n + 1) |-> Body(s, h)]
    <3> DEFINE k == [s \in Upto(n + 1) |-> Body(s, h)]
    <3>1. h = [s \in Upto(n + 1) |-> Body(s, g)] OBVIOUS
    <3> HIDE DEF h, Upto, Body
    <3>2. QED BY <3>1, <2>5
  <2>7. Sums(f, Upto(n + 1), h) BY <2>6 DEF Sums
  <2> HIDE DEF h
  <2>8. QED BY <2>7
<1>4. Cardinality(S) \in G
  <2>1. Nat \subseteq G
    <3> HIDE DEF G
    <3>1. QED BY <1>2, <1>3, InductionOnNat
  <2>2. QED BY <1>1, <2>1
<1>5. Upto(Cardinality(S)) = SUBSET S BY FS_Subset
<1>6. QED BY <1>4, <1>5

(* And one only, whatever set the summed ones are taken from. *)
LEMMA SumsAgree ==
  ASSUME NEW f, NEW S, IsFiniteSet(S), NEW T \in SUBSET S, NEW g, NEW h,
         Sums(f, SUBSET S, g), Sums(f, SUBSET T, h)
  PROVE  g[T] = h[T]
<1> DEFINE G == {s \in SUBSET T : g[s] = h[s]}
<1>1. IsFiniteSet(T) BY FS_Subset
<1>2. \A s \in SUBSET T :
        /\ g[s] = IF s = {} THEN 0 ELSE f[Pick(s)] + g[s \ {Pick(s)}]
        /\ h[s] = IF s = {} THEN 0 ELSE f[Pick(s)] + h[s \ {Pick(s)}]
  <2>1. SUBSET T \subseteq SUBSET S OBVIOUS
  <2>2. QED BY <2>1 DEF Sums
<1>3. ASSUME NEW s \in SUBSET T, \A x \in s : s \ {x} \in G PROVE s \in G
  <2>1. CASE s = {} BY <1>2, <2>1
  <2>2. CASE s # {}
    <3>1. s \ {Pick(s)} \in G BY <1>3, <2>2, Picked
    <3>2. QED BY <1>2, <2>2, <3>1
  <2>3. QED BY <2>1, <2>2
<1>4. T \in G
  <2>1. \A s \in SUBSET T : s \in G
    <3> HIDE DEF G
    <3>1. QED BY <1>1, <1>3, InductionOnSubsets
  <2>2. QED BY <2>1
<1>5. QED BY <1>4

(* What the sum is, without the choice of a solution. *)
LEMMA SumIsSolution ==
  ASSUME NEW f, NEW S, IsFiniteSet(S)
  PROVE  \E g : Sums(f, SUBSET S, g) /\ SumFunctionOnSet(f, S) = g[S]
<1> DEFINE g == CHOOSE g : Sums(f, SUBSET S, g)
<1>1. Sums(f, SUBSET S, g) BY SumsExist
<1>2. SumFunctionOnSet(f, S) = g[S] BY SumIs
<1> HIDE DEF g
<1>3. QED BY <1>1, <1>2

(* Nothing sums to zero. *)
LEMMA SumEmpty == ASSUME NEW f PROVE SumFunctionOnSet(f, {}) = 0
<1>1. IsFiniteSet({}) BY FS_EmptySet
<1>2. PICK g : Sums(f, SUBSET {}, g) /\ SumFunctionOnSet(f, {}) = g[{}]
  BY <1>1, SumIsSolution
<1>3. g[{}] = 0 BY <1>2 DEF Sums
<1>4. QED BY <1>2, <1>3

LEMMA SumPicked ==
  ASSUME NEW f, NEW S, IsFiniteSet(S), S # {}
  PROVE  SumFunctionOnSet(f, S) = f[Pick(S)] + SumFunctionOnSet(f, S \ {Pick(S)})
<1>1. PICK T \in SUBSET S : T = S \ {Pick(S)} OBVIOUS
<1>2. IsFiniteSet(T) BY FS_Subset
<1>3. PICK g : Sums(f, SUBSET S, g) /\ SumFunctionOnSet(f, S) = g[S]
  BY SumIsSolution
<1>4. PICK h : Sums(f, SUBSET T, h) /\ SumFunctionOnSet(f, T) = h[T]
  BY <1>2, SumIsSolution
<1>5. g[T] = h[T] BY <1>3, <1>4, SumsAgree
<1>6. g[S] = f[Pick(S)] + g[T] BY <1>1, <1>3 DEF Sums
<1>7. QED BY <1>1, <1>3, <1>4, <1>5, <1>6

-----------------------------------------------------------------------------
(* What is used of it *)

(* A sum of naturals is one. *)
LEMMA SumNat ==
  ASSUME NEW f, NEW S, IsFiniteSet(S), \A x \in S : f[x] \in Nat
  PROVE  SumFunctionOnSet(f, S) \in Nat
<1> DEFINE G == {s \in SUBSET S : SumFunctionOnSet(f, s) \in Nat}
<1>1. ASSUME NEW s \in SUBSET S, \A x \in s : s \ {x} \in G PROVE s \in G
  <2>1. CASE s = {} BY <2>1, SumEmpty
  <2>2. CASE s # {}
    <3>1. IsFiniteSet(s) BY FS_Subset
    <3>2. s \ {Pick(s)} \in G /\ f[Pick(s)] \in Nat BY <1>1, <2>2, Picked
    <3>3. SumFunctionOnSet(f, s) = f[Pick(s)] + SumFunctionOnSet(f, s \ {Pick(s)})
      BY <2>2, <3>1, SumPicked
    <3>4. QED BY <3>2, <3>3
  <2>3. QED BY <2>1, <2>2
<1>2. \A s \in SUBSET S : s \in G
  <2> HIDE DEF G
  <2>1. QED BY <1>1, InductionOnSubsets
<1>3. QED BY <1>2

(* Any element may be taken out first. *)
LEMMA SumRemove ==
  ASSUME NEW f, NEW S, IsFiniteSet(S), \A x \in S : f[x] \in Nat, NEW y \in S
  PROVE  SumFunctionOnSet(f, S) = f[y] + SumFunctionOnSet(f, S \ {y})
<1> DEFINE G == {s \in SUBSET S :
                   \A x \in s : SumFunctionOnSet(f, s) = f[x] + SumFunctionOnSet(f, s \ {x})}
<1>1. \A s \in SUBSET S : IsFiniteSet(s) /\ SumFunctionOnSet(f, s) \in Nat
  BY FS_Subset, SumNat
<1>2. ASSUME NEW s \in SUBSET S, \A x \in s : s \ {x} \in G PROVE s \in G
  <2>1. SUFFICES ASSUME NEW x \in s
                 PROVE  SumFunctionOnSet(f, s) = f[x] + SumFunctionOnSet(f, s \ {x})
    OBVIOUS
  <2> DEFINE p == Pick(s)
  <2>2. p \in s BY <2>1, Picked
  <2>3. SumFunctionOnSet(f, s) = f[p] + SumFunctionOnSet(f, s \ {p})
    BY <1>1, <2>1, SumPicked
  <2> HIDE DEF p
  <2>4. CASE x = p BY <2>3, <2>4
  <2>5. CASE x # p
    <3>1. s \ {p} \in G /\ s \ {x} \in G /\ x \in s \ {p} /\ p \in s \ {x}
      BY <1>2, <2>1, <2>2, <2>5
    <3>2. SumFunctionOnSet(f, s \ {p}) = f[x] + SumFunctionOnSet(f, (s \ {p}) \ {x})
      BY <3>1
    <3>3. SumFunctionOnSet(f, s \ {x}) = f[p] + SumFunctionOnSet(f, (s \ {x}) \ {p})
      BY <3>1
    <3>4. (s \ {p}) \ {x} = (s \ {x}) \ {p} OBVIOUS
    <3>5. (s \ {x}) \ {p} \in SUBSET S /\ f[p] \in Nat /\ f[x] \in Nat
      BY <2>1, <2>2
    <3>6. SumFunctionOnSet(f, (s \ {x}) \ {p}) \in Nat BY <1>1, <3>5
    <3>7. QED BY <2>3, <3>2, <3>3, <3>4, <3>5, <3>6
  <2>6. QED BY <2>4, <2>5
<1>3. S \in G
  <2>1. \A s \in SUBSET S : s \in G
    <3> HIDE DEF G
    <3>1. QED BY <1>2, InductionOnSubsets
  <2>2. QED BY <2>1
<1>4. QED BY <1>3

(* A sum over one more element. *)
LEMMA SumAdd ==
  ASSUME NEW f, NEW S, IsFiniteSet(S), NEW y, y \notin S,
         \A x \in S \cup {y} : f[x] \in Nat
  PROVE  SumFunctionOnSet(f, S \cup {y}) = SumFunctionOnSet(f, S) + f[y]
<1>1. IsFiniteSet(S \cup {y}) BY FS_AddElement
<1>2. (S \cup {y}) \ {y} = S OBVIOUS
<1>3. SumFunctionOnSet(f, S) \in Nat /\ f[y] \in Nat BY SumNat
<1>4. SumFunctionOnSet(f, S \cup {y})
        = f[y] + SumFunctionOnSet(f, (S \cup {y}) \ {y})
  <2> DEFINE T == S \cup {y}
  <2>1. y \in T OBVIOUS
  <2> HIDE DEF T
  <2>2. QED BY <1>1, <2>1, SumRemove DEF T
<1>5. QED BY <1>2, <1>3, <1>4

(* Only the values over the set count. *)
LEMMA SumSame ==
  ASSUME NEW f, NEW g, NEW S, IsFiniteSet(S), \A x \in S : f[x] = g[x]
  PROVE  SumFunctionOnSet(f, S) = SumFunctionOnSet(g, S)
<1> DEFINE G == {s \in SUBSET S : SumFunctionOnSet(f, s) = SumFunctionOnSet(g, s)}
<1>1. ASSUME NEW s \in SUBSET S, \A x \in s : s \ {x} \in G PROVE s \in G
  <2>1. CASE s = {} BY <2>1, SumEmpty
  <2>2. CASE s # {}
    <3>1. IsFiniteSet(s) BY FS_Subset
    <3>2. s \ {Pick(s)} \in G /\ f[Pick(s)] = g[Pick(s)] BY <1>1, <2>2, Picked
    <3>3. /\ SumFunctionOnSet(f, s) = f[Pick(s)] + SumFunctionOnSet(f, s \ {Pick(s)})
          /\ SumFunctionOnSet(g, s) = g[Pick(s)] + SumFunctionOnSet(g, s \ {Pick(s)})
      BY <2>2, <3>1, SumPicked
    <3>4. QED BY <3>2, <3>3
  <2>3. QED BY <2>1, <2>2
<1>2. \A s \in SUBSET S : s \in G
  <2> HIDE DEF G
  <2>1. QED BY <1>1, InductionOnSubsets
<1>3. QED BY <1>2

(* The sum over one element is its value. *)
LEMMA SumSingle ==
  ASSUME NEW f, NEW y, f[y] \in Nat
  PROVE  SumFunctionOnSet(f, {y}) = f[y]
<1>1. IsFiniteSet({}) /\ SumFunctionOnSet(f, {}) = 0 BY FS_EmptySet, SumEmpty
<1>2. {} \cup {y} = {y} OBVIOUS
<1>3. SumFunctionOnSet(f, {} \cup {y}) = SumFunctionOnSet(f, {}) + f[y]
  BY <1>1, SumAdd
<1>4. QED BY <1>1, <1>2, <1>3

(* A sum does not depend on the names of what is summed. *)
LEMMA SumRenamed ==
  ASSUME NEW S, IsFiniteSet(S), NEW T, NEW p \in [S -> T],
         \A x, y \in S : p[x] = p[y] => x = y,
         \A z \in T : \E x \in S : p[x] = z,
         NEW f, NEW g, \A x \in S : f[x] \in Nat /\ g[p[x]] = f[x]
  PROVE  SumFunctionOnSet(f, S) = SumFunctionOnSet(g, T)
<1> DEFINE Image(s) == {p[x] : x \in s}
           G == {s \in SUBSET S : /\ IsFiniteSet(Image(s))
                                  /\ SumFunctionOnSet(f, s) = SumFunctionOnSet(g, Image(s))}
<1>1. ASSUME NEW s \in SUBSET S, \A x \in s : s \ {x} \in G PROVE s \in G
  <2>1. CASE s = {}
    <3>1. Image(s) = {} BY <2>1
    <3>2. QED BY <2>1, <3>1, SumEmpty, FS_EmptySet
  <2>2. CASE s # {}
    <3>1. PICK x \in s : s \ {x} \in G BY <1>1, <2>2
    <3>2. PICK r : r = s \ {x} OBVIOUS
    <3>3. PICK I : I = Image(r) OBVIOUS
    <3>4. IsFiniteSet(I) /\ SumFunctionOnSet(f, r) = SumFunctionOnSet(g, I)
      BY <3>1, <3>2, <3>3
    <3>5. Image(s) = I \cup {p[x]} /\ s = r \cup {x} BY <3>2, <3>3
    <3>6. p[x] \notin I /\ x \notin r BY <3>2, <3>3
    <3>7. IsFiniteSet(r) BY <3>2, FS_Subset
    <3>8. \A y \in r \cup {x} : f[y] \in Nat BY <3>2
    <3>9. \A z \in I \cup {p[x]} : g[z] \in Nat BY <3>2, <3>3
    <3>10. SumFunctionOnSet(f, r \cup {x}) = SumFunctionOnSet(f, r) + f[x]
      BY <3>6, <3>7, <3>8, SumAdd
    <3>11. PICK z : z = p[x] OBVIOUS
    <3>12. SumFunctionOnSet(g, I \cup {z}) = SumFunctionOnSet(g, I) + g[z]
      BY <3>4, <3>6, <3>9, <3>11, SumAdd
    <3>13. g[z] = f[x] BY <3>11
    <3>14. IsFiniteSet(I \cup {z}) BY <3>4, FS_AddElement
    <3> HIDE DEF Image
    <3>15. QED BY <3>4, <3>5, <3>10, <3>11, <3>12, <3>13, <3>14
  <2>3. QED BY <2>1, <2>2
<1>2. S \in G
  <2>1. \A s \in SUBSET S : s \in G
    <3> HIDE DEF G
    <3>1. QED BY <1>1, InductionOnSubsets
  <2>2. QED BY <2>1
<1>3. Image(S) = T OBVIOUS
<1>4. QED BY <1>2, <1>3

(* Summing pairs first does not change a sum. *)
LEMMA SumOfPairs ==
  ASSUME NEW m \in Nat, NEW f, NEW g,
         \A i \in 0 .. (2 * m - 1) : f[i] \in Nat,
         \A i \in 0 .. (m - 1) : g[i] = f[2 * i] + f[2 * i + 1]
  PROVE  SumFunctionOnSet(g, 0 .. (m - 1)) = SumFunctionOnSet(f, 0 .. (2 * m - 1))
<1> DEFINE G == {k \in Nat : k <= m =>
                   SumFunctionOnSet(g, 0 .. (k - 1)) = SumFunctionOnSet(f, 0 .. (2 * k - 1))}
<1>1. 0 \in G
  <2>1. 0 .. (0 - 1) = {} /\ 0 .. (2 * 0 - 1) = {} OBVIOUS
  <2>2. QED BY <2>1, SumEmpty
<1>2. ASSUME NEW k \in Nat, k \in G PROVE k + 1 \in G
  <2>1. SUFFICES ASSUME k + 1 <= m
                 PROVE  SumFunctionOnSet(g, 0 .. ((k + 1) - 1))
                          = SumFunctionOnSet(f, 0 .. (2 * (k + 1) - 1))
    OBVIOUS
  <2>2. PICK a \in Nat, b \in Nat : a = 2 * k /\ b = 2 * k + 1 OBVIOUS
  <2>3. PICK A : A = 0 .. (2 * k - 1) OBVIOUS
  <2>4. PICK B : B = A \cup {a} OBVIOUS
  <2>5. PICK C : C = 0 .. (k - 1) OBVIOUS
  <2>6. 0 .. (2 * (k + 1) - 1) = B \cup {b} BY <2>2, <2>3, <2>4
  <2>7. 0 .. ((k + 1) - 1) = C \cup {k} BY <2>5
  <2>8. a \notin A /\ b \notin B /\ k \notin C BY <2>2, <2>3, <2>4, <2>5
  <2>9. IsFiniteSet(A) /\ IsFiniteSet(B) /\ IsFiniteSet(C)
    <3>1. IsFiniteSet(0 .. (2 * k - 1)) /\ IsFiniteSet(0 .. (k - 1))
      <4>1. 2 * k - 1 \in Int /\ k - 1 \in Int /\ 0 \in Int OBVIOUS
      <4>2. QED BY <4>1, FS_Interval
    <3>2. IsFiniteSet(A) /\ IsFiniteSet(C) BY <2>3, <2>5, <3>1
    <3>3. QED BY <2>4, <3>2, FS_AddElement
  <2>10. \A i \in B \cup {b} : f[i] \in Nat BY <2>1, <2>2, <2>3, <2>4
  <2>11. g[k] = f[a] + f[b] BY <2>1, <2>2
  <2>12. \A i \in C \cup {k} : g[i] \in Nat
    <3>1. \A i \in C \cup {k} : /\ i \in 0 .. (m - 1)
                               /\ 2 * i \in 0 .. (2 * m - 1) /\ 2 * i + 1 \in 0 .. (2 * m - 1)
      BY <2>1, <2>5
    <3>2. QED BY <3>1
  <2>13. SumFunctionOnSet(g, C) = SumFunctionOnSet(f, A) BY <1>2, <2>1, <2>3, <2>5
  <2>14. SumFunctionOnSet(f, B) = SumFunctionOnSet(f, A) + f[a]
    BY <2>4, <2>8, <2>9, <2>10, SumAdd
  <2>15. SumFunctionOnSet(f, B \cup {b}) = SumFunctionOnSet(f, B) + f[b]
    BY <2>8, <2>9, <2>10, SumAdd
  <2>16. SumFunctionOnSet(g, C \cup {k}) = SumFunctionOnSet(g, C) + g[k]
    BY <2>8, <2>9, <2>12, SumAdd
  <2>17. SumFunctionOnSet(f, A) \in Nat /\ f[a] \in Nat /\ f[b] \in Nat
    <3>1. \A i \in A : f[i] \in Nat BY <2>4, <2>10
    <3>2. QED BY <2>4, <2>9, <2>10, <3>1, SumNat
  <2>18. SumFunctionOnSet(g, C \cup {k}) = SumFunctionOnSet(f, B \cup {b})
    <3>1. PICK x \in Nat, y \in Nat, z \in Nat :
            x = SumFunctionOnSet(f, A) /\ y = f[a] /\ z = f[b]
      BY <2>17
    <3>2. SumFunctionOnSet(g, C \cup {k}) = x + (y + z) BY <2>11, <2>13, <2>16, <3>1
    <3>3. SumFunctionOnSet(f, B \cup {b}) = (x + y) + z BY <2>14, <2>15, <3>1
    <3>4. QED BY <3>2, <3>3
  <2>19. QED BY <2>6, <2>7, <2>18
<1>3. m \in G
  <2> HIDE DEF G
  <2>1. QED BY <1>1, <1>2, InductionOnNat
<1>4. QED BY <1>3

(* What is 0 adds nothing. *)
LEMMA SumZeros ==
  ASSUME NEW f, NEW S, IsFiniteSet(S), NEW T \in SUBSET S,
         \A x \in S : f[x] \in Nat, \A x \in S : x \notin T => f[x] = 0
  PROVE  SumFunctionOnSet(f, S) = SumFunctionOnSet(f, T)
<1> DEFINE R == S \ T
           G == {s \in SUBSET R : SumFunctionOnSet(f, T \cup s) = SumFunctionOnSet(f, T)}
<1>1. IsFiniteSet(R) /\ IsFiniteSet(T) BY FS_Subset
<1>2. ASSUME NEW s \in SUBSET R, \A x \in s : s \ {x} \in G PROVE s \in G
  <2>1. CASE s = {}
    <3>1. T \cup s = T BY <2>1
    <3>2. QED BY <3>1
  <2>2. CASE s # {}
    <3>1. PICK x \in s : s \ {x} \in G BY <1>2, <2>2
    <3>2. PICK A : A = T \cup (s \ {x}) OBVIOUS
    <3>3. x \notin A /\ T \cup s = A \cup {x} /\ A \subseteq S BY <3>2
    <3>4. IsFiniteSet(A) BY <3>3, FS_Subset
    <3>5. \A y \in A \cup {x} : f[y] \in Nat BY <3>3
    <3>6. SumFunctionOnSet(f, A \cup {x}) = SumFunctionOnSet(f, A) + f[x]
      BY <3>3, <3>4, <3>5, SumAdd
    <3>7. f[x] = 0 OBVIOUS
    <3>8. SumFunctionOnSet(f, A) \in Nat BY <3>4, <3>5, SumNat
    <3>9. SumFunctionOnSet(f, A) = SumFunctionOnSet(f, T) BY <3>1, <3>2
    <3>10. SumFunctionOnSet(f, A \cup {x}) = SumFunctionOnSet(f, A) BY <3>6, <3>7, <3>8
    <3>11. SumFunctionOnSet(f, T \cup s) = SumFunctionOnSet(f, T) BY <3>3, <3>9, <3>10
    <3>12. QED BY <3>11
  <2>3. QED BY <2>1, <2>2
<1>3. R \in G
  <2>1. \A s \in SUBSET R : s \in G
    <3> HIDE DEF G, R
    <3>1. QED BY <1>1, <1>2, InductionOnSubsets
  <2>2. QED BY <2>1
<1>4. T \cup R = S OBVIOUS
<1>5. QED BY <1>3, <1>4
==============================================================================
