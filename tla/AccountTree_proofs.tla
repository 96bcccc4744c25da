-------------------------- MODULE AccountTree_proofs --------------------------
(***************************************************************************)
(* Lemmas about the account lists and trees of AccountTree, for the proofs *)
(* of WitnessRun and of EvidenceRun: which accounts a tier holds, how long *)
(* its padding is, what is laid out by each tier, and what filling a tree  *)
(* with it leaves at an index.                                             *)
(***************************************************************************)
EXTENDS AccountTree, SequenceTheorems, SumLemmas

-----------------------------------------------------------------------------
(* The walk: a tier selects its accounts, all tiers hold each once.       *)

\* accounts of a snapshot, of people
Real == Accounts(Ids)

\* list holds the accounts at the places P of s, each once
Selection(list, s, P) ==
  \E p \in [1 .. Len(list) -> P] :
    /\ \A j, k \in 1 .. Len(list) : p[j] = p[k] => j = k
    /\ \A i \in P : \E k \in 1 .. Len(list) : p[k] = i
    /\ \A k \in 1 .. Len(list) : list[k] = s[p[k]]

LEMMA SelectionEmpty == ASSUME NEW s PROVE Selection(<<>>, s, {})
<1>1. 1 .. Len(<<>>) = {} OBVIOUS
<1>2. [k \in {} |-> k] \in [{} -> {}] OBVIOUS
<1>3. QED BY <1>1, <1>2 DEF Selection

(* Selections at places apart, one behind the other. *)
LEMMA SelectionJoin ==
  ASSUME NEW A, NEW a \in Seq(A), NEW b \in Seq(A), NEW s, NEW P, NEW Q,
         Selection(a, s, P), Selection(b, s, Q), P \cap Q = {}
  PROVE  Selection(a \o b, s, P \cup Q)
<1> DEFINE n == Len(a)
           m == Len(b)
           list == a \o b
<1>1. n \in Nat /\ m \in Nat OBVIOUS
<1>2. /\ Len(list) = n + m
      /\ \A k \in 1 .. (n + m) : list[k] = IF k <= n THEN a[k] ELSE b[k - n]
  BY ConcatProperties
<1>3. PICK p \in [1 .. n -> P] :
        /\ \A j, k \in 1 .. n : p[j] = p[k] => j = k
        /\ \A i \in P : \E k \in 1 .. n : p[k] = i
        /\ \A k \in 1 .. n : a[k] = s[p[k]]
  BY DEF Selection
<1>4. PICK q \in [1 .. m -> Q] :
        /\ \A j, k \in 1 .. m : q[j] = q[k] => j = k
        /\ \A i \in Q : \E k \in 1 .. m : q[k] = i
        /\ \A k \in 1 .. m : b[k] = s[q[k]]
  BY DEF Selection
<1> HIDE DEF n, m, list
<1> DEFINE r == [k \in 1 .. (n + m) |-> IF k <= n THEN p[k] ELSE q[k - n]]
<1>5. \A k \in 1 .. (n + m) : IF k <= n THEN k \in 1 .. n ELSE k - n \in 1 .. m BY <1>1
<1>6. \A k \in 1 .. (n + m) : r[k] = IF k <= n THEN p[k] ELSE q[k - n] OBVIOUS
<1>7. r \in [1 .. (n + m) -> P \cup Q]
  <2>1. \A k \in 1 .. (n + m) : (IF k <= n THEN p[k] ELSE q[k - n]) \in P \cup Q
    BY <1>5
  <2>2. QED BY <2>1
<1> HIDE DEF r
<1>8. ASSUME NEW j \in 1 .. (n + m), NEW k \in 1 .. (n + m), r[j] = r[k] PROVE j = k
  <2>1. CASE j <= n /\ k <= n BY <1>3, <1>5, <1>6, <1>8, <2>1
  <2>2. CASE ~(j <= n) /\ ~(k <= n)
    <3>1. j - n = k - n BY <1>4, <1>5, <1>6, <1>8, <2>2
    <3>2. QED BY <1>1, <3>1
  <2>3. CASE j <= n /\ ~(k <= n)
    <3>1. r[j] \in P /\ r[k] \in Q BY <1>5, <1>6, <2>3
    <3>2. QED BY <1>8, <3>1
  <2>4. CASE ~(j <= n) /\ k <= n
    <3>1. r[j] \in Q /\ r[k] \in P BY <1>5, <1>6, <2>4
    <3>2. QED BY <1>8, <3>1
  <2>5. QED BY <2>1, <2>2, <2>3, <2>4
<1>9. ASSUME NEW i \in P \cup Q PROVE \E k \in 1 .. (n + m) : r[k] = i
  <2>1. CASE i \in P
    <3>1. PICK k \in 1 .. n : p[k] = i BY <1>3, <2>1
    <3>2. k \in 1 .. (n + m) /\ k <= n BY <1>1
    <3>3. QED BY <1>6, <3>1, <3>2
  <2>2. CASE i \in Q
    <3>1. PICK k \in 1 .. m : q[k] = i BY <1>4, <2>2
    <3>2. PICK j \in 1 .. (n + m) : j = k + n BY <1>1
    <3>3. ~(j <= n) /\ j - n = k BY <1>1, <3>2
    <3>4. QED BY <1>6, <3>1, <3>3
  <2>3. QED BY <2>1, <2>2
<1>10. \A k \in 1 .. (n + m) : list[k] = s[r[k]] BY <1>2, <1>3, <1>4, <1>5, <1>6
<1>11. \E f \in [1 .. Len(list) -> P \cup Q] :
         /\ \A j, k \in 1 .. Len(list) : f[j] = f[k] => j = k
         /\ \A i \in P \cup Q : \E k \in 1 .. Len(list) : f[k] = i
         /\ \A k \in 1 .. Len(list) : list[k] = s[f[k]]
  BY <1>2, <1>7, <1>8, <1>9, <1>10
<1>12. QED BY <1>11 DEF Selection, list

(* A selection and one place more. *)
LEMMA SelectionAppend ==
  ASSUME NEW A, NEW list \in Seq(A), NEW s, NEW P, NEW i, i \notin P, s[i] \in A,
         Selection(list, s, P)
  PROVE  Selection(Append(list, s[i]), s, P \cup {i})
<1> DEFINE one == <<s[i]>>
<1>1. one \in Seq(A) /\ Len(one) = 1 /\ one[1] = s[i] /\ Append(list, s[i]) = list \o one
  <2>1. PICK x \in A : x = s[i] OBVIOUS
  <2>2. Append(list, x) = list \o <<x>> BY AppendIsConcat
  <2>3. QED BY <2>1, <2>2
<1>2. Selection(one, s, {i})
  <2>1. 1 .. 1 = {1} OBVIOUS
  <2>2. PICK p \in [1 .. 1 -> {i}] : p[1] = i
    <3>1. [k \in 1 .. 1 |-> i] \in [1 .. 1 -> {i}] OBVIOUS
    <3>2. [k \in 1 .. 1 |-> i][1] = i OBVIOUS
    <3>3. QED BY <3>1, <3>2
  <2> HIDE DEF one
  <2>3. /\ \A j, k \in 1 .. Len(one) : p[j] = p[k] => j = k
        /\ \A x \in {i} : \E k \in 1 .. Len(one) : p[k] = x
        /\ \A k \in 1 .. Len(one) : one[k] = s[p[k]]
    BY <1>1, <2>1, <2>2
  <2>4. QED BY <1>1, <2>2, <2>3 DEF Selection
<1>3. P \cap {i} = {} OBVIOUS
<1> HIDE DEF one
<1>4. Selection(list \o one, s, P \cup {i}) BY <1>1, <1>2, <1>3, SelectionJoin
<1>5. QED BY <1>1, <1>4

(* A selection is as long as it has places. *)
LEMMA SelectionSize ==
  ASSUME NEW list, Len(list) \in Nat, NEW s, NEW P, Selection(list, s, P)
  PROVE  IsFiniteSet(P) /\ Cardinality(P) = Len(list)
<1>1. PICK p \in [1 .. Len(list) -> P] :
        /\ \A j, k \in 1 .. Len(list) : p[j] = p[k] => j = k
        /\ \A i \in P : \E k \in 1 .. Len(list) : p[k] = i
  BY DEF Selection
<1>2. p \in Bijection(1 .. Len(list), P)
  BY <1>1 DEF Bijection, Injection, Surjection, IsInjective
<1>3. ExistsBijection(1 .. Len(list), P) BY <1>2 DEF ExistsBijection
<1>4. IsFiniteSet(1 .. Len(list)) /\ Cardinality(1 .. Len(list)) = Len(list)
  <2>1. PICK n \in Nat : n = Len(list) OBVIOUS
  <2>2. IsFiniteSet(1 .. n) /\ Cardinality(1 .. n) = IF 1 > n THEN 0 ELSE n - 1 + 1
    BY FS_Interval
  <2>3. QED BY <2>1, <2>2
<1>5. QED BY <1>3, <1>4, FS_Bijection

(* An account has no two tiers. *)
LEMMA TierUnique ==
  ASSUME NEW account, NEW t \in TierOf(account), NEW u \in TierOf(account)
  PROVE  t = u /\ t \in Tiers /\ t \in Nat /\ t # 0
<1>1. t <= u /\ u <= t /\ t \in Tiers /\ u \in Tiers BY DEF TierOf, PickAssetCountTier
<1>2. t \in Nat \ {0} /\ u \in Nat \ {0} BY <1>1, ShapeAssumption
<1>3. QED BY <1>1, <1>2

-----------------------------------------------------------------------------
\* b is the bucket of tier t after each of the accounts
SortedAlong(b, accs, t) ==
  /\ b \in [0 .. Len(accs) -> Seq(Real)] /\ b[0] = <<>>
  /\ \A n \in 1 .. Len(accs) :
       b[n] = IF t \in TierOf(accs[n]) THEN Append(b[n - 1], accs[n]) ELSE b[n - 1]

(* The recursion of ByTier has a solution, which ends with the bucket. *)
LEMMA ByTierAlong ==
  ASSUME NEW accs \in Seq(Real), NEW t
  PROVE  \E b : SortedAlong(b, accs, t) /\ ByTier(accs, t) = b[Len(accs)]
<1> DEFINE N == Len(accs)
           Of(i) == t \in TierOf(accs[i])
           step == [n \in Nat |-> [v \in Seq(Real) |->
                      IF n \in 1 .. N /\ Of(n) THEN Append(v, accs[n]) ELSE v]]
<1>1. N \in Nat /\ DOMAIN accs = 1 .. N /\ \A n \in 1 .. N : accs[n] \in Real OBVIOUS
<1> HIDE DEF N
<1>2. step \in [Nat -> [Seq(Real) -> Seq(Real)]]
  <2>1. \A n \in Nat, v \in Seq(Real) :
          (IF n \in 1 .. N /\ Of(n) THEN Append(v, accs[n]) ELSE v) \in Seq(Real)
    <3> HIDE DEF Of
    <3>1. QED BY <1>1, AppendProperties
  <2> HIDE DEF Of
  <2>2. QED BY <2>1
<1>3. \A n \in 1 .. N, v \in Seq(Real) :
        step[n][v] = IF Of(n) THEN Append(v, accs[n]) ELSE v
  <2> HIDE DEF Of
  <2>1. QED BY <1>1
<1> HIDE DEF step, Of
<1>4. PICK f : f \in [0 .. N -> Seq(Real)] /\ Along(f, <<>>, step, N)
  <2>1. <<>> \in Seq(Real) OBVIOUS
  <2>2. QED BY <1>1, <1>2, <2>1, RecursionUpto
<1> DEFINE Body(g, n) == IF n = 0 THEN <<>>
                         ELSE IF Of(n) THEN Append(g[n - 1], accs[n]) ELSE g[n - 1]
           Def(g) == g = [n \in 0 .. N |-> Body(g, n)]
           b == CHOOSE g : Def(g)
<1>5. \A n \in 0 .. N : n # 0 => n - 1 \in 0 .. N /\ n \in 1 .. N BY <1>1
<1>6. Def(f)
  <2>1. \A n \in 0 .. N : f[n] = Body(f, n)
    <3>1. TAKE n \in 0 .. N
    <3>2. CASE n = 0 BY <1>4, <3>2 DEF Along
    <3>3. CASE n # 0
      <4>1. f[n] = step[n][f[n - 1]] BY <1>4, <3>3 DEF Along
      <4>2. f[n - 1] \in Seq(Real) BY <1>4, <1>5, <3>3
      <4>3. QED BY <1>3, <1>5, <3>3, <4>1, <4>2
    <3>4. QED BY <3>2, <3>3
  <2> HIDE DEF Body
  <2>2. f = [n \in 0 .. N |-> f[n]] BY <1>4
  <2>3. QED BY <2>1, <2>2
<1>7. Def(b)
  <2> HIDE DEF Def
  <2>1. QED BY <1>6
<1>8. ByTier(accs, t) = b[N] BY DEF ByTier, N, Of
<1> HIDE DEF b
<1>9. \A n \in 0 .. N : b[n] = Body(b, n)
  <2> HIDE DEF Body
  <2>1. QED BY <1>7
<1>10. b \in [0 .. N -> Seq(Real)]
  <2> DEFINE G == {n \in Nat : n <= N => b[n] \in Seq(Real)}
  <2>1. 0 \in G
    <3>1. b[0] = <<>> /\ <<>> \in Seq(Real) BY <1>1, <1>9
    <3>2. QED BY <3>1
  <2>2. ASSUME NEW n \in Nat, n \in G PROVE n + 1 \in G
    <3>1. SUFFICES ASSUME n + 1 <= N PROVE b[n + 1] \in Seq(Real) OBVIOUS
    <3>2. n <= N /\ n + 1 \in 0 .. N /\ n + 1 # 0 /\ (n + 1) - 1 = n /\ n + 1 \in 1 .. N
      BY <1>1, <3>1
    <3>3. b[n] \in Seq(Real) BY <2>2, <3>2
    <3>4. b[n + 1] = IF Of(n + 1) THEN Append(b[n], accs[n + 1]) ELSE b[n] BY <1>9, <3>2
    <3>5. accs[n + 1] \in Real BY <1>1, <3>2
    <3>6. Append(b[n], accs[n + 1]) \in Seq(Real) BY <3>3, <3>5, AppendProperties
    <3>7. QED BY <3>3, <3>4, <3>6
  <2>3. Nat \subseteq G
    <3> HIDE DEF G
    <3>1. QED BY <2>1, <2>2, InductionOnNat
  <2>4. \A n \in 0 .. N : b[n] \in Seq(Real) BY <1>1, <2>3
  <2>5. b = [n \in 0 .. N |-> b[n]]
    <3> HIDE DEF Body
    <3>1. QED BY <1>7
  <2>6. QED BY <2>4, <2>5
<1>11. b[0] = <<>> BY <1>1, <1>9
<1>12. \A n \in 1 .. N : b[n] = IF Of(n) THEN Append(b[n - 1], accs[n]) ELSE b[n - 1]
  <2>1. \A n \in 1 .. N : n \in 0 .. N /\ n # 0 BY <1>1
  <2>2. QED BY <1>9, <2>1
<1>13. SortedAlong(b, accs, t) BY <1>10, <1>11, <1>12 DEF SortedAlong, N, Of
<1>14. QED BY <1>8, <1>13 DEF N

(* ByTier selects the accounts of the tier. *)
LEMMA ByTierIs ==
  ASSUME NEW accs \in Seq(Real), NEW t
  PROVE  /\ ByTier(accs, t) \in Seq(Real)
         /\ Selection(ByTier(accs, t), accs, {i \in DOMAIN accs : t \in TierOf(accs[i])})
<1> DEFINE N == Len(accs)
           Of(i) == t \in TierOf(accs[i])
<1>1. N \in Nat /\ DOMAIN accs = 1 .. N /\ \A n \in 1 .. N : accs[n] \in Real OBVIOUS
<1>2. PICK b : SortedAlong(b, accs, t) /\ ByTier(accs, t) = b[N] BY ByTierAlong
<1>3. b[0] = <<>> /\ \A n \in 1 .. N :
                       b[n] = IF Of(n) THEN Append(b[n - 1], accs[n]) ELSE b[n - 1]
  BY <1>2 DEF SortedAlong
<1> HIDE DEF N, Of
<1> DEFINE At(n) == {i \in 1 .. n : Of(i)}
           G == {n \in Nat : n <= N => b[n] \in Seq(Real) /\ Selection(b[n], accs, At(n))}
<1>10. 0 \in G
  <2>1. b[0] = <<>> BY <1>3
  <2>2. At(0) = {} OBVIOUS
  <2>3. <<>> \in Seq(Real) OBVIOUS
  <2> HIDE DEF At
  <2>4. Selection(b[0], accs, At(0)) BY <2>1, <2>2, SelectionEmpty
  <2>5. QED BY <2>1, <2>3, <2>4
<1>11. ASSUME NEW n \in Nat, n \in G PROVE n + 1 \in G
  <2>1. SUFFICES ASSUME n + 1 <= N
                 PROVE  b[n + 1] \in Seq(Real) /\ Selection(b[n + 1], accs, At(n + 1))
    OBVIOUS
  <2>2. n <= N /\ n + 1 \in 0 .. N /\ n + 1 # 0 /\ (n + 1) - 1 = n /\ n + 1 \in 1 .. N
    BY <1>1, <2>1
  <2>3. b[n] \in Seq(Real) /\ Selection(b[n], accs, At(n)) BY <1>11, <2>2
  <2>4. b[n + 1] = IF Of(n + 1) THEN Append(b[n], accs[n + 1]) ELSE b[n] BY <1>3, <2>2
  <2>5. PICK m : m = n + 1 OBVIOUS
  <2>6. accs[m] \in Real BY <1>1, <2>2, <2>5
  <2>7. CASE Of(n + 1)
    <3>1. At(n + 1) = At(n) \cup {m} /\ m \notin At(n) BY <2>5, <2>7
    <3> HIDE DEF At
    <3>2. Selection(Append(b[n], accs[m]), accs, At(n) \cup {m})
      BY <2>3, <2>6, <3>1, SelectionAppend
    <3>3. Append(b[n], accs[m]) \in Seq(Real) BY <2>3, <2>6, AppendProperties
    <3>4. QED BY <2>4, <2>5, <2>7, <3>1, <3>2, <3>3
  <2>8. CASE ~Of(n + 1)
    <3>1. At(n + 1) = At(n) BY <2>8
    <3> HIDE DEF At
    <3>2. QED BY <2>3, <2>4, <2>8, <3>1
  <2>9. QED BY <2>7, <2>8
<1>12. N \in G
  <2> HIDE DEF G
  <2>1. QED BY <1>1, <1>10, <1>11, InductionOnNat
<1>13. At(N) = {i \in DOMAIN accs : t \in TierOf(accs[i])} BY <1>1 DEF Of
<1>14. b[N] \in Seq(Real) /\ Selection(b[N], accs, At(N))
  <2> HIDE DEF At
  <2>1. QED BY <1>1, <1>12
<1> HIDE DEF At
<1>15. QED BY <1>2, <1>13, <1>14

(* The walk over tiers comes to every tier. *)
LEMMA LastTierIs == LastTier \in Nat /\ \A t \in Tiers : t \in 1 .. LastTier
<1> DEFINE S == Tiers \cup {0}
           G == {s \in SUBSET S : s # {} => \E m \in s : \A y \in s : m >= y}
<1>1. S \subseteq Nat /\ IsFiniteSet(S) BY ShapeAssumption, FS_AddElement
<1>2. ASSUME NEW s \in SUBSET S, \A x \in s : s \ {x} \in G PROVE s \in G
  <2>1. SUFFICES ASSUME NEW x \in s PROVE \E m \in s : \A y \in s : m >= y OBVIOUS
  <2>2. CASE s \ {x} = {}
    <3>1. \A y \in s : y = x BY <2>2
    <3>2. x \in Nat BY <1>1
    <3>3. QED BY <3>1, <3>2
  <2>3. CASE s \ {x} # {}
    <3>1. PICK m \in s \ {x} : \A y \in s \ {x} : m >= y BY <1>2, <2>3
    <3>2. m \in Nat /\ x \in Nat /\ \A y \in s : y \in Nat BY <1>1
    <3>3. CASE m >= x BY <3>1, <3>3
    <3>4. CASE ~(m >= x)
      <4>1. x >= m BY <3>2, <3>4
      <4>2. \A y \in s : x >= y
        <5>1. TAKE y \in s
        <5>2. CASE y = x BY <3>2, <5>2
        <5>3. CASE y # x
          <6>1. m >= y BY <3>1, <5>3
          <6>2. QED BY <3>2, <4>1, <6>1
        <5>4. QED BY <5>2, <5>3
      <4>3. QED BY <4>2
    <3>5. QED BY <3>3, <3>4
  <2>4. QED BY <2>2, <2>3
<1>3. \E m \in S : \A y \in S : m >= y
  <2>1. \A s \in SUBSET S : s \in G
    <3> HIDE DEF G, S
    <3>1. QED BY <1>1, <1>2, InductionOnSubsets
  <2>2. S \in G BY <2>1
  <2>3. QED BY <2>2
<1>4. LastTier \in S /\ \A y \in S : LastTier >= y
  <2>1. LastTier = CHOOSE m \in S : \A y \in S : m >= y BY DEF LastTier, Max
  <2> HIDE DEF S
  <2>2. QED BY <1>3, <2>1
<1>5. ASSUME NEW t \in Tiers PROVE t \in 1 .. LastTier
  <2>1. t \in Nat /\ t # 0 /\ LastTier \in Nat /\ LastTier >= t BY <1>1, <1>4, ShapeAssumption
  <2>2. QED BY <2>1
<1>6. LastTier \in Nat BY <1>1, <1>4
<1>7. QED BY <1>5, <1>6

(* The accounts of the first t tiers. *)
TieredBelow(accs, t) == {i \in DOMAIN accs : \E u \in 1 .. t : u \in TierOf(accs[i])}
\* the accounts of one
TieredAt(accs, t) == {i \in DOMAIN accs : t \in TierOf(accs[i])}

(* One tier more. *)
LEMMA TieredNext ==
  ASSUME NEW accs, NEW t \in Nat
  PROVE  /\ TieredBelow(accs, t + 1) = TieredBelow(accs, t) \cup TieredAt(accs, t + 1)
         /\ TieredBelow(accs, t) \cap TieredAt(accs, t + 1) = {}
         /\ TieredBelow(accs, 0) = {}
<1>1. \A u : u \in 1 .. (t + 1) <=> u \in 1 .. t \/ u = t + 1 OBVIOUS
<1>2. t + 1 \notin 1 .. t /\ 1 .. 0 = {} OBVIOUS
<1>3. TieredBelow(accs, t + 1) = TieredBelow(accs, t) \cup TieredAt(accs, t + 1)
  BY <1>1 DEF TieredBelow, TieredAt
<1>4. TieredBelow(accs, t) \cap TieredAt(accs, t + 1) = {}
  BY <1>2, TierUnique DEF TieredBelow, TieredAt
<1>5. TieredBelow(accs, 0) = {} BY <1>2 DEF TieredBelow
<1>6. QED BY <1>3, <1>4, <1>5

(* All tiers. *)
LEMMA TieredAll ==
  ASSUME NEW accs
  PROVE  TieredBelow(accs, LastTier) = {i \in DOMAIN accs : TierOf(accs[i]) # {}}
BY TierUnique, LastTierIs DEF TieredBelow

(* The walk selects the accounts that have a tier. *)
LEMMA WrittenIs ==
  ASSUME NEW accs \in Seq(Real)
  PROVE  /\ Written(accs) \in Seq(Real)
         /\ Selection(Written(accs), accs, {i \in DOMAIN accs : TierOf(accs[i]) # {}})
<1> DEFINE N == LastTier
           step == [n \in Nat |-> [v \in Seq(Real) |-> v \o ByTier(accs, n)]]
<1>1. N \in Nat BY LastTierIs
<1> HIDE DEF N
<1>2. step \in [Nat -> [Seq(Real) -> Seq(Real)]]
  <2>1. \A n \in Nat, v \in Seq(Real) : v \o ByTier(accs, n) \in Seq(Real)
    BY ByTierIs, ConcatProperties
  <2>2. QED BY <2>1
<1>3. \A n \in Nat, v \in Seq(Real) : step[n][v] = v \o ByTier(accs, n) OBVIOUS
<1> HIDE DEF step
<1>4. PICK f : f \in [0 .. N -> Seq(Real)] /\ Along(f, <<>>, step, N)
  <2>1. <<>> \in Seq(Real) OBVIOUS
  <2>2. QED BY <1>1, <1>2, <2>1, RecursionUpto
<1> DEFINE Body(g, n) == IF n = 0 THEN <<>> ELSE g[n - 1] \o ByTier(accs, n)
           Def(g) == g = [n \in 0 .. N |-> Body(g, n)]
           b == CHOOSE g : Def(g)
<1>5. \A n \in 0 .. N : n # 0 => n - 1 \in 0 .. N /\ n \in Nat BY <1>1
<1>6. Def(f)
  <2>1. \A n \in 0 .. N : f[n] = Body(f, n)
    <3>1. TAKE n \in 0 .. N
    <3>2. CASE n = 0 BY <1>4, <3>2 DEF Along
    <3>3. CASE n # 0
      <4>1. f[n] = step[n][f[n - 1]] BY <1>4, <3>3 DEF Along
      <4>2. f[n - 1] \in Seq(Real) BY <1>4, <1>5, <3>3
      <4>3. QED BY <1>3, <1>5, <3>3, <4>1, <4>2
    <3>4. QED BY <3>2, <3>3
  <2> HIDE DEF Body
  <2>2. f = [n \in 0 .. N |-> f[n]] BY <1>4
  <2>3. QED BY <2>1, <2>2
<1>7. Def(b)
  <2> HIDE DEF Def
  <2>1. QED BY <1>6
<1>8. Written(accs) = b[N] BY DEF Written, N
<1> HIDE DEF b
<1>9. \A n \in 0 .. N : b[n] = Body(b, n)
  <2> HIDE DEF Body
  <2>1. QED BY <1>7
<1> DEFINE Good(n) == b[n] \in Seq(Real) /\ Selection(b[n], accs, TieredBelow(accs, n))
           G == {n \in Nat : n <= N => Good(n)}
<1>10. 0 \in G
  <2>1. b[0] = <<>> /\ <<>> \in Seq(Real) BY <1>1, <1>9
  <2>2. TieredBelow(accs, 0) = {} BY TieredNext
  <2>3. Selection(b[0], accs, TieredBelow(accs, 0)) BY <2>1, <2>2, SelectionEmpty
  <2>4. QED BY <2>1, <2>3
<1>11. ASSUME NEW n \in Nat, n \in G PROVE n + 1 \in G
  <2>1. SUFFICES ASSUME n + 1 <= N PROVE Good(n + 1) OBVIOUS
  <2>2. n <= N /\ n + 1 \in 0 .. N /\ n + 1 # 0 /\ (n + 1) - 1 = n BY <1>1, <2>1
  <2>3. Good(n) BY <1>11, <2>2
  <2>4. PICK m \in Nat : m = n + 1 OBVIOUS
  <2>5. b[m] = b[n] \o ByTier(accs, m) BY <1>9, <2>2, <2>4
  <2>6. /\ ByTier(accs, m) \in Seq(Real)
        /\ Selection(ByTier(accs, m), accs, TieredAt(accs, m))
    BY ByTierIs DEF TieredAt
  <2>7. /\ TieredBelow(accs, m) = TieredBelow(accs, n) \cup TieredAt(accs, m)
        /\ TieredBelow(accs, n) \cap TieredAt(accs, m) = {}
    BY <2>4, TieredNext
  <2>8. Selection(b[n] \o ByTier(accs, m), accs, TieredBelow(accs, n) \cup TieredAt(accs, m))
    BY <2>3, <2>6, <2>7, SelectionJoin
  <2>9. b[n] \o ByTier(accs, m) \in Seq(Real) BY <2>3, <2>6, ConcatProperties
  <2>10. QED BY <2>4, <2>5, <2>7, <2>8, <2>9
<1>12. Good(N)
  <2>1. N \in G
    <3> HIDE DEF G
    <3>1. QED BY <1>1, <1>10, <1>11, InductionOnNat
  <2> HIDE DEF Good
  <2>2. QED BY <1>1, <2>1
<1>13. TieredBelow(accs, N) = {i \in DOMAIN accs : TierOf(accs[i]) # {}}
  BY TieredAll DEF N
<1>14. QED BY <1>8, <1>12, <1>13

-----------------------------------------------------------------------------
(* Padding.                                                               *)

LEMMA WholeMultiple ==
  \A q \in Int : \A u \in Nat \ {0} : (q * u) % u = 0
BY SMTT(30)

LEMMA NoneLeft == \A n \in Nat : \A u \in Nat \ {0} : n % u = 0 /\ n < u => n = 0
BY SMTT(30)

LEMMA Multiple == \A n \in Nat : \A u \in Nat \ {0} : n % u = 0 => n = (n \div u) * u
BY SMTT(30)

LEMMA OneLess ==
  ASSUME NEW n \in Nat, NEW u \in Nat \ {0}, (n + u) % u = 0
  PROVE  n % u = 0
<1>1. PICK m \in Nat : m = n + u OBVIOUS
<1>2. m = (m \div u) * u BY <1>1, Multiple
<1>3. PICK q \in Int : m = q * u
  <2>1. m \div u \in Int BY SMTT(30)
  <2>2. QED BY <1>2, <2>1
<1>4. n = (q - 1) * u
  <2>1. (q - 1) * u = q * u - u BY <1>3, SMTT(30)
  <2>2. q * u \in Int BY <1>3
  <2>3. QED BY <1>1, <1>3, <2>1, <2>2
<1>5. q - 1 \in Int BY <1>3
<1>6. QED BY <1>4, <1>5, WholeMultiple

(* Padding never shortens a tier, and a longer tier stays the longer one. *)
LEMMA PaddingIs ==
  ASSUME NEW t \in Tiers, NEW n \in Nat
  PROVE  /\ PaddingCount(n, t) \in Nat
         /\ \A k \in Nat : k <= n =>
              k + PaddingCount(k, t) <= n + PaddingCount(n, t)
<1> DEFINE u == UsersPerBatch[t]
           d(k) == (k + u - 1) \div u
<1>1. u \in Nat /\ u >= 1 BY ShapeAssumption
<1>2. ASSUME NEW k \in Nat
      PROVE  /\ d(k) \in Int /\ u * d(k) <= k + u - 1 /\ k + u - 1 < u * d(k) + u
             /\ PaddingCount(k, t) = u * d(k) - k /\ u * d(k) \in Int
  <2>1. PICK m \in Int : m = k + u - 1 BY <1>1
  <2>2. m \div u \in Int /\ u * (m \div u) <= m /\ m < u * (m \div u) + u
    BY <1>1, DivBounds
  <2>3. PaddingCount(k, t) = d(k) * u - k BY DEF PaddingCount
  <2>4. d(k) = m \div u BY <2>1
  <2> HIDE DEF u, d
  <2>5. d(k) * u = u * d(k) /\ u * d(k) \in Int BY <1>1, <2>2, <2>4
  <2>6. QED BY <2>1, <2>2, <2>3, <2>4, <2>5
<1> HIDE DEF u, d
<1>3. PaddingCount(n, t) \in Nat BY <1>1, <1>2
<1>4. ASSUME NEW k \in Nat, k <= n
      PROVE  k + PaddingCount(k, t) <= n + PaddingCount(n, t)
  <2>1. PICK a \in Int : a = d(k) BY <1>2
  <2>2. PICK b \in Int : b = d(n) BY <1>2
  <2>3. a <= b
    <3>1. SUFFICES ASSUME b + 1 <= a PROVE FALSE BY <2>1, <2>2
    <3>2. u * (b + 1) <= u * a BY <1>1, <3>1, SMTT(30)
    <3>3. u * (b + 1) = u * b + u BY <1>1, SMTT(30)
    <3>4. PICK x \in Int : x = u * a BY <1>1
    <3>5. PICK y \in Int : y = u * b BY <1>1
    <3>6. x <= k + u - 1 /\ n + u - 1 < y + u BY <1>2, <2>1, <2>2, <3>4, <3>5
    <3>7. y + u <= x BY <3>2, <3>3, <3>4, <3>5
    <3>8. QED BY <1>1, <1>4, <3>6, <3>7
  <2>4. u * a <= u * b BY <1>1, <2>3, SMTT(30)
  <2>5. PICK x \in Int : x = u * a BY <1>1
  <2>6. PICK y \in Int : y = u * b BY <1>1
  <2>7. PaddingCount(k, t) = x - k /\ PaddingCount(n, t) = y - n
    BY <1>2, <2>1, <2>2, <2>5, <2>6
  <2>8. QED BY <2>4, <2>5, <2>6, <2>7
<1>5. QED BY <1>3, <1>4

\* a padding account
Padding(i) == [id |-> PaddingId, index |-> i, bal |-> NoBalance]

LEMMA RealIsAccount == Real \subseteq Account /\ \A i \in Nat : Padding(i) \in Account
BY DEF Real, Account, Accounts, Padding, NoBalance

(* A tier with its padding behind it. *)
LEMMA PaddedWithIs ==
  ASSUME NEW accs \in Seq(Real), NEW t \in Tiers, NEW start \in Nat
  PROVE  LET n == Len(accs)
             c == PaddingCount(n, t)
             users == PaddedWith(accs, t, start)
         IN  /\ users \in Seq(Account) /\ Len(users) = n + c
             /\ \A k \in 1 .. (n + c) :
                  users[k] = IF k <= n THEN accs[k] ELSE Padding(start + (k - n) - 1)
<1> DEFINE n == Len(accs)
           c == PaddingCount(n, t)
           pad == [i \in 1 .. c |-> Padding(start + i - 1)]
           users == PaddedWith(accs, t, start)
<1>1. n \in Nat /\ c \in Nat BY PaddingIs
<1>2. users = accs \o pad BY DEF PaddedWith, Padding
<1> HIDE DEF c, users
<1>3. pad \in Seq(Account) /\ Len(pad) = c
  <2>1. \A i \in 1 .. c : start + i - 1 \in Nat BY <1>1
  <2>2. pad \in [1 .. c -> Account] BY <2>1, RealIsAccount
  <2>3. DOMAIN pad = 1 .. c OBVIOUS
  <2> HIDE DEF pad
  <2>4. QED BY <1>1, <2>2, <2>3
<1>4. \A i \in 1 .. c : pad[i] = Padding(start + i - 1) OBVIOUS
<1> HIDE DEF pad
<1>5. accs \in Seq(Account) BY RealIsAccount
<1>6. /\ users \in Seq(Account) /\ Len(users) = n + c
      /\ \A k \in 1 .. (n + c) : users[k] = IF k <= n THEN accs[k] ELSE pad[k - n]
  BY <1>2, <1>3, <1>5, ConcatProperties
<1>7. \A k \in 1 .. (n + c) : ~(k <= n) => k - n \in 1 .. c BY <1>1
<1> HIDE DEF n
<1>8. \A k \in 1 .. (n + c) :
        users[k] = IF k <= n THEN accs[k] ELSE Padding(start + (k - n) - 1)
  BY <1>4, <1>6, <1>7
<1>9. QED BY <1>6, <1>8 DEF n, c, users

-----------------------------------------------------------------------------
\* a leaf before it is set, and what LaidOut keeps from tier to tier
PlacedLeaf == [account : Account, tier : Tiers]
Layout == [leaves : Seq(PlacedLeaf), next : Nat]

(* What one tier adds to a layout: its accounts, and behind them padding   *)
(* numbered on from what the tiers before have used up.                    *)
Adds(done, new, bucket, c) ==
  LET n == Len(bucket)
      m == Len(done.leaves)
  IN  /\ new.next = done.next + c
      /\ Len(new.leaves) = m + (n + c)
      /\ \A k \in 1 .. m : new.leaves[k] = done.leaves[k]
      /\ \A k \in 1 .. (n + c) :
           new.leaves[m + k].account
             = IF k <= n THEN bucket[k] ELSE Padding(done.next + (k - n) - 1)

(* WithTier adds what Adds says. *)
LEMMA WithTierIs ==
  ASSUME NEW done \in Layout, NEW accs \in Seq(Real), NEW t \in Tiers
  PROVE  /\ WithTier(done, accs, t) \in Layout
         /\ PaddingCount(Len(ByTier(accs, t)), t) \in Nat
         /\ Adds(done, WithTier(done, accs, t), ByTier(accs, t),
                 PaddingCount(Len(ByTier(accs, t)), t))
<1> DEFINE bucket == ByTier(accs, t)
           n == Len(bucket)
           c == PaddingCount(n, t)
           m == Len(done.leaves)
           users == PaddedWith(bucket, t, done.next)
           add == [i \in DOMAIN users |-> [account |-> users[i], tier |-> t]]
           new == WithTier(done, accs, t)
<1>1. bucket \in Seq(Real) BY ByTierIs
<1>2. done.leaves \in Seq(PlacedLeaf) /\ done.next \in Nat /\ m \in Nat BY DEF Layout
<1>3. new = [leaves |-> done.leaves \o add, next |-> done.next + c] BY DEF WithTier
<1> HIDE DEF new, bucket
<1>4. n \in Nat /\ c \in Nat BY <1>1, PaddingIs
<1>5. /\ users \in Seq(Account) /\ Len(users) = n + c
      /\ \A k \in 1 .. (n + c) :
           users[k] = IF k <= n THEN bucket[k] ELSE Padding(done.next + (k - n) - 1)
  BY <1>1, <1>2, PaddedWithIs
<1> HIDE DEF c, n, users
<1>6. add \in Seq(PlacedLeaf) /\ Len(add) = n + c
  <2>1. DOMAIN users = 1 .. (n + c) /\ \A i \in 1 .. (n + c) : users[i] \in Account BY <1>5
  <2>2. add \in [1 .. (n + c) -> PlacedLeaf] BY <2>1 DEF PlacedLeaf
  <2>3. DOMAIN add = 1 .. (n + c) /\ n + c \in Nat BY <1>4, <2>1
  <2> HIDE DEF add
  <2>4. QED BY <2>2, <2>3
<1>7. \A k \in 1 .. (n + c) : add[k].account = users[k] BY <1>5
<1> HIDE DEF add
<1>8. PICK all : all = done.leaves \o add OBVIOUS
<1>9. /\ all \in Seq(PlacedLeaf) /\ Len(all) = m + (n + c)
      /\ \A k \in 1 .. (m + (n + c)) :
           all[k] = IF k <= m THEN done.leaves[k] ELSE add[k - m]
  <2>1. PICK x \in Seq(PlacedLeaf) : x = done.leaves BY <1>2
  <2>2. PICK y \in Seq(PlacedLeaf) : y = add BY <1>6
  <2>3. /\ x \o y \in Seq(PlacedLeaf) /\ Len(x \o y) = Len(x) + Len(y)
        /\ \A k \in 1 .. (Len(x) + Len(y)) :
             (x \o y)[k] = IF k <= Len(x) THEN x[k] ELSE y[k - Len(x)]
    <3> HIDE DEF PlacedLeaf
    <3>1. QED BY ConcatProperties
  <2>4. Len(x) = m /\ Len(y) = n + c /\ all = x \o y BY <1>6, <1>8, <2>1, <2>2
  <2> HIDE DEF PlacedLeaf
  <2>5. QED BY <2>1, <2>2, <2>3, <2>4
<1> HIDE DEF m
<1>10. \A k \in 1 .. m : all[k] = done.leaves[k] BY <1>2, <1>4, <1>9
<1>11. ASSUME NEW k \in 1 .. (n + c)
       PROVE  all[m + k].account
                = IF k <= n THEN bucket[k] ELSE Padding(done.next + (k - n) - 1)
  <2>1. PICK j \in 1 .. (m + (n + c)) : j = m + k BY <1>2, <1>4
  <2>2. ~(j <= m) /\ j - m = k BY <1>2, <1>4, <2>1
  <2>3. all[j] = add[k] BY <1>9, <2>2
  <2>4. QED BY <1>5, <1>7, <2>1, <2>3
<1>12. new.leaves = all /\ new.next = done.next + c /\ done.next + c \in Nat
  BY <1>2, <1>3, <1>4, <1>8
<1>13. new \in Layout BY <1>3, <1>8, <1>9, <1>12 DEF Layout
<1>14. Adds(done, new, bucket, c)
  BY <1>2, <1>4, <1>8, <1>9, <1>10, <1>11, <1>12 DEF Adds, n, m
<1>15. QED BY <1>4, <1>13, <1>14 DEF new, bucket, n, c

-----------------------------------------------------------------------------
(* The account tree: where the accounts lie and what fills it.            *)

(* The recursion of the layout has a solution, which LaidOut is. *)
LEMMA LaidOutIs ==
  ASSUME NEW accs \in Seq(Real)
  PROVE  /\ LaidOut(accs)[0] = [leaves |-> <<>>, next |-> Len(accs)]
         /\ \A t \in 0 .. LastTier :
              /\ LaidOut(accs)[t] \in Layout
              /\ t # 0 => LaidOut(accs)[t]
                            = IF t \notin Tiers THEN LaidOut(accs)[t - 1]
                              ELSE WithTier(LaidOut(accs)[t - 1], accs, t)
<1> DEFINE N == LastTier
           base == [leaves |-> <<>>, next |-> Len(accs)]
           step == [n \in Nat |-> [v \in Layout |->
                      IF n \notin Tiers THEN v ELSE WithTier(v, accs, n)]]
<1>1. N \in Nat BY LastTierIs
<1> HIDE DEF N
<1>2. step \in [Nat -> [Layout -> Layout]]
  <2>1. \A n \in Nat, v \in Layout :
          (IF n \notin Tiers THEN v ELSE WithTier(v, accs, n)) \in Layout
    BY WithTierIs
  <2>2. QED BY <2>1
<1>3. \A n \in Nat, v \in Layout :
        step[n][v] = IF n \notin Tiers THEN v ELSE WithTier(v, accs, n)
  OBVIOUS
<1>4. base \in Layout BY DEF Layout
<1> HIDE DEF step, base
<1>5. PICK f : f \in [0 .. N -> Layout] /\ Along(f, base, step, N)
  BY <1>1, <1>2, <1>4, RecursionUpto
<1> DEFINE Body(g, n) == IF n = 0 THEN base
                         ELSE IF n \notin Tiers THEN g[n - 1]
                         ELSE WithTier(g[n - 1], accs, n)
           Def(g) == g = [n \in 0 .. N |-> Body(g, n)]
           b == CHOOSE g : Def(g)
<1>6. \A n \in 0 .. N : n # 0 => n - 1 \in 0 .. N /\ n \in Nat BY <1>1
<1>7. Def(f)
  <2>1. \A n \in 0 .. N : f[n] = Body(f, n)
    <3>1. TAKE n \in 0 .. N
    <3>2. CASE n = 0 BY <1>5, <3>2 DEF Along
    <3>3. CASE n # 0
      <4>1. f[n] = step[n][f[n - 1]] BY <1>5, <3>3 DEF Along
      <4>2. f[n - 1] \in Layout BY <1>5, <1>6, <3>3
      <4>3. QED BY <1>3, <1>6, <3>3, <4>1, <4>2
    <3>4. QED BY <3>2, <3>3
  <2> HIDE DEF Body
  <2>2. f = [n \in 0 .. N |-> f[n]] BY <1>5
  <2>3. QED BY <2>1, <2>2
<1>8. Def(b)
  <2> HIDE DEF Def
  <2>1. QED BY <1>7
<1>9. LaidOut(accs) = b BY DEF LaidOut, N, base
<1> HIDE DEF b
<1>10. \A n \in 0 .. N : b[n] = Body(b, n)
  <2> HIDE DEF Body
  <2>1. QED BY <1>8
<1> DEFINE G == {n \in Nat : n <= N => b[n] \in Layout}
<1>11. 0 \in G BY <1>1, <1>4, <1>10
<1>12. ASSUME NEW n \in Nat, n \in G PROVE n + 1 \in G
  <2>1. SUFFICES ASSUME n + 1 <= N PROVE b[n + 1] \in Layout OBVIOUS
  <2>2. n <= N /\ n + 1 \in 0 .. N /\ n + 1 # 0 /\ (n + 1) - 1 = n BY <1>1, <2>1
  <2>3. b[n] \in Layout BY <1>12, <2>2
  <2>4. PICK m \in Nat : m = n + 1 OBVIOUS
  <2>5. b[m] = IF m \notin Tiers THEN b[n] ELSE WithTier(b[n], accs, m) BY <1>10, <2>2, <2>4
  <2>6. QED BY <2>3, <2>4, <2>5, WithTierIs
<1>13. \A n \in 0 .. N : b[n] \in Layout
  <2>1. Nat \subseteq G
    <3> HIDE DEF G
    <3>1. QED BY <1>11, <1>12, InductionOnNat
  <2>2. QED BY <1>1, <2>1
<1>14. b[0] = base BY <1>1, <1>10
<1>15. QED BY <1>9, <1>10, <1>13, <1>14 DEF N, base

-----------------------------------------------------------------------------
(* What is laid out by tier t: the accounts of the tiers so far, and one   *)
(* padding account for each leaf from the number of accounts to next.      *)
Covered(leaves, n, end, accs, places) ==
  /\ n <= end
  /\ \A k \in 1 .. Len(leaves) :
       \/ \E j \in n .. (end - 1) : leaves[k].account = Padding(j)
       \/ \E i \in places : leaves[k].account = accs[i]
  /\ \A i \in places : \E k \in 1 .. Len(leaves) : leaves[k].account = accs[i]
  /\ \A j \in n .. (end - 1) : \E k \in 1 .. Len(leaves) : leaves[k].account = Padding(j)

\* the layout by tier t covers the accounts of the tiers up to t
Fills(accs, t) ==
  Covered(LaidOut(accs)[t].leaves, Len(accs), LaidOut(accs)[t].next, accs,
          TieredBelow(accs, t))

(* One tier more, from what it adds. *)
LEMMA FillsNext ==
  ASSUME NEW accs \in Seq(Real), NEW t \in Nat, t + 1 <= LastTier, Fills(accs, t)
  PROVE  Fills(accs, t + 1)
<1> DEFINE N == LastTier
<1>1. PICK m \in Nat : m = t + 1 OBVIOUS
<1>2. m \in 0 .. N /\ t \in 0 .. N /\ m # 0 /\ m - 1 = t BY <1>1, LastTierIs
<1>3. PICK done \in Layout : done = LaidOut(accs)[t] BY <1>2, LaidOutIs
<1>4. PICK new \in Layout : new = LaidOut(accs)[m] BY <1>2, LaidOutIs
<1>5. new = IF m \notin Tiers THEN done ELSE WithTier(done, accs, m)
  BY <1>2, <1>3, <1>4, LaidOutIs
<1>6. TieredBelow(accs, m) = TieredBelow(accs, t) \cup TieredAt(accs, m) BY <1>1, TieredNext
<1>7. CASE m \notin Tiers
  <2>1. TieredAt(accs, m) = {} BY <1>7, TierUnique DEF TieredAt
  <2>2. TieredBelow(accs, m) = TieredBelow(accs, t) BY <1>6, <2>1
  <2>3. LaidOut(accs)[m] = LaidOut(accs)[t] BY <1>3, <1>4, <1>5, <1>7
  <2>4. Fills(accs, m) BY <2>2, <2>3 DEF Fills
  <2>5. QED BY <1>1, <2>4
<1>8. CASE m \in Tiers
  <2>1. PICK bucket \in Seq(Real) : bucket = ByTier(accs, m) BY ByTierIs
  <2>2. Selection(bucket, accs, TieredAt(accs, m)) BY <2>1, ByTierIs DEF TieredAt
  <2>3. PICK b \in Nat : b = Len(bucket) OBVIOUS
  <2>4. PICK c \in Nat : c = PaddingCount(b, m) BY <1>8, <2>3, PaddingIs
  <2>5. PICK d \in Nat : d = Len(done.leaves) BY DEF Layout
  <2>6. /\ new.next = done.next + c
        /\ Len(new.leaves) = d + (b + c)
        /\ \A k \in 1 .. d : new.leaves[k] = done.leaves[k]
        /\ \A k \in 1 .. (b + c) :
             new.leaves[d + k].account
               = IF k <= b THEN bucket[k] ELSE Padding(done.next + (k - b) - 1)
    <3>1. Adds(done, new, bucket, c) BY <1>5, <1>8, <2>1, <2>3, <2>4, WithTierIs
    <3>2. QED BY <2>3, <2>5, <3>1 DEF Adds
  <2>7. PICK p \in [1 .. b -> TieredAt(accs, m)] :
          /\ \A i \in TieredAt(accs, m) : \E k \in 1 .. b : p[k] = i
          /\ \A k \in 1 .. b : bucket[k] = accs[p[k]]
    BY <2>2, <2>3 DEF Selection
  <2>8. PICK n \in Nat : n = Len(accs) OBVIOUS
  <2>9. PICK x \in Nat, y \in Nat : x = done.next /\ y = new.next
    BY <1>3, <1>4 DEF Layout
  <2>10. /\ n <= x
         /\ \A k \in 1 .. d :
              \/ \E j \in n .. (x - 1) : done.leaves[k].account = Padding(j)
              \/ \E i \in TieredBelow(accs, t) : done.leaves[k].account = accs[i]
         /\ \A i \in TieredBelow(accs, t) :
              \E k \in 1 .. d : done.leaves[k].account = accs[i]
         /\ \A j \in n .. (x - 1) : \E k \in 1 .. d : done.leaves[k].account = Padding(j)
    BY <1>3, <2>5, <2>8, <2>9 DEF Fills, Covered
  <2>11. y = x + c /\ n <= y BY <2>6, <2>9, <2>10
  <2> DEFINE lv == new.leaves
             top == d + (b + c)
  <2>12. /\ \A k \in 1 .. d : lv[k] = done.leaves[k]
         /\ \A k \in 1 .. (b + c) :
              lv[d + k].account = IF k <= b THEN bucket[k] ELSE Padding(x + (k - b) - 1)
    BY <2>6, <2>9
  <2> HIDE DEF lv, top, Padding
  <2>13. ASSUME NEW k \in 1 .. top
         PROVE  \/ \E j \in n .. (y - 1) : lv[k].account = Padding(j)
                \/ \E i \in TieredBelow(accs, m) : lv[k].account = accs[i]
    <3>1. CASE k <= d
      <4>1. k \in 1 .. d /\ n .. (x - 1) \subseteq n .. (y - 1) BY <2>11, <3>1 DEF top
      <4>2. lv[k] = done.leaves[k] BY <2>12, <4>1
      <4>3. CASE \E j \in n .. (x - 1) : done.leaves[k].account = Padding(j)
        <5>1. PICK j \in n .. (x - 1) : done.leaves[k].account = Padding(j) BY <4>3
        <5>2. j \in n .. (y - 1) BY <4>1
        <5>3. QED BY <4>2, <5>1, <5>2
      <4>4. CASE \E i \in TieredBelow(accs, t) : done.leaves[k].account = accs[i]
        BY <1>6, <4>2, <4>4
      <4>5. QED BY <2>10, <4>1, <4>3, <4>4
    <3>2. CASE ~(k <= d)
      <4>1. PICK q \in 1 .. (b + c) : d + q = k
        <5>1. k - d \in 1 .. (b + c) /\ d + (k - d) = k BY <3>2 DEF top
        <5>2. QED BY <5>1
      <4>2. CASE q <= b
        <5>1. q \in 1 .. b BY <4>2
        <5>2. lv[k].account = accs[p[q]] BY <2>7, <2>12, <4>1, <4>2, <5>1
        <5>3. QED BY <1>6, <2>7, <5>1, <5>2
      <4>3. CASE ~(q <= b)
        <5>1. PICK j \in n .. (y - 1) : j = x + (q - b) - 1 BY <2>10, <2>11, <4>3
        <5>2. QED BY <2>12, <4>1, <4>3, <5>1
      <4>4. QED BY <4>2, <4>3
    <3>3. QED BY <3>1, <3>2
  <2>14. ASSUME NEW i \in TieredBelow(accs, m)
         PROVE  \E k \in 1 .. top : lv[k].account = accs[i]
    <3>1. CASE i \in TieredBelow(accs, t)
      <4>1. PICK k \in 1 .. d : done.leaves[k].account = accs[i] BY <2>10, <3>1
      <4>2. k \in 1 .. top BY DEF top
      <4>3. QED BY <2>12, <4>1, <4>2
    <3>2. CASE i \in TieredAt(accs, m)
      <4>1. PICK q \in 1 .. b : p[q] = i BY <2>7, <3>2
      <4>2. PICK k \in 1 .. top : k = d + q BY DEF top
      <4>3. q \in 1 .. (b + c) /\ q <= b OBVIOUS
      <4>4. lv[k].account = bucket[q] BY <2>12, <4>2, <4>3
      <4>5. QED BY <2>7, <4>1, <4>4
    <3>3. QED BY <1>6, <3>1, <3>2
  <2>15. ASSUME NEW j \in n .. (y - 1)
         PROVE  \E k \in 1 .. top : lv[k].account = Padding(j)
    <3>1. CASE j <= x - 1
      <4>1. j \in n .. (x - 1) BY <3>1
      <4>2. PICK k \in 1 .. d : done.leaves[k].account = Padding(j) BY <2>10, <4>1
      <4>3. k \in 1 .. top BY DEF top
      <4>4. QED BY <2>12, <4>2, <4>3
    <3>2. CASE ~(j <= x - 1)
      <4>1. PICK q \in 1 .. (b + c) : q = j - x + b + 1 BY <2>11, <3>2
      <4>2. ~(q <= b) /\ x + (q - b) - 1 = j BY <3>2, <4>1
      <4>3. PICK k \in 1 .. top : k = d + q BY DEF top
      <4>4. lv[k].account = Padding(x + (q - b) - 1) BY <2>12, <4>2, <4>3
      <4>5. QED BY <4>2, <4>4
    <3>3. QED BY <3>1, <3>2
  <2>16. Len(lv) = top BY <2>6 DEF lv, top
  <2>17. lv = LaidOut(accs)[m].leaves /\ y = LaidOut(accs)[m].next BY <1>4, <2>9 DEF lv
  <2>18. Covered(lv, n, y, accs, TieredBelow(accs, m))
    BY <2>11, <2>13, <2>14, <2>15, <2>16 DEF Covered
  <2>19. QED BY <1>1, <2>8, <2>17, <2>18 DEF Fills
<1>9. QED BY <1>7, <1>8

(* All tiers, by the recursion. *)
LEMMA AllFilled == ASSUME NEW accs \in Seq(Real) PROVE Fills(accs, LastTier)
<1> DEFINE G == {t \in Nat : t <= LastTier => Fills(accs, t)}
<1>1. 0 \in G
  <2>1. PICK done : done = LaidOut(accs)[0] OBVIOUS
  <2>2. PICK n \in Nat : n = Len(accs) OBVIOUS
  <2>3. done = [leaves |-> <<>>, next |-> n] BY <2>1, <2>2, LaidOutIs
  <2>4. done.next = n /\ done.leaves = <<>> BY <2>3
  <2>5. 1 .. Len(done.leaves) = {} /\ n .. (done.next - 1) = {} BY <2>4
  <2>6. TieredBelow(accs, 0) = {} BY TieredNext
  <2>7. Covered(done.leaves, n, done.next, accs, {}) BY <2>4, <2>5 DEF Covered
  <2>8. QED BY <2>1, <2>2, <2>6, <2>7 DEF Fills
<1>2. ASSUME NEW t \in Nat, t \in G PROVE t + 1 \in G
  <2>1. SUFFICES ASSUME t + 1 <= LastTier PROVE Fills(accs, t + 1) OBVIOUS
  <2>2. t <= LastTier BY <2>1, LastTierIs
  <2>3. QED BY <1>2, <2>1, <2>2, FillsNext
<1>3. LastTier \in G
  <2> HIDE DEF G
  <2>1. QED BY <1>1, <1>2, LastTierIs, InductionOnNat
<1>4. QED BY <1>3, LastTierIs

-----------------------------------------------------------------------------
(* The account tree, filled.                                              *)

\* leaves of an account tree, and the one made of a placed account
LeafType == [id : Ids \cup {PaddingId, NoId}, tier : Nat]
LeafAt(leaves, k) == Leaf(leaves[k].account, leaves[k].tier)

LEMMA LeafIs == ASSUME NEW leaves \in Seq(PlacedLeaf), NEW k \in 1 .. Len(leaves)
                PROVE  LeafAt(leaves, k) \in LeafType
<1>1. leaves[k] \in PlacedLeaf OBVIOUS
<1>2. leaves[k].account.id \in Ids \cup {PaddingId} /\ leaves[k].tier \in Nat
  BY <1>1, ShapeAssumption DEF PlacedLeaf, Account, Accounts
<1>3. QED BY <1>2 DEF LeafAt, Leaf, LeafType, NoTier

\* the last of the first n leaves that come to index x is leaf j
LastAt(leaves, n, x, j) ==
  /\ j \in 1 .. n /\ leaves[j].account.index = x
  /\ \A i \in 1 .. n : leaves[i].account.index = x => i <= j

\* at x is the last that came to it, or what was there
FilledUpto(before, filled, leaves, n, x) ==
  \/ filled[x] = before[x] /\ \A j \in 1 .. n : leaves[j].account.index # x
  \/ \E j \in 1 .. n : LastAt(leaves, n, x, j) /\ filled[x] = LeafAt(leaves, j)

\* b is the tree after each of the leaves
SetAlong(b, D, tr, leaves) ==
  /\ b \in [0 .. Len(leaves) -> [D -> LeafType]] /\ b[0] = tr
  /\ \A n \in 1 .. Len(leaves) :
       b[n] = [b[n - 1] EXCEPT ![leaves[n].account.index] = LeafAt(leaves, n)]

(* The recursion of Filled has a solution, which ends with the tree. *)
LEMMA FilledAlong ==
  ASSUME NEW D, NEW tr \in [D -> LeafType], NEW leaves \in Seq(PlacedLeaf)
  PROVE  \E b : SetAlong(b, D, tr, leaves) /\ Filled(tr, leaves) = b[Len(leaves)]
<1> DEFINE N == Len(leaves)
           V == [D -> LeafType]
           At(k) == leaves[k].account.index
           Put(v, k) == [v EXCEPT ![At(k)] = LeafAt(leaves, k)]
           step == [n \in Nat |-> [v \in V |-> IF n \in 1 .. N THEN Put(v, n) ELSE v]]
<1>1. N \in Nat OBVIOUS
<1>2. \A k \in 1 .. N : LeafAt(leaves, k) \in LeafType BY LeafIs
<1> HIDE DEF N
<1>3. \A v \in V, k \in 1 .. N : Put(v, k) \in V BY <1>2
<1> HIDE DEF Put
<1>4. step \in [Nat -> [V -> V]]
  <2>1. \A n \in Nat, v \in V : (IF n \in 1 .. N THEN Put(v, n) ELSE v) \in V BY <1>3
  <2> HIDE DEF V
  <2>2. QED BY <2>1
<1>5. \A n \in 1 .. N, v \in V : step[n][v] = Put(v, n)
  <2> HIDE DEF V
  <2>1. QED BY <1>1
<1> HIDE DEF step
<1>6. PICK f : f \in [0 .. N -> V] /\ Along(f, tr, step, N)
  <2>1. tr \in V OBVIOUS
  <2> HIDE DEF V
  <2>2. QED BY <1>1, <1>4, <2>1, RecursionUpto
<1> DEFINE Body(g, n) == IF n = 0 THEN tr ELSE Put(g[n - 1], n)
           Def(g) == g = [n \in 0 .. N |-> Body(g, n)]
           b == CHOOSE g : Def(g)
<1>7. \A n \in 0 .. N : n # 0 => n - 1 \in 0 .. N /\ n \in 1 .. N BY <1>1
<1>8. Def(f)
  <2> HIDE DEF V
  <2>1. \A n \in 0 .. N : f[n] = Body(f, n)
    <3>1. TAKE n \in 0 .. N
    <3>2. CASE n = 0 BY <1>6, <3>2 DEF Along
    <3>3. CASE n # 0
      <4>1. f[n] = step[n][f[n - 1]] BY <1>6, <3>3 DEF Along
      <4>2. f[n - 1] \in V BY <1>6, <1>7, <3>3
      <4>3. QED BY <1>5, <1>7, <3>3, <4>1, <4>2
    <3>4. QED BY <3>2, <3>3
  <2> HIDE DEF Body
  <2>2. f = [n \in 0 .. N |-> f[n]] BY <1>6
  <2>3. QED BY <2>1, <2>2
<1>9. Def(b)
  <2> HIDE DEF Def
  <2>1. QED BY <1>8
<1>10. Filled(tr, leaves) = b[N] BY DEF Filled, N, Put, LeafAt
<1> HIDE DEF b
<1>11. \A n \in 0 .. N : b[n] = Body(b, n)
  <2> HIDE DEF Body
  <2>1. QED BY <1>9
<1>12. b \in [0 .. N -> V]
  <2> DEFINE G == {n \in Nat : n <= N => b[n] \in V}
  <2>1. 0 \in G
    <3>1. b[0] = tr BY <1>1, <1>11
    <3>2. QED BY <3>1
  <2>2. ASSUME NEW n \in Nat, n \in G PROVE n + 1 \in G
    <3>1. SUFFICES ASSUME n + 1 <= N PROVE b[n + 1] \in V OBVIOUS
    <3>2. n <= N /\ n + 1 \in 0 .. N /\ n + 1 # 0 /\ (n + 1) - 1 = n /\ n + 1 \in 1 .. N
      BY <1>1, <3>1
    <3>3. b[n] \in V BY <2>2, <3>2
    <3>4. b[n + 1] = Put(b[n], n + 1) BY <1>11, <3>2
    <3> HIDE DEF V
    <3>5. QED BY <1>3, <3>2, <3>3, <3>4
  <2>3. Nat \subseteq G
    <3> HIDE DEF G
    <3>1. QED BY <2>1, <2>2, InductionOnNat
  <2> HIDE DEF V
  <2>4. \A n \in 0 .. N : b[n] \in V BY <1>1, <2>3
  <2>5. b = [n \in 0 .. N |-> b[n]]
    <3> HIDE DEF Body
    <3>1. QED BY <1>9
  <2>6. QED BY <2>4, <2>5
<1>13. b[0] = tr BY <1>1, <1>11
<1>14. \A n \in 1 .. N : b[n] = Put(b[n - 1], n)
  <2>1. \A n \in 1 .. N : n \in 0 .. N /\ n # 0 BY <1>1
  <2>2. QED BY <1>11, <2>1
<1>15. SetAlong(b, D, tr, leaves) BY <1>12, <1>13, <1>14 DEF SetAlong, N, Put
<1>16. QED BY <1>10, <1>15 DEF N

(* What filling a tree leaves at an index: the last leaf that came to it,  *)
(* or what was there.                                                      *)
LEMMA FilledIs ==
  ASSUME NEW D, NEW tr \in [D -> LeafType], NEW leaves \in Seq(PlacedLeaf)
  PROVE  /\ Filled(tr, leaves) \in [D -> LeafType]
         /\ \A x \in D : FilledUpto(tr, Filled(tr, leaves), leaves, Len(leaves), x)
<1> DEFINE N == Len(leaves)
           V == [D -> LeafType]
           At(k) == leaves[k].account.index
           Put(v, k) == [v EXCEPT ![At(k)] = LeafAt(leaves, k)]
<1>1. N \in Nat OBVIOUS
<1>2. PICK b : SetAlong(b, D, tr, leaves) /\ Filled(tr, leaves) = b[N] BY FilledAlong
<1>3. /\ b \in [0 .. N -> V] /\ b[0] = tr
      /\ \A n \in 1 .. N : b[n] = Put(b[n - 1], n)
  BY <1>2 DEF SetAlong
<1> HIDE DEF N, Put
<1> DEFINE Good(n) == b[n] \in V /\ \A x \in D : FilledUpto(tr, b[n], leaves, n, x)
           G == {n \in Nat : n <= N => Good(n)}
<1>12. 0 \in G
  <2>1. b[0] = tr BY <1>3
  <2>2. \A x \in D : FilledUpto(tr, b[0], leaves, 0, x) BY <2>1 DEF FilledUpto
  <2>3. QED BY <2>1, <2>2
<1>13. ASSUME NEW n \in Nat, n \in G PROVE n + 1 \in G
  <2>1. SUFFICES ASSUME n + 1 <= N PROVE Good(n + 1) OBVIOUS
  <2>2. PICK m \in Nat : m = n + 1 OBVIOUS
  <2>3. n <= N /\ m \in 0 .. N /\ m # 0 /\ m - 1 = n /\ m \in 1 .. N BY <1>1, <2>1, <2>2
  <2>4. Good(n) BY <1>13, <2>3
  <2>5. b[m] = Put(b[n], m) BY <1>3, <2>3
  <2>6. b[m] \in V BY <1>3, <2>3
  <2>7. ASSUME NEW x \in D PROVE FilledUpto(tr, b[m], leaves, m, x)
    <3>1. \A i \in 1 .. m : i \in 1 .. n \/ i = m BY <2>2
    <3>2. \A i \in 1 .. n : i \in 1 .. m /\ i <= m BY <2>2
    <3>3. CASE At(m) = x
      <4>1. b[m][x] = LeafAt(leaves, m) BY <2>4, <2>5, <3>3 DEF Put
      <4>2. LastAt(leaves, m, x, m) BY <2>3, <3>3 DEF LastAt
      <4>3. QED BY <2>3, <4>1, <4>2 DEF FilledUpto
    <3>4. CASE At(m) # x
      <4>1. b[m][x] = b[n][x] BY <2>4, <2>5, <3>4 DEF Put
      <4>2. CASE b[n][x] = tr[x] /\ \A j \in 1 .. n : At(j) # x
        BY <3>1, <3>4, <4>1, <4>2 DEF FilledUpto
      <4>3. ASSUME NEW j \in 1 .. n, LastAt(leaves, n, x, j), b[n][x] = LeafAt(leaves, j)
            PROVE  FilledUpto(tr, b[m], leaves, m, x)
        <5>1. LastAt(leaves, m, x, j) BY <3>1, <3>2, <3>4, <4>3 DEF LastAt
        <5>2. QED BY <3>2, <4>1, <4>3, <5>1 DEF FilledUpto
      <4>4. FilledUpto(tr, b[n], leaves, n, x) BY <2>4
      <4>5. QED BY <4>2, <4>3, <4>4 DEF FilledUpto
    <3>5. QED BY <3>3, <3>4
  <2>8. QED BY <2>2, <2>6, <2>7
<1>14. Good(N)
  <2>1. N \in G
    <3> HIDE DEF G
    <3>1. QED BY <1>1, <1>12, <1>13, InductionOnNat
  <2> HIDE DEF Good
  <2>2. QED BY <1>1, <2>1
<1>15. QED BY <1>2, <1>14 DEF N

-----------------------------------------------------------------------------
(* What a run of some accounts has of the whole.                          *)

\* where accounts and padding end
EndOf(accs) == LaidOut(accs)[LastTier].next
AllTiered(accs) == \A i \in DOMAIN accs : TierOf(accs[i]) # {}

(* The accounts of a tier, and the room they take up. *)
LEMMA TierSizes ==
  ASSUME NEW accs \in Seq(Real), NEW t \in Nat
  PROVE  /\ IsFiniteSet(TieredAt(accs, t)) /\ IsFiniteSet(TieredBelow(accs, t))
         /\ Len(ByTier(accs, t)) = Cardinality(TieredAt(accs, t))
         /\ Cardinality(TieredAt(accs, t)) \in Nat /\ Cardinality(TieredBelow(accs, t)) \in Nat
         /\ Cardinality(TieredBelow(accs, t + 1))
              = Cardinality(TieredBelow(accs, t)) + Cardinality(TieredAt(accs, t + 1))
<1>1. IsFiniteSet(DOMAIN accs)
  <2>1. PICK n \in Nat : n = Len(accs) OBVIOUS
  <2>2. DOMAIN accs = 1 .. n /\ 1 \in Int /\ n \in Int BY <2>1
  <2>3. QED BY <2>2, FS_Interval
<1>2. \A u : /\ IsFiniteSet(TieredAt(accs, u)) /\ IsFiniteSet(TieredBelow(accs, u))
             /\ Cardinality(TieredAt(accs, u)) \in Nat
             /\ Cardinality(TieredBelow(accs, u)) \in Nat
  <2>1. TAKE u
  <2>2. TieredAt(accs, u) \subseteq DOMAIN accs /\ TieredBelow(accs, u) \subseteq DOMAIN accs
    BY DEF TieredAt, TieredBelow
  <2>3. QED BY <1>1, <2>2, FS_Subset, FS_CardinalityType
<1>3. PICK list \in Seq(Real) : list = ByTier(accs, t) BY ByTierIs
<1>4. Selection(list, accs, TieredAt(accs, t)) BY <1>3, ByTierIs DEF TieredAt
<1>5. Cardinality(TieredAt(accs, t)) = Len(list)
  <2>1. Len(list) \in Nat OBVIOUS
  <2>2. QED BY <1>4, <2>1, SelectionSize
<1>6. PICK m : m = t + 1 OBVIOUS
<1>7. PICK A : A = TieredBelow(accs, t) OBVIOUS
<1>8. PICK B : B = TieredAt(accs, m) OBVIOUS
<1>9. TieredBelow(accs, m) = A \cup B /\ A \cap B = {} BY <1>6, <1>7, <1>8, TieredNext
<1>10. Cardinality(A \cup B) = Cardinality(A) + Cardinality(B) - Cardinality({})
  BY <1>2, <1>7, <1>8, <1>9, FS_Union
<1>11. Cardinality({}) = 0 BY FS_EmptySet
<1>12. Cardinality(A) \in Nat /\ Cardinality(B) \in Nat BY <1>2, <1>7, <1>8
<1>13. Cardinality(TieredBelow(accs, m)) = Cardinality(A) + Cardinality(B)
  BY <1>9, <1>10, <1>11, <1>12
<1>14. QED BY <1>2, <1>3, <1>5, <1>6, <1>7, <1>8, <1>13

(* The first m accounts have no more of any tier than all. *)
LEMMA PrefixTiers ==
  ASSUME NEW accs \in Seq(Real), NEW m \in 0 .. Len(accs), NEW t
  PROVE  /\ SubSeq(accs, 1, m) \in Seq(Real) /\ Len(SubSeq(accs, 1, m)) = m
         /\ DOMAIN SubSeq(accs, 1, m) = 1 .. m
         /\ \A i \in 1 .. m : i \in 1 .. Len(accs) /\ SubSeq(accs, 1, m)[i] = accs[i]
         /\ TieredAt(SubSeq(accs, 1, m), t) \subseteq TieredAt(accs, t)
<1> DEFINE q == SubSeq(accs, 1, m)
<1>1. m \in Nat /\ m <= Len(accs) /\ Len(accs) \in Nat OBVIOUS
<1>2. /\ q \in Seq(Real) /\ Len(q) = m
      /\ \A i \in 1 .. m : q[i] = accs[i]
  <2>1. 1 \in 1 .. Len(accs) + 1 /\ m \in 1 - 1 .. Len(accs) BY <1>1
  <2>2. QED BY <1>1, <2>1, SubSeqProperties
<1> HIDE DEF q
<1>3. \A i \in 1 .. m : i \in 1 .. Len(accs) BY <1>1
<1>4. DOMAIN q = 1 .. m /\ DOMAIN accs = 1 .. Len(accs) BY <1>2
<1>5. TieredAt(q, t) \subseteq TieredAt(accs, t) BY <1>2, <1>3, <1>4 DEF TieredAt
<1>6. QED BY <1>2, <1>3, <1>4, <1>5 DEF q

\* leaves taken up by the first t tiers
Used(accs, t) == (LaidOut(accs)[t].next - Len(accs)) + Cardinality(TieredBelow(accs, t))

\* what a accounts of a tier take up
Room(t, a) == IF t \in Tiers THEN a + PaddingCount(a, t) ELSE 0

(* One tier more takes up its room. *)
LEMMA UsedNext ==
  ASSUME NEW s \in Seq(Real), NEW t \in Nat, NEW u \in Nat, u = t + 1, u <= LastTier
  PROVE  /\ Used(s, t) \in Int /\ Cardinality(TieredAt(s, u)) \in Nat
         /\ Used(s, u) = Used(s, t) + Room(u, Cardinality(TieredAt(s, u)))
<1>0. t \in 0 .. LastTier /\ u \in 0 .. LastTier /\ u # 0 /\ u - 1 = t BY LastTierIs
<1>1. PICK a \in Nat : a = Cardinality(TieredAt(s, u)) /\ a = Len(ByTier(s, u))
  BY TierSizes
<1>2. PICK r \in Nat : r = Cardinality(TieredBelow(s, t)) BY TierSizes
<1>3. Cardinality(TieredBelow(s, u)) = r + a BY <1>0, <1>1, <1>2, TierSizes
<1>4. PICK done \in Layout : done = LaidOut(s)[t] BY <1>0, LaidOutIs
<1>5. PICK new \in Layout : new = LaidOut(s)[u] BY <1>0, LaidOutIs
<1>6. PICK x \in Nat : x = done.next BY DEF Layout
<1>7. PICK n \in Nat : n = Len(s) OBVIOUS
<1>8. CASE u \in Tiers
  <2>1. new = WithTier(done, s, u) BY <1>0, <1>4, <1>5, <1>8, LaidOutIs
  <2>2. PICK c \in Nat : c = PaddingCount(a, u) BY <1>8, PaddingIs
  <2>3. new.next = x + c
    <3>1. Adds(done, new, ByTier(s, u), c) BY <1>1, <1>8, <2>1, <2>2, WithTierIs
    <3>2. QED BY <1>6, <3>1 DEF Adds
  <2>4. Used(s, u) = ((x + c) - n) + (r + a) BY <1>3, <1>5, <1>7, <2>3 DEF Used
  <2>5. Used(s, t) = (x - n) + r BY <1>2, <1>4, <1>6, <1>7 DEF Used
  <2>6. Used(s, u) = Used(s, t) + (a + c) BY <2>4, <2>5
  <2>7. Used(s, t) \in Int BY <2>5
  <2>8. Room(u, a) = a + c BY <1>8, <2>2 DEF Room
  <2>9. QED BY <1>1, <2>6, <2>7, <2>8
<1>9. CASE u \notin Tiers
  <2>1. new = done BY <1>0, <1>4, <1>5, <1>9, LaidOutIs
  <2>2. TieredAt(s, u) = {} BY <1>9, TierUnique DEF TieredAt
  <2>3. a = 0 BY <1>1, <2>2, FS_EmptySet
  <2>4. Used(s, u) = (x - n) + r BY <1>3, <1>5, <1>6, <1>7, <2>1, <2>3 DEF Used
  <2>5. Used(s, t) = (x - n) + r BY <1>2, <1>4, <1>6, <1>7 DEF Used
  <2>6. Used(s, u) = Used(s, t) + 0 BY <2>4, <2>5
  <2>7. Used(s, t) \in Int BY <2>5
  <2>8. Room(u, a) = 0 BY <1>9 DEF Room
  <2>9. QED BY <1>1, <2>6, <2>7, <2>8
<1>10. QED BY <1>8, <1>9

(* More accounts never end before fewer, tier by tier. *)
LEMMA EndsUpto ==
  ASSUME NEW accs \in Seq(Real), NEW m \in 0 .. Len(accs), NEW q, q = SubSeq(accs, 1, m)
  PROVE  \A t \in 0 .. LastTier :
           /\ LaidOut(q)[t].next \in Nat /\ LaidOut(accs)[t].next \in Nat
           /\ Used(q, t) <= Used(accs, t)
<1>1. q \in Seq(Real) /\ Len(q) = m BY PrefixTiers
<1>2. m \in Nat /\ Len(accs) \in Nat /\ LastTier \in Nat BY LastTierIs
<1>3. \A t \in 0 .. LastTier : LaidOut(q)[t] \in Layout /\ LaidOut(accs)[t] \in Layout
  BY <1>1, LaidOutIs
<1>4. \A t \in 0 .. LastTier : LaidOut(q)[t].next \in Nat /\ LaidOut(accs)[t].next \in Nat
  BY <1>3 DEF Layout
<1> DEFINE G == {t \in Nat : t <= LastTier => Used(q, t) <= Used(accs, t)}
<1>5. 0 \in G
  <2>1. \A s \in Seq(Real) : LaidOut(s)[0].next = Len(s)
    <3>1. TAKE s \in Seq(Real)
    <3>2. PICK done : done = LaidOut(s)[0] OBVIOUS
    <3>3. done = [leaves |-> <<>>, next |-> Len(s)] BY <3>2, LaidOutIs
    <3>4. done.next = Len(s) BY <3>3
    <3>5. QED BY <3>2, <3>4
  <2>2. TieredBelow(q, 0) = {} /\ TieredBelow(accs, 0) = {} BY TieredNext
  <2>3. Cardinality({}) = 0 BY FS_EmptySet
  <2>4. Used(q, 0) = 0 /\ Used(accs, 0) = 0
    <3>1. PICK n \in Nat : n = Len(accs) OBVIOUS
    <3>2. LaidOut(q)[0].next = m /\ LaidOut(accs)[0].next = n BY <1>1, <2>1, <3>1
    <3>3. Used(q, 0) = (m - m) + 0 BY <1>1, <2>2, <2>3, <3>2 DEF Used
    <3>4. Used(accs, 0) = (n - n) + 0 BY <2>2, <2>3, <3>1, <3>2 DEF Used
    <3>5. QED BY <1>2, <3>3, <3>4
  <2>5. QED BY <2>4
<1>6. ASSUME NEW t \in Nat, t \in G PROVE t + 1 \in G
  <2>1. SUFFICES ASSUME t + 1 <= LastTier PROVE Used(q, t + 1) <= Used(accs, t + 1) OBVIOUS
  <2>2. PICK u \in Nat : u = t + 1 OBVIOUS
  <2>3. /\ t <= LastTier /\ t \in 0 .. LastTier /\ u \in 0 .. LastTier
        /\ u # 0 /\ u - 1 = t
    BY <1>2, <2>1, <2>2
  <2>4. Used(q, t) <= Used(accs, t) BY <1>6, <2>3
  <2>5. \A s \in Seq(Real) :
          /\ Used(s, t) \in Int /\ Cardinality(TieredAt(s, u)) \in Nat
          /\ Used(s, u) = Used(s, t) + Room(u, Cardinality(TieredAt(s, u)))
    BY <2>1, <2>2, UsedNext
  <2>6. PICK a \in Nat : a = Cardinality(TieredAt(q, u)) BY <1>1, <2>5
  <2>7. PICK b \in Nat : b = Cardinality(TieredAt(accs, u)) BY <2>5
  <2>8. a <= b
    <3>1. TieredAt(q, u) \subseteq TieredAt(accs, u) BY PrefixTiers
    <3>2. IsFiniteSet(TieredAt(accs, u)) BY TierSizes
    <3>3. QED BY <2>6, <2>7, <3>1, <3>2, FS_Subset
  <2>9. u \in Tiers => a + PaddingCount(a, u) <= b + PaddingCount(b, u)
    BY <2>8, PaddingIs
  <2>10. u \in Tiers => PaddingCount(a, u) \in Nat /\ PaddingCount(b, u) \in Nat
    BY PaddingIs
  <2>11. PICK x \in Int : x = Used(q, t) BY <1>1, <2>5
  <2>12. PICK y \in Int : y = Used(accs, t) BY <2>5
  <2>13. Used(q, u) = x + Room(u, a) BY <1>1, <2>5, <2>6, <2>11
  <2>14. Used(accs, u) = y + Room(u, b) BY <2>5, <2>7, <2>12
  <2>15. CASE u \in Tiers
    <3>1. PICK i \in Nat, j \in Nat :
            i = a + PaddingCount(a, u) /\ j = b + PaddingCount(b, u) /\ i <= j
      BY <2>9, <2>10, <2>15
    <3>2. Used(q, u) = x + i /\ Used(accs, u) = y + j BY <2>13, <2>14, <2>15, <3>1 DEF Room
    <3>3. QED BY <2>2, <2>4, <2>11, <2>12, <3>1, <3>2
  <2>16. CASE u \notin Tiers
    <3>1. Used(q, u) = x /\ Used(accs, u) = y BY <2>11, <2>12, <2>13, <2>14, <2>16 DEF Room
    <3>2. QED BY <2>2, <2>4, <2>11, <2>12, <3>1
  <2>17. QED BY <2>15, <2>16
<1>7. Nat \subseteq G
  <2> HIDE DEF G
  <2>1. QED BY <1>5, <1>6, InductionOnNat
<1>8. \A t \in 0 .. LastTier : Used(q, t) <= Used(accs, t) BY <1>2, <1>7
<1>9. QED BY <1>1, <1>4, <1>8

(* The first m accounts and their padding end no later than all. *)
LEMMA PrefixEnds ==
  ASSUME NEW accs \in Seq(Real), AllTiered(accs), NEW m \in 0 .. Len(accs)
  PROVE  /\ AllTiered(SubSeq(accs, 1, m))
         /\ EndOf(SubSeq(accs, 1, m)) \in Nat /\ EndOf(accs) \in Nat
         /\ EndOf(SubSeq(accs, 1, m)) <= EndOf(accs)
<1>1. PICK q \in Seq(Real) : q = SubSeq(accs, 1, m) BY PrefixTiers
<1>2. Len(q) = m /\ DOMAIN q = 1 .. m /\ \A i \in 1 .. m : i \in 1 .. Len(accs) /\ q[i] = accs[i]
  BY <1>1, PrefixTiers
<1>3. AllTiered(q) BY <1>2 DEF AllTiered
<1>4. ASSUME NEW s \in Seq(Real), AllTiered(s)
      PROVE  Cardinality(TieredBelow(s, LastTier)) = Len(s)
  <2>1. TieredBelow(s, LastTier) = DOMAIN s BY <1>4, TieredAll DEF AllTiered
  <2>2. PICK n \in Nat : n = Len(s) OBVIOUS
  <2>3. DOMAIN s = 1 .. n BY <2>2
  <2>4. Cardinality(1 .. n) = IF 1 > n THEN 0 ELSE n - 1 + 1 BY FS_Interval
  <2>5. QED BY <2>1, <2>2, <2>3, <2>4
<1>5. LastTier \in 0 .. LastTier BY LastTierIs
<1>6. PICK x \in Nat, y \in Nat : x = EndOf(q) /\ y = EndOf(accs)
  BY <1>1, <1>5, EndsUpto DEF EndOf
<1>7. (x - m) + Cardinality(TieredBelow(q, LastTier))
        <= (y - Len(accs)) + Cardinality(TieredBelow(accs, LastTier))
  BY <1>1, <1>2, <1>5, <1>6, EndsUpto DEF EndOf, Used
<1>8. PICK n \in Nat : n = Len(accs) OBVIOUS
<1>9. Cardinality(TieredBelow(q, LastTier)) = m /\ Cardinality(TieredBelow(accs, LastTier)) = n
  BY <1>2, <1>3, <1>4, <1>8
<1>10. x <= y BY <1>6, <1>7, <1>8, <1>9
<1>11. QED BY <1>1, <1>3, <1>6, <1>10

-----------------------------------------------------------------------------
(* One account, one leaf, one tier at a time.                             *)

(* Nothing is in a bucket of nobody, and one account more is at the end of *)
(* its tier's bucket and in no other.                                      *)
LEMMA ByTierEmpty == \A t : ByTier(<<>>, t) = <<>>
<1>1. TAKE t
<1>2. <<>> \in Seq(Real) /\ Len(<<>>) = 0 OBVIOUS
<1>3. PICK b : SortedAlong(b, <<>>, t) /\ ByTier(<<>>, t) = b[Len(<<>>)]
  BY <1>2, ByTierAlong
<1>4. QED BY <1>2, <1>3 DEF SortedAlong

LEMMA ByTierAppend ==
  ASSUME NEW accs \in Seq(Real), NEW account \in Real, NEW t
  PROVE  ByTier(Append(accs, account), t)
           = IF t \in TierOf(account) THEN Append(ByTier(accs, t), account)
             ELSE ByTier(accs, t)
<1>1. PICK n \in Nat : n = Len(accs) OBVIOUS
<1>2. PICK more \in Seq(Real) : more = Append(accs, account) BY AppendProperties
<1>3. /\ Len(more) = n + 1 /\ more[n + 1] = account
      /\ \A k \in 1 .. n : more[k] = accs[k]
  BY <1>1, <1>2
<1>4. PICK b : SortedAlong(b, accs, t) /\ ByTier(accs, t) = b[n] BY <1>1, ByTierAlong
<1>5. PICK c : SortedAlong(c, more, t) /\ ByTier(more, t) = c[n + 1] BY <1>3, ByTierAlong
<1>6. /\ b[0] = <<>>
      /\ \A k \in 1 .. n :
           b[k] = IF t \in TierOf(accs[k]) THEN Append(b[k - 1], accs[k]) ELSE b[k - 1]
  BY <1>1, <1>4 DEF SortedAlong
<1>7. /\ c[0] = <<>>
      /\ \A k \in 1 .. (n + 1) :
           c[k] = IF t \in TierOf(more[k]) THEN Append(c[k - 1], more[k]) ELSE c[k - 1]
  BY <1>3, <1>5 DEF SortedAlong
<1> DEFINE G == {k \in Nat : k <= n => b[k] = c[k]}
<1>8. 0 \in G BY <1>6, <1>7
<1>9. ASSUME NEW k \in Nat, k \in G PROVE k + 1 \in G
  <2>1. SUFFICES ASSUME k + 1 <= n PROVE b[k + 1] = c[k + 1] OBVIOUS
  <2>2. PICK j : j = k + 1 OBVIOUS
  <2>3. j \in 1 .. n /\ j \in 1 .. (n + 1) /\ j - 1 = k /\ k <= n BY <1>1, <2>1, <2>2
  <2>4. b[k] = c[k] /\ more[j] = accs[j] BY <1>3, <1>9, <2>3
  <2>5. QED BY <1>6, <1>7, <2>2, <2>3, <2>4
<1>10. b[n] = c[n]
  <2>1. Nat \subseteq G
    <3> HIDE DEF G
    <3>1. QED BY <1>8, <1>9, InductionOnNat
  <2>2. QED BY <1>1, <2>1
<1>11. n + 1 \in 1 .. (n + 1) /\ (n + 1) - 1 = n BY <1>1
<1>12. c[n + 1] = IF t \in TierOf(account) THEN Append(c[n], account) ELSE c[n]
  BY <1>3, <1>7, <1>11
<1>13. QED BY <1>2, <1>4, <1>5, <1>10, <1>12

(* An account that has a tier is in that tier's bucket. *)
LEMMA ByTierHolds ==
  ASSUME NEW accs \in Seq(Real), NEW i \in DOMAIN accs, NEW t \in TierOf(accs[i])
  PROVE  ByTier(accs, t) # <<>>
<1>1. Selection(ByTier(accs, t), accs, {j \in DOMAIN accs : t \in TierOf(accs[j])})
  BY ByTierIs
<1>2. \E k \in 1 .. Len(ByTier(accs, t)) : TRUE BY <1>1 DEF Selection
<1>3. QED BY <1>2

(* Filling with nothing, and with one leaf more. *)
LEMMA FilledEmpty ==
  ASSUME NEW D, NEW tr \in [D -> LeafType] PROVE Filled(tr, <<>>) = tr
<1>1. <<>> \in Seq(PlacedLeaf) /\ Len(<<>>) = 0 OBVIOUS
<1>2. PICK b : SetAlong(b, D, tr, <<>>) /\ Filled(tr, <<>>) = b[Len(<<>>)]
  BY <1>1, FilledAlong
<1>3. QED BY <1>1, <1>2 DEF SetAlong

\* tr with one leaf set
WithLeaf(tr, leaf) == [tr EXCEPT ![leaf.account.index] = Leaf(leaf.account, leaf.tier)]

LEMMA FilledAppend ==
  ASSUME NEW D, NEW tr \in [D -> LeafType], NEW leaves \in Seq(PlacedLeaf),
         NEW leaf \in PlacedLeaf
  PROVE  Filled(tr, Append(leaves, leaf)) = WithLeaf(Filled(tr, leaves), leaf)
<1>1. PICK n \in Nat : n = Len(leaves) OBVIOUS
<1>2. PICK more \in Seq(PlacedLeaf) : more = Append(leaves, leaf) BY AppendProperties
<1>3. /\ Len(more) = n + 1 /\ more[n + 1] = leaf
      /\ \A k \in 1 .. n : more[k] = leaves[k]
  BY <1>1, <1>2
<1>4. PICK b : SetAlong(b, D, tr, leaves) /\ Filled(tr, leaves) = b[n] BY <1>1, FilledAlong
<1>5. PICK c : SetAlong(c, D, tr, more) /\ Filled(tr, more) = c[n + 1] BY <1>3, FilledAlong
<1> DEFINE Put(v, list, k) == [v EXCEPT ![list[k].account.index] = LeafAt(list, k)]
<1>6. b[0] = tr /\ \A k \in 1 .. n : b[k] = Put(b[k - 1], leaves, k)
  BY <1>1, <1>4 DEF SetAlong
<1>7. c[0] = tr /\ \A k \in 1 .. (n + 1) : c[k] = Put(c[k - 1], more, k)
  BY <1>3, <1>5 DEF SetAlong
<1>8. \A v, k : k \in 1 .. n => Put(v, leaves, k) = Put(v, more, k)
  BY <1>3 DEF LeafAt
<1>9. \A v : Put(v, more, n + 1) = WithLeaf(v, leaf)
  BY <1>3 DEF LeafAt, WithLeaf
<1> HIDE DEF Put
<1> DEFINE G == {k \in Nat : k <= n => b[k] = c[k]}
<1>10. 0 \in G BY <1>6, <1>7
<1>11. ASSUME NEW k \in Nat, k \in G PROVE k + 1 \in G
  <2>1. SUFFICES ASSUME k + 1 <= n PROVE b[k + 1] = c[k + 1] OBVIOUS
  <2>2. PICK j : j = k + 1 OBVIOUS
  <2>3. j \in 1 .. n /\ j \in 1 .. (n + 1) /\ j - 1 = k /\ k <= n BY <1>1, <2>1, <2>2
  <2>4. b[k] = c[k] BY <1>11, <2>3
  <2>5. QED BY <1>6, <1>7, <1>8, <2>2, <2>3, <2>4
<1>12. b[n] = c[n]
  <2>1. Nat \subseteq G
    <3> HIDE DEF G
    <3>1. QED BY <1>10, <1>11, InductionOnNat
  <2>2. QED BY <1>1, <2>1
<1>13. n + 1 \in 1 .. (n + 1) /\ (n + 1) - 1 = n BY <1>1
<1>14. c[n + 1] = Put(c[n], more, n + 1) BY <1>7, <1>13
<1>15. QED BY <1>2, <1>4, <1>5, <1>9, <1>12, <1>14

(* A tier without accounts has no padding and adds nothing. *)
LEMMA NoPadding == ASSUME NEW t \in Tiers PROVE PaddingCount(0, t) = 0
<1>1. PICK u \in Nat : u = UsersPerBatch[t] /\ u >= 1 BY ShapeAssumption
<1>2. PICK m \in Nat : m = u - 1 BY <1>1
<1>3. PICK q \in Int : q = m \div u /\ u * q <= m /\ m < u * q + u
  <2>1. m \in Int BY <1>2
  <2>2. m \div u \in Int /\ u * (m \div u) <= m /\ m < u * (m \div u) + u
    BY <1>1, <2>1, DivBounds
  <2>3. QED BY <2>2
<1>4. q = 0
  <2>1. CASE q >= 1
    <3>1. u * q >= u BY <1>1, <2>1, SMTT(30)
    <3>2. u * q \in Int BY <1>1
    <3>3. QED BY <1>1, <1>2, <1>3, <3>1, <3>2
  <2>2. CASE q <= -1
    <3>1. u * q <= -u BY <1>1, <2>2, SMTT(30)
    <3>2. u * q \in Int BY <1>1
    <3>3. QED BY <1>1, <1>2, <1>3, <3>1, <3>2
  <2>3. QED BY <2>1, <2>2
<1>5. (0 + u - 1) \div u = 0 BY <1>1, <1>2, <1>3, <1>4
<1>6. QED BY <1>1, <1>5 DEF PaddingCount

\* new is done with the users of tier t behind it
Behind(done, new, users, t) ==
  /\ users \in Seq(Account) /\ Len(new.leaves) = Len(done.leaves) + Len(users)
  /\ \A k \in 1 .. Len(done.leaves) : new.leaves[k] = done.leaves[k]
  /\ \A k \in 1 .. Len(users) :
       new.leaves[Len(done.leaves) + k] = [account |-> users[k], tier |-> t]

(* What a tier puts behind the leaves laid out before it. *)
LEMMA WithTierLeaves ==
  ASSUME NEW done \in Layout, NEW accs \in Seq(Real), NEW t \in Tiers
  PROVE  Behind(done, WithTier(done, accs, t), PaddedWith(ByTier(accs, t), t, done.next), t)
<1>1. PICK users : users = PaddedWith(ByTier(accs, t), t, done.next) OBVIOUS
<1> DEFINE add == [i \in DOMAIN users |-> [account |-> users[i], tier |-> t]]
<1>2. PICK d \in Seq(PlacedLeaf) : d = done.leaves BY DEF Layout
<1>3. ByTier(accs, t) \in Seq(Real) /\ done.next \in Nat BY ByTierIs DEF Layout
<1>4. users \in Seq(Account) BY <1>1, <1>3, PaddedWithIs
<1>5. PICK n \in Nat : n = Len(users) /\ DOMAIN users = 1 .. n BY <1>4
<1>6. PICK a \in Seq(PlacedLeaf) :
        Len(a) = n /\ a = add /\ \A k \in 1 .. n : a[k] = [account |-> users[k], tier |-> t]
  <2>1. add \in [1 .. n -> PlacedLeaf] BY <1>4, <1>5 DEF PlacedLeaf
  <2>2. DOMAIN add = 1 .. n /\ \A k \in 1 .. n : add[k] = [account |-> users[k], tier |-> t]
    BY <1>5
  <2> HIDE DEF add
  <2>3. add \in Seq(PlacedLeaf) /\ Len(add) = n BY <2>1, <2>2
  <2>4. QED BY <2>2, <2>3
<1>7. PICK all : all = d \o a OBVIOUS
<1>8. WithTier(done, accs, t).leaves = all BY <1>1, <1>2, <1>6, <1>7 DEF WithTier
<1>9. PICK m \in Nat : m = Len(d) OBVIOUS
<1> HIDE DEF add
<1>10. /\ Len(all) = m + n
       /\ \A k \in 1 .. (m + n) : all[k] = IF k <= m THEN d[k] ELSE a[k - m]
  <2>1. Len(a) = n BY <1>6
  <2>2. QED BY <1>7, <1>9, <2>1, ConcatProperties
<1>11. \A k \in 1 .. m : all[k] = d[k]
  <2>1. \A k \in 1 .. m : k \in 1 .. (m + n) /\ k <= m BY <1>5
  <2>2. QED BY <1>10, <2>1
<1>12. ASSUME NEW k \in 1 .. n
       PROVE  all[m + k] = [account |-> users[k], tier |-> t]
  <2>1. PICK j : j = m + k OBVIOUS
  <2>2. j \in 1 .. (m + n) /\ ~(j <= m) /\ j - m = k BY <1>5, <1>9, <2>1
  <2>3. QED BY <1>6, <1>10, <2>1, <2>2
<1>13. QED BY <1>1, <1>2, <1>4, <1>5, <1>8, <1>9, <1>10, <1>11, <1>12 DEF Behind

LEMMA WithTierEmpty ==
  ASSUME NEW done \in Layout, NEW accs \in Seq(Real), NEW t \in Tiers, ByTier(accs, t) = <<>>
  PROVE  WithTier(done, accs, t) = done
<1>1. PICK more \in Layout : more = WithTier(done, accs, t) BY WithTierIs
<1>2. Adds(done, more, <<>>, 0) /\ Len(<<>>) = 0 BY <1>1, NoPadding, WithTierIs
<1>3. done.leaves \in Seq(PlacedLeaf) /\ more.leaves \in Seq(PlacedLeaf) BY DEF Layout
<1>4. /\ Len(more.leaves) = Len(done.leaves)
      /\ \A k \in 1 .. Len(done.leaves) : more.leaves[k] = done.leaves[k]
  <2>1. Len(done.leaves) \in Nat BY <1>3
  <2>2. QED BY <1>2, <2>1 DEF Adds
<1>5. more.leaves = done.leaves BY <1>3, <1>4, SeqEqual
<1>6. more.next = done.next
  <2>1. done.next \in Nat BY DEF Layout
  <2>2. QED BY <1>2, <2>1 DEF Adds
<1>7. QED BY <1>1, <1>5, <1>6 DEF Layout

(* Nothing is laid out before the first tier. *)
LEMMA LaidOutTyped ==
  ASSUME NEW accs \in Seq(Real)
  PROVE  /\ LaidOut(accs)[0].leaves = <<>> /\ LaidOut(accs)[0].next = Len(accs)
         /\ \A t \in 0 .. LastTier :
              /\ LaidOut(accs)[t] \in Layout
              /\ LaidOut(accs)[t].leaves \in Seq(PlacedLeaf)
              /\ Len(LaidOut(accs)[t].leaves) \in Nat /\ LaidOut(accs)[t].next \in Nat
<1>1. PICK none : none = LaidOut(accs)[0] OBVIOUS
<1>2. none = [leaves |-> <<>>, next |-> Len(accs)] BY <1>1, LaidOutIs
<1>3. none.leaves = <<>> /\ none.next = Len(accs) BY <1>2
<1>4. ASSUME NEW t \in 0 .. LastTier
      PROVE  /\ LaidOut(accs)[t] \in Layout
             /\ LaidOut(accs)[t].leaves \in Seq(PlacedLeaf)
             /\ Len(LaidOut(accs)[t].leaves) \in Nat /\ LaidOut(accs)[t].next \in Nat
  <2>1. LaidOut(accs)[t] \in Layout BY LaidOutIs
  <2>2. QED BY <2>1 DEF Layout
<1>5. QED BY <1>1, <1>3, <1>4

(* Tiers without accounts lay out nothing. *)
LEMMA EmptyTiers ==
  ASSUME NEW accs \in Seq(Real), NEW a \in 0 .. LastTier, NEW b \in a .. LastTier,
         \A u \in Tiers : a < u /\ u <= b => ByTier(accs, u) = <<>>
  PROVE  LaidOut(accs)[b] = LaidOut(accs)[a]
<1> DEFINE L(k) == LaidOut(accs)[k]
           G == {k \in Nat : a <= k /\ k <= b => L(k) = L(a)}
<1>1. a \in Nat /\ b \in Nat /\ LastTier \in Nat /\ a <= b /\ b <= LastTier BY LastTierIs
<1>2. 0 \in G BY <1>1
<1>3. ASSUME NEW k \in Nat, k \in G PROVE k + 1 \in G
  <2>1. SUFFICES ASSUME a <= k + 1, k + 1 <= b PROVE L(k + 1) = L(a) OBVIOUS
  <2>2. PICK m \in Nat : m = k + 1 OBVIOUS
  <2>3. CASE a = m BY <2>2, <2>3
  <2>4. CASE a # m
    <3>1. a <= k /\ k <= b /\ a < m /\ m <= b /\ m - 1 = k /\ m # 0 /\ m \in 0 .. LastTier
            /\ k \in 0 .. LastTier
      BY <1>1, <2>1, <2>2, <2>4
    <3>2. L(k) = L(a) /\ L(k) \in Layout BY <1>3, <3>1, LaidOutIs
    <3>3. L(m) = IF m \notin Tiers THEN L(k) ELSE WithTier(L(k), accs, m)
      BY <3>1, LaidOutIs
    <3> HIDE DEF L
    <3>4. m \in Tiers => WithTier(L(k), accs, m) = L(k) BY <3>1, <3>2, WithTierEmpty
    <3>5. QED BY <2>2, <3>2, <3>3, <3>4
  <2>5. QED BY <2>3, <2>4
<1>4. b \in G
  <2>1. Nat \subseteq G
    <3> HIDE DEF G
    <3>1. QED BY <1>2, <1>3, InductionOnNat
  <2>2. QED BY <1>1, <2>1
<1>5. QED BY <1>1, <1>4

(* What is laid out by a tier stays in front, and is of tiers up to it. *)
LEMMA LaidOutGrows ==
  ASSUME NEW accs \in Seq(Real), NEW a \in 0 .. LastTier, NEW b \in a .. LastTier
  PROVE  /\ Len(LaidOut(accs)[a].leaves) <= Len(LaidOut(accs)[b].leaves)
         /\ \A k \in 1 .. Len(LaidOut(accs)[a].leaves) :
              LaidOut(accs)[b].leaves[k] = LaidOut(accs)[a].leaves[k]
<1> DEFINE L(k) == LaidOut(accs)[k].leaves
           InFront(k) == Len(L(a)) <= Len(L(k)) /\ \A i \in 1 .. Len(L(a)) : L(k)[i] = L(a)[i]
           G == {k \in Nat : a <= k /\ k <= b => InFront(k)}
<1>1. a \in Nat /\ b \in Nat /\ LastTier \in Nat /\ a <= b /\ b <= LastTier BY LastTierIs
<1>2. \A k \in 0 .. LastTier : Len(L(k)) \in Nat BY LaidOutTyped
<1>3. InFront(a)
  <2>1. Len(L(a)) \in Nat BY <1>1, <1>2
  <2>2. QED BY <2>1
<1>4. 0 \in G
  <2> HIDE DEF InFront
  <2>1. QED BY <1>1, <1>3
<1>5. ASSUME NEW k \in Nat, k \in G PROVE k + 1 \in G
  <2>1. SUFFICES ASSUME a <= k + 1, k + 1 <= b PROVE InFront(k + 1) OBVIOUS
  <2>2. PICK m \in Nat : m = k + 1 OBVIOUS
  <2>3. CASE a = m BY <1>3, <2>2, <2>3
  <2>4. CASE a # m
    <3>1. a <= k /\ k <= b /\ m - 1 = k /\ m # 0 /\ m \in 0 .. LastTier /\ k \in 0 .. LastTier
      BY <1>1, <2>1, <2>2, <2>4
    <3>2. InFront(k) BY <1>5, <3>1
    <3>3. LaidOut(accs)[m] = IF m \notin Tiers THEN LaidOut(accs)[k]
                             ELSE WithTier(LaidOut(accs)[k], accs, m)
      BY <3>1, LaidOutIs
    <3>4. LaidOut(accs)[k] \in Layout BY <3>1, LaidOutIs
    <3>5. Len(L(k)) <= Len(L(m)) /\ \A i \in 1 .. Len(L(k)) : L(m)[i] = L(k)[i]
      <4>1. CASE m \notin Tiers
        <5>1. Len(L(k)) \in Nat BY <1>2, <3>1
        <5>2. L(m) = L(k) BY <3>3, <4>1
        <5>3. QED BY <5>1, <5>2
      <4>2. CASE m \in Tiers
        <5>1. PICK users : users = PaddedWith(ByTier(accs, m), m, LaidOut(accs)[k].next) OBVIOUS
        <5>2. /\ users \in Seq(Account) /\ Len(L(m)) = Len(L(k)) + Len(users)
              /\ \A i \in 1 .. Len(L(k)) : L(m)[i] = L(k)[i]
          <6>1. Behind(LaidOut(accs)[k], LaidOut(accs)[m], users, m)
            BY <3>3, <3>4, <4>2, <5>1, WithTierLeaves
          <6>2. QED BY <6>1 DEF Behind
        <5>3. Len(users) \in Nat /\ Len(L(k)) \in Nat BY <1>2, <3>1, <5>2
        <5> HIDE DEF L
        <5>4. QED BY <5>2, <5>3
      <4>3. QED BY <4>1, <4>2
    <3>6. PICK x \in Nat, y \in Nat, z \in Nat :
            x = Len(L(a)) /\ y = Len(L(k)) /\ z = Len(L(m))
      BY <1>1, <1>2, <3>1
    <3>7. x <= y /\ y <= z BY <3>2, <3>5, <3>6
    <3>8. \A i \in 1 .. x : i \in 1 .. y BY <3>7
    <3> HIDE DEF L
    <3>9. Len(L(a)) <= Len(L(m)) /\ \A i \in 1 .. Len(L(a)) : L(m)[i] = L(a)[i]
      BY <3>2, <3>5, <3>6, <3>7, <3>8
    <3>10. QED BY <2>2, <3>9
  <2>5. QED BY <2>3, <2>4
<1>6. b \in G
  <2>1. Nat \subseteq G
    <3> HIDE DEF G
    <3>1. QED BY <1>4, <1>5, InductionOnNat
  <2>2. QED BY <1>1, <2>1
<1>7. QED BY <1>1, <1>6

LEMMA LaidOutTiers ==
  ASSUME NEW accs \in Seq(Real), NEW t \in 0 .. LastTier,
         NEW k \in 1 .. Len(LaidOut(accs)[t].leaves)
  PROVE  LaidOut(accs)[t].leaves[k].tier <= t
<1> DEFINE L(n) == LaidOut(accs)[n].leaves
           Low(n) == \A i \in 1 .. Len(L(n)) : L(n)[i].tier <= n
           G == {n \in Nat : n <= LastTier => Low(n)}
<1>1. LastTier \in Nat BY LastTierIs
<1>2. \A n \in 0 .. LastTier : L(n) \in Seq(PlacedLeaf) /\ Len(L(n)) \in Nat
  BY LaidOutTyped
<1>3. 0 \in G
  <2>1. L(0) = <<>> BY LaidOutTyped
  <2>2. QED BY <2>1
<1>4. ASSUME NEW n \in Nat, n \in G PROVE n + 1 \in G
  <2>1. SUFFICES ASSUME n + 1 <= LastTier PROVE Low(n + 1) OBVIOUS
  <2>2. PICK m \in Nat : m = n + 1 OBVIOUS
  <2>3. m - 1 = n /\ m # 0 /\ m \in 0 .. LastTier /\ n \in 0 .. LastTier /\ n <= LastTier
    BY <1>1, <2>1, <2>2
  <2>4. LaidOut(accs)[m] = IF m \notin Tiers THEN LaidOut(accs)[n]
                           ELSE WithTier(LaidOut(accs)[n], accs, m)
    BY <2>3, LaidOutIs
  <2>5. LaidOut(accs)[n] \in Layout BY <2>3, LaidOutIs
  <2>6. \A i \in 1 .. Len(L(n)) : L(n)[i].tier <= m
    <3>1. SUFFICES ASSUME NEW i \in 1 .. Len(L(n)) PROVE L(n)[i].tier <= m OBVIOUS
    <3>2. L(n)[i].tier <= n BY <1>4, <2>3
    <3>3. L(n)[i] \in PlacedLeaf BY <1>2, <2>3
    <3>4. L(n)[i].tier \in Nat BY <3>3, ShapeAssumption DEF PlacedLeaf
    <3> HIDE DEF L
    <3>5. QED BY <2>2, <3>2, <3>4
  <2>7. CASE m \notin Tiers
    <3>1. L(m) = L(n) BY <2>4, <2>7
    <3> HIDE DEF L
    <3>2. QED BY <2>2, <2>6, <3>1
  <2>8. CASE m \in Tiers
    <3>1. PICK users : users = PaddedWith(ByTier(accs, m), m, LaidOut(accs)[n].next) OBVIOUS
    <3>2. /\ users \in Seq(Account) /\ Len(L(m)) = Len(L(n)) + Len(users)
          /\ \A i \in 1 .. Len(L(n)) : L(m)[i] = L(n)[i]
          /\ \A i \in 1 .. Len(users) : L(m)[Len(L(n)) + i] = [account |-> users[i], tier |-> m]
      <4>1. Behind(LaidOut(accs)[n], LaidOut(accs)[m], users, m)
        BY <2>4, <2>5, <2>8, <3>1, WithTierLeaves
      <4>2. QED BY <4>1 DEF Behind
    <3>3. PICK x \in Nat, y \in Nat : x = Len(L(n)) /\ y = Len(users) BY <1>2, <2>3, <3>2
    <3> HIDE DEF L
    <3>4. ASSUME NEW i \in 1 .. Len(L(m)) PROVE L(m)[i].tier <= m
      <4>1. i \in Nat /\ 1 <= i /\ i <= x + y BY <3>2, <3>3
      <4>2. CASE i <= x
        <5>1. i \in 1 .. x BY <4>1, <4>2
        <5>2. QED BY <2>6, <3>2, <3>3, <5>1
      <4>3. CASE ~(i <= x)
        <5>1. PICK j \in 1 .. y : i = x + j
          <6>1. i - x \in 1 .. y /\ i = x + (i - x) BY <4>1, <4>3, <3>3
          <6>2. QED BY <6>1
        <5>2. L(m)[x + j] = [account |-> users[j], tier |-> m] BY <3>2, <3>3
        <5>3. L(m)[x + j].tier = m BY <5>2
        <5>4. QED BY <2>2, <5>1, <5>3
      <4>4. QED BY <4>2, <4>3
    <3>5. QED BY <2>2, <3>4
  <2>9. QED BY <2>7, <2>8
<1>5. t \in G
  <2>1. Nat \subseteq G
    <3> HIDE DEF G
    <3>1. QED BY <1>3, <1>4, InductionOnNat
  <2>2. QED BY <1>1, <2>1
<1>6. QED BY <1>1, <1>5

(* The first so many of a list, and one more. *)
LEMMA FirstOnes ==
  ASSUME NEW S, NEW list \in Seq(S), NEW n \in 0 .. Len(list)
  PROVE  /\ SubSeq(list, 1, n) \in Seq(S) /\ Len(SubSeq(list, 1, n)) = n
         /\ \A i \in 1 .. n : i \in 1 .. Len(list) /\ SubSeq(list, 1, n)[i] = list[i]
         /\ n = 0 => SubSeq(list, 1, n) = <<>>
         /\ n = Len(list) => SubSeq(list, 1, n) = list
<1>1. n \in Nat /\ n <= Len(list) /\ Len(list) \in Nat OBVIOUS
<1>2. PICK q : q = SubSeq(list, 1, n) OBVIOUS
<1>3. q \in Seq(S) /\ Len(q) = n /\ \A i \in 1 .. n : q[i] = list[i]
  <2>1. 1 \in 1 .. Len(list) + 1 /\ n \in 1 - 1 .. Len(list) BY <1>1
  <2>2. QED BY <1>1, <1>2, <2>1, SubSeqProperties
<1>4. \A i \in 1 .. n : i \in 1 .. Len(list) BY <1>1
<1>5. n = 0 => q = <<>> BY <1>3
<1>6. n = Len(list) => q = list BY <1>3, SeqEqual
<1>7. QED BY <1>2, <1>3, <1>4, <1>5, <1>6

LEMMA OneMore ==
  ASSUME NEW S, NEW list \in Seq(S), NEW n \in 1 .. Len(list)
  PROVE  SubSeq(list, 1, n) = Append(SubSeq(list, 1, n - 1), list[n])
<1>1. PICK m \in Nat : m = n - 1 /\ m \in 0 .. Len(list) /\ n \in 0 .. Len(list) /\ n = m + 1
  OBVIOUS
<1>2. PICK x \in S : x = list[n] OBVIOUS
<1>3. PICK p \in Seq(S) : p = SubSeq(list, 1, m) /\ Len(p) = m /\ \A i \in 1 .. m : p[i] = list[i]
  BY <1>1, FirstOnes
<1>4. PICK q \in Seq(S) : q = SubSeq(list, 1, n) /\ Len(q) = n /\ \A i \in 1 .. n : q[i] = list[i]
  <2>1. PICK k \in 0 .. Len(list) : k = n BY <1>1
  <2>2. /\ SubSeq(list, 1, k) \in Seq(S) /\ Len(SubSeq(list, 1, k)) = k
        /\ \A i \in 1 .. k : SubSeq(list, 1, k)[i] = list[i]
    BY <2>1, FirstOnes
  <2>3. QED BY <2>1, <2>2
<1>5. PICK r \in Seq(S) : /\ r = Append(p, x) /\ Len(r) = n /\ r[n] = x
                         /\ \A i \in 1 .. m : r[i] = p[i]
  <2>1. PICK r \in Seq(S) : r = Append(p, x) BY AppendProperties
  <2>2. Len(r) = m + 1 /\ r[m + 1] = x /\ \A i \in 1 .. m : r[i] = p[i]
    BY <1>3, <2>1, AppendProperties
  <2>3. QED BY <1>1, <2>1, <2>2
<1>6. ASSUME NEW i \in 1 .. n PROVE q[i] = r[i]
  <2>1. CASE i = n BY <1>2, <1>4, <1>5, <2>1
  <2>2. CASE i # n
    <3>1. i \in 1 .. m BY <1>1, <2>2
    <3>2. QED BY <1>3, <1>4, <1>5, <3>1
  <2>3. QED BY <2>1, <2>2
<1>7. q = r BY <1>4, <1>5, <1>6, SeqEqual
<1>8. QED BY <1>1, <1>2, <1>3, <1>4, <1>5, <1>7

LEMMA EmptyTreeType == EmptyTree \in [0 .. (Slots - 1) -> LeafType]
BY DEF EmptyTree, EmptyLeaf, LeafType, NoTier

(* A tier is whole batches, its padding included. *)
LEMMA WholeTier ==
  ASSUME NEW accs \in Seq(Real), NEW t \in Tiers, NEW start \in Nat
  PROVE  Len(PaddedWith(accs, t, start)) % UsersPerBatch[t] = 0
<1>1. PICK n \in Nat : n = Len(accs) OBVIOUS
<1>2. PICK u \in Nat \ {0} : u = UsersPerBatch[t] BY ShapeAssumption
<1>3. PICK c \in Nat : c = PaddingCount(n, t) BY PaddingIs
<1>4. Len(PaddedWith(accs, t, start)) = n + c BY <1>1, <1>3, PaddedWithIs
<1>5. PICK d \in Int : d = (n + u - 1) \div u
  <2>1. (n + u - 1) \div u \in Int BY SMTT(30)
  <2>2. QED BY <2>1
<1>6. c = d * u - n BY <1>2, <1>3, <1>5 DEF PaddingCount
<1>7. n + c = d * u
  <2>1. d * u \in Int BY <1>5
  <2>2. QED BY <1>6, <2>1
<1>8. (d * u) % u = 0 BY <1>5, WholeMultiple
<1>9. QED BY <1>2, <1>4, <1>7, <1>8

(* Leaves that end with a whole batch of a tier make a tree that a run     *)
(* commits: that tier fills every leaf behind the tiers before it.         *)
LEMMA WholeBatches ==
  ASSUME NEW accs \in Seq(Real), NEW t \in Tiers,
         NEW k \in 1 .. Len(LaidOut(accs)[t].leaves),
         LaidOut(accs)[t].leaves[k].tier = t,
         (Len(LaidOut(accs)[t].leaves) - k) % UsersPerBatch[t] = 0,
         \A i \in 1 .. k : LaidOut(accs)[t].leaves[i].account.index < Slots
  PROVE  Filled(EmptyTree, SubSeq(LaidOut(accs)[t].leaves, 1, k)) \in Committed(accs)
<1>1. PICK s \in 0 .. LastTier : s = t - 1 /\ t \in 1 .. LastTier /\ t \in Nat BY LastTierIs
<1>2. PICK users : users = PaddedWith(ByTier(accs, t), t, LaidOut(accs)[s].next) OBVIOUS
<1>3. PICK before : before = LaidOut(accs)[s].leaves OBVIOUS
<1>4. PICK leaves \in Seq(PlacedLeaf) : leaves = LaidOut(accs)[t].leaves BY <1>1, LaidOutTyped
<1>5. PICK all \in Seq(PlacedLeaf) : all = Padded(accs)
  <2>1. LastTier \in 0 .. LastTier BY LastTierIs
  <2>2. QED BY <2>1, LaidOutTyped DEF Padded
<1>6. PICK m \in Nat, n \in Nat : m = Len(before) /\ n = Len(users) /\ Len(leaves) = m + n
  <2>1. LaidOut(accs)[s] \in Layout /\ before \in Seq(PlacedLeaf) BY <1>1, <1>3, LaidOutTyped
  <2>2. LaidOut(accs)[t] = WithTier(LaidOut(accs)[s], accs, t)
    <3>1. t \in 0 .. LastTier /\ t # 0 /\ t - 1 = s BY <1>1
    <3>2. QED BY <3>1, LaidOutIs
  <2>3. Behind(LaidOut(accs)[s], LaidOut(accs)[t], users, t)
    BY <1>2, <2>1, <2>2, WithTierLeaves
  <2>4. users \in Seq(Account) /\ Len(leaves) = Len(before) + Len(users)
    BY <1>3, <1>4, <2>3 DEF Behind
  <2>5. QED BY <2>1, <2>4
<1>7. /\ \A i \in 1 .. m : leaves[i] = before[i]
      /\ \A i \in 1 .. n : leaves[m + i].tier = t
  <2>1. LaidOut(accs)[s] \in Layout BY <1>1, LaidOutTyped
  <2>2. LaidOut(accs)[t] = WithTier(LaidOut(accs)[s], accs, t)
    <3>1. t \in 0 .. LastTier /\ t # 0 /\ t - 1 = s BY <1>1
    <3>2. QED BY <3>1, LaidOutIs
  <2>3. Behind(LaidOut(accs)[s], LaidOut(accs)[t], users, t)
    BY <1>2, <2>1, <2>2, WithTierLeaves
  <2>4. \A i \in 1 .. n : leaves[m + i] = [account |-> users[i], tier |-> t]
    BY <1>3, <1>4, <1>6, <2>3 DEF Behind
  <2>5. \A i \in 1 .. m : leaves[i] = before[i] BY <1>3, <1>4, <1>6, <2>3 DEF Behind
  <2>6. ASSUME NEW i \in 1 .. n PROVE leaves[m + i].tier = t
    <3>1. leaves[m + i] = [account |-> users[i], tier |-> t] BY <2>4
    <3>2. QED BY <3>1
  <2>7. QED BY <2>5, <2>6
<1>8. \A i \in 1 .. m : leaves[i].tier # t
  <2>1. SUFFICES ASSUME NEW i \in 1 .. m PROVE leaves[i].tier # t OBVIOUS
  <2>2. before[i].tier <= s BY <1>1, <1>3, <1>6, LaidOutTiers
  <2>3. QED BY <1>1, <1>7, <2>2
<1>9. \A i \in (m + 1) .. (m + n) : leaves[i].tier = t
  <2>1. SUFFICES ASSUME NEW i \in (m + 1) .. (m + n) PROVE leaves[i].tier = t OBVIOUS
  <2>2. PICK j \in 1 .. n : i = m + j
    <3>1. i - m \in 1 .. n /\ i = m + (i - m) BY <1>6
    <3>2. QED BY <3>1
  <2>3. QED BY <1>7, <2>2
<1>10. k \in Nat /\ m < k /\ k <= m + n
  <2>1. k \in 1 .. (m + n) BY <1>4, <1>6
  <2>2. leaves[k].tier = t BY <1>4
  <2>3. k \notin 1 .. m BY <1>8, <2>2
  <2>4. QED BY <2>1, <2>3
<1>11. /\ m + n <= Len(all) /\ Len(all) \in Nat
       /\ \A i \in 1 .. (m + n) : all[i] = leaves[i]
  <2>1. LastTier \in t .. LastTier /\ t \in 0 .. LastTier BY <1>1, LastTierIs
  <2>2. /\ Len(leaves) <= Len(all)
        /\ \A i \in 1 .. Len(leaves) : all[i] = leaves[i]
    BY <1>4, <1>5, <2>1, LaidOutGrows DEF Padded
  <2>3. QED BY <1>6, <2>2
<1>12. k \in 0 .. Len(all) /\ \A i \in 1 .. k : all[i] = leaves[i] /\ i \in 1 .. (m + n)
  BY <1>10, <1>11
<1>13. {i \in 1 .. k : all[i].tier = all[k].tier} = (m + 1) .. k
  <2>1. all[k].tier = t BY <1>4, <1>10, <1>12
  <2>2. \A i \in 1 .. k : all[i].tier = t <=> i \in (m + 1) .. k
    <3>1. SUFFICES ASSUME NEW i \in 1 .. k PROVE all[i].tier = t <=> i \in (m + 1) .. k
      OBVIOUS
    <3>2. IF i <= m THEN i \in 1 .. m /\ i \notin (m + 1) .. k
          ELSE i \in (m + 1) .. (m + n) /\ i \in (m + 1) .. k
      BY <1>10
    <3>3. QED BY <1>8, <1>9, <1>12, <3>2
  <2>3. (m + 1) .. k \subseteq 1 .. k BY <1>10
  <2>4. QED BY <2>1, <2>2, <2>3
<1>14. Cardinality((m + 1) .. k) = k - m
  <2>1. PICK a \in Int : a = m + 1 OBVIOUS
  <2>2. Cardinality(a .. k) = IF a > k THEN 0 ELSE k - a + 1 BY <1>10, FS_Interval
  <2>3. QED BY <1>10, <2>1, <2>2
<1>15. (k - m) % UsersPerBatch[t] = 0
  <2>1. PICK u \in Nat \ {0} : u = UsersPerBatch[t] BY ShapeAssumption
  <2>2. n % u = 0
    <3>1. ByTier(accs, t) \in Seq(Real) /\ LaidOut(accs)[s].next \in Nat
      BY <1>1, ByTierIs, LaidOutTyped
    <3>2. QED BY <1>2, <1>6, <2>1, <3>1, WholeTier
  <2>3. PICK j \in Nat : j = (m + n) - k BY <1>10
  <2>4. j % u = 0 BY <1>4, <1>6, <2>1, <2>3
  <2>5. PICK q \in Int, p \in Int : n = q * u /\ j = p * u
    <3>1. n \div u \in Int /\ j \div u \in Int BY SMTT(30)
    <3>2. QED BY <2>2, <2>4, <3>1, Multiple
  <2>6. k - m = (q - p) * u
    <3>1. (q - p) * u = q * u - p * u BY <2>5, SMTT(30)
    <3>2. q * u \in Int /\ p * u \in Int BY <2>5
    <3>3. QED BY <1>10, <2>3, <2>5, <3>1, <3>2
  <2>7. q - p \in Int BY <2>5
  <2>8. ((q - p) * u) % u = 0 BY <2>7, WholeMultiple
  <2>9. QED BY <2>1, <2>6, <2>8
<1>16. SubSeq(all, 1, k) = SubSeq(leaves, 1, k)
  <2>1. k \in 0 .. Len(leaves) /\ k \in 0 .. Len(all) BY <1>6, <1>10, <1>12
  <2>2. SubSeq(all, 1, k) \in Seq(PlacedLeaf) /\ SubSeq(leaves, 1, k) \in Seq(PlacedLeaf)
        /\ Len(SubSeq(all, 1, k)) = k /\ Len(SubSeq(leaves, 1, k)) = k
        /\ \A i \in 1 .. k : SubSeq(all, 1, k)[i] = all[i] /\ SubSeq(leaves, 1, k)[i] = leaves[i]
    BY <2>1, FirstOnes
  <2>3. QED BY <1>12, <2>2, SeqEqual
<1>17. all[k].tier = t BY <1>4, <1>10, <1>12
<1>18. \A i \in 1 .. k : all[i].account.index < Slots BY <1>4, <1>12
<1>19. Cardinality({i \in 1 .. k : all[i].tier = all[k].tier}) % UsersPerBatch[all[k].tier] = 0
  BY <1>13, <1>14, <1>15, <1>17
<1>20. Filled(EmptyTree, SubSeq(all, 1, k)) \in Committed(accs)
  BY <1>5, <1>12, <1>18, <1>19 DEF Committed
<1>21. QED BY <1>4, <1>16, <1>20

(* So does the empty tree. *)
LEMMA EmptyCommitted == ASSUME NEW accs \in Seq(Real) PROVE EmptyTree \in Committed(accs)
<1>1. PICK all \in Seq(PlacedLeaf) : all = Padded(accs)
  <2>1. LastTier \in 0 .. LastTier BY LastTierIs
  <2>2. QED BY <2>1, LaidOutTyped DEF Padded
<1>2. SubSeq(all, 1, 0) = <<>> BY FirstOnes
<1>3. Filled(EmptyTree, <<>>) = EmptyTree BY EmptyTreeType, FilledEmpty
<1>4. 0 \in 0 .. Len(all) /\ 1 .. 0 = {} OBVIOUS
<1>5. Filled(EmptyTree, SubSeq(all, 1, 0)) \in Committed(accs) BY <1>1, <1>4 DEF Committed
<1>6. QED BY <1>2, <1>3, <1>5
==============================================================================
