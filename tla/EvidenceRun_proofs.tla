-------------------------- MODULE EvidenceRun_proofs --------------------------
(***************************************************************************)
(* What the user proofs and the merkle sum attestation keep, for every     *)
(* snapshot, every cut of it into chunks and every bound on faults.  The   *)
(* inductive invariant Inv says which tree a run holds (that of its whole  *)
(* walk, or of what it had streamed), that the table and the batch hold    *)
(* the rows of the walk before next and, in the table, of nobody twice,    *)
(* and that no leaf is set behind the walk.  The lemmas before it are      *)
(* about the trees and the lists themselves.                               *)
(***************************************************************************)
EXTENDS EvidenceRun, AccountTree_proofs

-----------------------------------------------------------------------------
(* The tree: powers of two, levels, the path of a leaf.                   *)

(* Powers of two, from their recursion. *)
LEMMA Pow2Is ==
  /\ Pow2 \in [Nat -> Nat \ {0}] /\ Pow2[0] = 1
  /\ \A h \in Nat : Pow2[h + 1] = 2 * Pow2[h]
<1> DEFINE V == Nat \ {0}
           step == [n \in Nat |-> [v \in V |-> 2 * v]]
<1>1. step \in [Nat -> [V -> V]] /\ 1 \in V OBVIOUS
<1>2. \A n \in Nat, v \in V : step[n][v] = 2 * v OBVIOUS
<1> HIDE DEF step
<1>3. PICK f \in [Nat -> V] : f[0] = 1 /\ \A n \in Nat : f[n + 1] = step[n + 1][f[n]]
  <2>1. \E f : f \in [Nat -> V] /\ AlongNat(f, 1, step)
    <3> HIDE DEF V
    <3>1. QED BY <1>1, RecursionOnNat
  <2>2. QED BY <2>1 DEF AlongNat
<1>4. \A n \in Nat : f[n] = IF n = 0 THEN 1 ELSE 2 * f[n - 1]
  <2>1. TAKE n \in Nat
  <2>2. CASE n = 0 BY <1>3, <2>2
  <2>3. CASE n # 0
    <3>1. n - 1 \in Nat /\ (n - 1) + 1 = n BY <2>3
    <3>2. f[n] = step[n][f[n - 1]] BY <1>3, <3>1
    <3>3. f[n - 1] \in V BY <3>1
    <3>4. QED BY <1>2, <2>3, <3>2, <3>3
  <2>4. QED BY <2>2, <2>3
<1>5. f = [n \in Nat |-> IF n = 0 THEN 1 ELSE 2 * f[n - 1]] BY <1>4
<1>6. Pow2 = [n \in Nat |-> IF n = 0 THEN 1 ELSE 2 * Pow2[n - 1]] BY <1>5 DEF Pow2
<1>7. \A n \in Nat : Pow2[n] = IF n = 0 THEN 1 ELSE 2 * Pow2[n - 1] BY <1>6
<1>8. \A n \in Nat : n + 1 # 0 /\ (n + 1) - 1 = n OBVIOUS
<1>9. \A n \in Nat : Pow2[n + 1] = 2 * Pow2[n] BY <1>7, <1>8
<1> DEFINE G == {n \in Nat : Pow2[n] \in Nat \ {0}}
<1>10. Nat \subseteq G
  <2>1. 0 \in G BY <1>7
  <2>2. \A n \in Nat : n \in G => n + 1 \in G BY <1>9
  <2> HIDE DEF G
  <2>3. QED BY <2>1, <2>2, InductionOnNat
<1>11. QED BY <1>6, <1>7, <1>9, <1>10

\* a level from the one below it
LevelOf(summed, h, l, below) ==
  [i \in 0 .. (Pow2[h - l] - 1) |-> Parent(summed, below[2 * i], below[2 * i + 1])]

(* The recursion of the levels has a solution, which the tree is. *)
LEMMA LevelsAre ==
  ASSUME NEW summed, NEW leaves, NEW h \in Nat
  PROVE  /\ Levels(summed, leaves, h)[0] = leaves
         /\ \A l \in 0 .. h : l # 0 =>
              Levels(summed, leaves, h)[l]
                = LevelOf(summed, h, l, Levels(summed, leaves, h)[l - 1])
<1> DEFINE Body(l, f) == IF l = 0 THEN leaves ELSE LevelOf(summed, h, l, f[l - 1])
           Def(f, n) == f = [l \in 0 .. n |-> Body(l, f)]
           G == {n \in Nat : \E f : Def(f, n)}
<1>1. 0 \in G
  <2>1. 0 .. 0 = {0} OBVIOUS
  <2>2. Def([l \in 0 .. 0 |-> leaves], 0) BY <2>1
  <2> HIDE DEF Def
  <2>3. QED BY <2>2
<1>2. ASSUME NEW n \in Nat, n \in G PROVE n + 1 \in G
  <2>1. PICK f : Def(f, n) BY <1>2
  <2> DEFINE g == [l \in 0 .. (n + 1) |-> Body(l, f)]
  <2>2. \A l \in 0 .. n : f[l] = Body(l, f)
    <3> HIDE DEF Body
    <3>1. QED BY <2>1
  <2>3. \A l \in 0 .. (n + 1) : g[l] = Body(l, f)
    <3> HIDE DEF Body
    <3>1. QED OBVIOUS
  <2>4. \A l \in 0 .. (n + 1) : l # 0 => l - 1 \in 0 .. n /\ l - 1 \in 0 .. (n + 1) OBVIOUS
  <2>5. \A l \in 0 .. n : g[l] = f[l]
    <3>1. \A l \in 0 .. n : l \in 0 .. (n + 1) OBVIOUS
    <3> HIDE DEF g, Body
    <3>2. QED BY <2>2, <2>3, <3>1
  <2> HIDE DEF g
  <2>6. \A l \in 0 .. (n + 1) : g[l] = Body(l, g)
    <3>1. TAKE l \in 0 .. (n + 1)
    <3>2. l # 0 => g[l - 1] = f[l - 1] BY <2>4, <2>5
    <3>3. Body(l, g) = Body(l, f) BY <3>2
    <3> HIDE DEF Body
    <3>4. QED BY <2>3, <3>3
  <2>7. Def(g, n + 1)
    <3>1. g = [l \in 0 .. (n + 1) |-> g[l]] BY DEF g
    <3> HIDE DEF Body
    <3>2. QED BY <2>6, <3>1
  <2> HIDE DEF Def
  <2>8. QED BY <2>7
<1>3. h \in G
  <2> HIDE DEF G
  <2>1. QED BY <1>1, <1>2, InductionOnNat
<1>4. PICK f : Def(f, h) BY <1>3
<1> DEFINE levels == Levels(summed, leaves, h)
<1>5. Def(levels, h) BY <1>4 DEF Levels, LevelOf
<1> HIDE DEF levels
<1>6. \A l \in 0 .. h : levels[l] = Body(l, levels)
  <2> HIDE DEF Body
  <2>1. QED BY <1>5
<1>7. levels[0] = leaves BY <1>6
<1>8. QED BY <1>6, <1>7 DEF levels

(* A node and the one it is below. *)
LEMMA Halves ==
  ASSUME NEW n \in Nat
  PROVE  /\ n \div 2 \in Nat /\ (n % 2) \in {0, 1} /\ n = 2 * (n \div 2) + (n % 2)
         /\ \A m \in Nat : n < 2 * m => (n \div 2) < m
OBVIOUS

(* The nodes above a leaf, from their recursion. *)
LEMMA AboveIs ==
  ASSUME NEW index \in Nat
  PROVE  /\ Above(index) \in [Nat -> Nat] /\ Above(index)[0] = index
         /\ \A l \in Nat : Above(index)[l + 1] = Above(index)[l] \div 2
<1> DEFINE step == [n \in Nat |-> [v \in Nat |-> v \div 2]]
<1>1. step \in [Nat -> [Nat -> Nat]]
  <2>1. \A v \in Nat : v \div 2 \in Nat BY Halves
  <2>2. QED BY <2>1
<1>2. \A n \in Nat, v \in Nat : step[n][v] = v \div 2 OBVIOUS
<1> HIDE DEF step
<1>3. PICK f \in [Nat -> Nat] : f[0] = index /\ \A n \in Nat : f[n + 1] = step[n + 1][f[n]]
  <2>1. \E f : f \in [Nat -> Nat] /\ AlongNat(f, index, step) BY <1>1, RecursionOnNat
  <2>2. QED BY <2>1 DEF AlongNat
<1>4. \A n \in Nat : f[n] = IF n = 0 THEN index ELSE f[n - 1] \div 2
  <2>1. TAKE n \in Nat
  <2>2. CASE n = 0 BY <1>3, <2>2
  <2>3. CASE n # 0
    <3>1. n - 1 \in Nat /\ (n - 1) + 1 = n BY <2>3
    <3>2. f[n] = step[n][f[n - 1]] BY <1>3, <3>1
    <3>3. f[n - 1] \in Nat BY <3>1
    <3>4. QED BY <1>2, <2>3, <3>2, <3>3
  <2>4. QED BY <2>2, <2>3
<1>5. f = [n \in Nat |-> IF n = 0 THEN index ELSE f[n - 1] \div 2] BY <1>4
<1> DEFINE node == Above(index)
<1>6. node = [n \in Nat |-> IF n = 0 THEN index ELSE node[n - 1] \div 2]
  BY <1>5 DEF Above
<1> HIDE DEF node
<1>7. \A n \in Nat : node[n] = IF n = 0 THEN index ELSE node[n - 1] \div 2 BY <1>6
<1>8. \A n \in Nat : n + 1 # 0 /\ (n + 1) - 1 = n OBVIOUS
<1>9. \A n \in Nat : node[n + 1] = node[n] \div 2 BY <1>7, <1>8
<1> DEFINE G == {n \in Nat : node[n] \in Nat}
<1>10. Nat \subseteq G
  <2>1. 0 \in G BY <1>7
  <2>2. \A n \in Nat : n \in G => n + 1 \in G BY <1>9, Halves
  <2> HIDE DEF G
  <2>3. QED BY <2>1, <2>2, InductionOnNat
<1>11. node \in [Nat -> Nat] BY <1>6, <1>10
<1>12. QED BY <1>7, <1>9, <1>11 DEF node

(* They lie in the levels of the tree. *)
LEMMA AboveBound ==
  ASSUME NEW h \in Nat, NEW index \in 0 .. (Pow2[h] - 1)
  PROVE  \A l \in 0 .. h : Above(index)[l] \in 0 .. (Pow2[h - l] - 1)
<1>1. index \in Nat BY Pow2Is
<1> DEFINE node == Above(index)
           G == {l \in Nat : l <= h => node[l] < Pow2[h - l]}
<1>2. /\ node \in [Nat -> Nat] /\ node[0] = index
      /\ \A l \in Nat : node[l + 1] = node[l] \div 2
  BY <1>1, AboveIs
<1> HIDE DEF node
<1>3. Nat \subseteq G
  <2>1. 0 \in G
    <3>1. h - 0 = h /\ Pow2[h] \in Nat BY Pow2Is
    <3>2. QED BY <1>2, <3>1
  <2>2. ASSUME NEW l \in Nat, l \in G PROVE l + 1 \in G
    <3>1. SUFFICES ASSUME l + 1 <= h PROVE node[l + 1] < Pow2[h - (l + 1)] OBVIOUS
    <3>2. PICK m \in Nat : m = h - (l + 1) BY <3>1
    <3>3. h - l = m + 1 BY <3>2
    <3>4. node[l] < Pow2[m + 1] BY <2>2, <3>1, <3>3
    <3>5. Pow2[m + 1] = 2 * Pow2[m] /\ Pow2[m] \in Nat BY Pow2Is
    <3>6. node[l] \in Nat BY <1>2
    <3>7. (node[l] \div 2) < Pow2[m] BY <3>4, <3>5, <3>6, Halves
    <3>8. QED BY <1>2, <3>2, <3>7
  <2> HIDE DEF G
  <2>3. QED BY <2>1, <2>2, InductionOnNat
<1>4. SUFFICES ASSUME NEW l \in 0 .. h PROVE node[l] \in 0 .. (Pow2[h - l] - 1)
  BY DEF node
<1>5. h - l \in Nat /\ l \in Nat /\ l <= h OBVIOUS
<1>6. Pow2[h - l] \in Nat BY <1>5, Pow2Is
<1>7. node[l] < Pow2[h - l] BY <1>3, <1>5
<1>8. node[l] \in Nat BY <1>2
<1>9. QED BY <1>6, <1>7, <1>8

(* The path of every leaf leads to the root. *)
LEMMA PathVerifies ==
  ASSUME NEW summed, NEW leaves, NEW h \in Nat, NEW index \in 0 .. (Pow2[h] - 1)
  PROVE  Walk(summed, index, leaves[index], Siblings(Levels(summed, leaves, h), h, index))
           = Levels(summed, leaves, h)[h][0]
<1> DEFINE levels == Levels(summed, leaves, h)
           node == Above(index)
           siblings == Siblings(levels, h, index)
           Step(l, v) == IF node[l - 1] % 2 = 0 THEN Parent(summed, v, siblings[l])
                         ELSE Parent(summed, siblings[l], v)
           Body(l, u) == IF l = 0 THEN leaves[index] ELSE Step(l, u[l - 1])
           Up(u) == u = [l \in 0 .. h |-> Body(l, u)]
           at == [l \in 0 .. h |-> levels[l][node[l]]]
<1>1. /\ levels[0] = leaves
      /\ \A l \in 0 .. h : l # 0 => levels[l] = LevelOf(summed, h, l, levels[l - 1])
  BY LevelsAre
<1>2. siblings = [l \in 1 .. h |-> levels[l - 1][Other(node[l - 1])]]
  BY DEF Siblings
<1>3. Len(siblings) = h BY <1>2
<1>4. /\ node[0] = index /\ \A l \in Nat : node[l + 1] = node[l] \div 2
      /\ \A l \in 0 .. h : node[l] \in 0 .. (Pow2[h - l] - 1)
  <2>1. index \in Nat BY Pow2Is
  <2>2. QED BY <2>1, AboveIs, AboveBound
<1>5. ASSUME NEW l \in 0 .. h, l # 0
      PROVE  levels[l][node[l]] = Step(l, levels[l - 1][node[l - 1]])
  <2> HIDE DEF levels, node, siblings
  <2>1. PICK k \in Nat : l = k + 1 /\ k = l - 1 /\ k \in 0 .. h
    <3>1. l - 1 \in Nat /\ l = (l - 1) + 1 /\ l - 1 \in 0 .. h BY <1>5
    <3>2. QED BY <3>1
  <2>2. PICK m \in Nat : m = h - l BY <1>5
  <2>3. h - k = m + 1 BY <2>1, <2>2
  <2>4. Pow2[m] \in Nat /\ Pow2[m + 1] = 2 * Pow2[m] BY Pow2Is
  <2>5. PICK a \in Nat : a = node[k] BY <1>4, <2>1, <2>3, <2>4
  <2>6. PICK b \in Nat : b = node[l] /\ b = a \div 2 BY <1>4, <2>1, <2>5, Halves
  <2>7. b \in 0 .. (Pow2[m] - 1) BY <1>4, <2>2, <2>6
  <2>8. levels[l][b] = Parent(summed, levels[k][2 * b], levels[k][2 * b + 1])
    <3>1. levels[l] = [i \in 0 .. (Pow2[m] - 1) |->
                         Parent(summed, levels[k][2 * i], levels[k][2 * i + 1])]
      BY <1>1, <1>5, <2>1, <2>2 DEF LevelOf
    <3>2. QED BY <2>7, <3>1
  <2>9. siblings[l] = levels[k][Other(a)]
    <3>1. l \in 1 .. h BY <1>5
    <3>2. QED BY <1>2, <2>1, <2>5, <3>1
  <2>10. a = 2 * b + (a % 2) /\ (a % 2) \in {0, 1} BY <2>6, Halves
  <2>11. CASE (a % 2) = 0
    <3>1. Other(a) = 2 * b + 1 /\ a = 2 * b BY <2>10, <2>11 DEF Other
    <3>2. QED BY <2>1, <2>5, <2>6, <2>8, <2>9, <2>11, <3>1
  <2>12. CASE (a % 2) = 1
    <3>1. Other(a) = 2 * b /\ a = 2 * b + 1 BY <2>10, <2>12 DEF Other
    <3>2. (a % 2) # 0 BY <2>12
    <3>3. QED BY <2>1, <2>5, <2>6, <2>8, <2>9, <3>1, <3>2
  <2>13. QED BY <2>10, <2>11, <2>12
<1>6. Up(at)
  <2> HIDE DEF levels, node, siblings, Step
  <2>1. \A l \in 0 .. h : l # 0 => l - 1 \in 0 .. h OBVIOUS
  <2>2. \A l \in 0 .. h : at[l] = levels[l][node[l]] OBVIOUS
  <2>3. \A l \in 0 .. h : at[l] = Body(l, at)
    <3> HIDE DEF at
    <3>1. QED BY <1>1, <1>4, <1>5, <2>1, <2>2
  <2>4. at = [l \in 0 .. h |-> at[l]] OBVIOUS
  <2> HIDE DEF at, Body
  <2>5. QED BY <2>3, <2>4
<1>7. ASSUME NEW u, Up(u) PROVE u[h] = levels[h][0]
  <2> DEFINE G == {l \in Nat : l <= h => u[l] = levels[l][node[l]]}
  <2> HIDE DEF levels, node, siblings, Step
  <2>1. \A l \in 0 .. h : u[l] = Body(l, u)
    <3> HIDE DEF Body
    <3>1. QED BY <1>7
  <2>2. 0 \in G BY <1>1, <1>4, <2>1
  <2>3. ASSUME NEW l \in Nat, l \in G PROVE l + 1 \in G
    <3>1. SUFFICES ASSUME l + 1 <= h PROVE u[l + 1] = levels[l + 1][node[l + 1]] OBVIOUS
    <3>2. l + 1 \in 0 .. h /\ l + 1 # 0 /\ (l + 1) - 1 = l /\ l <= h BY <3>1
    <3>3. u[l + 1] = Step(l + 1, u[l]) BY <2>1, <3>2
    <3>4. u[l] = levels[l][node[l]] BY <2>3, <3>2
    <3>5. levels[l + 1][node[l + 1]] = Step(l + 1, levels[l][node[l]]) BY <1>5, <3>2
    <3>6. QED BY <3>3, <3>4, <3>5
  <2>4. h \in G
    <3> HIDE DEF G
    <3>1. QED BY <2>2, <2>3, InductionOnNat
  <2>5. node[h] = 0
    <3>1. h \in 0 .. h /\ h - h = 0 OBVIOUS
    <3>2. node[h] \in 0 .. (Pow2[0] - 1) BY <1>4, <3>1
    <3>3. QED BY <3>2, Pow2Is
  <2>6. QED BY <2>4, <2>5
<1>8. Walk(summed, index, leaves[index], siblings)
        = (CHOOSE u : Up(u))[h]
  BY <1>3 DEF Walk
<1> HIDE DEF Up, levels, siblings
<1>9. Up(CHOOSE u : Up(u)) BY <1>6
<1>10. QED BY <1>7, <1>8, <1>9 DEF levels, siblings

(* The sum tree has a leaf for every listed account. *)
LEMMA HeightIs ==
  ASSUME NEW n \in Nat
  PROVE  Height(n) \in Nat /\ Pow2[Height(n)] >= n
<1> DEFINE S == {h \in Nat : Pow2[h] >= n}
           G == {h \in Nat : Pow2[h] >= h + 1}
<1>1. Nat \subseteq G
  <2>1. 0 \in G BY Pow2Is
  <2>2. ASSUME NEW h \in Nat, h \in G PROVE h + 1 \in G
    <3>1. Pow2[h + 1] = 2 * Pow2[h] /\ Pow2[h] \in Nat /\ Pow2[h] >= h + 1
      BY <2>2, Pow2Is
    <3>2. QED BY <3>1
  <2> HIDE DEF G
  <2>3. QED BY <2>1, <2>2, InductionOnNat
<1>2. n \in S
  <2>1. Pow2[n] \in Nat /\ Pow2[n] >= n + 1 BY <1>1, Pow2Is
  <2>2. QED BY <2>1
<1>3. PICK m \in S : \A k \in S : m <= k
  <2>1. S \in SUBSET Nat OBVIOUS
  <2> HIDE DEF S
  <2>2. QED BY <1>2, <2>1, LeastNatural
<1>4. m \in 0 .. n BY <1>2, <1>3
<1>5. ASSUME NEW g \in 0 .. (m - 1) PROVE Pow2[g] < n
  <2>1. g \in Nat /\ ~(m <= g) BY <1>4
  <2>2. g \notin S BY <1>3, <2>1
  <2>3. Pow2[g] \in Nat BY <2>1, Pow2Is
  <2>4. QED BY <2>1, <2>2, <2>3
<1>6. \E h \in 0 .. n : Pow2[h] >= n /\ \A g \in 0 .. (h - 1) : Pow2[g] < n
  BY <1>3, <1>4, <1>5
<1>7. Height(n) \in 0 .. n /\ Pow2[Height(n)] >= n BY <1>6 DEF Height
<1>8. QED BY <1>7

(* Every level of a sum tree adds up to the same, and so does its root. *)
LEMMA LevelSums ==
  ASSUME NEW h \in Nat, NEW levels,
         \A i \in 0 .. (Pow2[h] - 1) : levels[0][i].sum \in Nat,
         \A l \in 0 .. h : l # 0 =>
           levels[l] = [i \in 0 .. (Pow2[h - l] - 1) |->
                          HashNode(levels[l - 1][2 * i], levels[l - 1][2 * i + 1])]
  PROVE  \A l \in 0 .. h :
           /\ \A i \in 0 .. (Pow2[h - l] - 1) : levels[l][i].sum \in Nat
           /\ SumFunctionOnSet([i \in 0 .. (Pow2[h - l] - 1) |-> levels[l][i].sum],
                               0 .. (Pow2[h - l] - 1))
                = SumFunctionOnSet([i \in 0 .. (Pow2[h] - 1) |-> levels[0][i].sum],
                                   0 .. (Pow2[h] - 1))
<1> DEFINE Places(l) == 0 .. (Pow2[h - l] - 1)
           sums(l) == [i \in Places(l) |-> levels[l][i].sum]
           total == SumFunctionOnSet([i \in 0 .. (Pow2[h] - 1) |-> levels[0][i].sum],
                                     0 .. (Pow2[h] - 1))
           G == {l \in Nat : l <= h =>
                   /\ \A i \in Places(l) : levels[l][i].sum \in Nat
                   /\ SumFunctionOnSet(sums(l), Places(l)) = total}
<1>2. 0 \in G
  <2>1. h - 0 = h OBVIOUS
  <2>2. QED BY <2>1
<1>3. ASSUME NEW l \in Nat, l \in G PROVE l + 1 \in G
  <2>1. SUFFICES ASSUME l + 1 <= h
                 PROVE  /\ \A i \in Places(l + 1) : levels[l + 1][i].sum \in Nat
                        /\ SumFunctionOnSet(sums(l + 1), Places(l + 1)) = total
    OBVIOUS
  <2>2. PICK j \in Nat : j = h - (l + 1) BY <2>1
  <2>3. h - l = j + 1 BY <2>2
  <2>4. PICK m \in Nat : m = Pow2[j] /\ Pow2[j + 1] = 2 * m BY Pow2Is
  <2>5. Places(l + 1) = 0 .. (m - 1) /\ Places(l) = 0 .. (2 * m - 1) BY <2>2, <2>3, <2>4
  <2>6. l + 1 \in 0 .. h /\ l + 1 # 0 /\ (l + 1) - 1 = l /\ l <= h BY <2>1
  <2>7. levels[l + 1] = [i \in 0 .. (m - 1) |-> HashNode(levels[l][2 * i], levels[l][2 * i + 1])]
    BY <2>2, <2>4, <2>6
  <2>8. \A i \in 0 .. (m - 1) :
          levels[l + 1][i].sum = levels[l][2 * i].sum + levels[l][2 * i + 1].sum
    BY <2>7 DEF HashNode
  <2>9. /\ \A i \in 0 .. (2 * m - 1) : levels[l][i].sum \in Nat
        /\ SumFunctionOnSet(sums(l), 0 .. (2 * m - 1)) = total
    BY <1>3, <2>5, <2>6
  <2>10. \A i \in 0 .. (m - 1) : 2 * i \in 0 .. (2 * m - 1) /\ 2 * i + 1 \in 0 .. (2 * m - 1)
    OBVIOUS
  <2>11. \A i \in 0 .. (m - 1) : levels[l + 1][i].sum \in Nat
    <3>1. TAKE i \in 0 .. (m - 1)
    <3>2. PICK a, b : a = 2 * i /\ b = 2 * i + 1 OBVIOUS
    <3>3. levels[l][a].sum \in Nat /\ levels[l][b].sum \in Nat BY <2>9, <2>10, <3>2
    <3>4. PICK x \in Nat, y \in Nat : x = levels[l][a].sum /\ y = levels[l][b].sum
      BY <3>3
    <3>5. levels[l + 1][i].sum = x + y BY <2>8, <3>2, <3>4
    <3>6. QED BY <3>5
  <2>12. PICK f : f = sums(l) OBVIOUS
  <2>13. PICK g : g = sums(l + 1) OBVIOUS
  <2>14. \A i \in 0 .. (2 * m - 1) : f[i] \in Nat /\ f[i] = levels[l][i].sum
    BY <2>5, <2>9, <2>12
  <2>15. \A i \in 0 .. (m - 1) : g[i] = f[2 * i] + f[2 * i + 1]
    BY <2>5, <2>8, <2>10, <2>13, <2>14
  <2>16. SumFunctionOnSet(g, 0 .. (m - 1)) = SumFunctionOnSet(f, 0 .. (2 * m - 1))
    BY <2>14, <2>15, SumOfPairs
  <2> HIDE DEF sums, total
  <2>17. QED BY <2>5, <2>9, <2>11, <2>12, <2>13, <2>16
<1>4. Nat \subseteq G
  <2> HIDE DEF G
  <2>1. QED BY <1>2, <1>3, InductionOnNat
<1>5. \A l \in 0 .. h : /\ \A i \in Places(l) : levels[l][i].sum \in Nat
                       /\ SumFunctionOnSet(sums(l), Places(l)) = total
  <2>1. \A l \in 0 .. h : l \in Nat /\ l <= h OBVIOUS
  <2> HIDE DEF sums, total, Places
  <2>2. QED BY <1>4, <2>1
<1>6. QED BY <1>5

-----------------------------------------------------------------------------
(* Places and the leaves at them, of a run and of the whole.              *)

\* the tree, and what it is from a place on
Places == 0 .. (Slots - 1)
Trees == [Places -> LeafType]
EmptyFrom(tr, n) == \A x \in Places : x >= n => tr[x] = EmptyLeaf
Dense(accs) == \A i \in DOMAIN accs : accs[i].index = i - 1

(* The tree nobody has written to. *)
LEMMA EmptyTreeIs == EmptyTree \in Trees /\ \A x \in Places : EmptyTree[x] = EmptyLeaf
BY DEF EmptyTree, EmptyLeaf, Trees, Places, LeafType, NoTier

(* What the last tier leaves is what is set. *)
LEMMA LaidOutLast ==
  ASSUME NEW accs \in Seq(Real)
  PROVE  /\ Padded(accs) \in Seq(PlacedLeaf) /\ EndOf(accs) \in Nat
         /\ Covered(Padded(accs), Len(accs), EndOf(accs), accs, TieredBelow(accs, LastTier))
<1>1. LastTier \in 0 .. LastTier BY LastTierIs
<1>2. LaidOut(accs)[LastTier] \in Layout BY <1>1, LaidOutIs
<1>3. Padded(accs) \in Seq(PlacedLeaf) /\ EndOf(accs) \in Nat
  BY <1>2 DEF Layout, Padded, EndOf
<1>4. QED BY <1>3, AllFilled DEF Fills, Padded, EndOf

(* Dense accounts and their padding come to the leaves from 0 to EndOf, and *)
(* an account has its leaf for itself.                                     *)
LEMMA PaddedIs ==
  ASSUME NEW accs \in Seq(Real), Dense(accs)
  PROVE  /\ \A k \in 1 .. Len(Padded(accs)) :
              Padded(accs)[k].account.index \in 0 .. (EndOf(accs) - 1)
         /\ \A i \in 1 .. Len(accs), k \in 1 .. Len(Padded(accs)) :
              Padded(accs)[k].account.index = i - 1 => Padded(accs)[k].account = accs[i]
         /\ Len(accs) <= EndOf(accs)
         /\ AllTiered(accs) =>
              \A x \in 0 .. (EndOf(accs) - 1) :
                \E k \in 1 .. Len(Padded(accs)) : Padded(accs)[k].account.index = x
<1>1. PICK lv \in Seq(PlacedLeaf) : lv = Padded(accs) BY LaidOutLast
<1>2. PICK e \in Nat : e = EndOf(accs) BY LaidOutLast
<1>3. PICK n \in Nat : n = Len(accs) OBVIOUS
<1>4. PICK P : P = TieredBelow(accs, LastTier) OBVIOUS
<1>5. /\ n <= e
      /\ \A k \in 1 .. Len(lv) : \/ \E j \in n .. (e - 1) : lv[k].account = Padding(j)
                                 \/ \E i \in P : lv[k].account = accs[i]
      /\ \A i \in P : \E k \in 1 .. Len(lv) : lv[k].account = accs[i]
      /\ \A j \in n .. (e - 1) : \E k \in 1 .. Len(lv) : lv[k].account = Padding(j)
  <2>1. Covered(lv, n, e, accs, P) BY <1>1, <1>2, <1>3, <1>4, LaidOutLast
  <2>2. QED BY <2>1 DEF Covered
<1>6. DOMAIN accs = 1 .. n BY <1>3
<1>7. P \subseteq 1 .. n BY <1>4, <1>6 DEF TieredBelow
<1>8. \A i \in 1 .. n : accs[i].index = i - 1 BY <1>6 DEF Dense
<1>9. \A j : Padding(j).index = j BY DEF Padding
<1>10. ASSUME NEW k \in 1 .. Len(lv)
       PROVE  /\ lv[k].account.index \in 0 .. (e - 1)
              /\ \A i \in 1 .. n : lv[k].account.index = i - 1 => lv[k].account = accs[i]
  <2>1. CASE \E j \in n .. (e - 1) : lv[k].account = Padding(j)
    <3>1. PICK j \in n .. (e - 1) : lv[k].account = Padding(j) BY <2>1
    <3>2. lv[k].account.index = j BY <1>9, <3>1
    <3>3. \A i \in 1 .. n : j # i - 1 OBVIOUS
    <3>4. j \in 0 .. (e - 1) OBVIOUS
    <3>5. QED BY <3>2, <3>3, <3>4
  <2>2. CASE \E i \in P : lv[k].account = accs[i]
    <3>1. PICK i \in 1 .. n : lv[k].account = accs[i] BY <1>7, <2>2
    <3>2. lv[k].account.index = i - 1 BY <1>8, <3>1
    <3>3. \A h \in 1 .. n : i - 1 = h - 1 => h = i OBVIOUS
    <3>4. i - 1 \in 0 .. (e - 1) BY <1>5
    <3>5. QED BY <3>1, <3>2, <3>3, <3>4
  <2>3. QED BY <1>5, <2>1, <2>2
<1>11. ASSUME AllTiered(accs), NEW x \in 0 .. (e - 1)
       PROVE  \E k \in 1 .. Len(lv) : lv[k].account.index = x
  <2>1. CASE x < n
    <3>1. PICK i \in 1 .. n : i = x + 1 BY <2>1
    <3>2. i \in P BY <1>4, <1>6, <1>11, TieredAll DEF AllTiered
    <3>3. PICK k \in 1 .. Len(lv) : lv[k].account = accs[i] BY <1>5, <3>2
    <3>4. i - 1 = x BY <3>1
    <3>5. QED BY <1>8, <3>3, <3>4
  <2>2. CASE ~(x < n)
    <3>1. x \in n .. (e - 1) BY <2>2
    <3>2. PICK k \in 1 .. Len(lv) : lv[k].account = Padding(x) BY <1>5, <3>1
    <3>3. QED BY <1>9, <3>2
  <2>3. QED BY <2>1, <2>2
<1>12. QED BY <1>1, <1>2, <1>3, <1>5, <1>10, <1>11

(* A filled tree holds every account's leaf at its index. *)
LEMMA FilledLeaf ==
  ASSUME NEW accs \in Seq(Real), Dense(accs), AllTiered(accs), NEW tr \in Trees,
         NEW i \in 1 .. Len(accs), NEW x \in Places, x = i - 1
  PROVE  Filled(tr, Padded(accs))[x] = Leaf(accs[i], NoTier)
<1>1. PICK lv \in Seq(PlacedLeaf) : lv = Padded(accs) BY LaidOutLast
<1>2. PICK n \in Nat : n = Len(lv) OBVIOUS
<1>3. FilledUpto(tr, Filled(tr, lv), lv, n, x) BY <1>2, FilledIs DEF Trees
<1>4. \E k \in 1 .. n : lv[k].account.index = x
  <2>1. PICK e \in Nat, m \in Nat : e = EndOf(accs) /\ m = Len(accs) BY LaidOutLast
  <2>2. m <= e BY <2>1, PaddedIs
  <2>3. x \in 0 .. (e - 1) BY <2>1, <2>2
  <2>4. QED BY <1>1, <1>2, <2>1, <2>3, PaddedIs
<1>5. PICK j \in 1 .. n : LastAt(lv, n, x, j) /\ Filled(tr, lv)[x] = LeafAt(lv, j)
  BY <1>3, <1>4 DEF FilledUpto
<1>6. lv[j].account = accs[i]
  <2>1. lv[j].account.index = x BY <1>5 DEF LastAt
  <2>2. QED BY <1>1, <1>2, <2>1, PaddedIs
<1>7. accs[i].id # PaddingId
  <2>1. accs[i] \in Real OBVIOUS
  <2>2. QED BY <2>1, SnapshotAssumption DEF Real, Accounts
<1>8. LeafAt(lv, j) = Leaf(accs[i], NoTier) BY <1>6, <1>7 DEF LeafAt, Leaf
<1>9. QED BY <1>1, <1>5, <1>8

(* What was in a tree before makes no difference, as long as there was     *)
(* nothing from where the accounts and their padding end.                  *)
LEMMA FilledAnew ==
  ASSUME NEW accs \in Seq(Real), Dense(accs), AllTiered(accs), NEW tr \in Trees,
         EmptyFrom(tr, EndOf(accs))
  PROVE  Filled(tr, Padded(accs)) = Filled(EmptyTree, Padded(accs))
<1>1. PICK lv \in Seq(PlacedLeaf) : lv = Padded(accs) BY LaidOutLast
<1>2. PICK n \in Nat : n = Len(lv) OBVIOUS
<1>3. PICK e \in Nat : e = EndOf(accs) BY LaidOutLast
<1>4. PICK f, g : f = Filled(tr, lv) /\ g = Filled(EmptyTree, lv) OBVIOUS
<1>5. /\ f \in Trees /\ g \in Trees
      /\ \A x \in Places : FilledUpto(tr, f, lv, n, x) /\ FilledUpto(EmptyTree, g, lv, n, x)
  BY <1>2, <1>4, EmptyTreeIs, FilledIs DEF Trees
<1>6. ASSUME NEW x \in Places PROVE f[x] = g[x]
  <2>1. FilledUpto(tr, f, lv, n, x) /\ FilledUpto(EmptyTree, g, lv, n, x) BY <1>5
  <2>2. CASE \A j \in 1 .. n : lv[j].account.index # x
    <3>1. f[x] = tr[x] /\ g[x] = EmptyTree[x] BY <2>1, <2>2 DEF FilledUpto, LastAt
    <3>2. x \notin 0 .. (e - 1) BY <1>1, <1>2, <1>3, <2>2, PaddedIs
    <3>3. x >= e
      <4>1. x \in Int /\ x >= 0 BY EvidenceAssumption DEF Places
      <4>2. QED BY <3>2, <4>1
    <3>4. tr[x] = EmptyLeaf BY <1>3, <3>3 DEF EmptyFrom
    <3>5. QED BY <3>1, <3>4, EmptyTreeIs
  <2>3. CASE \E j \in 1 .. n : lv[j].account.index = x
    <3>1. PICK j \in 1 .. n : LastAt(lv, n, x, j) /\ f[x] = LeafAt(lv, j)
      BY <2>1, <2>3 DEF FilledUpto
    <3>2. PICK k \in 1 .. n : LastAt(lv, n, x, k) /\ g[x] = LeafAt(lv, k)
      BY <2>1, <2>3 DEF FilledUpto
    <3>3. j <= k /\ k <= j BY <3>1, <3>2 DEF LastAt
    <3>4. j = k BY <3>3
    <3>5. QED BY <3>1, <3>2, <3>4
  <2>4. QED BY <2>2, <2>3
<1>7. f = g BY <1>5, <1>6 DEF Trees
<1>8. QED BY <1>1, <1>4, <1>7

(* Filling a tree with some of the leaves adds nothing where they end. *)
LEMMA FilledEnds ==
  ASSUME NEW lv \in Seq(PlacedLeaf), NEW e \in Nat, NEW tr \in Trees, EmptyFrom(tr, e),
         \A k \in 1 .. Len(lv) : lv[k].account.index \in 0 .. (e - 1)
  PROVE  Filled(tr, lv) \in Trees /\ EmptyFrom(Filled(tr, lv), e)
<1>1. PICK f : f = Filled(tr, lv) OBVIOUS
<1>2. PICK n \in Nat : n = Len(lv) OBVIOUS
<1>3. f \in Trees /\ \A x \in Places : FilledUpto(tr, f, lv, n, x)
  BY <1>1, <1>2, FilledIs DEF Trees
<1>4. ASSUME NEW x \in Places, x >= e PROVE f[x] = EmptyLeaf
  <2>1. \A j \in 1 .. n : lv[j].account.index # x
    <3>1. x \notin 0 .. (e - 1) BY <1>4
    <3>2. QED BY <1>2, <3>1
  <2>2. f[x] = tr[x] BY <1>3, <2>1 DEF FilledUpto, LastAt
  <2>3. QED BY <1>4, <2>2 DEF EmptyFrom
<1>5. EmptyFrom(f, e) BY <1>4 DEF EmptyFrom
<1>6. QED BY <1>1, <1>3, <1>5

-----------------------------------------------------------------------------
(* The inductive invariant.                                               *)

\* the accounts of a run are the first of the snapshot, and each has a tier
AccountsInv ==
  /\ accounts \in {SubSeq(snapshot, 1, m) : m \in 0 .. Len(snapshot)}
  /\ pc \in {"populate", "commit", "reconcile", "write", "done"} => AllTiered(accounts)
  /\ pc \in {"populate", "commit"} => service = "userproof"
  /\ pc = "reconcile" => service = "attest"
  /\ pc \in {"reconcile", "write", "done"} /\ service = "attest" => accounts # <<>>

\* no leaf was ever set behind the walk over the whole snapshot
TypeInv ==
  /\ snapshot \in Snapshots /\ service \in {"userproof", "attest"}
  /\ pc \in {"load", "stream", "populate", "commit", "reconcile", "write", "done", "failed"}
  /\ disk \in Trees
  /\ DenselyIndexed /\ AllTiered(snapshot) => EmptyFrom(disk, EndOf(snapshot))

\* the tree a user proof run has built
UserTree ==
  /\ tree \in Trees
  /\ DenselyIndexed =>
       /\ AllTiered(snapshot) => EmptyFrom(tree, EndOf(snapshot))
       /\ \A i \in 1 .. Len(accounts) :
            i - 1 \in Places /\ tree[i - 1] = Leaf(accounts[i], NoTier)
       /\ accounts = snapshot => tree = Filled(EmptyTree, Padded(snapshot))

\* the tree of an attestation
SumTree ==
  [i \in 0 .. (Pow2[TreeHeight] - 1) |->
     IF i < Len(Listed) THEN SumLeaf(Listed[i + 1]) ELSE PaddingSumLeaf]

\* which tree a run that has committed or reconciled holds
TreeInv ==
  /\ pc \in {"commit", "write", "done"} /\ service = "userproof" => UserTree
  /\ pc \in {"write", "done"} /\ service = "attest" => Sound(Listed) /\ tree = SumTree

\* the rows a run writes
OwnRows == {Row(p) : p \in 1 .. Len(Listed)}

\* what is in the table of this run, and what is still to be inserted
BatchInv ==
  /\ pc \in {"write", "done"} =>
       /\ next \in 1 .. (Len(Listed) + 1) /\ batch \in Seq(OwnRows) /\ Len(batch) < next
       /\ \A k \in 1 .. Len(batch) : batch[k] = Row((next - 1 - Len(batch)) + k)
       /\ \A p \in 1 .. (next - 1 - Len(batch)) : Row(p) \in table
  /\ pc = "done" => next = Len(Listed) + 1 /\ batch = <<>>
  /\ pc \notin {"write", "done", "failed"} => next = 1 /\ batch = <<>>

\* rows verify, nobody has two, and attestations share a root
TableInv ==
  /\ DenselyIndexed \/ service = "attest" => \A r \in table : Verifies(r)
  /\ \A r, s \in table : r.id = s.id => r = s
  /\ service = "attest" =>
       /\ \A r \in table : r.leaf.sum \in 0 .. MaxBalance
       /\ \A r, s \in table : r.root = s.root
       /\ table # {} => \E r \in table : r.index = 0

Inv == TypeInv /\ AccountsInv /\ TreeInv /\ BatchInv /\ TableInv

-----------------------------------------------------------------------------
(* What a run has of the snapshot. *)
LEMMA AccountsAre ==
  ASSUME TypeInv, AccountsInv
  PROVE  /\ snapshot \in Seq(Real) /\ accounts \in Seq(Real)
         /\ DenselyIndexed => Dense(snapshot) /\ Dense(accounts)
         /\ \E m \in 0 .. Len(snapshot) : accounts = SubSeq(snapshot, 1, m)
<1>1. snapshot \in Seq(Real) BY SnapshotAssumption DEF TypeInv, Real
<1>2. DenselyIndexed => Dense(snapshot) BY DEF Dense, DenselyIndexed, TypeInv
<1>3. PICK m \in 0 .. Len(snapshot) : accounts = SubSeq(snapshot, 1, m) BY DEF AccountsInv
<1>4. /\ accounts \in Seq(Real) /\ DOMAIN accounts = 1 .. m
      /\ \A i \in 1 .. m : i \in 1 .. Len(snapshot) /\ accounts[i] = snapshot[i]
  BY <1>1, <1>3, PrefixTiers
<1>5. DenselyIndexed => Dense(accounts) BY <1>1, <1>2, <1>4 DEF Dense
<1>6. QED BY <1>1, <1>2, <1>3, <1>4, <1>5

(* The walk of a run lists each of its accounts once. *)
LEMMA ListedIs ==
  ASSUME accounts \in Seq(Real), AllTiered(accounts)
  PROVE  /\ Listed \in Seq(Real) /\ Len(Listed) = Len(accounts)
         /\ Selection(Listed, accounts, 1 .. Len(accounts))
         /\ \A k \in 1 .. Len(Listed) : \E i \in 1 .. Len(accounts) : Listed[k] = accounts[i]
         /\ \A i \in 1 .. Len(accounts) : \E k \in 1 .. Len(Listed) : Listed[k] = accounts[i]
<1>1. PICK list \in Seq(Real) : list = Listed BY WrittenIs DEF Listed
<1>2. PICK n \in Nat : n = Len(accounts) OBVIOUS
<1>3. DOMAIN accounts = 1 .. n BY <1>2
<1>4. {i \in DOMAIN accounts : TierOf(accounts[i]) # {}} = 1 .. n BY <1>3 DEF AllTiered
<1>5. Selection(list, accounts, 1 .. n) BY <1>1, <1>4, WrittenIs DEF Listed
<1>6. Len(list) \in Nat OBVIOUS
<1>7. Cardinality(1 .. n) = Len(list) BY <1>5, <1>6, SelectionSize
<1>8. Cardinality(1 .. n) = IF 1 > n THEN 0 ELSE n - 1 + 1 BY FS_Interval
<1>9. Len(list) = n BY <1>7, <1>8
<1>10. /\ \A k \in 1 .. Len(list) : \E i \in 1 .. n : list[k] = accounts[i]
       /\ \A i \in 1 .. n : \E k \in 1 .. Len(list) : list[k] = accounts[i]
  <2>1. PICK P : P = 1 .. n OBVIOUS
  <2>2. PICK m : m = Len(list) OBVIOUS
  <2>3. PICK p \in [1 .. m -> P] :
          /\ \A i \in P : \E k \in 1 .. m : p[k] = i
          /\ \A k \in 1 .. m : list[k] = accounts[p[k]]
    BY <1>5, <2>1, <2>2 DEF Selection
  <2>4. ASSUME NEW k \in 1 .. m PROVE \E i \in P : list[k] = accounts[i]
    <3>1. PICK i \in P : i = p[k] OBVIOUS
    <3>2. QED BY <2>3, <3>1
  <2>5. ASSUME NEW i \in P PROVE \E k \in 1 .. m : list[k] = accounts[i]
    <3>1. PICK k \in 1 .. m : p[k] = i BY <2>3
    <3>2. QED BY <2>3, <3>1
  <2>6. QED BY <2>1, <2>2, <2>4, <2>5
<1>11. QED BY <1>1, <1>2, <1>5, <1>9, <1>10

(* The path in a row leads to the root of the tree the row is made from,   *)
(* when the tree holds the row's leaf at its index.                        *)
LEMMA RowWalks ==
  ASSUME NEW p, TreeHeight \in Nat, Row(p).index \in 0 .. (Pow2[TreeHeight] - 1),
         tree[Row(p).index] = Row(p).leaf
  PROVE  /\ Walk(Summed, Row(p).index, Row(p).leaf, Row(p).proof) = Row(p).root
         /\ Len(Row(p).proof) = TreeHeight
<1>1. PICK h \in Nat : h = TreeHeight OBVIOUS
<1>2. PICK x \in 0 .. (Pow2[h] - 1) : x = Row(p).index BY <1>1
<1>3. PICK s : s = Summed OBVIOUS
<1>4. PICK t : t = tree OBVIOUS
<1>5. Walk(s, x, t[x], Siblings(Levels(s, t, h), h, x)) = Levels(s, t, h)[h][0]
  BY PathVerifies
<1>6. Row(p).proof = Siblings(Levels(s, t, h), h, x) /\ Row(p).root = Levels(s, t, h)[h][0]
  BY <1>1, <1>2, <1>3, <1>4 DEF Row, TreeLevels, Root
<1>7. Len(Row(p).proof) = h BY <1>6 DEF Siblings
<1>8. QED BY <1>1, <1>2, <1>3, <1>4, <1>5, <1>6, <1>7

(* A row of a user proof run verifies. *)
LEMMA UserRowVerifies ==
  ASSUME DenselyIndexed, TypeInv, AccountsInv, TreeInv, pc \in {"write", "done"},
         service = "userproof", NEW p \in 1 .. Len(Listed)
  PROVE  Verifies(Row(p))
<1>1. /\ accounts \in Seq(Real) /\ AllTiered(accounts) /\ Dense(accounts) /\ UserTree
  BY AccountsAre DEF AccountsInv, TreeInv
<1>2. PICK i \in 1 .. Len(accounts) : Listed[p] = accounts[i] BY <1>1, ListedIs
<1>3. accounts[i].index = i - 1 BY <1>1 DEF Dense
<1>4. PICK x : x = i - 1 OBVIOUS
<1>5. x \in Places /\ tree[x] = Leaf(accounts[i], NoTier) BY <1>1, <1>4 DEF UserTree
<1>6. Row(p).index = x /\ Row(p).leaf = tree[x] BY <1>2, <1>3, <1>4, <1>5 DEF Row
<1>7. TreeHeight = Depth /\ Depth \in Nat /\ Places = 0 .. (Pow2[Depth] - 1)
  BY EvidenceAssumption DEF TreeHeight, Summed, Places
<1>8. /\ Walk(Summed, Row(p).index, Row(p).leaf, Row(p).proof) = Row(p).root
      /\ Len(Row(p).proof) = Depth
  BY <1>5, <1>6, <1>7, RowWalks
<1>9. QED BY <1>8 DEF Verifies

(* The tree of an attestation and its leaves. *)
LEMMA SumTreeIs ==
  ASSUME accounts \in Seq(Real), AllTiered(accounts), service = "attest",
         Sound(Listed), tree = SumTree
  PROVE  /\ TreeHeight \in Nat /\ Len(Listed) <= Pow2[TreeHeight]
         /\ Pow2[TreeHeight] \in Nat
         /\ \A i \in 0 .. (Pow2[TreeHeight] - 1) :
              /\ i < Len(Listed) => /\ i + 1 \in 1 .. Len(Listed)
                                    /\ tree[i] = SumLeaf(Listed[i + 1])
                                    /\ tree[i].sum = Worth(Listed[i + 1])
              /\ ~(i < Len(Listed)) => tree[i].sum = 0
              /\ tree[i].sum \in Nat
<1>1. PICK list \in Seq(Real) : list = Listed BY ListedIs
<1>2. PICK n \in Nat : n = Len(list) /\ n = Len(accounts) BY <1>1, ListedIs
<1>3. PICK h \in Nat : h = TreeHeight /\ Pow2[h] >= n
  BY <1>2, HeightIs DEF TreeHeight, Summed
<1>4. PICK w \in Nat : w = Pow2[h] BY Pow2Is
<1>5. \A k \in 1 .. n : Worth(list[k]) \in Nat
  <2>1. DOMAIN list = 1 .. n
    <3>1. DOMAIN list = 1 .. Len(list) OBVIOUS
    <3>2. QED BY <1>2, <3>1
  <2>2. Sound(list) BY <1>1
  <2>3. QED BY <2>1, <2>2, EvidenceAssumption DEF Sound
<1>6. tree = [i \in 0 .. (w - 1) |-> IF i < n THEN SumLeaf(list[i + 1]) ELSE PaddingSumLeaf]
  BY <1>1, <1>2, <1>3, <1>4 DEF SumTree
<1>7. \A a : SumLeaf(a).sum = Worth(a) BY DEF SumLeaf
<1>8. PaddingSumLeaf.sum = 0 BY DEF PaddingSumLeaf
<1>9. \A i \in 0 .. (w - 1) : i < n => i + 1 \in 1 .. n OBVIOUS
<1>10. \A i \in 0 .. (w - 1) :
         /\ i < n => /\ i + 1 \in 1 .. n /\ tree[i] = SumLeaf(list[i + 1])
                     /\ tree[i].sum = Worth(list[i + 1])
         /\ ~(i < n) => tree[i].sum = 0
         /\ tree[i].sum \in Nat
  <2>1. TAKE i \in 0 .. (w - 1)
  <2>2. CASE i < n
    <3>1. PICK k \in 1 .. n : k = i + 1 BY <2>2
    <3>2. tree[i] = SumLeaf(list[k]) BY <1>6, <2>2, <3>1
    <3>3. Worth(list[k]) \in Nat BY <1>5
    <3>4. QED BY <1>7, <2>2, <3>1, <3>2, <3>3
  <2>3. CASE ~(i < n)
    <3>1. tree[i] = PaddingSumLeaf BY <1>6, <2>3
    <3>2. QED BY <1>8, <2>3, <3>1
  <2>4. QED BY <2>2, <2>3
<1>11. QED BY <1>1, <1>2, <1>3, <1>4, <1>10

-----------------------------------------------------------------------------
(* What was attested when rows are written.                               *)

\* the state of a run that writes attestations
Attested ==
  /\ accounts \in Seq(Real) /\ AllTiered(accounts) /\ service = "attest"
  /\ Sound(Listed) /\ tree = SumTree

\* every level up to the root sums to what the leaves do
SumsUpto(levels, h) ==
  \A l \in 0 .. h :
    /\ \A i \in 0 .. (Pow2[h - l] - 1) : levels[l][i].sum \in Nat
    /\ SumFunctionOnSet([i \in 0 .. (Pow2[h - l] - 1) |-> levels[l][i].sum],
                        0 .. (Pow2[h - l] - 1))
         = SumFunctionOnSet([i \in 0 .. (Pow2[h] - 1) |-> levels[0][i].sum],
                            0 .. (Pow2[h] - 1))

(* By LevelSums, level by level. *)
LEMMA TreeSums ==
  ASSUME Attested
  PROVE  TreeLevels[0] = tree /\ SumsUpto(TreeLevels, TreeHeight)
<1>1. PICK h \in Nat : h = TreeHeight BY SumTreeIs DEF Attested
<1>2. PICK s : s = Summed OBVIOUS
<1>3. s BY <1>2 DEF Attested, Summed
<1>4. PICK t : t = tree OBVIOUS
<1>5. PICK levels : levels = Levels(s, t, h) OBVIOUS
<1>6. /\ levels[0] = t
      /\ \A l \in 0 .. h : l # 0 => levels[l] = LevelOf(s, h, l, levels[l - 1])
  BY <1>5, LevelsAre
<1>7. \A l \in 0 .. h : l # 0 =>
        levels[l] = [i \in 0 .. (Pow2[h - l] - 1) |->
                       HashNode(levels[l - 1][2 * i], levels[l - 1][2 * i + 1])]
  BY <1>3, <1>6 DEF LevelOf, Parent
<1>8. \A i \in 0 .. (Pow2[h] - 1) : levels[0][i].sum \in Nat
  BY <1>1, <1>4, <1>6, SumTreeIs DEF Attested
<1>9. SumsUpto(levels, h) BY <1>7, <1>8, LevelSums DEF SumsUpto
<1>10. levels = TreeLevels BY <1>1, <1>2, <1>4, <1>5 DEF TreeLevels
<1>11. QED BY <1>1, <1>4, <1>6, <1>9, <1>10

(* The sum in the root is what is owed to all accounts. *)
LEMMA RootSum == ASSUME Attested PROVE Root.sum = TotalWorth(accounts)
                                       /\ TotalWorth(Listed) = TotalWorth(accounts)
<1>1. PICK list \in Seq(Real) : list = Listed BY ListedIs DEF Attested
<1>2. PICK n \in Nat : n = Len(list) /\ n = Len(accounts) BY <1>1, ListedIs DEF Attested
<1>3. PICK h \in Nat : h = TreeHeight BY SumTreeIs DEF Attested
<1>4. PICK w \in Nat : w = Pow2[h] /\ n <= w BY <1>1, <1>2, <1>3, SumTreeIs DEF Attested
<1>5. PICK levels : levels = TreeLevels OBVIOUS
<1>6. PICK S : S = 0 .. (w - 1) OBVIOUS
<1>7. PICK T : T = 0 .. (n - 1) OBVIOUS
<1>8. IsFiniteSet(S) /\ IsFiniteSet(T) /\ T \in SUBSET S
  <2>1. w - 1 \in Int /\ n - 1 \in Int /\ 0 \in Int OBVIOUS
  <2>2. IsFiniteSet(0 .. (w - 1)) /\ IsFiniteSet(0 .. (n - 1)) BY <2>1, FS_Interval
  <2>3. QED BY <1>4, <1>6, <1>7, <2>2
<1>9. PICK g : g = [i \in S |-> levels[0][i].sum] OBVIOUS
<1>10. PICK f : f = [k \in 1 .. n |-> Worth(list[k])] OBVIOUS
<1>11. PICK e : e = [k \in 1 .. n |-> Worth(accounts[k])] OBVIOUS
<1>12. \A i \in S : /\ i < n => i + 1 \in 1 .. n /\ g[i] = f[i + 1]
                    /\ ~(i < n) => g[i] = 0
                    /\ g[i] \in Nat
  <2>1. \A i \in S : g[i] = tree[i].sum BY <1>5, <1>9, TreeSums
  <2>2. \A i \in S : /\ i < n => i + 1 \in 1 .. n /\ tree[i].sum = Worth(list[i + 1])
                     /\ ~(i < n) => tree[i].sum = 0
                     /\ tree[i].sum \in Nat
    BY <1>1, <1>2, <1>3, <1>4, <1>6, SumTreeIs DEF Attested
  <2>3. \A k \in 1 .. n : f[k] = Worth(list[k]) BY <1>10
  <2>4. QED BY <2>1, <2>2, <2>3
(* the root holds what the leaves do *)
<1>13. Root.sum = SumFunctionOnSet(g, S)
  <2>1. h \in 0 .. h /\ h - h = 0 /\ Pow2[0] = 1 BY Pow2Is
  <2>2. SumsUpto(levels, h) BY <1>3, <1>5, TreeSums
  <2>3. PICK a : a = [i \in 0 .. (Pow2[h - h] - 1) |-> levels[h][i].sum] OBVIOUS
  <2>4. /\ \A i \in 0 .. (Pow2[h - h] - 1) : levels[h][i].sum \in Nat
        /\ SumFunctionOnSet(a, 0 .. (Pow2[h - h] - 1)) = SumFunctionOnSet(g, S)
    BY <1>4, <1>6, <1>9, <2>1, <2>2, <2>3 DEF SumsUpto
  <2>5. 0 .. (Pow2[h - h] - 1) = {0} BY <2>1
  <2>6. a[0] = levels[h][0].sum /\ a[0] \in Nat BY <2>3, <2>4, <2>5
  <2>7. SumFunctionOnSet(a, {0}) = a[0] BY <2>6, SumSingle
  <2>8. Root.sum = a[0] BY <1>3, <1>5, <2>6 DEF Root
  <2>9. QED BY <2>4, <2>5, <2>7, <2>8
(* the leaves behind the accounts hold nothing *)
<1>14. SumFunctionOnSet(g, S) = SumFunctionOnSet(g, T)
  <2>1. \A x \in S : x \notin T => ~(x < n) BY <1>6, <1>7
  <2>2. QED BY <1>8, <1>12, <2>1, SumZeros
(* the others hold what is owed to each in writing order *)
<1>15. SumFunctionOnSet(g, T) = SumFunctionOnSet(f, 1 .. n)
  <2> DEFINE p == [i \in T |-> i + 1]
  <2>1. \A i \in T : i \in S /\ i < n /\ i \in Nat /\ i + 1 \in 1 .. n /\ p[i] = i + 1
    BY <1>4, <1>6, <1>7
  <2>2. PICK U : U = 1 .. n OBVIOUS
  <2>3. p \in [T -> U] BY <2>1, <2>2
  <2>4. \A z \in U : \E i \in T : p[i] = z
    <3>1. TAKE z \in U
    <3>2. PICK i \in T : z = i + 1 BY <1>7, <2>2
    <3>3. QED BY <2>1, <3>2
  <2> HIDE DEF p
  <2>5. \A x, y \in T : p[x] = p[y] => x = y BY <2>1
  <2>6. \A x \in T : g[x] \in Nat /\ f[p[x]] = g[x] BY <1>12, <2>1
  <2>7. SumFunctionOnSet(g, T) = SumFunctionOnSet(f, U)
    BY <1>8, <2>3, <2>4, <2>5, <2>6, SumRenamed
  <2>8. QED BY <2>2, <2>7
(* and so in the order of the stream *)
<1>16. PICK U : U = 1 .. n OBVIOUS
<1>17. SumFunctionOnSet(f, U) = SumFunctionOnSet(e, U)
  <2>1. Selection(list, accounts, U) BY <1>1, <1>2, <1>16, ListedIs DEF Attested
  <2>2. PICK p \in [U -> U] :
          /\ \A j, k \in U : p[j] = p[k] => j = k
          /\ \A i \in U : \E k \in U : p[k] = i
          /\ \A k \in U : list[k] = accounts[p[k]]
    <3>1. PICK D : D = 1 .. Len(list) OBVIOUS
    <3>2. PICK p \in [D -> U] :
            /\ \A j, k \in D : p[j] = p[k] => j = k
            /\ \A i \in U : \E k \in D : p[k] = i
            /\ \A k \in D : list[k] = accounts[p[k]]
      BY <2>1, <3>1 DEF Selection
    <3>3. D = U BY <1>2, <1>16, <3>1
    <3>4. QED BY <3>2, <3>3
  <2>3. IsFiniteSet(U)
    <3>1. 1 \in Int /\ n \in Int OBVIOUS
    <3>2. IsFiniteSet(1 .. n) BY <3>1, FS_Interval
    <3>3. QED BY <1>16, <3>2
  <2>4. \A k \in U : f[k] \in Nat /\ e[p[k]] = f[k]
    <3>1. TAKE k \in U
    <3>2. PICK i \in U : i = p[k] OBVIOUS
    <3>3. f[k] = Worth(list[k]) /\ e[i] = Worth(accounts[i]) BY <1>10, <1>11, <1>16
    <3>4. list[k] = accounts[i] BY <2>2, <3>2
    <3>5. f[k] \in Nat
      <4>1. PICK i0 \in S : i0 = k - 1 /\ i0 < n /\ i0 + 1 = k BY <1>4, <1>6, <1>16
      <4>2. QED BY <1>12, <4>1
    <3>6. QED BY <3>2, <3>3, <3>4, <3>5
  <2>5. QED BY <2>2, <2>3, <2>4, SumRenamed
<1>18. TotalWorth(list) = SumFunctionOnSet(f, U) /\ TotalWorth(accounts) = SumFunctionOnSet(e, U)
  <2>1. DOMAIN list = U /\ DOMAIN accounts = U
    <3>1. DOMAIN list = 1 .. Len(list) /\ DOMAIN accounts = 1 .. Len(accounts)
      BY DEF Attested
    <3>2. QED BY <1>2, <1>16, <3>1
  <2>2. DOMAIN f = U /\ DOMAIN e = U BY <1>10, <1>11, <1>16
  <2>3. f = [i \in DOMAIN list |-> Worth(list[i])]
        /\ e = [i \in DOMAIN accounts |-> Worth(accounts[i])]
    BY <1>10, <1>11, <1>16, <2>1
  <2>4. QED BY <2>2, <2>3 DEF TotalWorth, SumFunction
<1>19. QED BY <1>1, <1>13, <1>14, <1>15, <1>16, <1>17, <1>18

(* A row of an attestation verifies, and its sum is in bounds. *)
LEMMA SumRowIs ==
  ASSUME Attested, NEW p \in 1 .. Len(Listed)
  PROVE  /\ Verifies(Row(p)) /\ Row(p).leaf.sum \in 0 .. MaxBalance
         /\ Row(p).index = p - 1
<1>1. PICK list \in Seq(Real) : list = Listed BY ListedIs DEF Attested
<1>2. PICK n \in Nat : n = Len(list) BY <1>1
<1>3. PICK h \in Nat : h = TreeHeight BY SumTreeIs DEF Attested
<1>4. PICK w \in Nat : w = Pow2[h] /\ n <= w BY <1>1, <1>2, <1>3, SumTreeIs DEF Attested
<1>5. PICK x \in 0 .. (w - 1) : x = p - 1 /\ x < n /\ x + 1 = p BY <1>1, <1>2, <1>4
<1>6. tree[x] = SumLeaf(list[p])
  <2>1. tree[x] = SumLeaf(list[x + 1])
    BY <1>1, <1>2, <1>3, <1>4, <1>5, SumTreeIs DEF Attested
  <2>2. QED BY <1>5, <2>1
<1>7. Row(p).index = x /\ Row(p).leaf = SumLeaf(list[p])
  BY <1>1, <1>5 DEF Row, Attested
<1>8. /\ Walk(Summed, Row(p).index, Row(p).leaf, Row(p).proof) = Row(p).root
      /\ Len(Row(p).proof) = h
  BY <1>3, <1>4, <1>6, <1>7, RowWalks
<1>9. Row(p).leaf.sum = Worth(list[p]) BY <1>7 DEF SumLeaf
<1>10. Worth(list[p]) \in 0 .. MaxBalance
  <2>1. p \in DOMAIN list
    <3>1. DOMAIN list = 1 .. Len(list) OBVIOUS
    <3>2. QED BY <1>1, <3>1
  <2>2. Sound(list) BY <1>1 DEF Attested
  <2>3. QED BY <2>1, <2>2 DEF Sound
<1>11. PICK proof : proof = Row(p).proof OBVIOUS
<1>12. PICK levels : levels = TreeLevels OBVIOUS
<1>13. proof = [l \in 1 .. h |-> levels[l - 1][Other(Above(x)[l - 1])]]
  BY <1>3, <1>7, <1>11, <1>12 DEF Row, Siblings
<1>14. ASSUME NEW l \in 1 .. h PROVE proof[l].sum \in Nat
  <2>1. PICK k \in 0 .. h : k = l - 1 OBVIOUS
  <2>2. PICK m \in Nat : m = h - l OBVIOUS
  <2>3. h - k = m + 1 BY <2>1, <2>2
  <2>4. PICK v \in Nat : v = Pow2[m] /\ Pow2[m + 1] = 2 * v BY Pow2Is
  <2>5. PICK a \in 0 .. (2 * v - 1) : a = Above(x)[k]
    BY <1>4, <2>1, <2>3, <2>4, AboveBound
  <2>6. PICK b \in 0 .. (2 * v - 1) : b = Other(a)
    <3>1. PICK c \in Nat : c = a \div 2 BY Halves
    <3>2. a \in Nat /\ a = 2 * c + (a % 2) /\ (a % 2) \in {0, 1} BY <3>1, Halves
    <3>3. CASE (a % 2) = 0
      <4>1. a = 2 * c /\ Other(a) = a + 1 BY <3>2, <3>3 DEF Other
      <4>2. a + 1 \in 0 .. (2 * v - 1) BY <3>2, <4>1
      <4>3. QED BY <4>1, <4>2
    <3>4. CASE (a % 2) = 1
      <4>1. a = 2 * c + 1 BY <3>2, <3>4
      <4>2. (a % 2) # 0 BY <3>4
      <4>3. Other(a) = a - 1 BY <4>2 DEF Other
      <4>4. a - 1 \in 0 .. (2 * v - 1) BY <3>2, <4>1
      <4>5. QED BY <4>3, <4>4
    <3>5. QED BY <3>2, <3>3, <3>4
  <2>7. proof[l] = levels[k][b] BY <1>13, <2>1, <2>5, <2>6
  <2>8. \A i \in 0 .. (Pow2[h - k] - 1) : levels[k][i].sum \in Nat
    BY <1>3, <1>12, TreeSums DEF SumsUpto
  <2>9. QED BY <2>3, <2>4, <2>6, <2>7, <2>8
<1>15. DOMAIN proof = 1 .. h BY <1>13
<1>16. service = "attest" BY DEF Attested
<1>17. \A y \in Nat : y >= 0 OBVIOUS
<1>18. Row(p).leaf.sum >= 0 BY <1>9, <1>10
<1>19. Verifies(Row(p)) BY <1>8, <1>11, <1>14, <1>15, <1>16, <1>17, <1>18 DEF Verifies
<1>20. QED BY <1>5, <1>7, <1>9, <1>10, <1>19

-----------------------------------------------------------------------------
(* Init, and the steps that write no row.                                 *)

(* The first k of a sequence. *)
LEMMA PrefixIs ==
  ASSUME NEW A, NEW s \in Seq(A), NEW k \in 0 .. Len(s)
  PROVE  /\ SubSeq(s, 1, k) \in Seq(A) /\ Len(SubSeq(s, 1, k)) = k
         /\ \A i \in 1 .. k : SubSeq(s, 1, k)[i] = s[i] /\ i \in 1 .. Len(s)
<1>1. k \in Nat /\ k <= Len(s) /\ Len(s) \in Nat OBVIOUS
<1>2. 1 \in 1 .. Len(s) + 1 /\ k \in 1 - 1 .. Len(s) BY <1>1
<1>3. QED BY <1>1, <1>2, SubSeqProperties

(* A service is started over an empty table and an unwritten tree. *)
LEMMA InitInv == ASSUME Init PROVE Inv
<1>1. /\ snapshot \in Snapshots /\ snapshot \in Seq(Real)
      /\ DenselyIndexed => Dense(snapshot)
  BY SnapshotAssumption DEF Init, Real, Dense, DenselyIndexed
<1>2. /\ disk \in Trees
      /\ DenselyIndexed /\ AllTiered(snapshot) => EmptyFrom(disk, EndOf(snapshot))
  <2>1. CASE disk = EmptyTree BY <2>1, EmptyTreeIs DEF EmptyFrom
  <2>2. CASE \E n \in 0 .. Len(snapshot) : disk \in Committed(SubSeq(snapshot, 1, n))
    <3>1. PICK n \in 0 .. Len(snapshot) : disk \in Committed(SubSeq(snapshot, 1, n)) BY <2>2
    <3>2. PICK q \in Seq(Real) : q = SubSeq(snapshot, 1, n) BY <1>1, PrefixTiers
    <3>3. DenselyIndexed => Dense(q) BY <1>1, <3>2, PrefixTiers DEF Dense
    <3>4. PICK lv \in Seq(PlacedLeaf) : lv = Padded(q) BY LaidOutLast
    <3>5. PICK k \in 0 .. Len(lv) : disk = Filled(EmptyTree, SubSeq(lv, 1, k))
      BY <3>1, <3>2, <3>4 DEF Committed
    <3>6. PICK part \in Seq(PlacedLeaf) :
            /\ part = SubSeq(lv, 1, k) /\ Len(part) = k
            /\ \A i \in 1 .. k : part[i] = lv[i] /\ i \in 1 .. Len(lv)
      <4> HIDE DEF PlacedLeaf
      <4>1. QED BY PrefixIs
    <3>7. disk = Filled(EmptyTree, part) BY <3>5, <3>6
    <3>8. disk \in Trees BY <3>7, EmptyTreeIs, FilledIs DEF Trees
    <3>9. ASSUME DenselyIndexed, AllTiered(snapshot) PROVE EmptyFrom(disk, EndOf(snapshot))
      <4>1. PICK d \in Nat, e \in Nat : d = EndOf(q) /\ e = EndOf(snapshot) /\ d <= e
        BY <1>1, <3>2, <3>9, PrefixEnds
      <4>2. \A i \in 1 .. Len(lv) : lv[i].account.index \in 0 .. (d - 1)
        BY <3>3, <3>4, <3>9, <4>1, PaddedIs
      <4>3. \A i \in 1 .. Len(part) : part[i].account.index \in 0 .. (e - 1)
        BY <3>6, <4>1, <4>2
      <4>4. EmptyFrom(EmptyTree, e) BY EmptyTreeIs DEF EmptyFrom
      <4>5. EmptyFrom(Filled(EmptyTree, part), e)
        BY <4>3, <4>4, EmptyTreeIs, FilledEnds
      <4>6. QED BY <3>7, <4>1, <4>5
    <3>10. QED BY <3>8, <3>9
  <2>3. QED BY <2>1, <2>2 DEF Init
<1>3. TypeInv BY <1>1, <1>2 DEF Init, TypeInv
<1>4. AccountsInv
  <2>1. PICK n \in Nat : n = Len(snapshot) BY <1>1
  <2>2. 0 \in 0 .. n BY <2>1
  <2>3. SubSeq(snapshot, 1, 0) = <<>> /\ accounts = <<>> BY DEF Init
  <2>4. QED BY <2>1, <2>2, <2>3 DEF Init, AccountsInv
<1>5. TreeInv BY DEF Init, TreeInv
<1>6. BatchInv BY DEF Init, BatchInv
<1>7. TableInv BY DEF Init, TableInv
<1>8. QED BY <1>3, <1>4, <1>5, <1>6, <1>7 DEF Inv

(* What a step that leaves accounts and tree alone does not change. *)
LEMMA Kept ==
  ASSUME UNCHANGED <<given, accounts, tree>>
  PROVE  /\ \A p : Row(p)' = Row(p)
         /\ Listed' = Listed /\ SumTree' = SumTree /\ Root' = Root
         /\ OwnRows' = OwnRows
         /\ (Sound(Listed)' <=> Sound(Listed))
         /\ (UserTree' <=> UserTree)
<1>1. UNCHANGED <<snapshot, service, claimed, persistent>> BY DEF given
<1>2. Listed' = Listed BY DEF Listed
<1>3. TreeHeight' = TreeHeight BY <1>1 DEF TreeHeight, Summed
<1>4. TreeLevels' = TreeLevels
  <2>1. Summed' = Summed BY <1>1 DEF Summed
  <2>2. QED BY <1>3, <2>1 DEF TreeLevels
<1>5. Root' = Root BY <1>3, <1>4 DEF Root
<1>6. \A p : Row(p)' = Row(p) BY <1>1, <1>2, <1>3, <1>4, <1>5 DEF Row
<1>7. SumTree' = SumTree BY <1>2, <1>3 DEF SumTree
<1>8. OwnRows' = OwnRows BY <1>2, <1>6 DEF OwnRows
<1>9. Sound(Listed)' <=> Sound(Listed) BY <1>1, <1>2 DEF Sound
<1>10. UserTree' <=> UserTree BY <1>1 DEF UserTree
<1>11. QED BY <1>2, <1>5, <1>6, <1>7, <1>8, <1>9, <1>10

(* Snapshot and service stay. *)
LEMMA GivenKept == [Next]_vars => UNCHANGED given
BY DEF Next, vars, Load, Stream, Populate, CommitTree, Reconcile, AddRow, Flush, Interrupt,
       Cancel, Rerun

(* One lemma for each part of the invariant. *)
LEMMA TypeStep == ASSUME Inv, [Next]_vars PROVE TypeInv'
<1>1. UNCHANGED <<snapshot, service>> BY GivenKept DEF given
<1>2. pc' \in {"load", "stream", "populate", "commit", "reconcile", "write", "done", "failed"}
  <2>1. pc \in {"load", "stream", "populate", "commit", "reconcile", "write", "done", "failed"}
    BY DEF Inv, TypeInv
  <2>2. CASE Next
    BY <2>1, <2>2 DEF Next, Load, Stream, Populate, CommitTree, Reconcile, AddRow, Flush,
                      Interrupt, Cancel, Rerun
  <2>3. CASE UNCHANGED vars BY <2>1, <2>3 DEF vars
  <2>4. QED BY <2>2, <2>3
<1>3. disk' = disk \/ (disk' = tree /\ pc = "commit")
  BY DEF Next, vars, Load, Stream, Populate, CommitTree, Reconcile, AddRow, Flush, Interrupt,
         Cancel, Rerun
<1>4. CASE disk' = disk BY <1>1, <1>2, <1>4 DEF Inv, TypeInv
<1>5. CASE disk' = tree /\ pc = "commit"
  <2>1. UserTree BY <1>5 DEF Inv, AccountsInv, TreeInv
  <2>2. QED BY <1>1, <1>2, <1>5, <2>1 DEF UserTree, Inv, TypeInv
<1>6. QED BY <1>3, <1>4, <1>5

LEMMA AccountsStep == ASSUME Inv, [Next]_vars PROVE AccountsInv'
<1>1. UNCHANGED <<snapshot, service>> BY GivenKept DEF given
<1>2. snapshot \in Seq(Real) BY AccountsAre DEF Inv
<1>3. SUFFICES ASSUME Next PROVE AccountsInv'
  <2>1. CASE UNCHANGED vars BY <2>1 DEF vars, given, Inv, AccountsInv
  <2>2. QED BY <2>1, <1>3
<1>4. CASE Stream
  <2>1. accounts' \in {SubSeq(snapshot', 1, m) : m \in 0 .. Len(snapshot')}
    BY <1>1, <1>4 DEF Stream
  <2>2. pc' \in {"failed", "populate", "reconcile"} BY <1>4 DEF Stream
  <2>3. pc' # "failed" => AllTiered(accounts') BY <1>4 DEF Stream, AllTiered
  <2>4. /\ pc' = "populate" => service = "userproof"
        /\ pc' = "reconcile" => service = "attest" /\ accounts' # <<>>
    BY <1>4 DEF Stream, Inv, TypeInv
  <2>5. QED BY <1>1, <2>1, <2>2, <2>3, <2>4 DEF AccountsInv
<1>5. CASE Rerun
  <2>1. PICK n \in Nat : n = Len(snapshot) BY <1>2
  <2>2. 0 \in 0 .. n BY <2>1
  <2>3. SubSeq(snapshot, 1, 0) = <<>> /\ accounts' = <<>> /\ pc' = "load" BY <1>5 DEF Rerun
  <2>4. QED BY <1>1, <2>1, <2>2, <2>3 DEF AccountsInv
<1>6. CASE Load \/ Populate \/ CommitTree \/ Reconcile \/ AddRow \/ Flush \/ Interrupt \/ Cancel
  <2>1. accounts' = accounts
    BY <1>6 DEF Load, Populate, CommitTree, Reconcile, AddRow, Flush, Interrupt, Cancel
  <2>2. \/ pc' = pc \/ pc' \in {"failed", "stream"}
        \/ pc = "populate" /\ pc' = "commit"
        \/ pc \in {"commit", "reconcile"} /\ pc' = "write"
        \/ pc = "write" /\ pc' = "done"
    BY <1>6 DEF Load, Populate, CommitTree, Reconcile, AddRow, Flush, Interrupt, Cancel
  <2>3. service = "userproof" => service # "attest" OBVIOUS
  <2>4. AccountsInv BY DEF Inv
  <2>5. QED BY <1>1, <2>1, <2>2, <2>3, <2>4 DEF AccountsInv
<1>7. QED BY <1>3, <1>4, <1>5, <1>6 DEF Next

(* Populate and Reconcile build the tree; nothing else changes it. *)
LEMMA TreeStep == ASSUME Inv, [Next]_vars PROVE TreeInv'
<1>1. UNCHANGED <<snapshot, service, claimed, given>> BY GivenKept DEF given
<1>2. CASE Populate
  <2>1. service = "userproof" /\ AllTiered(accounts) BY <1>2 DEF Populate, Inv, AccountsInv
  <2>2. /\ snapshot \in Seq(Real) /\ accounts \in Seq(Real)
        /\ DenselyIndexed => Dense(snapshot) /\ Dense(accounts)
    BY AccountsAre DEF Inv
  <2>3. PICK m \in 0 .. Len(snapshot) : accounts = SubSeq(snapshot, 1, m)
    BY AccountsAre DEF Inv
  <2>4. UNCHANGED <<accounts, snapshot, service>> BY <1>1, <1>2 DEF Populate
  <2>5. SUFFICES ASSUME pc' = "commit" PROVE UserTree'
    BY <1>2, <2>1, <2>4 DEF Populate, TreeInv
  <2>6. PICK base : base = IF persistent THEN disk ELSE EmptyTree OBVIOUS
  <2>7. /\ base \in Trees
        /\ DenselyIndexed /\ AllTiered(snapshot) => EmptyFrom(base, EndOf(snapshot))
    BY <2>6, EmptyTreeIs DEF EmptyFrom, Inv, TypeInv
  <2>8. PICK lv \in Seq(PlacedLeaf) : lv = Padded(accounts) BY <2>2, LaidOutLast
  <2>9. /\ tree' = Filled(base, lv)
        /\ \A i \in DOMAIN lv : ~(lv[i].account.index >= Slots)
    BY <1>2, <2>5, <2>6, <2>8 DEF Populate
  <2>10. tree' \in Trees BY <2>7, <2>9, FilledIs DEF Trees
  <2>11. ASSUME DenselyIndexed, AllTiered(snapshot) PROVE EmptyFrom(tree', EndOf(snapshot))
    <3>1. PICK d \in Nat, e \in Nat : d = EndOf(accounts) /\ e = EndOf(snapshot) /\ d <= e
      BY <2>2, <2>3, <2>11, PrefixEnds
    <3>2. \A k \in 1 .. Len(lv) : lv[k].account.index \in 0 .. (d - 1)
      BY <2>2, <2>8, <2>11, <3>1, PaddedIs
    <3>3. \A k \in 1 .. Len(lv) : lv[k].account.index \in 0 .. (e - 1) BY <3>1, <3>2
    <3>4. EmptyFrom(base, e) BY <2>7, <2>11, <3>1
    <3>5. EmptyFrom(Filled(base, lv), e) BY <2>7, <3>3, <3>4, FilledEnds
    <3>6. QED BY <2>9, <3>1, <3>5
  <2>12. ASSUME DenselyIndexed, NEW i \in 1 .. Len(accounts)
         PROVE  i - 1 \in Places /\ tree'[i - 1] = Leaf(accounts[i], NoTier)
    <3>1. PICK x \in Nat : x = i - 1 BY <2>2
    <3>2. PICK k \in 1 .. Len(lv) : lv[k].account.index = x
      <4>1. PICK n \in Nat, e \in Nat : n = Len(accounts) /\ e = EndOf(accounts) /\ n <= e
        BY <2>2, <2>12, LaidOutLast, PaddedIs
      <4>2. x \in 0 .. (e - 1) BY <3>1, <4>1
      <4>3. QED BY <2>1, <2>2, <2>8, <2>12, <4>1, <4>2, PaddedIs
    <3>3. x \in Places
      <4>1. DOMAIN lv = 1 .. Len(lv) OBVIOUS
      <4>2. ~(x >= Slots) BY <2>9, <3>2, <4>1
      <4>3. Slots \in Nat BY EvidenceAssumption, Pow2Is
      <4>4. QED BY <4>2, <4>3 DEF Places
    <3>4. Filled(base, lv)[x] = Leaf(accounts[i], NoTier)
      BY <2>1, <2>2, <2>7, <2>8, <2>12, <3>1, <3>3, FilledLeaf
    <3>5. QED BY <2>9, <3>1, <3>3, <3>4
  <2>13. ASSUME DenselyIndexed, accounts = snapshot PROVE tree' = Filled(EmptyTree, Padded(snapshot))
    <3>1. EmptyFrom(base, EndOf(accounts)) BY <2>1, <2>7, <2>13
    <3>2. Filled(base, Padded(accounts)) = Filled(EmptyTree, Padded(accounts))
      BY <2>1, <2>2, <2>7, <2>13, <3>1, FilledAnew
    <3>3. QED BY <2>8, <2>9, <2>13, <3>2
  <2>14. QED BY <2>4, <2>10, <2>11, <2>12, <2>13 DEF UserTree
<1>3. CASE Reconcile
  <2>1. service = "attest" BY <1>3 DEF Reconcile, Inv, AccountsInv
  <2>2. Listed' = Listed /\ TreeHeight' = TreeHeight
    BY <1>1, <1>3 DEF Reconcile, Listed, TreeHeight, Summed
  <2>3. pc' = "write" => Sound(Listed) /\ tree' = SumTree BY <1>3 DEF Reconcile, SumTree
  <2>4. SumTree' = SumTree BY <2>2 DEF SumTree
  <2>5. Sound(Listed)' <=> Sound(Listed) BY <1>1, <2>2 DEF Sound
  <2>6. pc' \in {"write", "failed"} BY <1>3 DEF Reconcile
  <2>7. QED BY <1>1, <2>1, <2>3, <2>4, <2>5, <2>6 DEF TreeInv
<1>4. CASE Load \/ Stream \/ Rerun
  BY <1>4 DEF Load, Stream, Rerun, TreeInv
<1>5. CASE CommitTree \/ AddRow \/ Flush \/ Interrupt \/ Cancel \/ UNCHANGED vars
  <2>1. UNCHANGED <<accounts, tree>>
    BY <1>5 DEF CommitTree, AddRow, Flush, Interrupt, Cancel, vars
  <2>2. \/ pc' = pc \/ pc' = "failed"
        \/ pc = "commit" /\ pc' = "write"
        \/ pc = "write" /\ pc' = "done"
    BY <1>5 DEF CommitTree, AddRow, Flush, Interrupt, Cancel, vars
  <2>3. /\ SumTree' = SumTree /\ (Sound(Listed)' <=> Sound(Listed)) /\ (UserTree' <=> UserTree)
    BY <1>1, <2>1, Kept
  <2>4. pc = "commit" => service # "attest" BY DEF Inv, AccountsInv
  <2>5. TreeInv BY DEF Inv
  <2>6. QED BY <1>1, <2>1, <2>2, <2>3, <2>4, <2>5 DEF TreeInv
<1>6. QED BY <1>2, <1>3, <1>4, <1>5 DEF Next

-----------------------------------------------------------------------------
(* The rows, and the theorems.                                            *)

(* What the batch of a run that writes is: the rows of the last places     *)
(* before next, those before them being in the table.                      *)
LEMMA BatchIs ==
  ASSUME Inv, pc \in {"write", "done"}
  PROVE  /\ Len(Listed) \in Nat /\ next \in 1 .. (Len(Listed) + 1)
         /\ \E b, f \in Nat :
              /\ b = Len(batch) /\ next = f + b + 1 /\ f = next - 1 - b
              /\ DOMAIN batch = 1 .. b /\ (batch = <<>> <=> b = 0)
              /\ \A k \in 1 .. b : batch[k] = Row(f + k) /\ f + k \in 1 .. Len(Listed)
              /\ \A p \in 1 .. f : Row(p) \in table
<1>1. accounts \in Seq(Real) BY AccountsAre DEF Inv
<1>2. Listed \in Seq(Real) BY <1>1, WrittenIs DEF Listed
<1>3. PICK n \in Nat : n = Len(Listed) BY <1>2
<1>4. /\ next \in 1 .. (n + 1) /\ batch \in Seq(OwnRows) /\ Len(batch) < next
      /\ \A k \in 1 .. Len(batch) : batch[k] = Row((next - 1 - Len(batch)) + k)
      /\ \A p \in 1 .. (next - 1 - Len(batch)) : Row(p) \in table
  BY <1>3 DEF Inv, BatchInv
<1>5. PICK b \in Nat : b = Len(batch) BY <1>4
<1>6. PICK f \in Nat : f = next - 1 - b
  <2>1. PICK m \in Nat : m = next /\ b < m BY <1>4, <1>5
  <2>2. m - 1 - b \in Nat BY <2>1
  <2>3. QED BY <2>1, <2>2
<1>7. next = f + b + 1 BY <1>4, <1>6
<1>8. DOMAIN batch = 1 .. b
  <2>1. DOMAIN batch = 1 .. Len(batch) BY <1>4
  <2>2. QED BY <1>5, <2>1
<1>9. batch = <<>> <=> b = 0 BY <1>4, <1>5, EmptySeq
<1>10. \A k \in 1 .. b : batch[k] = Row(f + k) /\ f + k \in 1 .. n
  <2>1. \A k \in 1 .. b : f + k \in 1 .. n BY <1>4, <1>7
  <2>2. QED BY <1>4, <1>5, <1>6, <2>1
<1>11. \A p \in 1 .. f : Row(p) \in table BY <1>4, <1>5, <1>6
<1>12. /\ b = Len(batch) /\ next = f + b + 1 /\ f = next - 1 - b
       /\ DOMAIN batch = 1 .. b /\ (batch = <<>> <=> b = 0)
       /\ \A k \in 1 .. b : batch[k] = Row(f + k) /\ f + k \in 1 .. Len(Listed)
       /\ \A p \in 1 .. f : Row(p) \in table
  BY <1>3, <1>5, <1>6, <1>7, <1>8, <1>9, <1>10, <1>11
<1>13. QED BY <1>3, <1>4, <1>12

(* AddRow takes the next row, Flush puts the batch into the table. *)
LEMMA BatchStep == ASSUME Inv, [Next]_vars PROVE BatchInv'
<1>1. UNCHANGED <<given>> BY GivenKept
<1>2. accounts \in Seq(Real) BY AccountsAre DEF Inv
<1>3. PICK n \in Nat : n = Len(Listed) BY <1>2, WrittenIs DEF Listed
<1>4. CASE CommitTree \/ Reconcile
  <2>1. next' = 1 /\ batch' = <<>> /\ accounts' = accounts /\ pc' \in {"write", "failed"}
    BY <1>4 DEF CommitTree, Reconcile, Inv, BatchInv
  <2>2. Len(Listed)' = n BY <1>3, <2>1 DEF Listed
  <2>3. <<>> \in Seq(OwnRows') /\ Len(<<>>) = 0 OBVIOUS
  <2>4. 1 \in 1 .. (n + 1) /\ 0 < 1 /\ 1 .. 0 = {} /\ 1 .. (1 - 1 - 0) = {} OBVIOUS
  <2>5. QED BY <2>1, <2>2, <2>3, <2>4 DEF BatchInv
<1>5. CASE AddRow
  <2>1. UNCHANGED <<accounts, tree, table, pc>> /\ pc = "write" BY <1>5 DEF AddRow
  <2>2. PICK b \in Nat, f \in Nat :
          /\ b = Len(batch) /\ next = f + b + 1
          /\ \A k \in 1 .. b : batch[k] = Row(f + k)
          /\ \A p \in 1 .. f : Row(p) \in table
    BY <2>1, BatchIs
  <2>3. next <= n /\ next' = next + 1 /\ batch' = Append(batch, Row(next))
    BY <1>3, <1>5 DEF AddRow
  <2>4. batch \in Seq(OwnRows) BY <2>1 DEF Inv, BatchInv
  <2>5. next \in 1 .. n BY <2>2, <2>3
  <2>6. PICK r \in OwnRows : r = Row(next) BY <1>3, <2>5 DEF OwnRows
  <2>7. /\ batch' \in Seq(OwnRows) /\ Len(batch') = b + 1
        /\ \A k \in 1 .. b : batch'[k] = batch[k]
        /\ batch'[b + 1] = Row(next)
    <3>1. batch' = Append(batch, r) BY <2>3, <2>6
    <3>2. PICK s \in Seq(OwnRows) : s = batch BY <2>4
    <3>3. /\ Append(s, r) \in Seq(OwnRows) /\ Len(Append(s, r)) = Len(s) + 1
          /\ \A k \in 1 .. Len(s) : Append(s, r)[k] = s[k]
          /\ Append(s, r)[Len(s) + 1] = r
      <4> HIDE DEF OwnRows
      <4>1. QED BY AppendProperties
    <3>4. QED BY <2>2, <2>6, <3>1, <3>2, <3>3
  <2>8. \A k \in 1 .. (b + 1) : batch'[k] = Row(f + k)
    <3>1. TAKE k \in 1 .. (b + 1)
    <3>2. CASE k = b + 1
      <4>1. f + k = next BY <2>2, <3>2
      <4>2. QED BY <2>7, <3>2, <4>1
    <3>3. CASE k # b + 1
      <4>1. k \in 1 .. b BY <3>3
      <4>2. QED BY <2>2, <2>7, <4>1
    <3>4. QED BY <3>2, <3>3
  <2>9. next' - 1 - (b + 1) = f /\ next' \in 1 .. (n + 1) /\ b + 1 < next' BY <2>2, <2>3, <2>5
  <2>10. /\ \A p : Row(p)' = Row(p)
         /\ Listed' = Listed /\ OwnRows' = OwnRows
    BY <1>1, <2>1, Kept
  <2>11. /\ next' \in 1 .. (Len(Listed)' + 1) /\ batch' \in Seq(OwnRows')
         /\ Len(batch') < next'
         /\ \A k \in 1 .. Len(batch') : batch'[k] = Row((next' - 1 - Len(batch')) + k)
         /\ \A p \in 1 .. (next' - 1 - Len(batch')) : Row(p) \in table
    BY <1>3, <2>2, <2>7, <2>8, <2>9, <2>10
  <2>12. QED BY <2>1, <2>10, <2>11 DEF BatchInv
<1>6. CASE Flush
  <2>1. UNCHANGED <<accounts, tree, next>> /\ pc = "write" BY <1>6 DEF Flush
  <2>2. PICK b \in Nat, f \in Nat :
          /\ b = Len(batch) /\ next = f + b + 1 /\ next \in 1 .. (n + 1)
          /\ DOMAIN batch = 1 .. b /\ (batch = <<>> <=> b = 0)
          /\ \A k \in 1 .. b : batch[k] = Row(f + k)
          /\ \A p \in 1 .. f : Row(p) \in table
    BY <1>3, <2>1, BatchIs
  <2>3. /\ \A p : Row(p)' = Row(p)
        /\ Listed' = Listed /\ OwnRows' = OwnRows
    BY <1>1, <2>1, Kept
  <2>4. <<>> \in Seq(OwnRows) /\ Len(<<>>) = 0 OBVIOUS
  <2>5. CASE next > n /\ batch = <<>> /\ pc' = "done" /\ UNCHANGED <<batch, table>>
    <3>1. next = n + 1 /\ f = n /\ b = 0 BY <2>2, <2>5
    <3>2. 1 .. 0 = {} /\ n + 1 - 1 - 0 = n /\ 0 < n + 1 /\ n + 1 \in 1 .. (n + 1) OBVIOUS
    <3>3. \A p \in 1 .. n : Row(p) \in table BY <2>2, <3>1
    <3>4. QED BY <1>3, <2>1, <2>3, <2>4, <2>5, <3>1, <3>2, <3>3 DEF BatchInv
  <2>6. CASE pc' = "failed" BY <2>6 DEF BatchInv
  <2>7. CASE Inserted(batch) /\ batch' = <<>> /\ pc' = pc
    <3>1. \A p \in 1 .. (next - 1) : Row(p) \in table'
      <4>1. TAKE p \in 1 .. (next - 1)
      <4>2. CASE p <= f
        <5>1. p \in 1 .. f BY <4>2
        <5>2. QED BY <2>2, <2>7, <5>1 DEF Inserted
      <4>3. CASE ~(p <= f)
        <5>1. PICK k \in 1 .. b : f + k = p
          <6>1. p - f \in 1 .. b /\ f + (p - f) = p BY <2>2, <4>3
          <6>2. QED BY <6>1
        <5>2. batch[k] = Row(p) /\ k \in DOMAIN batch BY <2>2, <5>1
        <5>3. QED BY <2>7, <5>2 DEF Inserted
      <4>4. QED BY <4>2, <4>3
    <3>2. next - 1 - 0 = next - 1 /\ 0 < next /\ 1 .. 0 = {} BY <2>2
    <3>3. QED BY <1>3, <2>1, <2>2, <2>3, <2>4, <2>7, <3>1, <3>2 DEF BatchInv
  <2>8. QED BY <1>3, <1>6, <2>5, <2>6, <2>7 DEF Flush
<1>7. CASE Cancel \/ UNCHANGED vars
  <2>1. UNCHANGED <<accounts, tree, table, pc, next, batch>> BY <1>7 DEF Cancel, vars
  <2>2. /\ \A p : Row(p)' = Row(p)
        /\ Listed' = Listed /\ OwnRows' = OwnRows
    BY <1>1, <2>1, Kept
  <2>3. QED BY <2>1, <2>2 DEF Inv, BatchInv
<1>8. CASE Interrupt BY <1>8 DEF Interrupt, BatchInv
<1>9. CASE Rerun BY <1>9 DEF Rerun, BatchInv
<1>10. CASE Load \/ Stream \/ Populate
  <2>1. next' = 1 /\ batch' = <<>> BY <1>10 DEF Load, Stream, Populate, Inv, BatchInv
  <2>2. pc' \in {"failed", "stream", "populate", "reconcile", "commit"}
    BY <1>10 DEF Load, Stream, Populate
  <2>3. QED BY <2>1, <2>2 DEF BatchInv
<1>11. QED BY <1>4, <1>5, <1>6, <1>7, <1>8, <1>9, <1>10 DEF Next

-----------------------------------------------------------------------------
(* Attestations are only written by a run that reconciled. *)
LEMMA WritesAttested ==
  ASSUME Inv, pc \in {"write", "done"}, service = "attest"
  PROVE  Attested /\ accounts # <<>>
<1>1. accounts \in Seq(Real) BY AccountsAre DEF Inv
<1>2. QED BY <1>1 DEF Attested, Inv, AccountsInv, TreeInv

(* A chunk that is inserted leaves the table as it must be: its rows       *)
(* verify, and, in a table of attestations, it is either the first of all, *)
(* or follows chunks of its own run.                                       *)
LEMMA InsertStep ==
  ASSUME Inv, pc = "write", batch # <<>>, ~Collides(batch),
         Inserted(batch), UNCHANGED given
  PROVE  TableInv'
<1>1. service' = service BY DEF given
<1>2. PICK b \in Nat, f \in Nat, n \in Nat :
        /\ n = Len(Listed) /\ b # 0 /\ DOMAIN batch = 1 .. b
        /\ \A k \in 1 .. b : batch[k] = Row(f + k) /\ f + k \in 1 .. n
        /\ \A p \in 1 .. f : Row(p) \in table
  BY BatchIs
<1>3. table' = table \cup {batch[k] : k \in 1 .. b} BY <1>2 DEF Inserted
<1>4. /\ \A k \in 1 .. b, r \in table : batch[k].index # r.index /\ batch[k].id # r.id
      /\ \A k, j \in 1 .. b : batch[k].id = batch[j].id => k = j
  BY <1>2 DEF Collides
<1>5. TableInv /\ TypeInv BY DEF Inv
<1>6. ASSUME DenselyIndexed \/ service = "attest", NEW r \in table' PROVE Verifies(r)'
  <2>1. Verifies(r)
    <3>1. CASE r \in table BY <1>5, <1>6, <3>1 DEF TableInv
    <3>2. CASE r \notin table
      <4>1. PICK k \in 1 .. b : r = batch[k] BY <1>3, <3>2
      <4>2. PICK p \in 1 .. n : r = Row(p) BY <1>2, <4>1
      <4>3. CASE service = "userproof"
        BY <1>2, <1>6, <4>2, <4>3, UserRowVerifies DEF Inv
      <4>4. CASE service = "attest"
        BY <1>2, <4>2, <4>4, WritesAttested, SumRowIs
      <4>5. QED BY <1>5, <4>3, <4>4 DEF TypeInv
    <3>3. QED BY <3>1, <3>2
  <2>2. QED BY <1>1, <2>1 DEF Verifies, Summed
<1>7. ASSUME NEW r \in table', NEW s \in table', r.id = s.id PROVE r = s
  <2>1. CASE r \in table /\ s \in table BY <1>5, <1>7, <2>1 DEF TableInv
  <2>2. CASE r \notin table /\ s \in table BY <1>3, <1>4, <1>7, <2>2
  <2>3. CASE r \in table /\ s \notin table BY <1>3, <1>4, <1>7, <2>3
  <2>4. CASE r \notin table /\ s \notin table BY <1>3, <1>4, <1>7, <2>4
  <2>5. QED BY <2>1, <2>2, <2>3, <2>4
<1>8. ASSUME service = "attest"
      PROVE  /\ \A r \in table' : r.leaf.sum \in 0 .. MaxBalance
             /\ \A r, s \in table' : r.root = s.root
             /\ \E r \in table' : r.index = 0
  <2>1. Attested BY <1>8, WritesAttested
  <2>2. /\ \A r \in table : r.leaf.sum \in 0 .. MaxBalance
        /\ \A r, s \in table : r.root = s.root
        /\ table # {} => \E r \in table : r.index = 0
    BY <1>5, <1>8 DEF TableInv
  <2>3. \A k \in 1 .. b : /\ batch[k].leaf.sum \in 0 .. MaxBalance
                          /\ batch[k].index = f + k - 1
                          /\ batch[k].root = Root
    <3>1. \A p \in 1 .. n : /\ Row(p).leaf.sum \in 0 .. MaxBalance
                            /\ Row(p).index = p - 1 /\ Row(p).root = Root
      BY <1>2, <2>1, SumRowIs DEF Row
    <3>2. TAKE k \in 1 .. b
    <3>3. PICK p \in 1 .. n : p = f + k /\ batch[k] = Row(p) BY <1>2
    <3>4. QED BY <3>1, <3>3
  <2>4. \A r \in table' : r.leaf.sum \in 0 .. MaxBalance BY <1>3, <2>2, <2>3
  <2>5. /\ \A r \in table : r.root = Root
        /\ \E r \in table' : r.index = 0
    <3>1. CASE f = 0
      <4>1. 1 \in 1 .. b BY <1>2
      <4>2. batch[1].index = 0 BY <2>3, <3>1, <4>1
      <4>3. table = {} BY <1>4, <2>2, <4>1, <4>2
      <4>4. QED BY <1>3, <4>1, <4>2, <4>3
    <3>2. CASE f # 0
      <4>1. 1 \in 1 .. f BY <3>2
      <4>2. Row(1) \in table /\ Row(1).root = Root BY <1>2, <4>1 DEF Row
      <4>3. QED BY <1>3, <2>2, <4>2
    <3>3. QED BY <3>1, <3>2
  <2>6. \A r \in table' : r.root = Root BY <1>3, <2>3, <2>5
  <2>7. QED BY <2>4, <2>5, <2>6
<1>9. QED BY <1>1, <1>6, <1>7, <1>8, EvidenceAssumption DEF TableInv

(* Only Flush changes the table. *)
LEMMA TableStep == ASSUME Inv, [Next]_vars PROVE TableInv'
<1>1. UNCHANGED given BY GivenKept
<1>2. \/ table' = table
      \/ pc = "write" /\ batch # <<>> /\ ~Collides(batch) /\ Inserted(batch)
  BY DEF Next, vars, Load, Stream, Populate, CommitTree, Reconcile, AddRow, Flush, Interrupt,
         Cancel, Rerun
<1>3. CASE table' = table
  <2>1. service' = service BY <1>1 DEF given
  <2>2. \A r : Verifies(r)' <=> Verifies(r) BY <2>1 DEF Verifies, Summed
  <2>3. TableInv BY DEF Inv
  <2>4. QED BY <1>3, <2>1, <2>2, <2>3 DEF TableInv
<1>4. CASE pc = "write" /\ batch # <<>> /\ ~Collides(batch) /\ Inserted(batch)
  BY <1>1, <1>4, InsertStep
<1>5. QED BY <1>2, <1>3, <1>4

(* The invariant: where the tree of a run comes from, which rows are in    *)
(* the table and which are still to come, and what no run has left on disk *)
(* (pkg/userproof/userproof.go, pkg/merklepor/merklepor.go).               *)
THEOREM EvidenceInvariant == Spec => []Inv
<1>1. Init => Inv BY InitInv
<1>2. Inv /\ [Next]_vars => Inv'
  BY TypeStep, AccountsStep, TreeStep, BatchStep, TableStep DEF Inv
<1>3. QED BY <1>1, <1>2, PTL DEF Spec

(* Every row of evidence verifies by itself, whatever run wrote it and     *)
(* whatever was left in redis or in the table (pkg/userproof/userproof.go, *)
(* pkg/merklepor/merklepor.go): the path leads to the root beside it.      *)
THEOREM RowsVerified == ASSUME DenselyIndexed PROVE Spec => []RowsVerify
<1>1. Inv => RowsVerify BY DEF Inv, TableInv, RowsVerify
<1>2. QED BY <1>1, EvidenceInvariant, PTL

(* A user proof run that read the whole snapshot builds the tree of the    *)
(* witness service's chain, whatever interrupted runs have left on disk:   *)
(* they set no leaf behind the last one the whole walk sets.               *)
THEOREM WholeRunsAgreed == ASSUME DenselyIndexed PROVE Spec => []WholeRunsAgree
<1>1. Inv => WholeRunsAgree BY DEF Inv, TreeInv, UserTree, WholeRunsAgree
<1>2. QED BY <1>1, EvidenceInvariant, PTL

(* A run that ends well has one row for each of its accounts, and there is *)
(* no other row of any of them in the table: a duplicate fails the insert. *)
THEOREM EveryoneListed == Spec => []DoneHasEveryone
<1>1. ASSUME Inv PROVE DoneHasEveryone
  <2>1. SUFFICES ASSUME pc = "done", NEW i \in DOMAIN accounts
                 PROVE  \E row \in table :
                          {r \in table : r.id = accounts[i].id} = {row} /\ row.root = Root
    BY DEF DoneHasEveryone
  <2>2. accounts \in Seq(Real) /\ AllTiered(accounts)
    BY <1>1, <2>1, AccountsAre DEF Inv, AccountsInv
  <2>3. PICK n \in Nat : n = Len(Listed) BY <2>2, ListedIs
  <2>4. i \in 1 .. Len(accounts)
    <3>1. DOMAIN accounts = 1 .. Len(accounts) BY <2>2
    <3>2. QED BY <3>1
  <2>5. PICK k \in 1 .. n : Listed[k] = accounts[i] BY <2>2, <2>3, <2>4, ListedIs
  <2>6. Row(k) \in table
    <3>1. next = n + 1 /\ batch = <<>> BY <1>1, <2>1, <2>3 DEF Inv, BatchInv
    <3>2. PICK b \in Nat, f \in Nat :
            b = 0 /\ next = f + b + 1 /\ \A p \in 1 .. f : Row(p) \in table
      BY <1>1, <2>1, <3>1, BatchIs
    <3>3. f = n BY <3>1, <3>2
    <3>4. QED BY <3>2, <3>3
  <2>7. Row(k).id = accounts[i].id /\ Row(k).root = Root BY <2>5 DEF Row
  <2>8. \A r, s \in table : r.id = s.id => r = s BY <1>1 DEF Inv, TableInv
  <2>9. {r \in table : r.id = accounts[i].id} = {Row(k)} BY <2>6, <2>7, <2>8
  <2>10. QED BY <2>6, <2>7, <2>9
<1>2. QED BY <1>1, EvidenceInvariant, PTL

(* The attest table has one root, also after reruns: the row of index 0 of *)
(* an earlier run refuses the first chunk of the next; and the sum in the  *)
(* root, level by level the sum of the leaves, is what is owed to the      *)
(* accounts in whatever order they were walked.                            *)
THEOREM TotalAttested == Spec => []AttestedTotal
<1>1. ASSUME Inv PROVE AttestedTotal
  <2>1. SUFFICES ASSUME service = "attest"
                 PROVE  /\ \A r, s \in table : r.root = s.root
                        /\ pc = "done" =>
                             /\ \A row \in table : row.leaf.sum \in 0 .. MaxBalance
                             /\ Root.sum = TotalWorth(accounts)
                             /\ {Root} = {row.root : row \in table}
                             /\ claimed \in {NoClaim, Root.sum}
    BY DEF AttestedTotal
  <2>2. /\ \A r, s \in table : r.root = s.root
        /\ \A row \in table : row.leaf.sum \in 0 .. MaxBalance
    BY <1>1, <2>1 DEF Inv, TableInv
  <2>3. SUFFICES ASSUME pc = "done"
                 PROVE  /\ Root.sum = TotalWorth(accounts)
                        /\ {Root} = {row.root : row \in table}
                        /\ claimed \in {NoClaim, Root.sum}
    BY <2>2
  <2>4. Attested /\ accounts # <<>> BY <1>1, <2>1, <2>3, WritesAttested
  <2>5. Root.sum = TotalWorth(accounts) /\ TotalWorth(Listed) = TotalWorth(accounts)
    BY <2>4, RootSum
  <2>6. claimed \in {NoClaim, TotalWorth(Listed)} BY <2>4 DEF Attested, Sound
  <2>7. Row(1) \in table
    <3>1. PICK n \in Nat : n = Len(Listed) /\ n # 0
      <4>1. Len(Listed) = Len(accounts) BY <2>4, ListedIs DEF Attested
      <4>2. Len(accounts) \in Nat /\ Len(accounts) # 0 BY <2>4, EmptySeq DEF Attested
      <4>3. QED BY <4>1, <4>2
    <3>2. next = n + 1 /\ batch = <<>> BY <1>1, <2>3, <3>1 DEF Inv, BatchInv
    <3>3. PICK b \in Nat, f \in Nat :
            b = 0 /\ next = f + b + 1 /\ \A p \in 1 .. f : Row(p) \in table
      BY <1>1, <2>3, <3>2, BatchIs
    <3>4. f = n /\ 1 \in 1 .. n BY <3>1, <3>2, <3>3
    <3>5. QED BY <3>3, <3>4
  <2>8. Row(1).root = Root BY DEF Row
  <2>9. \A row \in table : row.root = Root BY <2>2, <2>7, <2>8
  <2>10. {Root} = {row.root : row \in table} BY <2>7, <2>8, <2>9
  <2>11. QED BY <2>5, <2>6, <2>10
<1>2. QED BY <1>1, EvidenceInvariant, PTL
=============================================================================
