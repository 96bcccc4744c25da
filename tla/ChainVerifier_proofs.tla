-------------------------- MODULE ChainVerifier_proofs --------------------------
(***************************************************************************)
(* What a verified chain of batches says, for every value of the constants.*)
(*                                                                         *)
(* A batch proof: for every profile, tree, field and witness each leaf is  *)
(* of a solvent account and is final, a user adds to the totals what the   *)
(* leaf holds and nothing else, and the totals of a proved chain are the   *)
(* sums over its leaves (BatchCircuit).                                    *)
(*                                                                         *)
(* The chain of them: for every table, every number of workers and every   *)
(* set of tiers, what the batch verifier accepts and what it refuses       *)
(* (ChainVerifier).                                                        *)
(***************************************************************************)
EXTENDS BatchCircuit, ChainVerifier, SequenceTheorems, SumLemmas

-----------------------------------------------------------------------------
(* The batch proofs. *)

-----------------------------------------------------------------------------
(* One user *)

(* A ratio of at most Full does not enlarge what it is taken of. *)
LEMMA CutShrinks ==
  ASSUME NEW a \in Nat, NEW w \in Nat, NEW f \in Nat \ {0}, w <= f
  PROVE  (a * w) \div f <= a
<1>1. a * w <= a * f BY SMTT(30)
<1>2. a * w \in Nat /\ a * f \in Nat BY SMTT(30)
<1> DEFINE n == a * w
           q == n \div f
<1>3. n \in Nat BY <1>2
<1>4. q \in Int /\ f * q <= n
  <2> HIDE DEF n
  <2>1. QED BY <1>3, SMTT(30)
<1>5. f * q <= f * a
  <2>1. a * f = f * a /\ f * a \in Int /\ f * q \in Int BY <1>4, SMTT(30)
  <2> HIDE DEF q
  <2>2. QED BY <1>1, <1>2, <1>4, <2>1
<1>6. q <= a
  <2> HIDE DEF q
  <2>1. QED BY <1>4, <1>5, SMTT(30)
<1>7. QED BY <1>6

(* Looked reads the contributions at the slots listed. *)
LEMMA LookedAt ==
  ASSUME NEW op \in Witnesses
  PROVE  /\ DOMAIN Looked(op) = DOMAIN op.slots
         /\ \A j \in DOMAIN op.slots : Looked(op)[j] = op.update[op.slots[j]]
BY DEF Looked, Positions

(* What the constraints of each model ask of a user in common. *)
LEMMA UserMeets ==
  ASSUME NEW m \in Models, NEW op \in Witnesses, User(m, op, static)
  PROVE  /\ Increasing(op)
         /\ Looked(op) = Held(m, op)
         /\ Ranged(m, Held(m, op))
         /\ LeafIsSolvent(m, LeafOf(m, op, static))
<1>1. CASE m = "T1"
  <2>1. T1User(op, static) BY <1>1 DEF User
  <2>2. QED BY <1>1, <2>1 DEF T1User, Held, LeafOf, LeafIsSolvent
<1>2. CASE m = "T2"
  <2>1. T2User(op, static) BY <1>2 DEF User
  <2>2. QED BY <1>2, <2>1 DEF T2User, Held, LeafOf, LeafIsSolvent, Covered
<1>3. CASE m = "T3"
  <2>1. T3User(op, static) BY <1>3 DEF User
  <2>2. QED BY <1>3, <2>1 DEF T3User, Held, LeafOf, LeafIsSolvent, Covered
<1>4. CASE m = "T4"
  <2>1. T4User(op, static) BY <1>4 DEF User
  <2>2. QED BY <1>4, <2>1 DEF T4User, Held, LeafOf, LeafIsSolvent, Covered
<1>5. QED BY <1>1, <1>2, <1>3, <1>4 DEF Models

(* With haircuts that do not exceed Full, no credit exceeds what it is of. *)
LEMMA UserIsCapped ==
  ASSUME CircuitTypeOK, NEW op \in Witnesses, User(model, op, static),
         PricesInRange(static), model # "T1" => RatiosCapped(model, static)
  PROVE  CreditIsCapped(model, LeafOf(model, op, static))
<1>1. model \in Models BY DEF CircuitTypeOK
<1>2. Increasing(op) /\ Looked(op) = Held(model, op) /\ Ranged(model, Looked(op))
  BY <1>1, UserMeets
<1> DEFINE leaf == LeafOf(model, op, static)
<1>3. leaf.slots = op.slots /\ leaf.held = Looked(op) BY <1>2 DEF LeafOf
<1>4. ASSUME NEW j \in DOMAIN op.slots, NEW p \in Pools[model]
      PROVE  Credit(Looked(op)[j], static, op.slots[j], p)
               <= Looked(op)[j][p] * static.price[op.slots[j]]
  <2> DEFINE s == op.slots[j]
             h == Looked(op)[j][p]
             x == static.price[s]
             w == static.weight[s][p]
  <2>1. model # "T1" BY <1>4 DEF Pools
  <2>2. s \in Slots BY <1>2 DEF Increasing, Positions
  <2>3. h \in Nat
    <3>1. j \in DOMAIN Looked(op) BY LookedAt
    <3>2. p \in Columns(model) BY DEF Columns
    <3>3. QED BY <1>2, <3>1, <3>2, RulesAssumption DEF Ranged, Uint64
  <2>4. x \in Nat BY <2>2, RulesAssumption DEF PricesInRange, Uint64
  <2>5. w \in Nat /\ w <= Full BY <2>1, <2>2, RulesAssumption DEF RatiosCapped
  <2>6. h * x \in Nat
    <3> HIDE DEF h, x
    <3>1. QED BY <2>3, <2>4, SMTT(30)
  <2> DEFINE a == h * x
  <2>7. (a * w) \div Full <= a
    <3>1. a \in Nat BY <2>6
    <3>2. Full \in Nat \ {0} BY RulesAssumption
    <3> HIDE DEF a, w
    <3>3. QED BY <2>5, <3>1, <3>2, CutShrinks
  <2>8. QED BY <2>7 DEF Credit
<1>5. QED
  <2> HIDE DEF leaf
  <2>1. QED BY <1>3, <1>4 DEF CreditIsCapped, leaf

-----------------------------------------------------------------------------
(* What is counted is what the leaf holds *)

(* Comparing neighbours is enough: a list that passes has no slot twice.   *)
LEMMA SlotsOnce ==
  ASSUME NEW op \in Witnesses, Increasing(op)
  PROVE  \A j, k \in DOMAIN op.slots : j < k => op.slots[j] < op.slots[k]
<1> DEFINE l == op.slots
           n == Len(l)
<1>1. l \in Seq(Nat)
  BY BatchAssumption DEF Witnesses, Ops
<1>2. n \in Nat /\ DOMAIN l = 1 .. n /\ \A j \in 1 .. n : l[j] \in Nat
  BY <1>1
<1>3. \A j \in 1 .. (n - 1) : l[j] < l[j + 1] BY DEF Increasing
<1> HIDE DEF l, n
<1>4. ASSUME NEW j \in 1 .. n PROVE \A k \in 1 .. n : j < k => l[j] < l[k]
  <2> DEFINE Bad == {k \in 1 .. n : j < k /\ ~(l[j] < l[k])}
  <2>1. SUFFICES ASSUME Bad # {} PROVE FALSE OBVIOUS
  <2>2. Bad \in SUBSET Nat BY <1>2
  <2>3. PICK k \in Bad : \A i \in Bad : k <= i
    <3> HIDE DEF Bad
    <3>1. QED BY <2>1, <2>2, LeastNatural
  <2>4. k \in 1 .. n /\ j < k /\ ~(l[j] < l[k]) OBVIOUS
  <2>5. k - 1 \in 1 .. (n - 1) /\ l[k - 1] < l[k]
    <3>1. k - 1 \in 1 .. (n - 1) BY <1>2, <2>4
    <3>2. (k - 1) + 1 = k BY <1>2, <2>4
    <3>3. QED BY <1>3, <3>1, <3>2
  <2>6. k - 1 \in 1 .. n BY <1>2, <2>5
  <2>7. CASE k - 1 = j
    BY <2>4, <2>5, <2>7
  <2>8. CASE k - 1 # j
    <3>1. j < k - 1 BY <1>2, <2>4, <2>8
    <3>2. k - 1 \notin Bad BY <1>2, <2>3, <2>4
    <3>3. l[j] < l[k - 1] BY <2>6, <3>1, <3>2
    <3>4. QED BY <1>2, <2>4, <2>5, <2>6, <3>3
  <2>9. QED BY <2>7, <2>8
<1>5. QED BY <1>2, <1>4 DEF l, n

(* The two constraints that tie a contribution to a leaf, the order of the *)
(* slots and the random linear combination, leave no freedom: a slot that  *)
(* is listed counts what the leaf holds there, every other slot nothing.   *)
THEOREM CountedIsHeld ==
  ASSUME CircuitTypeOK, NEW op \in Witnesses, NEW C \in SUBSET Columns(model),
         Increasing(op), Spans(op, C)
  PROVE  \A s \in Slots : \A c \in C :
           \/ /\ \A j \in DOMAIN op.slots : op.slots[j] # s
              /\ op.update[s][c] = 0
           \/ \E j \in DOMAIN op.slots :
                /\ op.slots[j] = s
                /\ \A k \in DOMAIN op.slots : op.slots[k] = s => k = j
                /\ op.update[s][c] = Looked(op)[j][c]
<1> SUFFICES ASSUME NEW s \in Slots, NEW c \in C
             PROVE  \/ /\ \A j \in DOMAIN op.slots : op.slots[j] # s
                       /\ op.update[s][c] = 0
                    \/ \E j \in DOMAIN op.slots :
                         /\ op.slots[j] = s
                         /\ \A k \in DOMAIN op.slots : op.slots[k] = s => k = j
                         /\ op.update[s][c] = Looked(op)[j][c]
  OBVIOUS
<1> DEFINE places == {j \in Positions(op) : op.slots[j] = s}
           u == op.update[s][c]
<1>1. (Cardinality(places) * u) % Modulus = u BY DEF Spans
<1>2. CASE places = {}
  <2>1. Cardinality(places) = 0 BY <1>2, FS_EmptySet
  <2>2. u \in Field
    <3>1. op.update \in Updates[model] BY DEF Witnesses, Ops
    <3>2. model \in Models BY DEF CircuitTypeOK
    <3>3. op.update \in [Slots -> [Columns(model) -> Field]]
      BY <3>1, <3>2, BatchAssumption
    <3>4. QED BY <3>3
  <2>3. u \in Nat /\ Modulus \in Nat /\ Modulus > 1
    BY <2>2, RulesAssumption DEF Field
  <2>4. 0 * u = 0 /\ 0 % Modulus = 0 BY <2>3
  <2>5. u = 0 BY <1>1, <2>1, <2>4
  <2>6. QED BY <1>2, <2>5 DEF Positions
<1>3. CASE places # {}
  <2>1. PICK j \in Positions(op) : op.slots[j] = s BY <1>3
  <2>2. j \in DOMAIN op.slots BY DEF Positions
  <2>3. ASSUME NEW k \in DOMAIN op.slots, op.slots[k] = s PROVE k = j
    <3>1. op.slots \in Seq(Nat) BY BatchAssumption DEF Witnesses, Ops
    <3>2. j \in Nat /\ k \in Nat /\ s \in Int BY <2>2, <3>1 DEF Slots
    <3>3. j < k => op.slots[j] < op.slots[k] BY <2>2, <2>3, SlotsOnce
    <3>4. k < j => op.slots[k] < op.slots[j] BY <2>2, <2>3, SlotsOnce
    <3>5. QED BY <2>1, <2>3, <3>2, <3>3, <3>4
  <2>4. op.update[s][c] = Looked(op)[j][c] BY <2>1, <2>2, LookedAt
  <2>5. QED BY <2>1, <2>2, <2>3, <2>4
<1>4. QED BY <1>2, <1>3

-----------------------------------------------------------------------------
(* The chain *)

LEMMA AccumulatedTyped ==
  ASSUME CircuitTypeOK, NEW op \in Witnesses
  PROVE  Accumulated(op) \in [Slots -> [Columns(model) -> Field]]
<1>1. model \in Models /\ cex \in [Slots -> [Columns(model) -> Field]] BY DEF CircuitTypeOK
<1>2. op.update \in [Slots -> [Columns(model) -> Field]]
  BY <1>1, BatchAssumption DEF Witnesses, Ops
<1>3. ASSUME NEW s \in Slots, NEW c \in Columns(model)
      PROVE  (cex[s][c] + op.update[s][c]) % Modulus \in Field
  <2>1. cex[s][c] \in Field /\ op.update[s][c] \in Field BY <1>1, <1>2
  <2>2. QED BY <2>1, RulesAssumption DEF Field
<1>4. QED BY <1>3 DEF Accumulated

LEMMA InitLeafInv == CircuitInit => LeafInv
<1> SUFFICES ASSUME CircuitInit PROVE LeafInv OBVIOUS
<1>1. Nothing(model) \in [Slots -> [Columns(model) -> Field]]
  BY RulesAssumption DEF Nothing, Field
<1>2. ops \in Seq(Witnesses) /\ Len(ops) = 0 BY DEF CircuitInit
<1>3. shape.users \in Nat BY BatchAssumption DEF CircuitInit
<1>4. CircuitTypeOK BY <1>1, <1>2, <1>3 DEF CircuitInit, CircuitTypeOK, NoLeaves
<1>5. QED BY <1>4 DEF CircuitInit, LeafInv, Taken, TakenIn, NoLeaves

LEMMA TakeUserKeeps ==
  ASSUME LeafInv, NEW op \in OfShape, TakeUser(op)
  PROVE  LeafInv'
<1> USE DEF LeafInv
<1>1. op \in Witnesses BY DEF OfShape, Ops, Witnesses
<1>2. model \in Models BY DEF CircuitTypeOK
<1>3. UNCHANGED <<model, static, phase, shape, proved>> /\ phase = "users" BY DEF TakeUser
<1>4. op.index \in DOMAIN tree /\ tree[op.index] = EmptyLeaf
  BY DEF TakeUser, WasEmpty
<1>5. tree' = [tree EXCEPT ![op.index] = LeafOf(model, op, static)] BY DEF TakeUser
<1>6. CircuitTypeOK'
  <2>1. Witnesses' = Witnesses BY <1>3 DEF Witnesses, Ops
  <2>2. ops \in Seq(Witnesses) /\ ops' = Append(ops, op) BY DEF CircuitTypeOK, TakeUser
  <2>3. ops' \in Seq(Witnesses) /\ Len(ops') = Len(ops) + 1 BY <1>1, <2>2
  <2>4. shape.users \in Nat BY BatchAssumption DEF CircuitTypeOK
  <2>5. Len(ops') <= shape'.users
    BY <1>3, <2>2, <2>3, <2>4 DEF TakeUser, Room
  <2>6. cex' \in [Slots -> [Columns(model) -> Field]]
    BY <1>1, AccumulatedTyped DEF TakeUser
  <2>7. DOMAIN tree' = 0 .. (Leaves - 1) BY <1>5 DEF CircuitTypeOK
  <2>8. QED BY <1>3, <2>1, <2>3, <2>5, <2>6, <2>7 DEF CircuitTypeOK
<1>7. \A i \in Taken' : tree'[i] = proved'.tree[i]
  <2>1. Taken' = Taken BY <1>3 DEF Taken, TakenIn
  <2>2. DOMAIN proved.tree = DOMAIN tree BY DEF CircuitTypeOK
  <2>3. op.index \notin Taken BY <1>4 DEF Taken, TakenIn
  <2>4. QED BY <1>3, <1>5, <2>1, <2>2, <2>3 DEF Taken, TakenIn
<1>8. User(model, op, static) BY DEF TakeUser
<1>9. ASSUME NEW i \in DOMAIN tree', tree'[i] # EmptyLeaf
      PROVE  LeafIsSolvent(model, tree'[i]) /\ CreditIsCapped(model, tree'[i])
  <2>1. CASE i = op.index
    <3>1. tree'[i] = LeafOf(model, op, static) BY <1>4, <1>5, <2>1
    <3>2. LeafIsSolvent(model, LeafOf(model, op, static)) BY <1>1, <1>2, <1>8, UserMeets
    <3>3. CreditIsCapped(model, LeafOf(model, op, static)) BY <1>1, <1>3, <1>8, UserIsCapped
    <3>4. QED BY <3>1, <3>2, <3>3
  <2>2. CASE i # op.index
    BY <1>5, <1>9, <2>2
  <2>3. QED BY <2>1, <2>2
<1>10. (\A i \in DOMAIN tree :
          tree[i] # EmptyLeaf =>
            LeafIsSolvent(model, tree[i]) /\ CreditIsCapped(model, tree[i]))'
  BY <1>3, <1>9 DEF CreditIsCapped
<1>11. (phase = "users" =>
         PricesInRange(static) /\ (model # "T1" => RatiosCapped(model, static)))'
  BY <1>3
<1>12. QED BY <1>6, <1>7, <1>10, <1>11 DEF LeafInv

LEMMA StartBatchKeeps == LeafInv /\ StartBatch => LeafInv'
<1> SUFFICES ASSUME LeafInv, StartBatch PROVE LeafInv' OBVIOUS
<1> USE DEF LeafInv
<1>1. UNCHANGED <<model, static, tree, cex, proved>> /\ shape' \in Shapes
  BY DEF StartBatch
<1>2. Witnesses' = Witnesses BY <1>1 DEF Witnesses, Ops
<1>3. shape'.users \in Nat BY <1>1, BatchAssumption
<1>4. ops' = <<>> /\ phase' = "users" BY DEF StartBatch
<1>5. CircuitTypeOK' BY <1>1, <1>2, <1>3, <1>4 DEF CircuitTypeOK
<1>6. PricesInRange(static) /\ (model # "T1" => RatiosCapped(model, static))
  BY DEF StartBatch, Starts, T1Starts, T2Starts, T3Starts, T4Starts
<1>7. QED BY <1>1, <1>5, <1>6 DEF Taken, TakenIn, CreditIsCapped

LEMMA EndBatchKeeps == LeafInv /\ EndBatch => LeafInv'
<1> SUFFICES ASSUME LeafInv, EndBatch PROVE LeafInv' OBVIOUS
<1> USE DEF LeafInv
<1>1. UNCHANGED <<model, static, shape>> /\ phase' = "idle" /\ ops' = <<>>
  BY DEF EndBatch
<1>2. Witnesses' = Witnesses BY <1>1 DEF Witnesses, Ops
<1>3. shape.users \in Nat BY BatchAssumption DEF CircuitTypeOK
<1>4. CASE Ends(model, ops, cex)
  <2>1. proved' = [tree |-> tree, cex |-> cex] /\ UNCHANGED <<tree, cex>>
    BY <1>4 DEF EndBatch
  <2>2. CircuitTypeOK' BY <1>1, <1>2, <1>3, <2>1 DEF CircuitTypeOK
  <2>3. QED BY <1>1, <2>1, <2>2 DEF Taken, TakenIn, CreditIsCapped
<1>5. CASE ~Ends(model, ops, cex)
  <2>1. tree' = proved.tree /\ cex' = proved.cex /\ UNCHANGED proved
    BY <1>5 DEF EndBatch
  <2>2. CircuitTypeOK' BY <1>1, <1>2, <1>3, <2>1 DEF CircuitTypeOK
  <2>3. ASSUME NEW i \in DOMAIN tree', tree'[i] # EmptyLeaf
        PROVE  LeafIsSolvent(model, tree'[i]) /\ CreditIsCapped(model, tree'[i])
    <3>1. i \in Taken BY <2>1, <2>3 DEF Taken, TakenIn
    <3>2. tree[i] = tree'[i] BY <2>1, <3>1
    <3>3. i \in DOMAIN tree BY <2>1, <2>3 DEF CircuitTypeOK
    <3>4. QED BY <2>3, <3>2, <3>3
  <2>4. (\A i \in DOMAIN tree :
           tree[i] # EmptyLeaf =>
             LeafIsSolvent(model, tree[i]) /\ CreditIsCapped(model, tree[i]))'
    BY <1>1, <2>3 DEF CreditIsCapped
  <2>5. QED BY <1>1, <2>1, <2>2, <2>4 DEF Taken, TakenIn
<1>6. QED BY <1>4, <1>5

LEMMA StutterKeeps == LeafInv /\ UNCHANGED circuitVars => LeafInv'
<1> SUFFICES ASSUME LeafInv, UNCHANGED circuitVars PROVE LeafInv' OBVIOUS
<1>1. Witnesses' = Witnesses BY DEF circuitVars, Witnesses, Ops
<1>2. CircuitTypeOK' BY <1>1 DEF LeafInv, CircuitTypeOK, circuitVars
<1>3. QED BY <1>2 DEF LeafInv, circuitVars, Taken, TakenIn, CreditIsCapped

(* LeafInv holds in every chain of batches, proved or not. *)
THEOREM LeafInvariant == CircuitSpec => []LeafInv
<1>1. LeafInv /\ [CircuitNext]_circuitVars => LeafInv'
  BY StartBatchKeeps, TakeUserKeeps, EndBatchKeeps, StutterKeeps DEF CircuitNext
<1>2. QED BY InitLeafInv, <1>1, PTL DEF CircuitSpec

(* Every leaf of a proved chain is of a solvent account, and no haircut    *)
(* gives more than it is applied to.                                       *)
THEOREM Solvent == CircuitSpec => []LeavesAreSolvent
<1>1. LeafInv => LeavesAreSolvent
  <2> SUFFICES ASSUME LeafInv, NEW i \in Taken
               PROVE  LeafIsSolvent(model, proved.tree[i]) /\ CreditIsCapped(model, proved.tree[i])
    BY DEF LeavesAreSolvent
  <2>1. tree[i] = proved.tree[i] BY DEF LeafInv
  <2>2. proved.tree[i] # EmptyLeaf BY DEF Taken, TakenIn
  <2>3. i \in DOMAIN tree BY DEF LeafInv, CircuitTypeOK, Taken, TakenIn
  <2>4. QED BY <2>1, <2>2, <2>3 DEF LeafInv
<1>2. QED BY LeafInvariant, <1>1, PTL

(* A proved leaf is never overwritten or taken out. *)
THEOREM Final == CircuitSpec => LeavesAreFinal
<1>1. LeafInv /\ LeafInv' /\ [CircuitNext]_circuitVars
        => [\A i \in Taken :
              i \in DOMAIN proved'.tree /\ proved'.tree[i] = proved.tree[i]]_circuitVars
  <2> SUFFICES ASSUME LeafInv, [CircuitNext]_circuitVars, NEW i \in Taken
               PROVE  i \in DOMAIN proved'.tree /\ proved'.tree[i] = proved.tree[i]
    OBVIOUS
  <2>1. i \in DOMAIN proved.tree /\ i \in DOMAIN tree /\ tree[i] = proved.tree[i]
    BY DEF LeafInv, CircuitTypeOK, Taken, TakenIn
  <2>2. CASE proved' = proved BY <2>1, <2>2
  <2>3. CASE EndBatch /\ Ends(model, ops, cex)
    <3>1. proved'.tree = tree BY <2>3 DEF EndBatch
    <3>2. QED BY <2>1, <3>1
  <2>4. QED BY <2>2, <2>3 DEF CircuitNext, StartBatch, TakeUser, EndBatch, circuitVars
<1>2. QED BY LeafInvariant, <1>1, PTL DEF CircuitSpec, LeavesAreFinal

-----------------------------------------------------------------------------
(* The totals *)

LEMMA OpTyped ==
  ASSUME CircuitTypeOK, NEW op \in Witnesses
  PROVE  /\ op.slots \in Seq(Nat) /\ IsFiniteSet(DOMAIN op.slots)
         /\ op.update \in [Slots -> [Columns(model) -> Field]]
         /\ op.index \in 0 .. Leaves /\ op.id \in Ids
<1>1. model \in Models BY DEF CircuitTypeOK
<1>2. op.slots \in Seq(Nat) BY BatchAssumption DEF Witnesses, Ops
<1>3. DOMAIN op.slots = 1 .. Len(op.slots) /\ Len(op.slots) \in Nat BY <1>2
<1>4. IsFiniteSet(DOMAIN op.slots) BY <1>3, FS_Interval
<1>5. QED BY <1>1, <1>2, <1>4, BatchAssumption DEF Witnesses, Ops

(* What a leaf has of a slot is a natural number. *)
LEMMA HeldIsNatural ==
  ASSUME CircuitTypeOK, NEW op \in Witnesses, User(model, op, static),
         NEW s \in Slots, NEW c \in Columns(model)
  PROVE  /\ HeldAt(LeafOf(model, op, static), s, c) \in Nat
         /\ \A j \in DOMAIN op.slots : Looked(op)[j][c] \in Uint64
<1> DEFINE leaf == LeafOf(model, op, static)
           places == {j \in DOMAIN op.slots : op.slots[j] = s}
           f == [j \in DOMAIN op.slots |-> Looked(op)[j][c]]
<1>1. model \in Models BY DEF CircuitTypeOK
<1>2. Looked(op) = Held(model, op) /\ Ranged(model, Looked(op)) BY <1>1, UserMeets
<1>3. \A j \in DOMAIN op.slots : Looked(op)[j][c] \in Uint64
  BY <1>2, LookedAt DEF Ranged
<1>4. HeldAt(leaf, s, c) = SumFunctionOnSet(f, places)
  BY <1>2 DEF HeldAt, LeafOf
<1>5. IsFiniteSet(places) BY OpTyped, FS_Subset
<1>6. \A j \in places : f[j] \in Nat BY <1>3, RulesAssumption DEF Uint64
<1>7. SumFunctionOnSet(f, places) \in Nat
  <2> HIDE DEF f, places
  <2>1. QED BY <1>5, <1>6, SumNat
<1>8. QED BY <1>3, <1>4, <1>7

(* A user who is tied to its leaf in every column counts what it holds,    *)
(* and that is a 64-bit value.                                             *)
LEMMA HeldIsCounted ==
  ASSUME CircuitTypeOK, NEW op \in Witnesses, User(model, op, static),
         Spans(op, Columns(model)), NEW s \in Slots, NEW c \in Columns(model)
  PROVE  /\ HeldAt(LeafOf(model, op, static), s, c) = op.update[s][c]
         /\ op.update[s][c] \in Uint64
<1> DEFINE leaf == LeafOf(model, op, static)
           places == {j \in DOMAIN op.slots : op.slots[j] = s}
           f == [j \in DOMAIN op.slots |-> Looked(op)[j][c]]
<1>1. model \in Models BY DEF CircuitTypeOK
<1>2. Increasing(op) /\ Looked(op) = Held(model, op) BY <1>1, UserMeets
<1>3. \A j \in DOMAIN op.slots : Looked(op)[j][c] \in Uint64 BY HeldIsNatural
<1>4. HeldAt(leaf, s, c) = SumFunctionOnSet(f, places)
  BY <1>2 DEF HeldAt, LeafOf
<1>5. CASE /\ \A j \in DOMAIN op.slots : op.slots[j] # s
           /\ op.update[s][c] = 0
  <2>1. places = {} BY <1>5
  <2>2. SumFunctionOnSet(f, places) = 0
    <3> HIDE DEF f
    <3>1. QED BY <2>1, SumEmpty
  <2>3. 0 \in Uint64 BY RulesAssumption DEF Uint64
  <2>4. QED BY <1>4, <1>5, <2>2, <2>3
<1>6. ASSUME NEW j \in DOMAIN op.slots, op.slots[j] = s,
             \A k \in DOMAIN op.slots : op.slots[k] = s => k = j,
             op.update[s][c] = Looked(op)[j][c]
      PROVE  /\ HeldAt(leaf, s, c) = op.update[s][c]
             /\ op.update[s][c] \in Uint64
  <2>1. places = {j} BY <1>6
  <2>2. f[j] \in Nat /\ f[j] = Looked(op)[j][c]
    BY <1>3, RulesAssumption DEF Uint64
  <2>3. SumFunctionOnSet(f, places) = f[j]
    <3> HIDE DEF f, places
    <3>1. QED BY <2>1, <2>2, SumSingle
  <2>4. QED BY <1>3, <1>4, <1>6, <2>2, <2>3
<1>7. \/ /\ \A j \in DOMAIN op.slots : op.slots[j] # s
         /\ op.update[s][c] = 0
      \/ \E j \in DOMAIN op.slots :
           /\ op.slots[j] = s
           /\ \A k \in DOMAIN op.slots : op.slots[k] = s => k = j
           /\ op.update[s][c] = Looked(op)[j][c]
  BY <1>2, CountedIsHeld
<1>8. QED BY <1>5, <1>6, <1>7

(* A leaf where there was none adds what it holds to the sum. *)
LEMMA LeafAdds ==
  ASSUME NEW t, IsFiniteSet(DOMAIN t), NEW i \in DOMAIN t, t[i] = EmptyLeaf,
         NEW leaf, leaf # EmptyLeaf, NEW s, NEW c, HeldAt(leaf, s, c) \in Nat,
         \A k \in TakenIn(t) : HeldAt(t[k], s, c) \in Nat,
         NEW u, DOMAIN u = DOMAIN t, u[i] = leaf, \A k \in DOMAIN t : k # i => u[k] = t[k]
  PROVE  LeafSum(u, s, c) = LeafSum(t, s, c) + HeldAt(leaf, s, c)
<1> DEFINE T == TakenIn(t)
           f == [k \in TakenIn(t) |-> HeldAt(t[k], s, c)]
           g == [k \in TakenIn(u) |-> HeldAt(u[k], s, c)]
<1>1. TakenIn(u) = T \cup {i} /\ i \notin T BY DEF TakenIn
<1>2. IsFiniteSet(T) BY FS_Subset DEF TakenIn
<1>3. \A k \in T : u[k] = t[k] BY <1>1 DEF TakenIn
<1>4. u[i] = leaf OBVIOUS
<1>5. g[i] = HeldAt(leaf, s, c) /\ \A k \in T : g[k] = f[k]
  <2>1. \A k \in T : k \in TakenIn(u) BY <1>1
  <2>2. i \in TakenIn(u) BY <1>1
  <2>3. g[i] = HeldAt(u[i], s, c) BY <2>2
  <2>4. \A k \in T : g[k] = HeldAt(u[k], s, c) /\ f[k] = HeldAt(t[k], s, c) BY <2>1
  <2> HIDE DEF f, g, T
  <2>5. QED BY <1>3, <1>4, <2>3, <2>4
<1>6. \A k \in T : f[k] \in Nat OBVIOUS
<1>7. LeafSum(u, s, c) = SumFunctionOnSet(g, T \cup {i}) /\ LeafSum(t, s, c) = SumFunctionOnSet(f, T)
  BY <1>1 DEF LeafSum
<1> HIDE DEF f, g, T
<1>8. SumFunctionOnSet(g, T \cup {i}) = SumFunctionOnSet(g, T) + g[i]
  BY <1>1, <1>2, <1>5, <1>6, SumAdd
<1>9. SumFunctionOnSet(g, T) = SumFunctionOnSet(f, T) BY <1>2, <1>5, SumSame
<1>10. QED BY <1>5, <1>7, <1>8, <1>9

(* A batch that ends well has tied every user to its leaf. *)
LEMMA EndsSpans ==
  ASSUME CircuitTypeOK, Ends(model, ops, cex)
  PROVE  \A i \in DOMAIN ops : Spans(ops[i], Columns(model))
<1>1. CASE model = "T1"
  <2>1. T1Ends(ops, cex) BY <1>1 DEF Ends
  <2>2. Columns(model) = {"equity", "debt"} BY <1>1 DEF Columns, Pools
  <2>3. QED BY <2>1, <2>2 DEF T1Ends, Spans
<1>2. CASE model = "T2"
  <2>1. T2Ends(ops, cex) BY <1>2 DEF Ends
  <2>2. Columns(model) = {"equity", "debt", "collateral"} BY <1>2 DEF Columns, Pools
  <2>3. QED BY <2>1, <2>2 DEF T2Ends
<1>3. CASE model = "T3"
  <2>1. T3Ends(ops, cex) BY <1>3 DEF Ends
  <2>2. Columns(model) = {"equity", "debt", "collateral"} BY <1>3 DEF Columns, Pools
  <2>3. QED BY <2>1, <2>2 DEF T3Ends
<1>4. CASE model = "T4"
  <2>1. T4Ends(ops, cex) BY <1>4 DEF Ends
  <2>2. Columns(model) = {"equity", "debt", "loan", "margin", "portfolio_margin"}
    BY <1>4 DEF Columns, Pools
  <2>3. QED BY <2>1, <2>2 DEF T4Ends
<1>5. QED BY <1>1, <1>2, <1>3, <1>4 DEF CircuitTypeOK, Models

(* Totals this small do not wrap around when a value is added. *)
LEMMA NoWrap ==
  ASSUME CircuitTypeOK, NEW n \in Nat, n < shape.users,
         NEW x \in Nat, x <= (n + 1) * MaxValue, NEW v \in Uint64
  PROVE  /\ (x + v) % Modulus = x + v
         /\ x + v <= (n + 1 + 1) * MaxValue
<1>1. shape.users \in Nat /\ (shape.users + 1) * MaxValue < Modulus
  BY BatchAssumption DEF CircuitTypeOK
<1> DEFINE k == shape.users
<1>2. MaxValue \in Nat /\ Modulus \in Nat BY RulesAssumption
<1>3. v \in Nat /\ v <= MaxValue BY <1>2 DEF Uint64
<1> HIDE DEF k
<1>4. (n + 1 + 1) * MaxValue = (n + 1) * MaxValue + MaxValue
  BY <1>2, SMTT(30)
<1>5. (n + 1 + 1) * MaxValue <= (k + 1) * MaxValue
  <2>1. n + 1 + 1 <= k + 1 /\ k \in Nat BY <1>1 DEF k
  <2>2. QED BY <1>2, <2>1, SMTT(30)
<1>6. (n + 1) * MaxValue \in Nat /\ (k + 1) * MaxValue \in Nat
  BY <1>1, <1>2, SMTT(30) DEF k
<1>7. (k + 1) * MaxValue < Modulus BY <1>1 DEF k
<1>8. x + v <= (n + 1 + 1) * MaxValue /\ x + v < Modulus
  <2> DEFINE a == (n + 1) * MaxValue
             b == (k + 1) * MaxValue
             d == (n + 1 + 1) * MaxValue
  <2>1. d = a + MaxValue /\ d <= b /\ b < Modulus /\ a \in Nat /\ b \in Nat /\ x <= a
    BY <1>4, <1>5, <1>6, <1>7
  <2> HIDE DEF a, b, d
  <2>2. x + v <= d /\ x + v < Modulus BY <1>2, <1>3, <2>1
  <2>3. QED BY <2>2 DEF d
<1>9. x + v \in Nat BY <1>3
<1>10. (x + v) % Modulus = x + v BY <1>2, <1>8, <1>9
<1>11. QED BY <1>8, <1>10

LEMMA InitTotals == CircuitInit => TotalsInv
<1> SUFFICES ASSUME CircuitInit PROVE TotalsInv OBVIOUS
<1>1. LeafInv BY InitLeafInv
<1>2. TakenIn(tree) = {} /\ tree = proved.tree /\ cex = proved.cex /\ phase = "idle"
  BY DEF CircuitInit, TakenIn, NoLeaves
<1>3. \A s \in Slots : \A c \in Columns(model) :
        cex[s][c] = 0 /\ LeafSum(tree, s, c) = 0
  BY <1>2, SumEmpty DEF LeafSum, CircuitInit, Nothing
<1>4. QED BY <1>1, <1>2, <1>3 DEF TotalsInv, TotalsAreTheLeaves

LEMMA StartBatchTotals == TotalsInv /\ StartBatch => TotalsInv'
<1> SUFFICES ASSUME TotalsInv, StartBatch PROVE TotalsInv' OBVIOUS
<1>1. LeafInv /\ LeafInv' BY StartBatchKeeps DEF TotalsInv
<1>2. /\ UNCHANGED <<model, static, tree, cex, proved>>
      /\ phase = "idle" /\ phase' = "users" /\ ops' = <<>>
  BY DEF StartBatch
<1>3. InRange(model, cex)
  BY DEF StartBatch, Starts, T1Starts, T2Starts, T3Starts, T4Starts
<1>4. TotalsAreTheLeaves /\ tree = proved.tree /\ cex = proved.cex
  BY <1>2 DEF TotalsInv
<1>5. AreTheLeaves(cex, tree, 0 + 1)
  <2>1. (0 + 1) * MaxValue = MaxValue /\ MaxValue \in Nat BY RulesAssumption
  <2>2. QED BY <1>3, <1>4, <2>1 DEF AreTheLeaves, InRange, Uint64, TotalsAreTheLeaves
<1>6. Len(ops') = 0 BY <1>2
<1>7. AreTheLeaves(cex, tree, Len(ops) + 1)' BY <1>2, <1>5, <1>6 DEF AreTheLeaves
<1>8. TotalsAreTheLeaves' BY <1>2, <1>4 DEF TotalsAreTheLeaves
<1>9. (\A i \in TakenIn(tree) : \A s \in Slots : \A c \in Columns(model) :
         HeldAt(tree[i], s, c) \in Nat)'
  BY <1>2 DEF TotalsInv
<1>10. QED BY <1>1, <1>2, <1>7, <1>8, <1>9 DEF TotalsInv

LEMMA TakeUserTotals ==
  ASSUME TotalsInv, NEW op \in OfShape, TakeUser(op)
  PROVE  TotalsInv'
<1> DEFINE leaf == LeafOf(model, op, static)
<1>1. LeafInv /\ LeafInv' /\ CircuitTypeOK BY TakeUserKeeps DEF TotalsInv, LeafInv
<1>2. UNCHANGED <<model, static, phase, shape, proved>> /\ phase = "users" BY DEF TakeUser
<1>3. /\ op \in Witnesses /\ User(model, op, static)
      /\ op.index \in DOMAIN tree /\ tree[op.index] = EmptyLeaf
      /\ tree' = [tree EXCEPT ![op.index] = leaf]
  BY DEF TakeUser, WasEmpty, OfShape, Ops, Witnesses
<1>4. leaf # EmptyLeaf
  <2>1. leaf.id = op.id BY DEF LeafOf
  <2>2. op.id \in Ids BY <1>1, <1>3, OpTyped
  <2>3. EmptyLeaf.id = "empty" BY DEF EmptyLeaf
  <2> HIDE DEF leaf
  <2>4. QED BY <2>1, <2>2, <2>3, BatchAssumption
<1>5. IsFiniteSet(DOMAIN tree)
  <2>1. DOMAIN tree = 0 .. (Leaves - 1) BY <1>1 DEF CircuitTypeOK
  <2>2. QED BY <2>1, FS_Interval, RulesAssumption
<1>6. \A s \in Slots : \A c \in Columns(model) : HeldAt(leaf, s, c) \in Nat
  BY <1>1, <1>3, HeldIsNatural
<1>7. \A i \in TakenIn(tree) : \A s \in Slots : \A c \in Columns(model) :
        HeldAt(tree[i], s, c) \in Nat
  BY DEF TotalsInv
<1>8. (\A i \in TakenIn(tree) : \A s \in Slots : \A c \in Columns(model) :
         HeldAt(tree[i], s, c) \in Nat)'
  <2> SUFFICES ASSUME NEW i \in TakenIn(tree'), NEW s \in Slots, NEW c \in Columns(model)
               PROVE  HeldAt(tree'[i], s, c) \in Nat
    BY <1>2
  <2> HIDE DEF leaf
  <2>1. CASE i = op.index BY <1>3, <1>6, <2>1
  <2>2. CASE i # op.index
    <3>1. i \in TakenIn(tree) /\ tree'[i] = tree[i] BY <1>3, <2>2 DEF TakenIn
    <3>2. QED BY <1>7, <3>1
  <2>3. QED BY <2>1, <2>2
<1>9. \A s \in Slots : \A c \in Columns(model) :
        LeafSum(tree', s, c) = LeafSum(tree, s, c) + HeldAt(leaf, s, c)
  <2> SUFFICES ASSUME NEW s \in Slots, NEW c \in Columns(model)
               PROVE  LeafSum(tree', s, c) = LeafSum(tree, s, c) + HeldAt(leaf, s, c)
    OBVIOUS
  <2>1. PICK i : i = op.index OBVIOUS
  <2>2. /\ HeldAt(leaf, s, c) \in Nat
        /\ \A k \in TakenIn(tree) : HeldAt(tree[k], s, c) \in Nat
    BY <1>6, <1>7
  <2> HIDE DEF leaf
  <2>3. /\ i \in DOMAIN tree /\ tree[i] = EmptyLeaf
        /\ DOMAIN tree' = DOMAIN tree /\ tree'[i] = leaf
        /\ \A k \in DOMAIN tree : k # i => tree'[k] = tree[k]
    BY <1>3, <2>1
  <2>4. QED BY <1>4, <1>5, <2>2, <2>3, LeafAdds
<1>10. /\ ops \in Seq(Witnesses) /\ ops' = Append(ops, op)
       /\ Len(ops) \in Nat /\ Len(ops) < shape.users
  BY <1>1 DEF CircuitTypeOK, TakeUser, Room
<1>11. Len(ops') = Len(ops) + 1 BY <1>3, <1>10
<1>12. ASSUME \A i \in DOMAIN ops' : Spans(ops'[i], Columns(model))
       PROVE  AreTheLeaves(cex', tree', Len(ops') + 1)
  <2>1. \A i \in DOMAIN ops : i \in DOMAIN ops' /\ ops'[i] = ops[i] BY <1>3, <1>10
  <2>2. Len(ops) + 1 \in DOMAIN ops' /\ ops'[Len(ops) + 1] = op BY <1>3, <1>10
  <2>3. Spans(op, Columns(model)) BY <1>12, <2>2
  <2>4. \A i \in DOMAIN ops : Spans(ops[i], Columns(model))
    <3>1. ASSUME NEW i \in DOMAIN ops PROVE Spans(ops[i], Columns(model))
      <4>1. Spans(ops'[i], Columns(model)) BY <1>12, <2>1
      <4>2. QED BY <2>1, <4>1
    <3>2. QED BY <3>1
  <2>5. AreTheLeaves(cex, tree, Len(ops) + 1) BY <1>2, <2>4 DEF TotalsInv
  <2>6. SUFFICES ASSUME NEW s \in Slots, NEW c \in Columns(model)
                 PROVE  /\ cex'[s][c] = LeafSum(tree', s, c)
                        /\ cex'[s][c] <= (Len(ops) + 1 + 1) * MaxValue
    BY <1>2, <1>11 DEF AreTheLeaves
  <2>7. HeldAt(leaf, s, c) = op.update[s][c] /\ op.update[s][c] \in Uint64
    BY <1>1, <1>3, <2>3, HeldIsCounted
  <2>8. cex[s][c] = LeafSum(tree, s, c) /\ cex[s][c] <= (Len(ops) + 1) * MaxValue
    BY <2>5 DEF AreTheLeaves
  <2>9. cex[s][c] \in Nat
    <3>1. cex[s][c] \in Field BY <1>1 DEF CircuitTypeOK
    <3>2. QED BY <3>1, RulesAssumption DEF Field
  <2>10. /\ (cex[s][c] + op.update[s][c]) % Modulus = cex[s][c] + op.update[s][c]
         /\ cex[s][c] + op.update[s][c] <= (Len(ops) + 1 + 1) * MaxValue
    BY <1>1, <1>10, <2>7, <2>8, <2>9, NoWrap
  <2>11. cex'[s][c] = (cex[s][c] + op.update[s][c]) % Modulus
    BY DEF TakeUser, Accumulated
  <2>12. LeafSum(tree', s, c) = cex[s][c] + op.update[s][c]
    BY <1>9, <2>7, <2>8
  <2>13. QED BY <2>10, <2>11, <2>12
<1>13. TotalsAreTheLeaves' BY <1>2 DEF TotalsAreTheLeaves, TotalsInv
<1>14. (phase = "users" /\ (\A i \in DOMAIN ops : Spans(ops[i], Columns(model)))
          => AreTheLeaves(cex, tree, Len(ops) + 1))'
  <2> HIDE DEF leaf
  <2>1. QED BY <1>2, <1>12 DEF AreTheLeaves
<1>15. QED BY <1>1, <1>2, <1>8, <1>13, <1>14 DEF TotalsInv

LEMMA EndBatchTotals == TotalsInv /\ EndBatch => TotalsInv'
<1> SUFFICES ASSUME TotalsInv, EndBatch PROVE TotalsInv' OBVIOUS
<1>1. LeafInv /\ LeafInv' /\ CircuitTypeOK BY EndBatchKeeps DEF TotalsInv, LeafInv
<1>2. UNCHANGED <<model, static>> /\ phase = "users" /\ phase' = "idle" BY DEF EndBatch
<1>3. CASE Ends(model, ops, cex)
  <2>1. proved' = [tree |-> tree, cex |-> cex] /\ UNCHANGED <<tree, cex>>
    BY <1>3 DEF EndBatch
  <2>2. AreTheLeaves(cex, tree, Len(ops) + 1)
    BY <1>1, <1>2, <1>3, EndsSpans DEF TotalsInv
  <2>3. TotalsAreTheLeaves' BY <1>2, <2>1, <2>2 DEF TotalsAreTheLeaves, AreTheLeaves
  <2>4. (\A i \in TakenIn(tree) : \A s \in Slots : \A c \in Columns(model) :
           HeldAt(tree[i], s, c) \in Nat)'
    BY <1>2, <2>1 DEF TotalsInv
  <2>5. QED BY <1>1, <1>2, <2>1, <2>3, <2>4 DEF TotalsInv
<1>4. CASE ~Ends(model, ops, cex)
  <2>1. tree' = proved.tree /\ cex' = proved.cex /\ UNCHANGED proved
    BY <1>4 DEF EndBatch
  <2>2. TotalsAreTheLeaves' BY <1>2, <2>1 DEF TotalsInv, TotalsAreTheLeaves
  <2>3. \A i \in TakenIn(proved.tree) : i \in TakenIn(tree) /\ tree[i] = proved.tree[i]
    BY <1>1 DEF LeafInv, CircuitTypeOK, Taken, TakenIn
  <2>4. (\A i \in TakenIn(tree) : \A s \in Slots : \A c \in Columns(model) :
           HeldAt(tree[i], s, c) \in Nat)'
    <3> SUFFICES ASSUME NEW i \in TakenIn(proved.tree), NEW s \in Slots, NEW c \in Columns(model)
                 PROVE  HeldAt(proved.tree[i], s, c) \in Nat
      BY <1>2, <2>1
    <3>1. HeldAt(tree[i], s, c) \in Nat BY <2>3 DEF TotalsInv
    <3>2. QED BY <2>3, <3>1
  <2>5. QED BY <1>1, <1>2, <2>1, <2>2, <2>4 DEF TotalsInv
<1>5. QED BY <1>3, <1>4

LEMMA StutterTotals == TotalsInv /\ UNCHANGED circuitVars => TotalsInv'
<1> SUFFICES ASSUME TotalsInv, UNCHANGED circuitVars PROVE TotalsInv' OBVIOUS
<1>1. LeafInv' BY StutterKeeps DEF TotalsInv
<1>2. QED BY <1>1 DEF TotalsInv, TotalsAreTheLeaves, AreTheLeaves, circuitVars

(* Every batch keeps the totals tied to the leaves of the tree it builds.  *)
THEOREM TotalsInvariant == CircuitSpec => []TotalsInv
<1>1. TotalsInv /\ [CircuitNext]_circuitVars => TotalsInv'
  BY StartBatchTotals, TakeUserTotals, EndBatchTotals, StutterTotals DEF CircuitNext
<1>2. QED BY InitTotals, <1>1, PTL DEF CircuitSpec

(* The totals a chain of proofs ends with are the sums over its leaves.    *)
THEOREM Totals == CircuitSpec => []TotalsAreTheLeaves
<1>1. TotalsInv => TotalsAreTheLeaves BY DEF TotalsInv
<1>2. QED BY TotalsInvariant, <1>1, PTL

-----------------------------------------------------------------------------
(* The verifier. *)

-----------------------------------------------------------------------------
(* Arithmetic of the ranges *)

\* multiplication by a natural number keeps the order
LEMMA TimesMonotone ==
  ASSUME NEW a \in Nat, NEW v \in Nat, NEW w \in Nat, v <= w
  PROVE  v * a <= w * a
  BY SMTT(30)

\* Average is large enough for W workers to cover the table
LEMMA AverageCovers ==
  ASSUME Size \in Nat
  PROVE  /\ Average \in Nat /\ Size <= W * Average
         /\ Size > 0 => Average > 0
<1> DEFINE n == Size + W - 1
<1>1. W \in Nat \ {0} BY PoolAssumption
<1>2. n \in Nat BY <1>1
<1>3. /\ n \div W \in Nat /\ W * (n \div W) <= n /\ n < W * (n \div W) + W
  <2> HIDE DEF n
  <2> QED BY <1>1, <1>2, DivBounds
<1>4. Average = n \div W BY DEF Average
<1>5. /\ Average \in Nat /\ n < W * Average + W BY <1>3, <1>4
<1>6. W * Average \in Nat BY <1>1, <1>5
<1>7. Size <= W * Average
  <2> DEFINE p == W * Average
  <2>1. p \in Nat /\ Size + W - 1 < p + W BY <1>5, <1>6
  <2> HIDE DEF p
  <2>2. Size <= p BY <2>1, <1>1
  <2> QED BY <2>2 DEF p
<1>8. Size > 0 => Average > 0
  <2> SUFFICES ASSUME Size > 0, Average = 0 PROVE FALSE BY <1>5
  <2>1. W * Average = 0 BY <1>1
  <2> QED BY <2>1, <1>7
<1> QED BY <1>5, <1>7, <1>8

\* every row belongs to the range of some worker, and to no other
LEMMA RangesCover ==
  ASSUME Size \in Nat
  PROVE  RangesPartition
<1> DEFINE a == Average
<1>1. W \in Nat \ {0} BY PoolAssumption
<1>2. a \in Nat /\ Size <= W * a /\ (Size > 0 => a > 0) BY AverageCovers
<1> SUFFICES ASSUME NEW i \in 0 .. (Size - 1)
             PROVE  \E w \in Workers :
                      /\ Start(w) <= i /\ i < End(w)
                      /\ \A v \in Workers : v # w => ~(Start(v) <= i /\ i < End(v))
  BY DEF RangesPartition
<1> DEFINE w == i \div a
<1>3. a \in Nat \ {0} /\ i \in Nat BY <1>2
<1>4. w \in Nat /\ a * w <= i /\ i < a * w + a BY <1>3, DivBounds
<1>5. \A v : Start(v) = v * a BY DEF Start
<1>6. \A v : End(v) = IF (v + 1) * a < Size THEN (v + 1) * a ELSE Size BY DEF End
<1> HIDE DEF a, w
<1>7. a * w = w * a /\ a * w + a = (w + 1) * a BY <1>3, <1>4
<1>8. w * a <= i /\ i < (w + 1) * a BY <1>4, <1>7
<1>9. w < W
  <2> SUFFICES ASSUME W <= w PROVE FALSE BY <1>1, <1>4
  <2>1. W * a <= w * a BY <1>1, <1>3, <1>4, TimesMonotone
  <2> QED BY <2>1, <1>2, <1>8, <1>1, <1>3, <1>4
<1>10. w \in Workers BY <1>1, <1>4, <1>9 DEF Workers
<1>11. Start(w) <= i /\ i < End(w) BY <1>5, <1>6, <1>8
<1>12. ASSUME NEW v \in Workers, v # w, Start(v) <= i, i < End(v) PROVE FALSE
  <2>1. v \in Nat BY <1>1 DEF Workers
  <2>2. v * a <= i /\ i < (v + 1) * a
    <3>1. (v + 1) * a \in Nat BY <2>1, <1>3
    <3> QED BY <3>1, <1>5, <1>6, <1>12, <1>3
  <2>3. CASE v < w
    <3>1. (v + 1) * a <= w * a BY <2>1, <2>3, <1>3, <1>4, TimesMonotone
    <3>2. (v + 1) * a \in Nat /\ w * a \in Nat BY <2>1, <1>3, <1>4
    <3> QED BY <3>1, <3>2, <2>2, <1>8, <1>3
  <2>4. CASE w < v
    <3>1. (w + 1) * a <= v * a BY <2>1, <2>4, <1>3, <1>4, TimesMonotone
    <3>2. (w + 1) * a \in Nat /\ v * a \in Nat BY <2>1, <1>3, <1>4
    <3> QED BY <3>1, <3>2, <2>2, <1>8, <1>3
  <2> QED BY <2>1, <2>3, <2>4, <1>12, <1>4
<1> QED BY <1>10, <1>11, <1>12

-----------------------------------------------------------------------------
(* The invariant *)

LEMMA Facts ==
  /\ W \in Nat \ {0} /\ Tiers \subseteq Nat \ {NoTier} /\ NoTier = -1
  /\ EmptyRoot \in Roots /\ EmptyCex \in Cexs /\ PublishedCex \in Cexs
  /\ EmptyPoint \in Point /\ ZeroRow \in ProofRow /\ ~Sound(ZeroRow)
BY PointAssumption, PoolAssumption
   DEF Point, EmptyPoint, ZeroRow, ProofRow, NoTier, Sound

LEMMA TypeFacts ==
  ASSUME TypeOK
  PROVE  /\ Size \in Nat
         /\ \A k \in 1 .. Size : table[k] \in ProofRow
         /\ \A i \in 0 .. (Size - 1) : rows[i] \in ProofRow
<1>1. table \in Seq(ProofRow) /\ rows \in [0 .. (Size - 1) -> ProofRow] BY DEF TypeOK
<1>2. Size \in Nat /\ \A k \in 1 .. Size : table[k] \in ProofRow BY <1>1 DEF Size
<1> QED BY <1>1, <1>2

LEMMA InitVerifierInv == Init => VerifierInv
<1> SUFFICES ASSUME Init PROVE VerifierInv OBVIOUS
<1> USE DEF Init
<1>1. table \in Seq(ProofRow) /\ Size \in Nat BY TableAssumption DEF Size
<1>2. TypeOK
  <2>1. rows \in [0 .. (Size - 1) -> ProofRow] BY Facts
  <2>2. next \in [Workers -> Nat] /\ vk \in [Workers -> Tiers \cup {NoTier}] OBVIOUS
  <2>3. read \in 0 .. Size /\ at \in 0 .. Size /\ faults \in Nat BY <1>1
  <2>4. prev \in Point BY Facts
  <2> QED BY <1>1, <2>1, <2>2, <2>3, <2>4 DEF TypeOK
<1>3. ErrorIsReal BY DEF ErrorIsReal
<1>4. IndexSoFar BY <1>1 DEF IndexSoFar
<1>5. PoolSoFar BY DEF PoolSoFar
<1>6. WalkSoFar BY <1>1 DEF WalkSoFar
<1> QED BY <1>2, <1>3, <1>4, <1>5, <1>6 DEF VerifierInv

LEMMA StutterVerifierInv ==
  ASSUME VerifierInv, UNCHANGED vars
  PROVE  VerifierInv'
BY DEF VerifierInv, vars, pool, walk, index, TypeOK, ErrorIsReal, IndexSoFar,
       PoolSoFar, WalkSoFar, Size, Start, Average, Sound

LEMMA IndexVerifierInv ==
  ASSUME VerifierInv, Index
  PROVE  VerifierInv'
<1> USE DEF Index, pool, walk, index
<1>1. TypeOK /\ ErrorIsReal /\ IndexSoFar /\ PoolSoFar /\ WalkSoFar
  BY DEF VerifierInv
<1>2. Size' = Size /\ Size \in Nat /\ \A w : Start(w)' = Start(w)
  BY <1>1, TypeFacts DEF Size, Start, Average
<1>3. read \in 0 .. Size /\ read < Size /\ read + 1 \in 1 .. Size
  BY <1>1, <1>2 DEF TypeOK
<1>4. table[read + 1] \in ProofRow BY <1>1, <1>3, TypeFacts
<1>5. failed = "none" /\ stopped = {} /\ at = 0 BY <1>1 DEF PoolSoFar, WalkSoFar
<1>6. TypeOK'
  <2>1. rows \in [0 .. (Size - 1) -> ProofRow] /\ read \in 0 .. Size BY <1>1 DEF TypeOK
  <2>2. rows' \in [0 .. (Size - 1) -> ProofRow] BY <2>1, <1>4
  <2>3. read' \in 0 .. Size BY <2>1, <1>2, <1>3
  <2>4. pc' \in {"load", "verify", "chain"} \cup Verdicts BY <1>1 DEF TypeOK, Verdicts
  <2>5. /\ table' = table /\ next' = next /\ vk' = vk /\ stopped' = stopped
        /\ failed' = failed /\ at' = at /\ prev' = prev
        /\ cancelled' = cancelled /\ faults' = faults
    OBVIOUS
  <2> QED BY <2>2, <2>3, <2>4, <2>5, <1>1, <1>2 DEF TypeOK
<1>7. ErrorIsReal' BY <1>1, <1>5 DEF ErrorIsReal
<1>8. IndexSoFar'
  <2>1. CASE table[read + 1].num \in 0 .. (Size - 1)
    <3>1. rows' = [rows EXCEPT ![table[read + 1].num] = table[read + 1]]
          /\ read' = read + 1 /\ pc' = pc /\ table' = table
      BY <2>1
    <3>2. \A k \in 1 .. read' : k \in 1 .. read \/ k = read + 1 BY <3>1, <1>3
    <3>3. \A k \in 1 .. read : k \in 1 .. read' BY <3>1, <1>3
    <3>4. read + 1 \in 1 .. read' BY <3>1, <1>3
    <3>5. rows \in [0 .. (Size - 1) -> ProofRow] BY <1>1 DEF TypeOK
    <3>6. \A k \in 1 .. read' : table[k].num \in 0 .. (Size - 1)
      BY <3>2, <2>1, <1>1 DEF IndexSoFar
    <3>7. ASSUME NEW i \in 0 .. (Size - 1)
          PROVE  \/ rows'[i] = ZeroRow /\ \A k \in 1 .. read' : table[k].num # i
                 \/ \E k \in 1 .. read' : table[k].num = i /\ rows'[i] = table[k]
      <4>1. CASE i = table[read + 1].num BY <4>1, <3>1, <3>4, <3>5
      <4>2. CASE i # table[read + 1].num
        <5>1. rows'[i] = rows[i] BY <4>2, <3>1, <3>5
        <5> QED BY <5>1, <4>2, <3>2, <3>3, <1>1 DEF IndexSoFar
      <4> QED BY <4>1, <4>2
    <3> QED BY <3>1, <3>6, <3>7, <1>2 DEF IndexSoFar
  <2>2. CASE table[read + 1].num \notin 0 .. (Size - 1)
    BY <2>2, <1>1, <1>2 DEF IndexSoFar
  <2> QED BY <2>1, <2>2
<1>9. PoolSoFar' BY <1>2, <1>5 DEF PoolSoFar
<1>10. WalkSoFar' BY <1>1, <1>2, <1>5 DEF WalkSoFar
<1> QED BY <1>6, <1>7, <1>8, <1>9, <1>10 DEF VerifierInv

LEMMA LoadedVerifierInv ==
  ASSUME VerifierInv, Loaded
  PROVE  VerifierInv'
<1> USE DEF Loaded, pool, walk, index
<1>1. TypeOK /\ ErrorIsReal /\ IndexSoFar /\ PoolSoFar /\ WalkSoFar
  BY DEF VerifierInv
<1>2. Size' = Size /\ Size \in Nat /\ \A w : Start(w)' = Start(w)
  BY <1>1, TypeFacts DEF Size, Start, Average
<1>3. failed = "none" /\ stopped = {} /\ at = 0 BY <1>1 DEF PoolSoFar, WalkSoFar
<1>4. Average \in Nat BY <1>2, AverageCovers
<1>5. \A w \in Workers : Start(w) \in Nat
  <2> SUFFICES ASSUME NEW w \in Workers PROVE Start(w) \in Nat OBVIOUS
  <2> DEFINE a == Average
  <2>1. a \in Nat /\ Start(w) = w * a BY <1>4 DEF Start
  <2> HIDE DEF a
  <2>2. w \in Nat BY Facts DEF Workers
  <2> QED BY <2>1, <2>2
<1>6. TypeOK'
  <2>1. next' \in [Workers -> Nat] BY <1>1, <1>5 DEF TypeOK
  <2> QED BY <2>1, <1>1, <1>2 DEF TypeOK, Verdicts
<1>7. ErrorIsReal' BY <1>1, <1>3 DEF ErrorIsReal
<1>8. IndexSoFar' BY <1>1, <1>2 DEF IndexSoFar
<1>9. PoolSoFar'
  <2>1. CASE pc' = "verify"
    <3>1. \A w \in Workers : next'[w] = Start(w) BY <2>1
    <3>2. \A w \in Workers : next'[w] >= Start(w) BY <3>1, <1>5
    <3>3. \A w \in Workers : \A i \in 0 .. (Size - 1) : ~(Start(w) <= i /\ i < next'[w])
      BY <3>1, <1>5
    <3> QED BY <2>1, <3>2, <3>3, <1>2, <1>3 DEF PoolSoFar
  <2>2. CASE pc' = "rejected" BY <2>2 DEF PoolSoFar
  <2> QED BY <2>1, <2>2
<1>10. WalkSoFar' BY <1>1, <1>2, <1>3 DEF WalkSoFar
<1> QED BY <1>6, <1>7, <1>8, <1>9, <1>10 DEF VerifierInv

LEMMA VerifyRowVerifierInv ==
  ASSUME VerifierInv, NEW w \in Workers, VerifyRow(w)
  PROVE  VerifierInv'
<1> USE DEF VerifyRow, walk, index
<1>1. TypeOK /\ ErrorIsReal /\ IndexSoFar /\ PoolSoFar /\ WalkSoFar
  BY DEF VerifierInv
<1>2. Size' = Size /\ Size \in Nat /\ \A v : Start(v)' = Start(v)
  BY <1>1, TypeFacts DEF Size, Start, Average
<1>3. next \in [Workers -> Nat] /\ vk \in [Workers -> Tiers \cup {NoTier}] BY <1>1 DEF TypeOK
<1>4. w \notin stopped /\ next[w] \in 0 .. (Size - 1)
  <2>1. w \notin stopped /\ ~(next[w] >= End(w)) BY DEF Done
  <2>2. End(w) \in Nat /\ End(w) <= Size
    <3> DEFINE e == (w + 1) * Average
    <3>1. e \in Nat
      <4> DEFINE a == Average
      <4>1. a \in Nat BY <1>2, AverageCovers
      <4>2. w \in Nat BY Facts DEF Workers
      <4> HIDE DEF a
      <4>3. (w + 1) * a \in Nat BY <4>1, <4>2
      <4> QED BY <4>3 DEF a
    <3>2. End(w) = IF e < Size THEN e ELSE Size BY DEF End
    <3> HIDE DEF e
    <3> QED BY <3>1, <3>2, <1>2
  <2>3. next[w] \in Nat BY <1>3
  <2> QED BY <2>1, <2>2, <2>3, <1>2
<1> DEFINE r == rows[next[w]]
<1>5. r \in ProofRow BY <1>1, <1>4, TypeFacts
<1>6. r.tier \in Nat /\ NoTier = -1 BY <1>5 DEF ProofRow, NoTier
<1>7. vk[w] \in Tiers \cup {NoTier} BY <1>3
<1>8. \/ \E why \in {"cancelled", "row"} :
              /\ Stop(w, why) /\ vk' \in [Workers -> Tiers \cup {NoTier}]
              /\ why = "cancelled" => cancelled
              /\ why = "row" => ~Sound(r)
      \/ /\ Sound(r) /\ vk' \in [Workers -> Tiers \cup {NoTier}]
         /\ next' = [next EXCEPT ![w] = @ + 1] /\ UNCHANGED <<stopped, failed>>
  <2>1. CASE cancelled /\ Stop(w, "cancelled") /\ UNCHANGED vk BY <2>1, <1>3
  <2>2. CASE ~r.intact /\ Stop(w, "row") /\ UNCHANGED vk BY <2>2, <1>3 DEF Sound
  <2>3. CASE r.tier \notin Tiers /\ Stop(w, "row") /\ UNCHANGED vk BY <2>3, <1>3 DEF Sound
  <2>4. CASE /\ r.intact /\ (r.tier = vk[w] \/ r.tier \in Tiers)
             /\ vk' = [vk EXCEPT ![w] = r.tier]
             /\ IF r.made = vk'[w]
                  THEN /\ next' = [next EXCEPT ![w] = @ + 1]
                       /\ UNCHANGED <<stopped, failed>>
                  ELSE Stop(w, "row")
    <3>1. r.tier \in Tiers BY <2>4, <1>6, <1>7
    <3>2. vk' \in [Workers -> Tiers \cup {NoTier}] /\ vk'[w] = r.tier BY <2>4, <3>1, <1>3
    <3>3. CASE r.made = r.tier BY <3>1, <3>2, <3>3, <2>4 DEF Sound
    <3>4. CASE r.made # r.tier BY <3>2, <3>4, <2>4 DEF Sound
    <3> QED BY <3>3, <3>4
  <2> QED BY <2>1, <2>2, <2>3, <2>4
<1>9. /\ pc = "verify" /\ pc' = pc /\ rows' = rows /\ read' = read /\ table' = table
      /\ at' = at /\ prev' = prev /\ cancelled' = cancelled /\ faults' = faults
  OBVIOUS
<1>10. CASE \E why \in {"cancelled", "row"} :
              /\ Stop(w, why) /\ vk' \in [Workers -> Tiers \cup {NoTier}]
              /\ why = "cancelled" => cancelled
              /\ why = "row" => ~Sound(r)
  <2>1. PICK why \in {"cancelled", "row"} :
              /\ Stop(w, why) /\ vk' \in [Workers -> Tiers \cup {NoTier}]
              /\ why = "cancelled" => cancelled
              /\ why = "row" => ~Sound(r)
    BY <1>10
  <2>2. /\ failed' = IF failed = "none" THEN why ELSE failed
        /\ stopped' = stopped \cup {w} /\ next' = next
    BY <2>1 DEF Stop, Record
  <2>3. TypeOK'
    <3>1. failed' \in {"none", "cancelled", "row", "key"} /\ stopped' \subseteq Workers
      BY <1>1, <2>2 DEF TypeOK
    <3> QED BY <3>1, <1>1, <1>2, <1>9, <2>1, <2>2 DEF TypeOK
  <2>4. ErrorIsReal' BY <1>1, <1>2, <1>4, <1>9, <2>1, <2>2 DEF ErrorIsReal, Sound
  <2>5. PoolSoFar' BY <1>1, <1>2, <1>9, <2>2 DEF PoolSoFar, Sound
  <2>6. IndexSoFar' /\ WalkSoFar' BY <1>1, <1>2, <1>9 DEF IndexSoFar, WalkSoFar
  <2> QED BY <2>3, <2>4, <2>5, <2>6 DEF VerifierInv
<1>11. CASE /\ Sound(r) /\ vk' \in [Workers -> Tiers \cup {NoTier}]
            /\ next' = [next EXCEPT ![w] = @ + 1] /\ UNCHANGED <<stopped, failed>>
  <2>1. TypeOK'
    <3>1. next' \in [Workers -> Nat] BY <1>3, <1>11
    <3> QED BY <3>1, <1>1, <1>2, <1>9, <1>11 DEF TypeOK
  <2>2. ErrorIsReal' BY <1>1, <1>2, <1>9, <1>11 DEF ErrorIsReal, Sound
  <2>3. PoolSoFar'
    <3>1. ASSUME NEW v \in Workers
          PROVE  /\ next'[v] >= Start(v)
                 /\ \A i \in 0 .. (Size - 1) : Start(v) <= i /\ i < next'[v] => Sound(rows[i])
      <4>1. /\ next[v] >= Start(v)
            /\ \A i \in 0 .. (Size - 1) : Start(v) <= i /\ i < next[v] => Sound(rows[i])
        BY <1>1, <1>9 DEF PoolSoFar
      <4>2. CASE v # w BY <4>1, <4>2, <1>3, <1>11
      <4>3. CASE v = w
        <5>1. next'[v] = next[v] + 1 /\ next[v] \in Nat BY <4>3, <1>3, <1>11
        <5>2. Start(v) \in Nat
          <6> DEFINE a == Average
          <6>1. a \in Nat /\ Start(v) = v * a BY <1>2, AverageCovers DEF Start
          <6> HIDE DEF a
          <6>2. v \in Nat BY Facts DEF Workers
          <6> QED BY <6>1, <6>2
        <5>3. Sound(rows[next[v]]) BY <4>3, <1>11
        <5>4. \A i \in 0 .. (Size - 1) : i < next'[v] => i < next[v] \/ i = next[v] BY <5>1, <1>2
        <5>5. next'[v] >= Start(v) BY <5>1, <5>2, <4>1
        <5> QED BY <5>3, <5>4, <5>5, <4>1
      <4> QED BY <4>2, <4>3
    <3> QED BY <3>1, <1>2, <1>9 DEF PoolSoFar, Sound
  <2>4. IndexSoFar' /\ WalkSoFar' BY <1>1, <1>2, <1>9 DEF IndexSoFar, WalkSoFar
  <2> QED BY <2>1, <2>2, <2>3, <2>4 DEF VerifierInv
<1> HIDE DEF VerifyRow
<1> QED BY <1>8, <1>10, <1>11

LEMMA KeyFailsVerifierInv ==
  ASSUME VerifierInv, NEW w \in Workers, KeyFails(w)
  PROVE  VerifierInv'
<1> USE DEF KeyFails, walk, index, Stop, Record
<1>1. TypeOK /\ ErrorIsReal /\ IndexSoFar /\ PoolSoFar /\ WalkSoFar
  BY DEF VerifierInv
<1>2. Size' = Size /\ Size \in Nat /\ \A v : Start(v)' = Start(v)
  BY <1>1, TypeFacts DEF Size, Start, Average
<1>3. TypeOK'
  <2>1. /\ faults' \in Nat /\ stopped' \subseteq Workers
        /\ failed' \in {"none", "cancelled", "row", "key"}
    BY <1>1 DEF TypeOK
  <2> QED BY <2>1, <1>1, <1>2 DEF TypeOK
<1>4. ErrorIsReal' BY <1>1, <1>2 DEF ErrorIsReal, Sound, TypeOK
<1>5. PoolSoFar' BY <1>1, <1>2 DEF PoolSoFar, Sound
<1>6. IndexSoFar' /\ WalkSoFar' BY <1>1, <1>2 DEF IndexSoFar, WalkSoFar
<1> QED BY <1>3, <1>4, <1>5, <1>6 DEF VerifierInv

LEMMA JoinVerifierInv ==
  ASSUME VerifierInv, Join
  PROVE  VerifierInv'
<1> USE DEF Join, pool, walk, index
<1>1. TypeOK /\ ErrorIsReal /\ IndexSoFar /\ PoolSoFar /\ WalkSoFar
  BY DEF VerifierInv
<1>2. Size' = Size /\ Size \in Nat /\ \A v : Start(v)' = Start(v)
  BY <1>1, TypeFacts DEF Size, Start, Average
<1>3. TypeOK' BY <1>1, <1>2 DEF TypeOK, Verdicts
<1>4. ErrorIsReal' BY <1>1, <1>2 DEF ErrorIsReal, Sound
<1>5. PoolSoFar'
  <2>1. CASE failed = "none"
    <3>1. stopped = {} BY <2>1, <1>1 DEF ErrorIsReal
    <3>2. ASSUME NEW i \in 0 .. (Size - 1)
          PROVE  Sound(rows[i])
      <4>1. PICK v \in Workers : Start(v) <= i /\ i < End(v)
        BY <1>2, RangesCover DEF RangesPartition
      <4>2. next[v] >= End(v) BY <3>1 DEF Done
      <4>3. next[v] \in Nat BY <1>1 DEF TypeOK
      <4>4. End(v) \in Int
        <5> DEFINE a == Average
        <5>1. a \in Nat BY <1>2, AverageCovers
        <5>2. End(v) = IF (v + 1) * a < Size THEN (v + 1) * a ELSE Size BY DEF End
        <5> HIDE DEF a
        <5>3. (v + 1) * a \in Int BY <5>1, Facts DEF Workers
        <5> QED BY <5>2, <5>3, <1>2
      <4>5. i < next[v] BY <4>1, <4>2, <4>3, <4>4, <1>2
      <4> QED BY <4>1, <4>5, <1>1 DEF PoolSoFar
    <3> QED BY <2>1, <3>2, <1>2 DEF PoolSoFar, Sound
  <2>2. CASE failed # "none" BY <2>2 DEF PoolSoFar
  <2> QED BY <2>1, <2>2
<1>6. IndexSoFar' BY <1>1, <1>2 DEF IndexSoFar
<1>7. WalkSoFar' BY <1>1, <1>2 DEF WalkSoFar
<1> QED BY <1>3, <1>4, <1>5, <1>6, <1>7 DEF VerifierInv

LEMMA LinkVerifierInv ==
  ASSUME VerifierInv, Link
  PROVE  VerifierInv'
<1> USE DEF Link, pool, walk, index
<1>1. TypeOK /\ ErrorIsReal /\ IndexSoFar /\ PoolSoFar /\ WalkSoFar
  BY DEF VerifierInv
<1>2. Size' = Size /\ Size \in Nat BY <1>1, TypeFacts DEF Size
<1>3. at \in 0 .. (Size - 1) BY <1>1, <1>2 DEF TypeOK
<1>4. rows[at].after \in Point BY <1>1, <1>3, TypeFacts DEF ProofRow
<1>5. TypeOK' BY <1>1, <1>2, <1>3, <1>4 DEF TypeOK, Verdicts
<1>6. ErrorIsReal' /\ IndexSoFar' BY <1>1, <1>2 DEF ErrorIsReal, IndexSoFar, Sound
<1>7. PoolSoFar' BY <1>1, <1>2 DEF PoolSoFar, Sound
<1>8. WalkSoFar'
  <2>1. CASE rows[at].before = prev
    <3>1. at' = at + 1 /\ prev' = rows[at].after /\ rows' = rows /\ pc' = "chain"
      BY <2>1
    <3>2. prev' = rows[at' - 1].after /\ at' # 0 BY <3>1, <1>3
    <3>3. \A i \in 0 .. (at' - 1) : i \in 0 .. (at - 1) \/ i = at BY <3>1, <1>3
    <3>4. rows[at].before = IF at = 0 THEN EmptyPoint ELSE rows[at - 1].after
      BY <2>1, <1>1 DEF WalkSoFar
    <3>5. \A i \in 0 .. (at' - 1) :
             rows[i].before = IF i = 0 THEN EmptyPoint ELSE rows[i - 1].after
      BY <3>3, <3>4, <1>1 DEF WalkSoFar
    <3> QED BY <3>1, <3>2, <3>5 DEF WalkSoFar
  <2>2. CASE rows[at].before # prev BY <2>2, <1>1, <1>2 DEF WalkSoFar
  <2> QED BY <2>1, <2>2
<1> QED BY <1>5, <1>6, <1>7, <1>8 DEF VerifierInv

LEMMA ConcludeVerifierInv ==
  ASSUME VerifierInv, Conclude
  PROVE  VerifierInv'
<1> USE DEF Conclude, pool, walk, index
<1>1. TypeOK /\ ErrorIsReal /\ IndexSoFar /\ PoolSoFar /\ WalkSoFar
  BY DEF VerifierInv
<1>2. Size' = Size /\ Size \in Nat BY <1>1, TypeFacts DEF Size
<1>3. at = Size BY <1>1, <1>2 DEF TypeOK
<1>4. TypeOK' BY <1>1, <1>2 DEF TypeOK, Verdicts
<1>5. ErrorIsReal' /\ IndexSoFar' BY <1>1, <1>2 DEF ErrorIsReal, IndexSoFar, Sound
<1>6. PoolSoFar' BY <1>1, <1>2 DEF PoolSoFar, Sound
<1>7. WalkSoFar' BY <1>1, <1>2, <1>3 DEF WalkSoFar
<1> QED BY <1>4, <1>5, <1>6, <1>7 DEF VerifierInv

LEMMA CancelVerifierInv ==
  ASSUME VerifierInv, Cancel
  PROVE  VerifierInv'
<1> USE DEF Cancel, pool, walk, index
<1>1. TypeOK /\ ErrorIsReal /\ IndexSoFar /\ PoolSoFar /\ WalkSoFar
  BY DEF VerifierInv
<1>2. Size' = Size /\ \A v : Start(v)' = Start(v) BY DEF Size, Start, Average
<1>3. TypeOK' BY <1>1, <1>2 DEF TypeOK
<1>4. ErrorIsReal' /\ IndexSoFar' BY <1>1, <1>2 DEF ErrorIsReal, IndexSoFar, Sound
<1>5. PoolSoFar' BY <1>1, <1>2 DEF PoolSoFar, Sound
<1>6. WalkSoFar' BY <1>1, <1>2 DEF WalkSoFar
<1> QED BY <1>3, <1>4, <1>5, <1>6 DEF VerifierInv

LEMMA NextVerifierInv == VerifierInv /\ [Next]_vars => VerifierInv'
<1> SUFFICES ASSUME VerifierInv, [Next]_vars PROVE VerifierInv' OBVIOUS
<1>1. CASE Index BY <1>1, IndexVerifierInv
<1>2. CASE Loaded BY <1>2, LoadedVerifierInv
<1>3. CASE Join BY <1>3, JoinVerifierInv
<1>4. CASE Link BY <1>4, LinkVerifierInv
<1>5. CASE Conclude BY <1>5, ConcludeVerifierInv
<1>6. ASSUME NEW w \in Workers, VerifyRow(w) PROVE VerifierInv'
  BY <1>6, VerifyRowVerifierInv
<1>7. ASSUME NEW w \in Workers, KeyFails(w) PROVE VerifierInv'
  BY <1>7, KeyFailsVerifierInv
<1>8. CASE Cancel BY <1>8, CancelVerifierInv
<1>9. CASE Finished BY <1>9, StutterVerifierInv DEF Finished
<1>10. CASE UNCHANGED vars BY <1>10, StutterVerifierInv
<1> QED
  BY <1>1, <1>2, <1>3, <1>4, <1>5, <1>6, <1>7, <1>8, <1>9, <1>10 DEF Next, Verifier

-----------------------------------------------------------------------------
(* What the verdict says of the table *)

\* a table whose numbers fill 0 .. Size - 1 has each of them once
LEMMA NumbersUnique ==
  ASSUME Size \in Nat,
         \A k \in 1 .. Size : table[k].num \in 0 .. (Size - 1),
         \A i \in 0 .. (Size - 1) : \E k \in 1 .. Size : table[k].num = i
  PROVE  \A j, k \in 1 .. Size : table[j].num = table[k].num => j = k
<1> DEFINE S == 1 .. Size
           T == 0 .. (Size - 1)
           f == [k \in S |-> table[k].num]
<1>1. IsFiniteSet(S) /\ IsFiniteSet(T) /\ Cardinality(S) = Cardinality(T)
  BY FS_Interval
<1>2. f \in Surjection(S, T) BY DEF Surjection
<1>3. f \in Injection(S, T) BY <1>1, <1>2, FS_SurjSameCardinalityImpliesInj
<1> QED BY <1>3 DEF Injection, IsInjective

\* and one that has each of them once has them all
LEMMA NumbersComplete ==
  ASSUME Size \in Nat,
         \A k \in 1 .. Size : table[k].num \in 0 .. (Size - 1),
         \A j, k \in 1 .. Size : table[j].num = table[k].num => j = k
  PROVE  \A i \in 0 .. (Size - 1) : \E k \in 1 .. Size : table[k].num = i
<1> DEFINE S == 1 .. Size
           T == 0 .. (Size - 1)
           f == [k \in S |-> table[k].num]
<1>1. IsFiniteSet(S) /\ IsFiniteSet(T) /\ Cardinality(S) = Cardinality(T)
  BY FS_Interval
<1>2. f \in Injection(S, T) BY DEF Injection, IsInjective
<1>3. f \in Surjection(S, T) BY <1>1, <1>2, FS_Injection
<1> QED BY <1>3 DEF Surjection

\* once the table is indexed and complete, each row sits at its number
LEMMA RowsAreTheTable ==
  ASSUME VerifierInv, read = Size,
         \A j, k \in 1 .. Size : table[j].num = table[k].num => j = k
  PROVE  \A k \in 1 .. Size : table[k].num \in 0 .. (Size - 1) /\ rows[table[k].num] = table[k]
BY DEF VerifierInv, IndexSoFar

\* the pool having passed every row, the table is complete
LEMMA PassedIsComplete ==
  ASSUME VerifierInv, pc \in {"chain", "accepted"}
  PROVE  /\ read = Size
         /\ \A j, k \in 1 .. Size : table[j].num = table[k].num => j = k
         /\ \A i \in 0 .. (Size - 1) : \E k \in 1 .. Size : table[k].num = i
<1>1. TypeOK /\ IndexSoFar /\ PoolSoFar BY DEF VerifierInv
<1>2. Size \in Nat BY <1>1, TypeFacts
<1>3. read = Size BY <1>1 DEF IndexSoFar
<1>4. \A i \in 0 .. (Size - 1) : rows[i] # ZeroRow BY <1>1, Facts DEF PoolSoFar
<1>5. \A i \in 0 .. (Size - 1) : \E k \in 1 .. Size : table[k].num = i
  BY <1>1, <1>3, <1>4 DEF IndexSoFar
<1>6. \A k \in 1 .. Size : table[k].num \in 0 .. (Size - 1) BY <1>1, <1>3 DEF IndexSoFar
<1> QED BY <1>2, <1>3, <1>5, <1>6, NumbersUnique

LEMMA AcceptedFromInv == VerifierInv => AcceptedIsProved
<1> SUFFICES ASSUME VerifierInv, pc = "accepted" PROVE Proves(table)
  BY DEF AcceptedIsProved
<1>1. TypeOK /\ IndexSoFar /\ PoolSoFar /\ WalkSoFar BY DEF VerifierInv
<1>2. Size \in Nat /\ Size > 0 /\ at = Size /\ prev.cex = PublishedCex /\ prev = rows[Size - 1].after
  BY <1>1, TypeFacts DEF WalkSoFar
<1>3. DOMAIN table = 1 .. Size /\ table # <<>> /\ Len(table) = Size
  BY <1>1, <1>2 DEF TypeOK, Size
<1>4. \A j, k \in 1 .. Size : table[j].num = table[k].num => j = k
  BY PassedIsComplete
<1>5. \A k \in 1 .. Size : table[k].num \in 0 .. (Size - 1) /\ rows[table[k].num] = table[k]
  BY <1>4, PassedIsComplete, RowsAreTheTable
<1>6. \A k \in 1 .. Size : Sound(table[k]) BY <1>1, <1>5 DEF PoolSoFar
<1>7. \A i \in 0 .. (Size - 1) :
         rows[i].before = IF i = 0 THEN EmptyPoint ELSE rows[i - 1].after
  BY <1>1, <1>2 DEF WalkSoFar
<1>8. ASSUME NEW k \in 1 .. Size
      PROVE  /\ table[k].num = 0 => table[k].before = EmptyPoint
             /\ table[k].num = Size - 1 => table[k].after.cex = PublishedCex
             /\ \A j \in 1 .. Size : table[k].num = table[j].num + 1 => table[k].before = table[j].after
  <2>1. table[k].num \in 0 .. (Size - 1) /\ rows[table[k].num] = table[k] BY <1>5
  <2>2. table[k].num = 0 => table[k].before = EmptyPoint BY <2>1, <1>7
  <2>3. table[k].num = Size - 1 => table[k].after.cex = PublishedCex BY <2>1, <1>2
  <2>4. ASSUME NEW j \in 1 .. Size, table[k].num = table[j].num + 1
        PROVE  table[k].before = table[j].after
    <3>1. table[j].num \in 0 .. (Size - 1) /\ rows[table[j].num] = table[j] BY <1>5
    <3>2. table[k].num # 0 /\ table[k].num - 1 = table[j].num BY <2>1, <2>4, <3>1
    <3>3. table[k].before = rows[table[k].num - 1].after BY <2>1, <3>2, <1>7
    <3> QED BY <3>1, <3>2, <3>3
  <2> QED BY <2>2, <2>3, <2>4
<1>9. \A j, k \in DOMAIN table : table[j].num = table[k].num => j = k BY <1>3, <1>4
<1>10. \A k \in DOMAIN table :
         /\ table[k].num \in 0 .. (Len(table) - 1) /\ Sound(table[k])
         /\ table[k].num = 0 => table[k].before = EmptyPoint
         /\ table[k].num = Len(table) - 1 => table[k].after.cex = PublishedCex
         /\ \A j \in DOMAIN table :
              table[k].num = table[j].num + 1 => table[k].before = table[j].after
  <2> TAKE k \in DOMAIN table
  <2>1. k \in 1 .. Size BY <1>3
  <2>2. table[k].num \in 0 .. (Len(table) - 1) /\ Sound(table[k]) BY <1>3, <1>5, <1>6, <2>1
  <2>3. /\ table[k].num = 0 => table[k].before = EmptyPoint
        /\ table[k].num = Len(table) - 1 => table[k].after.cex = PublishedCex
    BY <1>3, <1>8, <2>1
  <2>4. \A j \in DOMAIN table : table[k].num = table[j].num + 1 => table[k].before = table[j].after
    BY <1>3, <1>8, <2>1
  <2> QED BY <2>2, <2>3, <2>4
<1> QED BY <1>3, <1>9, <1>10 DEF Proves

-----------------------------------------------------------------------------
(* Why a table is refused *)

\* a complete table is indexed row by row, and every row of it is sound
LEMMA CompleteTable ==
  ASSUME TypeOK, Proves(table)
  PROVE  /\ Size \in Nat /\ Size > 0
         /\ \A k \in 1 .. Size : table[k].num \in 0 .. (Size - 1) /\ Sound(table[k])
         /\ \A j, k \in 1 .. Size : table[j].num = table[k].num => j = k
         /\ \A i \in 0 .. (Size - 1) : \E k \in 1 .. Size : table[k].num = i
<1>1. DOMAIN table = 1 .. Size /\ Size \in Nat /\ Len(table) = Size
  BY TypeFacts DEF TypeOK, Size
<1>2. Size > 0 BY <1>1, EmptySeq DEF Proves, TypeOK
<1>3. /\ \A k \in 1 .. Size : table[k].num \in 0 .. (Size - 1) /\ Sound(table[k])
      /\ \A j, k \in 1 .. Size : table[j].num = table[k].num => j = k
  BY <1>1 DEF Proves
<1> QED BY <1>1, <1>2, <1>3, NumbersComplete

\* the rows of a complete table, once all are indexed
LEMMA CompleteRows ==
  ASSUME VerifierInv, Proves(table), read = Size
  PROVE  /\ \A i \in 0 .. (Size - 1) : Sound(rows[i])
         /\ \A i \in 0 .. (Size - 1) :
              rows[i].before = IF i = 0 THEN EmptyPoint ELSE rows[i - 1].after
         /\ rows[Size - 1].after.cex = PublishedCex
<1>1. TypeOK BY DEF VerifierInv
<1>2. /\ Size \in Nat /\ Size > 0
      /\ \A k \in 1 .. Size : table[k].num \in 0 .. (Size - 1) /\ Sound(table[k])
      /\ \A j, k \in 1 .. Size : table[j].num = table[k].num => j = k
      /\ \A i \in 0 .. (Size - 1) : \E k \in 1 .. Size : table[k].num = i
  BY <1>1, CompleteTable
<1>3. DOMAIN table = 1 .. Size /\ Len(table) = Size BY <1>1 DEF TypeOK, Size
<1>4. \A k \in 1 .. Size : rows[table[k].num] = table[k] BY <1>2, RowsAreTheTable
<1>5. ASSUME NEW i \in 0 .. (Size - 1)
      PROVE  Sound(rows[i]) /\ rows[i].before = IF i = 0 THEN EmptyPoint ELSE rows[i - 1].after
  <2>1. PICK k \in 1 .. Size : table[k].num = i BY <1>2
  <2>2. rows[i] = table[k] BY <2>1, <1>4
  <2>3. CASE i = 0 BY <2>1, <2>2, <2>3, <1>2, <1>3 DEF Proves
  <2>4. CASE i # 0
    <3>1. i - 1 \in 0 .. (Size - 1) BY <2>4, <1>2
    <3>2. PICK j \in 1 .. Size : table[j].num = i - 1 BY <3>1, <1>2
    <3>3. rows[i - 1] = table[j] BY <3>2, <1>4
    <3>4. table[k].num = table[j].num + 1 BY <2>1, <3>2
    <3>5. table[k].before = table[j].after BY <3>4, <1>3 DEF Proves
    <3> QED BY <2>2, <2>4, <3>3, <3>5, <1>2
  <2> QED BY <2>3, <2>4
<1>6. rows[Size - 1].after.cex = PublishedCex
  <2>1. Size - 1 \in 0 .. (Size - 1) BY <1>2
  <2>2. PICK k \in 1 .. Size : table[k].num = Size - 1 BY <2>1, <1>2
  <2>3. rows[Size - 1] = table[k] BY <2>2, <1>4
  <2>4. table[k].after.cex = PublishedCex BY <2>2, <1>3 DEF Proves
  <2> QED BY <2>3, <2>4
<1> QED BY <1>5, <1>6

LEMMA NextProvedIsAccepted ==
  VerifierInv /\ ProvedIsAccepted /\ [Next]_vars => ProvedIsAccepted'
<1> SUFFICES ASSUME VerifierInv, ProvedIsAccepted, [Next]_vars,
                    pc' \in {"rejected", "panicked"}, Proves(table)'
             PROVE  cancelled' \/ faults' > 0
  BY DEF ProvedIsAccepted
<1> USE DEF pool, walk, index
<1>1. TypeOK /\ ErrorIsReal /\ IndexSoFar /\ PoolSoFar /\ WalkSoFar BY DEF VerifierInv
<1>2. table' = table /\ Proves(table)
  <2>1. table' = table
    BY DEF Next, Verifier, Index, Loaded, Join, Link, Conclude, VerifyRow, KeyFails,
           Cancel, Finished, vars
  <2> QED BY <2>1 DEF Proves, Sound
<1>3. /\ Size \in Nat /\ Size > 0
      /\ \A k \in 1 .. Size : table[k].num \in 0 .. (Size - 1)
  BY <1>1, <1>2, CompleteTable
<1>4. CASE Index
  <2>1. read + 1 \in 1 .. Size BY <1>4, <1>1, <1>3 DEF Index, TypeOK
  <2>2. table[read + 1].num \in 0 .. (Size - 1) BY <2>1, <1>3
  <2>3. pc' = "load" BY <1>4, <2>2 DEF Index
  <2> QED BY <2>3
<1>5. CASE Loaded BY <1>5, <1>3 DEF Loaded
<1>6. CASE Join
  <2>1. read = Size /\ failed # "none" BY <1>6, <1>1 DEF Join, IndexSoFar
  <2>2. failed # "row" BY <2>1, <1>1, <1>2, CompleteRows DEF ErrorIsReal
  <2>3. cancelled \/ faults > 0 BY <2>1, <2>2, <1>1 DEF ErrorIsReal, TypeOK
  <2> QED BY <2>3, <1>6 DEF Join
<1>7. CASE Link
  <2>1. read = Size BY <1>7, <1>1 DEF Link, IndexSoFar
  <2>2. at \in 0 .. (Size - 1) BY <1>7, <1>1, <1>3 DEF Link, TypeOK
  <2>3. rows[at].before = prev BY <2>1, <2>2, <1>1, <1>2, CompleteRows DEF WalkSoFar
  <2> QED BY <2>3, <1>7 DEF Link
<1>8. CASE Conclude
  <2>1. read = Size /\ at = Size BY <1>8, <1>1, <1>3 DEF Conclude, IndexSoFar, TypeOK
  <2>2. prev = rows[Size - 1].after BY <2>1, <1>1, <1>3 DEF WalkSoFar
  <2>3. prev.cex = PublishedCex BY <2>1, <2>2, <1>2, CompleteRows
  <2> QED BY <2>3, <1>3, <1>8 DEF Conclude
<1>9. ASSUME NEW w \in Workers, VerifyRow(w) \/ KeyFails(w) PROVE FALSE
  BY <1>9 DEF VerifyRow, KeyFails
<1>10. CASE Cancel BY <1>10 DEF Cancel
<1>11. CASE UNCHANGED vars BY <1>11, <1>2 DEF vars, ProvedIsAccepted
<1>12. CASE Finished BY <1>11, <1>12 DEF Finished
<1> QED
  BY <1>4, <1>5, <1>6, <1>7, <1>8, <1>9, <1>10, <1>11, <1>12 DEF Next, Verifier

-----------------------------------------------------------------------------
(* Theorems *)

(* Everything the loop, the pool and the walk have established holds at    *)
(* every step of every interleaving (VerifierInv).                         *)
THEOREM VerifierInvariant == Spec => []VerifierInv
<1>1. Init => VerifierInv BY InitVerifierInv
<1>2. VerifierInv /\ [Next]_vars => VerifierInv' BY NextVerifierInv
<1> QED BY <1>1, <1>2, PTL DEF Spec

(* The state of the verifier is well typed (TypeOK). *)
THEOREM VerifierTypeCorrect == Spec => []TypeOK
<1>1. VerifierInv => TypeOK BY DEF VerifierInv
<1> QED BY <1>1, VerifierInvariant, PTL

(* The error the pool reports was met by some worker (ErrorIsReal). *)
THEOREM PoolErrorIsReal == Spec => []ErrorIsReal
<1>1. VerifierInv => ErrorIsReal BY DEF VerifierInv
<1> QED BY <1>1, VerifierInvariant, PTL

(* The ranges of the pool partition the table for every size and every     *)
(* number of workers (RangesPartition).                                    *)
THEOREM PoolCoversTable == Spec => []RangesPartition
<1>1. VerifierInv => RangesPartition BY TypeFacts, RangesCover DEF VerifierInv
<1> QED BY <1>1, VerifierInvariant, PTL

(* A table the verifier accepts proves the published totals, however its   *)
(* rows are ordered and its workers interleave (AcceptedIsProved).         *)
THEOREM VerifierIsSound == Spec => []AcceptedIsProved
<1>1. VerifierInv => AcceptedIsProved BY AcceptedFromInv
<1> QED BY <1>1, VerifierInvariant, PTL

(* And one that proves them is refused only for a cancellation or a key    *)
(* that cannot be read (ProvedIsAccepted).                                 *)
THEOREM VerifierIsComplete == Spec => []ProvedIsAccepted
<1>1. Init => ProvedIsAccepted BY DEF Init, ProvedIsAccepted
<1>2. VerifierInv /\ ProvedIsAccepted /\ [Next]_vars => ProvedIsAccepted'
  BY NextProvedIsAccepted
<1> QED BY <1>1, <1>2, VerifierInvariant, PTL DEF Spec

=============================================================================
