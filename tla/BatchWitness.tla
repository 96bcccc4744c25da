------------------------------ MODULE BatchWitness ------------------------------
(***************************************************************************)
(* From the accounts a parser delivers to what the batch circuit is given. *)
(* The witness service buckets and pads the accounts, batches them and     *)
(* commits to each account and to the totals (streamAndBucket, buildBatch, *)
(* commitment.go); the prover decodes the batch, pads every account again  *)
(* on its own (SetBatchCreateUserCircuitWitness), and the circuit derives  *)
(* the same commitments a second time.  All of it is a function of the     *)
(* accounts, so it is stated as operators over the states of Snapshot; the *)
(* tables, the tree and the queue around it are WitnessRun's and           *)
(* ProverQueue's.  What the code does in a loop is a recursive function    *)
(* over the steps of the loop, which proofs can follow.                    *)
(*                                                                         *)
(* A commitment is the list of field elements it hashes, a field element   *)
(* the list of the numbers packed into it, the curve of a pool one element.*)
(***************************************************************************)
EXTENDS Snapshot

CONSTANTS
  Tiers,         \* asset counts of the batch shapes
  UsersPerBatch

\* one tier takes an account with every asset, none has more
ASSUME BatchAssumption ==
  UsersPerBatch \in Nat \ {0} /\ Tiers \subseteq 1 .. Capacity /\ Capacity \in Tiers

-----------------------------------------------------------------------------
(* Buckets and padding. *)

NoAmounts == [c \in Columns(model) |-> 0]

SlotsOf(account) == [i \in DOMAIN account.assets |-> account.assets[i].slot]

\* CountNonEmptyAssets
Count(account) ==
  Cardinality({i \in DOMAIN account.assets : account.assets[i].amounts # NoAmounts})

\* PickAssetCountTier
Tier(count) == CHOOSE t \in Tiers : count <= t /\ \A u \in Tiers : count <= u => t <= u

\* streamAndBucket: an account beyond every tier ends the run
Bucketed == \A account \in delivered : \E t \in Tiers : Count(account) <= t

Bucket(t) ==
  LET of(id) == CHOOSE account \in delivered : account.id = id
      members == {account.id : account \in {a \in delivered : Tier(Count(a)) = t}}
      upTo[k \in 0 .. Len(order)] ==
        IF k = 0 THEN <<>>
        ELSE upTo[k - 1] \o (IF order[k] \in members THEN <<of(order[k])>> ELSE <<>>)
  IN  upTo[Len(order)]

\* PaddingAccounts: as many empty assets as the tier has
PaddingAccount(t, index) ==
  [id |-> "padding", index |-> index, equity |-> 0, debt |-> 0, collateral |-> 0,
   assets |-> [j \in 1 .. t |-> [slot |-> j - 1, amounts |-> NoAmounts]]]

Lacking(t) == (-Len(Bucket(t))) % UsersPerBatch

\* padding indices run on from one tier to the next
PaddingStart(t) ==
  Cardinality(delivered) + MapThenSumSet(LAMBDA u : Lacking(u), {u \in Tiers : u < t})

WholeBucket(t) ==
  Bucket(t) \o [k \in 1 .. Lacking(t) |-> PaddingAccount(t, PaddingStart(t) + k - 1)]

\* persistBatches
BatchesOf(t) ==
  [b \in 1 .. (Len(WholeBucket(t)) \div UsersPerBatch) |->
     [tier |-> t,
      users |-> SubSeq(WholeBucket(t), (b - 1) * UsersPerBatch + 1, b * UsersPerBatch)]]

\* tier by tier
Batches == FlattenSeq([t \in 1 .. Capacity |-> IF t \in Tiers THEN BatchesOf(t) ELSE <<>>])

-----------------------------------------------------------------------------
(* The leaf of an account, as the host computes it. *)

From(first, n) == [k \in 1 .. n |-> first + k - 1]

\* empty assets go into the gap before an asset as long as there are any left
Placed(st, slot) ==
  LET gap == IF slot > st.next THEN Least2(st.left, slot - st.next) ELSE 0
  IN  [out |-> st.out \o From(st.next, gap) \o <<slot>>,
       left |-> st.left - gap, next |-> slot + 1]

\* and the rest behind the last
Padded(slots, target) ==
  LET placed[k \in 0 .. Len(slots)] ==
        IF k = 0 THEN [out |-> <<>>, left |-> target - Len(slots), next |-> 0]
        ELSE Placed(placed[k - 1], slots[k])
      end == placed[Len(slots)]
  IN  end.out \o From(end.next, end.left)

\* the slots of a leaf: the assets listed, in their order, and the gaps
HostSlots(account) == Padded(SlotsOf(account), Tier(Len(account.assets)))

HostHeld(account) ==
  LET slots == HostSlots(account)
      nth(j) == Cardinality({k \in 1 .. j : slots[k] \in Range(SlotsOf(account))})
  IN  [j \in DOMAIN slots |->
         IF slots[j] \in Range(SlotsOf(account)) /\ nth(j) \in DOMAIN account.assets
           THEN account.assets[nth(j)].amounts ELSE NoAmounts]

\* slot and columns of each asset, one after the other
Flat(slots, held, columns) ==
  FlattenSeq([j \in DOMAIN slots |-> <<slots[j]>> \o [k \in DOMAIN columns |-> held[j][columns[k]]]])

T1PaddingAccountAssets(account) ==
  Flat(HostSlots(account), HostHeld(account), <<"equity", "debt">>)
T2PaddingAccountAssets(account) ==
  Flat(HostSlots(account), HostHeld(account), <<"equity", "debt", "collateral">>)
T3PaddingAccountAssets(account) ==
  Flat(HostSlots(account), HostHeld(account), <<"equity", "debt", "collateral">>)
T4PaddingAccountAssets(account) ==
  Flat(HostSlots(account), HostHeld(account),
       <<"equity", "debt", "loan", "margin", "portfolio_margin">>)

\* three numbers to an element, zeros past the end
Threes(flat, elements) ==
  [i \in 1 .. elements |->
     [k \in 1 .. 3 |-> LET at == 3 * (i - 1) + k IN IF at \in DOMAIN flat THEN flat[at] ELSE 0]]

T1UserAssetsCommitment(account) ==
  Threes(T1PaddingAccountAssets(account), (Tier(Len(account.assets)) * 3 + 2) \div 3)
T2UserAssetsCommitment(account) ==
  Threes(T2PaddingAccountAssets(account), (Tier(Len(account.assets)) * 4 + 2) \div 3)
T3UserAssetsCommitment(account) ==
  Threes(T3PaddingAccountAssets(account), (Tier(Len(account.assets)) * 4 + 2) \div 3)
T4UserAssetsCommitment(account) ==
  Threes(T4PaddingAccountAssets(account), (Tier(Len(account.assets)) * 6 + 2) \div 3)

Leaf(account, collateral, assets) ==
  [id |-> account.id, equity |-> account.equity, debt |-> account.debt,
   collateral |-> collateral, assets |-> assets]

\* nil for the collateral, which hashes as zero
T1AccountLeafHash(account) == Leaf(account, 0, T1UserAssetsCommitment(account))
T2AccountLeafHash(account) == Leaf(account, account.collateral, T2UserAssetsCommitment(account))
T3AccountLeafHash(account) == Leaf(account, account.collateral, T3UserAssetsCommitment(account))
T4AccountLeafHash(account) == Leaf(account, account.collateral, T4UserAssetsCommitment(account))

-----------------------------------------------------------------------------
(* The totals, as the host commits to them: the elements of every slot,    *)
(* one slot after the other.                                               *)

BySlot(elements) == FlattenSeq([i \in 1 .. Capacity |-> elements[i - 1]])

T1CexAssetsCommitment(cex) ==
  BySlot([s \in Slots |-> <<<<cex[s]["equity"], cex[s]["debt"], static.price[s]>>>>])

T2CexAssetsCommitment(cex) ==
  BySlot([s \in Slots |->
    <<<<cex[s]["equity"], cex[s]["debt"], static.price[s]>>,
      <<cex[s]["collateral"], static.weight[s]["collateral"]>>>>])

T3CexAssetsCommitment(cex) ==
  BySlot([s \in Slots |->
    <<<<cex[s]["equity"], cex[s]["debt"], static.price[s]>>,
      <<cex[s]["collateral"]>>,
      <<static.weight[s]["collateral"]>>>>])

T4CexAssetsCommitment(cex) ==
  BySlot([s \in Slots |->
    <<<<cex[s]["equity"], cex[s]["debt"], static.price[s]>>,
      <<cex[s]["loan"], cex[s]["margin"], cex[s]["portfolio_margin"]>>>>
    \o [k \in 1 .. 3 |-> <<static.weight[s][<<"loan", "margin", "portfolio_margin">>[k]]>>]])

-----------------------------------------------------------------------------
(* buildBatch: what each account adds to the totals, its leaf, and the     *)
(* commitments before and after.                                           *)

Counted(cex, account, columns) ==
  [s \in Slots |-> [c \in Columns(model) |->
     IF c \notin columns THEN cex[s][c]
     ELSE cex[s][c] + Listed(account.assets, s, c)]]

After(batch, cex, columns) ==
  LET totals[i \in 0 .. Len(batch.users)] ==
        IF i = 0 THEN cex ELSE Counted(totals[i - 1], batch.users[i], columns)
  IN  totals[Len(batch.users)]

Sealed(batch, cex, after, leaves, commitments) ==
  [tier |-> batch.tier, users |-> batch.users, cex |-> cex, after |-> after,
   leaves |-> leaves, commitments |-> commitments]

T1BuildBatch(batch, cex) ==
  LET after == After(batch, cex, {"equity", "debt"})
  IN  Sealed(batch, cex, after, [i \in DOMAIN batch.users |-> T1AccountLeafHash(batch.users[i])],
             <<T1CexAssetsCommitment(cex), T1CexAssetsCommitment(after)>>)

T2BuildBatch(batch, cex) ==
  LET after == After(batch, cex, {"equity", "debt", "collateral"})
  IN  Sealed(batch, cex, after, [i \in DOMAIN batch.users |-> T2AccountLeafHash(batch.users[i])],
             <<T2CexAssetsCommitment(cex), T2CexAssetsCommitment(after)>>)

T3BuildBatch(batch, cex) ==
  LET after == After(batch, cex, {"equity", "debt", "collateral"})
  IN  Sealed(batch, cex, after, [i \in DOMAIN batch.users |-> T3AccountLeafHash(batch.users[i])],
             <<T3CexAssetsCommitment(cex), T3CexAssetsCommitment(after)>>)

T4BuildBatch(batch, cex) ==
  LET after == After(batch, cex, {"equity", "debt", "loan", "margin", "portfolio_margin"})
  IN  Sealed(batch, cex, after, [i \in DOMAIN batch.users |-> T4AccountLeafHash(batch.users[i])],
             <<T4CexAssetsCommitment(cex), T4CexAssetsCommitment(after)>>)

BuildBatch(batch, cex) ==
  CASE model = "T1" -> T1BuildBatch(batch, cex)
    [] model = "T2" -> T2BuildBatch(batch, cex)
    [] model = "T3" -> T3BuildBatch(batch, cex)
    [] model = "T4" -> T4BuildBatch(batch, cex)

\* RunWitness zeroes the totals of the file
Zeroed == [s \in Slots |-> NoAmounts]

\* an addition that overflows ends the run
Fits(totals) == \A s \in Slots : \A c \in Columns(model) : totals[s][c] <= MaxValue

WithBatch(run, batch) ==
  LET wit == BuildBatch(batch, run.cex)
  IN  IF run.failed \/ ~Fits(wit.after) THEN [run EXCEPT !.failed = TRUE]
      ELSE [run EXCEPT !.cex = wit.after, !.built = Append(@, wit)]

\* the batches of the run, each from the totals of the one before
Witnesses ==
  LET batches == Batches
      run[k \in 0 .. Len(batches)] ==
        IF k = 0 THEN [cex |-> Zeroed, failed |-> FALSE, built |-> <<>>]
        ELSE WithBatch(run[k - 1], batches[k])
  IN  run[Len(batches)].built

-----------------------------------------------------------------------------
(* The prover's view of a batch. *)

\* DecodeBatchWitness: one entry per slot, the last one listed stays
Dense(account) ==
  [s \in Slots |->
     LET at == {i \in DOMAIN account.assets : account.assets[i].slot = s}
     IN  IF at = {} THEN NoAmounts
         ELSE account.assets[CHOOSE i \in at : \A j \in at : j <= i].amounts]

Present(account, columns) ==
  {s \in Slots : \E c \in columns : Dense(account)[s][c] # 0}

\* the i-th of a set of numbers has i - 1 of them below it
Ascending(S) ==
  [i \in 1 .. Cardinality(S) |-> CHOOSE s \in S : Cardinality({r \in S : r < s}) = i - 1]

\* the non-empty slots in ascending order, and the gaps
Assigned(account, target, columns) ==
  [index |-> account.index, id |-> account.id, told |-> <<>>,
   slots |-> Padded(Ascending(Present(account, columns)), target),
   update |-> [s \in Slots |-> [c \in columns |-> Dense(account)[s][c]]]]

\* the target is the tier of the first user, for all of them
Target(wit, columns) == Tier(Cardinality(Present(wit.users[1], columns)))

AssignedUsers(wit, columns) ==
  [i \in DOMAIN wit.users |-> Assigned(wit.users[i], Target(wit, columns), columns)]

\* T1 lists the values beside the slots
T1CircuitWitness(wit) ==
  LET ops == AssignedUsers(wit, {"equity", "debt"})
      held(i, s) == IF s \in Present(wit.users[i], {"equity", "debt"})
                      THEN Dense(wit.users[i])[s] ELSE NoAmounts
  IN  [i \in DOMAIN ops |->
         [ops[i] EXCEPT !.told = [j \in DOMAIN ops[i].slots |-> held(i, ops[i].slots[j])]]]

T2CircuitWitness(wit) == AssignedUsers(wit, {"equity", "debt", "collateral"})

\* the tier indices and flags it computes as well are TierCurve's
T3CircuitWitness(wit) == AssignedUsers(wit, {"equity", "debt", "collateral"})
T4CircuitWitness(wit) ==
  AssignedUsers(wit, {"equity", "debt", "loan", "margin", "portfolio_margin"})

CircuitWitness(wit) ==
  CASE model = "T1" -> T1CircuitWitness(wit)
    [] model = "T2" -> T2CircuitWitness(wit)
    [] model = "T3" -> T3CircuitWitness(wit)
    [] model = "T4" -> T4CircuitWitness(wit)

-----------------------------------------------------------------------------
(* The commitments, as the circuit derives them. *)

\* whole elements, and a last one filled from the high end
ComputeFlatUint64Commitment(flat) ==
  LET whole == Len(flat) \div 3
      rest == Len(flat) % 3
  IN  [i \in 1 .. ((Len(flat) + 2) \div 3) |->
         IF i <= whole THEN SubSeq(flat, 3 * i - 2, 3 * i)
         ELSE SubSeq(flat, 3 * whole + 1, Len(flat)) \o [k \in 1 .. (3 - rest) |-> 0]]

CircuitLeaf(op) ==
  LET leaf == LeafOf(model, op, static)
      columns == CASE model = "T1" -> <<"equity", "debt">>
                   [] model \in {"T2", "T3"} -> <<"equity", "debt", "collateral">>
                   [] model = "T4" -> <<"equity", "debt", "loan", "margin", "portfolio_margin">>
  IN  Leaf(leaf, leaf.collateral, ComputeFlatUint64Commitment(Flat(leaf.slots, leaf.held, columns)))

\* commitments[currentIndex*counts ..]: a place for each element of each slot
PlaceOf(n, counts) == [slot |-> (n - 1) \div counts, at |-> (n - 1) % counts]

T1FillCexAssetCommitment(cex) ==
  [n \in 1 .. Capacity |-> <<cex[n - 1]["equity"], cex[n - 1]["debt"], static.price[n - 1]>>]

T2FillCexAssetCommitment(cex) ==
  [n \in 1 .. (Capacity * 2) |->
    LET s == PlaceOf(n, 2).slot IN
    CASE PlaceOf(n, 2).at = 0 -> <<cex[s]["equity"], cex[s]["debt"], static.price[s]>>
      [] PlaceOf(n, 2).at = 1 -> <<cex[s]["collateral"], static.weight[s]["collateral"]>>]

T3FillCexAssetCommitment(cex) ==
  [n \in 1 .. (Capacity * 3) |->
    LET s == PlaceOf(n, 3).slot IN
    CASE PlaceOf(n, 3).at = 0 -> <<cex[s]["equity"], cex[s]["debt"], static.price[s]>>
      [] PlaceOf(n, 3).at = 1 -> <<cex[s]["collateral"]>>
      [] PlaceOf(n, 3).at = 2 -> <<static.weight[s]["collateral"]>>]

T4FillCexAssetCommitment(cex) ==
  [n \in 1 .. (Capacity * 5) |->
    LET s == PlaceOf(n, 5).slot IN
    CASE PlaceOf(n, 5).at = 0 -> <<cex[s]["equity"], cex[s]["debt"], static.price[s]>>
      [] PlaceOf(n, 5).at = 1 -> <<cex[s]["loan"], cex[s]["margin"], cex[s]["portfolio_margin"]>>
      [] PlaceOf(n, 5).at = 2 -> <<static.weight[s]["loan"]>>
      [] PlaceOf(n, 5).at = 3 -> <<static.weight[s]["margin"]>>
      [] PlaceOf(n, 5).at = 4 -> <<static.weight[s]["portfolio_margin"]>>]

FillCexAssetCommitment(cex) ==
  CASE model = "T1" -> T1FillCexAssetCommitment(cex)
    [] model = "T2" -> T2FillCexAssetCommitment(cex)
    [] model = "T3" -> T3FillCexAssetCommitment(cex)
    [] model = "T4" -> T4FillCexAssetCommitment(cex)

\* afterCexAssets
Accumulated(cex, op) ==
  [s \in Slots |-> [c \in Columns(model) |-> (cex[s][c] + op.update[s][c]) % Modulus]]

\* the totals of the users so far
AfterUsers(cex, ops) ==
  LET totals[i \in 0 .. Len(ops)] ==
        IF i = 0 THEN cex ELSE Accumulated(totals[i - 1], ops[i])
  IN  totals[Len(ops)]

-----------------------------------------------------------------------------
(* Properties *)

\* no slot met twice, in order where the parser does not sort, solvent where it
\* does not look; and what the circuit checks and the host does not: values on
\* the curves, sums of at most 128 bits
Regular(account) ==
  /\ \A i, j \in DOMAIN account.assets :
       account.assets[i].slot = account.assets[j].slot => i = j
  /\ model \in {"T2", "T3"} => InOrder(account.assets)
  /\ model \in {"T3", "T4"} =>
       \A i \in DOMAIN account.assets : \A p \in Pools[model] :
         account.assets[i].amounts[p] * static.price[account.assets[i].slot] <= MaxCredit
  /\ IF model = "T1" THEN account.debt <= account.equity /\ account.equity <= MaxSum
     ELSE account.collateral <= MaxSum

\* the witness meets the circuit of its tier, and commits to what it derives
Provable(wit) ==
  LET ops == CircuitWitness(wit)
      after == AfterUsers(wit.cex, ops)
  IN  /\ Starts(model, wit.cex, static)
      /\ \A i \in DOMAIN ops : /\ Len(ops[i].slots) = wit.tier /\ User(model, ops[i], static)
                               /\ CircuitLeaf(ops[i]) = wit.leaves[i]
      /\ Ends(model, ops, after)
      /\ <<FillCexAssetCommitment(wit.cex), FillCexAssetCommitment(after)>> = wit.commitments

(* Every batch the witness service makes of accounts whose rows name each  *)
(* slot once, in ascending order for T2 and T3, has a proof: the users the *)
(* prover pads and orders on its own, real and padding, all fit the shape  *)
(* of the first, meet the circuit's constraints, and give the leaves and   *)
(* the totals the host has committed to.                                   *)
DeliveredIsProvable ==
  pc = "done" /\ Bucketed /\ (model = "T1" \/ committed # {}) =>
    \A k \in DOMAIN Witnesses :
      (\A i \in DOMAIN Witnesses[k].users : Regular(Witnesses[k].users[i]))
        => Provable(Witnesses[k])
==============================================================================
