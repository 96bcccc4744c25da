------------------------------ MODULE BatchCircuit ------------------------------
(***************************************************************************)
(* What a chain of batch proofs says.  Each batch starts from the tree and *)
(* totals the one before it ended with (the verifier's chain); its users   *)
(* are any assignment of index, id, slots, values and contributions that   *)
(* meets the constraints of CircuitRules, not only the witness service's.  *)
(* An assignment that does not has no proof, and leaves nothing behind.    *)
(***************************************************************************)
EXTENDS CircuitRules

CONSTANTS
  Shapes,     \* the batch shapes of the profile: assets per user, users
  SlotLists,  \* the asset lists a witness may choose from, any slots
  Updates,    \* by model, the contributions a witness may choose
  Told,       \* by model, the values T1 lists
  Statics,    \* by model, prices and haircuts
  Ids

VARIABLES
  model, static,
  phase,   \* "idle" or "users"
  shape,   \* the shape of the batch
  ops,     \* the users of the batch so far
  tree,    \* the account tree, by leaf
  cex,     \* the totals, by slot and column
  proved   \* tree and totals at the end of the last batch that has a proof

circuitVars == <<model, static, phase, shape, ops, tree, cex, proved>>

ASSUME BatchAssumption ==
  /\ Shapes \subseteq [assets : Nat \ {0}, users : Nat \ {0}]
  \* one 64-bit total and a batch of 64-bit values stay below the field's order
  /\ \A sh \in Shapes : (sh.users + 1) * MaxValue < Modulus
  /\ "empty" \notin Ids
  /\ SlotLists \subseteq Seq(Nat)
  /\ \A m \in Models :
       /\ Updates[m] \subseteq [Slots -> [Columns(m) -> Field]]
       /\ Told[m] \subseteq Seq([Columns(m) -> Field])
       /\ Statics[m] \subseteq [price : [Slots -> Nat], weight : [Slots -> [Pools[m] -> Nat]]]

Ops(slots, told) ==
  [index : 0 .. Leaves, id : Ids, slots : slots, told : told, update : Updates[model]]
Witnesses == Ops(SlotLists, Told[model])

\* the variables of one batch: T1 lists a value for each asset
OfShape ==
  Ops({l \in SlotLists : Len(l) = shape.assets},
      {t \in Told[model] : model # "T1" \/ Len(t) = shape.assets})

NoLeaves == [i \in 0 .. (Leaves - 1) |-> EmptyLeaf]
Nothing(m) == [s \in Slots |-> [c \in Columns(m) |-> 0]]

CircuitInit ==
  /\ model \in Models /\ static \in Statics[model]
  /\ phase = "idle" /\ shape \in Shapes /\ ops = <<>>
  /\ tree = NoLeaves /\ cex = Nothing(model)
  /\ proved = [tree |-> NoLeaves, cex |-> Nothing(model)]

StartBatch ==
  /\ phase = "idle" /\ Starts(model, cex, static)
  /\ phase' = "users" /\ shape' \in Shapes /\ ops' = <<>>
  /\ UNCHANGED <<model, static, tree, cex, proved>>

\* mutant: the leaf before is not looked at
AnyLeaf(op) == op.index \in DOMAIN tree

\* VerifyMerkleProof of an empty leaf
WasEmpty(op) == op.index \in DOMAIN tree /\ tree[op.index] = EmptyLeaf

\* mutant: a user's contribution replaces the one before
Replaced(op) == op.update

\* afterCexAssets, in the field
Accumulated(op) ==
  [s \in Slots |-> [c \in Columns(model) |-> (cex[s][c] + op.update[s][c]) % Modulus]]

Room == Len(ops) < shape.users

\* one turn of the loop over CreateUserOps
TakeUser(op) ==
  /\ phase = "users" /\ Room
  /\ WasEmpty(op) /\ User(model, op, static)
  /\ ops' = Append(ops, op)
  /\ tree' = [tree EXCEPT ![op.index] = LeafOf(model, op, static)]
  /\ cex' = Accumulated(op)
  /\ UNCHANGED <<model, static, phase, shape, proved>>

EndBatch ==
  /\ phase = "users" /\ Len(ops) = shape.users
  /\ phase' = "idle" /\ ops' = <<>>
  /\ IF Ends(model, ops, cex)
       THEN proved' = [tree |-> tree, cex |-> cex] /\ UNCHANGED <<tree, cex>>
       ELSE tree' = proved.tree /\ cex' = proved.cex /\ UNCHANGED proved
  /\ UNCHANGED <<model, static, shape>>

CircuitNext == StartBatch \/ (\E op \in OfShape : TakeUser(op)) \/ EndBatch

CircuitSpec == CircuitInit /\ [][CircuitNext]_circuitVars

-----------------------------------------------------------------------------
(* Properties *)

CircuitTypeOK ==
  /\ model \in Models /\ static \in Statics[model]
  /\ phase \in {"idle", "users"}
  /\ shape \in Shapes /\ ops \in Seq(Witnesses) /\ Len(ops) <= shape.users
  /\ cex \in [Slots -> [Columns(model) -> Field]]
  /\ DOMAIN tree = 0 .. (Leaves - 1) /\ DOMAIN proved.tree = 0 .. (Leaves - 1)
  /\ proved.cex \in [Slots -> [Columns(model) -> Field]]

TakenIn(t) == {i \in DOMAIN t : t[i] # EmptyLeaf}
Taken == TakenIn(proved.tree)

HeldAt(leaf, s, c) ==
  SumFunctionOnSet([j \in DOMAIN leaf.slots |-> leaf.held[j][c]],
                   {j \in DOMAIN leaf.slots : leaf.slots[j] = s})

\* what the leaves of a tree hold of a slot
LeafSum(t, s, c) == SumFunctionOnSet([i \in TakenIn(t) |-> HeldAt(t[i], s, c)], TakenIn(t))

(* The totals a chain of proofs ends with are, slot by slot and column by  *)
(* column, the sum of what the leaves of its tree hold: nobody is left out *)
(* and nobody counts against another, although the prover chooses the      *)
(* contributions freely and only a linear combination ties them to leaves. *)
TotalsAreTheLeaves ==
  \A s \in Slots : \A c \in Columns(model) :
    proved.cex[s][c] = LeafSum(proved.tree, s, c)

\* what it owes is covered by what it may be credited with
LeafIsSolvent(m, leaf) ==
  /\ m = "T1" => leaf.debt <= leaf.equity
  /\ m # "T1" => leaf.debt <= leaf.collateral /\ Backed(m, leaf.held)

\* what it is credited with is never more than what it pledged
CreditIsCapped(m, leaf) ==
  \A j \in DOMAIN leaf.slots : \A p \in Pools[m] :
    Credit(leaf.held[j], static, leaf.slots[j], p)
      <= leaf.held[j][p] * static.price[leaf.slots[j]]

(* Every leaf in the tree of a proved chain is of a solvent account, on    *)
(* its own numbers, and no credit exceeds the collateral it is given for.  *)
LeavesAreSolvent ==
  \A i \in Taken : /\ LeafIsSolvent(model, proved.tree[i])
                   /\ CreditIsCapped(model, proved.tree[i])

(* The tree within a batch keeps every proved leaf, and each leaf it adds  *)
(* is solvent already when its user is taken.                              *)
LeafInv ==
  /\ CircuitTypeOK
  /\ \A i \in Taken : tree[i] = proved.tree[i]
  /\ phase = "users" => PricesInRange(static) /\ (model # "T1" => RatiosCapped(model, static))
  /\ \A i \in DOMAIN tree :
       tree[i] # EmptyLeaf => LeafIsSolvent(model, tree[i]) /\ CreditIsCapped(model, tree[i])

\* the totals are those of the leaves, and have not grown past n values
AreTheLeaves(totals, t, n) ==
  \A s \in Slots : \A c \in Columns(model) :
    totals[s][c] = LeafSum(t, s, c) /\ totals[s][c] <= n * MaxValue

(* Within a batch the totals are those of the leaves as long as every      *)
(* contribution so far is tied to its leaf, which is only known at the     *)
(* end, and they stay too small to wrap around in the field.               *)
TotalsInv ==
  /\ LeafInv /\ TotalsAreTheLeaves
  /\ \A i \in TakenIn(tree) : \A s \in Slots : \A c \in Columns(model) :
       HeldAt(tree[i], s, c) \in Nat
  /\ phase = "idle" => tree = proved.tree /\ cex = proved.cex
  /\ phase = "users" /\ (\A i \in DOMAIN ops : Spans(ops[i], Columns(model)))
       => AreTheLeaves(cex, tree, Len(ops) + 1)

(* An account that was ever proved stays as it was: no later batch takes   *)
(* it out or writes over it.                                               *)
LeavesAreFinal ==
  [][\A i \in Taken : i \in DOMAIN proved'.tree /\ proved'.tree[i] = proved.tree[i]]_circuitVars
==============================================================================
