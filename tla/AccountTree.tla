----------------------------- MODULE AccountTree -----------------------------
(***************************************************************************)
(* What the witness service and the user proof service make of a snapshot  *)
(* before either writes a row: accounts sorted into asset-count tiers, the *)
(* padding of each tier, and the leaves of the account tree.  WitnessRun   *)
(* does it account by account and batch by batch, EvidenceRun in one go.   *)
(***************************************************************************)
EXTENDS Integers, Sequences, FiniteSets, SequencesExt

CONSTANTS
  Ids,           \* account ids
  Snapshots,     \* the account lists a snapshot may hold, in stream order
  Assets,        \* asset slots, the capacity of the deployment
  Columns,       \* "equity", "debt" and the collateral pools of the model
  Tiers,         \* asset-count tiers of the batch shapes
  UsersPerBatch, \* users per batch, by tier
  Slots          \* leaves of the account tree

PaddingId == "padding"
NoId == "empty"
NoTier == 0

Accounts(ids) == [id : ids, index : Nat, bal : [Assets -> [Columns -> Nat]]]
Account == Accounts(Ids \cup {PaddingId})

ASSUME ShapeAssumption ==
  /\ Tiers \subseteq Nat \ {0} /\ IsFiniteSet(Tiers)
  /\ UsersPerBatch \in [Tiers -> Nat \ {0}]
ASSUME SnapshotAssumption ==
  Snapshots \subseteq Seq(Accounts(Ids)) /\ Ids \cap {PaddingId, NoId} = {}

(* Accounts have the index of their place in the stream, and an id each    *)
(* (docs/04-solvency-models.md, account_index).  Not an assumption of the  *)
(* models: the theorems that need it say so.                               *)
DenselyIndexed ==
  \A s \in Snapshots : \A i, j \in DOMAIN s :
    s[i].index = i - 1 /\ (s[i].id = s[j].id => i = j)

EmptyLeaf == [id |-> NoId, tier |-> NoTier]
EmptyTree == [i \in 0 .. (Slots - 1) |-> EmptyLeaf]
NoBalance == [a \in Assets |-> [c \in Columns |-> 0]]

-----------------------------------------------------------------------------
CountNonEmptyAssets(bal) ==
  Cardinality({a \in Assets : \E c \in Columns : bal[a][c] # 0})

\* the first tier that fits, as a set: empty when none does
PickAssetCountTier(count) ==
  {t \in Tiers : count <= t /\ \A u \in Tiers : count <= u => t <= u}

TierOf(account) == PickAssetCountTier(CountNonEmptyAssets(account.bal))

\* AccountLeafHash: a padding leaf carries the zero assets of its tier
Leaf(account, t) ==
  [id |-> account.id, tier |-> IF account.id = PaddingId THEN t ELSE NoTier]

\* mutant: whole batches only, the accounts left over are dropped
PaddingNone(n, t) == 0

\* PaddingAccounts: fill the last batch, AccountIndex counting up from start
PaddingCount(n, t) ==
  LET users == UsersPerBatch[t] IN ((n + users - 1) \div users) * users - n

PaddedWith(accounts, t, start) ==
  accounts \o [i \in 1 .. PaddingCount(Len(accounts), t) |->
                 [id |-> PaddingId, index |-> start + i - 1, bal |-> NoBalance]]

-----------------------------------------------------------------------------
\* accountsByTier: one tier's bucket, filled in stream order
ByTier(accounts, t) ==
  LET bucket[n \in 0 .. Len(accounts)] ==
        IF n = 0 THEN <<>>
        ELSE IF t \in TierOf(accounts[n]) THEN Append(bucket[n - 1], accounts[n])
        ELSE bucket[n - 1]
  IN  bucket[Len(accounts)]

\* sortedKeys: the tiers are counted up to here, those without accounts add nothing
LastTier == Max(Tiers \cup {0})

\* every account in the order of its tier, the real ones
Written(accounts) ==
  LET upTo[t \in 0 .. LastTier] ==
        IF t = 0 THEN <<>> ELSE upTo[t - 1] \o ByTier(accounts, t)
  IN  upTo[LastTier]

\* mutant: every tier pads from the same leaf
PaddedFromTotal(accounts) ==
  LET upTo[t \in 0 .. LastTier] ==
        IF t = 0 THEN <<>>
        ELSE IF t \notin Tiers THEN upTo[t - 1]
        ELSE LET users == PaddedWith(ByTier(accounts, t), t, Len(accounts))
             IN  upTo[t - 1] \o [i \in DOMAIN users |-> [account |-> users[i], tier |-> t]]
  IN  upTo[LastTier]

\* one more tier behind what has been laid out, its padding numbered on from there
WithTier(done, accounts, t) ==
  LET users == PaddedWith(ByTier(accounts, t), t, done.next)
  IN  [leaves |-> done.leaves \o [i \in DOMAIN users |-> [account |-> users[i], tier |-> t]],
       next |-> done.next + PaddingCount(Len(ByTier(accounts, t)), t)]

\* what is laid out up to each tier
LaidOut(accounts) ==
  LET upTo[t \in 0 .. LastTier] ==
        IF t = 0 THEN [leaves |-> <<>>, next |-> Len(accounts)]
        ELSE IF t \notin Tiers THEN upTo[t - 1]
        ELSE WithTier(upTo[t - 1], accounts, t)
  IN  upTo

\* every account with its tier, padding included, in the order it comes to a leaf
Padded(accounts) == LaidOut(accounts)[LastTier].leaves

\* populateTree
Filled(tree, leaves) ==
  LET after[k \in 0 .. Len(leaves)] ==
        IF k = 0 THEN tree
        ELSE [after[k - 1] EXCEPT ![leaves[k].account.index]
                                    = Leaf(leaves[k].account, leaves[k].tier)]
  IN  after[Len(leaves)]

\* the trees a run of the witness service over these accounts commits: after
\* any number of whole batches
Committed(accounts) ==
  LET leaves == Padded(accounts)
      Whole(k) == k = 0 \/ Cardinality({i \in 1 .. k : leaves[i].tier = leaves[k].tier})
                             % UsersPerBatch[leaves[k].tier] = 0
  IN  {Filled(EmptyTree, SubSeq(leaves, 1, k)) :
         k \in {n \in 0 .. Len(leaves) :
                  Whole(n) /\ \A i \in 1 .. n : leaves[i].account.index < Slots}}
==============================================================================
