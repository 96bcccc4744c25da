-------------------------- MODULE WitnessRun_proofs --------------------------
(***************************************************************************)
(* Safety of the witness run for every snapshot, tier table, tree and      *)
(* bound on failures: the rows of the table form one chain, written by one *)
(* run of the service, every account is written at its own leaf, and what  *)
(* a run leaves behind as the tree is whole batches of one run.            *)
(***************************************************************************)
EXTENDS WitnessRun, AccountTree_proofs

USE DEF Ended, Built, Batching

-----------------------------------------------------------------------------
(* Types of the helpers *)

LEMMA ZeroTyped ==
  Zero \in [Assets -> [Columns -> Nat]] /\ Zero \in Totals
  BY SizeAssumption DEF Zero, NoBalance, Totals

LEMMA CountNat ==
  ASSUME NEW bal PROVE CountNonEmptyAssets(bal) \in Nat
<1>1. IsFiniteSet({a \in Assets : \E c \in Columns : bal[a][c] # 0})
  BY FS_Subset, SizeAssumption
<1>2. QED BY <1>1, FS_CardinalityType DEF CountNonEmptyAssets

LEMMA PaddedTyped ==
  ASSUME NEW accounts \in Seq(Account), NEW t \in Tiers, NEW start \in Nat
  PROVE  PaddedWith(accounts, t, start) \in Seq(Account)
<1> DEFINE k == PaddingCount(Len(accounts), t)
           pad == [i \in 1 .. k |->
                     [id |-> PaddingId, index |-> start + i - 1, bal |-> Zero]]
<1>1. k \in Nat BY PaddingIs
<1>2. pad \in Seq(Account)
  <2> HIDE DEF k
  <2>1. \A i \in 1 .. k : start + i - 1 \in Nat BY <1>1
  <2>2. ASSUME NEW i \in 1 .. k
        PROVE  [id |-> PaddingId, index |-> start + i - 1, bal |-> Zero] \in Account
    BY <2>1, ZeroTyped DEF Account, Accounts
  <2>3. pad \in [1 .. k -> Account] BY <2>2
  <2> HIDE DEF pad
  <2>4. QED BY <1>1, <2>3, SeqDef
<1>3. accounts \o pad \in Seq(Account)
  <2> HIDE DEF pad
  <2>1. QED BY <1>2, ConcatProperties
<1>4. QED BY <1>3 DEF PaddedWith, Zero

LEMMA PlusTyped ==
  ASSUME TypeOK, NEW account \in Account, ~Overflows(account)
  PROVE  Plus(cex, account.bal) \in Totals
<1>1. ASSUME NEW a \in Assets, NEW c \in Columns
      PROVE  cex[a][c] + account.bal[a][c] \in 0 .. MaxTotal
  <2>1. cex[a][c] \in 0 .. MaxTotal BY DEF TypeOK, Totals
  <2>2. account.bal[a][c] \in Nat BY DEF Account, Accounts
  <2>3. QED BY <2>1, <2>2, SizeAssumption DEF Overflows
<1>2. QED BY <1>1 DEF Plus, Totals

LEMMA LeafTyped ==
  ASSUME NEW account \in Account, NEW t \in Tiers
  PROVE  Leaf(account, t) \in Leaves
  BY DEF Leaf, Leaves, Account, Accounts

LEMMA EmptyTreeTyped == EmptyTree \in Trees
<1>1. EmptyLeaf \in Leaves BY DEF EmptyLeaf, Leaves
<1>2. QED BY <1>1 DEF EmptyTree, Trees

-----------------------------------------------------------------------------
(* The chain invariant is inductive *)

(* A first run over an empty table and an empty tree starts the chain. *)
LEMMA InitInv == Init => ChainInv
<1> SUFFICES ASSUME Init PROVE ChainInv
  OBVIOUS
<1> USE DEF Init
<1>1. snapshot \in Seq(Account)
  <2>1. snapshot \in Seq(Accounts(Ids)) BY SnapshotAssumption
  <2>2. Accounts(Ids) \subseteq Account BY DEF Account, Accounts
  <2>3. QED BY <2>1, <2>2, SeqDef
<1>2. TypeOK
  <2>1. sent \in 0 .. Len(snapshot) BY <1>1
  <2>2. channel \in Seq(Account) /\ Len(channel) <= ChanCap
    BY SizeAssumption
  <2>3. buckets \in [Tiers -> Seq(Account)] BY DEF NoAccounts
  <2>4. tree \in Trees /\ disk \in Trees /\ cex \in Totals
    BY EmptyTreeTyped, ZeroTyped
  <2>5. table \in Seq(Row) /\ queue \in Seq(Account) OBVIOUS
  <2>6. snapshot \in Seq(Account) /\ pc = "load" BY <1>1
  <2>7. QED BY <2>1, <2>2, <2>3, <2>4, <2>5, <2>6, ZeroTyped DEF TypeOK
<1>3. QED BY <1>2 DEF ChainInv, RowsChain, OneRunPerTable, AtTip

(* What does not touch the table keeps the chain of its rows. *)
LEMMA SameTable ==
  ASSUME UNCHANGED table, RowsChain, OneRunPerTable
  PROVE  RowsChain' /\ OneRunPerTable'
  BY DEF RowsChain, OneRunPerTable

(* Streaming and bucketing keep the types. *)
LEMMA StreamTypes ==
  ASSUME TypeOK,
         \/ Send \/ Close \/ Load \/ Bucket \/ EndOfStream
         \/ StartTier \/ Finish \/ Cancel \/ Crash
  PROVE  TypeOK'
<1> USE SizeAssumption DEF TypeOK, state, chain, stored, bounds, producer
<1>1. CASE Send
  <2>1. snapshot[sent + 1] \in Account BY <1>1 DEF Send
  <2>2. channel' \in Seq(Account) /\ Len(channel') = Len(channel) + 1
    BY <1>1, <2>1, AppendProperties DEF Send
  <2>3. sent' \in 0 .. Len(snapshot) /\ Len(channel') <= ChanCap
    BY <1>1, <2>2 DEF Send
  <2>4. QED BY <1>1, <2>2, <2>3 DEF Send
<1>2. CASE Close BY <1>2 DEF Close
<1>3. CASE Load BY <1>3 DEF Load
<1>4. CASE Bucket
  <2>1. /\ Head(channel) \in Account /\ Tail(channel) \in Seq(Account)
        /\ Len(Tail(channel)) <= ChanCap
    BY <1>4, HeadTailProperties DEF Bucket
  <2>2. ASSUME NEW t \in TierOf(Head(channel)),
               buckets' = [buckets EXCEPT ![t] = Append(@, Head(channel))]
        PROVE  buckets' \in [Tiers -> Seq(Account)]
    <3>1. t \in Tiers BY DEF TierOf, PickAssetCountTier
    <3>2. Append(buckets[t], Head(channel)) \in Seq(Account)
      BY <2>1, <3>1, AppendProperties
    <3>3. QED BY <2>2, <3>1, <3>2
  <2>3. buckets' \in [Tiers -> Seq(Account)] BY <1>4, <2>2 DEF Bucket
  <2>4. pc' \in {"failed", "stream"} BY <1>4 DEF Bucket
  <2>5. QED BY <1>4, <2>1, <2>3, <2>4 DEF Bucket
<1>5. CASE EndOfStream BY <1>5 DEF EndOfStream
<1>6. CASE StartTier
  <2>1. PICK t \in Tiers :
          /\ tier' = t
          /\ queue' = PaddedWith(buckets[t], t, padding)
          /\ padding' = padding + PaddingCount(Len(buckets[t]), t)
    BY <1>6 DEF StartTier, NextTiers
  <2>2. buckets[t] \in Seq(Account) /\ Len(buckets[t]) \in Nat OBVIOUS
  <2>3. queue' \in Seq(Account) BY <2>1, <2>2, PaddedTyped
  <2>4. padding' \in Nat
    <3>1. PaddingCount(Len(buckets[t]), t) \in Nat BY <2>2, PaddingIs
    <3>2. QED BY <2>1, <3>1
  <2>5. QED BY <1>6, <2>1, <2>3, <2>4 DEF StartTier
<1>7. CASE Finish BY <1>7 DEF Finish
<1>8. CASE Cancel BY <1>8 DEF Cancel
<1>9. CASE Crash BY <1>9 DEF Crash
<1>10. QED BY <1>1, <1>2, <1>3, <1>4, <1>5, <1>6, <1>7, <1>8, <1>9

(* Streaming, bucketing and padding leave tree, totals and table alone. *)
LEMMA StreamInv ==
  ASSUME ChainInv,
         \/ Send \/ Close \/ Load \/ Bucket \/ EndOfStream
         \/ StartTier \/ Finish \/ Cancel \/ Crash
  PROVE  ChainInv'
<1>1. /\ UNCHANGED <<chain, stored, run>>
      /\ \/ pc' = pc /\ UNCHANGED <<tier, queue>>
         \/ pc' \in {"failed", "crashed"}
         \/ pc \in {"load", "stream", "tier"} /\ pc' \in {"stream", "tier", "batch", "done"}
  BY DEF Send, Close, Load, Bucket, EndOfStream, StartTier, Finish, Cancel, Crash, state
<1>2. TypeOK' BY StreamTypes DEF ChainInv
<1>3. RowsChain' /\ OneRunPerTable'
  BY <1>1, SameTable DEF ChainInv, stored
<1>4. QED BY <1>1, <1>2, <1>3 DEF ChainInv, AtTip, chain, stored

(* A batch is built on what the last row ended with, one account at a time *)
(* (buildBatch), within the tree and within the totals' width.             *)
LEMMA BatchInv ==
  ASSUME ChainInv, StartBatch \/ AddUser \/ EndBatch
  PROVE  ChainInv'
<1>1. UNCHANGED <<table, run>> /\ RowsChain' /\ OneRunPerTable'
  BY SameTable DEF ChainInv, StartBatch, AddUser, EndBatch, stored
<1>2. UNCHANGED <<disk, height>>
  BY DEF StartBatch, AddUser, EndBatch, stored
<1>3. CASE StartBatch
  <2>1. NewWit \in Row /\ NewWit.before = tree /\ NewWit.cexBefore = cex
        /\ NewWit.run = run /\ NewWit.ops = <<>>
    BY <1>3 DEF NewWit, Row, ChainInv, TypeOK, StartBatch
  <2>2. TypeOK'
    BY <1>3, <2>1 DEF ChainInv, TypeOK, StartBatch, state, stored, bounds, producer
  <2>3. UsersPerBatch[tier] \in Nat
    BY <1>3, ShapeAssumption DEF ChainInv, TypeOK, StartBatch
  <2>4. UNCHANGED <<queue, tree, cex, tier>> BY <1>3 DEF StartBatch, state
  <2>5. /\ pc = "batch" /\ (height = Len(table) => AtTip(tree, cex))
        /\ (table = <<>> => disk = EmptyTree) /\ height <= Len(table)
    BY <1>3 DEF ChainInv, StartBatch
  <2>6. pc' \in {"tier", "build"}
    BY <1>3 DEF StartBatch
  <2>7. CASE pc' = "tier"
    BY <1>1, <1>2, <2>2, <2>4, <2>5, <2>7 DEF ChainInv, AtTip
  <2>8. CASE pc' = "build"
    <3>1. wit' = NewWit /\ ~(Len(queue) < UsersPerBatch[tier]) BY <1>3, <2>8 DEF StartBatch
    <3>2. Len(wit'.ops) = 0 BY <2>1, <3>1
    <3>3. Len(queue) \in Nat BY DEF ChainInv, TypeOK
    <3>4. /\ Len(wit'.ops) <= UsersPerBatch'[tier']
          /\ Len(queue') >= UsersPerBatch'[tier'] - Len(wit'.ops)
      BY <2>3, <2>4, <3>1, <3>2, <3>3
    <3>5. height' = Len(table') => AtTip(wit.before, wit.cexBefore)' /\ wit'.run = run'
      BY <1>1, <1>2, <2>1, <2>5, <3>1 DEF AtTip
    <3> QED BY <1>1, <1>2, <2>2, <2>5, <2>8, <3>4, <3>5 DEF ChainInv
  <2> QED BY <2>6, <2>7, <2>8
<1>4. CASE AddUser
  <2> DEFINE account == Head(queue)
             op == [id |-> account.id, index |-> account.index,
                    count |-> CountNonEmptyAssets(account.bal),
                    fresh |-> tree[account.index] = EmptyLeaf]
  <2>1. tier \in Tiers /\ UsersPerBatch[tier] \in Nat /\ wit \in Row
        /\ Len(wit.ops) < UsersPerBatch[tier]
    BY <1>4, ShapeAssumption DEF ChainInv, TypeOK, AddUser
  <2>2. wit.ops \in Seq(Op) /\ Len(wit.ops) \in Nat BY <2>1 DEF Row
  <2>3. queue # <<>> BY <1>4, <2>1, <2>2 DEF ChainInv, AddUser
  <2>4. account \in Account /\ Tail(queue) \in Seq(Account)
        /\ Len(Tail(queue)) = Len(queue) - 1
    BY <2>3, HeadTailProperties DEF ChainInv, TypeOK
  <2>5. CASE account.index >= Slots \/ Overflows(account)
    <3>1. pc' = "failed" /\ UNCHANGED <<queue, tree, cex, wit>>
      BY <1>4, <2>5 DEF AddUser
    <3>2. TypeOK' BY <1>4, <3>1 DEF ChainInv, TypeOK, AddUser, stored, bounds, producer
    <3>3. QED BY <1>1, <1>2, <3>1, <3>2 DEF ChainInv
  <2>6. CASE ~(account.index >= Slots \/ Overflows(account))
    <3>1. /\ queue' = Tail(queue)
          /\ cex' = Plus(cex, account.bal)
          /\ tree' = [tree EXCEPT ![account.index] = Leaf(account, tier)]
          /\ wit' = [wit EXCEPT !.ops = Append(@, op)]
          /\ UNCHANGED <<pc, tier>> /\ pc = "build"
      BY <1>4, <2>6 DEF AddUser
    <3>2. op \in Op
      BY <2>4, CountNat DEF Op, Account, Accounts
    <3>3. /\ Append(wit.ops, op) \in Seq(Op)
          /\ Len(Append(wit.ops, op)) = Len(wit.ops) + 1
      BY <2>2, <3>2, AppendProperties
    <3>4. /\ wit' \in Row /\ wit'.before = wit.before /\ wit'.run = wit.run
          /\ wit'.cexBefore = wit.cexBefore /\ Len(wit'.ops) = Len(wit.ops) + 1
      <4> HIDE DEF op
      <4>1. QED BY <2>1, <3>1, <3>3 DEF Row
    <3>5. cex' \in Totals BY <2>4, <2>6, <3>1, PlusTyped DEF ChainInv
    <3>6. tree' \in Trees
      <4>1. Leaf(account, tier) \in Leaves BY <2>1, <2>4, LeafTyped
      <4>2. tree \in Trees BY DEF ChainInv, TypeOK
      <4>3. QED BY <3>1, <4>1, <4>2 DEF Trees
    <3>7. TypeOK'
      BY <1>4, <2>1, <2>4, <3>1, <3>4, <3>5, <3>6
         DEF ChainInv, TypeOK, AddUser, stored, bounds, producer
    <3>8. Len(queue) \in Nat BY DEF ChainInv, TypeOK
    <3>9. QED
      BY <1>1, <1>2, <2>1, <2>2, <2>4, <3>1, <3>4, <3>7, <3>8
         DEF ChainInv, AtTip
  <2>7. QED BY <2>5, <2>6
<1>5. CASE EndBatch
  <2>1. /\ wit' \in Row /\ wit'.before = wit.before /\ wit'.run = wit.run
        /\ wit'.cexBefore = wit.cexBefore
        /\ wit'.after = tree /\ wit'.cexAfter = cex
    BY <1>5 DEF ChainInv, TypeOK, EndBatch, Row
  <2>2. TypeOK'
    BY <1>5, <2>1 DEF ChainInv, TypeOK, EndBatch, stored, bounds, producer, state
  <2>3. QED
    BY <1>1, <1>2, <1>5, <2>1, <2>2 DEF ChainInv, EndBatch, AtTip
<1>6. QED BY <1>3, <1>4, <1>5

(* A row that starts where the last one ended, written by the same run,    *)
(* extends the chain.                                                      *)
LEMMA AppendRow ==
  ASSUME TypeOK, RowsChain, OneRunPerTable,
         wit \in Row, AtTip(wit.before, wit.cexBefore), wit.run = run,
         table' = Append(table, wit)
  PROVE  RowsChain' /\ OneRunPerTable' /\ table' \in Seq(Row)
         /\ Len(table') = Len(table) + 1 /\ table'[Len(table')] = wit
<1> DEFINE n == Len(table)
<1>1. /\ table \in Seq(Row) /\ n \in Nat /\ table' \in Seq(Row)
      /\ Len(table') = n + 1 /\ table'[n + 1] = wit
      /\ \A h \in 1 .. n : table'[h] = table[h]
  BY AppendProperties DEF TypeOK
<1>2. n = 0 => table = <<>> BY <1>1
<1>3. n > 0 => /\ table # <<>> /\ table[n].after = wit.before
               /\ table[n].cexAfter = wit.cexBefore /\ table[n].run = run
  BY <1>1 DEF AtTip
<1>4. n = 0 => wit.before = EmptyTree /\ wit.cexBefore = Zero
  BY <1>2 DEF AtTip
<1> HIDE DEF n
<1>5. RowsChain'
  <2> SUFFICES ASSUME NEW h \in 1 .. (n + 1)
               PROVE  IF h = 1
                        THEN table'[h].before = EmptyTree /\ table'[h].cexBefore = Zero
                        ELSE /\ table'[h].before = table'[h - 1].after
                             /\ table'[h].cexBefore = table'[h - 1].cexAfter
    BY <1>1 DEF RowsChain
  <2>1. CASE h = n + 1 BY <1>1, <1>3, <1>4, <2>1
  <2>2. CASE h \in 1 .. n
    BY <1>1, <2>2 DEF RowsChain, n
  <2>3. QED BY <1>1, <2>1, <2>2
<1>6. OneRunPerTable'
  <2>1. \A h \in 1 .. n : table[h].run = run
    BY <1>1, <1>3 DEF OneRunPerTable, n
  <2>2. \A h \in 1 .. (n + 1) : table'[h].run = run BY <1>1, <2>1
  <2>3. QED BY <1>1, <2>2 DEF OneRunPerTable
<1>7. QED BY <1>1, <1>5, <1>6 DEF n

(* Only the run at the tip gets past the unique Height, and a failed       *)
(* INSERT leaves either the old table or the extended one.                 *)
LEMMA TableInv ==
  ASSUME ChainInv, CreateRow \/ CommitTree \/ CallFails
  PROVE  ChainInv'
<1>1. Len(table) \in Nat /\ height \in Nat BY DEF ChainInv, TypeOK
<1>2. ASSUME table' = Append(table, wit), pc = "create", height = Len(table)
      PROVE  /\ RowsChain' /\ OneRunPerTable' /\ table' \in Seq(Row)
             /\ Len(table') = Len(table) + 1 /\ table'[Len(table')] = wit
             /\ wit.after = tree /\ wit.cexAfter = cex /\ wit.run = run
  BY <1>2, AppendRow DEF ChainInv, TypeOK
<1>3. CASE CreateRow
  <2>1. CASE height < Len(table)
    <3>1. /\ pc' = "failed"
          /\ UNCHANGED <<snapshot, persistent, producer, cancelled, state, chain, table, disk, run, bounds>>
      BY <1>3, <2>1 DEF CreateRow
    <3>2. TypeOK' BY <3>1 DEF ChainInv, TypeOK, producer, state, chain, bounds
    <3>3. RowsChain' /\ OneRunPerTable' BY <3>1, SameTable DEF ChainInv
    <3>4. QED BY <3>1, <3>2, <3>3 DEF ChainInv, chain
  <2>2. CASE ~(height < Len(table))
    <3>1. /\ pc = "create" /\ pc' = "commit" /\ table' = Append(table, wit)
          /\ UNCHANGED <<snapshot, persistent, producer, cancelled, state, chain, disk, run, bounds>>
      BY <1>3, <2>2 DEF CreateRow
    <3>2. height = Len(table) BY <1>1, <2>2 DEF ChainInv
    <3>3. TypeOK'
      BY <1>2, <3>1, <3>2 DEF ChainInv, TypeOK, producer, state, chain, bounds
    <3>4. table' # <<>> BY <1>1, <1>2, <3>1, <3>2
    <3>5. QED
      BY <1>1, <1>2, <3>1, <3>2, <3>3, <3>4 DEF ChainInv, AtTip, chain
  <2>3. QED BY <2>1, <2>2
<1>4. CASE CommitTree
  <2>1. /\ pc = "commit" /\ pc' = "batch" /\ height' = height + 1
        /\ disk' \in {tree, disk}
        /\ UNCHANGED <<snapshot, persistent, producer, cancelled, state, tree, cex, wit, table, run, bounds>>
    BY <1>4 DEF CommitTree
  <2>2. height' = Len(table) /\ table # <<>>
    BY <1>1, <2>1 DEF ChainInv
  <2>3. TypeOK' BY <2>1 DEF ChainInv, TypeOK, producer, state, bounds
  <2>4. RowsChain' /\ OneRunPerTable' BY <2>1, SameTable DEF ChainInv
  <2>5. QED BY <1>1, <2>1, <2>2, <2>3, <2>4 DEF ChainInv, AtTip
<1>5. CASE CallFails
  <2>1. /\ pc' = "failed" /\ faults' = faults + 1
        /\ UNCHANGED <<snapshot, persistent, producer, cancelled, state, chain, disk, run, crashes>>
    BY <1>5 DEF CallFails
  <2>2. CASE UNCHANGED table
    <3>1. TypeOK' BY <2>1, <2>2 DEF ChainInv, TypeOK, producer, state, chain
    <3>2. RowsChain' /\ OneRunPerTable' BY <2>2, SameTable DEF ChainInv
    <3>3. QED BY <2>1, <2>2, <3>1, <3>2 DEF ChainInv, chain
  <2>3. CASE pc = "create" /\ height = Len(table) /\ table' = Append(table, wit)
    <3>1. TypeOK'
      BY <1>2, <2>1, <2>3 DEF ChainInv, TypeOK, producer, state, chain
    <3>2. table' # <<>> BY <1>1, <1>2, <2>3
    <3>3. QED BY <1>1, <1>2, <2>1, <2>3, <3>1, <3>2 DEF ChainInv, chain
  <2>4. QED BY <1>5, <2>2, <2>3 DEF CallFails
<1>6. QED BY <1>3, <1>4, <1>5

(* A new process is at the tip only over an empty table, and then its tree *)
(* is empty too: a tree is committed after the row it belongs to.          *)
LEMMA RerunInv ==
  ASSUME ChainInv, Rerun
  PROVE  ChainInv'
<1>1. TypeOK'
  <2>1. buckets' \in [Tiers -> Seq(Account)] BY DEF Rerun, NoAccounts
  <2>2. cex' \in Totals BY ZeroTyped DEF Rerun
  <2>3. channel' \in Seq(Account) /\ queue' \in Seq(Account)
        /\ Len(channel') <= ChanCap /\ sent' \in 0 .. Len(snapshot')
    BY SizeAssumption DEF Rerun, ChainInv, TypeOK
  <2>4. tree' \in Trees /\ disk' \in Trees /\ table' \in Seq(Row)
        /\ snapshot' \in Seq(Account)
    BY DEF Rerun, ChainInv, TypeOK, stored
  <2>5. run' \in Nat /\ UNCHANGED bounds BY DEF Rerun, ChainInv, TypeOK
  <2>6. QED BY <2>1, <2>2, <2>3, <2>4, <2>5
            DEF Rerun, TypeOK, ChainInv, bounds
<1>2. RowsChain' /\ OneRunPerTable' BY SameTable DEF Rerun, ChainInv, stored
<1>3. height' = Len(table') => table' = <<>>
  BY DEF Rerun, ChainInv, TypeOK, stored
<1>4. QED BY <1>1, <1>2, <1>3 DEF Rerun, ChainInv, TypeOK, AtTip, stored

LEMMA StepInv == ChainInv /\ [Next]_vars => ChainInv'
<1> SUFFICES ASSUME ChainInv, [Next]_vars PROVE ChainInv'
  OBVIOUS
<1>1. CASE UNCHANGED vars
  <2>1. TypeOK'
    BY <1>1 DEF ChainInv, TypeOK, vars, producer, state, chain, stored, bounds
  <2>2. RowsChain' /\ OneRunPerTable'
    BY <1>1, SameTable DEF ChainInv, vars, stored
  <2>3. QED
    BY <1>1, <2>1, <2>2 DEF ChainInv, AtTip, vars, state, chain, stored
<1>2. CASE Next
  BY <1>2, StreamInv, BatchInv, TableInv, RerunInv DEF Next, Producer, Runner
<1>3. QED BY <1>1, <1>2

-----------------------------------------------------------------------------
(* The inductive invariant holds in every reachable state. *)
THEOREM WitnessInvariant == Spec => []ChainInv
<1>1. QED BY InitInv, StepInv, PTL DEF Spec

(* Every variable keeps its type; in particular no running total leaves    *)
(* the range of a uint64 (witness_runner.go:178-189 and safeAdd).          *)
THEOREM WitnessTypeCorrect == Spec => []TypeOK
<1>1. ChainInv => TypeOK BY DEF ChainInv
<1>2. QED BY <1>1, WitnessInvariant, PTL

(* Whatever is interrupted, dies or is run again, consecutive rows of the  *)
(* witness table share their tree root and their totals.                   *)
THEOREM RowsAlwaysChain == Spec => []RowsChain
<1>1. ChainInv => RowsChain BY DEF ChainInv
<1>2. QED BY <1>1, WitnessInvariant, PTL

(* The unique Height keeps the rows of two runs apart (store/witness.go). *)
THEOREM TableHasOneRun == Spec => []OneRunPerTable
<1>1. ChainInv => OneRunPerTable BY DEF ChainInv
<1>2. QED BY <1>1, WitnessInvariant, PTL

-----------------------------------------------------------------------------
(* The places of the accounts *)

LEMMA Numbered ==
  ASSUME DenselyIndexed, snapshot \in Snapshots, TypeOK
  PROVE  \A x \in Nat : x < Len(snapshot) =>
           /\ x + 1 \in DOMAIN snapshot /\ snapshot[x + 1] \in Account
           /\ snapshot[x + 1].index = x /\ snapshot[x + 1].id # PaddingId
<1>1. snapshot \in Seq(Accounts(Ids)) /\ PaddingId \notin Ids BY SnapshotAssumption
<1>2. snapshot \in Seq(Account) BY DEF TypeOK
<1>3. \A i \in DOMAIN snapshot : snapshot[i].index = i - 1 BY DEF DenselyIndexed
<1>4. \A i \in DOMAIN snapshot : snapshot[i].id \in Ids
  <2>1. \A i \in DOMAIN snapshot : snapshot[i] \in Accounts(Ids) BY <1>1
  <2>2. QED BY <2>1 DEF Accounts
<1>5. DOMAIN snapshot = 1 .. Len(snapshot) BY <1>2
<1>6. ASSUME NEW x \in Nat, x < Len(snapshot)
      PROVE  x + 1 \in DOMAIN snapshot /\ (x + 1) - 1 = x
  BY <1>2, <1>5, <1>6
<1>7. QED BY <1>1, <1>2, <1>3, <1>4, <1>6

LEMMA TierAlone ==
  ASSUME NEW count, NEW t \in PickAssetCountTier(count)
  PROVE  t \in Tiers /\ PickAssetCountTier(count) = {t}
<1>1. t \in Tiers /\ \A u \in PickAssetCountTier(count) : u \in Tiers /\ t <= u /\ u <= t
  BY DEF PickAssetCountTier
<1>2. \A u \in Tiers : u \in Nat BY ShapeAssumption
<1>3. \A u \in PickAssetCountTier(count) : u = t BY <1>1, <1>2
<1>4. QED BY <1>1, <1>3

(* What the padding of a tier comes to (PaddingAccounts): less than a      *)
(* batch, so that the tier is whole batches and each starts with a user.   *)
LEMMA PaddedQueue ==
  ASSUME NEW accounts \in Seq(Account), NEW t \in Tiers, NEW start \in Nat
  PROVE  LET n == Len(accounts)
             c == PaddingCount(n, t)
             q == PaddedWith(accounts, t, start)
         IN  /\ c \in Nat /\ c < UsersPerBatch[t]
             /\ q \in Seq(Account) /\ Len(q) = n + c /\ Len(q) % UsersPerBatch[t] = 0
             /\ \A k \in 1 .. n : q[k] = accounts[k]
             /\ \A k \in (n + 1) .. (n + c) :
                  q[k] = [id |-> PaddingId, index |-> start + (k - n) - 1, bal |-> Zero]
<1> DEFINE n == Len(accounts)
           u == UsersPerBatch[t]
           c == PaddingCount(n, t)
           m == n + u - 1
           d == m \div u
           pad == [i \in 1 .. c |-> [id |-> PaddingId, index |-> start + i - 1, bal |-> Zero]]
           q == PaddedWith(accounts, t, start)
<1>1. n \in Nat /\ u \in Nat \ {0} /\ u >= 1 BY ShapeAssumption
<1>2. c \in Nat BY <1>1, PaddingIs
<1>3. d \in Int /\ u * d <= m /\ m < u * d + u
  <2>1. m \in Int BY <1>1
  <2> HIDE DEF u, m
  <2>2. QED BY <1>1, <2>1, DivBounds
<1>4. c = d * u - n BY DEF PaddingCount
<1>5. c < u /\ n + c = d * u
  <2>1. m = n + u - 1 OBVIOUS
  <2> HIDE DEF n, u, c, m, d
  <2>2. d * u = u * d /\ u * d \in Int BY <1>1, <1>3
  <2>3. QED BY <1>1, <1>3, <1>4, <2>1, <2>2
<1>6. (n + c) % u = 0
  <2> HIDE DEF n, u, c, d
  <2>1. QED BY <1>1, <1>3, <1>5, WholeMultiple
<1>7. q \in Seq(Account) BY PaddedTyped
<1>8. q = accounts \o pad BY DEF PaddedWith, Zero
<1>9. pad \in Seq(Account) /\ Len(pad) = c
  <2>1. \A i \in 1 .. c : pad[i] \in Account
    <3>1. \A i \in 1 .. c : start + i - 1 \in Nat BY <1>2
    <3> HIDE DEF c
    <3>2. QED BY <3>1, ZeroTyped DEF Account, Accounts
  <2> HIDE DEF c
  <2>2. pad \in [1 .. c -> Account] BY <2>1
  <2>3. DOMAIN pad = 1 .. c OBVIOUS
  <2> HIDE DEF pad
  <2>4. QED BY <1>2, <2>2, <2>3
<1>10. /\ Len(q) = n + c /\ \A k \in 1 .. n : q[k] = accounts[k]
       /\ \A k \in (n + 1) .. (n + c) : q[k] = pad[k - n]
  <2>1. accounts \in Seq(Account) /\ n = Len(accounts) OBVIOUS
  <2> HIDE DEF pad, n, c, q
  <2>2. /\ Len(q) = Len(accounts) + Len(pad)
        /\ \A k \in 1 .. (Len(accounts) + Len(pad)) :
             q[k] = IF k <= Len(accounts) THEN accounts[k] ELSE pad[k - Len(accounts)]
    BY <1>8, <1>9, <2>1, ConcatProperties
  <2>3. QED BY <1>1, <1>2, <1>9, <2>1, <2>2
<1>11. \A k \in (n + 1) .. (n + c) :
         pad[k - n] = [id |-> PaddingId, index |-> start + (k - n) - 1, bal |-> Zero]
  <2>1. \A k \in (n + 1) .. (n + c) : k - n \in 1 .. c BY <1>1, <1>2
  <2> HIDE DEF n, c
  <2>2. QED BY <2>1
<1>12. QED
  <2> HIDE DEF pad
  <2>1. QED BY <1>2, <1>5, <1>6, <1>7, <1>10, <1>11

LEMMA ZeroAt == \A a \in Assets : \A c \in Columns : Zero[a][c] = 0
BY DEF Zero, NoBalance

-----------------------------------------------------------------------------
(* While accounts are streamed nothing is placed. *)

EarlyInv ==
  /\ ChainInv /\ RowsSoFar /\ snapshot \in Snapshots
  /\ pc \in Early /\ StreamSoFar /\ BucketsSoFar
  /\ \A h \in DOMAIN table : table[h].run < run

LEMMA EarlyIsInv == EarlyInv => PlacesInv
<1> SUFFICES ASSUME EarlyInv PROVE PlacesInv OBVIOUS
<1>1. TypeOK /\ ChainInv BY DEF EarlyInv, ChainInv
<1>2. /\ pc \in Early /\ tier = NoTier /\ queue = <<>> /\ padding = 0 /\ height = 0
      /\ cex = Zero
  BY DEF EarlyInv, StreamSoFar
<1>3. Taken = {} BY <1>2 DEF Taken
<1>4. QueueSoFar /\ BatchSoFar BY <1>2 DEF QueueSoFar, BatchSoFar, Early
<1>5. \A a \in Assets, c \in Columns :
        cex[a][c] = SumFunctionOnSet([i \in DOMAIN snapshot |-> snapshot[i].bal[a][c]],
                                     {i \in 1 .. sent : i - 1 \in Taken})
  BY <1>2, <1>3, ZeroAt, SumEmpty
<1>6. CASE Leading
  <2>1. height = Len(table) BY <1>2, <1>6 DEF Leading, Early
  <2>2. table = <<>> BY <1>1, <1>2, <2>1 DEF TypeOK
  <2>3. tree = EmptyTree BY <1>1, <1>2, <2>1, <2>2 DEF ChainInv, AtTip, Early
  <2>4. \A x \in 0 .. (Slots - 1) : tree[x] = EmptyLeaf BY <2>3 DEF EmptyTree
  <2>5. Placed = {} BY <1>2, <2>2 DEF Placed, Rows, Early
  <2>6. PlacesSoFar BY <1>3, <1>5, <1>6, <2>2, <2>4, <2>5 DEF PlacesSoFar
  <2>7. QED BY <1>4, <2>6 DEF EarlyInv, PlacesInv
<1>7. CASE ~Leading
  <2>1. PlacesSoFar BY <1>2, <1>5, <1>7 DEF PlacesSoFar, EarlyInv, Early
  <2>2. QED BY <1>4, <2>1 DEF EarlyInv, PlacesInv
<1>8. QED BY <1>6, <1>7

LEMMA EarlyNext == EarlyInv' => PlacesInv'
<1>1. EarlyInv => PlacesInv BY EarlyIsInv
<1>2. QED BY <1>1, PTL

LEMMA EarlyHolds == PlacesInv /\ pc \in Early => EarlyInv
<1> SUFFICES ASSUME PlacesInv, pc \in Early PROVE EarlyInv OBVIOUS
<1>1. Alive BY DEF Alive, Early
<1>2. height = 0 BY <1>1 DEF PlacesInv, StreamSoFar
<1>3. Leading => table = <<>>
  BY <1>2 DEF Leading, Early, PlacesInv, ChainInv, TypeOK
<1>4. \A h \in DOMAIN table : table[h].run < run
  BY <1>1, <1>3 DEF PlacesInv, PlacesSoFar
<1>5. QED BY <1>1, <1>4 DEF PlacesInv, EarlyInv

(* What does not touch the table, the batch or the run keeps the rows. *)
LEMMA RowsStay ==
  ASSUME RowsSoFar, UNCHANGED <<table, run>>
  PROVE  RowsSoFar'
BY DEF RowsSoFar, LeavesWereEmpty, BatchesFitTheirTier

LEMMA BucketsStay ==
  ASSUME BucketsSoFar, UNCHANGED <<snapshot, buckets>>, Received' = Received
  PROVE  BucketsSoFar'
<1>1. \A t \in Tiers : \A j \in DOMAIN buckets'[t] :
        LET account == buckets'[t][j] IN
        /\ account.index < Received' /\ account = snapshot'[account.index + 1]
        /\ TierOf(account) = {t}
        /\ \A l \in DOMAIN buckets'[t] : buckets'[t][l].index = account.index => l = j
  BY DEF BucketsSoFar
<1>2. \A x \in 0 .. (Received' - 1) : \E t \in Tiers :
        /\ TierOf(snapshot'[x + 1]) = {t}
        /\ \E j \in DOMAIN buckets'[t] : buckets'[t][j].index = x
  BY DEF BucketsSoFar
<1>3. QED BY <1>1, <1>2 DEF BucketsSoFar

LEMMA InitPlaces == DenselyIndexed /\ Init => EarlyInv
<1> SUFFICES ASSUME DenselyIndexed, Init PROVE EarlyInv OBVIOUS
<1>1. ChainInv BY InitInv
<1>2. table = <<>> /\ pc \in Early /\ snapshot \in Snapshots BY DEF Init, Early
<1>3. RowsSoFar BY <1>2 DEF RowsSoFar, LeavesWereEmpty, BatchesFitTheirTier
<1>4. StreamSoFar BY DEF Init, StreamSoFar, Early, Received
<1>5. BucketsSoFar BY DEF Init, BucketsSoFar, NoAccounts, Received
<1>6. QED BY <1>1, <1>2, <1>3, <1>4, <1>5 DEF EarlyInv

LEMMA SendPlaces ==
  ASSUME EarlyInv, ChainInv', Send
  PROVE  EarlyInv'
<1>1. /\ pc = "stream" /\ pc' = pc
      /\ sent < Len(snapshot) /\ sent' = sent + 1
      /\ channel' = Append(channel, snapshot[sent + 1])
      /\ UNCHANGED <<snapshot, closed, cancelled, buckets, tier, queue, padding, cex, height,
                     table, run>>
  BY DEF EarlyInv, Early, Send, state, chain, stored
<1>2. channel \in Seq(Account) /\ sent \in Nat /\ Len(channel) \in Nat /\ Received \in Int
  BY DEF EarlyInv, ChainInv, TypeOK, Received
<1>3. /\ Len(channel') = Len(channel) + 1 /\ channel'[Len(channel) + 1] = snapshot[sent + 1]
      /\ DOMAIN channel' = 1 .. (Len(channel) + 1)
      /\ \A k \in 1 .. Len(channel) : k \in DOMAIN channel /\ channel'[k] = channel[k]
  BY <1>1, <1>2
<1>4. Received' = Received BY <1>1, <1>2, <1>3 DEF Received
<1>5. \A k \in DOMAIN channel' : channel'[k] = snapshot[Received + k]
  <2>1. Received + (Len(channel) + 1) = sent + 1 BY <1>2 DEF Received
  <2>2. \A k \in 1 .. Len(channel) : channel[k] = snapshot[Received + k]
    BY <1>3 DEF EarlyInv, StreamSoFar
  <2>3. \A k \in DOMAIN channel' : k \in 1 .. Len(channel) \/ k = Len(channel) + 1
    BY <1>2, <1>3
  <2>4. QED BY <1>3, <2>1, <2>2, <2>3
<1>6. StreamSoFar'
  <2>1. closed' => sent' = Len(snapshot') \/ cancelled'
    <3>1. ~closed BY DEF Send
    <3>2. QED BY <1>1, <3>1
  <2>2. Received' >= 0 BY <1>4 DEF EarlyInv, StreamSoFar
  <2>3. tier' = NoTier /\ queue' = <<>> /\ padding' = 0 /\ height' = 0 /\ cex' = Zero
    BY <1>1 DEF EarlyInv, StreamSoFar
  <2>4. \A k \in DOMAIN channel' : channel'[k] = snapshot'[Received' + k]
    BY <1>1, <1>4, <1>5
  <2>5. pc' \in Early BY <1>1 DEF Early
  <2>6. QED BY <2>1, <2>2, <2>3, <2>4, <2>5 DEF StreamSoFar
<1>7. BucketsSoFar' BY <1>1, <1>4, BucketsStay DEF EarlyInv
<1>8. RowsSoFar' BY <1>1, RowsStay DEF EarlyInv
<1>9. QED BY <1>1, <1>6, <1>7, <1>8 DEF EarlyInv, Early

LEMMA QuietPlaces ==
  ASSUME EarlyInv, ChainInv', pc' \in Early, Close \/ Load \/ Cancel
  PROVE  EarlyInv'
<1>1. /\ UNCHANGED <<snapshot, sent, channel, buckets, tier, queue, padding, cex, height,
                     table, run>>
      /\ closed' => closed \/ sent = Len(snapshot) \/ cancelled
      /\ cancelled => cancelled'
  BY DEF Close, Load, Cancel, producer, state, chain, stored
<1>2. Received' = Received BY <1>1 DEF Received
<1>3. StreamSoFar' BY <1>1, <1>2 DEF EarlyInv, StreamSoFar
<1>4. BucketsSoFar' BY <1>1, <1>2, BucketsStay DEF EarlyInv
<1>5. RowsSoFar' BY <1>1, RowsStay DEF EarlyInv
<1>6. QED BY <1>1, <1>3, <1>4, <1>5 DEF EarlyInv

(* An account goes to the one bucket of its tier, behind those before it.  *)
LEMMA BucketPlaces ==
  ASSUME DenselyIndexed, EarlyInv, ChainInv', pc' \in Early, Bucket
  PROVE  EarlyInv'
<1> DEFINE account == Head(channel)
           r == Received
<1>1. PICK t \in TierOf(account) :
        /\ pc = "stream" /\ pc' = pc /\ channel # <<>> /\ channel' = Tail(channel)
        /\ buckets' = [buckets EXCEPT ![t] = Append(@, account)]
        /\ UNCHANGED <<snapshot, sent, closed, cancelled, tier, queue, padding, cex, height,
                       table, run>>
  BY DEF Bucket, Early, chain, stored
<1>2. t \in Tiers /\ TierOf(account) = {t} BY <1>1, TierAlone DEF TierOf
<1>3. /\ TypeOK /\ channel \in Seq(Account) /\ sent \in Nat /\ sent <= Len(snapshot)
      /\ Len(channel) \in Nat /\ Len(snapshot) \in Nat
      /\ buckets \in [Tiers -> Seq(Account)]
  <2>1. TypeOK BY DEF EarlyInv, ChainInv
  <2>2. snapshot \in Seq(Account) /\ sent \in 0 .. Len(snapshot) /\ channel \in Seq(Account)
    BY <2>1 DEF TypeOK
  <2>3. QED BY <2>1, <2>2 DEF TypeOK
<1>4. /\ r \in Nat /\ r < Len(snapshot) /\ account = channel[1] /\ account = snapshot[r + 1]
      /\ Len(channel) >= 1
  <2>1. r >= 0 /\ \A k \in DOMAIN channel : channel[k] = snapshot[r + k]
    BY DEF EarlyInv, StreamSoFar
  <2>2. Len(channel) >= 1 /\ 1 \in DOMAIN channel /\ account = channel[1] BY <1>1, <1>3
  <2>3. r = sent - Len(channel) BY DEF Received
  <2> HIDE DEF r, account
  <2>4. QED BY <1>3, <2>1, <2>2, <2>3
<1>5. account.index = r
  <2>1. snapshot \in Snapshots BY DEF EarlyInv
  <2> HIDE DEF r, account
  <2>2. QED BY <1>3, <1>4, <2>1, Numbered
<1>6. /\ Len(channel') = Len(channel) - 1 /\ DOMAIN channel' = 1 .. (Len(channel) - 1)
      /\ \A k \in 1 .. (Len(channel) - 1) : channel'[k] = channel[k + 1]
                                            /\ k + 1 \in DOMAIN channel
  BY <1>1, <1>3
<1>7. Received' = r + 1 BY <1>1, <1>3, <1>6 DEF Received
<1>8. StreamSoFar'
  <2>1. \A k \in DOMAIN channel' : channel'[k] = snapshot'[Received' + k]
    <3>1. SUFFICES ASSUME NEW k \in DOMAIN channel'
                   PROVE  channel'[k] = snapshot'[Received' + k]
      OBVIOUS
    <3>2. channel'[k] = snapshot[r + (k + 1)] BY <1>6 DEF EarlyInv, StreamSoFar
    <3>3. r + (k + 1) = (r + 1) + k
      <4> HIDE DEF r
      <4>1. QED BY <1>3, <1>4, <1>6
    <3>4. QED BY <1>1, <1>7, <3>2, <3>3
  <2>2. closed' => sent' = Len(snapshot') \/ cancelled' BY <1>1 DEF EarlyInv, StreamSoFar
  <2>3. tier' = NoTier /\ queue' = <<>> /\ padding' = 0 /\ height' = 0 /\ cex' = Zero
    BY <1>1 DEF EarlyInv, StreamSoFar
  <2>4. Received' >= 0
    <3> HIDE DEF r
    <3>1. QED BY <1>4, <1>7
  <2>5. QED BY <2>1, <2>2, <2>3, <2>4 DEF StreamSoFar
<1> DEFINE n == Len(buckets[t])
<1>9. /\ n \in Nat /\ DOMAIN buckets[t] = 1 .. n
      /\ DOMAIN buckets'[t] = 1 .. (n + 1) /\ buckets'[t][n + 1] = account
      /\ \A j \in 1 .. n : buckets'[t][j] = buckets[t][j]
      /\ \A v \in Tiers : v # t => buckets'[v] = buckets[v]
  <2>1. buckets[t] \in Seq(Account) /\ n \in Nat BY <1>2, <1>3
  <2>2. buckets'[t] = Append(buckets[t], account) BY <1>1, <1>2, <1>3
  <2>3. \A v \in Tiers : v # t => buckets'[v] = buckets[v] BY <1>1, <1>2, <1>3
  <2> HIDE DEF account
  <2>4. QED BY <2>1, <2>2, <2>3
<1>10. \A v \in Tiers : \A j \in DOMAIN buckets[v] :
         /\ buckets[v][j].index \in Nat /\ buckets[v][j].index < r
         /\ buckets[v][j] = snapshot[buckets[v][j].index + 1]
         /\ TierOf(buckets[v][j]) = {v}
         /\ \A l \in DOMAIN buckets[v] : buckets[v][l].index = buckets[v][j].index => l = j
  <2>1. \A v \in Tiers : \A j \in DOMAIN buckets[v] : buckets[v][j] \in Account BY <1>3
  <2>2. \A v \in Tiers : \A j \in DOMAIN buckets[v] : buckets[v][j].index \in Nat
    BY <2>1 DEF Account, Accounts
  <2>3. QED BY <2>2 DEF EarlyInv, BucketsSoFar
<1>11. BucketsSoFar'
  <2> HIDE DEF r, account, n
  <2>1. ASSUME NEW v \in Tiers, NEW j \in DOMAIN buckets'[v]
        PROVE  /\ buckets'[v][j].index < Received'
               /\ buckets'[v][j] = snapshot'[buckets'[v][j].index + 1]
               /\ TierOf(buckets'[v][j]) = {v}
               /\ \A l \in DOMAIN buckets'[v] :
                    buckets'[v][l].index = buckets'[v][j].index => l = j
    <3>1. CASE v # t
      <4>1. buckets'[v] = buckets[v] BY <1>9, <3>1
      <4>2. buckets[v][j].index < r + 1 BY <1>4, <1>10, <4>1
      <4>3. snapshot' = snapshot BY <1>1
      <4>4. QED BY <1>7, <1>10, <4>1, <4>2, <4>3
    <3>2. CASE v = t /\ j \in 1 .. n
      <4>1. buckets'[v][j] = buckets[v][j] /\ j \in DOMAIN buckets[v] BY <1>9, <3>2
      <4>2. buckets[v][j].index < r + 1 BY <1>4, <1>10, <4>1
      <4>3. ASSUME NEW l \in DOMAIN buckets'[v], buckets'[v][l].index = buckets'[v][j].index
            PROVE  l = j
        <5>1. CASE l = n + 1
          <6>1. buckets'[v][l].index = r BY <1>5, <1>9, <3>2, <5>1
          <6>2. buckets[v][j].index < r /\ buckets[v][j].index \in Nat BY <1>10, <4>1
          <6>3. QED BY <1>4, <4>1, <4>3, <6>1, <6>2
        <5>2. CASE l # n + 1
          <6>1. l \in 1 .. n BY <1>9, <3>2, <5>2
          <6>2. l \in DOMAIN buckets[v] /\ buckets'[v][l] = buckets[v][l] BY <1>9, <3>2, <6>1
          <6>3. QED BY <1>10, <4>1, <4>3, <6>2
        <5>3. QED BY <5>1, <5>2
      <4>4. QED BY <1>1, <1>7, <1>10, <4>1, <4>2, <4>3
    <3>3. CASE v = t /\ j = n + 1
      <4>1. buckets'[v][j] = account BY <1>9, <3>3
      <4>2. ASSUME NEW l \in DOMAIN buckets'[v], buckets'[v][l].index = buckets'[v][j].index
            PROVE  l = j
        <5>1. CASE l # n + 1
          <6>1. l \in 1 .. n /\ l \in DOMAIN buckets[v] BY <1>9, <3>3, <5>1
          <6>2. buckets[v][l].index < r /\ buckets[v][l].index \in Nat BY <1>10, <6>1
          <6>3. buckets'[v][l].index = buckets[v][l].index BY <1>9, <3>3, <6>1
          <6>4. buckets'[v][l].index = r BY <1>5, <4>1, <4>2
          <6>5. QED BY <1>4, <6>2, <6>3, <6>4
        <5>2. QED BY <3>3, <5>1
      <4>3. account.index < r + 1 BY <1>4, <1>5
      <4>4. QED BY <1>1, <1>2, <1>4, <1>5, <1>7, <3>3, <4>1, <4>2, <4>3
    <3>4. QED BY <1>9, <3>1, <3>2, <3>3
  <2>2. ASSUME NEW x \in 0 .. (Received' - 1)
        PROVE  \E v \in Tiers : /\ TierOf(snapshot'[x + 1]) = {v}
                                /\ \E j \in DOMAIN buckets'[v] : buckets'[v][j].index = x
    <3>1. CASE x = r
      <4>1. n + 1 \in DOMAIN buckets'[t] BY <1>9
      <4>2. QED BY <1>1, <1>2, <1>4, <1>5, <1>9, <3>1, <4>1
    <3>2. CASE x # r
      <4>1. x \in 0 .. (r - 1) BY <1>4, <1>7, <3>2
      <4>2. PICK v \in Tiers : /\ TierOf(snapshot[x + 1]) = {v}
                               /\ \E j \in DOMAIN buckets[v] : buckets[v][j].index = x
        BY <4>1 DEF EarlyInv, BucketsSoFar, r
      <4>3. PICK j \in DOMAIN buckets[v] : buckets[v][j].index = x BY <4>2
      <4>4. j \in DOMAIN buckets'[v] /\ buckets'[v][j] = buckets[v][j] BY <1>9
      <4>5. QED BY <1>1, <4>2, <4>3, <4>4
    <3>3. QED BY <3>1, <3>2
  <2>3. QED BY <2>1, <2>2 DEF BucketsSoFar
<1>12. RowsSoFar' BY <1>1, RowsStay DEF EarlyInv
<1>13. QED BY <1>1, <1>8, <1>11, <1>12 DEF EarlyInv

LEMMA RerunPlaces ==
  ASSUME PlacesInv, ChainInv', Rerun
  PROVE  EarlyInv'
<1>1. /\ pc' = "load" /\ sent' = 0 /\ channel' = <<>> /\ ~closed'
      /\ buckets' = NoAccounts /\ tier' = NoTier /\ queue' = <<>> /\ padding' = 0
      /\ cex' = Zero /\ height' = 0 /\ run' = run + 1
      /\ UNCHANGED <<snapshot, table>>
  BY DEF Rerun, stored
<1>2. Received' = 0
  <2>1. sent' = 0 /\ channel' = <<>> BY <1>1
  <2>2. Len(channel') = 0 BY <2>1
  <2>3. Received' = sent' - Len(channel') BY DEF Received
  <2>4. QED BY <2>1, <2>2, <2>3
<1>3. StreamSoFar' BY <1>1, <1>2 DEF StreamSoFar, Early
<1>4. BucketsSoFar'
  <2>1. \A t \in Tiers : DOMAIN buckets'[t] = {} BY <1>1 DEF NoAccounts
  <2>2. 0 .. (Received' - 1) = {} BY <1>2
  <2>3. QED BY <2>1, <2>2 DEF BucketsSoFar
<1>5. \A h \in DOMAIN table' : table'[h].run < run' /\ table'[h].run <= run'
  <2>1. run \in Nat /\ table \in Seq(Row) BY DEF PlacesInv, ChainInv, TypeOK
  <2>2. \A h \in DOMAIN table : table[h].run \in Nat /\ table[h].run <= run
    <3>1. \A h \in DOMAIN table : table[h] \in Row BY <2>1
    <3>2. QED BY <3>1 DEF Row, PlacesInv, RowsSoFar
  <2>3. QED BY <1>1, <2>1, <2>2
<1>6. RowsSoFar'
  BY <1>1, <1>5 DEF PlacesInv, RowsSoFar, LeavesWereEmpty, BatchesFitTheirTier
<1>7. QED BY <1>1, <1>3, <1>4, <1>5, <1>6 DEF PlacesInv, EarlyInv, Early

-----------------------------------------------------------------------------
(* From the end of the stream on *)

LEMMA InPlaced ==
  \A p : p \in Placed <=>
    \E h \in DOMAIN Rows : \E k \in DOMAIN Rows[h].ops :
      p = [row |-> h, at |-> k, op |-> Rows[h].ops[k]]
BY DEF Placed

LEMMA InPlacedNext ==
  \A p : p \in Placed' <=>
    \E h \in DOMAIN Rows' : \E k \in DOMAIN Rows'[h].ops :
      p = [row |-> h, at |-> k, op |-> Rows'[h].ops[k]]
BY DEF Placed

LEMMA PlacedStay ==
  ASSUME DOMAIN Rows' = DOMAIN Rows, \A h \in DOMAIN Rows : Rows'[h].ops = Rows[h].ops
  PROVE  Placed' = Placed
<1>1. \A p : p \in Placed' <=> p \in Placed BY InPlaced, InPlacedNext
<1>2. QED BY <1>1

(* A row that holds the batch at hand: its places are placed already.      *)
LEMMA RowLaid ==
  ASSUME PlacesInv, pc = "create", height = Len(table), table' = Append(table, wit), run' = run
  PROVE  /\ RowsSoFar'
         /\ table'[Len(table')].run = run' /\ table'[Len(table')].tier = tier
<1> DEFINE n == Len(table)
<1>1. /\ TypeOK /\ table \in Seq(Row) /\ wit \in Row /\ tier \in Tiers /\ n \in Nat
      /\ run \in Nat
  BY DEF PlacesInv, ChainInv, TypeOK
<1>2. Alive /\ Leading BY DEF Alive, Leading
<1>3. /\ DOMAIN table' = 1 .. (n + 1) /\ Len(table') = n + 1 /\ table'[n + 1] = wit
      /\ \A h \in 1 .. n : table'[h] = table[h]
  BY <1>1
<1>4. wit.run = run BY DEF PlacesInv, ChainInv
<1>5. wit.tier = tier BY <1>2 DEF PlacesInv, BatchSoFar
<1>6. /\ Rows = Append(table, wit) /\ DOMAIN Rows = 1 .. (n + 1) /\ Rows[n + 1] = wit
  BY <1>1 DEF Rows
<1>7. \A i \in DOMAIN wit.ops : wit.ops[i].fresh
  <2>1. \A p \in Placed : p.op.fresh BY <1>2 DEF PlacesInv, PlacesSoFar
  <2>2. SUFFICES ASSUME NEW i \in DOMAIN wit.ops PROVE wit.ops[i].fresh OBVIOUS
  <2>3. PICK p : p = [row |-> n + 1, at |-> i, op |-> wit.ops[i]] OBVIOUS
  <2>4. n + 1 \in DOMAIN Rows /\ i \in DOMAIN Rows[n + 1].ops BY <1>1, <1>6
  <2>5. p \in Placed BY <1>6, <2>3, <2>4, InPlaced
  <2>6. QED BY <2>1, <2>3, <2>5
<1>8. Len(wit.ops) = UsersPerBatch[tier] /\ UsersPerBatch[tier] \in Nat \ {0}
  BY <1>1, <1>2, ShapeAssumption DEF PlacesInv, QueueSoFar
<1>9. wit.ops # <<>> /\ wit.ops[1].id # PaddingId
      /\ \A i \in DOMAIN wit.ops :
           wit.ops[i].id # PaddingId => PickAssetCountTier(wit.ops[i].count) = {tier}
  <2>1. wit.ops # <<>> BY <1>8
  <2>2. QED BY <1>2, <2>1 DEF PlacesInv, BatchSoFar
<1>10. n > 0 => table[n].tier <= tier
  <2>1. n > 0 => table # <<>> BY <1>1
  <2>2. QED BY <1>2, <2>1 DEF PlacesInv, PlacesSoFar
<1>11. \A h \in 1 .. n : table[h].tier \in Nat /\ table[h].tier <= tier
  <2>1. \A h \in 1 .. n : table[h] \in Row /\ h \in 1 .. Len(table) BY <1>1
  <2>2. \A h \in 1 .. n : table[h].tier \in Nat BY <2>1, ShapeAssumption DEF Row
  <2>3. \A h \in 1 .. n : table[h].tier <= table[n].tier
    <3>1. \A h \in 1 .. n : n \in 1 .. Len(table) /\ h \in 1 .. n /\ n > 0 BY <1>1
    <3>2. QED BY <3>1 DEF PlacesInv, RowsSoFar, BatchesFitTheirTier
  <2>4. tier \in Nat BY <1>1, ShapeAssumption
  <2>5. \A h \in 1 .. n : table[n].tier \in Nat BY <1>1, <2>2
  <2>6. QED BY <1>1, <1>10, <2>2, <2>3, <2>4, <2>5
<1>12. LeavesWereEmpty'
  <2>1. \A h \in 1 .. n : \A i \in DOMAIN table[h].ops : table[h].ops[i].fresh
    BY DEF PlacesInv, RowsSoFar, LeavesWereEmpty
  <2>2. \A h \in 1 .. (n + 1) : h = n + 1 \/ h \in 1 .. n BY <1>1
  <2>3. \A h \in 1 .. (n + 1) : \A i \in DOMAIN table'[h].ops : table'[h].ops[i].fresh
    BY <1>3, <1>7, <2>1, <2>2
  <2>4. QED BY <1>3, <2>3 DEF LeavesWereEmpty
<1>13. BatchesFitTheirTier'
  <2> SUFFICES ASSUME NEW h \in 1 .. (n + 1)
               PROVE  LET ops == table'[h].ops IN
                      /\ Len(ops) = UsersPerBatch[table'[h].tier]
                      /\ ops[1].id # PaddingId
                      /\ \A i \in DOMAIN ops :
                           ops[i].id # PaddingId
                             => PickAssetCountTier(ops[i].count) = {table'[h].tier}
                      /\ \A g \in 1 .. h : table'[g].tier <= table'[h].tier
    BY <1>3 DEF BatchesFitTheirTier
  <2>1. CASE h \in 1 .. n
    <3>1. \A g \in 1 .. h : g \in 1 .. n BY <1>1, <2>1
    <3>2. h \in 1 .. Len(table) BY <2>1
    <3>3. table'[h] = table[h] /\ \A g \in 1 .. h : table'[g] = table[g] BY <1>3, <2>1, <3>1
    <3>4. QED BY <3>2, <3>3 DEF PlacesInv, RowsSoFar, BatchesFitTheirTier
  <2>2. CASE h = n + 1
    <3>1. table'[h] = wit BY <1>3, <2>2
    <3>2. \A g \in 1 .. h : g \in 1 .. n \/ g = n + 1 BY <1>1, <2>2
    <3>3. tier <= tier BY <1>1, ShapeAssumption
    <3>4. \A g \in 1 .. h : table'[g].tier <= tier BY <1>3, <1>5, <1>11, <3>2, <3>3
    <3>5. QED BY <1>5, <1>8, <1>9, <3>1, <3>4
  <2>3. h \in 1 .. n \/ h = n + 1 BY <1>1
  <2>4. QED
    <3> HIDE DEF n
    <3>1. QED BY <2>1, <2>2, <2>3
<1>14. \A h \in DOMAIN table' : table'[h].run <= run'
  <2>1. \A h \in 1 .. n : table[h].run <= run
    BY <1>1 DEF PlacesInv, RowsSoFar
  <2>2. run <= run BY <1>1
  <2>3. \A h \in 1 .. (n + 1) : h = n + 1 \/ h \in 1 .. n BY <1>1
  <2>4. QED BY <1>3, <1>4, <2>1, <2>2, <2>3
<1>15. QED BY <1>3, <1>4, <1>5, <1>12, <1>13, <1>14 DEF RowsSoFar

(* A run that ends unsuccessfully leaves the rows it has laid.             *)
LEMMA StopPlaces ==
  ASSUME PlacesInv, ChainInv', Next, ~Alive'
  PROVE  PlacesInv'
<1>1. CASE UNCHANGED <<snapshot, table, run>>
  BY <1>1, RowsStay DEF PlacesInv
<1>2. CASE ~UNCHANGED <<snapshot, table, run>>
  <2>1. /\ pc = "create" /\ height = Len(table) /\ table' = Append(table, wit)
        /\ UNCHANGED <<snapshot, run>>
    BY <1>2 DEF Next, Producer, Runner, Send, Close, Load, Bucket, EndOfStream, StartTier,
                Finish, StartBatch, AddUser, EndBatch, CreateRow, CommitTree, CallFails,
                Cancel, Crash, Rerun, Alive, stored
  <2>2. QED BY <2>1, RowLaid DEF PlacesInv
<1>3. QED BY <1>1, <1>2

(* What the steps behind the stream leave as it is.                        *)
LEMMA StreamStays ==
  ASSUME PlacesInv, Alive, pc \notin Early, pc' \notin Early, ChainInv',
         UNCHANGED <<snapshot, sent, channel, closed, buckets>>,
         cancelled => cancelled', padding' >= padding
  PROVE  StreamSoFar' /\ BucketsSoFar'
<1>1. StreamSoFar /\ BucketsSoFar /\ TypeOK /\ TypeOK' BY DEF PlacesInv, ChainInv
<1>2. Received' = Received BY DEF Received
<1>3. sent \in Nat /\ padding \in Nat /\ padding' \in Nat BY <1>1 DEF TypeOK
<1>4. sent' <= padding' BY <1>1, <1>3 DEF StreamSoFar
<1>5. /\ channel' = <<>> /\ closed'
      /\ Received' >= 0 /\ \A k \in DOMAIN channel' : channel'[k] = snapshot'[Received' + k]
      /\ closed' => sent' = Len(snapshot') \/ cancelled'
  BY <1>1, <1>2 DEF StreamSoFar
<1>6. StreamSoFar' BY <1>4, <1>5 DEF StreamSoFar
<1>7. BucketsSoFar' BY <1>1, <1>2, BucketsStay
<1>8. QED BY <1>6, <1>7

LEMMA TakenStay ==
  ASSUME UNCHANGED <<snapshot, sent, tier, queue, padding>>
  PROVE  Taken' = Taken
BY DEF Taken, Later, Queued

LEMMA PlacesStay ==
  ASSUME PlacesSoFar, UNCHANGED <<snapshot, sent, cex, tree>>,
         Taken' = Taken, Placed' = Placed, Leading' <=> Leading,
         Leading /\ table' # <<>>
           => table'[Len(table')].run = run' /\ table'[Len(table')].tier <= tier',
         ~Leading => /\ height' = 0 /\ \A h \in DOMAIN table' : table'[h].run < run'
                     /\ pc' \in {"tier", "done"} => tier' = NoTier
                     /\ pc' = "batch" => queue' # <<>>
  PROVE  PlacesSoFar'
<1>1. \A a \in Assets, c \in Columns :
        cex'[a][c] = SumFunctionOnSet([i \in DOMAIN snapshot' |-> snapshot'[i].bal[a][c]],
                                      {i \in 1 .. sent' : i - 1 \in Taken'})
  BY DEF PlacesSoFar
<1>2. Leading' =>
       /\ \A x \in 0 .. (Slots - 1) : x \notin Taken' => tree'[x] = EmptyLeaf
       /\ \A p \in Placed' :
            /\ p.op.fresh /\ p.op.index \in Taken'
            /\ IF p.op.id = PaddingId THEN sent' <= p.op.index
               ELSE p.op.index < sent' /\ p.op.id = snapshot'[p.op.index + 1].id
       /\ \A p, q \in Placed' : p.op.index = q.op.index => p = q
       /\ Taken' \subseteq {p.op.index : p \in Placed'}
  BY DEF PlacesSoFar
<1>3. QED BY <1>1, <1>2 DEF PlacesSoFar

LEMMA QueueStays ==
  ASSUME QueueSoFar, UNCHANGED <<snapshot, sent, tier, queue, padding>>
  PROVE  \A k \in DOMAIN queue' :
           /\ IF queue'[k].id = PaddingId
                THEN /\ sent' <= queue'[k].index /\ queue'[k].index < padding'
                     /\ queue'[k].bal = Zero /\ Len(queue') - k < UsersPerBatch[tier'] - 1
                ELSE /\ queue'[k].index < sent'
                     /\ queue'[k] = snapshot'[queue'[k].index + 1]
                     /\ TierOf(queue'[k]) = {tier'}
           /\ \A l \in DOMAIN queue' : queue'[l].index = queue'[k].index => l = k
BY DEF QueueSoFar

(* Between batches and at the end the places stand. *)
LEMMA StandPlaces ==
  ASSUME PlacesInv, ChainInv', Alive, pc \notin Early, Finish \/ Cancel
  PROVE  PlacesInv'
<1>1. /\ UNCHANGED <<snapshot, sent, channel, closed, buckets, tier, queue, padding, cex, tree,
                     height, wit, table, run>>
      /\ cancelled => cancelled'
      /\ pc' = pc \/ (pc = "tier" /\ pc' = "done")
  BY DEF Finish, Cancel, producer, state, chain, stored
<1>2. pc' \notin Early /\ padding \in Nat BY <1>1 DEF Early, PlacesInv, ChainInv, TypeOK
<1>3. StreamSoFar' /\ BucketsSoFar'
  <2>1. padding' >= padding BY <1>1, <1>2
  <2>2. QED BY <1>1, <1>2, <2>1, StreamStays
<1>4. QueueSoFar'
  <2>1. pc' = "done" => NextTiers' = {}
    <3>1. pc' = "done" => NextTiers = {} BY DEF Finish, Cancel
    <3>2. QED BY <1>1, <3>1 DEF NextTiers
  <2>2. QED BY <1>1, <2>1, QueueStays DEF PlacesInv, QueueSoFar
<1>5. BatchSoFar' BY <1>1 DEF PlacesInv, BatchSoFar
<1>6. RowsSoFar' BY <1>1, RowsStay DEF PlacesInv
<1>7. PlacesSoFar'
  <2>1. Taken' = Taken BY <1>1, TakenStay
  <2>2. Placed' = Placed BY <1>1 DEF Placed, Rows
  <2>3. Leading' <=> Leading BY <1>1 DEF Leading
  <2>4. Leading /\ table' # <<>>
          => table'[Len(table')].run = run' /\ table'[Len(table')].tier <= tier'
    BY <1>1 DEF PlacesInv, PlacesSoFar
  <2>5. ~Leading => /\ height' = 0 /\ \A h \in DOMAIN table' : table'[h].run < run'
                    /\ pc' \in {"tier", "done"} => tier' = NoTier
                    /\ pc' = "batch" => queue' # <<>>
    BY <1>1 DEF PlacesInv, PlacesSoFar
  <2>6. QED BY <1>1, <2>1, <2>2, <2>3, <2>4, <2>5, PlacesStay DEF PlacesInv
<1>8. QED BY <1>1, <1>3, <1>4, <1>5, <1>6, <1>7 DEF PlacesInv

(* A batch is started while a whole one is queued, and none is left over.  *)
LEMMA StartBatchPlaces ==
  ASSUME PlacesInv, ChainInv', StartBatch
  PROVE  PlacesInv'
<1>1. /\ UNCHANGED <<snapshot, sent, channel, closed, cancelled, buckets, tier, queue, padding,
                     cex, tree, height, table, run>>
      /\ pc = "batch"
  BY DEF StartBatch, producer, state, stored
<1>2. /\ Alive /\ pc \notin Early /\ pc' \notin Early
      /\ padding \in Nat /\ queue \in Seq(Account) /\ Len(queue) \in Nat /\ tier \in Tiers
      /\ UsersPerBatch[tier] \in Nat \ {0}
  <2>1. TypeOK BY DEF PlacesInv, ChainInv
  <2>2. pc' \in {"tier", "build"} BY DEF StartBatch
  <2>3. padding \in Nat /\ queue \in Seq(Account) /\ tier \in Tiers BY <1>1, <2>1 DEF TypeOK
  <2>4. QED BY <1>1, <2>2, <2>3, ShapeAssumption DEF Alive, Early
<1>3. StreamSoFar' /\ BucketsSoFar'
  <2>1. padding' >= padding BY <1>1, <1>2
  <2>2. QED BY <1>1, <1>2, <2>1, StreamStays
<1>4. RowsSoFar' BY <1>1, RowsStay DEF PlacesInv
<1>5. /\ QueueSoFar /\ BatchSoFar /\ PlacesSoFar
      /\ Len(queue) % UsersPerBatch[tier] = 0
  BY <1>1, <1>2 DEF PlacesInv, QueueSoFar
<1>6. Taken' = Taken BY <1>1, TakenStay
<1>7. Leading' <=> Leading BY <1>1 DEF Leading, StartBatch
<1>8. Leading /\ table' # <<>>
        => table'[Len(table')].run = run' /\ table'[Len(table')].tier <= tier'
  BY <1>1, <1>5 DEF PlacesSoFar
<1>9. ~Leading => height' = 0 /\ (\A h \in DOMAIN table' : table'[h].run < run') /\ queue # <<>>
  BY <1>1, <1>5 DEF PlacesSoFar
<1>10. CASE Len(queue) < UsersPerBatch[tier]
  <2>1. pc' = "tier" /\ wit' = wit BY <1>10 DEF StartBatch
  <2>2. queue = <<>>
    <3>1. Len(queue) = 0 BY <1>2, <1>5, <1>10, NoneLeft
    <3>2. QED BY <1>2, <3>1
  <2>3. QueueSoFar' BY <1>1, <1>5, <2>1, <2>2, QueueStays DEF QueueSoFar
  <2>4. BatchSoFar' BY <2>1 DEF BatchSoFar
  <2>5. Placed' = Placed BY <1>1, <2>1 DEF Placed, Rows
  <2>6. PlacesSoFar' BY <1>1, <1>5, <1>6, <1>7, <1>8, <1>9, <2>2, <2>5, PlacesStay
  <2>7. QED BY <1>1, <1>3, <1>4, <2>3, <2>4, <2>6 DEF PlacesInv
<1>11. CASE ~(Len(queue) < UsersPerBatch[tier])
  <2>1. pc' = "build" /\ wit' = NewWit BY <1>11 DEF StartBatch
  <2>2. wit'.ops = <<>> /\ wit'.tier = tier BY <2>1 DEF NewWit
  <2>3. QueueSoFar'
    <3>1. (Len(queue') + Len(wit'.ops)) % UsersPerBatch[tier'] = 0
      <4>1. Len(wit'.ops) = 0 BY <2>2
      <4>2. Len(queue') + Len(wit'.ops) = Len(queue) BY <1>1, <1>2, <4>1
      <4>3. QED BY <1>1, <1>5, <4>2
    <3>2. QED BY <1>1, <1>5, <2>1, <3>1, QueueStays DEF QueueSoFar
  <2>4. BatchSoFar' BY <1>1, <2>2 DEF BatchSoFar
  <2>5. Placed' = Placed
    <3>1. table \in Seq(Row) /\ Rows = table /\ Rows' = Append(table, wit')
      BY <1>1, <2>1 DEF Rows, PlacesInv, ChainInv, TypeOK
    <3>2. PICK n \in Nat : n = Len(table) BY <3>1
    <3>3. /\ DOMAIN Rows = 1 .. n /\ DOMAIN Rows' = 1 .. (n + 1)
          /\ Rows'[n + 1] = wit' /\ \A h \in 1 .. n : Rows'[h] = Rows[h]
      BY <3>1, <3>2
    <3>4. DOMAIN Rows'[n + 1].ops = {} BY <2>2, <3>3
    <3>5. \A h \in 1 .. (n + 1) : h \in 1 .. n \/ h = n + 1 OBVIOUS
    <3>6. \A h \in 1 .. n : h \in 1 .. (n + 1) OBVIOUS
    <3>7. \A p : p \in Placed' <=> p \in Placed
      BY <3>3, <3>4, <3>5, <3>6, InPlaced, InPlacedNext
    <3>8. QED BY <3>7
  <2>6. PlacesSoFar' BY <1>1, <1>5, <1>6, <1>7, <1>8, <1>9, <2>1, <2>5, PlacesStay
  <2>7. QED BY <1>1, <1>3, <1>4, <2>3, <2>4, <2>6 DEF PlacesInv
<1>12. QED BY <1>10, <1>11

(* A finished batch becomes a row with the places it has filled. *)
LEMMA EndBatchPlaces ==
  ASSUME PlacesInv, ChainInv', EndBatch
  PROVE  PlacesInv'
<1>1. /\ UNCHANGED <<snapshot, sent, channel, closed, cancelled, buckets, tier, queue, padding,
                     cex, tree, height, table, run>>
      /\ pc = "build" /\ pc' = "create" /\ Len(wit.ops) = UsersPerBatch[tier]
      /\ wit' = [wit EXCEPT !.after = tree, !.cexAfter = cex]
  BY DEF EndBatch, producer, state, stored
<1>2. /\ Alive /\ pc \notin Early /\ pc' \notin Early /\ padding \in Nat
      /\ wit \in Row /\ table \in Seq(Row)
  BY <1>1 DEF Alive, Early, PlacesInv, ChainInv, TypeOK
<1>3. wit'.ops = wit.ops /\ wit'.tier = wit.tier BY <1>1, <1>2 DEF Row
<1>4. StreamSoFar' /\ BucketsSoFar'
  <2>1. padding' >= padding BY <1>1, <1>2
  <2>2. QED BY <1>1, <1>2, <2>1, StreamStays
<1>5. RowsSoFar' BY <1>1, RowsStay DEF PlacesInv
<1>6. QueueSoFar /\ BatchSoFar /\ PlacesSoFar BY <1>2 DEF PlacesInv
<1>7. QueueSoFar'
  <2>1. (Len(queue') + Len(wit'.ops)) % UsersPerBatch[tier'] = 0
    BY <1>1, <1>3, <1>6 DEF QueueSoFar
  <2>2. QED BY <1>1, <1>3, <1>6, <2>1, QueueStays DEF QueueSoFar
<1>8. BatchSoFar' BY <1>1, <1>3, <1>6 DEF BatchSoFar
<1>9. Placed' = Placed
  <2>1. Rows = Append(table, wit) /\ Rows' = Append(table, wit') BY <1>1 DEF Rows
  <2>2. PICK n \in Nat : n = Len(table) BY <1>2
  <2>3. /\ DOMAIN Rows = 1 .. (n + 1) /\ DOMAIN Rows' = 1 .. (n + 1)
        /\ Rows[n + 1] = wit /\ Rows'[n + 1] = wit'
        /\ \A h \in 1 .. n : Rows'[h] = Rows[h]
    BY <1>2, <2>1, <2>2
  <2>4. \A h \in 1 .. (n + 1) : h \in 1 .. n \/ h = n + 1 OBVIOUS
  <2>5. QED BY <1>3, <2>3, <2>4, PlacedStay
<1>10. PlacesSoFar'
  <2>1. Taken' = Taken BY <1>1, TakenStay
  <2>2. Leading' <=> Leading BY <1>1 DEF Leading
  <2>3. Leading /\ table' # <<>>
          => table'[Len(table')].run = run' /\ table'[Len(table')].tier <= tier'
    BY <1>1, <1>6 DEF PlacesSoFar
  <2>4. ~Leading => height' = 0 /\ (\A h \in DOMAIN table' : table'[h].run < run')
    BY <1>1, <1>6 DEF PlacesSoFar
  <2>5. QED BY <1>1, <1>6, <1>9, <2>1, <2>2, <2>3, <2>4, PlacesStay
<1>11. QED BY <1>1, <1>4, <1>5, <1>7, <1>8, <1>10 DEF PlacesInv

LEMMA CreateRowPlaces ==
  ASSUME PlacesInv, ChainInv', Alive', CreateRow
  PROVE  PlacesInv'
<1>1. /\ UNCHANGED <<snapshot, sent, channel, closed, cancelled, buckets, tier, queue, padding,
                     cex, tree, height, wit, run>>
      /\ pc = "create" /\ pc' = "commit" /\ table' = Append(table, wit)
      /\ ~(height < Len(table))
  BY DEF CreateRow, producer, state, chain, Alive
<1>2. /\ Alive /\ pc \notin Early /\ pc' \notin Early /\ padding \in Nat
      /\ table \in Seq(Row) /\ wit \in Row /\ tier \in Nat
  BY <1>1, ShapeAssumption DEF Alive, Early, PlacesInv, ChainInv, TypeOK
<1>3. height = Len(table)
  <2>1. height <= Len(table) /\ height \in Nat /\ Len(table) \in Nat
    BY DEF PlacesInv, ChainInv, TypeOK
  <2>2. QED BY <1>1, <2>1
<1>4. StreamSoFar' /\ BucketsSoFar'
  <2>1. padding' >= padding BY <1>1, <1>2
  <2>2. QED BY <1>1, <1>2, <2>1, StreamStays
<1>5. RowsSoFar' /\ table'[Len(table')].run = run' /\ table'[Len(table')].tier = tier
  BY <1>1, <1>3, RowLaid
<1>6. QueueSoFar /\ BatchSoFar /\ PlacesSoFar BY <1>2 DEF PlacesInv
<1>7. QueueSoFar'
  <2>1. (Len(queue') + Len(wit'.ops)) % UsersPerBatch[tier'] = 0
    BY <1>1, <1>6 DEF QueueSoFar
  <2>2. QED BY <1>1, <1>6, <2>1, QueueStays DEF QueueSoFar
<1>8. BatchSoFar' BY <1>1, <1>6 DEF BatchSoFar
<1>9. PlacesSoFar'
  <2>1. Taken' = Taken BY <1>1, TakenStay
  <2>2. Leading' /\ Leading BY <1>1, <1>3 DEF Leading
  <2>3. Placed' = Placed
    <3>1. Rows' = Rows BY <1>1 DEF Rows
    <3>2. QED BY <3>1 DEF Placed
  <2>4. tier <= tier' BY <1>1, <1>2
  <2>5. table'[Len(table')].run = run' /\ table'[Len(table')].tier <= tier'
    BY <1>5, <2>4
  <2>6. QED BY <1>1, <1>6, <2>1, <2>2, <2>3, <2>5, PlacesStay
<1>10. QED BY <1>1, <1>4, <1>5, <1>7, <1>8, <1>9 DEF PlacesInv

LEMMA CommitPlaces ==
  ASSUME PlacesInv, ChainInv', CommitTree
  PROVE  PlacesInv'
<1>1. /\ UNCHANGED <<snapshot, sent, channel, closed, cancelled, buckets, tier, queue, padding,
                     cex, tree, table, run>>
      /\ pc = "commit" /\ pc' = "batch" /\ height' = height + 1
  BY DEF CommitTree, producer, state
<1>2. /\ Alive /\ pc \notin Early /\ pc' \notin Early /\ padding \in Nat
      /\ tier \in Tiers /\ queue \in Seq(Account)
      /\ height' = Len(table')
  BY <1>1 DEF Alive, Early, PlacesInv, ChainInv, TypeOK
<1>3. StreamSoFar' /\ BucketsSoFar'
  <2>1. padding' >= padding BY <1>1, <1>2
  <2>2. QED BY <1>1, <1>2, <2>1, StreamStays
<1>4. RowsSoFar' BY <1>1, RowsStay DEF PlacesInv
<1>5. QueueSoFar /\ PlacesSoFar BY <1>2 DEF PlacesInv
<1>6. QueueSoFar'
  <2>1. Len(queue) \in Nat /\ UsersPerBatch[tier] \in Nat \ {0} BY <1>2, ShapeAssumption
  <2>2. (Len(queue) + UsersPerBatch[tier]) % UsersPerBatch[tier] = 0
    <3>1. /\ (Len(queue) + Len(wit.ops)) % UsersPerBatch[tier] = 0
          /\ Len(wit.ops) = UsersPerBatch[tier]
      BY <1>1, <1>5 DEF QueueSoFar
    <3>2. QED BY <3>1
  <2>3. Len(queue) % UsersPerBatch[tier] = 0 BY <2>1, <2>2, OneLess
  <2>4. QED BY <1>1, <1>5, <2>3, QueueStays DEF QueueSoFar
<1>7. BatchSoFar' BY <1>1 DEF BatchSoFar
<1>8. PlacesSoFar'
  <2>1. Taken' = Taken BY <1>1, TakenStay
  <2>2. Leading' /\ Leading BY <1>1, <1>2 DEF Leading
  <2>3. Placed' = Placed BY <1>1 DEF Placed, Rows
  <2>4. table' # <<>> => table'[Len(table')].run = run' /\ table'[Len(table')].tier <= tier'
    BY <1>1, <1>5, <2>2 DEF PlacesSoFar
  <2>5. QED BY <1>1, <1>5, <2>1, <2>2, <2>3, <2>4, PlacesStay
<1>9. QED BY <1>1, <1>3, <1>4, <1>6, <1>7, <1>8 DEF PlacesInv

(* Padding starts behind the accounts; none has a place before its tier.   *)
LEMMA EndOfStreamPlaces ==
  ASSUME EarlyInv, ChainInv', EndOfStream
  PROVE  PlacesInv'
<1>1. /\ UNCHANGED <<snapshot, sent, channel, closed, cancelled, buckets, tier, queue,
                     cex, tree, height, table, run>>
      /\ channel = <<>> /\ closed /\ padding' = sent /\ pc' = "tier"
  BY DEF EndOfStream, producer, chain, stored
<1>2. /\ tier = NoTier /\ queue = <<>> /\ height = 0 /\ cex = Zero
      /\ StreamSoFar /\ BucketsSoFar
  BY DEF EarlyInv, StreamSoFar
<1>3. TypeOK /\ sent \in Nat /\ table \in Seq(Row)
  <2>1. TypeOK BY DEF EarlyInv, ChainInv
  <2>2. QED BY <2>1 DEF TypeOK
<1>4. Received' = Received /\ Received = sent
  <2>1. Len(channel) = 0 BY <1>1
  <2>2. QED BY <1>1, <1>3, <2>1 DEF Received
<1>5. StreamSoFar'
  <2>1. \A k \in DOMAIN channel' : channel'[k] = snapshot'[Received' + k] BY <1>1
  <2>2. Received' >= 0 /\ sent' <= padding' BY <1>1, <1>3, <1>4
  <2>3. QED BY <1>1, <1>2, <2>1, <2>2 DEF StreamSoFar, Early
<1>6. BucketsSoFar' BY <1>1, <1>2, <1>4, BucketsStay
<1>7. QueueSoFar' BY <1>1, <1>2 DEF QueueSoFar
<1>8. BatchSoFar' BY <1>1 DEF BatchSoFar
<1>9. RowsSoFar' BY <1>1, RowsStay DEF EarlyInv
<1>10. Taken' = {}
  <2>1. SUFFICES ASSUME NEW x \in 0 .. (sent - 1) PROVE Later(x)'
    BY <1>1 DEF Taken
  <2>2. PICK t \in Tiers : TierOf(snapshot[x + 1]) = {t} BY <1>2, <1>4 DEF BucketsSoFar
  <2>3. t > NoTier BY ShapeAssumption DEF NoTier
  <2>4. x < sent BY <1>3
  <2>5. \E u \in TierOf(snapshot'[x + 1]) : u > tier' BY <1>1, <1>2, <2>2, <2>3
  <2>6. QED BY <1>1, <2>4, <2>5 DEF Later
<1>11. PlacesSoFar'
  <2>1. \A a \in Assets, c \in Columns :
          cex'[a][c] = SumFunctionOnSet([i \in DOMAIN snapshot' |-> snapshot'[i].bal[a][c]],
                                        {i \in 1 .. sent' : i - 1 \in Taken'})
    BY <1>1, <1>2, <1>10, ZeroAt, SumEmpty
  <2>2. CASE Leading'
    <3>1. height' = Len(table') BY <1>1, <2>2 DEF Leading
    <3>2. table' = <<>> BY <1>1, <1>2, <1>3, <3>1
    <3>3. tree' = EmptyTree BY <1>1, <3>1, <3>2 DEF ChainInv, AtTip
    <3>4. \A x \in 0 .. (Slots - 1) : tree'[x] = EmptyLeaf BY <3>3 DEF EmptyTree
    <3>5. Placed' = {} BY <1>1, <3>2 DEF Placed, Rows
    <3>6. QED BY <1>10, <2>1, <2>2, <3>2, <3>4, <3>5 DEF PlacesSoFar
  <2>3. CASE ~Leading'
    <3>1. height' = 0 /\ \A h \in DOMAIN table' : table'[h].run < run'
      BY <1>1, <1>2 DEF EarlyInv
    <3>2. QED BY <1>1, <1>2, <2>1, <2>3, <3>1 DEF PlacesSoFar
  <2>4. QED BY <2>2, <2>3
<1>12. snapshot' \in Snapshots BY <1>1 DEF EarlyInv
<1>13. QED BY <1>5, <1>6, <1>7, <1>8, <1>9, <1>11, <1>12 DEF PlacesInv

(* The accounts of a tier and its padding are queued, and none is placed   *)
(* yet: the leaves taken stay those of the tiers before.                   *)
LEMMA StartTierPlaces ==
  ASSUME DenselyIndexed, PlacesInv, ChainInv', StartTier
  PROVE  PlacesInv'
<1>1. PICK t \in NextTiers :
        /\ \A u \in NextTiers : t <= u
        /\ tier' = t /\ queue' = PaddedWith(buckets[t], t, padding)
        /\ padding' = padding + PaddingCount(Len(buckets[t]), t)
        /\ pc = "tier" /\ pc' = "batch"
        /\ UNCHANGED <<snapshot, sent, channel, closed, cancelled, buckets, cex, tree, height,
                       table, run>>
  BY DEF StartTier, producer, chain, stored
<1>2. /\ TypeOK /\ sent \in Nat /\ sent <= Len(snapshot) /\ padding \in Nat
      /\ buckets \in [Tiers -> Seq(Account)] /\ table \in Seq(Row) /\ Len(snapshot) \in Nat
      /\ tier \in Nat
  <2>1. TypeOK BY DEF PlacesInv, ChainInv
  <2>2. snapshot \in Seq(Account) /\ sent \in 0 .. Len(snapshot) BY <2>1 DEF TypeOK
  <2>3. tier \in Nat BY <2>1, ShapeAssumption DEF TypeOK, NoTier
  <2>4. QED BY <2>1, <2>2, <2>3 DEF TypeOK
<1>3. /\ t \in Tiers /\ t \in Nat /\ t > tier /\ buckets[t] # <<>>
  BY ShapeAssumption DEF NextTiers
<1>4. /\ Alive /\ pc \notin Early /\ pc' \notin Early
      /\ StreamSoFar /\ BucketsSoFar /\ QueueSoFar /\ PlacesSoFar
      /\ queue = <<>> /\ channel = <<>> /\ sent <= padding
  BY <1>1 DEF Alive, Early, PlacesInv, StreamSoFar, QueueSoFar
<1>5. Received = sent
  <2>1. Len(channel) = 0 BY <1>4
  <2>2. QED BY <1>2, <2>1 DEF Received
<1> DEFINE b == buckets[t]
           n == Len(b)
           c == PaddingCount(n, t)
<1>6. b \in Seq(Account) /\ n \in Nat /\ n >= 1 /\ DOMAIN b = 1 .. n
  <2>1. b \in Seq(Account) /\ b # <<>> BY <1>2, <1>3
  <2>2. QED BY <2>1
<1>7. /\ c \in Nat /\ c < UsersPerBatch[t]
      /\ queue' \in Seq(Account) /\ Len(queue') = n + c /\ Len(queue') % UsersPerBatch[t] = 0
      /\ \A k \in 1 .. n : queue'[k] = b[k]
      /\ \A k \in (n + 1) .. (n + c) :
           queue'[k] = [id |-> PaddingId, index |-> padding + (k - n) - 1, bal |-> Zero]
  <2>1. PICK accounts, start : accounts = b /\ start = padding OBVIOUS
  <2>2. queue' = PaddedWith(accounts, t, start) BY <1>1, <2>1
  <2>3. accounts \in Seq(Account) /\ start \in Nat /\ t \in Tiers BY <1>2, <1>3, <1>6, <2>1
  <2>4. /\ Len(accounts) = n /\ PaddingCount(Len(accounts), t) = c BY <2>1
  <2> HIDE DEF b, n, c
  <2>5. /\ c \in Nat /\ c < UsersPerBatch[t]
        /\ queue' \in Seq(Account) /\ Len(queue') = n + c /\ Len(queue') % UsersPerBatch[t] = 0
        /\ \A k \in 1 .. n : queue'[k] = accounts[k]
        /\ \A k \in (n + 1) .. (n + c) :
             queue'[k] = [id |-> PaddingId, index |-> start + (k - n) - 1, bal |-> Zero]
    BY <2>2, <2>3, <2>4, PaddedQueue
  <2>6. QED BY <2>1, <2>5
<1>8. DOMAIN queue' = 1 .. (n + c) BY <1>6, <1>7
<1>9. padding' = padding + c BY <1>1
<1>10. UsersPerBatch[t] \in Nat \ {0} BY <1>3, ShapeAssumption
<1>11. \A j \in 1 .. n :
         /\ queue'[j] = b[j] /\ b[j].index \in Nat /\ b[j].index < sent
         /\ b[j] = snapshot[b[j].index + 1] /\ TierOf(b[j]) = {t} /\ b[j].id # PaddingId
         /\ \A l \in 1 .. n : b[l].index = b[j].index => l = j
  <2>1. SUFFICES ASSUME NEW j \in 1 .. n
                 PROVE  /\ b[j].index \in Nat /\ b[j].index < sent
                        /\ b[j] = snapshot[b[j].index + 1] /\ TierOf(b[j]) = {t}
                        /\ b[j].id # PaddingId
                        /\ \A l \in 1 .. n : b[l].index = b[j].index => l = j
    BY <1>7
  <2>2. b[j] \in Account BY <1>6
  <2>3. b[j].index \in Nat BY <2>2 DEF Account, Accounts
  <2>4. /\ b[j].index < sent /\ b[j] = snapshot[b[j].index + 1] /\ TierOf(b[j]) = {t}
        /\ \A l \in 1 .. n : b[l].index = b[j].index => l = j
    BY <1>3, <1>4, <1>5, <1>6 DEF BucketsSoFar
  <2>5. b[j].index < Len(snapshot) BY <1>2, <2>3, <2>4
  <2>6. snapshot \in Snapshots BY DEF PlacesInv
  <2>7. snapshot[b[j].index + 1].id # PaddingId BY <1>2, <2>3, <2>5, <2>6, Numbered
  <2>8. QED BY <2>3, <2>4, <2>7
<1>12. \A k \in (n + 1) .. (n + c) :
         /\ queue'[k].id = PaddingId /\ queue'[k].index = padding + (k - n) - 1
         /\ queue'[k].bal = Zero
  <2> HIDE DEF b, n, c
  <2>1. \A k \in (n + 1) .. (n + c) :
          queue'[k] = [id |-> PaddingId, index |-> padding + (k - n) - 1, bal |-> Zero]
    BY <1>7
  <2>2. SUFFICES ASSUME NEW k \in (n + 1) .. (n + c)
                 PROVE  /\ queue'[k].id = PaddingId
                        /\ queue'[k].index = padding + (k - n) - 1 /\ queue'[k].bal = Zero
    OBVIOUS
  <2>3. PICK i : i = padding + (k - n) - 1 OBVIOUS
  <2>4. queue'[k] = [id |-> PaddingId, index |-> i, bal |-> Zero] BY <2>1, <2>3
  <2>5. QED BY <2>3, <2>4
<1> HIDE DEF b, n, c
<1>13. \A k \in 1 .. (n + c) : k \in 1 .. n \/ k \in (n + 1) .. (n + c) BY <1>6, <1>7
<1>14. \A k \in (n + 1) .. (n + c) :
         /\ padding <= padding + (k - n) - 1 /\ padding + (k - n) - 1 < padding + c
         /\ (n + c) - k < UsersPerBatch[t] - 1 /\ padding + (k - n) - 1 \in Nat
  BY <1>2, <1>6, <1>7, <1>10
<1>15. Taken' = Taken
  <2>1. ASSUME NEW x \in Taken PROVE x \in Taken'
    <3>1. x \in 0 .. (padding - 1) /\ ~Later(x) BY DEF Taken
    <3>2. x \in Nat /\ x < padding /\ x \in 0 .. (padding' - 1) BY <1>2, <1>7, <1>9, <3>1
    <3>3. ~Later(x)'
      <4>1. SUFFICES ASSUME x < sent, NEW u \in TierOf(snapshot[x + 1]), u > t PROVE FALSE
        BY <1>1 DEF Later
      <4>2. u \in Tiers BY DEF TierOf, PickAssetCountTier
      <4>3. u > tier BY <1>2, <1>3, <4>1, <4>2, ShapeAssumption
      <4>4. QED BY <3>1, <4>1, <4>3 DEF Later
    <3>4. ~Queued(x)'
      <4>1. SUFFICES ASSUME NEW k \in 1 .. (n + c), queue'[k].index = x PROVE FALSE
        BY <1>8 DEF Queued
      <4>2. CASE k \in 1 .. n
        <5>1. b[k].index = x /\ x < sent /\ TierOf(snapshot[x + 1]) = {t}
          BY <1>11, <4>1, <4>2
        <5>2. QED BY <1>3, <3>1, <5>1 DEF Later
      <4>3. CASE k \in (n + 1) .. (n + c)
        <5>1. x = padding + (k - n) - 1 BY <1>12, <4>1, <4>3
        <5>2. padding <= x BY <1>14, <4>3, <5>1
        <5>3. QED BY <1>2, <3>2, <5>2
      <4>4. QED BY <1>13, <4>2, <4>3
    <3>5. QED BY <3>2, <3>3, <3>4 DEF Taken
  <2>2. ASSUME NEW x \in Taken' PROVE x \in Taken
    <3>1. x \in 0 .. (padding' - 1) /\ ~Later(x)' /\ ~Queued(x)' BY DEF Taken
    <3>2. x < padding
      <4>1. SUFFICES ASSUME ~(x < padding) PROVE FALSE OBVIOUS
      <4>2. PICK k : k = x - padding + 1 + n OBVIOUS
      <4>3. k \in (n + 1) .. (n + c) /\ x = padding + (k - n) - 1
        BY <1>2, <1>6, <1>7, <1>9, <3>1, <4>1, <4>2
      <4>4. queue'[k].index = x BY <1>12, <4>3
      <4>5. k \in DOMAIN queue' BY <1>6, <1>7, <1>8, <4>3
      <4>6. QED BY <3>1, <4>4, <4>5 DEF Queued
    <3>3. x \in 0 .. (padding - 1) BY <1>2, <1>7, <1>9, <3>1, <3>2
    <3>4. ~Queued(x) BY <1>4 DEF Queued
    <3>5. ~Later(x)
      <4>1. SUFFICES ASSUME x < sent, NEW u \in TierOf(snapshot[x + 1]), u > tier
                     PROVE  FALSE
        BY DEF Later
      <4>2. x \in 0 .. (sent - 1) BY <1>2, <3>3, <4>1
      <4>3. PICK v \in Tiers : /\ TierOf(snapshot[x + 1]) = {v}
                               /\ \E j \in DOMAIN buckets[v] : buckets[v][j].index = x
        BY <1>4, <1>5, <4>2 DEF BucketsSoFar
      <4>4. PICK j \in DOMAIN buckets[v] : buckets[v][j].index = x BY <4>3
      <4>5. v = u /\ buckets[v] # <<>> BY <4>1, <4>3, <4>4
      <4>6. v \in NextTiers BY <4>1, <4>5 DEF NextTiers
      <4>7. t <= v BY <1>1, <4>6
      <4>8. CASE v = t
        <5>1. j \in 1 .. n /\ b[j].index = x BY <1>6, <4>4, <4>8 DEF b
        <5>2. queue'[j].index = x /\ j \in DOMAIN queue' BY <1>6, <1>7, <1>8, <1>11, <5>1
        <5>3. QED BY <3>1, <5>2 DEF Queued
      <4>9. CASE v # t
        <5>1. v > t BY <1>3, <4>3, <4>7, <4>9, ShapeAssumption
        <5>2. QED BY <1>1, <3>1, <4>1, <4>5, <5>1 DEF Later
      <4>10. QED BY <4>8, <4>9
    <3>6. QED BY <3>3, <3>4, <3>5 DEF Taken
  <2>3. QED BY <2>1, <2>2
<1>16. QueueSoFar'
  <2>1. ASSUME NEW k \in 1 .. (n + c)
        PROVE  /\ IF queue'[k].id = PaddingId
                    THEN /\ sent' <= queue'[k].index /\ queue'[k].index < padding'
                         /\ queue'[k].bal = Zero
                         /\ Len(queue') - k < UsersPerBatch[tier'] - 1
                    ELSE /\ queue'[k].index < sent'
                         /\ queue'[k] = snapshot'[queue'[k].index + 1]
                         /\ TierOf(queue'[k]) = {tier'}
    <3>1. CASE k \in 1 .. n BY <1>1, <1>11, <3>1
    <3>2. CASE k \in (n + 1) .. (n + c)
      <4>1. padding <= queue'[k].index /\ queue'[k].index < padding'
            /\ queue'[k].index \in Nat
        BY <1>9, <1>12, <1>14, <3>2
      <4>2. sent' <= queue'[k].index BY <1>1, <1>2, <1>4, <4>1
      <4>3. Len(queue') - k < UsersPerBatch[tier'] - 1 BY <1>1, <1>7, <1>14, <3>2
      <4>4. QED BY <1>12, <3>2, <4>1, <4>2, <4>3
    <3>3. QED BY <1>13, <3>1, <3>2
  <2>2. ASSUME NEW k \in 1 .. (n + c), NEW l \in 1 .. (n + c),
               queue'[l].index = queue'[k].index
        PROVE  l = k
    <3>1. \A i \in 1 .. n, j \in (n + 1) .. (n + c) : queue'[i].index # queue'[j].index
      <4>1. SUFFICES ASSUME NEW i \in 1 .. n, NEW j \in (n + 1) .. (n + c)
                     PROVE  queue'[i].index # queue'[j].index
        OBVIOUS
      <4>2. queue'[i].index < sent /\ queue'[i].index \in Nat BY <1>11
      <4>3. padding <= queue'[j].index /\ queue'[j].index \in Nat BY <1>12, <1>14
      <4>4. QED BY <1>2, <1>4, <4>2, <4>3
    <3>2. CASE k \in 1 .. n /\ l \in 1 .. n BY <1>11, <2>2, <3>2
    <3>3. CASE k \in (n + 1) .. (n + c) /\ l \in (n + 1) .. (n + c)
      <4>1. padding + (l - n) - 1 = padding + (k - n) - 1 BY <1>12, <2>2, <3>3
      <4>2. QED BY <1>2, <1>6, <4>1
    <3>4. QED BY <1>13, <2>2, <3>1, <3>2, <3>3
  <2>3. Len(queue') % UsersPerBatch[tier'] = 0 BY <1>1, <1>7
  <2>4. pc' = "batch" BY <1>1
  <2>5. QED BY <1>8, <2>1, <2>2, <2>3, <2>4 DEF QueueSoFar
<1>17. StreamSoFar' /\ BucketsSoFar'
  <2>1. padding' >= padding BY <1>2, <1>7, <1>9
  <2>2. QED BY <1>1, <1>4, <2>1, StreamStays
<1>18. BatchSoFar' BY <1>1 DEF BatchSoFar
<1>19. RowsSoFar' BY <1>1, RowsStay DEF PlacesInv
<1>20. PlacesSoFar'
  <2>1. Placed' = Placed BY <1>1 DEF Placed, Rows
  <2>2. Leading' <=> Leading BY <1>1 DEF Leading
  <2>3. Leading /\ table' # <<>>
          => table'[Len(table')].run = run' /\ table'[Len(table')].tier <= tier'
    <3>1. SUFFICES ASSUME Leading, table # <<>>
                   PROVE  table[Len(table)].run = run /\ table[Len(table)].tier <= t
      BY <1>1
    <3>2. table[Len(table)].run = run /\ table[Len(table)].tier <= tier
      BY <1>4, <3>1 DEF PlacesSoFar
    <3>3. table[Len(table)] \in Row BY <1>2, <3>1
    <3>4. table[Len(table)].tier \in Nat BY <3>3, ShapeAssumption DEF Row
    <3>5. QED BY <1>2, <1>3, <3>2, <3>4
  <2>4. queue' # <<>>
    <3>1. Len(queue') # 0 BY <1>6, <1>7
    <3>2. QED BY <3>1
  <2>5. ~Leading => height' = 0 /\ (\A h \in DOMAIN table' : table'[h].run < run')
    BY <1>1, <1>4 DEF PlacesSoFar
  <2>6. QED BY <1>1, <1>4, <1>15, <2>1, <2>2, <2>3, <2>4, <2>5, PlacesStay
<1>21. QED BY <1>1, <1>16, <1>17, <1>18, <1>19, <1>20 DEF PlacesInv

(* One more leaf is taken, an empty one, by the account at the head of the *)
(* queue: its totals are those of its place in the snapshot, or none.      *)
LEMMA AddUserPlaces ==
  ASSUME DenselyIndexed, PlacesInv, ChainInv', Alive', AddUser
  PROVE  PlacesInv'
<1>1. PICK account : account = Head(queue) OBVIOUS
<1>2. PICK m : m = account.index OBVIOUS
<1>3. PICK op : op = [id |-> account.id, index |-> m,
                      count |-> CountNonEmptyAssets(account.bal),
                      fresh |-> tree[m] = EmptyLeaf]
  OBVIOUS
<1>4. PICK u : u = UsersPerBatch[tier] OBVIOUS
<1>5. /\ pc = "build" /\ pc' = pc /\ Len(wit.ops) < u
      /\ UNCHANGED <<snapshot, sent, channel, closed, cancelled, buckets, tier, padding, height,
                     table, run>>
      /\ ~(m >= Slots) /\ ~Overflows(account)
      /\ queue' = Tail(queue) /\ cex' = Plus(cex, account.bal)
  BY <1>1, <1>2, <1>4 DEF AddUser, Alive, producer, stored
<1>6. /\ tree' = [tree EXCEPT ![m] = Leaf(account, tier)]
      /\ wit' = [wit EXCEPT !.ops = Append(@, op)]
  BY <1>1, <1>2, <1>3 DEF AddUser, Alive
<1>7. /\ TypeOK /\ sent \in Nat /\ sent <= Len(snapshot) /\ padding \in Nat
      /\ table \in Seq(Row) /\ wit \in Row /\ tier \in Tiers /\ queue \in Seq(Account)
      /\ Len(snapshot) \in Nat /\ tree \in Trees /\ u \in Nat \ {0}
      /\ snapshot \in Seq(Account) /\ snapshot \in Snapshots
  <2>1. TypeOK /\ snapshot \in Snapshots BY DEF PlacesInv, ChainInv
  <2>2. snapshot \in Seq(Account) /\ sent \in 0 .. Len(snapshot) BY <2>1 DEF TypeOK
  <2>3. QED BY <1>4, <1>5, <2>1, <2>2, ShapeAssumption DEF TypeOK
<1>8. /\ Alive /\ pc \notin Early /\ pc' \notin Early
      /\ StreamSoFar /\ QueueSoFar /\ BatchSoFar /\ PlacesSoFar /\ sent <= padding
  BY <1>5 DEF Alive, Early, PlacesInv, StreamSoFar
<1>9. PICK L : L = Len(queue) OBVIOUS
<1>10. PICK o : o = Len(wit.ops) OBVIOUS
<1>11. wit.ops \in Seq(Op) /\ o \in Nat /\ DOMAIN wit.ops = 1 .. o /\ o < u
  <2>1. wit.ops \in Seq(Op) BY <1>7 DEF Row
  <2>2. QED BY <1>5, <1>10, <2>1
<1>12. L >= u - o /\ L \in Nat /\ L >= 1 /\ (L + o) % u = 0 /\ DOMAIN queue = 1 .. L
  <2>1. Len(queue) >= UsersPerBatch[tier] - Len(wit.ops)
    BY <1>5 DEF PlacesInv, ChainInv
  <2>2. (Len(queue) + Len(wit.ops)) % UsersPerBatch[tier] = 0 BY <1>5, <1>8 DEF QueueSoFar
  <2>3. L \in Nat /\ DOMAIN queue = 1 .. L BY <1>7, <1>9
  <2>4. L >= u - o /\ (L + o) % u = 0 BY <1>4, <1>9, <1>10, <2>1, <2>2
  <2>5. QED BY <1>7, <1>11, <2>3, <2>4
<1>13. account = queue[1] /\ 1 \in DOMAIN queue /\ account \in Account /\ m \in Nat
  <2>1. account = queue[1] /\ 1 \in DOMAIN queue BY <1>1, <1>7, <1>9, <1>12
  <2>2. account \in Account BY <1>7, <2>1
  <2>3. QED BY <1>2, <2>1, <2>2 DEF Account, Accounts
<1>14. /\ DOMAIN queue' = 1 .. (L - 1) /\ Len(queue') = L - 1
       /\ \A k \in 1 .. (L - 1) : queue'[k] = queue[k + 1] /\ k + 1 \in DOMAIN queue /\ k + 1 # 1
  BY <1>5, <1>7, <1>9, <1>12
<1>15. /\ IF account.id = PaddingId
            THEN sent <= m /\ m < padding /\ account.bal = Zero /\ L - 1 < u - 1
            ELSE m < sent /\ account = snapshot[m + 1] /\ TierOf(account) = {tier}
       /\ \A l \in DOMAIN queue : queue[l].index = m => l = 1
  BY <1>2, <1>4, <1>8, <1>9, <1>13 DEF QueueSoFar
<1>16. /\ wit' \in Row /\ wit'.ops = Append(wit.ops, op) /\ wit'.tier = wit.tier
       /\ DOMAIN wit'.ops = 1 .. (o + 1) /\ wit'.ops[o + 1] = op /\ Len(wit'.ops) = o + 1
       /\ \A k \in 1 .. o : wit'.ops[k] = wit.ops[k]
  <2>1. wit'.ops = Append(wit.ops, op) /\ wit'.tier = wit.tier BY <1>6, <1>7 DEF Row
  <2>2. wit' \in Row BY <1>5 DEF ChainInv, TypeOK
  <2>3. QED BY <1>10, <1>11, <2>1, <2>2
<1>17. /\ op.id = account.id /\ op.index = m /\ op.fresh = (tree[m] = EmptyLeaf)
       /\ op.count = CountNonEmptyAssets(account.bal)
  BY <1>3
<1>18. m \notin Taken
  <2>1. Queued(m) BY <1>2, <1>13 DEF Queued
  <2>2. QED BY <2>1 DEF Taken
<1>19. Taken' = Taken \cup {m}
  <2>1. \A x : Later(x)' <=> Later(x) BY <1>5 DEF Later
  <2>2. \A x : Queued(x)' <=> Queued(x) /\ x # m
    <3>1. ASSUME NEW x, Queued(x)' PROVE Queued(x) /\ x # m
      <4>1. PICK k \in 1 .. (L - 1) : queue'[k].index = x BY <1>14, <3>1 DEF Queued
      <4>2. queue[k + 1].index = x /\ k + 1 \in DOMAIN queue /\ k + 1 # 1 BY <1>14, <4>1
      <4>3. QED BY <1>15, <4>2 DEF Queued
    <3>2. ASSUME NEW x, Queued(x), x # m PROVE Queued(x)'
      <4>1. PICK k \in DOMAIN queue : queue[k].index = x BY <3>2 DEF Queued
      <4>2. k # 1 BY <1>2, <1>13, <3>2, <4>1
      <4>3. PICK j : j = k - 1 OBVIOUS
      <4>4. j \in 1 .. (L - 1) /\ j + 1 = k BY <1>12, <4>1, <4>2, <4>3
      <4>5. queue'[j].index = x /\ j \in DOMAIN queue' BY <1>14, <4>1, <4>4
      <4>6. QED BY <4>5 DEF Queued
    <3>3. QED BY <3>1, <3>2
  <2>3. ~Later(m)
    <3>1. SUFFICES ASSUME m < sent, NEW v \in TierOf(snapshot[m + 1]), v > tier PROVE FALSE
      BY DEF Later
    <3>2. account.id # PaddingId BY <1>7, <1>13, <1>15, <3>1
    <3>3. v = tier BY <1>15, <3>1, <3>2
    <3>4. tier \in Nat BY <1>7, ShapeAssumption
    <3>5. QED BY <3>1, <3>3, <3>4
  <2>4. m \in 0 .. (padding - 1) BY <1>7, <1>8, <1>13, <1>15
  <2>5. padding' = padding BY <1>5
  <2>6. QED BY <2>1, <2>2, <2>3, <2>4, <2>5 DEF Taken
<1>20. StreamSoFar' /\ BucketsSoFar'
  <2>1. padding' >= padding BY <1>5, <1>7
  <2>2. QED BY <1>5, <1>8, <2>1, StreamStays
<1>21. RowsSoFar' BY <1>5, RowsStay DEF PlacesInv
<1>22. QueueSoFar'
  <2>1. ASSUME NEW k \in 1 .. (L - 1)
        PROVE  /\ IF queue'[k].id = PaddingId
                    THEN /\ sent' <= queue'[k].index /\ queue'[k].index < padding'
                         /\ queue'[k].bal = Zero
                         /\ Len(queue') - k < UsersPerBatch[tier'] - 1
                    ELSE /\ queue'[k].index < sent'
                         /\ queue'[k] = snapshot'[queue'[k].index + 1]
                         /\ TierOf(queue'[k]) = {tier'}
    <3>1. PICK j : j = k + 1 OBVIOUS
    <3>2. queue'[k] = queue[j] /\ j \in DOMAIN queue BY <1>14, <3>1
    <3>3. Len(queue') - k = Len(queue) - j BY <1>9, <1>12, <1>14, <3>1
    <3>4. IF queue[j].id = PaddingId
            THEN /\ sent <= queue[j].index /\ queue[j].index < padding
                 /\ queue[j].bal = Zero /\ Len(queue) - j < UsersPerBatch[tier] - 1
            ELSE /\ queue[j].index < sent /\ queue[j] = snapshot[queue[j].index + 1]
                 /\ TierOf(queue[j]) = {tier}
      BY <1>8, <3>2 DEF QueueSoFar
    <3>5. QED BY <1>5, <3>2, <3>3, <3>4
  <2>2. ASSUME NEW k \in 1 .. (L - 1), NEW l \in 1 .. (L - 1),
               queue'[l].index = queue'[k].index
        PROVE  l = k
    <3>1. PICK i, j : i = k + 1 /\ j = l + 1 OBVIOUS
    <3>2. queue'[k] = queue[i] /\ i \in DOMAIN queue /\ queue'[l] = queue[j]
          /\ j \in DOMAIN queue
      BY <1>14, <3>1
    <3>3. i = j BY <1>8, <2>2, <3>2 DEF QueueSoFar
    <3>4. QED BY <3>1, <3>3
  <2>3. (Len(queue') + Len(wit'.ops)) % UsersPerBatch[tier'] = 0
    <3>1. Len(queue') + Len(wit'.ops) = L + o BY <1>11, <1>12, <1>14, <1>16
    <3>2. QED BY <1>4, <1>5, <1>12, <3>1
  <2>4. pc' = "build" BY <1>5
  <2>5. QED BY <1>14, <2>1, <2>2, <2>3, <2>4 DEF QueueSoFar
<1>23. BatchSoFar'
  <2>1. wit'.tier = tier' BY <1>5, <1>8, <1>16 DEF BatchSoFar
  <2>2. op.id # PaddingId => PickAssetCountTier(op.count) = {tier}
    BY <1>15, <1>17 DEF TierOf
  <2>3. wit'.ops[1].id # PaddingId
    <3>1. CASE o = 0
      <4>1. op.id # PaddingId BY <1>7, <1>12, <1>15, <1>17, <3>1
      <4>2. QED BY <1>16, <3>1, <4>1
    <3>2. CASE o # 0
      <4>1. wit.ops # <<>> BY <1>10, <1>11, <3>2
      <4>2. 1 \in 1 .. o BY <1>11, <3>2
      <4>3. wit'.ops[1] = wit.ops[1] BY <1>16, <4>2
      <4>4. QED BY <1>5, <1>8, <4>1, <4>3 DEF BatchSoFar
    <3>3. QED BY <3>1, <3>2
  <2>4. \A i \in 1 .. o : wit.ops[i].id # PaddingId => PickAssetCountTier(wit.ops[i].count) = {tier}
    BY <1>5, <1>8, <1>11 DEF BatchSoFar
  <2>5. \A i \in 1 .. (o + 1) : i \in 1 .. o \/ i = o + 1 BY <1>11
  <2>6. \A i \in 1 .. (o + 1) :
          wit'.ops[i].id # PaddingId => PickAssetCountTier(wit'.ops[i].count) = {tier}
    BY <1>16, <2>2, <2>4, <2>5
  <2>7. QED BY <1>5, <1>16, <2>1, <2>3, <2>6 DEF BatchSoFar
<1>24. ASSUME NEW a \in Assets, NEW c \in Columns
       PROVE  cex'[a][c] = SumFunctionOnSet([i \in DOMAIN snapshot |-> snapshot[i].bal[a][c]],
                                            {i \in 1 .. sent : i - 1 \in Taken'})
  <2> DEFINE S == {i \in 1 .. sent : i - 1 \in Taken}
  <2>1. PICK f : f = [i \in DOMAIN snapshot |-> snapshot[i].bal[a][c]] OBVIOUS
  <2>2. cex[a][c] = SumFunctionOnSet(f, S) BY <1>8, <2>1 DEF PlacesSoFar
  <2>3. cex'[a][c] = cex[a][c] + account.bal[a][c] BY <1>5 DEF Plus
  <2>4. cex[a][c] \in Nat BY <1>7 DEF TypeOK, Totals
  <2>5. {i \in 1 .. sent : i - 1 \in Taken'} = S \cup {i \in 1 .. sent : i - 1 = m}
    BY <1>19
  <2>6. CASE account.id = PaddingId
    <3>1. {i \in 1 .. sent : i - 1 = m} = {} BY <1>7, <1>13, <1>15, <2>6
    <3>2. account.bal[a][c] = 0 BY <1>15, <2>6, ZeroAt
    <3>3. cex'[a][c] = cex[a][c] BY <2>3, <2>4, <3>2
    <3>4. {i \in 1 .. sent : i - 1 \in Taken'} = S BY <2>5, <3>1
    <3>5. QED BY <2>1, <2>2, <3>3, <3>4
  <2>7. CASE account.id # PaddingId
    <3>1. m < sent /\ account = snapshot[m + 1] BY <1>15, <2>7
    <3>2. {i \in 1 .. sent : i - 1 = m} = {m + 1} BY <1>7, <1>13, <3>1
    <3>3. m + 1 \notin S
      <4>1. (m + 1) - 1 = m BY <1>13
      <4>2. QED BY <1>18, <4>1
    <3>4. IsFiniteSet(S)
      <4>1. IsFiniteSet(1 .. sent) BY <1>7, FS_Interval
      <4>2. S \subseteq 1 .. sent OBVIOUS
      <4> HIDE DEF S
      <4>3. QED BY <4>1, <4>2, FS_Subset
    <3>5. PICK y : y = m + 1 OBVIOUS
    <3>6. y \in 1 .. sent BY <1>7, <1>13, <3>1, <3>5
    <3>7. \A i \in 1 .. sent : i \in DOMAIN snapshot /\ f[i] \in Nat
      <4>1. \A i \in 1 .. sent : i \in DOMAIN snapshot /\ snapshot[i] \in Account BY <1>7
      <4>2. \A i \in 1 .. sent : snapshot[i].bal[a][c] \in Nat BY <4>1 DEF Account, Accounts
      <4>3. QED BY <2>1, <4>1, <4>2
    <3>8. \A x \in S \cup {y} : f[x] \in Nat BY <3>6, <3>7
    <3>9. y \notin S BY <3>3, <3>5
    <3>10. SumFunctionOnSet(f, S \cup {y}) = SumFunctionOnSet(f, S) + f[y]
      <4> HIDE DEF S
      <4>1. QED BY <3>4, <3>8, <3>9, SumAdd
    <3>11. f[y] = account.bal[a][c] BY <2>1, <3>1, <3>5, <3>6, <3>7
    <3>12. {i \in 1 .. sent : i - 1 \in Taken'} = S \cup {y} BY <2>5, <3>2, <3>5
    <3> HIDE DEF S
    <3>13. QED BY <2>1, <2>2, <2>3, <3>10, <3>11, <3>12
  <2>8. QED BY <2>6, <2>7
<1>25. PICK n \in Nat : n = Len(table) BY <1>7
<1>26. PICK new : new = [row |-> n + 1, at |-> o + 1, op |-> op] OBVIOUS
<1>27. Placed' = Placed \cup {new}
  <2>1. Rows = Append(table, wit) /\ Rows' = Append(table, wit') BY <1>5 DEF Rows
  <2>2. /\ DOMAIN Rows = 1 .. (n + 1) /\ DOMAIN Rows' = 1 .. (n + 1)
        /\ Rows[n + 1] = wit /\ Rows'[n + 1] = wit'
        /\ \A h \in 1 .. n : Rows'[h] = Rows[h]
    BY <1>7, <1>25, <2>1
  <2>3. \A h \in 1 .. (n + 1) : h \in 1 .. n \/ h = n + 1 BY <1>25
  <2>4. \A k \in 1 .. (o + 1) : k \in 1 .. o \/ k = o + 1 BY <1>11
  <2>5. \A k \in 1 .. o : k \in 1 .. (o + 1) BY <1>11
  <2>6. n + 1 \in 1 .. (n + 1) /\ o + 1 \in 1 .. (o + 1) BY <1>11, <1>25
  <2>7. ASSUME NEW p \in Placed' PROVE p \in Placed \cup {new}
    <3>1. PICK h \in DOMAIN Rows' : \E k \in DOMAIN Rows'[h].ops :
            p = [row |-> h, at |-> k, op |-> Rows'[h].ops[k]]
      BY <2>7, InPlacedNext
    <3>2. PICK k \in DOMAIN Rows'[h].ops : p = [row |-> h, at |-> k, op |-> Rows'[h].ops[k]]
      BY <3>1
    <3>3. CASE h \in 1 .. n
      <4>1. Rows'[h] = Rows[h] /\ h \in DOMAIN Rows BY <2>2, <3>3
      <4>2. QED BY <3>2, <4>1, InPlaced
    <3>4. CASE h = n + 1 /\ k \in 1 .. o
      <4>1. /\ Rows[h] = wit /\ h \in DOMAIN Rows /\ k \in DOMAIN Rows[h].ops
            /\ Rows'[h].ops[k] = Rows[h].ops[k]
        BY <1>11, <1>16, <2>2, <2>6, <3>4
      <4>2. QED BY <3>2, <4>1, InPlaced
    <3>5. CASE h = n + 1 /\ k = o + 1
      <4>1. Rows'[h].ops[k] = op BY <1>16, <2>2, <3>5
      <4>2. QED BY <1>26, <3>2, <3>5, <4>1
    <3>6. QED BY <1>16, <2>2, <2>3, <2>4, <3>1, <3>2, <3>3, <3>4, <3>5
  <2>8. new \in Placed'
    <3>1. n + 1 \in DOMAIN Rows' /\ o + 1 \in DOMAIN Rows'[n + 1].ops
          /\ Rows'[n + 1].ops[o + 1] = op
      BY <1>16, <2>2, <2>6
    <3>2. QED BY <1>26, <3>1, InPlacedNext
  <2>9. ASSUME NEW p \in Placed PROVE p \in Placed'
    <3>1. PICK h \in DOMAIN Rows : \E k \in DOMAIN Rows[h].ops :
            p = [row |-> h, at |-> k, op |-> Rows[h].ops[k]]
      BY <2>9, InPlaced
    <3>2. PICK k \in DOMAIN Rows[h].ops : p = [row |-> h, at |-> k, op |-> Rows[h].ops[k]]
      BY <3>1
    <3>3. CASE h \in 1 .. n
      <4>1. Rows'[h] = Rows[h] /\ h \in DOMAIN Rows' BY <2>2, <3>1, <3>3
      <4>2. QED BY <3>2, <4>1, InPlacedNext
    <3>4. CASE h = n + 1
      <4>1. k \in 1 .. o /\ h \in DOMAIN Rows' BY <1>11, <2>2, <3>1, <3>2, <3>4
      <4>2. Rows'[h].ops[k] = Rows[h].ops[k] /\ k \in DOMAIN Rows'[h].ops
        BY <1>16, <2>2, <2>5, <3>4, <4>1
      <4>3. QED BY <3>2, <4>1, <4>2, InPlacedNext
    <3>5. QED BY <2>2, <2>3, <3>1, <3>3, <3>4
  <2>10. QED BY <2>7, <2>8, <2>9
<1>28. new.op = op BY <1>26
<1>29. Leading' <=> Leading BY <1>5 DEF Leading
<1>30. PlacesSoFar'
  <2>1. \A a \in Assets, c \in Columns :
          cex'[a][c] = SumFunctionOnSet([i \in DOMAIN snapshot' |-> snapshot'[i].bal[a][c]],
                                        {i \in 1 .. sent' : i - 1 \in Taken'})
    BY <1>5, <1>24
  <2>2. CASE Leading
    <3>1. \A x \in 0 .. (Slots - 1) : x \notin Taken' => tree'[x] = EmptyLeaf
      <4>1. SUFFICES ASSUME NEW x \in 0 .. (Slots - 1), x \notin Taken'
                     PROVE  tree'[x] = EmptyLeaf
        OBVIOUS
      <4>2. x # m /\ x \notin Taken BY <1>19, <4>1
      <4>3. tree[x] = EmptyLeaf BY <1>8, <2>2, <4>2 DEF PlacesSoFar
      <4>4. tree'[x] = tree[x] BY <1>6, <1>7, <4>2 DEF Trees
      <4>5. QED BY <4>3, <4>4
    <3>2. op.fresh
      <4>1. m \in 0 .. (Slots - 1) BY <1>5, <1>13, SizeAssumption
      <4>2. tree[m] = EmptyLeaf BY <1>8, <1>18, <2>2, <4>1 DEF PlacesSoFar
      <4>3. QED BY <1>17, <4>2
    <3>3. IF op.id = PaddingId THEN sent <= op.index
          ELSE op.index < sent /\ op.id = snapshot[op.index + 1].id
      BY <1>15, <1>17
    <3>4. \A p \in Placed :
            /\ p.op.fresh /\ p.op.index \in Taken
            /\ IF p.op.id = PaddingId THEN sent <= p.op.index
               ELSE p.op.index < sent /\ p.op.id = snapshot[p.op.index + 1].id
      BY <1>8, <2>2 DEF PlacesSoFar
    <3>5. op.index \in Taken' BY <1>17, <1>19
    <3>6. \A p \in Placed' :
            /\ p.op.fresh /\ p.op.index \in Taken'
            /\ IF p.op.id = PaddingId THEN sent <= p.op.index
               ELSE p.op.index < sent /\ p.op.id = snapshot[p.op.index + 1].id
      BY <1>19, <1>27, <1>28, <3>2, <3>3, <3>4, <3>5
    <3>7. \A p, q \in Placed' : p.op.index = q.op.index => p = q
      <4>1. \A p, q \in Placed : p.op.index = q.op.index => p = q
        BY <1>8, <2>2 DEF PlacesSoFar
      <4>2. \A p \in Placed : p.op.index # m BY <1>18, <3>4
      <4>3. new.op.index = m BY <1>17, <1>28
      <4>4. QED BY <1>27, <4>1, <4>2, <4>3
    <3>8. Taken' \subseteq {p.op.index : p \in Placed'}
      <4>1. Taken \subseteq {p.op.index : p \in Placed} BY <1>8, <2>2 DEF PlacesSoFar
      <4>2. new \in Placed' /\ new.op.index = m BY <1>17, <1>27, <1>28
      <4>3. Placed \subseteq Placed' BY <1>27
      <4>4. QED BY <1>19, <4>1, <4>2, <4>3
    <3>9. table # <<>> => table[Len(table)].run = run /\ table[Len(table)].tier <= tier
      BY <1>8, <2>2 DEF PlacesSoFar
    <3>10. table' # <<>> => table'[Len(table')].run = run' /\ table'[Len(table')].tier <= tier'
      BY <1>5, <3>9
    <3>11. \A p \in Placed' :
            /\ p.op.fresh /\ p.op.index \in Taken'
            /\ IF p.op.id = PaddingId THEN sent' <= p.op.index
               ELSE p.op.index < sent' /\ p.op.id = snapshot'[p.op.index + 1].id
      BY <1>5, <3>6
    <3>12. QED BY <1>29, <2>1, <2>2, <3>1, <3>7, <3>8, <3>10, <3>11 DEF PlacesSoFar
  <2>3. CASE ~Leading
    <3>1. height' = 0 /\ \A h \in DOMAIN table' : table'[h].run < run'
      BY <1>5, <1>8, <2>3 DEF PlacesSoFar
    <3>2. pc' = "build" BY <1>5
    <3>3. QED BY <1>29, <2>1, <2>3, <3>1, <3>2 DEF PlacesSoFar
  <2>4. QED BY <2>2, <2>3
<1>31. QED BY <1>5, <1>7, <1>20, <1>21, <1>22, <1>23, <1>30 DEF PlacesInv

LEMMA StillPlaces ==
  ASSUME PlacesInv, ChainInv', UNCHANGED vars
  PROVE  PlacesInv'
<1>1. /\ UNCHANGED <<snapshot, sent, channel, closed, cancelled, pc, buckets, tier, queue,
                     padding, cex, tree, height, wit, table, run>>
  BY DEF vars, producer, state, chain, stored
<1>2. StreamSoFar => StreamSoFar' BY <1>1 DEF StreamSoFar, Received
<1>3. BucketsSoFar => BucketsSoFar' BY <1>1, BucketsStay DEF Received
<1>4. QueueSoFar => QueueSoFar'
  <2>1. NextTiers' = NextTiers BY <1>1 DEF NextTiers
  <2>2. QED BY <1>1, <2>1, QueueStays DEF QueueSoFar
<1>5. BatchSoFar => BatchSoFar' BY <1>1 DEF BatchSoFar
<1>6. RowsSoFar' BY <1>1, RowsStay DEF PlacesInv
<1>7. PlacesSoFar => PlacesSoFar'
  <2>1. Taken' = Taken BY <1>1, TakenStay
  <2>2. Placed' = Placed BY <1>1 DEF Placed, Rows
  <2>3. Leading' <=> Leading BY <1>1 DEF Leading
  <2>4. QED BY <1>1, <2>1, <2>2, <2>3 DEF PlacesSoFar
<1>8. Alive' <=> Alive BY <1>1 DEF Alive
<1>9. QED BY <1>1, <1>2, <1>3, <1>4, <1>5, <1>6, <1>7, <1>8 DEF PlacesInv

LEMMA StepPlaces ==
  ASSUME DenselyIndexed, PlacesInv, [Next]_vars
  PROVE  PlacesInv'
<1>1. ChainInv' BY StepInv DEF PlacesInv
<1>2. CASE UNCHANGED vars BY <1>1, <1>2, StillPlaces
<1>3. CASE Next /\ ~Alive' BY <1>1, <1>3, StopPlaces
<1>4. CASE Rerun
  <2>1. EarlyInv' BY <1>1, <1>4, RerunPlaces
  <2>2. QED BY <2>1, EarlyNext
<1>5. CASE Producer
  <2>1. pc \in Early /\ pc' \in Early
    <3>1. pc \notin Ended /\ ~closed /\ pc' = pc BY <1>5 DEF Producer, Send, Close
    <3>2. Alive BY <3>1 DEF Alive
    <3>3. QED BY <3>1, <3>2 DEF PlacesInv, StreamSoFar
  <2>2. EarlyInv BY <2>1, EarlyHolds
  <2>3. EarlyInv' BY <1>1, <1>5, <2>1, <2>2, SendPlaces, QuietPlaces DEF Producer
  <2>4. QED BY <2>3, EarlyNext
<1>6. CASE Alive' /\ pc \in Early /\ (Load \/ Bucket \/ Cancel)
  <2>1. EarlyInv BY <1>6, EarlyHolds
  <2>2. pc' \in Early BY <1>6 DEF Early, Alive, Load, Bucket, Cancel
  <2>3. EarlyInv' BY <1>1, <1>6, <2>1, <2>2, QuietPlaces, BucketPlaces
  <2>4. QED BY <2>3, EarlyNext
<1>7. CASE EndOfStream
  <2>1. pc \in Early BY <1>7 DEF EndOfStream, Early
  <2>2. QED BY <1>1, <1>7, <2>1, EarlyHolds, EndOfStreamPlaces
<1>8. CASE pc \notin Early /\ (Finish \/ Cancel)
  <2>1. Alive BY <1>8 DEF Alive, Finish, Cancel
  <2>2. QED BY <1>1, <1>8, <2>1, StandPlaces
<1>9. CASE StartTier BY <1>1, <1>9, StartTierPlaces
<1>10. CASE StartBatch BY <1>1, <1>10, StartBatchPlaces
<1>11. CASE AddUser /\ Alive' BY <1>1, <1>11, AddUserPlaces
<1>12. CASE EndBatch BY <1>1, <1>12, EndBatchPlaces
<1>13. CASE CreateRow /\ Alive' BY <1>1, <1>13, CreateRowPlaces
<1>14. CASE CommitTree BY <1>1, <1>14, CommitPlaces
<1>15. CallFails \/ Crash => ~Alive' BY DEF CallFails, Crash, Alive
<1>16. Load \/ Bucket => pc \in Early BY DEF Load, Bucket, Early
<1>17. Finish => pc \notin Early BY DEF Finish, Early
<1>18. QED
  BY <1>2, <1>3, <1>4, <1>5, <1>6, <1>7, <1>8, <1>9, <1>10, <1>11, <1>12, <1>13, <1>14,
     <1>15, <1>16, <1>17 DEF Next, Runner

(* Where the accounts are, at every step of every run of the service.      *)
THEOREM PlacesInvariant == ASSUME DenselyIndexed PROVE Spec => []PlacesInv
<1>1. Init => PlacesInv BY InitPlaces, EarlyIsInv
<1>2. PlacesInv /\ [Next]_vars => PlacesInv' BY StepPlaces
<1>3. QED BY <1>1, <1>2, PTL DEF Spec

(* The batch of a run always fills empty leaves: an account never takes    *)
(* the leaf of another or of padding, in any row (circuit/circuit.go and   *)
(* buildBatch's Get of the leaf it sets).                                  *)
THEOREM LeavesEmpty == ASSUME DenselyIndexed PROVE Spec => []LeavesWereEmpty
<1>1. PlacesInv => LeavesWereEmpty BY DEF PlacesInv, RowsSoFar
<1>2. QED BY <1>1, PlacesInvariant, PTL

(* Every row is a whole batch of one tier that starts with a user, and the *)
(* tiers of the rows ascend (circuit/witness.go:39-43, dispatch.go:35-37). *)
THEOREM BatchesFit == ASSUME DenselyIndexed PROVE Spec => []BatchesFitTheirTier
<1>1. PlacesInv => BatchesFitTheirTier BY DEF PlacesInv, RowsSoFar
<1>2. QED BY <1>1, PlacesInvariant, PTL

(* When a run is done no account waits for its place any more.             *)
LEMMA DoneHasPlaced ==
  ASSUME DenselyIndexed, PlacesInv, pc = "done"
  PROVE  /\ \A x \in 0 .. (sent - 1) : x \in Taken
         /\ ~Leading => sent = 0
<1>1. Alive /\ pc \notin Early BY DEF Alive, Early
<1>2. /\ StreamSoFar /\ BucketsSoFar /\ QueueSoFar /\ PlacesSoFar
      /\ queue = <<>> /\ NextTiers = {} /\ channel = <<>> /\ sent <= padding
  BY <1>1 DEF PlacesInv, StreamSoFar, QueueSoFar
<1>3. sent \in Nat /\ padding \in Nat BY DEF PlacesInv, ChainInv, TypeOK
<1>4. Received = sent
  <2>1. Len(channel) = 0 BY <1>2
  <2>2. QED BY <1>3, <2>1 DEF Received
<1>5. ASSUME NEW x \in 0 .. (sent - 1)
      PROVE  \E t \in Tiers : TierOf(snapshot[x + 1]) = {t} /\ ~(t > tier)
  <2>1. PICK t \in Tiers : /\ TierOf(snapshot[x + 1]) = {t}
                           /\ \E j \in DOMAIN buckets[t] : buckets[t][j].index = x
    BY <1>2, <1>4 DEF BucketsSoFar
  <2>2. buckets[t] # <<>> BY <2>1
  <2>3. ~(t > tier) BY <1>2, <2>2 DEF NextTiers
  <2>4. QED BY <2>1, <2>3
<1>6. ASSUME NEW x \in 0 .. (sent - 1) PROVE x \in Taken
  <2>1. x \in 0 .. (padding - 1) BY <1>2, <1>3
  <2>2. ~Later(x) BY <1>5 DEF Later
  <2>3. ~Queued(x) BY <1>2 DEF Queued
  <2>4. QED BY <2>1, <2>2, <2>3 DEF Taken
<1>7. ASSUME ~Leading PROVE sent = 0
  <2>1. tier = NoTier BY <1>2, <1>7 DEF PlacesSoFar
  <2>2. \A t \in Tiers : t > tier BY <2>1, ShapeAssumption DEF NoTier
  <2>3. 0 .. (sent - 1) = {} BY <1>5, <2>2
  <2>4. QED BY <1>3, <2>3
<1>8. QED BY <1>6, <1>7

LEMMA DoneTotals ==
  ASSUME DenselyIndexed, PlacesInv, pc = "done", NEW a \in Assets, NEW c \in Columns
  PROVE  cex[a][c] = TotalOf(SubSeq(snapshot, 1, sent), a, c)
<1> DEFINE s == SubSeq(snapshot, 1, sent)
<1>1. PICK f : f = [i \in DOMAIN snapshot |-> snapshot[i].bal[a][c]] OBVIOUS
<1>2. PICK g : g = [i \in DOMAIN s |-> s[i].bal[a][c]] OBVIOUS
<1>3. snapshot \in Seq(Account) /\ sent \in 0 .. Len(snapshot)
  BY DEF PlacesInv, ChainInv, TypeOK
<1>4. sent \in Nat /\ \A i \in 1 .. sent : i \in DOMAIN snapshot BY <1>3
<1>5. DOMAIN s = 1 .. sent /\ \A i \in 1 .. sent : s[i] = snapshot[i]
  BY <1>3, SubSeqProperties
<1>6. {i \in 1 .. sent : i - 1 \in Taken} = 1 .. sent
  <2>1. \A i \in 1 .. sent : i - 1 \in 0 .. (sent - 1) BY <1>4
  <2>2. QED BY <2>1, DoneHasPlaced
<1>7. cex[a][c] = SumFunctionOnSet(f, 1 .. sent)
  <2>1. Alive BY DEF Alive
  <2>2. QED BY <1>1, <1>6, <2>1 DEF PlacesInv, PlacesSoFar
<1>8. DOMAIN g = 1 .. sent BY <1>2, <1>5
<1>9. \A i \in 1 .. sent : f[i] = g[i]
  <2> HIDE DEF s
  <2>1. QED BY <1>1, <1>2, <1>4, <1>5
<1>10. SumFunctionOnSet(f, 1 .. sent) = SumFunctionOnSet(g, 1 .. sent)
  <2>1. IsFiniteSet(1 .. sent) BY <1>4, FS_Interval
  <2>2. QED BY <1>9, <2>1, SumSame
<1>11. TotalOf(s, a, c) = SumFunctionOnSet(g, 1 .. sent)
  BY <1>2, <1>8 DEF TotalOf, SumFunction
<1>12. QED BY <1>7, <1>10, <1>11

(* The rows of the run at the tip are all the rows of the table.           *)
LEMMA DoneRows ==
  ASSUME PlacesInv, pc = "done"
  PROVE  LET mine == {h \in 1 .. Len(table) : table[h].run = run}
         IN  /\ Leading => mine = DOMAIN table
             /\ ~Leading => mine = {}
             /\ mine # {} => mine = 1 .. Len(table) /\ table[Len(table)].cexAfter = cex
<1> DEFINE mine == {h \in 1 .. Len(table) : table[h].run = run}
<1>1. PlacesSoFar BY DEF PlacesInv, Alive
<1>2. table \in Seq(Row) /\ run \in Nat BY DEF PlacesInv, ChainInv, TypeOK
<1>3. DOMAIN table = 1 .. Len(table) /\ Len(table) \in Nat BY <1>2
<1>4. CASE Leading
  <2>1. height = Len(table) BY <1>4 DEF Leading
  <2>2. table # <<>> => table[Len(table)].cexAfter = cex /\ table[Len(table)].run = run
    BY <2>1 DEF PlacesInv, ChainInv, AtTip
  <2>3. CASE table = <<>>
    <3>1. 1 .. Len(table) = {} BY <2>3
    <3>2. QED BY <1>3, <1>4, <3>1
  <2>4. CASE table # <<>>
    <3>1. Len(table) \in 1 .. Len(table) BY <1>2, <2>4
    <3>2. \A h \in 1 .. Len(table) : table[h].run = run
      BY <2>2, <2>4, <3>1 DEF PlacesInv, ChainInv, OneRunPerTable
    <3>3. mine = 1 .. Len(table) BY <3>2
    <3>4. QED BY <1>3, <1>4, <2>2, <2>4, <3>3
  <2>5. QED BY <2>3, <2>4
<1>5. CASE ~Leading
  <2>1. \A h \in 1 .. Len(table) : table[h].run < run BY <1>1, <1>3, <1>5 DEF PlacesSoFar
  <2>2. \A h \in 1 .. Len(table) : table[h].run # run
    <3>1. \A h \in 1 .. Len(table) : table[h] \in Row BY <1>2
    <3>2. \A h \in 1 .. Len(table) : table[h].run \in Nat BY <3>1 DEF Row
    <3>3. QED BY <1>2, <2>1, <3>2
  <2>3. mine = {} BY <2>2
  <2>4. QED BY <1>5, <2>3
<1>6. QED BY <1>4, <1>5

LEMMA InTaken ==
  ASSUME DenselyIndexed, PlacesInv, pc = "done", Leading, NEW q \in Placed,
         NEW i \in DOMAIN snapshot, q.op.id = snapshot[i].id
  PROVE  q.op.index = i - 1 /\ i <= sent
<1>1. PlacesSoFar /\ TypeOK /\ snapshot \in Snapshots BY DEF PlacesInv, ChainInv, Alive
<1>2. /\ sent \in Nat /\ padding \in Nat /\ snapshot \in Seq(Account) /\ sent <= Len(snapshot)
  <2>1. sent \in 0 .. Len(snapshot) /\ snapshot \in Seq(Account) BY <1>1 DEF TypeOK
  <2>2. QED BY <1>1, <2>1 DEF TypeOK
<1>3. i \in Nat /\ i >= 1 /\ i <= Len(snapshot) BY <1>2
<1>4. snapshot[i].id # PaddingId
  <2>1. PICK x : x = i - 1 OBVIOUS
  <2>2. x \in Nat /\ x < Len(snapshot) /\ x + 1 = i BY <1>2, <1>3, <2>1
  <2>3. QED BY <1>1, <2>2, Numbered
<1>5. /\ q.op.index \in Taken
      /\ IF q.op.id = PaddingId THEN sent <= q.op.index
         ELSE q.op.index < sent /\ q.op.id = snapshot[q.op.index + 1].id
  BY <1>1 DEF PlacesSoFar
<1>6. q.op.index \in 0 .. (padding - 1) BY <1>5 DEF Taken
<1>7. q.op.index \in Nat /\ q.op.index < sent BY <1>2, <1>4, <1>5, <1>6
<1>8. PICK j : j = q.op.index + 1 OBVIOUS
<1>9. j \in DOMAIN snapshot /\ j <= sent BY <1>2, <1>7, <1>8
<1>10. snapshot[j].id = snapshot[i].id BY <1>4, <1>5, <1>8
<1>11. j = i BY <1>1, <1>9, <1>10 DEF DenselyIndexed
<1>12. QED BY <1>3, <1>7, <1>8, <1>9, <1>11

LEMMA DoneSeen ==
  ASSUME DenselyIndexed, PlacesInv, pc = "done"
  PROVE  LET mine == {h \in 1 .. Len(table) : table[h].run = run}
             placed == UNION {{h} \X DOMAIN table[h].ops : h \in mine}
             seen(id) == {hi \in placed : table[hi[1]].ops[hi[2]].id = id}
         IN  \A i \in DOMAIN snapshot :
               Cardinality(seen(snapshot[i].id)) = IF i <= sent THEN 1 ELSE 0
<1> DEFINE mine == {h \in 1 .. Len(table) : table[h].run = run}
           placed == UNION {{h} \X DOMAIN table[h].ops : h \in mine}
           seen(id) == {hi \in placed : table[hi[1]].ops[hi[2]].id = id}
<1>1. SUFFICES ASSUME NEW i \in DOMAIN snapshot
               PROVE  Cardinality(seen(snapshot[i].id)) = IF i <= sent THEN 1 ELSE 0
  OBVIOUS
<1>2. PlacesSoFar /\ TypeOK /\ snapshot \in Snapshots BY DEF PlacesInv, ChainInv, Alive
<1>3. sent \in Nat /\ snapshot \in Seq(Account) /\ i \in Nat /\ i >= 1
  <2>1. sent \in 0 .. Len(snapshot) /\ snapshot \in Seq(Account) BY <1>2 DEF TypeOK
  <2>2. QED BY <2>1
<1>4. CASE ~Leading
  <2>1. mine = {} BY <1>4, DoneRows
  <2>2. seen(snapshot[i].id) = {} BY <2>1
  <2>3. ~(i <= sent) BY <1>3, <1>4, DoneHasPlaced
  <2>4. QED BY <2>2, <2>3, FS_EmptySet
<1>5. CASE Leading
  <2>1. mine = DOMAIN table BY <1>5, DoneRows
  <2>2. Rows = table BY DEF Rows
  <2>3. ASSUME NEW hi \in seen(snapshot[i].id)
        PROVE  /\ [row |-> hi[1], at |-> hi[2], op |-> table[hi[1]].ops[hi[2]]] \in Placed
               /\ table[hi[1]].ops[hi[2]].index = i - 1 /\ i <= sent
               /\ hi = <<hi[1], hi[2]>>
    <3>1. PICK h \in mine : hi \in {h} \X DOMAIN table[h].ops
      <4> HIDE DEF mine
      <4>1. QED BY <2>3
    <3>2. hi = <<hi[1], hi[2]>> /\ hi[1] = h /\ hi[2] \in DOMAIN table[h].ops BY <3>1
    <3>3. PICK q : q = [row |-> hi[1], at |-> hi[2], op |-> table[hi[1]].ops[hi[2]]] OBVIOUS
    <3>4. h \in DOMAIN Rows /\ hi[2] \in DOMAIN Rows[h].ops BY <2>1, <2>2, <3>2
    <3>5. q \in Placed BY <2>2, <3>2, <3>3, <3>4, InPlaced
    <3>6. q.op = table[hi[1]].ops[hi[2]] BY <3>3
    <3>7. q.op.id = snapshot[i].id BY <2>3, <3>6
    <3>8. QED BY <1>5, <3>2, <3>3, <3>5, <3>6, <3>7, InTaken
  <2>4. CASE ~(i <= sent)
    <3>1. seen(snapshot[i].id) = {} BY <2>3, <2>4
    <3>2. QED BY <2>4, <3>1, FS_EmptySet
  <2>5. CASE i <= sent
    <3>1. PICK x : x = i - 1 OBVIOUS
    <3>2. x \in 0 .. (sent - 1) /\ x \in Nat /\ x + 1 = i BY <1>3, <2>5, <3>1
    <3>3. x \in Taken BY <3>2, DoneHasPlaced
    <3>4. PICK p \in Placed : p.op.index = x BY <1>2, <1>5, <3>3 DEF PlacesSoFar
    <3>5. p.op.id = snapshot[i].id
      <4>1. IF p.op.id = PaddingId THEN sent <= p.op.index
            ELSE p.op.index < sent /\ p.op.id = snapshot[p.op.index + 1].id
        BY <1>2, <1>5 DEF PlacesSoFar
      <4>2. ~(sent <= x) BY <1>3, <3>2
      <4>3. QED BY <3>2, <3>4, <4>1, <4>2
    <3>6. PICK h \in DOMAIN Rows : \E k \in DOMAIN Rows[h].ops :
            p = [row |-> h, at |-> k, op |-> Rows[h].ops[k]]
      BY InPlaced
    <3>7. PICK k \in DOMAIN Rows[h].ops : p = [row |-> h, at |-> k, op |-> Rows[h].ops[k]]
      BY <3>6
    <3>8. <<h, k>> \in seen(snapshot[i].id)
      <4>1. h \in mine BY <2>1, <2>2
      <4>2. <<h, k>> \in placed BY <2>2, <4>1
      <4>3. table[h].ops[k].id = snapshot[i].id BY <2>2, <3>5, <3>7
      <4> HIDE DEF placed
      <4>4. QED BY <4>2, <4>3
    <3>9. ASSUME NEW hi \in seen(snapshot[i].id) PROVE hi = <<h, k>>
      <4>1. PICK q : q = [row |-> hi[1], at |-> hi[2], op |-> table[hi[1]].ops[hi[2]]] OBVIOUS
      <4>2. q \in Placed /\ q.op.index = x /\ hi = <<hi[1], hi[2]>>
        <5>1. q.op = table[hi[1]].ops[hi[2]] BY <4>1
        <5> HIDE DEF seen
        <5>2. QED BY <2>3, <3>1, <3>9, <4>1, <5>1
      <4>3. q = p BY <1>2, <1>5, <3>4, <4>2 DEF PlacesSoFar
      <4>4. q.row = p.row /\ q.at = p.at /\ q.row = hi[1] /\ q.at = hi[2]
        BY <4>1, <4>3
      <4>5. p.row = h /\ p.at = k BY <3>7
      <4>6. QED BY <4>2, <4>4, <4>5
    <3>10. seen(snapshot[i].id) = {<<h, k>>} BY <3>8, <3>9
    <3>11. QED BY <2>5, <3>10, FS_Singleton
  <2>6. QED BY <2>4, <2>5
<1>6. QED BY <1>4, <1>5

(* A run that reports success has put every account it was sent in exactly *)
(* one place, with the exact totals, whatever stopped or ran before it     *)
(* (witness_runner.go: Run).                                               *)
THEOREM Complete == ASSUME DenselyIndexed PROVE Spec => []DoneIsComplete
<1>1. PlacesInv => DoneIsComplete
  <2>1. SUFFICES ASSUME PlacesInv, pc = "done"
                 PROVE  LET mine == {h \in 1 .. Len(table) : table[h].run = run}
                            placed == UNION {{h} \X DOMAIN table[h].ops : h \in mine}
                            seen(id) == {hi \in placed : table[hi[1]].ops[hi[2]].id = id}
                        IN  /\ sent < Len(snapshot) => cancelled
                            /\ \A i \in DOMAIN snapshot :
                                 Cardinality(seen(snapshot[i].id)) = IF i <= sent THEN 1 ELSE 0
                            /\ \A a \in Assets, c \in Columns :
                                 cex[a][c] = TotalOf(SubSeq(snapshot, 1, sent), a, c)
                            /\ mine # {} => /\ mine = 1 .. Len(table)
                                            /\ table[Len(table)].cexAfter = cex
    BY DEF DoneIsComplete
  <2>2. sent < Len(snapshot) => cancelled
    <3>1. StreamSoFar /\ pc \notin Early BY <2>1 DEF PlacesInv, Alive, Early
    <3>2. sent = Len(snapshot) \/ cancelled BY <3>1 DEF StreamSoFar
    <3>3. snapshot \in Seq(Account) BY <2>1 DEF PlacesInv, ChainInv, TypeOK
    <3>4. QED BY <3>2, <3>3
  <2>3. \A a \in Assets, c \in Columns : cex[a][c] = TotalOf(SubSeq(snapshot, 1, sent), a, c)
    BY <2>1, DoneTotals
  <2>4. QED BY <2>1, <2>2, <2>3, DoneRows, DoneSeen
<1>2. QED BY <1>1, PlacesInvariant, PTL

-----------------------------------------------------------------------------
(* The tree a run leaves behind                                            *)

\* the accounts sent and the accounts sorted into tiers
Acc == SubSeq(snapshot, 1, sent)
Got == SubSeq(snapshot, 1, Received)

\* what is laid out up to the tier being written, and how much of it is set
Laid == LaidOut(Acc)[tier].leaves
Here == Len(Laid) - Len(queue)

\* how many leaves there are from the start of the batch on
Open == Len(queue) + (IF pc \in Built THEN Len(wit.ops) ELSE 0)

\* while accounts are streamed
EarlyFill ==
  /\ tier = NoTier /\ queue = <<>> /\ height = 0
  /\ Received >= 0 /\ \A k \in DOMAIN channel : channel[k] = snapshot[Received + k]
  /\ AllTiered(Got) /\ \A t \in Tiers : buckets[t] = ByTier(Got, t)
  /\ Leading => tree = EmptyTree

\* while batches are built
LateFill ==
  /\ channel = <<>> /\ closed
  /\ AllTiered(Acc) /\ \A t \in Tiers : buckets[t] = ByTier(Acc, t)
  /\ padding = LaidOut(Acc)[tier].next
  /\ Open <= Len(Laid)
  /\ \A k \in 1 .. Len(Laid) : Len(Laid) - Open < k => Laid[k].tier = tier
  /\ \A k \in DOMAIN queue : queue[k] = Laid[Here + k].account
  /\ Leading => /\ tree = Filled(EmptyTree, SubSeq(Laid, 1, Here))
                /\ \A k \in 1 .. Here : Laid[k].account.index < Slots
  /\ pc \in Batching => Open % UsersPerBatch[tier] = 0
  /\ pc \in {"create", "commit"} => Len(wit.ops) = UsersPerBatch[tier]
  /\ pc \in {"tier", "done"} => queue = <<>>
  /\ pc = "done" => NextTiers = {}
  /\ ~Leading => /\ pc \in {"tier", "done"} => tier = NoTier
                 /\ pc = "batch" => queue # <<>>

StoredIsCommitted == \E n \in 0 .. Len(snapshot) : disk \in Committed(SubSeq(snapshot, 1, n))

\* the inductive invariant
FillInv ==
  /\ ChainInv /\ snapshot \in Snapshots /\ StoredIsCommitted
  /\ pc \in Early => EarlyFill
  /\ Alive /\ pc \notin Early => LateFill

FillTyped ==
  /\ snapshot \in Seq(Real) /\ Len(snapshot) \in Nat /\ sent \in 0 .. Len(snapshot)
  /\ Acc \in Seq(Real) /\ Len(Acc) = sent
  /\ tier \in 0 .. LastTier /\ Laid \in Seq(PlacedLeaf) /\ Len(Laid) \in Nat
  /\ queue \in Seq(Account) /\ Len(queue) \in Nat /\ Here \in Int /\ Open \in Nat

LEMMA FillTypes == ASSUME ChainInv, snapshot \in Snapshots PROVE FillTyped
<1>1. snapshot \in Seq(Real) /\ Len(snapshot) \in Nat BY SnapshotAssumption DEF Real
<1>2. TypeOK BY DEF ChainInv
<1>3. sent \in 0 .. Len(snapshot) BY <1>2 DEF TypeOK
<1>4. Acc \in Seq(Real) /\ Len(Acc) = sent BY <1>1, <1>3, FirstOnes DEF Acc
<1>5. tier \in 0 .. LastTier BY <1>2, LastTierIs DEF TypeOK, NoTier
<1>6. Laid \in Seq(PlacedLeaf) /\ Len(Laid) \in Nat BY <1>4, <1>5, LaidOutTyped DEF Laid
<1>7. queue \in Seq(Account) /\ Len(queue) \in Nat BY <1>2 DEF TypeOK
<1>8. pc \in Built => Len(wit.ops) \in Nat
  <2>1. SUFFICES ASSUME pc \in Built PROVE Len(wit.ops) \in Nat OBVIOUS
  <2>2. wit \in Row BY <1>2, <2>1 DEF TypeOK
  <2>3. wit.ops \in Seq(Op) BY <2>2 DEF Row
  <2>4. QED BY <2>3
<1>9. Here \in Int /\ Open \in Nat BY <1>6, <1>7, <1>8 DEF Here, Open
<1>10. QED BY <1>1, <1>3, <1>4, <1>5, <1>6, <1>7, <1>9 DEF FillTyped

LEMMA FillTypesNext == (ChainInv /\ snapshot \in Snapshots)' => FillTyped'
<1>1. ChainInv /\ snapshot \in Snapshots => FillTyped BY FillTypes
<1>2. QED BY <1>1, PTL

(* A run that has not streamed anything yet.                               *)
FreshFill ==
  /\ ChainInv /\ snapshot \in Snapshots /\ StoredIsCommitted
  /\ pc = "load" /\ sent = 0 /\ channel = <<>>
  /\ tier = NoTier /\ queue = <<>> /\ height = 0 /\ buckets = NoAccounts
  /\ Leading => tree = EmptyTree

LEMMA FreshIsFill == FreshFill => FillInv
<1>1. SUFFICES ASSUME FreshFill PROVE FillInv OBVIOUS
<1>2. snapshot \in Seq(Real) /\ Received = 0
  <2>1. snapshot \in Seq(Real) BY <1>1, FillTypes DEF FreshFill, FillTyped
  <2>2. sent = 0 /\ Len(channel) = 0 BY <1>1 DEF FreshFill
  <2>3. QED BY <2>1, <2>2 DEF Received
<1>3. Got = <<>> BY <1>2, FirstOnes DEF Got
<1>4. AllTiered(Got) BY <1>3 DEF AllTiered
<1>5. \A t \in Tiers : buckets[t] = ByTier(Got, t)
  BY <1>1, <1>3, ByTierEmpty DEF FreshFill, NoAccounts
<1>6. \A k \in DOMAIN channel : channel[k] = snapshot[Received + k]
  <2>1. DOMAIN channel = {} BY <1>1 DEF FreshFill
  <2>2. QED BY <2>1
<1>7. EarlyFill BY <1>1, <1>2, <1>4, <1>5, <1>6 DEF FreshFill, EarlyFill
<1>8. QED BY <1>1, <1>7 DEF FreshFill, FillInv, Early

LEMMA FreshNext == FreshFill' => FillInv'
<1>1. FreshFill => FillInv BY FreshIsFill
<1>2. QED BY <1>1, PTL

(* The first run finds the empty tree, which no batch has been added to.   *)
LEMMA InitFill == Init => FillInv
<1>1. SUFFICES ASSUME Init PROVE FreshFill BY FreshIsFill
<1>2. ChainInv /\ snapshot \in Snapshots BY <1>1, InitInv DEF Init
<1>3. StoredIsCommitted
  <2>1. snapshot \in Seq(Real) BY <1>2, FillTypes DEF FillTyped
  <2>2. 0 \in 0 .. Len(snapshot) /\ SubSeq(snapshot, 1, 0) \in Seq(Real) BY <2>1, FirstOnes
  <2>3. disk = EmptyTree BY <1>1 DEF Init
  <2>4. disk \in Committed(SubSeq(snapshot, 1, 0)) BY <2>2, <2>3, EmptyCommitted
  <2>5. QED BY <2>2, <2>4 DEF StoredIsCommitted
<1>4. QED BY <1>1, <1>2, <1>3 DEF Init, FreshFill

(* So does a rerun over an empty table; one that finds rows is behind.     *)
LEMMA RerunFill ==
  ASSUME FillInv, ChainInv', Rerun
  PROVE  FillInv'
<1>1. /\ pc' = "load" /\ sent' = 0 /\ channel' = <<>>
      /\ buckets' = NoAccounts /\ tier' = NoTier /\ queue' = <<>> /\ height' = 0
      /\ tree' = disk
      /\ UNCHANGED <<snapshot, disk, table>>
  BY DEF Rerun, stored
<1>2. Leading' => tree' = EmptyTree
  <2>1. SUFFICES ASSUME Leading' PROVE tree' = EmptyTree OBVIOUS
  <2>2. Len(table) = 0 BY <1>1, <2>1 DEF Leading
  <2>3. table \in Seq(Row) BY DEF FillInv, ChainInv, TypeOK
  <2>4. table = <<>> BY <2>2, <2>3
  <2>5. QED BY <1>1, <2>4 DEF FillInv, ChainInv
<1>3. StoredIsCommitted' BY <1>1 DEF FillInv, StoredIsCommitted
<1>4. FreshFill' BY <1>1, <1>2, <1>3 DEF FillInv, FreshFill
<1>5. QED BY <1>4, FreshNext

(* A run that stops leaves what is stored.                                 *)
LEMMA StopFill ==
  ASSUME FillInv, ChainInv', Next, ~Alive'
  PROVE  FillInv'
<1>1. UNCHANGED <<snapshot, disk>>
  BY DEF Next, Producer, Runner, Send, Close, Load, Bucket, EndOfStream, StartTier,
         Finish, StartBatch, AddUser, EndBatch, CreateRow, CommitTree, CallFails,
         Cancel, Crash, Rerun, Alive, stored
<1>2. StoredIsCommitted' BY <1>1 DEF FillInv, StoredIsCommitted
<1>3. pc' \notin Early BY DEF Alive, Early
<1>4. QED BY <1>1, <1>2, <1>3 DEF FillInv

-----------------------------------------------------------------------------
(* The stream                                                              *)

(* What the steps of the stream leave as it is.                            *)
LEMMA EarlyStays ==
  ASSUME FillInv, ChainInv', pc \in Early, pc' \in Early,
         UNCHANGED <<snapshot, tier, queue, height, tree, table, disk>>,
         Received' >= 0, \A k \in DOMAIN channel' : channel'[k] = snapshot[Received' + k],
         AllTiered(Got'), \A t \in Tiers : buckets'[t] = ByTier(Got', t)
  PROVE  FillInv'
<1>1. EarlyFill BY DEF FillInv
<1>2. Leading' <=> Leading BY DEF Leading, Early
<1>3. AllTiered(Got)' OBVIOUS
<1>4. \A t \in Tiers : (buckets[t] = ByTier(Got, t))' OBVIOUS
<1>5. EarlyFill' BY <1>1, <1>2, <1>3, <1>4 DEF EarlyFill
<1>6. StoredIsCommitted' BY DEF FillInv, StoredIsCommitted
<1>7. QED BY <1>5, <1>6 DEF FillInv

LEMMA SendFill ==
  ASSUME FillInv, ChainInv', Send, pc \in Early
  PROVE  FillInv'
<1>1. /\ pc' = pc /\ sent < Len(snapshot) /\ sent' = sent + 1
      /\ channel' = Append(channel, snapshot[sent + 1])
      /\ UNCHANGED <<snapshot, buckets, tier, queue, height, tree, table, disk>>
  BY DEF Send, state, chain, stored
<1>2. channel \in Seq(Account) /\ sent \in Nat /\ Len(channel) \in Nat /\ Received \in Int
  BY DEF FillInv, ChainInv, TypeOK, Received
<1>3. /\ Len(channel') = Len(channel) + 1 /\ channel'[Len(channel) + 1] = snapshot[sent + 1]
      /\ DOMAIN channel' = 1 .. (Len(channel) + 1)
      /\ \A k \in 1 .. Len(channel) : k \in DOMAIN channel /\ channel'[k] = channel[k]
  BY <1>1, <1>2
<1>4. Received' = Received BY <1>1, <1>2, <1>3 DEF Received
<1>5. EarlyFill BY DEF FillInv
<1>6. \A k \in DOMAIN channel' : channel'[k] = snapshot[Received' + k]
  <2>1. Received + (Len(channel) + 1) = sent + 1 BY <1>2 DEF Received
  <2>2. \A k \in 1 .. Len(channel) : channel[k] = snapshot[Received + k]
    BY <1>3, <1>5 DEF EarlyFill
  <2>3. \A k \in DOMAIN channel' : k \in 1 .. Len(channel) \/ k = Len(channel) + 1
    BY <1>2, <1>3
  <2>4. QED BY <1>3, <1>4, <2>1, <2>2, <2>3
<1>7. Got' = Got BY <1>1, <1>4 DEF Got
<1>8. QED BY <1>1, <1>4, <1>5, <1>6, <1>7, EarlyStays DEF EarlyFill

LEMMA QuietFill ==
  ASSUME FillInv, ChainInv', pc \in Early, pc' \in Early, Close \/ Load \/ Cancel
  PROVE  FillInv'
<1>1. UNCHANGED <<snapshot, sent, channel, buckets, tier, queue, height, tree, table, disk>>
  BY DEF Close, Load, Cancel, producer, state, chain, stored
<1>2. Received' = Received BY <1>1 DEF Received
<1>3. Got' = Got BY <1>1, <1>2 DEF Got
<1>4. EarlyFill BY DEF FillInv
<1>5. QED BY <1>1, <1>2, <1>3, <1>4, EarlyStays DEF EarlyFill

(* One account more has been sorted, as ByTier would sort it.              *)
LEMMA BucketFill ==
  ASSUME FillInv, ChainInv', Bucket, Alive'
  PROVE  FillInv'
<1>1. PICK account : account = Head(channel) OBVIOUS
<1>2. /\ pc = "stream" /\ pc' = pc /\ channel # <<>> /\ channel' = Tail(channel)
      /\ UNCHANGED <<snapshot, sent, tier, queue, height, tree, table, disk>>
  BY DEF Bucket, Alive, chain, stored
<1>3. PICK t \in TierOf(account) : buckets' = [buckets EXCEPT ![t] = Append(@, account)]
  BY <1>1, <1>2 DEF Bucket, Alive
<1>4. /\ channel \in Seq(Account) /\ Len(channel) \in Nat /\ Len(channel) >= 1
      /\ sent \in Nat /\ Received \in Int
      /\ snapshot \in Seq(Real) /\ sent \in 0 .. Len(snapshot) /\ Len(snapshot) \in Nat
  <2>1. channel \in Seq(Account) BY DEF FillInv, ChainInv, TypeOK
  <2>2. /\ snapshot \in Seq(Real) /\ sent \in 0 .. Len(snapshot) /\ Len(snapshot) \in Nat
    BY FillTypes DEF FillInv, FillTyped
  <2>3. Len(channel) \in Nat /\ Len(channel) >= 1 BY <1>2, <2>1
  <2>4. QED BY <2>1, <2>2, <2>3 DEF Received
<1>5. EarlyFill BY <1>2 DEF FillInv, Early
<1>6. PICK n \in Nat : n = Received /\ n + 1 \in 1 .. Len(snapshot)
  <2>1. Received >= 0 BY <1>5 DEF EarlyFill
  <2>2. Received + 1 <= sent BY <1>4 DEF Received
  <2>3. QED BY <1>4, <2>1, <2>2
<1>7. account = snapshot[n + 1] /\ account \in Real
  <2>1. 1 \in DOMAIN channel /\ account = channel[1] BY <1>1, <1>4
  <2>2. account = snapshot[n + 1] BY <1>5, <1>6, <2>1 DEF EarlyFill
  <2>3. QED BY <1>4, <1>6, <2>2
<1>8. Received' = n + 1
  <2>1. Len(channel') = Len(channel) - 1 BY <1>2, <1>4
  <2>2. QED BY <1>2, <1>4, <1>6, <2>1 DEF Received
<1>9. PICK got \in Seq(Real) : got = Got /\ Len(got) = n
  <2>1. n \in 0 .. Len(snapshot) BY <1>4, <1>6
  <2>2. SubSeq(snapshot, 1, n) \in Seq(Real) /\ Len(SubSeq(snapshot, 1, n)) = n
    BY <1>4, <2>1, FirstOnes
  <2>3. QED BY <1>6, <2>2 DEF Got
<1>10. Got' = Append(got, account)
  <2>1. PICK m \in 1 .. Len(snapshot) : m = n + 1 /\ m - 1 = n BY <1>6
  <2>2. SubSeq(snapshot, 1, m) = Append(SubSeq(snapshot, 1, m - 1), snapshot[m])
    BY <1>4, OneMore
  <2>3. QED BY <1>2, <1>6, <1>7, <1>8, <1>9, <2>1, <2>2 DEF Got
<1>11. AllTiered(Got')
  <2>1. PICK more \in Seq(Real) : more = Append(got, account) BY <1>7, AppendProperties
  <2>2. /\ DOMAIN more = 1 .. (n + 1) /\ more[n + 1] = account
        /\ \A i \in 1 .. n : more[i] = got[i] /\ i \in DOMAIN got
    BY <1>7, <1>9, <2>1
  <2>3. \A i \in 1 .. n : TierOf(got[i]) # {} BY <1>5, <1>9, <2>2 DEF EarlyFill, AllTiered
  <2>4. \A i \in 1 .. (n + 1) : i \in 1 .. n \/ i = n + 1 OBVIOUS
  <2>5. \A i \in DOMAIN more : TierOf(more[i]) # {} BY <1>3, <2>2, <2>3, <2>4
  <2>6. QED BY <1>10, <2>1, <2>5 DEF AllTiered
<1>12. ASSUME NEW u \in Tiers PROVE buckets'[u] = ByTier(Got', u)
  <2>1. buckets[u] = ByTier(got, u) /\ buckets \in [Tiers -> Seq(Account)]
    BY <1>5, <1>9 DEF EarlyFill, FillInv, ChainInv, TypeOK
  <2>2. ByTier(Got', u) = IF u \in TierOf(account) THEN Append(ByTier(got, u), account)
                          ELSE ByTier(got, u)
    BY <1>7, <1>10, ByTierAppend
  <2>3. CASE u = t BY <1>3, <2>1, <2>2, <2>3
  <2>4. CASE u # t
    <3>1. u \notin TierOf(account) BY <1>3, <2>4, TierUnique
    <3>2. QED BY <1>3, <2>1, <2>2, <2>4, <3>1
  <2>5. QED BY <2>3, <2>4
<1>13. \A k \in DOMAIN channel' : channel'[k] = snapshot[Received' + k]
  <2>1. ASSUME NEW k \in DOMAIN channel' PROVE channel'[k] = snapshot[(n + 1) + k]
    <3>1. /\ k \in 1 .. (Len(channel) - 1) /\ k + 1 \in DOMAIN channel
          /\ channel'[k] = channel[k + 1]
      BY <1>2, <1>4
    <3>2. channel[k + 1] = snapshot[n + (k + 1)] BY <1>5, <1>6, <3>1 DEF EarlyFill
    <3>3. n + (k + 1) = (n + 1) + k BY <3>1
    <3>4. QED BY <3>1, <3>2, <3>3
  <2>2. QED BY <1>8, <2>1
<1>14. Received' >= 0 BY <1>8
<1>15. QED BY <1>2, <1>11, <1>12, <1>13, <1>14, EarlyStays DEF Early

-----------------------------------------------------------------------------
(* The batches                                                             *)

(* What the steps that lay out nothing and set no leaf leave as it is.     *)
LEMMA LateStays ==
  ASSUME FillInv, ChainInv', LateFill, pc' \notin Early, StoredIsCommitted',
         UNCHANGED <<snapshot, sent, channel, closed, buckets, tier, queue, padding, tree>>,
         Open' <= Open, Leading' => Leading,
         pc' \in Batching => Open' % UsersPerBatch[tier] = 0,
         pc' \in {"create", "commit"} => Len(wit'.ops) = UsersPerBatch[tier],
         pc' \in {"tier", "done"} => queue = <<>>,
         pc' = "done" => NextTiers = {},
         ~Leading' => /\ pc' \in {"tier", "done"} => tier = NoTier
                      /\ pc' = "batch" => queue # <<>>
  PROVE  FillInv'
<1>1. Acc' = Acc /\ Laid' = Laid BY DEF Acc, Laid
<1>2. Here' = Here BY <1>1 DEF Here
<1>3. snapshot' \in Snapshots BY DEF FillInv
<1>4. Open \in Nat /\ Open' \in Nat /\ Len(Laid) \in Nat
  <2>1. FillTyped BY FillTypes DEF FillInv
  <2>2. FillTyped' BY <1>3, FillTypesNext
  <2>3. QED BY <2>1, <2>2 DEF FillTyped
<1>5. Open' <= Len(Laid) BY <1>4 DEF LateFill
<1>6. \A k \in 1 .. Len(Laid) : Len(Laid) - Open' < k => Laid[k].tier = tier
  <2>1. SUFFICES ASSUME NEW k \in 1 .. Len(Laid), Len(Laid) - Open' < k
                 PROVE  Laid[k].tier = tier
    OBVIOUS
  <2>2. Len(Laid) - Open < k BY <1>4, <2>1
  <2>3. QED BY <2>2 DEF LateFill
<1>7. NextTiers' = NextTiers BY DEF NextTiers
<1>8. LateFill' BY <1>1, <1>2, <1>5, <1>6, <1>7 DEF LateFill
<1>9. QED BY <1>3, <1>8 DEF FillInv

(* The first leaf to be laid out is the first tier's; nothing is set.      *)
LEMMA EndOfStreamFill ==
  ASSUME FillInv, ChainInv', EndOfStream
  PROVE  FillInv'
<1>1. /\ pc = "stream" /\ channel = <<>> /\ closed /\ padding' = sent /\ pc' = "tier"
      /\ UNCHANGED <<snapshot, sent, channel, closed, buckets, tier, queue, tree, height, table,
                     disk>>
  BY DEF EndOfStream, producer, chain, stored
<1>2. EarlyFill BY <1>1 DEF FillInv, Early
<1>3. FillTyped BY FillTypes DEF FillInv
<1>4. Acc' = Acc /\ Got = Acc
  <2>1. Len(channel) = 0 BY <1>1
  <2>2. Received = sent BY <1>3, <2>1 DEF Received, FillTyped
  <2>3. QED BY <1>1, <2>2 DEF Acc, Got
<1>5. Laid' = <<>> /\ LaidOut(Acc)[tier].next = sent
  <2>1. tier = 0 BY <1>2 DEF EarlyFill, NoTier
  <2>2. LaidOut(Acc)[0].leaves = <<>> /\ LaidOut(Acc)[0].next = Len(Acc)
    BY <1>3, LaidOutTyped DEF FillTyped
  <2>3. QED BY <1>1, <1>3, <1>4, <2>1, <2>2 DEF Laid, FillTyped
<1>6. queue' = <<>> /\ tier' = NoTier BY <1>1, <1>2 DEF EarlyFill
<1>7. Here' = 0 /\ Open' = 0 /\ Len(Laid') = 0
  <2>1. Len(queue') = 0 /\ Len(Laid') = 0 BY <1>5, <1>6
  <2>2. QED BY <1>1, <2>1 DEF Here, Open
<1>8. Leading' => /\ tree' = Filled(EmptyTree, SubSeq(Laid', 1, Here'))
                  /\ \A k \in 1 .. Here' : Laid'[k].account.index < Slots
  <2>1. SUFFICES ASSUME Leading'
                 PROVE  /\ tree' = Filled(EmptyTree, SubSeq(Laid', 1, Here'))
                        /\ \A k \in 1 .. Here' : Laid'[k].account.index < Slots
    OBVIOUS
  <2>2. Leading BY <1>1, <2>1 DEF Leading
  <2>3. tree' = EmptyTree BY <1>1, <1>2, <2>2 DEF EarlyFill
  <2>4. SubSeq(Laid', 1, Here') = <<>>
    <3>1. <<>> \in Seq(PlacedLeaf) /\ 0 \in 0 .. Len(<<>>) OBVIOUS
    <3>2. SubSeq(<<>>, 1, 0) = <<>> BY <3>1, FirstOnes
    <3>3. QED BY <1>5, <1>7, <3>2
  <2>5. Filled(EmptyTree, <<>>) = EmptyTree BY EmptyTreeType, FilledEmpty
  <2>6. 1 .. Here' = {} BY <1>7
  <2>7. QED BY <2>3, <2>4, <2>5, <2>6
<1>9. \A k \in DOMAIN queue' : queue'[k] = Laid'[Here' + k].account
  <2>1. DOMAIN queue' = {} BY <1>6
  <2>2. QED BY <2>1
<1>10. \A k \in 1 .. Len(Laid') : Len(Laid') - Open' < k => Laid'[k].tier = tier'
  <2>1. 1 .. Len(Laid') = {} BY <1>7
  <2>2. QED BY <2>1
<1>11. \A t \in Tiers : buckets'[t] = ByTier(Acc', t) BY <1>1, <1>2, <1>4 DEF EarlyFill
<1>12. AllTiered(Acc') BY <1>2, <1>4 DEF EarlyFill
<1>13. padding' = LaidOut(Acc')[tier'].next BY <1>1, <1>4, <1>5
<1>14. Open' <= Len(Laid') BY <1>7
<1>15. LateFill'
  BY <1>1, <1>6, <1>8, <1>9, <1>10, <1>11, <1>12, <1>13, <1>14 DEF LateFill
<1>16. StoredIsCommitted' BY <1>1 DEF FillInv, StoredIsCommitted
<1>17. QED BY <1>1, <1>15, <1>16 DEF FillInv, Early

LEMMA StandFill ==
  ASSUME FillInv, ChainInv', pc \notin Early, Finish \/ Cancel
  PROVE  FillInv'
<1>1. /\ UNCHANGED <<snapshot, sent, channel, closed, buckets, tier, queue, padding, tree,
                     height, wit, table, disk>>
      /\ pc' = pc \/ (pc = "tier" /\ pc' = "done" /\ NextTiers = {})
      /\ Alive
  BY DEF Finish, Cancel, producer, state, chain, stored, Alive
<1>2. LateFill /\ pc' \notin Early BY <1>1 DEF FillInv, Early
<1>3. Open' = Open BY <1>1 DEF Open
<1>4. Leading' <=> Leading BY <1>1 DEF Leading
<1>5. StoredIsCommitted' BY <1>1 DEF FillInv, StoredIsCommitted
<1>6. Open \in Nat BY FillTypes DEF FillInv, FillTyped
<1>7. Open' <= Open BY <1>3, <1>6
<1>8. pc' \in Batching => Open' % UsersPerBatch[tier] = 0
  <2>1. pc' \in Batching => pc \in Batching BY <1>1
  <2>2. QED BY <1>2, <1>3, <2>1 DEF LateFill
<1>9. pc' \in {"create", "commit"} => Len(wit'.ops) = UsersPerBatch[tier]
  BY <1>1, <1>2 DEF LateFill
<1>10. /\ pc' \in {"tier", "done"} => queue = <<>>
       /\ pc' = "done" => NextTiers = {}
  BY <1>1, <1>2 DEF LateFill
<1>11. ~Leading' => /\ pc' \in {"tier", "done"} => tier = NoTier
                    /\ pc' = "batch" => queue # <<>>
  BY <1>1, <1>2, <1>4 DEF LateFill
<1>12. QED BY <1>1, <1>2, <1>4, <1>5, <1>7, <1>8, <1>9, <1>10, <1>11, LateStays

LEMMA StartBatchFill ==
  ASSUME FillInv, ChainInv', StartBatch
  PROVE  FillInv'
<1>1. /\ UNCHANGED <<snapshot, sent, channel, closed, buckets, tier, queue, padding, tree,
                     height, table, disk>>
      /\ pc = "batch" /\ pc' \in {"tier", "build"}
  BY DEF StartBatch, producer, state, stored
<1>2. /\ LateFill /\ pc' \notin Early /\ Len(queue) \in Nat /\ queue \in Seq(Account)
      /\ UsersPerBatch[tier] \in Nat \ {0}
  <2>1. Alive /\ pc \notin Early /\ pc' \notin Early BY <1>1 DEF Alive, Early
  <2>2. tier \in Tiers BY <1>1 DEF FillInv, ChainInv, TypeOK
  <2>3. FillTyped BY FillTypes DEF FillInv
  <2>4. QED BY <2>1, <2>2, <2>3, ShapeAssumption DEF FillInv, FillTyped
<1>3. Open = Len(queue) /\ Open % UsersPerBatch[tier] = 0
  BY <1>1, <1>2 DEF Open, LateFill
<1>4. Open' = Open
  <2>1. CASE pc' = "tier" BY <1>1, <1>3, <2>1 DEF Open
  <2>2. CASE pc' = "build"
    <3>1. wit' = NewWit BY <2>2 DEF StartBatch
    <3>2. Len(wit'.ops) = 0 BY <3>1 DEF NewWit
    <3>3. Open' = Len(queue) + 0 BY <1>1, <2>2, <3>2 DEF Open
    <3>4. QED BY <1>2, <1>3, <3>3
  <2>3. QED BY <1>1, <2>1, <2>2
<1>5. Leading' <=> Leading BY <1>1 DEF Leading
<1>6. pc' = "tier" => queue = <<>>
  <2>1. pc' = "tier" => Len(queue) < UsersPerBatch[tier] BY DEF StartBatch
  <2>2. pc' = "tier" => Len(queue) = 0 BY <1>2, <1>3, <2>1, NoneLeft
  <2>3. QED BY <1>2, <2>2
<1>7. ~Leading => queue # <<>> BY <1>1, <1>2 DEF LateFill
<1>8. StoredIsCommitted' BY <1>1 DEF FillInv, StoredIsCommitted
<1>9. Open' <= Open BY <1>2, <1>3, <1>4
<1>10. QED BY <1>1, <1>2, <1>3, <1>4, <1>5, <1>6, <1>7, <1>8, <1>9, LateStays

LEMMA EndBatchFill ==
  ASSUME FillInv, ChainInv', EndBatch
  PROVE  FillInv'
<1>1. /\ UNCHANGED <<snapshot, sent, channel, closed, buckets, tier, queue, padding, tree,
                     height, table, disk>>
      /\ pc = "build" /\ pc' = "create" /\ Len(wit.ops) = UsersPerBatch[tier]
      /\ wit' = [wit EXCEPT !.after = tree, !.cexAfter = cex]
  BY DEF EndBatch, producer, state, stored
<1>2. LateFill /\ pc' \notin Early /\ Open \in Nat /\ wit \in Row
  <2>1. Alive /\ pc \notin Early /\ pc' \notin Early BY <1>1 DEF Alive, Early
  <2>2. FillTyped BY FillTypes DEF FillInv
  <2>3. QED BY <1>1, <2>1, <2>2 DEF FillInv, FillTyped, ChainInv, TypeOK
<1>3. wit'.ops = wit.ops BY <1>1, <1>2 DEF Row
<1>4. Open' = Open BY <1>1, <1>3 DEF Open
<1>5. Leading' <=> Leading BY <1>1 DEF Leading
<1>6. StoredIsCommitted' BY <1>1 DEF FillInv, StoredIsCommitted
<1>7. Open' <= Open BY <1>2, <1>4
<1>8. Open % UsersPerBatch[tier] = 0 BY <1>1, <1>2 DEF LateFill
<1>9. QED BY <1>1, <1>2, <1>3, <1>4, <1>5, <1>6, <1>7, <1>8, LateStays

LEMMA CreateRowFill ==
  ASSUME FillInv, ChainInv', CreateRow, Alive'
  PROVE  FillInv'
<1>1. /\ UNCHANGED <<snapshot, sent, channel, closed, buckets, tier, queue, padding, tree,
                     height, wit, disk>>
      /\ pc = "create" /\ pc' = "commit" /\ ~(height < Len(table))
  BY DEF CreateRow, producer, state, chain, Alive
<1>2. LateFill /\ pc' \notin Early /\ Open \in Nat
  <2>1. Alive /\ pc \notin Early /\ pc' \notin Early BY <1>1 DEF Alive, Early
  <2>2. FillTyped BY FillTypes DEF FillInv
  <2>3. QED BY <2>1, <2>2 DEF FillInv, FillTyped
<1>3. Leading
  <2>1. table \in Seq(Row) /\ height \in Nat /\ height <= Len(table)
    BY DEF FillInv, ChainInv, TypeOK
  <2>2. Len(table) \in Nat BY <2>1
  <2>3. QED BY <1>1, <2>1, <2>2 DEF Leading
<1>4. Leading' BY <1>1 DEF Leading
<1>5. Open' = Open BY <1>1 DEF Open
<1>6. StoredIsCommitted' BY <1>1 DEF FillInv, StoredIsCommitted
<1>7. Open' <= Open BY <1>2, <1>5
<1>8. Open % UsersPerBatch[tier] = 0 /\ Len(wit.ops) = UsersPerBatch[tier]
  BY <1>1, <1>2 DEF LateFill
<1>9. QED BY <1>1, <1>2, <1>3, <1>4, <1>5, <1>6, <1>7, <1>8, LateStays

(* What is committed ends with a whole batch of its tier.                  *)
LEMMA CommitFill ==
  ASSUME FillInv, ChainInv', CommitTree
  PROVE  FillInv'
<1>1. /\ UNCHANGED <<snapshot, sent, channel, closed, buckets, tier, queue, padding, tree, wit,
                     table>>
      /\ pc = "commit" /\ pc' = "batch" /\ height' = height + 1
      /\ disk' = IF persistent THEN tree ELSE disk
  BY DEF CommitTree, producer, state
<1>2. LateFill /\ pc' \notin Early /\ tier \in Tiers /\ Leading /\ FillTyped
  <2>1. Alive /\ pc \notin Early /\ pc' \notin Early /\ Leading
    BY <1>1 DEF Alive, Early, Leading
  <2>2. FillTyped BY FillTypes DEF FillInv
  <2>3. QED BY <1>1, <2>1, <2>2 DEF FillInv, ChainInv, TypeOK
<1>3. PICK u \in Nat \ {0} : u = UsersPerBatch[tier] BY <1>2, ShapeAssumption
<1>4. PICK q \in Nat : q = Len(queue) BY <1>2 DEF FillTyped
<1>5. PICK n \in Nat : n = Len(Laid) BY <1>2 DEF FillTyped
<1>6. Open = q + u /\ Open' = q
  <2>1. Len(wit.ops) = u BY <1>1, <1>2, <1>3 DEF LateFill
  <2>2. QED BY <1>1, <1>4, <2>1 DEF Open
<1>7. q % u = 0
  <2>1. (q + u) % u = 0 BY <1>1, <1>2, <1>3, <1>6 DEF LateFill
  <2>2. QED BY <2>1, OneLess
<1>8. PICK k \in 1 .. n : k = Here /\ n - k = q /\ n - (q + u) < k
  <2>1. q + u <= n BY <1>2, <1>5, <1>6 DEF LateFill
  <2>2. Here = n - q BY <1>4, <1>5 DEF Here
  <2>3. n - q \in 1 .. n /\ n - (n - q) = q /\ n - (q + u) < n - q BY <2>1
  <2>4. QED BY <2>2, <2>3
<1>9. Laid[k].tier = tier BY <1>2, <1>5, <1>6, <1>8 DEF LateFill
<1>10. tree \in Committed(Acc)
  <2>1. /\ tree = Filled(EmptyTree, SubSeq(Laid, 1, k))
        /\ \A i \in 1 .. k : Laid[i].account.index < Slots
    BY <1>2, <1>8 DEF LateFill
  <2>2. (Len(Laid) - k) % UsersPerBatch[tier] = 0 BY <1>3, <1>5, <1>7, <1>8
  <2>3. Acc \in Seq(Real) BY <1>2 DEF FillTyped
  <2>4. k \in 1 .. Len(Laid) BY <1>5
  <2>5. Filled(EmptyTree, SubSeq(Laid, 1, k)) \in Committed(Acc)
    BY <1>2, <1>9, <2>1, <2>2, <2>3, <2>4, WholeBatches DEF Laid
  <2>6. QED BY <2>1, <2>5
<1>11. StoredIsCommitted'
  <2>1. CASE persistent
    <3>1. disk' = tree BY <1>1, <2>1
    <3>2. sent \in 0 .. Len(snapshot) BY <1>2 DEF FillTyped
    <3>3. QED BY <1>1, <1>10, <3>1, <3>2 DEF StoredIsCommitted, Acc
  <2>2. CASE ~persistent
    <3>1. disk' = disk BY <1>1, <2>2
    <3>2. QED BY <1>1, <3>1 DEF FillInv, StoredIsCommitted
  <2>3. QED BY <2>1, <2>2
<1>12. Leading'
  <2>1. height = Len(table) - 1 /\ table \in Seq(Row)
    BY <1>1 DEF FillInv, ChainInv, TypeOK
  <2>2. Len(table) \in Nat BY <2>1
  <2>3. QED BY <1>1, <2>1, <2>2 DEF Leading
<1>13. Open' <= Open BY <1>6
<1>14. QED BY <1>1, <1>2, <1>3, <1>6, <1>7, <1>11, <1>12, <1>13, LateStays

(* The next tier that has accounts is laid out behind the last one, which  *)
(* is also how Padded goes: the tiers passed over lay out nothing.         *)
LEMMA StartTierFill ==
  ASSUME FillInv, ChainInv', StartTier
  PROVE  FillInv'
<1>1. /\ pc = "tier" /\ pc' = "batch"
      /\ UNCHANGED <<snapshot, sent, channel, closed, buckets, tree, wit, height, table, disk>>
  BY DEF StartTier, producer, chain, stored
<1>2. PICK t \in NextTiers :
        /\ \A u \in NextTiers : t <= u
        /\ tier' = t /\ queue' = PaddedWith(buckets[t], t, padding)
        /\ padding' = padding + PaddingCount(Len(buckets[t]), t)
  BY DEF StartTier
<1>3. LateFill /\ FillTyped /\ FillTyped'
  <2>1. Alive /\ pc \notin Early BY <1>1 DEF Alive, Early
  <2>2. snapshot' \in Snapshots BY <1>1 DEF FillInv
  <2>3. FillTyped BY FillTypes DEF FillInv
  <2>4. FillTyped' BY <2>2, FillTypesNext
  <2>5. QED BY <2>1, <2>3, <2>4 DEF FillInv
<1>4. PICK accs \in Seq(Real) : accs = Acc /\ accs = Acc' BY <1>1, <1>3 DEF FillTyped, Acc
<1>5. PICK done \in Layout : done = LaidOut(accs)[tier] /\ done.leaves = Laid
  <2>1. tier \in 0 .. LastTier BY <1>3 DEF FillTyped
  <2>2. QED BY <1>4, <2>1, LaidOutTyped DEF Laid
<1>6. t \in Tiers /\ t \in 1 .. LastTier /\ t > tier /\ t \in Nat /\ tier \in Nat
  <2>1. t \in Tiers /\ t > tier BY DEF NextTiers
  <2>2. t \in 1 .. LastTier /\ LastTier \in Nat BY <2>1, LastTierIs
  <2>3. tier \in 0 .. LastTier BY <1>3 DEF FillTyped
  <2>4. QED BY <2>1, <2>2, <2>3
<1>7. LaidOut(accs)[t] = WithTier(done, accs, t)
  <2>1. PICK s \in 0 .. LastTier : s = t - 1 /\ s \in tier .. LastTier /\ s < t
    BY <1>6, LastTierIs
  <2>2. ASSUME NEW u \in Tiers, tier < u, u <= s PROVE ByTier(accs, u) = <<>>
    <3>1. u \in Nat BY ShapeAssumption
    <3>2. ~(t <= u) BY <1>6, <2>1, <2>2, <3>1
    <3>3. u \notin NextTiers BY <1>2, <3>2
    <3>4. buckets[u] = <<>> BY <1>6, <2>2, <3>1, <3>3 DEF NextTiers
    <3>5. QED BY <1>3, <1>4, <3>4 DEF LateFill
  <2>3. tier \in 0 .. LastTier BY <1>3 DEF FillTyped
  <2>4. LaidOut(accs)[s] = LaidOut(accs)[tier] BY <2>1, <2>2, <2>3, EmptyTiers
  <2>5. t \in 0 .. LastTier /\ t # 0 /\ t - 1 = s BY <1>6, <2>1
  <2>6. LaidOut(accs)[t] = WithTier(LaidOut(accs)[s], accs, t) BY <1>6, <2>5, LaidOutIs
  <2>7. QED BY <1>5, <2>4, <2>6
<1>8. buckets[t] = ByTier(accs, t) /\ buckets[t] # <<>> /\ padding = done.next
  BY <1>3, <1>4, <1>5, <1>6 DEF LateFill, NextTiers
<1>9. PICK bucket \in Seq(Real) : bucket = ByTier(accs, t) /\ bucket # <<>>
  BY <1>6, <1>8, ByTierIs
<1>10. queue' = PaddedWith(bucket, t, done.next) /\ done.next \in Nat
  BY <1>2, <1>8, <1>9 DEF Layout
<1>11. padding' = LaidOut(Acc')[tier'].next
  BY <1>2, <1>4, <1>7, <1>8 DEF WithTier
<1>12. Behind(done, LaidOut(accs)[t], queue', t)
  BY <1>6, <1>7, <1>9, <1>10, WithTierLeaves
<1>13. PICK old \in Seq(PlacedLeaf), new \in Seq(PlacedLeaf) : old = Laid /\ new = Laid'
  BY <1>3 DEF FillTyped
<1>14. PICK m \in Nat, n \in Nat :
         m = Len(old) /\ n = Len(queue') /\ DOMAIN queue' = 1 .. n
  <2>1. queue' \in Seq(Account) BY <1>3 DEF FillTyped
  <2>2. Len(queue') \in Nat /\ DOMAIN queue' = 1 .. Len(queue') /\ Len(old) \in Nat BY <2>1
  <2>3. QED BY <2>2
<1>15. /\ Len(new) = m + n /\ \A k \in 1 .. m : new[k] = old[k]
       /\ \A k \in 1 .. n : new[m + k] = [account |-> queue'[k], tier |-> t]
  <2>1. new = LaidOut(accs)[t].leaves BY <1>2, <1>4, <1>13 DEF Laid
  <2>2. old = done.leaves BY <1>5, <1>13
  <2>3. QED BY <1>12, <1>14, <2>1, <2>2 DEF Behind
<1>16. Here = m /\ Here' = m /\ Open' = n
  <2>1. Len(queue) = 0 BY <1>1, <1>3 DEF LateFill
  <2>2. Here = m - 0 BY <1>13, <1>14, <2>1 DEF Here
  <2>3. Here' = (m + n) - n BY <1>13, <1>14, <1>15 DEF Here
  <2>4. Open' = n + 0 BY <1>1, <1>14 DEF Open
  <2>5. QED BY <2>2, <2>3, <2>4
<1>17. n # 0 /\ n % UsersPerBatch[tier'] = 0
  <2>1. n % UsersPerBatch[t] = 0 BY <1>6, <1>10, <1>14, WholeTier
  <2>2. PICK c \in Nat : c = PaddingCount(Len(bucket), t) BY <1>6, PaddingIs
  <2>3. Len(queue') = Len(bucket) + c BY <1>6, <1>10, <2>2, PaddedWithIs
  <2>4. Len(bucket) \in Nat /\ Len(bucket) # 0 BY <1>9
  <2>5. n # 0 BY <1>14, <2>2, <2>3, <2>4
  <2>6. QED BY <1>2, <2>1, <2>5
<1>18. \A k \in 1 .. n : queue'[k] = new[m + k].account /\ new[m + k].tier = t
  <2>1. SUFFICES ASSUME NEW k \in 1 .. n
                 PROVE  queue'[k] = new[m + k].account /\ new[m + k].tier = t
    OBVIOUS
  <2>2. new[m + k] = [account |-> queue'[k], tier |-> t] BY <1>15
  <2>3. QED BY <2>2
<1>19. \A k \in 1 .. Len(new) : Len(new) - n < k => new[k].tier = t
  <2>1. SUFFICES ASSUME NEW k \in 1 .. (m + n), (m + n) - n < k PROVE new[k].tier = t
    BY <1>15
  <2>2. PICK j \in 1 .. n : k = m + j
    <3>1. k - m \in 1 .. n /\ k = m + (k - m) BY <2>1
    <3>2. QED BY <3>1
  <2>3. QED BY <1>18, <2>2
<1>20. Leading' => /\ tree' = Filled(EmptyTree, SubSeq(new, 1, m))
                   /\ \A k \in 1 .. m : new[k].account.index < Slots
  <2>1. SUFFICES ASSUME Leading'
                 PROVE  /\ tree' = Filled(EmptyTree, SubSeq(new, 1, m))
                        /\ \A k \in 1 .. m : new[k].account.index < Slots
    OBVIOUS
  <2>2. Leading BY <1>1, <2>1 DEF Leading
  <2>3. /\ tree = Filled(EmptyTree, SubSeq(old, 1, m))
        /\ \A k \in 1 .. m : old[k].account.index < Slots
    BY <1>3, <1>13, <1>16, <2>2 DEF LateFill
  <2>4. m \in 0 .. Len(old) /\ m \in 0 .. Len(new) BY <1>14, <1>15
  <2>5. /\ SubSeq(old, 1, m) \in Seq(PlacedLeaf) /\ Len(SubSeq(old, 1, m)) = m
        /\ \A k \in 1 .. m : SubSeq(old, 1, m)[k] = old[k]
    BY <2>4, FirstOnes
  <2>6. /\ SubSeq(new, 1, m) \in Seq(PlacedLeaf) /\ Len(SubSeq(new, 1, m)) = m
        /\ \A k \in 1 .. m : SubSeq(new, 1, m)[k] = new[k]
    BY <2>4, FirstOnes
  <2>7. PICK a \in Seq(PlacedLeaf), b \in Seq(PlacedLeaf) :
          a = SubSeq(old, 1, m) /\ b = SubSeq(new, 1, m)
    BY <2>5, <2>6
  <2>8. a = b
    <3>1. Len(a) = m /\ Len(b) = m /\ \A k \in 1 .. m : a[k] = b[k]
      BY <1>15, <2>5, <2>6, <2>7
    <3>2. QED BY <3>1, SeqEqual
  <2>9. QED BY <1>1, <1>15, <2>3, <2>7, <2>8
<1>21. \A u \in Tiers : buckets'[u] = ByTier(Acc', u) BY <1>1, <1>3, <1>4 DEF LateFill
<1>22. AllTiered(Acc') /\ channel' = <<>> /\ closed' BY <1>1, <1>3, <1>4 DEF LateFill
<1>23. Open' <= Len(Laid') BY <1>13, <1>15, <1>16
<1>24. queue' # <<>> BY <1>14, <1>17
<1>25. LateFill'
  BY <1>1, <1>2, <1>11, <1>13, <1>14, <1>16, <1>17, <1>18, <1>19, <1>20, <1>21, <1>22, <1>23,
     <1>24 DEF LateFill
<1>26. StoredIsCommitted' BY <1>1 DEF FillInv, StoredIsCommitted
<1>27. QED BY <1>1, <1>25, <1>26 DEF FillInv, Early

(* The user at the head of the queue comes to the next leaf.               *)
LEMMA AddUserFill ==
  ASSUME FillInv, ChainInv', AddUser, Alive'
  PROVE  FillInv'
<1>1. PICK account : account = Head(queue) OBVIOUS
<1>2. /\ pc = "build" /\ pc' = pc
      /\ UNCHANGED <<snapshot, sent, channel, closed, buckets, tier, padding, height, table,
                     disk>>
      /\ ~(account.index >= Slots) /\ queue' = Tail(queue)
      /\ tree' = [tree EXCEPT ![account.index] = Leaf(account, tier)]
  BY <1>1 DEF AddUser, Alive, producer, stored
<1>3. LateFill /\ FillTyped /\ FillTyped' /\ wit \in Row /\ Len(queue) >= 1
  <2>1. Alive /\ pc \notin Early BY <1>2 DEF Alive, Early
  <2>2. snapshot' \in Snapshots BY <1>2 DEF FillInv
  <2>3. FillTyped BY FillTypes DEF FillInv
  <2>4. FillTyped' BY <2>2, FillTypesNext
  <2>5. TypeOK /\ wit \in Row /\ tier \in Tiers BY <1>2 DEF FillInv, ChainInv, TypeOK
  <2>6. Len(wit.ops) \in Nat /\ UsersPerBatch[tier] \in Nat
    BY <2>5, ShapeAssumption DEF Row
  <2>7. Len(queue) >= UsersPerBatch[tier] - Len(wit.ops) /\ Len(wit.ops) < UsersPerBatch[tier]
    BY <1>2 DEF FillInv, ChainInv, AddUser
  <2>8. Len(queue) >= 1 BY <2>3, <2>6, <2>7 DEF FillTyped
  <2>9. QED BY <2>1, <2>3, <2>4, <2>5, <2>8 DEF FillInv
<1>4. PICK q \in Nat : Len(queue) = q + 1
  <2>1. Len(queue) \in Nat BY <1>3 DEF FillTyped
  <2>2. Len(queue) - 1 \in Nat /\ Len(queue) = (Len(queue) - 1) + 1 BY <1>3, <2>1
  <2>3. QED BY <2>2
<1>5. /\ Len(queue') = q /\ DOMAIN queue' = 1 .. q /\ account = queue[1] /\ 1 \in DOMAIN queue
      /\ \A k \in 1 .. q : queue'[k] = queue[k + 1] /\ k + 1 \in DOMAIN queue
  BY <1>1, <1>2, <1>3, <1>4 DEF FillTyped
<1>6. PICK o \in Nat : o = Len(wit.ops) /\ Len(wit'.ops) = o + 1
  <2>1. wit.ops \in Seq(Op) BY <1>3 DEF Row
  <2>2. PICK op : wit' = [wit EXCEPT !.ops = Append(@, op)] BY <1>2 DEF AddUser, Alive
  <2>3. wit'.ops = Append(wit.ops, op) BY <1>3, <2>2 DEF Row
  <2>4. Len(Append(wit.ops, op)) = Len(wit.ops) + 1 BY <2>1
  <2>5. QED BY <2>1, <2>3, <2>4
<1>7. PICK leaves \in Seq(PlacedLeaf) : leaves = Laid /\ leaves = Laid'
  BY <1>2, <1>3 DEF FillTyped, Laid, Acc
<1>8. PICK n \in Nat : n = Len(leaves) OBVIOUS
<1>9. Open = (q + 1) + o /\ Open' = q + (o + 1) /\ Open' = Open
  <2>1. Open = (q + 1) + o BY <1>2, <1>4, <1>6 DEF Open
  <2>2. Open' = q + (o + 1) BY <1>2, <1>5, <1>6 DEF Open
  <2>3. QED BY <2>1, <2>2
<1>10. (q + 1) + o <= n BY <1>3, <1>7, <1>8, <1>9 DEF LateFill
<1>11. PICK k \in 1 .. n : k = n - q /\ Here' = k /\ Here = k - 1 /\ n - ((q + 1) + o) < k
  <2>1. Here = n - (q + 1) /\ Here' = n - q BY <1>4, <1>5, <1>7, <1>8 DEF Here
  <2>2. n - q \in 1 .. n /\ n - (q + 1) = (n - q) - 1 /\ n - ((q + 1) + o) < n - q BY <1>10
  <2>3. QED BY <2>1, <2>2
<1>12. leaves[k].tier = tier BY <1>3, <1>7, <1>8, <1>9, <1>11 DEF LateFill
<1>13. leaves[k].account = account
  <2>1. queue[1] = leaves[(k - 1) + 1].account BY <1>3, <1>5, <1>7, <1>11 DEF LateFill
  <2>2. (k - 1) + 1 = k OBVIOUS
  <2>3. QED BY <1>5, <2>1, <2>2
<1>14. account.index < Slots
  <2>1. account \in Account BY <1>3, <1>5 DEF FillTyped
  <2>2. account.index \in Nat BY <2>1 DEF Account, Accounts
  <2>3. QED BY <1>2, <2>2, SizeAssumption
<1>15. Leading' => /\ tree' = Filled(EmptyTree, SubSeq(leaves, 1, k))
                   /\ \A i \in 1 .. k : leaves[i].account.index < Slots
  <2>1. SUFFICES ASSUME Leading'
                 PROVE  /\ tree' = Filled(EmptyTree, SubSeq(leaves, 1, k))
                        /\ \A i \in 1 .. k : leaves[i].account.index < Slots
    OBVIOUS
  <2>2. Leading BY <1>2, <2>1 DEF Leading
  <2>3. /\ tree = Filled(EmptyTree, SubSeq(leaves, 1, k - 1))
        /\ \A i \in 1 .. (k - 1) : leaves[i].account.index < Slots
    BY <1>3, <1>7, <1>11, <2>2 DEF LateFill
  <2>4. PICK part \in Seq(PlacedLeaf) : part = SubSeq(leaves, 1, k - 1)
    <3>1. k - 1 \in 0 .. Len(leaves) BY <1>8
    <3>2. QED BY <3>1, FirstOnes
  <2>5. SubSeq(leaves, 1, k) = Append(part, leaves[k])
    <3>1. k \in 1 .. Len(leaves) BY <1>8
    <3>2. QED BY <2>4, <3>1, OneMore
  <2>6. PICK leaf \in PlacedLeaf :
          leaf = leaves[k] /\ leaf.account = account /\ leaf.tier = tier
    <3>1. leaves[k] \in PlacedLeaf BY <1>8
    <3>2. QED BY <1>12, <1>13, <3>1
  <2>7. Filled(EmptyTree, Append(part, leaf)) = WithLeaf(Filled(EmptyTree, part), leaf)
    BY EmptyTreeType, FilledAppend
  <2>8. tree' = Filled(EmptyTree, SubSeq(leaves, 1, k))
    BY <1>2, <2>3, <2>4, <2>5, <2>6, <2>7 DEF WithLeaf
  <2>9. ASSUME NEW i \in 1 .. k PROVE leaves[i].account.index < Slots
    <3>1. CASE i = k BY <1>13, <1>14, <3>1
    <3>2. CASE i # k
      <4>1. i \in 1 .. (k - 1) BY <3>2
      <4>2. QED BY <2>3, <4>1
    <3>3. QED BY <3>1, <3>2
  <2>10. QED BY <2>8, <2>9
<1>16. \A j \in DOMAIN queue' : queue'[j] = leaves[k + j].account
  <2>1. SUFFICES ASSUME NEW j \in 1 .. q PROVE queue'[j] = leaves[k + j].account BY <1>5
  <2>2. queue[j + 1] = leaves[(k - 1) + (j + 1)].account
    BY <1>3, <1>5, <1>7, <1>11 DEF LateFill
  <2>3. (k - 1) + (j + 1) = k + j OBVIOUS
  <2>4. QED BY <1>5, <2>2, <2>3
<1>17. /\ Acc' = Acc /\ Open' <= Len(Laid')
       /\ \A i \in 1 .. Len(Laid') : Len(Laid') - Open' < i => Laid'[i].tier = tier'
  BY <1>2, <1>3, <1>7, <1>9 DEF LateFill, Acc
<1>18. Open' % UsersPerBatch[tier'] = 0 BY <1>2, <1>3, <1>9 DEF LateFill
<1>19. /\ AllTiered(Acc') /\ channel' = <<>> /\ closed'
       /\ \A t \in Tiers : buckets'[t] = ByTier(Acc', t)
       /\ padding' = LaidOut(Acc')[tier'].next
  BY <1>2, <1>3, <1>17 DEF LateFill
<1>20. LateFill'
  BY <1>2, <1>7, <1>11, <1>15, <1>16, <1>17, <1>18, <1>19 DEF LateFill
<1>21. StoredIsCommitted' BY <1>2 DEF FillInv, StoredIsCommitted
<1>22. QED BY <1>2, <1>20, <1>21 DEF FillInv, Early

LEMMA StillFill ==
  ASSUME FillInv, ChainInv', UNCHANGED vars
  PROVE  FillInv'
<1>1. UNCHANGED <<snapshot, sent, channel, closed, pc, buckets, tier, queue, padding, tree, wit,
                  height, table, disk>>
  BY DEF vars, producer, state, chain, stored
<1>2. /\ Received' = Received /\ Acc' = Acc /\ Open' = Open /\ NextTiers' = NextTiers
      /\ (Leading' <=> Leading) /\ (Alive' <=> Alive)
  BY <1>1 DEF Received, Acc, Open, NextTiers, Leading, Alive
<1>3. Got' = Got /\ Laid' = Laid BY <1>1, <1>2 DEF Got, Laid
<1>4. Here' = Here BY <1>1, <1>3 DEF Here
<1>5. EarlyFill => EarlyFill' BY <1>1, <1>2, <1>3 DEF EarlyFill
<1>6. LateFill => LateFill' BY <1>1, <1>2, <1>3, <1>4 DEF LateFill
<1>7. StoredIsCommitted' BY <1>1 DEF FillInv, StoredIsCommitted
<1>8. QED BY <1>1, <1>2, <1>5, <1>6, <1>7 DEF FillInv

LEMMA StepFill ==
  ASSUME FillInv, [Next]_vars
  PROVE  FillInv'
<1>1. ChainInv' BY StepInv DEF FillInv
<1>2. CASE UNCHANGED vars BY <1>1, <1>2, StillFill
<1>3. CASE Next /\ ~Alive' BY <1>1, <1>3, StopFill
<1>4. CASE Rerun BY <1>1, <1>4, RerunFill
<1>5. CASE Producer
  <2>1. pc \in Early /\ pc' \in Early
    <3>1. pc \notin Ended /\ ~closed /\ pc' = pc BY <1>5 DEF Producer, Send, Close
    <3>2. Alive BY <3>1 DEF Alive
    <3>3. QED BY <3>1, <3>2 DEF FillInv, LateFill
  <2>2. QED BY <1>1, <1>5, <2>1, SendFill, QuietFill DEF Producer
<1>6. CASE Alive' /\ (Load \/ (pc \in Early /\ Cancel))
  <2>1. pc \in Early /\ pc' \in Early BY <1>6 DEF Early, Alive, Load, Cancel
  <2>2. QED BY <1>1, <1>6, <2>1, QuietFill
<1>7. CASE Alive' /\ Bucket BY <1>1, <1>7, BucketFill
<1>8. CASE EndOfStream BY <1>1, <1>8, EndOfStreamFill
<1>9. CASE pc \notin Early /\ (Finish \/ Cancel) BY <1>1, <1>9, StandFill
<1>10. CASE StartTier BY <1>1, <1>10, StartTierFill
<1>11. CASE StartBatch BY <1>1, <1>11, StartBatchFill
<1>12. CASE AddUser /\ Alive' BY <1>1, <1>12, AddUserFill
<1>13. CASE EndBatch BY <1>1, <1>13, EndBatchFill
<1>14. CASE CreateRow /\ Alive' BY <1>1, <1>14, CreateRowFill
<1>15. CASE CommitTree BY <1>1, <1>15, CommitFill
<1>16. CallFails \/ Crash => ~Alive' BY DEF CallFails, Crash, Alive
<1>17. Finish => pc \notin Early BY DEF Finish, Early
<1>18. QED
  BY <1>2, <1>3, <1>4, <1>5, <1>6, <1>7, <1>8, <1>9, <1>10, <1>11, <1>12, <1>13, <1>14,
     <1>15, <1>16, <1>17 DEF Next, Runner

(* Nothing is left to be laid out when a run has gone through the tiers.   *)
LEMMA FillIsOneRun == FillInv => StoredTreeIsOneRun
<1>1. SUFFICES ASSUME FillInv PROVE StoredTreeIsOneRun OBVIOUS
<1>2. \E n \in 0 .. Len(snapshot) : disk \in Committed(SubSeq(snapshot, 1, n))
  BY <1>1 DEF FillInv, StoredIsCommitted
<1>3. ASSUME pc = "done", sent > 0 PROVE tree = Filled(EmptyTree, Padded(Acc))
  <2>1. LateFill /\ FillTyped
    <3>1. Alive /\ pc \notin Early BY <1>3 DEF Alive, Early
    <3>2. QED BY <1>1, <3>1, FillTypes DEF FillInv
  <2>2. PICK accs \in Seq(Real) : accs = Acc /\ Len(accs) = sent BY <2>1 DEF FillTyped
  <2>3. /\ queue = <<>> /\ NextTiers = {} /\ tier \in 0 .. LastTier
        /\ \A t \in Tiers : buckets[t] = ByTier(accs, t)
    BY <1>3, <2>1, <2>2 DEF LateFill, FillTyped
  <2>4. ASSUME NEW t \in Tiers, tier < t PROVE ByTier(accs, t) = <<>>
    <3>1. t \in Nat /\ tier \in Nat BY <2>3, ShapeAssumption
    <3>2. buckets[t] = <<>> BY <2>3, <2>4, <3>1 DEF NextTiers
    <3>3. QED BY <2>3, <3>2
  <2>5. Leading
    <3>1. SUFFICES ASSUME ~Leading PROVE FALSE OBVIOUS
    <3>2. tier = 0 BY <1>3, <2>1, <3>1 DEF LateFill, NoTier
    <3>3. 1 \in DOMAIN accs BY <1>3, <2>2
    <3>4. PICK t : t \in TierOf(accs[1]) BY <2>1, <2>2, <3>3 DEF LateFill, AllTiered
    <3>5. t \in Tiers /\ tier < t BY <3>2, <3>4, TierUnique
    <3>6. QED BY <2>4, <3>3, <3>4, <3>5, ByTierHolds
  <2>6. LaidOut(accs)[LastTier] = LaidOut(accs)[tier]
    <3>1. LastTier \in tier .. LastTier BY <2>3, LastTierIs
    <3>2. QED BY <2>3, <2>4, <3>1, EmptyTiers
  <2>7. PICK leaves \in Seq(PlacedLeaf) : leaves = Laid /\ leaves = Padded(accs)
    BY <2>1, <2>2, <2>6 DEF FillTyped, Laid, Padded
  <2>8. Here = Len(leaves)
    <3>1. Len(queue) = 0 /\ Len(leaves) \in Nat BY <2>3
    <3>2. QED BY <2>7, <3>1 DEF Here
  <2>9. tree = Filled(EmptyTree, SubSeq(leaves, 1, Len(leaves)))
    BY <2>1, <2>5, <2>7, <2>8 DEF LateFill
  <2>10. SubSeq(leaves, 1, Len(leaves)) = leaves
    <3>1. Len(leaves) \in 0 .. Len(leaves) OBVIOUS
    <3>2. QED BY <3>1, FirstOnes
  <2>11. QED BY <2>2, <2>7, <2>9, <2>10
<1>4. QED BY <1>2, <1>3 DEF StoredTreeIsOneRun, Acc

THEOREM FillInvariant == Spec => []FillInv
<1>1. FillInv /\ [Next]_vars => FillInv' BY StepFill
<1>2. QED BY InitFill, <1>1, PTL DEF Spec

(* What a run leaves in redis is the tree the user proof service builds,   *)
(* as far as it got: whole batches of it (witness_runner.go commits after  *)
(* every batch), and all of it when the run reports success.               *)
THEOREM StoredTree == Spec => []StoredTreeIsOneRun
<1>1. QED BY FillInvariant, FillIsOneRun, PTL
==============================================================================
