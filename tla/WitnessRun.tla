------------------------------ MODULE WitnessRun ------------------------------
(***************************************************************************)
(* One run of the witness service (pkg/witness, witness_runner.go of each  *)
(* solvency model): a goroutine streams the snapshot's accounts through a  *)
(* channel, the runner sorts them into asset-count tiers, pads each tier   *)
(* to whole batches, and for every batch adds the accounts to the Merkle   *)
(* tree and to the running per-asset totals, inserts a witness row and     *)
(* commits the tree.  The process may be interrupted or die anywhere and   *)
(* be started again; the row table survives, and so does a redis tree.     *)
(* Roots and commitments are collision-free hashes: they are modelled by   *)
(* what they commit to.  Columns are the balances a model has per asset.   *)
(***************************************************************************)
EXTENDS AccountTree

CONSTANTS
  MaxTotal,      \* the largest value of a running total (uint64)
  ChanCap,       \* capacity of the account channel
  MaxCrashes, MaxFaults  \* bounds on deaths and on failed calls

ASSUME SizeAssumption ==
  /\ IsFiniteSet(Assets)
  /\ Slots \in Nat /\ MaxTotal \in Nat /\ ChanCap \in Nat \ {0}
  /\ MaxCrashes \in Nat /\ MaxFaults \in Nat

Zero == NoBalance
NoAccounts == [t \in Tiers |-> <<>>]
Ended == {"done", "failed", "crashed"}
Built == {"build", "create", "commit"}
Batching == Built \cup {"batch"}

VARIABLES
  snapshot,   \* the accounts the files hold: [id, index, bal]
  persistent, \* the tree is kept in redis, not in memory
  sent,       \* producer goroutine: accounts sent
  channel,    \* the buffered channel
  closed,     \* the producer has closed it
  cancelled,  \* the context is cancelled
  pc,         \* where the runner is
  buckets,    \* accounts by tier
  tier,       \* the tier being written
  queue,      \* accounts of that tier not yet batched, padding included
  padding,    \* the next padding AccountIndex
  tree,       \* the account tree, by leaf
  disk,       \* what a new process finds in the tree's database
  cex,        \* running totals by asset and column
  wit,        \* the batch witness being built
  height,     \* the next batch number
  table,      \* the witness table: rows by Height, as a sequence
  run,        \* how many times the service has been started
  crashes, faults

producer == <<sent, channel, closed>>
state == <<buckets, tier, queue, padding>>
chain == <<tree, cex, wit, height>>
stored == <<disk, table>>
bounds == <<crashes, faults>>
vars == <<snapshot, persistent, producer, cancelled, pc, state, chain, stored, run, bounds>>

-----------------------------------------------------------------------------
(* Helpers *)

Overflows(account) ==
  \E a \in Assets, c \in Columns : cex[a][c] + account.bal[a][c] > MaxTotal

Plus(totals, bal) ==
  [a \in Assets |-> [c \in Columns |-> totals[a][c] + bal[a][c]]]

NewWit ==
  [before |-> tree, after |-> tree, cexBefore |-> cex, cexAfter |-> cex,
   tier |-> tier, run |-> run, ops |-> <<>>]

-----------------------------------------------------------------------------
Init ==
  /\ snapshot \in Snapshots /\ persistent \in BOOLEAN
  /\ sent = 0 /\ channel = <<>> /\ closed = FALSE /\ cancelled = FALSE
  /\ pc = "load"
  /\ buckets = NoAccounts /\ tier = NoTier /\ queue = <<>> /\ padding = 0
  /\ cex = Zero /\ height = 0
  /\ tree = EmptyTree /\ disk = EmptyTree
  /\ wit = <<>> /\ table = <<>> /\ run = 1
  /\ crashes = 0 /\ faults = 0

(* Mutants: bugs the properties below must notice. *)

\* the producer closes its channel on cancellation only
CloseOnCancel ==
  /\ pc # "load" /\ pc \notin Ended /\ ~closed /\ cancelled
  /\ closed' = TRUE
  /\ UNCHANGED <<snapshot, persistent, sent, channel, cancelled, pc, state, chain, stored, run, bounds>>

\* the map of tiers is walked unsorted
TierAnyOrder ==
  /\ pc = "tier"
  /\ \E t \in {u \in Tiers : buckets[u] # <<>>} :
       /\ tier' = t
       /\ queue' = PaddedWith(buckets[t], t, padding)
       /\ buckets' = [buckets EXCEPT ![t] = <<>>]
       /\ padding' = padding + PaddingCount(Len(buckets[t]), t)
  /\ pc' = "batch"
  /\ UNCHANGED <<snapshot, persistent, producer, cancelled, chain, stored, run, bounds>>

\* the next tier pads from the same leaf again
PaddingStands ==
  /\ pc = "tier"
  /\ \E t \in {u \in Tiers : u > tier /\ buckets[u] # <<>>} :
       /\ \A u \in Tiers : u > tier /\ buckets[u] # <<>> => t <= u
       /\ tier' = t
       /\ queue' = PaddedWith(buckets[t], t, padding)
  /\ pc' = "batch"
  /\ UNCHANGED <<snapshot, persistent, producer, cancelled, buckets, padding, chain, stored, run, bounds>>

\* the tree is committed before the row is inserted
CommitFirst ==
  /\ pc = "build" /\ Len(wit.ops) = UsersPerBatch[tier]
  /\ wit' = [wit EXCEPT !.after = tree, !.cexAfter = cex]
  /\ disk' = tree /\ pc' = "create"
  /\ UNCHANGED <<snapshot, persistent, producer, cancelled, state, tree, cex, height, table, run, bounds>>

\* a rerun that goes on behind the last row, with fresh totals
Resume ==
  /\ pc \in Ended /\ run <= MaxCrashes + MaxFaults
  /\ run' = run + 1
  /\ sent' = 0 /\ channel' = <<>> /\ closed' = FALSE /\ cancelled' = FALSE
  /\ pc' = "load"
  /\ buckets' = NoAccounts /\ tier' = NoTier /\ queue' = <<>> /\ padding' = 0
  /\ cex' = Zero /\ height' = Len(table)
  /\ tree' = disk /\ wit' = <<>>
  /\ UNCHANGED <<snapshot, persistent, stored, bounds>>

(* The producer goroutine: in its select either ready case may be taken.   *)
Send ==
  /\ pc # "load" /\ pc \notin Ended /\ ~closed
  /\ sent < Len(snapshot) /\ Len(channel) < ChanCap
  /\ channel' = Append(channel, snapshot[sent + 1])
  /\ sent' = sent + 1
  /\ UNCHANGED <<snapshot, persistent, closed, cancelled, pc, state, chain, stored, run, bounds>>

Close ==
  /\ pc # "load" /\ pc \notin Ended /\ ~closed
  /\ sent = Len(snapshot) \/ cancelled
  /\ closed' = TRUE
  /\ UNCHANGED <<snapshot, persistent, sent, channel, cancelled, pc, state, chain, stored, run, bounds>>

(* CexAssets and loadAccounts look at the context before every row. *)
Load ==
  /\ pc = "load"
  /\ pc' = IF cancelled THEN "failed" ELSE "stream"
  /\ UNCHANGED <<snapshot, persistent, producer, cancelled, state, chain, stored, run, bounds>>

(* streamAndBucket: one account, or the error for one no tier fits. *)
Bucket ==
  /\ pc = "stream" /\ channel # <<>>
  /\ channel' = Tail(channel)
  /\ \/ /\ TierOf(Head(channel)) = {}
        /\ pc' = "failed"
        /\ UNCHANGED buckets
     \/ \E t \in TierOf(Head(channel)) :
          /\ buckets' = [buckets EXCEPT ![t] = Append(@, Head(channel))]
          /\ UNCHANGED pc
  /\ UNCHANGED <<snapshot, persistent, sent, closed, cancelled, tier, queue, padding, chain, stored, run, bounds>>

(* The range over the channel ends; padding indices start after the        *)
(* accounts that came out of it.                                           *)
EndOfStream ==
  /\ pc = "stream" /\ channel = <<>> /\ closed
  /\ padding' = sent
  /\ pc' = "tier"
  /\ UNCHANGED <<snapshot, persistent, producer, cancelled, buckets, tier, queue, chain, stored, run, bounds>>

(* The non-empty tiers in ascending order. *)
NextTiers == {t \in Tiers : t > tier /\ buckets[t] # <<>>}

StartTier ==
  /\ pc = "tier"
  /\ \E t \in NextTiers :
       /\ \A u \in NextTiers : t <= u
       /\ tier' = t
       /\ queue' = PaddedWith(buckets[t], t, padding)
       /\ padding' = padding + PaddingCount(Len(buckets[t]), t)
  /\ pc' = "batch"
  /\ UNCHANGED <<snapshot, persistent, producer, cancelled, buckets, chain, stored, run, bounds>>

Finish ==
  /\ pc = "tier" /\ NextTiers = {}
  /\ pc' = "done"
  /\ UNCHANGED <<snapshot, persistent, producer, cancelled, state, chain, stored, run, bounds>>

StartBatch ==
  /\ pc = "batch"
  /\ IF Len(queue) < UsersPerBatch[tier]
       THEN pc' = "tier" /\ UNCHANGED wit
       ELSE pc' = "build" /\ wit' = NewWit
  /\ UNCHANGED <<snapshot, persistent, producer, cancelled, state, tree, cex, height, stored, run, bounds>>

(* One user of buildBatch: totals first, then the leaf.  An index outside  *)
(* the tree and a total that does not fit uint64 are errors.               *)
AddUser ==
  /\ pc = "build" /\ Len(wit.ops) < UsersPerBatch[tier]
  /\ LET account == Head(queue) IN
       IF account.index >= Slots \/ Overflows(account)
         THEN pc' = "failed" /\ UNCHANGED <<queue, tree, cex, wit>>
         ELSE /\ queue' = Tail(queue)
              /\ cex' = Plus(cex, account.bal)
              /\ tree' = [tree EXCEPT ![account.index] = Leaf(account, tier)]
              /\ wit' = [wit EXCEPT !.ops = Append(@,
                           [id |-> account.id, index |-> account.index,
                            count |-> CountNonEmptyAssets(account.bal),
                            fresh |-> tree[account.index] = EmptyLeaf])]
              /\ UNCHANGED pc
  /\ UNCHANGED <<snapshot, persistent, producer, cancelled, buckets, tier, padding, height, stored, run, bounds>>

EndBatch ==
  /\ pc = "build" /\ Len(wit.ops) = UsersPerBatch[tier]
  /\ wit' = [wit EXCEPT !.after = tree, !.cexAfter = cex]
  /\ pc' = "create"
  /\ UNCHANGED <<snapshot, persistent, producer, cancelled, state, tree, cex, height, stored, run, bounds>>

(* INSERT of the row: Height is unique, a second row is an error. *)
CreateRow ==
  /\ pc = "create"
  /\ IF height < Len(table)
       THEN pc' = "failed" /\ UNCHANGED table
       ELSE pc' = "commit" /\ table' = Append(table, wit)
  /\ UNCHANGED <<snapshot, persistent, producer, cancelled, state, chain, disk, run, bounds>>

CommitTree ==
  /\ pc = "commit"
  /\ disk' = IF persistent THEN tree ELSE disk
  /\ height' = height + 1
  /\ pc' = "batch"
  /\ UNCHANGED <<snapshot, persistent, producer, cancelled, state, tree, cex, wit, table, run, bounds>>

(* A call to a file, the tree or the database fails; the INSERT may have   *)
(* been applied all the same.                                              *)
CallFails ==
  /\ pc \in {"load", "build", "create", "commit"}
  /\ faults < MaxFaults
  /\ faults' = faults + 1
  /\ \/ UNCHANGED table
     \/ pc = "create" /\ height = Len(table) /\ table' = Append(table, wit)
  /\ pc' = "failed"
  /\ UNCHANGED <<snapshot, persistent, producer, cancelled, state, chain, disk, run, crashes>>

-----------------------------------------------------------------------------
Cancel ==
  /\ ~cancelled /\ pc \notin Ended
  /\ cancelled' = TRUE
  /\ UNCHANGED <<snapshot, persistent, producer, pc, state, chain, stored, run, bounds>>

Crash ==
  /\ pc \notin Ended /\ crashes < MaxCrashes
  /\ crashes' = crashes + 1
  /\ pc' = "crashed"
  /\ UNCHANGED <<snapshot, persistent, producer, cancelled, state, chain, stored, run, faults>>

(* A new process over the same files, table and tree database: it starts   *)
(* from height 0 and zero totals, whatever the table holds.                *)
Rerun ==
  /\ pc \in Ended /\ run <= MaxCrashes + MaxFaults
  /\ run' = run + 1
  /\ sent' = 0 /\ channel' = <<>> /\ closed' = FALSE /\ cancelled' = FALSE
  /\ pc' = "load"
  /\ buckets' = NoAccounts /\ tier' = NoTier /\ queue' = <<>> /\ padding' = 0
  /\ cex' = Zero /\ height' = 0
  /\ tree' = disk /\ wit' = <<>>
  /\ UNCHANGED <<snapshot, persistent, stored, bounds>>

Runner ==
  \/ Load \/ Bucket \/ EndOfStream \/ StartTier \/ Finish \/ StartBatch
  \/ AddUser \/ EndBatch \/ CreateRow \/ CommitTree \/ CallFails

Producer == Send \/ Close

Next == Producer \/ Runner \/ Cancel \/ Crash \/ Rerun

Spec == Init /\ [][Next]_vars

(* The two goroutines of a live process are both scheduled. *)
FairSpec == Spec /\ WF_vars(Producer) /\ WF_vars(Runner)

-----------------------------------------------------------------------------
(* Properties *)

Totals == [Assets -> [Columns -> 0 .. MaxTotal]]
Leaves == [id : Ids \cup {PaddingId, NoId}, tier : Tiers \cup {NoTier}]
Trees == [0 .. (Slots - 1) -> Leaves]
Op == [id : Ids \cup {PaddingId}, index : Nat, count : Nat, fresh : BOOLEAN]
Row == [before : Trees, after : Trees, cexBefore : Totals, cexAfter : Totals,
        tier : Tiers, run : Nat, ops : Seq(Op)]

TypeOK ==
  /\ snapshot \in Seq(Account) /\ persistent \in BOOLEAN
  /\ sent \in 0 .. Len(snapshot)
  /\ channel \in Seq(Account) /\ Len(channel) <= ChanCap
  /\ closed \in BOOLEAN /\ cancelled \in BOOLEAN
  /\ pc \in Ended \cup Batching \cup {"load", "stream", "tier"}
  /\ buckets \in [Tiers -> Seq(Account)]
  /\ tier \in Tiers \cup {NoTier}
  /\ pc \in Batching => tier \in Tiers
  /\ queue \in Seq(Account) /\ padding \in Nat
  /\ tree \in Trees /\ disk \in Trees /\ cex \in Totals
  /\ table \in Seq(Row)
  /\ pc \in Built => wit \in Row
  /\ height \in Nat /\ run \in Nat /\ crashes \in Nat /\ faults \in Nat

(* The rows of the table form one chain: each batch starts from the root   *)
(* and the totals its predecessor ended with, and the first from nothing,  *)
(* also after a death and a rerun over a redis tree.                       *)
RowsChain ==
  \A h \in 1 .. Len(table) :
    IF h = 1
      THEN table[h].before = EmptyTree /\ table[h].cexBefore = Zero
      ELSE /\ table[h].before = table[h - 1].after
           /\ table[h].cexBefore = table[h - 1].cexAfter

(* The table never mixes the rows of two runs: a run that finds rows is    *)
(* stopped by the unique Height at its first batch.                        *)
OneRunPerTable ==
  \A g, h \in 1 .. Len(table) : table[g].run = table[h].run

(* What the two properties above rest on: where the run is the table's     *)
(* tip, what it will build on is what the last row ended with, and a run   *)
(* that is behind the table never gets past its first INSERT.              *)
AtTip(root, totals) ==
  IF table = <<>>
    THEN root = EmptyTree /\ totals = Zero
    ELSE LET last == table[Len(table)]
         IN  last.after = root /\ last.cexAfter = totals /\ last.run = run

ChainInv ==
  /\ TypeOK /\ RowsChain /\ OneRunPerTable
  /\ table = <<>> => disk = EmptyTree
  /\ height <= Len(table)
  /\ pc = "build" => /\ Len(wit.ops) <= UsersPerBatch[tier]
                     /\ Len(queue) >= UsersPerBatch[tier] - Len(wit.ops)
  /\ pc = "commit" => height = Len(table) - 1 /\ AtTip(tree, cex)
  /\ pc \in {"load", "stream", "tier", "batch", "done"} /\ height = Len(table)
       => AtTip(tree, cex)
  /\ pc \in {"build", "create"} /\ height = Len(table)
       => AtTip(wit.before, wit.cexBefore) /\ wit.run = run
  /\ pc = "create" => wit.after = tree /\ wit.cexAfter = cex

(* Every batch fills empty leaves only, as the circuit demands of it:      *)
(* padding never takes the leaf of an account, nor the other way round.    *)
LeavesWereEmpty ==
  \A h \in 1 .. Len(table) :
    \A i \in DOMAIN table[h].ops : table[h].ops[i].fresh

(* The prover sizes a batch by its first user (circuit/witness.go:39-43)   *)
(* and expects tiers in ascending order (pkg/prover/dispatch.go:35-37).    *)
BatchesFitTheirTier ==
  \A h \in 1 .. Len(table) :
    LET ops == table[h].ops IN
      /\ Len(ops) = UsersPerBatch[table[h].tier]
      /\ ops[1].id # PaddingId
      /\ \A i \in DOMAIN ops :
           ops[i].id # PaddingId => PickAssetCountTier(ops[i].count) = {table[h].tier}
      /\ \A g \in 1 .. h : table[g].tier <= table[h].tier

(* The total of a list of accounts, for one asset and column. *)
TotalOf(accounts, a, c) == SumFunction([i \in DOMAIN accounts |-> accounts[i].bal[a][c]])

(* A run that reports success has put every account it was sent into       *)
(* exactly one batch and chained up to the exact totals of those accounts, *)
(* which is the whole snapshot unless the context was cancelled.           *)
DoneIsComplete ==
  pc = "done" =>
    LET mine == {h \in 1 .. Len(table) : table[h].run = run}
        placed == UNION {{h} \X DOMAIN table[h].ops : h \in mine}
        seen(id) == {hi \in placed : table[hi[1]].ops[hi[2]].id = id}
    IN  /\ sent < Len(snapshot) => cancelled
        /\ \A i \in DOMAIN snapshot :
             Cardinality(seen(snapshot[i].id)) = IF i <= sent THEN 1 ELSE 0
        /\ \A a \in Assets, c \in Columns :
             cex[a][c] = TotalOf(SubSeq(snapshot, 1, sent), a, c)
        /\ mine # {} => mine = 1 .. Len(table) /\ table[Len(table)].cexAfter = cex

(* What the three properties above rest on, for snapshots that are densely *)
(* indexed: every account sent is in the channel, in a bucket, in the      *)
(* queue of the tier being written, or placed in a leaf that was empty and *)
(* in one row, and padding takes the leaves behind.                        *)
Alive == pc \notin {"failed", "crashed"}
Received == sent - Len(channel)
Early == {"load", "stream"}

StreamSoFar ==
  /\ Received >= 0 /\ \A k \in DOMAIN channel : channel[k] = snapshot[Received + k]
  /\ closed => sent = Len(snapshot) \/ cancelled
  /\ pc \in Early => tier = NoTier /\ queue = <<>> /\ padding = 0 /\ height = 0 /\ cex = Zero
  /\ pc \notin Early => channel = <<>> /\ closed /\ sent <= padding

BucketsSoFar ==
  /\ \A t \in Tiers : \A j \in DOMAIN buckets[t] :
       LET account == buckets[t][j] IN
       /\ account.index < Received /\ account = snapshot[account.index + 1]
       /\ TierOf(account) = {t}
       /\ \A l \in DOMAIN buckets[t] : buckets[t][l].index = account.index => l = j
  /\ \A x \in 0 .. (Received - 1) : \E t \in Tiers :
       TierOf(snapshot[x + 1]) = {t} /\ \E j \in DOMAIN buckets[t] : buckets[t][j].index = x

QueueSoFar ==
  /\ \A k \in DOMAIN queue :
       /\ IF queue[k].id = PaddingId
            THEN /\ sent <= queue[k].index /\ queue[k].index < padding
                 /\ queue[k].bal = Zero /\ Len(queue) - k < UsersPerBatch[tier] - 1
            ELSE /\ queue[k].index < sent /\ queue[k] = snapshot[queue[k].index + 1]
                 /\ TierOf(queue[k]) = {tier}
       /\ \A l \in DOMAIN queue : queue[l].index = queue[k].index => l = k
  /\ pc \in {"tier", "done"} => queue = <<>>
  /\ pc = "done" => NextTiers = {}
  /\ pc = "batch" => Len(queue) % UsersPerBatch[tier] = 0
  /\ pc \in Built => (Len(queue) + Len(wit.ops)) % UsersPerBatch[tier] = 0
  /\ pc \in {"create", "commit"} => Len(wit.ops) = UsersPerBatch[tier]

\* leaves given out so far, whether their account is placed yet or not
Later(x) == x < sent /\ \E t \in TierOf(snapshot[x + 1]) : t > tier
Queued(x) == \E k \in DOMAIN queue : queue[k].index = x
Taken == {x \in 0 .. (padding - 1) : ~Later(x) /\ ~Queued(x)}

\* the run is where the table is, not behind the rows of another
Leading == height = Len(table) \/ pc = "commit"

\* the rows of the table and the one being built
Rows == IF pc \in {"build", "create"} THEN Append(table, wit) ELSE table
Placed == UNION {{[row |-> h, at |-> k, op |-> Rows[h].ops[k]] : k \in DOMAIN Rows[h].ops} :
                   h \in DOMAIN Rows}

PlacesSoFar ==
  /\ \A a \in Assets, c \in Columns :
       cex[a][c] = SumFunctionOnSet([i \in DOMAIN snapshot |-> snapshot[i].bal[a][c]],
                                    {i \in 1 .. sent : i - 1 \in Taken})
  /\ Leading =>
       /\ \A x \in 0 .. (Slots - 1) : x \notin Taken => tree[x] = EmptyLeaf
       /\ \A p \in Placed :
            /\ p.op.fresh /\ p.op.index \in Taken
            /\ IF p.op.id = PaddingId THEN sent <= p.op.index
               ELSE p.op.index < sent /\ p.op.id = snapshot[p.op.index + 1].id
       /\ \A p, q \in Placed : p.op.index = q.op.index => p = q
       /\ Taken \subseteq {p.op.index : p \in Placed}
       /\ table # <<>> => table[Len(table)].run = run /\ table[Len(table)].tier <= tier
  /\ ~Leading =>
       /\ height = 0 /\ \A h \in DOMAIN table : table[h].run < run
       /\ pc \in {"tier", "done"} => tier = NoTier
       /\ pc = "batch" => queue # <<>>

\* the batch being built
BatchSoFar ==
  pc \in Built =>
    /\ wit.tier = tier
    /\ wit.ops # <<>> => wit.ops[1].id # PaddingId
    /\ \A i \in DOMAIN wit.ops :
         wit.ops[i].id # PaddingId => PickAssetCountTier(wit.ops[i].count) = {tier}

\* what holds of the rows, whatever became of the run
RowsSoFar ==
  /\ LeavesWereEmpty /\ BatchesFitTheirTier
  /\ \A h \in DOMAIN table : table[h].run <= run

PlacesInv ==
  /\ ChainInv /\ RowsSoFar /\ snapshot \in Snapshots
  /\ Alive => StreamSoFar /\ BucketsSoFar /\ QueueSoFar /\ PlacesSoFar /\ BatchSoFar

(* A run fills the leaves that the user proof service fills when it builds *)
(* the tree again in one go (padding included), as far as it gets: what it *)
(* leaves in redis is whole batches of them, and what it ends with is all. *)
StoredTreeIsOneRun ==
  /\ \E n \in 0 .. Len(snapshot) : disk \in Committed(SubSeq(snapshot, 1, n))
  /\ pc = "done" /\ sent > 0 =>
       tree = Filled(EmptyTree, Padded(SubSeq(snapshot, 1, sent)))

(* A cancelled context aborts the stream and surfaces as an error          *)
(* (pkg/witness/witness.go:113-115): a run cut short is never a success.   *)
CancelSurfaces == pc = "done" => sent = Len(snapshot)

(* Whatever happens the service ends: the runner and its producer never    *)
(* wait on each other.                                                     *)
Ends == []<>(pc \in Ended)
==============================================================================
