----------------------------- MODULE EvidenceRun -----------------------------
(***************************************************************************)
(* The two services that write one row of evidence per account: userproof  *)
(* (pkg/userproof, RunUserProof), which builds the account tree again and  *)
(* writes each account's inclusion proof, and attest (pkg/merklepor,       *)
(* RunAttest), which builds a Merkle sum tree over what is owed to each.   *)
(* Both read the snapshot a second time, keep rows back until a chunk is   *)
(* full, and insert them into a table with a unique index and a unique id. *)
(* They may be interrupted and started again over whatever is there: their *)
(* table, and for userproof the tree a witness run has left in redis.      *)
(***************************************************************************)
EXTENDS AccountTree, Merkle

CONSTANTS
  Depth,       \* of the account tree
  ChunkSize,   \* rows per INSERT
  Claims,      \* totals the exchange may have published
  MaxBalance,  \* the most one account may be owed
  MaxRuns, MaxFaults  \* bounds on runs and on deaths and failed calls

NoClaim == -1

ASSUME EvidenceAssumption ==
  /\ Depth \in Nat /\ Slots = Pow2[Depth] /\ ChunkSize \in Nat \ {0}
  /\ Claims \subseteq Nat \cup {NoClaim} /\ MaxBalance \in Nat
  /\ MaxRuns \in Nat /\ MaxFaults \in Nat

VARIABLES
  snapshot,   \* the accounts the files hold
  service,    \* "userproof" or "attest"
  claimed,    \* PublishedTotal, attest
  persistent, \* the account tree is kept in redis, userproof
  disk,       \* what redis holds
  pc,
  cancelled,  \* the context is cancelled
  accounts,   \* the accounts that came out of the stream
  tree,       \* the leaves of the tree built, from 0
  next,       \* the account to make a row for, in writing order
  batch,      \* rows not inserted yet
  table,      \* the rows of the table
  run, faults

given == <<snapshot, service, claimed, persistent>>
bounds == <<run, faults>>
vars == <<given, disk, pc, cancelled, accounts, tree, next, batch, table, bounds>>

Ended == {"done", "failed"}

-----------------------------------------------------------------------------
Total(account, column) == SumFunction([a \in Assets |-> account.bal[a][column]])

\* CollectSumLeaves: what an account is owed
Worth(account) == Total(account, "equity") - Total(account, "debt")

\* CheckSumEquality: what is owed to all of them, when nobody's is negative
TotalWorth(list) == SumFunction([i \in DOMAIN list |-> Worth(list[i])])

\* the accounts that get a row, in the order the rows are written
Listed == Written(accounts)

SumLeaf(account) == [hash |-> Leaf(account, NoTier), sum |-> Worth(account)]
PaddingSumLeaf == [hash |-> EmptyLeaf, sum |-> 0]

Summed == service = "attest"
TreeHeight == IF Summed THEN Height(Len(accounts)) ELSE Depth
TreeLevels == Levels(Summed, tree, TreeHeight)
Root == TreeLevels[TreeHeight][0]

\* BuildUserProofRow, and the row of buildAndPersist
Row(place) ==
  LET account == Listed[place]
      index == IF service = "attest" THEN place - 1 ELSE account.index
  IN  [index |-> index, id |-> account.id,
       leaf |-> IF service = "attest" THEN SumLeaf(account) ELSE Leaf(account, NoTier),
       proof |-> Siblings(TreeLevels, TreeHeight, index), root |-> Root]

Init ==
  /\ snapshot \in Snapshots /\ service \in {"userproof", "attest"}
  /\ claimed \in IF service = "attest" THEN Claims ELSE {NoClaim}
  /\ persistent \in IF service = "userproof" THEN BOOLEAN ELSE {FALSE}
  /\ disk \in IF persistent
                THEN UNION {Committed(SubSeq(snapshot, 1, n)) : n \in 0 .. Len(snapshot)}
                ELSE {EmptyTree}
  /\ pc = "load" /\ cancelled = FALSE
  /\ accounts = <<>> /\ tree = <<>> /\ next = 1 /\ batch = <<>> /\ table = {}
  /\ run = 1 /\ faults = 0

(* The parser looks at the context before every row. *)
Load ==
  /\ pc = "load"
  /\ pc' = IF cancelled THEN "failed" ELSE "stream"
  /\ UNCHANGED <<given, disk, cancelled, accounts, tree, next, batch, table, bounds>>

(* streamAndBucket: all of the snapshot, or, once the context is           *)
(* cancelled, as much as came through; attest has no tree of no accounts.  *)
Stream ==
  /\ pc = "stream"
  /\ \E n \in 0 .. Len(snapshot) :
       /\ n = Len(snapshot) \/ cancelled
       /\ accounts' = SubSeq(snapshot, 1, n)
  /\ pc' = IF \E i \in DOMAIN accounts' : TierOf(accounts'[i]) = {} THEN "failed"
           ELSE IF service = "userproof" THEN "populate"
           ELSE IF accounts' = <<>> THEN "failed" ELSE "reconcile"
  /\ UNCHANGED <<given, disk, cancelled, tree, next, batch, table, bounds>>

\* mutant: no leaves for the padding
PopulateReal ==
  /\ pc = "populate" /\ pc' = "commit"
  /\ tree' = Filled(IF persistent THEN disk ELSE EmptyTree,
                    SelectSeq(Padded(accounts), LAMBDA l : l.account.id # PaddingId))
  /\ UNCHANGED <<given, disk, cancelled, accounts, next, batch, table, bounds>>

(* PaddingAccounts and populateTree, over the tree as it was opened; Set   *)
(* panics on an index outside of it.                                       *)
Populate ==
  /\ pc = "populate"
  /\ IF \E i \in DOMAIN Padded(accounts) : Padded(accounts)[i].account.index >= Slots
       THEN pc' = "failed" /\ UNCHANGED tree
       ELSE /\ tree' = Filled(IF persistent THEN disk ELSE EmptyTree, Padded(accounts))
            /\ pc' = "commit"
  /\ UNCHANGED <<given, disk, cancelled, accounts, next, batch, table, bounds>>

CommitTree ==
  /\ pc = "commit"
  /\ disk' = IF persistent THEN tree ELSE disk
  /\ pc' = "write"
  /\ UNCHANGED <<given, cancelled, accounts, tree, next, batch, table, bounds>>

(* Reconcile: no negative balance, no account twice, none above the bound, *)
(* and the total that was published, if one was.                           *)
Sound(leaves) ==
  /\ \A i \in DOMAIN leaves : Worth(leaves[i]) \in 0 .. MaxBalance
  /\ \A i, j \in DOMAIN leaves : leaves[i].id = leaves[j].id => i = j
  /\ claimed \in {NoClaim, TotalWorth(leaves)}

(* Reconcile, then sumtree.Build. *)
Reconcile ==
  /\ pc = "reconcile"
  /\ IF Sound(Listed)
       THEN /\ tree' = [i \in 0 .. (Pow2[TreeHeight] - 1) |->
                          IF i < Len(Listed) THEN SumLeaf(Listed[i + 1]) ELSE PaddingSumLeaf]
            /\ pc' = "write"
       ELSE pc' = "failed" /\ UNCHANGED tree
  /\ UNCHANGED <<given, disk, cancelled, accounts, next, batch, table, bounds>>

AddRow ==
  /\ pc = "write" /\ next <= Len(Listed) /\ Len(batch) < ChunkSize
  /\ batch' = Append(batch, Row(next)) /\ next' = next + 1
  /\ UNCHANGED <<given, disk, pc, cancelled, accounts, tree, table, bounds>>

\* mutant: an id is unique, an index is not
CollidesById(rows) ==
  \/ \E i \in DOMAIN rows : \E row \in table : rows[i].id = row.id
  \/ \E i, j \in DOMAIN rows : i # j /\ rows[i].id = rows[j].id

\* the two unique indexes
Collides(rows) ==
  LET Same(r, s) == r.index = s.index \/ r.id = s.id
  IN  \/ \E i \in DOMAIN rows : \E row \in table : Same(rows[i], row)
      \/ \E i, j \in DOMAIN rows : i # j /\ Same(rows[i], rows[j])

Inserted(rows) == table' = table \cup {rows[i] : i \in DOMAIN rows}

\* mutant: only full chunks are written
FlushFull ==
  /\ pc = "write"
  /\ \/ /\ next > Len(Listed) /\ Len(batch) < ChunkSize
        /\ pc' = "done" /\ UNCHANGED <<batch, table>>
     \/ /\ Len(batch) = ChunkSize
        /\ IF Collides(batch)
             THEN pc' = "failed" /\ UNCHANGED <<batch, table>>
             ELSE Inserted(batch) /\ batch' = <<>> /\ UNCHANGED pc
  /\ UNCHANGED <<given, disk, cancelled, accounts, tree, next, bounds>>

(* One INSERT per chunk, all of it or nothing. *)
Flush ==
  /\ pc = "write"
  /\ \/ /\ next > Len(Listed) /\ batch = <<>>
        /\ pc' = "done" /\ UNCHANGED <<batch, table>>
     \/ /\ batch # <<>> /\ (Len(batch) = ChunkSize \/ next > Len(Listed))
        /\ IF Collides(batch)
             THEN pc' = "failed" /\ UNCHANGED <<batch, table>>
             ELSE Inserted(batch) /\ batch' = <<>> /\ UNCHANGED pc
  /\ UNCHANGED <<given, disk, cancelled, accounts, tree, next, bounds>>

(* The process dies or a call fails; a COMMIT of the tree or an INSERT may *)
(* have been applied all the same.                                         *)
Interrupt ==
  /\ pc \notin Ended /\ faults < MaxFaults
  /\ faults' = faults + 1 /\ pc' = "failed"
  /\ \/ UNCHANGED <<disk, table>>
     \/ pc = "commit" /\ persistent /\ disk' = tree /\ UNCHANGED table
     \/ /\ pc = "write" /\ batch # <<>> /\ (Len(batch) = ChunkSize \/ next > Len(Listed))
        /\ ~Collides(batch) /\ Inserted(batch) /\ UNCHANGED disk
  /\ UNCHANGED <<given, cancelled, accounts, tree, next, batch, run>>

Cancel ==
  /\ ~cancelled /\ pc \notin Ended
  /\ cancelled' = TRUE
  /\ UNCHANGED <<given, disk, pc, accounts, tree, next, batch, table, bounds>>

(* The service is started again, over the table and the tree as they are.  *)
Rerun ==
  /\ pc \in Ended /\ run < MaxRuns
  /\ run' = run + 1
  /\ pc' = "load" /\ cancelled' = FALSE
  /\ accounts' = <<>> /\ tree' = <<>> /\ next' = 1 /\ batch' = <<>>
  /\ UNCHANGED <<given, disk, table, faults>>

Next ==
  \/ Load \/ Stream \/ Populate \/ CommitTree \/ Reconcile \/ AddRow \/ Flush
  \/ Interrupt \/ Cancel \/ Rerun

Spec == Init /\ [][Next]_vars

-----------------------------------------------------------------------------
(* Properties *)

\* VerifyUserInclusion, and verifyUserConfig
Verifies(row) ==
  /\ service = "userproof" => Len(row.proof) = Depth
  /\ service = "attest" =>
       row.leaf.sum >= 0 /\ \A l \in DOMAIN row.proof : row.proof[l].sum >= 0
  /\ Walk(Summed, row.index, row.leaf, row.proof) = row.root

(* The evidence in a row stands by itself: whatever run wrote it, and      *)
(* whatever that run found in redis or in the table, the verifier of the   *)
(* service accepts it.                                                     *)
RowsVerify == \A row \in table : Verifies(row)

(* A run that reports success has written one row for every account it was *)
(* sent, against its own root, and no row of another run stands for any of *)
(* them: a rerun over a table that has some of the rows never succeeds.    *)
DoneHasEveryone ==
  pc = "done" =>
    \A i \in DOMAIN accounts :
      \E row \in table :
        {r \in table : r.id = accounts[i].id} = {row} /\ row.root = Root

(* A user proof run that read all of the snapshot states the root that the *)
(* chain of the witness service ends with, padding included, although the  *)
(* tree it opens may hold the leaves of runs that were cut short, of its   *)
(* own and of the witness service.                                         *)
WholeRunsAgree ==
  service = "userproof" /\ accounts = snapshot /\ pc \in {"commit", "write", "done"} =>
    tree = Filled(EmptyTree, Padded(snapshot))

(* The attest table has one root and one total, also after reruns, and     *)
(* when a run succeeds the total is what all its accounts are owed, none   *)
(* of them less than nothing, and what was published.                      *)
AttestedTotal ==
  service = "attest" =>
    /\ \A r, s \in table : r.root = s.root
    /\ pc = "done" =>
         /\ \A row \in table : row.leaf.sum \in 0 .. MaxBalance
         /\ Root.sum = TotalWorth(accounts)
         /\ {Root} = {row.root : row \in table}
         /\ claimed \in {NoClaim, Root.sum}
==============================================================================
