# zk-pos-ext in TLA+

TLA+ models, TLC runs and TLAPS proofs for the proof-of-solvency pipeline of
this repository. An exchange publishes per-asset totals; the pipeline proves in
zero knowledge that they are the sums over all customers, in batches that chain
from an empty account tree to the published totals.

## The system

| Component | State it keeps | Operations | Interacts with |
|---|---|---|---|
| Snapshot parsers `core/snapshot` | asset table, account groups, keys seen | read rows, validate, group, sort, place; `AccountStream` (a goroutine and a bounded channel) | witness, userproof and attest services |
| Witness service `pkg/witness`, `core/solvency/*/host` | tiers, running totals, account tree, height | stream, bucket, pad, build batch, insert row, commit tree | parser (channel), tree (memory or redis), witness table |
| Witness queue `store/witness.go` | rows `Height, Status` | `Create`, `ClaimOldestByStatus`, `MarkStatus` | written by the witness service, claimed by provers |
| Provers `pkg/prover` | claimed row, context | poll, claim, probe, prove, write, mark, back off | queue and proof table; each other through row locks |
| Prover key cache `pkg/prover/dispatch.go`, `load.go` | the three keys of one shape | load, try, go on to the next shape | key directory |
| Key generation `pkg/keygen` | the key directory | per shape: compile, set up, write three files | provers, verifier (files) |
| Proof table `store/proof.go` | rows by unique `BatchNumber` | `Create`, `GetByBatchNumber`, `ListAllInOrder` | provers and verifier |
| Verifier `pkg/verifier` | rows by batch number, worker ranges, cached keys | load, verify in a pool, walk the chain | proof table or CSV, keys, published totals |
| User proofs `pkg/userproof` | tree, chunk of rows | second pass, rebuild tree, write rows; check one inclusion | parser, redis tree, user-proof table |
| Merkle sum reserves `core/sumtree`, `pkg/merklepor` | sum tree, chunk of rows | reconcile, build, prove, audit | parser, attest table |
| Haircut policy `core/tierpolicy` | tier curve | load, build, commit, verify | T3 and T4 hosts and circuits |
| Circuits `core/solvency/*/circuit` | none | the constraints of one batch | prover, verifier |
| Profile, registries, estimation, test data | none at run time | configuration and tools | all |

What is hard about each is in `PROJECT.json` under `hazards`, at the line where
it bites, with the properties that answer it. In short: provers race on one
table with transactions whose answer may be lost; any process may die between
two writes and be started again over what it left; a stream may be cut short and
looks like one that has ended; files are replaced while they are read; files of
rows contradict themselves; the verifier's workers race each other; the same
data is padded, ordered and packed independently in three places (host, prover,
circuit); and there is arithmetic at every boundary.

## The modules

**`ProverQueue`** is the witness table, the proof table and any number of prover
processes. One action is one database transaction or one piece of local work
between two: `SelectOldest` is the locking SELECT of a claim (it may lock rows it
only scanned), `ClaimCommit` its conditional UPDATE and COMMIT, `ClaimFails` an
error that may hide a transaction that was applied. `Probe`, `ProveBatch`,
`CreateProof` and `MarkFinished` are `proveOne`; `ProveOneFails` is an error at
any of them, applied or not. `Signal`, `Crash`, `Restart` and `Operator` are the
environment. `pc` holds the place in `Run`; how `Run` returned is a value of it.

The operator has two ways to repair a queue, both with the provers down.
`RerunLatest` makes the calls of the rerun that `store/witness.go:161-163` speaks
of and that is not in the repository: the latest Received row is marked Published.
`DeleteProofs` and `RequeueAll` are the two statements of
`docs/R13_GPU_RUNBOOK.md:91` and `tools/sweep/calibration_sweep.sh:65-67`, `DELETE
FROM proof; UPDATE witness SET status=0;`. They share no transaction, so
`ResetStops` may cut them apart; `dropped` remembers the Finished rows whose proofs
are gone. The scripts that empty both tables (`scripts/smoke.sh:275-277`,
`calibration_sweep.sh:55`) start from `Init`.

**`BatchLedger`** says what queue and table promise together: a batch is queued,
taken by one worker, proved by that worker, or orphaned until an operator puts it
back (`Requeue`). A proved batch stays proved until an operator throws every proof
away (`Discard`), which leaves each of them queued, if its row had been put back
before, or orphaned; and nobody works on a batch at that moment. `ProverQueue`
implements it under `LedgerOf`, `TakerOf`.

**`KeyStore`** is the key directory between keygen and a prover. `Setup`,
`CreateFile` and `WriteFile` walk the shapes and their three files, `StopKeygen`
is a death, an error or a cancelled context at any of them, `StartKeygen` a rerun
over what is there. `Claim`, `ReadFile`, `ReadFails` and `Try` are
`dispatchDecodeAndProve` and `loadSnarkParams` for a batch of any shape. A setup is
a number; keys of one setup work with each other only. A file that is being
written is missing, whole or `Torn` to its reader. The two programs read their
own copy of the profile, so their shapes may differ. An attempt of `DecodeAndProve`
succeeds (`Proves`) when the row is not `flawed` (it decodes and satisfies its
circuit), no call of the attempt breaks, and the keys are `Usable`; `Try` does not
look at which of these failed and goes on to the next shape, as the code does.

**`AccountTree`** is what witness and userproof service have in common: the tier
of an account, the padding of a tier, the leaves. **`WitnessRun`** is one witness
process after another over the same files, table and tree database. `Send` and
`Close` are the parser's goroutine, the rest follows `RunWitness`: `Bucket`,
`EndOfStream`, `StartTier` (with the padding), `StartBatch`, `AddUser`, `EndBatch`,
`CreateRow`, `CommitTree`. The four solvency models differ here in the columns
they add up per asset; that set is a constant.

**`EvidenceRun`** is userproof and attest: `Load`, `Stream`, `Populate` and
`CommitTree`, or `Reconcile`, then `AddRow` and `Flush` in chunks; `Interrupt`,
`Cancel` and `Rerun` are the environment. It starts over any tree a whole
witness run may have left in redis (`Init`: `Committed`), which is what
`StoredTreeIsOneRun` of `WitnessRun` states: that property is the contract
between the two. **`Merkle`** holds the trees of pairs and of sums, and walks
their paths the way the verifiers of `core/sumtree` and of the account tree do.
What the code does in loops (levels, tiers, padding, leaves) is a recursive
function in these two modules, so that it can be reasoned about.

**`Snapshot`** reads `cex_assets.csv` and `accounts.csv` row by row as each of the
four parsers does: `T1LoadAsset`..`T4LoadAsset`, `T1AddRow`..`T4AddRow` and
`T1Finish`..`T4Finish`, over the reader that refuses a primary key it has seen as
text. A row carries decoded values and the spelling of its key, because reader
and parser disagree about when two keys are the same. **`BatchWitness`** follows
what is delivered through the rest of the program, as operators over the states
of `Snapshot`: tiers and padding, the host's leaf and totals commitments, the
batch, then the prover's own decoding and padding (`T1CircuitWitness`..
`T4CircuitWitness`), and the circuit's own derivation of the same commitments. A
commitment is the list of field elements it hashes, a field element the list of
the numbers packed into it.

**`CircuitRules`** states the constraints of the four `Define` functions, one
operator per part and model. **`BatchCircuit`** is a chain of batches whose
witnesses are anything that meets those constraints, honest or not. `BatchWitness`
uses the same operators from the other side: what the witness service makes
meets them.

**`TierCurve`** is the haircut curve of one asset and pool of T3 or T4: `ReadTier`
and `EndOfFile` are `loadTierRatios`, `BuildTier` one turn of `BuildTierCurve`,
`Compare` is `validateTierPrecomputed`, `PadRatios` the padding to the circuit's
slots. `HaircutValue` is the credit the host adds up, `CircuitValues` what
`getAndCheckTierRatiosQueryResults` lets through for the tier `pickTier` claims,
over the column `CircuitPrecomp` the circuit derives on its own. Unused slots end at
`MaxBoundary`, the code's 2^118; a value may lie past it, where T4 keeps the last
cumulative value and T3, whose padding is zero, credits nothing. A price times an
amount is one value, and the assets and pools of a file are independent curves.

**`ChainVerifier`** is `RunBatch`: `Index` places each row at its number, `Loaded`
starts the pool, `VerifyRow(w)` and `KeyFails(w)` are one row of one worker with
its cached key, `Join` is `wg.Wait`, `Link` and `Conclude` are `chainCheck`. A row
is `intact` when it decodes and its commitment is the hash of its roots and
totals; `made` is the tier whose circuit its proof satisfies. A row of the store
whose JSON does not decode is refused when it is loaded rather than when it is
verified: the same verdict, modelled at the later place.

`MC*` modules give the constants of the module they extend values TLC can
enumerate; the others are plain enough for their configurations. `*_proofs` hold
the theorems. Definitions whose comment begins with "mutant" are wrong variants of
the definition after them or named in them. No specification uses them: each
stands for a bug that the property it is listed with must notice.

How the modules compose: `WitnessRun` and `EvidenceRun` extend `AccountTree`,
`EvidenceRun` also `Merkle`; `BatchCircuit` and `Snapshot` extend `CircuitRules`,
`BatchWitness` extends `Snapshot`; `ProverQueue` instantiates `BatchLedger`. What
one service leaves for the next is a contract: rows that chain (`RowsChain` of
`WitnessRun`, the links `ChainVerifier` walks), batches that meet the constraints
(`DeliveredIsProvable`), a tree of one whole run (`StoredTreeIsOneRun`), and a
proof row per finished batch, unless a reset was cut short (`FinishedIsProved` in
`IInv` of `ProverQueue`).

## What the runs check

| Run | Instance | What it shows |
|---|---|---|
| `ProverQueue` | 2 provers, 3 batches, 1 death, 1 failed or unanswered call, 1 rerun or reset, whole or cut in two, signals at any time; fair | no batch worked on twice, or proved while it has a proof, claims isolated, a signal leaves no claim behind, the inductive invariant, the refinement of `BatchLedger`; a published batch is claimed, and finished unless every prover has exited or something failed |
| `ProverQueue_retry` | 2 provers, 2 batches, 1 death, supervised restarts | violated: a received batch is finished in the end |
| `KeyStore` | profiles of two and three shapes (and two refused ones), 4 setups, 2 batches, flawed or not, calls that break | a finished keygen leaves usable keys, a batch is refused only after every shape, and with a reason at its own; no proof of two setups is published |
| `WitnessRun` | up to 3 accounts, 2 assets, 2 tiers, 2 users per batch, redis and memory tree, cancellation, 1 death, 1 failed call, reruns; fair | rows chain, one run per table, leaves were empty, batches fit, success is complete, the stored tree is one run's, nobody blocks |
| `WitnessRun_truncated` | cancellation | violated: a run cut short reports an error |
| `EvidenceRun` | 6 snapshots of up to 4 accounts, both services, 3 runs, 2 deaths or failed calls, cancellation, chunks of 2 | every row verifies, success means everyone has a row, whole runs agree with the witness service on the root, one attested total |
| `Snapshot` | the four parsers, every order of up to 2 asset rows and 4 account rows out of 7 and 10 | accounts hold what their rows say, a stated index survives, the policy committed to is the table's, every batch of regular accounts meets the circuit |
| `Snapshot_index` | the same | violated: derived indices are dense |
| `BatchCircuit` | the four models, shapes of 1 and 2 assets per user, 2 leaves, 6 kinds of entries, a field of 13 | what proves adds up to the totals, is solvent, and is never written over |
| `TierCurve_load` | T3 and T4, every column of up to 2 tiers and one row too many, 2 slots, values to 3 past `MaxBoundary` | exactly the well-formed curves load; credit is bounded, and monotone but for T3's drop past `MaxBoundary`; host and circuit agree up to it |
| `TierCurve_division` | T3 and T4 | violated: the circuit's quotient is unique |
| `ChainVerifier` | every file of up to 3 rows in any order with at most 1 damaged row, 2 and 4 workers; fair | accepted exactly when it proves the totals; errors are real; ranges partition; termination |

Bounds. Two provers and three batches let one hold a claim while the other scans
past it and a third waits. One death, one failed call and one reset give every
order of a failure and a repair; more repeat them. Three accounts fill one tier
and half of another, leave a batch to be padded, or run past the tree; four rows
of evidence are two chunks. Three proof rows have a first, an inner and a last
link, and four workers leave one range short or empty. The rows of `Snapshot`
differ in what a parser looks at: a slot twice under one spelling and under two, a
slot out of range, a haircut above one, an index omitted, stated and contradicted,
an insolvent account, a row of zeros, a malformed row; together they reach both
tiers, a second batch, padding, and totals that overflow. `BatchCircuit` offers
two solvent and one insolvent user, minus one in the field, and more pledged than
held; a field of 13 is larger than a sum in range and small enough to wrap around.
The curves have boundaries at zero, in the middle, at the largest value and past
it, ratios that round, are whole and are out of range, and every value up to three
past the largest is evaluated (`MaxValue`). Four setups are two whole runs over two shapes, or
an interrupted one, a rerun and one more to overtake the prover.

Deadlock is checked for `ProverQueue` and `ChainVerifier`. The other systems
really stop: a service that has ended, a file that has been read, a tree that is
full.

Fairness. `ProverQueue` assumes that the witness service publishes and that a live
prover takes its next step (`WF` of `Publish`, and of `Step` per prover): they are
loops without locks of their own, and a row lock ends with its transaction. Only
`SupervisedSpec`, of the violated run, also restarts provers. `WitnessRun` assumes
that the Go scheduler runs both goroutines of a live process, `ChainVerifier` that
it runs the pool and its caller. No fairness is assumed of signals, deaths,
failures, operators or cancellations. The other modules check no liveness.

## Four disagreements with the documentation

* `pkg/prover/prove.go:27-31` promises that a crashed retry re-claims its batch.
  `ClaimOldestByStatus` takes Published rows only, so a Received row whose prover
  died stays Received until an operator puts it back (run `ProverQueue_retry`).
* `pkg/witness/witness.go:113-115` promises that a cancelled context surfaces as an
  error. The parser's goroutine closes its channel on cancellation, which the
  runner takes for the end of the snapshot: it publishes batches of the accounts
  it has seen and returns nil (run `WitnessRun_truncated`). The verifier's final
  comparison with the published totals then refuses those batches. The comment at
  `pkg/userproof/userproof.go:115-118` promises the same of user proofs, and the
  same happens.
* `core/circuit/arithmetic.go:25-27` says that the circuit asserts remainder <
  divisor. The code asserts remainder <= divisor, so that an exact multiple also
  satisfies the constraints with the quotient one lower (run
  `TierCurve_division`). The hint returns the floor, and nothing the host computes
  depends on the other quotient.
* `core/snapshot/t2_static_haircut_margin/standard_schema.go:24` calls the derived
  account index dense, in the order of valid accounts. T2, T3 and T4 number all
  ids they meet and leave insolvent accounts out afterwards, so the indices have
  gaps (run `Snapshot_index`).

Smaller observations the models rest on: T2 and T3 ignore `account_index`; T1
delivers insolvent accounts (its circuit then has no proof for them), T4 drops
them without counting them as invalid; T2 and T3 do not sort an account's assets.
A pair of account and asset spelled in two ways is kept twice (`Regular` excludes
such accounts from `DeliveredIsProvable`). The circuits check that the sums of an
account fit 128 bits and that its pools are on their curves; the host computes the
sums without a limit, and past the end of a short curve T4 keeps the last credit
while T3 drops it to zero (`haircutValue` and `padRatios`). An
account beyond either is streamed, has a row in the queue with the rest of its batch,
and no proof (`Regular` excludes those as well). After an interrupted or truncated run
the user-proof table may hold rows of two roots, each of which verifies; the
attest table cannot (`AttestedTotal`). With nothing cached, a prover loads the
first shape whatever the batch, and fails when that shape's keys are missing. A
batch that cannot be proved takes it through the keys of every shape, and the error
it ends with is that of the first attempt. A reset that is cut after its DELETE
leaves Finished rows without a proof, which no prover claims; the two statements in
the other order would leave rows that are merely marked again.

## What is proved

TLAPS checks every theorem for all values of the constants, from the named
assumptions on the constants and, where a theorem states one, a hypothesis on them.
Each type invariant is a part of the inductive invariant of its module.

* `SumLemmas`: what the other proofs need of induction, recursion and sums. The
  library's induction theorems take an operator as a parameter, which the installed
  provers cannot instantiate; stated with a set of numbers, or of finite sets, in
  place of the operator (a set that holds 0 and is closed under successor holds
  every number), induction is first-order. From it: a recursion along the naturals
  or along 0..n has a solution; and of the sum over a finite set, that it is a
  natural, that any element can be taken out first or added, that it depends only
  on the values over the set, not on the order or the names of the elements, that
  zeros add nothing, and that summing pairs first gives the same.
* `ProverQueue_proofs`: `InductiveInvariant` proves `IInv`. Exclusive claims are not
  inductive: a claim is exclusive because a worker's row is Received and a claim
  takes a Published row, and neither a rerun nor a reset breaks it because all
  provers are down, until both statements are made or given up. From `IInv` follow `ClaimsAreExclusive`, `ProofsAreUnique`,
  `FinishedHasProof`, `ClaimsAreIsolated` and `StoppingIsGraceful`.
  `QueueImplementsLedger` is the refinement: each action maps to a step of
  `BatchLedger` or a stutter, under `IInv`. The operator's steps map too: a rerun and
  the UPDATE of a reset to `Requeue`, the DELETE to `Discard`, of the batches whose
  row had already been put back.
* `ProverQueue_proofs`, on the prover's keys: `KeysAreKept` proves `KeyInv`: the
  files behind keygen's place are whole and of one setup, so a run that reaches the
  end leaves usable keys whatever came before; the shapes before the loop's place
  have been tried, whatever each attempt failed of, which gives
  `NoBatchIsRefusedUntried` when nothing remains (no attempt on it was a success, so
  the one at its own shape had a reason); the
  cached verifying key is no newer than the directory's, because the setup of a file
  only grows, which gives `PublishedProofsVerify`. The three are proved together.
* `AccountTree_proofs` holds the lemmas about accounts and leaves that the next two
  modules share, for any snapshot. The walk by tiers lists each account once
  (`WrittenIs`); the padded tiers fill the indices from the number of accounts on,
  each once (`AllFilled`), so that every account keeps its leaf; the first m accounts,
  padded, end no later than all of them do (`PrefixEnds`). And one step at a time:
  one account more goes to the end of its tier's bucket (`ByTierAppend`), a tier is
  whole batches laid out behind the tiers before it (`WholeTier`, `WithTierLeaves`),
  tiers without accounts lay out nothing (`EmptyTiers`), and leaves that end with a
  whole batch make a tree that is committed (`WholeBatches`).
* `WitnessRun_proofs`: `WitnessInvariant` proves `ChainInv`: where a run stands at the
  table's tip, what it builds on is what the last row ended with, and a run
  behind the tip never gets past its first INSERT. `RowsAlwaysChain` and
  `TableHasOneRun` follow. `PlacesInvariant` proves `PlacesInv` on top of it, for
  snapshots whose indices are dense: the accounts still queued are those of the
  tiers and places not reached, in order of their tier; the accounts written are
  those before the run's place, each at its own index; and padding takes the
  indices from the number of accounts on, which no account has. From it follow
  `LeavesEmpty` (no write meets an occupied leaf), `BatchesFit` (a batch holds its
  tier's accounts only, and fills the tier's shape) and `Complete` (a run that
  reports success has written every account). `FillInvariant` proves `FillInv`, which
  needs no dense indices: the buckets are those `ByTier` makes of the accounts
  received; what is laid out up to the tier being written ends with the queue, whose
  accounts go to the leaves that remain; the tree is filled with the leaves before
  them; and the leaves of the open batch are all of the tier. A run behind the rows
  of another has no such tree, and never commits. `StoredTree` follows: it says what
  stays in redis whenever the process dies.
* `EvidenceRun_proofs`: further lemmas are about trees and lists, for any height and
  any snapshot. `PathVerifies`: the siblings of every leaf lead to the root, in both
  trees. `LevelSums`: every level of a sum tree adds up to what its leaves do. With
  `PrefixEnds`, what a run cut short has left on disk is overwritten by a whole one
  (`FilledAnew`). `EvidenceInvariant` proves `Inv`
  from them. The properties are not inductive: that a row verifies needs which tree
  the run holds when it writes (`TreeInv`), that nothing was ever set behind the end
  of the walk (`TypeInv`), and that the chunk waiting for its INSERT holds the rows
  before `next` (`BatchInv`); that an attest table has one root needs that every
  nonempty one has the row of index 0, which the first chunk of another run meets
  (`TableInv`). `RowsVerified`, `WholeRunsAgreed`, `EveryoneListed` and
  `TotalAttested` follow, the last from `LevelSums` and from a sum not depending on
  the order of the walk.
* `Snapshot_proofs`: `SnapshotInvariant` proves `SnapshotInv` (which keys have been
  seen, what a group holds of an index), from which `IndexStated` and
  `PolicyCommitted` follow, for every file. `RowsInvariant` proves `RowsInv`, from
  which `Rows` follows: every row of the file ends as one delivered entry or one
  counted refusal.
* `Snapshot_proofs`, on the batches: `Delivered` proves `DeliveredIsProvable`, from the
  rows of the file to the constraints of the circuit. `SoundInvariant` carries what
  the parsers establish to the accounts they deliver: each has the sums of what it
  lists and backs what it pledges, row by row (`SummingGrows`), and sorting loses
  nothing (`SortedSums`). The rest is about one batch. Host and prover pad an
  account in different orders of doing things; both are shown to give an ascending
  list of as many slots as the tier has with the account's own among them
  (`PaddedIs`), and the prover starts from the same ascending list (`AscendingIs`),
  whose length is the tier of every user of the batch (`FirstFits`). Sums over the
  assets are those over the slots of the leaf, empty ones included (`SumsMeet`), so
  the user meets its constraints (`UserMeets`) and hashes to the leaf of the host
  (`LeafMeets`). The circuit's totals are the host's as long as those fit 64 bits
  (`TotalsAgree`), which the host has checked, and both pack them alike, slot by slot
  in `BySlot`, place by place in the circuit. A batch is real accounts of one tier,
  padded by less than a batch, so that its first user is a real one (`BatchesAre`,
  `BatchIsProvable`), and the run is followed batch by batch (`WitnessesAre`).
* `ChainVerifier_proofs`, on the constraints (`CircuitSpec`): `CountedIsHeld` shows
  for any witness that meets the constraints that its contributions vanish outside the
  slots its leaf lists, from the increasing order of the slots. `LeafInvariant`,
  `Solvent` and `Final` carry what one user's constraints say to every leaf of every
  chain. `TotalsInvariant` and `Totals` sum them: the totals a chain of proofs commits
  to are the sums over its leaves. The constraints add in the field, so this takes the
  assumption that one batch cannot wrap around, (users + 1) * MaxValue < Modulus; the
  code's largest shape has 700 users of 64-bit values under a modulus of 254 bits.
* `ChainVerifier_proofs`, on the verifier: `VerifierInvariant` proves `VerifierInv`
  (what the index loop, the pool and the walk have established so far), with
  `PoolCoversTable` from the arithmetic of the ranges. `VerifierIsSound` (accepted
  implies proved) counts rows: n rows whose numbers fill 0..n-1 have each number once.
  `VerifierIsComplete` is its converse.
* `TierCurve_proofs`: `CurveInvariant` proves `CurveInv`: the derived curve grows
  strictly and each cumulative value is the one below plus a rounded share, so it
  stays below its boundary. `CreditSound` is about every value, with one exception it
  states: past `MaxBoundary` a T3 curve that leaves slots free credits nothing
  (`OffTheEnd`, `PastTheBoundary`). Elsewhere it locates a value between two tiers and
  compares the shares; rounding down never overtakes the next tier because the
  cumulative value of a tier is rounded in the same way. `CircuitAgrees` shows
  that the circuit's recurrence has the authored column as its only solution (a
  least counterexample stands in for induction) and that the tier `pickTier`
  claims is always let through with the host's credit. `LoaderIsExact` compares the
  two passes over a curve with the definition of a well-formed one: the derived
  column is the reference sum, and a curve that either pass refuses lacks something.

One hypothesis is more than a constant's type. `DenselyIndexed` says that a snapshot
of n accounts lists them by number, 0..n-1, one account per number and per id.
`docs/04-solvency-models.md:353` demands this of a file, `account_index` of the
standard schemas carries it, and the parsers group rows by id. The code does not
enforce it, which is what `Snapshot_index` shows; `MCWitnessRun` and `MCEvidenceRun`
assume it of the snapshots of their runs, so that TLC evaluates it there. It is a
hypothesis of `PlacesInvariant` and what follows from it, and, in
`EvidenceRun_proofs`, of `RowsVerified` and `WholeRunsAgreed` only: two accounts of
one index share a leaf of the account tree, and one of their rows does not verify.

Only model-checked:
* liveness (`PublishedIsClaimed`, `PublishedIsFinished`, `Ends`, `Decides`): fairness
  and ENABLED are out of the prover's reach.

## Not modelled

* Cryptography: hash functions and commitments are injective, a Groth16 proof
  exists exactly for a witness that meets the constraints, and the random linear
  combination of a batch holds only when the two sides agree. The sparse Merkle
  tree's internals are an external library; it is modelled as the tree its paths
  are checked against.
* The tier index and flag of a collateral, and the quotients of divisions, are
  those of the witness builder and its hints; what the constraints let through for
  others is checked only for the quotient (`TierCurve_division`). How two tiers are
  packed into one field element is not modelled: a tier is one element of its
  curve's commitment.
* The modules that a deployment may hook into a circuit (`b.module`), and keygen's
  capacity override of the smoke harness.
* `RunAudit`, `RunUser`, `VerifyCommitment` and the services' `DumpUser` option (one
  row read by `GetByIndex`): checks and reads without a state of their own; what
  `RunUser` checks of a row is `RowsVerify`.
* `Touch`, `Latest` and schema migration of the store, and `csv.Stream`: nothing in
  the pipeline calls them, or they run once. Nothing calls `LatestByStatus` either;
  `RerunLatest` is the use its comment names. Provers started between the two
  statements of a reset are left out: the runbook starts them after both.
* Header lines and column mapping of the CSV files; the profile's TOML, the
  registries, the estimation and the test data generator, which keep no state while
  the services run. The shapes of a profile are a constant.
* `WitnessRun` and `EvidenceRun` take snapshots with dense indices, which
  `docs/04-solvency-models.md` demands of a file; what becomes of others is
  `Snapshot_index`.

## Where it can grow

1. `WitnessRun` over the accounts `Snapshot` delivers, gaps included, to follow a
   colliding padding account to the tree.
2. The queue, one prover's cache and the verifier in one module, so that a key
   directory rewritten between two batches meets the verifier's own keys.
3. Curves with more than one tier inside `CircuitRules`, in place of one ratio per
   pool.
