---------------------------- MODULE ChainVerifier ----------------------------
(***************************************************************************)
(* The batch mode of the verifier (pkg/verifier): the proof table is read  *)
(* and indexed by batch number, a pool of workers verifies contiguous      *)
(* ranges of it, each with its own cached verifying key, and once all have *)
(* joined the batches are walked in order, from the empty tree and zero    *)
(* totals to the published totals.  Workers and a cancellation interleave. *)
(* Roots and commitments are collision-free: they stand for what they      *)
(* commit to.                                                              *)
(***************************************************************************)
EXTENDS Integers, Sequences

CONSTANTS
  Files,         \* the proof files the verifier may be given, as sequences
  Stored,        \* and the proof tables of the database
  Roots, Cexs,   \* account tree roots and commitments of totals
  EmptyRoot, EmptyCex, PublishedCex,
  Tiers,         \* the asset-count tiers of the profile
  W,             \* how many workers the pool has
  MaxFaults      \* bound on verifying keys that fail to load

Point == [root : Roots, cex : Cexs]
NoTier == -1

\* intact: the row decodes and its commitment is the hash of its metadata;
\* made: the tier its proof was made for, NoTier if it proves something else
ProofRow == [num : Int, before : Point, after : Point, intact : BOOLEAN,
             tier : Nat, made : Nat \cup {NoTier}]

EmptyPoint == [root |-> EmptyRoot, cex |-> EmptyCex]

\* what an index nobody wrote holds: a row without a proof
ZeroRow == [num |-> 0, before |-> EmptyPoint, after |-> EmptyPoint,
            intact |-> FALSE, tier |-> 0, made |-> NoTier]

ASSUME TableAssumption == Files \subseteq Seq(ProofRow) /\ Stored \subseteq Seq(ProofRow)
ASSUME PointAssumption ==
  EmptyRoot \in Roots /\ EmptyCex \in Cexs /\ PublishedCex \in Cexs
ASSUME PoolAssumption ==
  /\ W \in Nat \ {0} /\ Tiers \subseteq Nat \ {NoTier}
  /\ MaxFaults \in Nat

Verdicts == {"accepted", "rejected", "panicked"}
Workers == 0 .. (W - 1)

VARIABLES
  table,      \* the rows as read
  fromStore,  \* they come from the database, not from a CSV file
  pc,         \* where RunBatch is
  rows,       \* the rows by batch number
  read,       \* how many rows have been indexed
  next,       \* per worker: the next row of its range
  vk,         \* per worker: the tier of the verifying key it holds
  stopped,    \* the workers that returned an error
  failed,     \* the first error recorded under the mutex
  at,         \* chain check: the next batch
  prev,       \* chain check: where the batch before it ended
  cancelled,  \* the context is cancelled
  faults

pool == <<next, vk, stopped, failed>>
walk == <<at, prev>>
index == <<rows, read>>
vars == <<table, fromStore, pc, index, pool, walk, cancelled, faults>>

-----------------------------------------------------------------------------
(* Helpers *)

Size == Len(table)

\* mutant of Average: rounded down, so the last rows belong to no worker
AverageFloor == Size \div W

\* verifyAllProofs: ranges of the same size, the last ones short or empty
Average == (Size + W - 1) \div W
Start(w) == w * Average
End(w) == IF (w + 1) * Average < Size THEN (w + 1) * Average ELSE Size

Done(w) == w \in stopped \/ next[w] >= End(w)

\* recordErr: the first error wins
Record(why) == failed' = IF failed = "none" THEN why ELSE failed

Stop(w, why) ==
  /\ Record(why)
  /\ stopped' = stopped \cup {w}
  /\ UNCHANGED next

-----------------------------------------------------------------------------
Init ==
  /\ \/ table \in Files /\ fromStore = FALSE
     \/ table \in Stored /\ fromStore = TRUE
  /\ pc = "load"
  /\ rows = [i \in 0 .. (Size - 1) |-> ZeroRow] /\ read = 0
  /\ next = [w \in Workers |-> 0] /\ vk = [w \in Workers |-> NoTier]
  /\ stopped = {} /\ failed = "none"
  /\ at = 0 /\ prev = EmptyPoint
  /\ cancelled = FALSE /\ faults = 0

(* out[row.BatchNumber] = row, one row: the last one written to an index   *)
(* stays; a number outside 0 .. n-1 is an error on the store's path and an *)
(* index out of range, so a panic, on the CSV's.                           *)
Index ==
  /\ pc = "load" /\ read < Size
  /\ LET r == table[read + 1] IN
       IF r.num \in 0 .. (Size - 1)
         THEN /\ rows' = [rows EXCEPT ![r.num] = r]
              /\ read' = read + 1
              /\ UNCHANGED pc
         ELSE /\ pc' = IF fromStore THEN "rejected" ELSE "panicked"
              /\ UNCHANGED index
  /\ UNCHANGED <<table, fromStore, pool, walk, cancelled, faults>>

(* An empty store is an error, an empty file is not.  The pool starts.     *)
Loaded ==
  /\ pc = "load" /\ read = Size
  /\ IF fromStore /\ Size = 0
       THEN pc' = "rejected" /\ UNCHANGED next
       ELSE pc' = "verify" /\ next' = [w \in Workers |-> Start(w)]
  /\ UNCHANGED <<table, fromStore, index, vk, stopped, failed, walk, cancelled, faults>>

\* mutant of VerifyRow: the first key a worker loads serves all of its rows
VerifyRowStaleKey(w) ==
  /\ pc = "verify" /\ ~Done(w)
  /\ LET r == rows[next[w]] IN
       \/ cancelled /\ Stop(w, "cancelled") /\ UNCHANGED vk
       \/ ~cancelled /\ ~r.intact /\ Stop(w, "row") /\ UNCHANGED vk
       \/ /\ ~cancelled /\ r.intact
          /\ vk' = [vk EXCEPT ![w] = IF @ = NoTier /\ r.tier \in Tiers THEN r.tier ELSE @]
          /\ IF r.made = vk'[w]
               THEN next' = [next EXCEPT ![w] = @ + 1] /\ UNCHANGED <<stopped, failed>>
               ELSE Stop(w, "row")
  /\ UNCHANGED <<table, fromStore, pc, index, walk, cancelled, faults>>

(* verifyProofRange, one row: context, decoding and public input, the key  *)
(* of the row's tier when it is not the one at hand, the proof.            *)
VerifyRow(w) ==
  /\ pc = "verify" /\ ~Done(w)
  /\ LET r == rows[next[w]] IN
       \/ /\ cancelled
          /\ Stop(w, "cancelled") /\ UNCHANGED vk
       \/ /\ ~cancelled /\ ~r.intact
          /\ Stop(w, "row") /\ UNCHANGED vk
       \/ /\ ~cancelled /\ r.intact /\ r.tier # vk[w] /\ r.tier \notin Tiers
          /\ Stop(w, "row") /\ UNCHANGED vk
       \/ /\ ~cancelled /\ r.intact /\ (r.tier = vk[w] \/ r.tier \in Tiers)
          /\ vk' = [vk EXCEPT ![w] = r.tier]
          /\ IF r.made = vk'[w]
               THEN /\ next' = [next EXCEPT ![w] = @ + 1]
                    /\ UNCHANGED <<stopped, failed>>
               ELSE Stop(w, "row")
  /\ UNCHANGED <<table, fromStore, pc, index, walk, cancelled, faults>>

(* The key of a new tier cannot be read. *)
KeyFails(w) ==
  /\ pc = "verify" /\ ~Done(w) /\ ~cancelled /\ faults < MaxFaults
  /\ LET r == rows[next[w]] IN r.intact /\ r.tier # vk[w] /\ r.tier \in Tiers
  /\ faults' = faults + 1
  /\ Stop(w, "key")
  /\ UNCHANGED <<table, fromStore, pc, index, vk, walk, cancelled>>

\* mutant of Join: it waits for one worker only
JoinFirst ==
  /\ pc = "verify" /\ \E w \in Workers : Done(w)
  /\ pc' = IF failed = "none" THEN "chain" ELSE "rejected"
  /\ UNCHANGED <<table, fromStore, index, pool, walk, cancelled, faults>>

\* mutant of Join: a worker without rows returns before it signs off
JoinBusy ==
  /\ pc = "verify" /\ \A w \in Workers : Done(w) /\ Start(w) < Size
  /\ pc' = IF failed = "none" THEN "chain" ELSE "rejected"
  /\ UNCHANGED <<table, fromStore, index, pool, walk, cancelled, faults>>

(* wg.Wait: every worker has returned. *)
Join ==
  /\ pc = "verify" /\ \A w \in Workers : Done(w)
  /\ pc' = IF failed = "none" THEN "chain" ELSE "rejected"
  /\ UNCHANGED <<table, fromStore, index, pool, walk, cancelled, faults>>

\* mutant of Link: only the roots are compared
LinkRoots ==
  /\ pc = "chain" /\ at < Size
  /\ IF rows[at].before.root = prev.root
       THEN at' = at + 1 /\ prev' = rows[at].after /\ UNCHANGED pc
       ELSE pc' = "rejected" /\ UNCHANGED walk
  /\ UNCHANGED <<table, fromStore, index, pool, cancelled, faults>>

(* chainCheck, one batch: it starts where the batch before it ended. *)
Link ==
  /\ pc = "chain" /\ at < Size
  /\ IF rows[at].before = prev
       THEN at' = at + 1 /\ prev' = rows[at].after /\ UNCHANGED pc
       ELSE pc' = "rejected" /\ UNCHANGED walk
  /\ UNCHANGED <<table, fromStore, index, pool, cancelled, faults>>

(* The last batch ends at the published totals; with no batch there is no  *)
(* commitment to compare.                                                  *)
Conclude ==
  /\ pc = "chain" /\ at >= Size
  /\ pc' = IF Size > 0 /\ prev.cex = PublishedCex THEN "accepted" ELSE "rejected"
  /\ UNCHANGED <<table, fromStore, index, pool, walk, cancelled, faults>>

Cancel ==
  /\ ~cancelled /\ pc \notin Verdicts
  /\ cancelled' = TRUE
  /\ UNCHANGED <<table, fromStore, pc, index, pool, walk, faults>>

Verifier ==
  \/ Index \/ Loaded \/ Join \/ Link \/ Conclude
  \/ \E w \in Workers : VerifyRow(w) \/ KeyFails(w)

Finished == pc \in Verdicts /\ UNCHANGED vars

Next == Verifier \/ Cancel \/ Finished

Spec == Init /\ [][Next]_vars

(* The goroutines of the pool and the caller that waits for them all run.  *)
FairSpec == Spec /\ WF_vars(Verifier)

-----------------------------------------------------------------------------
(* Properties *)

TypeOK ==
  /\ table \in Seq(ProofRow) /\ fromStore \in BOOLEAN
  /\ pc \in {"load", "verify", "chain"} \cup Verdicts
  /\ rows \in [0 .. (Size - 1) -> ProofRow] /\ read \in 0 .. Size
  /\ next \in [Workers -> Nat] /\ vk \in [Workers -> Tiers \cup {NoTier}]
  /\ stopped \subseteq Workers
  /\ failed \in {"none", "cancelled", "row", "key"}
  /\ at \in 0 .. Size /\ prev \in Point
  /\ cancelled \in BOOLEAN /\ faults \in Nat

\* what a row must satisfy by itself
Sound(r) == r.intact /\ r.tier \in Tiers /\ r.made = r.tier

\* a complete proof of the published totals: each batch once, every proof
\* sound, in one chain from nothing to the totals
Proves(t) ==
  /\ t # <<>>
  /\ \A j, k \in DOMAIN t : t[j].num = t[k].num => j = k
  /\ \A k \in DOMAIN t :
       /\ t[k].num \in 0 .. (Len(t) - 1) /\ Sound(t[k])
       /\ t[k].num = 0 => t[k].before = EmptyPoint
       /\ t[k].num = Len(t) - 1 => t[k].after.cex = PublishedCex
       /\ \A j \in DOMAIN t : t[k].num = t[j].num + 1 => t[k].before = t[j].after

(* What the verifier accepts is a complete proof of the published totals   *)
(* (RunBatch, verifier.go:104-110), whatever order the rows come in and    *)
(* however its workers interleave.                                         *)
AcceptedIsProved == pc = "accepted" => Proves(table)

(* And a complete proof is refused for an outside reason only.             *)
ProvedIsAccepted ==
  pc \in {"rejected", "panicked"} /\ Proves(table) => cancelled \/ faults > 0

(* The error of the pool is one that some worker really met, whichever     *)
(* worker reported first (verify.go:29-33).                                *)
ErrorIsReal ==
  /\ failed # "none" <=> stopped # {}
  /\ failed = "cancelled" => cancelled
  /\ failed = "key" => faults > 0
  /\ failed = "row" => \E i \in 0 .. (Size - 1) : ~Sound(rows[i])

(* No row is left out and none is verified twice: the ranges of the pool   *)
(* partition the table, also when there are more workers than rows         *)
(* (verify.go:38 and 56-61).                                               *)
RangesPartition ==
  \A i \in 0 .. (Size - 1) :
    \E w \in Workers :
      /\ Start(w) <= i /\ i < End(w)
      /\ \A v \in Workers : v # w => ~(Start(v) <= i /\ i < End(v))

\* what the loop, the pool and the walk have established so far
IndexSoFar ==
  /\ \A k \in 1 .. read : table[k].num \in 0 .. (Size - 1)
  /\ \A i \in 0 .. (Size - 1) :
       \/ rows[i] = ZeroRow /\ \A k \in 1 .. read : table[k].num # i
       \/ \E k \in 1 .. read : table[k].num = i /\ rows[i] = table[k]
  /\ pc \notin {"load", "rejected", "panicked"} => read = Size

PoolSoFar ==
  /\ pc = "load" => stopped = {} /\ failed = "none"
  /\ pc = "verify" =>
       \A w \in Workers :
         /\ next[w] >= Start(w)
         /\ \A i \in 0 .. (Size - 1) : Start(w) <= i /\ i < next[w] => Sound(rows[i])
  /\ pc \in {"chain", "accepted"} => \A i \in 0 .. (Size - 1) : Sound(rows[i])

WalkSoFar ==
  /\ prev = IF at = 0 THEN EmptyPoint ELSE rows[at - 1].after
  /\ \A i \in 0 .. (at - 1) :
       rows[i].before = IF i = 0 THEN EmptyPoint ELSE rows[i - 1].after
  /\ pc \in {"load", "verify"} => at = 0
  /\ pc = "accepted" => Size > 0 /\ at = Size /\ prev.cex = PublishedCex

VerifierInv ==
  TypeOK /\ ErrorIsReal /\ IndexSoFar /\ PoolSoFar /\ WalkSoFar

(* Verification comes to a verdict. *)
Decides == <>(pc \in Verdicts)
==============================================================================
