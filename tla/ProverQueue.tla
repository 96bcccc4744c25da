----------------------------- MODULE ProverQueue -----------------------------
(***************************************************************************)
(* The witness queue (store/witness.go), the proof table (store/proof.go)  *)
(* and the prover processes that move batches from one to the other        *)
(* (pkg/prover).  One action is one database transaction, or one piece of  *)
(* local work between two of them; actions of different provers            *)
(* interleave.  Database answers may be lost, a process may die anywhere,  *)
(* an operator may stop a prover, start it again, put a row back, and      *)
(* throw all proofs away to start over.                                    *)
(***************************************************************************)
EXTENDS Integers

CONSTANTS
  Provers,      \* the prover processes
  NoProver,     \* "nobody", for row locks
  N,            \* how many batches the witness service publishes
  Signalled,    \* the provers an operator may send SIGINT or SIGTERM
  ScanLocks,    \* TRUE: the locking SELECT may also lock rows it only scanned
  MaxCrashes,   \* bound on process deaths
  MaxFaults,    \* bound on failed or unanswered database calls and failed proves
  MaxResets     \* bound on operator resets of the queue and reruns of a row

ASSUME ProverAssumption == NoProver \notin Provers
ASSUME BoundAssumption ==
  /\ N \in Nat /\ MaxCrashes \in Nat /\ MaxFaults \in Nat /\ MaxResets \in Nat
  /\ Signalled \subseteq Provers /\ ScanLocks \in BOOLEAN

Heights == 0 .. (N - 1)
NoRow == -1

Statuses == {"absent", "Published", "Received", "Finished"}
Working == {"probe", "prove", "create", "mark"}         \* inside proveOne
Exited == {"drained", "cancelled", "failed", "crashed"} \* Run has returned
Pcs == {"loop", "select", "update", "backoff"} \cup Working \cup Exited

VARIABLES
  status,     \* witness table: the Status column by Height
  locked,     \* witness table: the prover whose claim transaction locks the row
  proofs,     \* proof table: the BatchNumbers that have a row
  pc,         \* where each prover is
  row,        \* the Height each prover has selected or claimed
  cancelled,  \* the provers whose context is cancelled
  operator,   \* "idle", or "deleted": between the two statements of a reset
  dropped,    \* the finished batches a reset has deleted the proofs of, so far
  crashes, faults, resets  \* bound counters

tables == <<status, locked, proofs>>
reset == <<operator, dropped>>
bounds == <<crashes, faults, resets>>
vars == <<tables, pc, row, cancelled, reset, bounds>>

Init ==
  /\ status = [h \in Heights |-> "absent"]
  /\ locked = [h \in Heights |-> NoProver]
  /\ proofs = {}
  /\ pc = [p \in Provers |-> "loop"]
  /\ row = [p \in Provers |-> NoRow]
  /\ cancelled = {} /\ operator = "idle" /\ dropped = {}
  /\ crashes = 0 /\ faults = 0 /\ resets = 0

-----------------------------------------------------------------------------
(* Helpers *)

Goto(p, l) == pc' = [pc EXCEPT ![p] = l]
Forget(p) == row' = [row EXCEPT ![p] = NoRow]
Unlock(p) == locked' = [h \in Heights |-> IF locked[h] = p THEN NoProver ELSE locked[h]]
AllDown == \A p \in Provers : pc[p] \in Exited
Fault == faults < MaxFaults /\ faults' = faults + 1 /\ UNCHANGED <<crashes, resets>>

\* mutant: the claim also takes rows that are merely unfinished
MatchesUnfinished(h) == status[h] \in {"Published", "Received"}

\* WHERE status = from, the condition both statements of a claim carry
Matches(h) == status[h] = "Published"

\* mutant: a SELECT that does not skip the rows its peers have locked
ClaimableLocked == {h \in Heights : Matches(h)}

\* FOR UPDATE SKIP LOCKED leaves out the rows a peer's claim holds
Claimable == {h \in Heights : Matches(h) /\ locked[h] = NoProver}

-----------------------------------------------------------------------------
(* Mutants: bugs the properties below must notice. *)

\* the backoff listens to the context only, its timer is gone
BackoffForever(p) ==
  /\ pc[p] = "backoff" /\ p \in cancelled
  /\ Goto(p, "cancelled")
  /\ UNCHANGED <<tables, row, cancelled, reset, bounds>>

\* no idempotency probe
ProbeNothing(p) ==
  /\ pc[p] = "probe"
  /\ Goto(p, "prove")
  /\ UNCHANGED <<tables, row, cancelled, reset, bounds>>

\* the context is looked at after the claim instead of before it
ProbeCancelled(p) ==
  /\ pc[p] = "probe"
  /\ IF p \in cancelled
       THEN Goto(p, "cancelled") /\ Forget(p)
       ELSE Goto(p, IF row[p] \in proofs THEN "mark" ELSE "prove") /\ UNCHANGED row
  /\ UNCHANGED <<tables, cancelled, reset, bounds>>

\* MarkStatus is given the status the row already has
MarkReceived(p) ==
  /\ pc[p] = "mark"
  /\ status' = [status EXCEPT ![row[p]] = "Received"]
  /\ Goto(p, "loop") /\ Forget(p)
  /\ UNCHANGED <<locked, proofs, cancelled, reset, bounds>>

\* the operator does not wait for the provers to exit
DeleteRunning ==
  /\ operator = "idle" /\ resets < MaxResets
  /\ proofs' = {}
  /\ dropped' = dropped \cup {h \in proofs : status[h] = "Finished"}
  /\ operator' = "deleted"
  /\ resets' = resets + 1
  /\ UNCHANGED <<status, locked, pc, row, cancelled, crashes, faults>>

-----------------------------------------------------------------------------
(* The witness service inserts its rows in height order, as Published. *)
Publish ==
  \E h \in Heights :
    /\ status[h] = "absent"
    /\ \A k \in Heights : k < h => status[k] # "absent"
    /\ status' = [status EXCEPT ![h] = "Published"]
    /\ UNCHANGED <<locked, proofs, pc, row, cancelled, reset, bounds>>

(* Top of the poll loop: the context is looked at before every claim. *)
CheckContext(p) ==
  /\ pc[p] = "loop"
  /\ Goto(p, IF p \in cancelled THEN "cancelled" ELSE "select")
  /\ UNCHANGED <<tables, row, cancelled, reset, bounds>>

(* SELECT ... ORDER BY height LIMIT 1 FOR UPDATE SKIP LOCKED. *)
SelectOldest(p) ==
  /\ pc[p] = "select"
  /\ \E h \in Claimable :
       /\ \A k \in Claimable : h <= k
       /\ \E scanned \in SUBSET Claimable :
            /\ ~ScanLocks => scanned = {}
            /\ locked' = [k \in Heights |->
                            IF k = h \/ k \in scanned THEN p ELSE locked[k]]
       /\ row' = [row EXCEPT ![p] = h]
  /\ Goto(p, "update")
  /\ UNCHANGED <<status, proofs, cancelled, reset, bounds>>

(* No claimable row: ErrNotFound, and the prover quits. *)
SelectNothing(p) ==
  /\ pc[p] = "select"
  /\ Claimable = {}
  /\ Goto(p, "drained")
  /\ UNCHANGED <<tables, row, cancelled, reset, bounds>>

(* UPDATE ... WHERE height AND status = from, and COMMIT. *)
ClaimCommit(p) ==
  /\ pc[p] = "update"
  /\ Matches(row[p])
  /\ status' = [status EXCEPT ![row[p]] = "Received"]
  /\ Unlock(p)
  /\ Goto(p, "probe")
  /\ UNCHANGED <<proofs, row, cancelled, reset, bounds>>

(* The claim fails with an error: rolled back, except that an error of     *)
(* COMMIT itself may hide a transaction that was applied.                  *)
ClaimFails(p) ==
  /\ pc[p] \in {"select", "update"}
  /\ Fault
  /\ \/ UNCHANGED status
     \/ /\ pc[p] = "update" /\ Matches(row[p])
        /\ status' = [status EXCEPT ![row[p]] = "Received"]
  /\ Unlock(p)
  /\ Forget(p)
  /\ Goto(p, "backoff")
  /\ UNCHANGED <<proofs, cancelled, reset>>

(* Ten seconds of sleep that a cancelled context cuts short. *)
Backoff(p) ==
  /\ pc[p] = "backoff"
  /\ Goto(p, IF p \in cancelled THEN "cancelled" ELSE "loop")
  /\ UNCHANGED <<tables, row, cancelled, reset, bounds>>

(* The idempotency probe: a batch with a proof row is not proved again. *)
Probe(p) ==
  /\ pc[p] = "probe"
  /\ Goto(p, IF row[p] \in proofs THEN "mark" ELSE "prove")
  /\ UNCHANGED <<tables, row, cancelled, reset, bounds>>

ProveBatch(p) ==
  /\ pc[p] = "prove"
  /\ Goto(p, "create")
  /\ UNCHANGED <<tables, row, cancelled, reset, bounds>>

(* INSERT into the proof table; its unique index refuses a second row and  *)
(* that error is fatal.                                                    *)
CreateProof(p) ==
  /\ pc[p] = "create"
  /\ IF row[p] \in proofs
       THEN /\ Goto(p, "failed") /\ Forget(p) /\ UNCHANGED proofs
       ELSE /\ Goto(p, "mark") /\ UNCHANGED row
            /\ proofs' = proofs \cup {row[p]}
  /\ UNCHANGED <<status, locked, cancelled, reset, bounds>>

(* MarkStatus(Finished): an update that changes no row is ErrNotFound, and *)
(* proveOne's error is fatal.                                              *)
MarkFinished(p) ==
  /\ pc[p] = "mark"
  /\ status' = [status EXCEPT ![row[p]] = "Finished"]
  /\ Goto(p, IF status[row[p]] = "Finished" THEN "failed" ELSE "loop")
  /\ Forget(p)
  /\ UNCHANGED <<locked, proofs, cancelled, reset, bounds>>

(* Any call of proveOne fails: decode, probe, key load, prove, or a write  *)
(* that was refused or applied without an answer.  Run returns the error.  *)
ProveOneFails(p) ==
  /\ pc[p] \in Working
  /\ Fault
  /\ \/ UNCHANGED <<status, proofs>>
     \/ /\ pc[p] = "create"
        /\ proofs' = proofs \cup {row[p]}
        /\ UNCHANGED status
     \/ /\ pc[p] = "mark"
        /\ status' = [status EXCEPT ![row[p]] = "Finished"]
        /\ UNCHANGED proofs
  /\ Goto(p, "failed")
  /\ Forget(p)
  /\ UNCHANGED <<locked, cancelled, reset>>

(* One step of the code of prover p. *)
Step(p) ==
  \/ CheckContext(p) \/ SelectOldest(p) \/ SelectNothing(p) \/ ClaimCommit(p)
  \/ ClaimFails(p) \/ Backoff(p) \/ Probe(p) \/ ProveBatch(p)
  \/ CreateProof(p) \/ MarkFinished(p) \/ ProveOneFails(p)

-----------------------------------------------------------------------------
(* The environment of a prover. *)

Signal(p) ==
  /\ p \in Signalled \ cancelled
  /\ pc[p] \notin Exited
  /\ cancelled' = cancelled \cup {p}
  /\ UNCHANGED <<tables, pc, row, reset, bounds>>

(* The process dies; the database rolls its open transaction back. *)
Crash(p) ==
  /\ pc[p] \notin Exited
  /\ crashes < MaxCrashes
  /\ crashes' = crashes + 1
  /\ Unlock(p)
  /\ Forget(p)
  /\ Goto(p, "crashed")
  /\ UNCHANGED <<status, proofs, cancelled, reset, faults, resets>>

Restart(p) ==
  /\ pc[p] \in Exited /\ operator = "idle"
  /\ Goto(p, "loop")
  /\ cancelled' = cancelled \ {p}
  /\ UNCHANGED <<tables, row, reset, bounds>>

(* LatestByStatus(Received), MarkStatus(Published): the rerun mode those   *)
(* calls are there for is not in the repository; an operator makes them    *)
(* once the provers are down.                                              *)
RerunLatest ==
  /\ operator = "idle" /\ resets < MaxResets /\ AllDown
  /\ \E h \in Heights :
       /\ status[h] = "Received"
       /\ \A k \in Heights : status[k] = "Received" => k <= h
       /\ status' = [status EXCEPT ![h] = "Published"]
  /\ resets' = resets + 1
  /\ UNCHANGED <<locked, proofs, pc, row, cancelled, reset, crashes, faults>>

(* DELETE FROM proof; UPDATE witness SET status=0: two statements of their *)
(* own, by an operator who has the provers down until both are done.       *)
DeleteProofs ==
  /\ operator = "idle" /\ resets < MaxResets /\ AllDown
  /\ proofs' = {}
  /\ dropped' = dropped \cup {h \in proofs : status[h] = "Finished"}
  /\ operator' = "deleted"
  /\ resets' = resets + 1
  /\ UNCHANGED <<status, locked, pc, row, cancelled, crashes, faults>>

RequeueAll ==
  /\ operator = "deleted"
  /\ status' = [h \in Heights |->
                  IF status[h] = "absent" THEN "absent" ELSE "Published"]
  /\ operator' = "idle" /\ dropped' = {}
  /\ UNCHANGED <<locked, proofs, pc, row, cancelled, bounds>>

(* The second statement is never made, or it fails.                        *)
ResetStops ==
  /\ operator = "deleted" /\ operator' = "idle"
  /\ UNCHANGED <<tables, pc, row, cancelled, dropped, bounds>>

Operator == RerunLatest \/ DeleteProofs \/ RequeueAll \/ ResetStops

Next ==
  \/ Publish
  \/ Operator
  \/ \E p \in Provers : Step(p) \/ Signal(p) \/ Crash(p) \/ Restart(p)

Spec == Init /\ [][Next]_vars

(* A live process runs and the witness service reaches its last batch;     *)
(* nobody has to restart anything.                                         *)
FairSpec == Spec /\ WF_vars(Publish) /\ \A p \in Provers : WF_vars(Step(p))

(* As FairSpec, and a supervisor starts every prover that has exited.      *)
SupervisedSpec == FairSpec /\ \A p \in Provers : WF_vars(Restart(p))

-----------------------------------------------------------------------------
(* Properties *)

TypeOK ==
  /\ status \in [Heights -> Statuses]
  /\ locked \in [Heights -> Provers \cup {NoProver}]
  /\ proofs \subseteq Heights
  /\ pc \in [Provers -> Pcs]
  /\ row \in [Provers -> Heights \cup {NoRow}]
  /\ cancelled \subseteq Provers
  /\ operator \in {"idle", "deleted"} /\ dropped \subseteq Heights
  /\ crashes \in Nat /\ faults \in Nat /\ resets \in Nat

Holds(p, h) == pc[p] \in Working /\ row[p] = h

(* No batch is worked on by two provers, whatever is claimed, refused,     *)
(* lost, restarted or reset (store/witness.go:113-119).                    *)
ExclusiveClaim ==
  \A p, q \in Provers : p # q /\ pc[p] \in Working /\ pc[q] \in Working
                          => row[p] # row[q]

(* The INSERT of a proof never meets the unique index: between the probe   *)
(* and the insert nobody else proves the batch (store/proof.go:41-43).     *)
NoDuplicateProof ==
  \A p \in Provers : pc[p] \in {"prove", "create"} => row[p] \notin proofs

(* A finished row has its proof row, unless an operator's reset has        *)
(* deleted it and stopped there: then it has none, and a verifier that     *)
(* sees a finished queue finds every proof but those                       *)
(* (pkg/prover/prove.go:102-112, docs/R13_GPU_RUNBOOK.md:91).              *)
FinishedIsProved ==
  \A h \in Heights : status[h] = "Finished" => (h \in proofs <=> h \notin dropped)

(* The conditional UPDATE never comes too late: a row a claim has selected *)
(* still has the status it was selected by (store/witness.go:147-150 calls *)
(* the other outcome unreachable), and locks live only inside a claim.     *)
ClaimTransaction ==
  /\ \A p \in Provers : pc[p] = "update" => Matches(row[p]) /\ locked[row[p]] = p
  /\ \A h \in Heights : locked[h] # NoProver => pc[locked[h]] = "update" /\ Matches(h)

(* Stopping a prover by a signal or by an empty queue never leaves a batch *)
(* claimed and unproved: only a death or a failed call does                *)
(* (pkg/prover/prover.go:27-34, batch-granular cancellation).              *)
NoBatchAbandoned ==
  crashes = 0 /\ faults = 0 =>
    \A h \in Heights : status[h] = "Received" => \E p \in Provers : Holds(p, h)

(* The inductive invariant behind the five above: a prover inside proveOne *)
(* owns a Received row, and one about to mark it has seen its proof row;    *)
(* nobody runs while proofs are thrown away.                               *)
IInv ==
  /\ TypeOK
  /\ \A p \in Provers :
       /\ pc[p] \in Working => row[p] \in Heights /\ status[row[p]] = "Received"
       /\ pc[p] = "update" => row[p] \in Heights
       /\ pc[p] = "mark" => row[p] \in proofs
  /\ \A h \in proofs : status[h] # "absent"
  /\ \A h \in dropped : status[h] = "Finished"
  /\ operator = "deleted" => AllDown
  /\ ExclusiveClaim /\ NoDuplicateProof /\ FinishedIsProved
  /\ ClaimTransaction /\ NoBatchAbandoned

(* A published batch is claimed, unless every prover exits or an operator  *)
(* stops one (whoever stops and restarts provers for ever starves the      *)
(* queue): a worker that quits because its peers hold all the row locks    *)
(* loses no work (store/witness.go:121-125).                               *)
PublishedIsClaimed ==
  \A h \in Heights :
    status[h] = "Published" ~>
      \/ status[h] # "Published" \/ cancelled # {}
      \/ \A p \in Provers : pc[p] \in Exited

(* Without a failure the last prover standing drains the queue it saw: a   *)
(* batch published while some prover runs is proved, or something failed   *)
(* or was stopped.                                                         *)
PublishedIsFinished ==
  \A h \in Heights :
    (status[h] = "Published" /\ \E p \in Provers : pc[p] \notin Exited)
      ~> \/ status[h] = "Finished"
         \/ crashes > 0 \/ faults > 0 \/ cancelled # {}

(* The comment on proveOne (pkg/prover/prove.go:27-31): a crashed retry    *)
(* re-claims its batch, so a batch that was received is finished in the    *)
(* end.  ClaimOldestByStatus takes Published rows only.                    *)
ReceivedIsFinished ==
  \A h \in Heights : status[h] = "Received" ~> status[h] = "Finished"

-----------------------------------------------------------------------------
(* The abstract ledger: where each batch is, and who has it. *)

LedgerOf(h) ==
  IF h \in proofs THEN "proved"
  ELSE IF status[h] = "absent" THEN "none"
  ELSE IF status[h] = "Published" THEN "queued"
  ELSE IF \E p \in Provers : Holds(p, h) THEN "taken" ELSE "orphaned"

TakerOf(h) ==
  IF LedgerOf(h) = "taken" THEN CHOOSE p \in Provers : Holds(p, h) ELSE NoProver

Ledger == INSTANCE BatchLedger WITH
  Batches <- Heights, Workers <- Provers, NoWorker <- NoProver,
  ledger <- [h \in Heights |-> LedgerOf(h)],
  taker <- [h \in Heights |-> TakerOf(h)]

(* The queue, the table and the provers implement the ledger: each batch   *)
(* is proved once, by the one worker that took it, until an operator       *)
(* throws all proofs away; and nobody works on a batch while one does.     *)
ImplementsLedger == Ledger!Spec
==============================================================================
