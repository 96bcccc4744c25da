----------------------------- MODULE BatchLedger -----------------------------
(***************************************************************************)
(* What the witness queue and the proof table promise together, without    *)
(* statuses, row locks or transactions: a batch is queued once, taken by   *)
(* one worker at a time, and proved by the worker that took it, for good,  *)
(* or until an operator throws every proof away.  A worker that dies, or   *)
(* whose claim was applied but never answered, leaves the batch orphaned:  *)
(* nothing in the code takes it again, only an operator puts it back in    *)
(* the queue, and neither he nor a discard ever meets a worker at work.    *)
(* ProverQueue implements this.                                            *)
(***************************************************************************)
CONSTANTS
  Batches,    \* the batches of one run of the witness service
  Workers,    \* the prover processes
  NoWorker    \* "nobody"

VARIABLES
  ledger,     \* the stage each batch is in
  taker       \* the worker a taken batch belongs to

vars == <<ledger, taker>>

Stages == {"none", "queued", "taken", "orphaned", "proved"}

LedgerOK ==
  /\ ledger \in [Batches -> Stages]
  /\ taker \in [Batches -> Workers \cup {NoWorker}]

Init ==
  /\ ledger = [b \in Batches |-> "none"]
  /\ taker = [b \in Batches |-> NoWorker]

Enqueue(b) ==
  /\ ledger[b] = "none"
  /\ ledger' = [ledger EXCEPT ![b] = "queued"]
  /\ UNCHANGED taker

Take(w, b) ==
  /\ ledger[b] = "queued"
  /\ \A c \in Batches : taker[c] # w
  /\ ledger' = [ledger EXCEPT ![b] = "taken"]
  /\ taker' = [taker EXCEPT ![b] = w]

Prove(b) ==
  /\ ledger[b] = "taken"
  /\ ledger' = [ledger EXCEPT ![b] = "proved"]
  /\ taker' = [taker EXCEPT ![b] = NoWorker]

Orphan(b) ==
  /\ ledger[b] \in {"queued", "taken"}
  /\ ledger' = [ledger EXCEPT ![b] = "orphaned"]
  /\ taker' = [taker EXCEPT ![b] = NoWorker]

Idle == \A b \in Batches : ledger[b] # "taken"

Requeue(S) ==
  /\ Idle
  /\ \A b \in S : ledger[b] = "orphaned"
  /\ ledger' = [b \in Batches |-> IF b \in S THEN "queued" ELSE ledger[b]]
  /\ UNCHANGED taker

\* Every proof goes at once.  The batches of S had been put back in the queue
\* since they were proved; of the others nothing is left that takes them again.
Discard(S) ==
  /\ Idle
  /\ \A b \in S : ledger[b] = "proved"
  /\ ledger' = [b \in Batches |-> IF b \in S THEN "queued"
                                 ELSE IF ledger[b] = "proved" THEN "orphaned" ELSE ledger[b]]
  /\ UNCHANGED taker

Next ==
  \/ \E b \in Batches : Enqueue(b) \/ Prove(b) \/ Orphan(b)
  \/ \E w \in Workers, b \in Batches : Take(w, b)
  \/ \E S \in SUBSET Batches : Requeue(S) \/ Discard(S)

Spec == Init /\ [][Next]_vars
==============================================================================
