---------------------------- MODULE MCEvidenceRun ----------------------------
(* Instances of EvidenceRun for TLC: four accounts over two tiers in every *)
(* arrangement that matters, one of them owing more than it holds.         *)
EXTENDS EvidenceRun

Balance(btc, eth, debt) ==
  [a \in Assets |->
     [c \in Columns |-> IF c = "debt" THEN (IF a = "btc" THEN debt ELSE 0)
                        ELSE IF a = "btc" THEN btc ELSE eth]]

User(id, index, bal) == [id |-> id, index |-> index, bal |-> bal]

\* the first account in the higher tier, an odd account in each tier, a
\* single account, a power of two, an account in debt, one above the bound
MCSnapshots ==
  {<<User("u1", 0, Balance(1, 1, 0)), User("u2", 1, Balance(2, 0, 1)), User("u3", 2, Balance(0, 1, 0))>>,
   <<User("u1", 0, Balance(1, 1, 0)), User("u2", 1, Balance(2, 2, 1)), User("u3", 2, Balance(0, 1, 0)),
     User("u4", 3, Balance(1, 0, 0))>>,
   <<User("u1", 0, Balance(1, 0, 0)), User("u2", 1, Balance(1, 0, 2)), User("u3", 2, Balance(3, 0, 0))>>,
   <<User("u1", 0, Balance(1, 2, 0)), User("u2", 1, Balance(4, 3, 0))>>,
   <<User("u1", 0, Balance(1, 0, 0))>>, <<>>}

\* nothing was published, or what the first snapshot owes
MCClaims == {NoClaim, 4}

\* what RowsVerified and WholeRunsAgreed of EvidenceRun_proofs assume
ASSUME SnapshotsAreDense == DenselyIndexed

TwoPerBatch == [t \in Tiers |-> 2]
==============================================================================
