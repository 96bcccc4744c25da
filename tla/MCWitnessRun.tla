---------------------------- MODULE MCWitnessRun ----------------------------
(* Instances of WitnessRun for TLC: two assets with one column each, tiers *)
(* of one and two assets, and every list of up to MaxAccounts accounts     *)
(* with dense indices and small balances: DenselyIndexed, which the        *)
(* theorems about places assume, holds of the snapshots checked.           *)
EXTENDS WitnessRun

CONSTANT MaxAccounts, MaxBalance

Balances == [Assets -> [Columns -> 0 .. MaxBalance]]
Users == <<"u1", "u2", "u3">>

DenseSnapshots ==
  {[i \in 1 .. n |-> [id |-> Users[i], index |-> i - 1, bal |-> b[i]]] :
     n \in 0 .. MaxAccounts, b \in [1 .. MaxAccounts -> Balances]}

TwoPerBatch == [t \in Tiers |-> 2]

ASSUME SnapshotsAreDense == DenselyIndexed
==============================================================================
