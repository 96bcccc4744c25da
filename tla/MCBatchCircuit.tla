----------------------------- MODULE MCBatchCircuit -----------------------------
(* Instances of BatchCircuit for TLC: what a user contributes to a slot is *)
(* one of a few entries, solvent and not; both slots, whether listed or    *)
(* not, take any of them.                                                  *)
EXTENDS BatchCircuit

MCShapes == {[assets |-> 1, users |-> 2], [assets |-> 2, users |-> 1]}

\* repeated, reversed and unknown slots too
MCSlotLists == {<<0>>, <<1>>, <<2>>, <<0, 1>>, <<1, 0>>, <<1, 1>>}

Entry(m, equity, debt, pledged) ==
  [c \in Columns(m) |->
     IF c = "equity" THEN equity ELSE IF c = "debt" THEN debt ELSE
     IF c \in {"collateral", "loan"} THEN pledged ELSE 1]

\* the last two are minus one, and more pledged than held
Entries(m) ==
  {[c \in Columns(m) |-> 0], Entry(m, 2, 0, 1), Entry(m, 3, 1, 1), Entry(m, 1, 2, 0),
   [c \in Columns(m) |-> IF c = "debt" THEN Modulus - 1 ELSE 0],
   Entry(m, 1, 1, 2)}

MCUpdates == [m \in Models |-> [Slots -> Entries(m)]]

MCTold ==
  [m \in Models |->
     IF m = "T1" THEN UNION {[1 .. n -> Entries(m)] : n \in 1 .. 2} ELSE {<<>>}]

MCStatics ==
  [m \in Models |->
     {[price |-> [s \in Slots |-> s + 1],
       weight |-> [s \in Slots |-> [p \in Pools[m] |-> IF p = "margin" THEN 1 ELSE w]]] :
        w \in IF m = "T1" THEN {2} ELSE {2, 3}}]
==============================================================================
