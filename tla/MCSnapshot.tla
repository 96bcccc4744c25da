------------------------------ MODULE MCSnapshot ------------------------------
(* Instances of Snapshot and BatchWitness for TLC: three slots, a few rows  *)
(* of each file that differ in what the parsers look at, in every order    *)
(* and combination.                                                        *)
EXTENDS BatchWitness

Weight(m, w) == [p \in Pools[m] |-> w]

\* a slot twice under one spelling and under two, a slot out of range, a
\* haircut above one
MCAssetRows ==
  [m \in Models |->
     {[asset |-> a, spelling |-> x[1], price |-> (a \div 2) + 1, weight |-> Weight(m, x[2]),
       malformed |-> FALSE] : a \in {0, 2}, x \in {<<1, 1>>, <<2, 2>>}}
     \cup {[asset |-> 3, spelling |-> 1, price |-> 1, weight |-> Weight(m, 1), malformed |-> FALSE],
           [asset |-> 0, spelling |-> 1, price |-> 2, weight |-> Weight(m, 3), malformed |-> FALSE],
           [asset |-> 0, spelling |-> 1, price |-> 2, weight |-> Weight(m, 1), malformed |-> TRUE]}]

MCCurves ==
  [m \in Models |->
     IF m \in {"T3", "T4"}
       THEN {[a \in {} |-> Weight(m, 1)], [a \in {0, 1, 2} |-> Weight(m, 1 + (a \div 2))]}
       ELSE {<<>>}]

Amounts(m, equity, debt, pledged) ==
  [c \in Columns(m) |->
     IF c = "equity" THEN equity ELSE IF c = "debt" THEN debt ELSE
     IF c \in {"collateral", "loan"} THEN pledged ELSE IF pledged > 0 THEN 1 ELSE 0]

Plain(m, id, asset, index, amounts) ==
  [id |-> id, asset |-> asset, spelling |-> 1, index |-> index, amounts |-> amounts,
   malformed |-> FALSE]

MCAccountRows ==
  [m \in Models |->
     {Plain(m, "a", 0, None, Amounts(m, 3, 1, 1)),
      Plain(m, "a", 2, 1, Amounts(m, 2, 0, 1)),
      Plain(m, "b", 1, 0, Amounts(m, 1, 0, 0)),
      Plain(m, "b", 1, None, Amounts(m, 1, 3, 2)),
      Plain(m, "b", 2, None, Amounts(m, 2, 1, 2)),
      Plain(m, "b", 0, 2, Amounts(m, 0, 0, 0)),
      Plain(m, "a", 1, None, Amounts(m, 2, 0, 2)),
      Plain(m, "a", 3, None, Amounts(m, 1, 0, 0)),
      [Plain(m, "a", 0, 0, Amounts(m, 2, 1, 0)) EXCEPT !.spelling = 2],
      [Plain(m, "b", 0, 1, Amounts(m, 2, 0, 0)) EXCEPT !.malformed = TRUE]}]
==============================================================================
