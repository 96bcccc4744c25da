--------------------------- MODULE MCChainVerifier ---------------------------
(* Instances of ChainVerifier for TLC: chains of up to MaxRows batches, in *)
(* every order, with at most one row replaced by a damaged one.            *)
EXTENDS ChainVerifier, SequencesExt

CONSTANT MaxRows

\* a good chain of n batches whose first k are of tier 1, the rest of tier 2
At(i, n) == [root |-> i, cex |-> IF i = n THEN PublishedCex ELSE i]
Chain(n, k) ==
  [i \in 1 .. n |->
     [num |-> i - 1, before |-> At(i - 1, n), after |-> At(i, n), intact |-> TRUE,
      tier |-> IF i <= k THEN 1 ELSE 2, made |-> IF i <= k THEN 1 ELSE 2]]

\* one field of a row gone wrong
Damaged(r) ==
  {r, [r EXCEPT !.intact = FALSE], [r EXCEPT !.made = 3 - @],
   [r EXCEPT !.tier = 3 - @], [r EXCEPT !.tier = 7, !.made = 7]}
    \cup {[r EXCEPT !.num = m] : m \in -1 .. MaxRows}
    \cup {[r EXCEPT !.before.root = x] : x \in Roots}
    \cup {[r EXCEPT !.before.cex = x] : x \in Cexs}
    \cup {[r EXCEPT !.after.root = x] : x \in Roots}
    \cup {[r EXCEPT !.after.cex = x] : x \in Cexs}

Orders(n) == {p \in [1 .. n -> 1 .. n] : \A i, j \in 1 .. n : p[i] = p[j] => i = j}

DamagedFiles ==
  {<<>>} \cup UNION {
    UNION {{[i \in 1 .. n |-> IF p[i] = d THEN r ELSE Chain(n, k)[p[i]]] :
              p \in Orders(n), r \in Damaged(Chain(n, k)[d])} :
            d \in 1 .. n, k \in 0 .. n} : n \in 1 .. MaxRows}

\* what the database can hold: unique numbers, read in their order
StoredTables ==
  {t \in DamagedFiles : \A i, j \in DOMAIN t : i < j => t[i].num < t[j].num}
==============================================================================
