----------------------------- MODULE CircuitRules -----------------------------
(***************************************************************************)
(* The constraints of the four batch circuits (Define of                   *)
(* batch_create_user_circuit.go), one operator per part and model: what    *)
(* holds of the totals a batch starts from, of each user, and of the batch *)
(* as a whole.  Field elements are numbers below Modulus; a hash or a      *)
(* commitment is what it commits to.  The random linear combination is     *)
(* taken at its word: it holds when the two sides agree for every power.   *)
(* A haircut curve is one ratio per pool here; TierCurve has its tiers,    *)
(* and as there the tier, flag and quotient of a collateral are those the  *)
(* witness builder and its hints supply.                                   *)
(***************************************************************************)
EXTENDS Integers, Sequences, FiniteSets, Functions

CONSTANTS
  Capacity,  \* asset slots of the deployment
  Leaves,    \* leaves of the account tree
  MaxValue,  \* the largest value of a 64-bit range check
  MaxSum,    \* the largest value of a 128-bit range check
  Modulus,   \* the order of the field
  Full,      \* the ratio that is no haircut: 10000 basis points, or 100
  MaxCredit  \* the last boundary of a curve, 2^118

ASSUME RulesAssumption ==
  /\ Capacity \in Nat \ {0} /\ Leaves \in Nat \ {0} /\ Full \in Nat \ {0}
  /\ MaxValue \in Nat /\ MaxSum \in Nat /\ MaxCredit \in Nat
  /\ Modulus \in Nat /\ Modulus > MaxValue /\ Modulus > 1

Models == {"T1", "T2", "T3", "T4"}
Slots == 0 .. (Capacity - 1)
Pools ==
  [T1 |-> {}, T2 |-> {"collateral"}, T3 |-> {"collateral"},
   T4 |-> {"loan", "margin", "portfolio_margin"}]
Columns(m) == {"equity", "debt"} \cup Pools[m]

Field == 0 .. (Modulus - 1)
Uint64 == 0 .. MaxValue
EmptyLeaf == [id |-> "empty"]

-----------------------------------------------------------------------------
(* One user of a batch.  An op is the circuit's view of it: index and id,  *)
(* the asset slots it lists, the values T1 lists with them (told), and its *)
(* contribution to every slot of the totals (update).                      *)

Positions(op) == DOMAIN op.slots

\* the lookup tables have Capacity entries; CmpNOp on neighbours
Increasing(op) ==
  /\ \A j \in Positions(op) : op.slots[j] \in Slots
  /\ \A j \in 1 .. (Len(op.slots) - 1) : op.slots[j] < op.slots[j + 1]

\* userAssetsLookupTable.Lookup
Looked(op) == [j \in Positions(op) |-> op.update[op.slots[j]]]

Ranged(m, held) ==
  \A j \in DOMAIN held : \A c \in Columns(m) : held[j][c] \in Uint64

\* the price-scaled sum of a column
Total(slots, held, static, c) ==
  SumFunction([j \in DOMAIN slots |-> held[j][c] * static.price[slots[j]]])

Credit(entry, static, s, pool) ==
  (entry[pool] * static.price[s] * static.weight[s][pool]) \div Full

Pledged(m, entry) == SumFunctionOnSet(entry, Pools[m])

Collateral(m, slots, held, static) ==
  SumFunction([j \in DOMAIN slots |->
    SumFunction([p \in Pools[m] |-> Credit(held[j], static, slots[j], p)])])

\* no asset is pledged beyond its equity
Backed(m, held) ==
  \A j \in DOMAIN held : Pledged(m, held[j]) <= held[j]["equity"]

\* the curves end at MaxCredit
OnCurve(m, held, slots, static) ==
  \A j \in DOMAIN slots : \A p \in Pools[m] :
    held[j][p] * static.price[slots[j]] <= MaxCredit

Covered(m, slots, held, static) ==
  LET debt == Total(slots, held, static, "debt")
      collateral == Collateral(m, slots, held, static)
  IN  debt <= MaxSum /\ collateral <= MaxSum /\ debt <= collateral

\* Assets carry their values, and the lookups must answer the same
T1User(op, static) ==
  LET equity == Total(op.slots, op.told, static, "equity")
      debt == Total(op.slots, op.told, static, "debt")
  IN  /\ Increasing(op) /\ Ranged("T1", op.told) /\ Looked(op) = op.told
      /\ equity <= MaxSum /\ debt <= MaxSum /\ debt <= equity

\* mutant: pledged collateral is not compared with equity
T2Unchecked(op, static) ==
  /\ Increasing(op) /\ Ranged("T2", Looked(op))
  /\ Covered("T2", op.slots, Looked(op), static)

T2User(op, static) ==
  /\ Increasing(op) /\ Ranged("T2", Looked(op))
  /\ Backed("T2", Looked(op))
  /\ Covered("T2", op.slots, Looked(op), static)

T3User(op, static) ==
  /\ Increasing(op) /\ Ranged("T3", Looked(op))
  /\ Backed("T3", Looked(op))
  /\ OnCurve("T3", Looked(op), op.slots, static)
  /\ Covered("T3", op.slots, Looked(op), static)

T4User(op, static) ==
  /\ Increasing(op) /\ Ranged("T4", Looked(op))
  /\ Backed("T4", Looked(op))
  /\ OnCurve("T4", Looked(op), op.slots, static)
  /\ Covered("T4", op.slots, Looked(op), static)

User(m, op, static) ==
  \/ m = "T1" /\ T1User(op, static)
  \/ m = "T2" /\ T2User(op, static)
  \/ m = "T3" /\ T3User(op, static)
  \/ m = "T4" /\ T4User(op, static)

\* the account leaf; T1 leaves its collateral slot zero
Held(m, op) == IF m = "T1" THEN op.told ELSE Looked(op)
LeafOf(m, op, static) ==
  [id |-> op.id,
   equity |-> Total(op.slots, Held(m, op), static, "equity"),
   debt |-> Total(op.slots, Held(m, op), static, "debt"),
   collateral |-> Collateral(m, op.slots, Held(m, op), static),
   slots |-> op.slots, held |-> Held(m, op)]

-----------------------------------------------------------------------------
(* The batch. *)

InRange(m, cex) == \A s \in Slots : \A c \in Columns(m) : cex[s][c] \in Uint64
PricesInRange(static) == \A s \in Slots : static.price[s] \in Uint64
RatiosCapped(m, static) ==
  \A s \in Slots : \A p \in Pools[m] : static.weight[s][p] \in 0 .. Full

\* what Define asks of BeforeCexAssets
T1Starts(cex, static) == InRange("T1", cex) /\ PricesInRange(static)

\* mutant: a haircut only has to be a uint16
T2StartsUncapped(cex, static) == InRange("T2", cex) /\ PricesInRange(static)

T2Starts(cex, static) ==
  InRange("T2", cex) /\ PricesInRange(static) /\ RatiosCapped("T2", static)

T3Starts(cex, static) ==
  InRange("T3", cex) /\ PricesInRange(static) /\ RatiosCapped("T3", static)

T4Starts(cex, static) ==
  InRange("T4", cex) /\ PricesInRange(static) /\ RatiosCapped("T4", static)

Starts(m, cex, static) ==
  \/ m = "T1" /\ T1Starts(cex, static)
  \/ m = "T2" /\ T2Starts(cex, static)
  \/ m = "T3" /\ T3Starts(cex, static)
  \/ m = "T4" /\ T4Starts(cex, static)

\* sum over the slots listed = sum over all slots, power by power
Spans(op, columns) ==
  \A s \in Slots : \A c \in columns :
    (Cardinality({j \in Positions(op) : op.slots[j] = s}) * op.update[s][c]) % Modulus
      = op.update[s][c]

\* mutant: equity alone is compared
T1EndsOnEquity(ops, cex) ==
  /\ \A i \in DOMAIN ops : Spans(ops[i], {"equity"})
  /\ InRange("T1", cex)

\* one sum for equity, one for debt
T1Ends(ops, cex) ==
  /\ \A i \in DOMAIN ops : Spans(ops[i], {"equity"}) /\ Spans(ops[i], {"debt"})
  /\ InRange("T1", cex)

\* three powers to a slot
T2Ends(ops, cex) ==
  /\ \A i \in DOMAIN ops : Spans(ops[i], {"equity", "debt", "collateral"})
  /\ InRange("T2", cex)

T3Ends(ops, cex) ==
  /\ \A i \in DOMAIN ops : Spans(ops[i], {"equity", "debt", "collateral"})
  /\ InRange("T3", cex)

\* five powers to a slot
T4Ends(ops, cex) ==
  /\ \A i \in DOMAIN ops :
       Spans(ops[i], {"equity", "debt", "loan", "margin", "portfolio_margin"})
  /\ InRange("T4", cex)

Ends(m, ops, cex) ==
  \/ m = "T1" /\ T1Ends(ops, cex)
  \/ m = "T2" /\ T2Ends(ops, cex)
  \/ m = "T3" /\ T3Ends(ops, cex)
  \/ m = "T4" /\ T4Ends(ops, cex)
==============================================================================
