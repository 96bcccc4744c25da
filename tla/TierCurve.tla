------------------------------- MODULE TierCurve -------------------------------
(***************************************************************************)
(* The haircut curve of one asset and collateral pool (T3 and T4): the     *)
(* rows of tier_ratios.csv are read one after the other, the cumulative    *)
(* column is derived again by tierpolicy.BuildTierCurve and compared, and  *)
(* the curve is padded to the TierCount slots of the circuit.  The host    *)
(* evaluates the padded curve when it adds up an account's collateral; the *)
(* circuit derives the column once more from boundaries and ratios, with   *)
(* a division it can only constrain, and evaluates it on its own terms.    *)
(***************************************************************************)
EXTENDS Integers, Sequences

CONSTANTS
  TierCount,   \* tier slots of one curve
  MaxBoundary, \* the largest boundary, 2^118 in the code
  MaxValue,    \* the largest value of a position, below 2^128 in the code
  Boundaries, Ratios, Precomps  \* what the columns of a row may hold

Percent == 100
TierRatio == [boundary : Nat, ratio : Nat, precomp : Nat]

ASSUME CurveAssumption ==
  /\ TierCount \in Nat \ {0} /\ MaxBoundary \in Nat /\ MaxValue \in Nat
  /\ Boundaries \subseteq Nat /\ Ratios \subseteq Nat /\ Precomps \subseteq Nat

VARIABLES
  model,  \* "T3" or "T4": the two loaders check and pad differently
  pc,     \* "read", "build", "loaded" or "refused"
  rows,   \* the curve as authored
  built,  \* the curve as derived again
  table   \* the padded curve the snapshot hands on

vars == <<model, pc, rows, built, table>>

-----------------------------------------------------------------------------
(* The piecewise-linear recipe. *)

Cut(amount, ratio) == (amount * ratio) \div Percent

Origin == [boundary |-> 0, ratio |-> 0, precomp |-> 0]
Below(curve, i) == IF i = 1 THEN Origin ELSE curve[i - 1]

\* the credit for a value inside tier i of a curve
Within(curve, i, value) ==
  Below(curve, i).precomp + Cut(value - Below(curve, i).boundary, curve[i].ratio)

Fits(curve, value) == {i \in DOMAIN curve : value <= curve[i].boundary}
FirstFit(curve, value) ==
  CHOOSE i \in Fits(curve, value) : \A j \in Fits(curve, value) : i <= j

\* mutant: the tier is taken from the top of the curve
HaircutOfLast(curve, value) ==
  IF Fits(curve, value) = {} THEN curve[Len(curve)].precomp
  ELSE Within(curve, Len(curve), value)

\* haircutValue of the parsers
HaircutValue(curve, value) ==
  IF Fits(curve, value) = {} THEN curve[Len(curve)].precomp
  ELSE Within(curve, FirstFit(curve, value), value)

\* padRatios: T4 carries the last cumulative value on, T3 does not
Reserved ==
  [boundary |-> MaxBoundary, ratio |-> 0,
   precomp |-> IF model = "T4" /\ rows # <<>> THEN rows[Len(rows)].precomp ELSE 0]

\* mutant: unused slots are left zero
PadWithZeros == [i \in 1 .. TierCount |-> IF i <= Len(rows) THEN rows[i] ELSE Origin]

PadRatios == [i \in 1 .. TierCount |-> IF i <= Len(rows) THEN rows[i] ELSE Reserved]

-----------------------------------------------------------------------------
(* Loading. *)

Init ==
  /\ model \in {"T3", "T4"}
  /\ pc = "read" /\ rows = <<>> /\ built = <<>> /\ table = <<>>

Refuse == pc' = "refused" /\ UNCHANGED <<rows, built, table>>

Authored == [boundary : Boundaries, ratio : Ratios, precomp : Precomps]

\* T4 looks at the boundary when it reads a row, T3 when it derives the curve
Increasing(row) == rows # <<>> => row.boundary > rows[Len(rows)].boundary

ReadTier ==
  /\ pc = "read" /\ Len(rows) <= TierCount  \* bound: one row too many
  /\ \E row \in Authored, dense \in BOOLEAN :  \* tier_index is the next one
       IF dense /\ (model = "T4" => Increasing(row))
         THEN rows' = Append(rows, row) /\ UNCHANGED <<pc, built, table>>
         ELSE Refuse

\* an asset without rows has no curve to check
EndOfFile ==
  /\ pc = "read"
  /\ IF Len(rows) > TierCount
       THEN Refuse
       ELSE IF rows = <<>>
         THEN pc' = "loaded" /\ table' = PadRatios /\ UNCHANGED <<rows, built>>
         ELSE pc' = "build" /\ UNCHANGED <<rows, built, table>>

NextTier == rows[Len(built) + 1]

Derived(tier) ==
  [tier EXCEPT !.precomp =
     Below(built, Len(built) + 1).precomp
       + Cut(tier.boundary - Below(built, Len(built) + 1).boundary, tier.ratio)]

\* mutant: equal boundaries pass
BuildLoose ==
  /\ pc = "build" /\ Len(built) < Len(rows)
  /\ IF /\ NextTier.boundary <= MaxBoundary /\ NextTier.ratio <= Percent
        /\ built # <<>> => NextTier.boundary >= built[Len(built)].boundary
       THEN built' = Append(built, Derived(NextTier)) /\ UNCHANGED <<pc, rows, table>>
       ELSE Refuse

\* mutant: any uint8 is a ratio
BuildAnyRatio ==
  /\ pc = "build" /\ Len(built) < Len(rows)
  /\ IF /\ NextTier.boundary <= MaxBoundary
        /\ built # <<>> => NextTier.boundary > built[Len(built)].boundary
       THEN built' = Append(built, Derived(NextTier)) /\ UNCHANGED <<pc, rows, table>>
       ELSE Refuse

\* one turn of the loop in BuildTierCurve
BuildTier ==
  /\ pc = "build" /\ Len(built) < Len(rows)
  /\ IF /\ NextTier.boundary <= MaxBoundary /\ NextTier.ratio <= Percent
        /\ built # <<>> => NextTier.boundary > built[Len(built)].boundary
       THEN built' = Append(built, Derived(NextTier)) /\ UNCHANGED <<pc, rows, table>>
       ELSE Refuse

\* mutant: only the last cumulative value is compared
CompareLast ==
  /\ pc = "build" /\ Len(built) = Len(rows)
  /\ IF built[Len(rows)].precomp = rows[Len(rows)].precomp
       THEN pc' = "loaded" /\ table' = PadRatios /\ UNCHANGED <<rows, built>>
       ELSE Refuse

\* validateTierPrecomputed: the authored column is the derived one
Compare ==
  /\ pc = "build" /\ Len(built) = Len(rows)
  /\ IF \A i \in DOMAIN rows : built[i].precomp = rows[i].precomp
       THEN pc' = "loaded" /\ table' = PadRatios /\ UNCHANGED <<rows, built>>
       ELSE Refuse

Next == (ReadTier \/ EndOfFile \/ BuildTier \/ Compare) /\ UNCHANGED model

Spec == Init /\ [][Next]_vars

-----------------------------------------------------------------------------
(* The circuit. *)

\* CheckedDivByConstant: what quotient and remainder are constrained to, the
\* remainder by AssertIsLessOrEqualNOp; an honest hint divides
Quotients(dividend) ==
  {q \in 0 .. dividend : dividend - q * Percent \in 0 .. Percent}

\* generateRapidArithmeticForCollateral: the column once more
CircuitPrecomp[i \in 0 .. TierCount] ==
  IF i = 0 THEN 0
  ELSE CircuitPrecomp[i - 1]
         + Cut(table[i].boundary - Below(table, i).boundary, table[i].ratio)

CircuitTakes(curve) ==
  \A i \in DOMAIN curve :
    /\ curve[i].ratio <= Percent /\ curve[i].boundary <= MaxBoundary
    /\ i > 1 => curve[i - 1].boundary <= curve[i].boundary

\* pickTier: the index and flag the witness supplies
PickTier(value) ==
  IF Fits(table, value) = {} THEN [index |-> TierCount, flag |-> 1]
  ELSE [index |-> FirstFit(table, value), flag |-> 0]

\* getAndCheckTierRatiosQueryResults: the credits it lets through
CircuitValues(value) ==
  LET pick == PickTier(value)
      low == Below(table, pick.index).boundary
      upper == IF pick.flag = 0 THEN table[pick.index].boundary ELSE MaxBoundary
  IN  IF (value > low \/ (value = 0 /\ low = 0)) /\ value <= upper
        THEN {IF pick.flag = 0
                THEN CircuitPrecomp[pick.index - 1]
                       + Cut(value - low, table[pick.index].ratio)
                ELSE CircuitPrecomp[TierCount]}
        ELSE {}

-----------------------------------------------------------------------------
(* Properties *)

TypeOK ==
  /\ model \in {"T3", "T4"}
  /\ pc \in {"read", "build", "loaded", "refused"}
  /\ rows \in Seq(TierRatio) /\ built \in Seq(TierRatio)
  /\ Len(rows) <= TierCount + 1 /\ Len(built) <= TierCount
  /\ table \in Seq(TierRatio)
  /\ pc = "loaded" => Len(table) = TierCount

(* What the loop of BuildTierCurve has established of a curve so far.      *)
IsCurve(curve) ==
  \A i \in DOMAIN curve :
    /\ curve[i].boundary <= MaxBoundary /\ curve[i].ratio <= Percent
    /\ curve[i].precomp = Within(curve, i, curve[i].boundary)
    /\ curve[i].precomp <= curve[i].boundary
    /\ \A j \in 1 .. i - 1 : /\ curve[j].boundary < curve[i].boundary
                             /\ curve[j].precomp <= curve[i].precomp

(* The derived curve grows strictly and never credits more than it holds;  *)
(* it agrees with the rows it was derived from, and the padded table is    *)
(* that curve whenever a snapshot is loaded.                               *)
CurveInv ==
  /\ TypeOK /\ IsCurve(built)
  /\ pc = "read" => built = <<>>
  /\ pc \in {"build", "loaded"} => Len(rows) <= TierCount /\ Len(built) <= Len(rows)
  /\ \A i \in DOMAIN built : pc = "build" =>
       built[i].boundary = rows[i].boundary /\ built[i].ratio = rows[i].ratio
  /\ pc = "loaded" => rows = built /\ table = PadRatios

\* the padding of a short T3 curve has nothing for a value past MaxBoundary
OffTheEnd(value) == model = "T3" /\ Len(rows) < TierCount /\ value > MaxBoundary

(* Credit never exceeds the collateral, and more collateral never earns    *)
(* less credit: across tier borders, rounding and padding, and for any     *)
(* value a position may have, with one exception.  Past MaxBoundary the    *)
(* zero padding of a T3 curve that leaves slots free drops the credit to   *)
(* nothing (T3 parser.go:407-417); T4 and a full curve keep the last       *)
(* cumulative value there.                                                 *)
CreditIsSound ==
  pc = "loaded" =>
    \A v, w \in 0 .. MaxValue : v <= w =>
      /\ HaircutValue(table, w) <= w
      /\ IF OffTheEnd(w) THEN HaircutValue(table, w) = 0
         ELSE HaircutValue(table, v) <= HaircutValue(table, w)

(* A curve the loader lets through is one the circuit takes, and for every *)
(* value it can express the circuit computes the credit the host added up; *)
(* a value past MaxBoundary has no proof at all, whatever the host, of     *)
(* either model, has credited it with.                                     *)
HostMatchesCircuit ==
  pc = "loaded" =>
    /\ CircuitTakes(table)
    /\ \A v \in 0 .. MaxValue :
         CircuitValues(v) =
           IF v <= MaxBoundary THEN {HaircutValue(table, v)} ELSE {}

(* The definition of a curve, tier by tier, for comparison: the credit at  *)
(* a boundary is the sum of what each tier below it grants.                *)
Reference(curve, n) ==
  LET upTo[i \in 0 .. n] ==
        IF i = 0 THEN 0
        ELSE LET width == curve[i].boundary - (IF i = 1 THEN 0 ELSE curve[i - 1].boundary)
             IN  upTo[i - 1] + ((width * curve[i].ratio) \div Percent)
  IN  upTo[n]

WellFormed(curve) ==
  /\ Len(curve) <= TierCount
  /\ \A i \in DOMAIN curve :
       /\ curve[i].boundary <= MaxBoundary /\ curve[i].ratio <= Percent
       /\ i > 1 => curve[i].boundary > curve[i - 1].boundary
  /\ \A i \in DOMAIN curve : curve[i].precomp = Reference(curve, i)

(* The loader accepts the well-formed curves and no others: what it loads  *)
(* is well formed, and what it refuses once it is read is not.             *)
LoadsExactly ==
  [][/\ pc' = "loaded" => WellFormed(rows')
     /\ pc = "build" /\ pc' = "refused" => ~WellFormed(rows)]_vars

(* The remainder of the circuit's division is smaller than the divisor     *)
(* (core/circuit/arithmetic.go:25-27), so that a quotient is unique.       *)
DivisionIsFloor ==
  pc = "loaded" =>
    \A v \in 0 .. MaxBoundary : \A i \in DOMAIN table :
      Quotients(v * table[i].ratio) = {Cut(v, table[i].ratio)}
==============================================================================
