--------------------------- MODULE TierCurve_proofs ---------------------------
(***************************************************************************)
(* For every number of slots and every authored column: the loop of        *)
(* BuildTierCurve builds a cumulative curve, the loader lets only such a   *)
(* curve through, the credit the host reads off the padded curve grows     *)
(* with the collateral and never exceeds it, and the circuit, which        *)
(* derives the column on its own, computes the same credit.                *)
(***************************************************************************)
EXTENDS TierCurve, SequenceTheorems, WellFoundedInduction, TLAPS

-----------------------------------------------------------------------------
(* Division by Percent *)

(* The quotient of the integer division, between its bounds.               *)
LEMMA DivBounds ==
  ASSUME NEW n \in Nat
  PROVE  /\ n \div Percent \in Nat
         /\ Percent * (n \div Percent) <= n
         /\ n < Percent * (n \div Percent) + Percent
  BY SMTT(30) DEF Percent

(* A product grows with its factor.                                        *)
LEMMA TimesMonotone ==
  ASSUME NEW a \in Nat, NEW v \in Nat, NEW w \in Nat, v <= w
  PROVE  v * a <= w * a /\ v * a \in Nat /\ w * a \in Nat
  BY SMTT(30)

(* A share of an amount: not more than the amount, and growing with it.    *)
LEMMA CutShrinks ==
  ASSUME NEW a \in Nat, NEW r \in Nat, r <= Percent
  PROVE  Cut(a, r) \in Nat /\ Cut(a, r) <= a
<1> DEFINE n == a * r  q == n \div Percent
<1>1. n \in Nat /\ n <= a * 100
  <2>1. r * a <= 100 * a /\ r * a \in Nat BY TimesMonotone DEF Percent
  <2>2. a * r = r * a /\ a * 100 = 100 * a OBVIOUS
  <2> QED BY <2>1, <2>2
<1>2. q \in Nat /\ 100 * q <= n
  <2> HIDE DEF n
  <2> QED BY <1>1, DivBounds DEF Percent
<1>3. q <= a
  <2> HIDE DEF n, q
  <2> QED BY <1>1, <1>2
<1> QED BY <1>2, <1>3 DEF Cut

LEMMA CutGrows ==
  ASSUME NEW r \in Nat, NEW a \in Nat, NEW b \in Nat, a <= b
  PROVE  Cut(a, r) <= Cut(b, r)
<1> DEFINE m == a * r  n == b * r  p == m \div Percent  q == n \div Percent
<1>1. m <= n /\ m \in Nat /\ n \in Nat BY TimesMonotone
<1>2. p \in Nat /\ 100 * p <= m /\ q \in Nat /\ n < 100 * q + 100
  <2> HIDE DEF m, n
  <2> QED BY <1>1, DivBounds DEF Percent
<1>3. p <= q
  <2> HIDE DEF m, n, p, q
  <2> QED BY <1>1, <1>2
<1> QED BY <1>3 DEF Cut

(* A ratio of 0 credits nothing: the slots padRatios adds.                 *)
LEMMA CutNothing == ASSUME NEW a \in Nat PROVE Cut(a, 0) = 0
<1>1. a * 0 = 0 OBVIOUS
<1> QED BY <1>1 DEF Cut, Percent

-----------------------------------------------------------------------------
(* One turn of BuildTierCurve keeps the curve cumulative *)

(* The tier below, or the origin.                                          *)
LEMMA BelowTyped ==
  ASSUME NEW curve \in Seq(TierRatio), NEW i \in 1 .. Len(curve) + 1
  PROVE  Below(curve, i) \in TierRatio
<1>1. CASE i = 1 BY <1>1 DEF Below, Origin, TierRatio
<1>2. CASE i # 1
  <2>1. i - 1 \in 1 .. Len(curve) BY <1>2
  <2>2. curve[i - 1] \in TierRatio BY <2>1
  <2> QED BY <1>2, <2>2 DEF Below
<1> QED BY <1>1, <1>2

(* The tier one turn of BuildTierCurve appends keeps the curve strictly    *)
(* growing, cumulative and below its boundaries.                           *)
LEMMA DerivedKeepsCurve ==
  ASSUME built \in Seq(TierRatio), IsCurve(built), MaxBoundary \in Nat,
         NEW t \in TierRatio, t.boundary <= MaxBoundary, t.ratio <= Percent,
         built # <<>> => t.boundary > built[Len(built)].boundary
  PROVE  /\ Append(built, Derived(t)) \in Seq(TierRatio)
         /\ IsCurve(Append(built, Derived(t)))
<1> DEFINE n == Len(built)
           low == Below(built, n + 1)
           d == Derived(t)
           new == Append(built, d)
<1>1. n \in Nat /\ \A i \in 1 .. n : built[i] \in TierRatio OBVIOUS
<1>2. low \in TierRatio /\ low.boundary <= t.boundary /\ low.precomp <= low.boundary
  <2>1. CASE n = 0 BY <2>1 DEF Below, Origin, TierRatio
  <2>2. CASE n # 0
    <3>1. low = built[n] /\ n \in 1 .. n /\ n \in DOMAIN built BY <1>1, <2>2 DEF Below
    <3>2. built # <<>> BY <2>2
    <3>3. built[n].precomp <= built[n].boundary BY <3>1 DEF IsCurve
    <3> QED BY <1>1, <3>1, <3>2, <3>3 DEF TierRatio
  <2> QED BY <1>1, <2>1, <2>2
<1> DEFINE width == t.boundary - low.boundary
<1>3. width \in Nat BY <1>2 DEF TierRatio
<1>4. Cut(width, t.ratio) \in Nat /\ Cut(width, t.ratio) <= width
  BY <1>3, CutShrinks DEF TierRatio
<1>5. /\ d \in TierRatio /\ d.boundary = t.boundary /\ d.ratio = t.ratio
      /\ d.precomp = low.precomp + Cut(width, t.ratio)
  <2>1. low.precomp + Cut(width, t.ratio) \in Nat BY <1>2, <1>4 DEF TierRatio
  <2> QED BY <2>1 DEF Derived, TierRatio
<1>6. d.precomp <= d.boundary /\ low.precomp <= d.precomp
  BY <1>2, <1>3, <1>4, <1>5 DEF TierRatio
<1>7. /\ new \in Seq(TierRatio) /\ Len(new) = n + 1 /\ new[n + 1] = d
      /\ \A i \in 1 .. n : new[i] = built[i]
  <2> HIDE DEF d
  <2> QED BY <1>5, AppendProperties
<1>8. \A i \in 1 .. n + 1 : Below(new, i) = Below(built, i)
  <2> SUFFICES ASSUME NEW i \in 1 .. n + 1 PROVE Below(new, i) = Below(built, i) OBVIOUS
  <2>1. CASE i = 1 BY <2>1 DEF Below
  <2>2. CASE i # 1
    <3>1. i - 1 \in 1 .. n BY <1>1, <2>2
    <3>2. new[i - 1] = built[i - 1] BY <1>7, <3>1
    <3> QED BY <2>2, <3>2 DEF Below
  <2> QED BY <2>1, <2>2
<1>9. ASSUME NEW i \in 1 .. n + 1
      PROVE  /\ new[i].boundary <= MaxBoundary /\ new[i].ratio <= Percent
             /\ new[i].precomp = Within(new, i, new[i].boundary)
             /\ new[i].precomp <= new[i].boundary
             /\ \A j \in 1 .. i - 1 : /\ new[j].boundary < new[i].boundary
                                      /\ new[j].precomp <= new[i].precomp
  <2>1. CASE i \in 1 .. n
    <3>1. new[i] = built[i] /\ i \in DOMAIN built BY <1>1, <1>7, <2>1
    <3>2. Within(new, i, new[i].boundary) = Within(built, i, built[i].boundary)
      BY <1>8, <3>1 DEF Within
    <3>3. \A j \in 1 .. i - 1 : new[j] = built[j] BY <1>1, <1>7, <2>1
    <3> QED BY <3>1, <3>2, <3>3 DEF IsCurve
  <2>2. CASE i = n + 1
    <3>1. new[i] = d /\ Below(new, i) = low BY <1>7, <1>8, <2>2
    <3>2. new[i].precomp = Within(new, i, new[i].boundary)
      <4> HIDE DEF d, low, new
      <4> QED BY <1>5, <3>1 DEF Within
    <3>3. ASSUME NEW j \in 1 .. i - 1
          PROVE  new[j].boundary < d.boundary /\ new[j].precomp <= d.precomp
      <4>1. j \in 1 .. n /\ n \in DOMAIN built BY <1>1, <2>2
      <4>2. new[j] = built[j] /\ low = built[n] /\ built # <<>>
        BY <1>1, <1>7, <4>1 DEF Below
      <4>3. built[j].boundary <= built[n].boundary /\ built[j].precomp <= built[n].precomp
        <5>1. CASE j = n BY <1>1, <4>1, <5>1 DEF TierRatio
        <5>2. CASE j # n
          <6>1. j \in 1 .. n - 1 BY <1>1, <4>1, <5>2
          <6>2. built[j].boundary < built[n].boundary /\ built[j].precomp <= built[n].precomp
            BY <4>1, <6>1 DEF IsCurve
          <6>3. built[j] \in TierRatio /\ built[n] \in TierRatio BY <1>1, <4>1
          <6>4. built[j].boundary \in Nat /\ built[n].boundary \in Nat BY <6>3 DEF TierRatio
          <6> QED BY <6>2, <6>4
        <5> QED BY <5>1, <5>2
      <4>4. built[j] \in TierRatio /\ built[n] \in TierRatio BY <1>1, <4>1
      <4>5. built[n].boundary < t.boundary BY <4>2
      <4>6. t.boundary \in Nat BY DEF TierRatio
      <4>7. /\ built[j].boundary \in Nat /\ built[j].precomp \in Nat
            /\ built[n].boundary \in Nat /\ built[n].precomp \in Nat
        BY <4>4 DEF TierRatio
      <4>8. d.boundary = t.boundary /\ d.precomp \in Nat BY <1>5 DEF TierRatio
      <4>9. built[n].precomp <= d.precomp BY <1>6, <4>2
      <4> HIDE DEF d, low, new, n
      <4>10. new[j].boundary < d.boundary
        <5>1. new[j].boundary = built[j].boundary BY <4>2
        <5>2. built[j].boundary < t.boundary BY <4>3, <4>5, <4>6, <4>7
        <5> QED BY <4>8, <5>1, <5>2
      <4>11. new[j].precomp <= d.precomp
        <5>1. new[j].precomp = built[j].precomp BY <4>2
        <5>2. built[j].precomp <= d.precomp BY <4>3, <4>7, <4>8, <4>9
        <5> QED BY <5>1, <5>2
      <4> QED BY <4>10, <4>11
    <3> QED BY <1>5, <1>6, <3>1, <3>2, <3>3
  <2> QED BY <1>1, <2>1, <2>2
<1>10. DOMAIN new = 1 .. n + 1 BY <1>7
<1>11. IsCurve(new)
  <2> HIDE DEF new
  <2> QED BY <1>9, <1>10 DEF IsCurve
<1> QED BY <1>7, <1>11

-----------------------------------------------------------------------------
(* The invariant of the loader *)

(* padRatios fills every slot of the circuit.                              *)
LEMMA PadTyped ==
  ASSUME rows \in Seq(TierRatio)
  PROVE  PadRatios \in Seq(TierRatio) /\ Len(PadRatios) = TierCount
<1>1. TierCount \in Nat BY CurveAssumption
<1>2. Reserved \in TierRatio
  <2>1. MaxBoundary \in Nat BY CurveAssumption
  <2>2. rows # <<>> => rows[Len(rows)] \in TierRatio OBVIOUS
  <2> QED BY <2>1, <2>2 DEF Reserved, TierRatio
<1>3. PadRatios \in [1 .. TierCount -> TierRatio] BY <1>1, <1>2 DEF PadRatios
<1> HIDE DEF PadRatios
<1> QED BY <1>1, <1>3, SeqDef

(* The inductive invariant: before the file is read ...                    *)
LEMMA InitCurve == Init => CurveInv
<1> SUFFICES ASSUME Init PROVE CurveInv OBVIOUS
<1>1. TierCount \in Nat BY CurveAssumption
<1>2. <<>> \in Seq(TierRatio) /\ Len(<<>>) = 0 OBVIOUS
<1>3. TypeOK BY <1>1, <1>2 DEF Init, TypeOK
<1>4. DOMAIN built = {} BY DEF Init
<1> QED BY <1>3, <1>4 DEF Init, CurveInv, IsCurve

(* ... when the loader gives up ...                                        *)
LEMMA RefuseKeeps == CurveInv /\ Refuse /\ UNCHANGED model => CurveInv'
<1> SUFFICES ASSUME CurveInv, Refuse, UNCHANGED model PROVE CurveInv' OBVIOUS
<1>1. TypeOK' BY DEF CurveInv, Refuse, TypeOK
<1>2. IsCurve(built)' BY DEF CurveInv, Refuse, IsCurve, Within, Below, Origin, Cut
<1> QED BY <1>1, <1>2 DEF CurveInv, Refuse

(* ... after a row of tier_ratios.csv ...                                  *)
LEMMA ReadTierKeeps == CurveInv /\ ReadTier /\ UNCHANGED model => CurveInv'
<1> SUFFICES ASSUME CurveInv, ReadTier, UNCHANGED model PROVE CurveInv' OBVIOUS
<1>1. CASE Refuse BY <1>1, RefuseKeeps
<1>2. ASSUME NEW row \in Authored, rows' = Append(rows, row), UNCHANGED <<pc, built, table>>
      PROVE  CurveInv'
  <2>1. row \in TierRatio BY CurveAssumption DEF Authored, TierRatio
  <2>2. pc = "read" /\ Len(rows) <= TierCount BY DEF ReadTier
  <2>3. rows' \in Seq(TierRatio) /\ Len(rows') = Len(rows) + 1
    BY <1>2, <2>1, AppendProperties DEF CurveInv, TypeOK
  <2>4. TierCount \in Nat /\ Len(rows) \in Nat BY CurveAssumption DEF CurveInv, TypeOK
  <2>5. TypeOK' BY <1>2, <2>2, <2>3, <2>4 DEF CurveInv, TypeOK
  <2>6. IsCurve(built)' BY <1>2 DEF CurveInv, IsCurve, Within, Below, Origin, Cut
  <2> QED BY <1>2, <2>2, <2>5, <2>6 DEF CurveInv
<1> QED BY <1>1, <1>2 DEF ReadTier

(* ... after the last row ...                                              *)
LEMMA EndOfFileKeeps == CurveInv /\ EndOfFile /\ UNCHANGED model => CurveInv'
<1> SUFFICES ASSUME CurveInv, EndOfFile, UNCHANGED model PROVE CurveInv' OBVIOUS
<1>1. CASE Refuse BY <1>1, RefuseKeeps
<1>2. CASE ~Refuse
  <2>1. /\ pc = "read" /\ built = <<>>
        /\ ~(Len(rows) > TierCount) /\ UNCHANGED <<rows, built>>
    BY <1>2 DEF EndOfFile, CurveInv
  <2>2. \/ pc' = "loaded" /\ table' = PadRatios /\ rows = <<>>
        \/ pc' = "build" /\ table' = table
    BY <1>2 DEF EndOfFile
  <2>3. rows \in Seq(TierRatio) /\ TierCount \in Nat /\ Len(rows) \in Nat
    BY CurveAssumption DEF CurveInv, TypeOK
  <2>4. PadRatios \in Seq(TierRatio) /\ Len(PadRatios) = TierCount BY <2>3, PadTyped
  <2>5. TypeOK' BY <2>1, <2>2, <2>3, <2>4 DEF CurveInv, TypeOK
  <2>6. built' = <<>> /\ Len(built') = 0 /\ DOMAIN built' = {} BY <2>1
  <2>7. PadRatios' = PadRatios BY <2>1 DEF PadRatios, Reserved
  <2> QED BY <2>1, <2>2, <2>3, <2>5, <2>6, <2>7 DEF CurveInv, IsCurve
<1> QED BY <1>1, <1>2

(* ... after a turn of BuildTierCurve ...                                  *)
LEMMA BuildTierKeeps == CurveInv /\ BuildTier /\ UNCHANGED model => CurveInv'
<1> SUFFICES ASSUME CurveInv, BuildTier, UNCHANGED model PROVE CurveInv' OBVIOUS
<1>1. CASE Refuse BY <1>1, RefuseKeeps
<1>2. CASE ~Refuse
  <2>1. /\ pc = "build" /\ Len(built) < Len(rows)
        /\ NextTier.boundary <= MaxBoundary /\ NextTier.ratio <= Percent
        /\ built # <<>> => NextTier.boundary > built[Len(built)].boundary
        /\ built' = Append(built, Derived(NextTier)) /\ UNCHANGED <<pc, rows, table>>
    BY <1>2 DEF BuildTier
  <2>2. /\ rows \in Seq(TierRatio) /\ built \in Seq(TierRatio) /\ Len(rows) <= TierCount
        /\ TierCount \in Nat /\ MaxBoundary \in Nat
        /\ Len(rows) \in Nat /\ Len(built) \in Nat
    BY <2>1, CurveAssumption DEF CurveInv, TypeOK
  <2>3. NextTier = rows[Len(built) + 1] /\ NextTier \in TierRatio
    BY <2>1, <2>2 DEF NextTier
  <2>4. built' \in Seq(TierRatio) /\ IsCurve(built')
    BY <2>1, <2>2, <2>3, DerivedKeepsCurve DEF CurveInv
  <2>5. /\ Len(built') = Len(built) + 1 /\ built'[Len(built) + 1] = Derived(NextTier)
        /\ \A i \in 1 .. Len(built) : built'[i] = built[i]
    <3>1. Derived(NextTier) \in TierRatio
      <4>1. built'[Len(built) + 1] = Derived(NextTier) /\ Len(built') = Len(built) + 1
        BY <2>1, <2>2
      <4> QED BY <2>2, <2>4, <4>1
    <3> QED BY <2>1, <2>2, <3>1, AppendProperties
  <2>6. Derived(NextTier).boundary = NextTier.boundary /\ Derived(NextTier).ratio = NextTier.ratio
    BY <2>3 DEF Derived, TierRatio
  <2>7. ASSUME NEW i \in DOMAIN built'
        PROVE  built'[i].boundary = rows[i].boundary /\ built'[i].ratio = rows[i].ratio
    <3>1. i \in 1 .. Len(built) + 1 BY <2>2, <2>4, <2>5
    <3>2. CASE i = Len(built) + 1 BY <2>3, <2>5, <2>6, <3>2
    <3>3. CASE i \in 1 .. Len(built)
      <4>1. i \in DOMAIN built BY <2>2, <3>3
      <4> QED BY <2>1, <2>5, <3>3, <4>1 DEF CurveInv
    <3> QED BY <2>2, <3>1, <3>2, <3>3
  <2>8. TypeOK' BY <2>1, <2>2, <2>4, <2>5 DEF CurveInv, TypeOK
  <2>9. IsCurve(built)' BY <2>4 DEF IsCurve, Within, Below, Origin, Cut
  <2> QED BY <2>1, <2>2, <2>5, <2>7, <2>8, <2>9 DEF CurveInv
<1> QED BY <1>1, <1>2

(* ... and when validateTierPrecomputed has compared the columns: the rows *)
(* then are the derived curve.                                             *)
LEMMA CompareKeeps == CurveInv /\ Compare /\ UNCHANGED model => CurveInv'
<1> SUFFICES ASSUME CurveInv, Compare, UNCHANGED model PROVE CurveInv' OBVIOUS
<1>1. CASE Refuse BY <1>1, RefuseKeeps
<1>2. CASE ~Refuse
  <2>1. /\ pc = "build" /\ Len(built) = Len(rows)
        /\ \A i \in DOMAIN rows : built[i].precomp = rows[i].precomp
        /\ pc' = "loaded" /\ table' = PadRatios /\ UNCHANGED <<rows, built>>
    BY <1>2 DEF Compare
  <2>2. rows \in Seq(TierRatio) /\ built \in Seq(TierRatio) /\ Len(rows) <= TierCount
    BY <2>1 DEF CurveInv, TypeOK
  <2>3. ASSUME NEW i \in 1 .. Len(rows) PROVE rows[i] = built[i]
    <3>1. rows[i] \in TierRatio /\ built[i] \in TierRatio /\ i \in DOMAIN built /\ i \in DOMAIN rows
      BY <2>1, <2>2
    <3>2. built[i].boundary = rows[i].boundary /\ built[i].ratio = rows[i].ratio
      BY <2>1, <3>1 DEF CurveInv
    <3> QED BY <2>1, <3>1, <3>2 DEF TierRatio
  <2>4. rows = built BY <2>1, <2>2, <2>3, SeqEqual
  <2>5. PadRatios \in Seq(TierRatio) /\ Len(PadRatios) = TierCount BY <2>2, PadTyped
  <2>6. PadRatios' = PadRatios BY <2>1 DEF PadRatios, Reserved
  <2>7. TypeOK' BY <2>1, <2>5 DEF CurveInv, TypeOK
  <2>8. IsCurve(built)' BY <2>1 DEF CurveInv, IsCurve, Within, Below, Origin, Cut
  <2>9. Len(rows') <= TierCount /\ Len(built') <= Len(rows')
    <3>1. Len(rows) \in Nat BY <2>2
    <3> QED BY <2>1, <2>2, <3>1
  <2>10. rows' = built' /\ table' = PadRatios' /\ pc' = "loaded" BY <2>1, <2>4, <2>6
  <2> QED BY <2>7, <2>8, <2>9, <2>10 DEF CurveInv
<1> QED BY <1>1, <1>2

(* Whatever tier_ratios.csv holds, what BuildTierCurve has derived is a    *)
(* strictly growing cumulative curve, and a loaded curve is that curve,    *)
(* padded.                                                                 *)
THEOREM CurveInvariant == Spec => []CurveInv
<1>1. CurveInv /\ [Next]_vars => CurveInv'
  <2> SUFFICES ASSUME CurveInv, [Next]_vars PROVE CurveInv' OBVIOUS
  <2>1. CASE UNCHANGED vars
    BY <2>1 DEF vars, CurveInv, TypeOK, IsCurve, Within, Below, Origin, Cut, PadRatios, Reserved
  <2> QED BY <2>1, ReadTierKeeps, EndOfFileKeeps, BuildTierKeeps, CompareKeeps DEF Next
<1> QED BY <1>1, InitCurve, PTL DEF Spec

(* Type correctness of the loader's state.                                 *)
THEOREM TypeCorrect == Spec => []TypeOK
<1>1. CurveInv => TypeOK BY DEF CurveInv
<1> QED BY <1>1, CurveInvariant, PTL

-----------------------------------------------------------------------------
(* What a loaded curve credits *)

(* Every nonempty set of naturals has a least member.                      *)
LEMMA LeastOf ==
  ASSUME NEW S \in SUBSET Nat, S # {}
  PROVE  \E m \in S : \A k \in S : m <= k
<1>1. \E m \in S : \A k \in S : ~(<<k, m>> \in OpToRel(<, Nat))
  BY NatLessThanWellFounded, WFMin
<1>2. \A k, m \in Nat : ~(<<k, m>> \in OpToRel(<, Nat)) => m <= k BY DEF OpToRel
<1> QED BY <1>1, <1>2

(* haircutValue stops at the first tier that reaches up to the value.      *)
LEMMA FirstFitIsLeast ==
  ASSUME NEW curve \in Seq(TierRatio), NEW v \in Nat, Fits(curve, v) # {}
  PROVE  /\ FirstFit(curve, v) \in 1 .. Len(curve)
         /\ v <= curve[FirstFit(curve, v)].boundary
         /\ \A j \in 1 .. FirstFit(curve, v) - 1 : ~(v <= curve[j].boundary)
<1> DEFINE F == Fits(curve, v)  f == FirstFit(curve, v)
<1>1. F \in SUBSET Nat /\ F # {} BY DEF Fits
<1>2. \E m \in F : \A k \in F : m <= k
  <2> HIDE DEF F
  <2> QED BY <1>1, LeastOf
<1>3. f \in F /\ \A k \in F : f <= k BY <1>2 DEF FirstFit
<1>4. f \in 1 .. Len(curve) /\ v <= curve[f].boundary BY <1>3 DEF Fits
<1>5. ASSUME NEW j \in 1 .. f - 1, v <= curve[j].boundary PROVE FALSE
  <2>1. j \in 1 .. Len(curve) /\ j < f
    <3> HIDE DEF f
    <3> QED BY <1>4
  <2>2. j \in F BY <1>5, <2>1 DEF Fits
  <2>3. f <= j BY <1>3, <2>2
  <2> HIDE DEF f
  <2> QED BY <1>4, <2>1, <2>3
<1> QED BY <1>4, <1>5

(* The share of tier k + 1 in the credit; past the last tier there is none. *)
Share(k, v) ==
  IF k < Len(rows) THEN Cut(v - Below(rows, k + 1).boundary, rows[k + 1].ratio) ELSE 0

(* The value v lies above k tiers and not above tier k + 1.                *)
Above(k, v) ==
  /\ k \in 0 .. Len(rows) /\ Below(rows, k + 1).boundary <= v
  /\ k < Len(rows) => v <= rows[k + 1].boundary

(* The padded curve: the rows, then slots of ratio 0 up to MaxBoundary.    *)
LEMMA Padded ==
  ASSUME CurveInv, pc = "loaded"
  PROVE  /\ rows \in Seq(TierRatio) /\ table \in Seq(TierRatio)
         /\ Len(rows) \in Nat /\ Len(rows) <= TierCount
         /\ TierCount \in Nat \ {0} /\ Len(table) = TierCount /\ MaxBoundary \in Nat
         /\ \A i \in 1 .. Len(rows) : table[i] = rows[i] /\ rows[i] \in TierRatio
         /\ \A i \in Len(rows) + 1 .. TierCount : table[i] = Reserved
         /\ \A i \in 1 .. Len(rows) + 1 : Below(table, i) = Below(rows, i)
<1>1. /\ rows \in Seq(TierRatio) /\ table \in Seq(TierRatio) /\ Len(rows) \in Nat
      /\ Len(rows) <= TierCount /\ TierCount \in Nat \ {0} /\ Len(table) = TierCount
      /\ MaxBoundary \in Nat
  BY CurveAssumption DEF CurveInv, TypeOK
<1>2. \A i \in 1 .. TierCount : table[i] = IF i <= Len(rows) THEN rows[i] ELSE Reserved
  BY DEF CurveInv, PadRatios
<1>3. /\ \A i \in 1 .. Len(rows) : table[i] = rows[i] /\ rows[i] \in TierRatio
      /\ \A i \in Len(rows) + 1 .. TierCount : table[i] = Reserved
  BY <1>1, <1>2
<1>4. ASSUME NEW i \in 1 .. Len(rows) + 1 PROVE Below(table, i) = Below(rows, i)
  <2>1. CASE i = 1 BY <2>1 DEF Below
  <2>2. CASE i # 1
    <3>1. i - 1 \in 1 .. Len(rows) BY <1>1, <2>2
    <3> QED BY <1>3, <2>2, <3>1 DEF Below
  <2> QED BY <2>1, <2>2
<1> QED BY <1>1, <1>3, <1>4

(* Past the largest boundary haircutValue has the last slot's cumulative   *)
(* value, which for a short T3 curve is nothing.                           *)
LEMMA PastTheBoundary ==
  ASSUME CurveInv, pc = "loaded", NEW v \in Nat, v > MaxBoundary
  PROVE  /\ Fits(table, v) = {}
         /\ HaircutValue(table, v) = table[TierCount].precomp
         /\ OffTheEnd(v) => HaircutValue(table, v) = 0
         /\ ~OffTheEnd(v) => HaircutValue(table, v) = Below(rows, Len(rows) + 1).precomp
<1> DEFINE n == Len(rows)  N == TierCount
<1>1. /\ table \in Seq(TierRatio) /\ n \in Nat /\ n <= N /\ N \in Nat \ {0} /\ Len(table) = N
      /\ MaxBoundary \in Nat /\ rows \in Seq(TierRatio)
  BY Padded
<1>2. /\ \A i \in 1 .. n : table[i] = rows[i] /\ rows[i] \in TierRatio
      /\ \A i \in n + 1 .. N : table[i] = Reserved
  BY Padded
<1>3. ASSUME NEW i \in 1 .. N PROVE ~(v <= table[i].boundary)
  <2>1. CASE i \in 1 .. n
    <3>1. rows[i].boundary \in Nat BY <1>2, <2>1 DEF TierRatio
    <3>2. rows = built /\ IsCurve(built) /\ i \in DOMAIN rows BY <1>1, <2>1 DEF CurveInv
    <3>3. rows[i].boundary <= MaxBoundary BY <3>2 DEF IsCurve
    <3> QED BY <1>1, <1>2, <2>1, <3>1, <3>3
  <2>2. CASE i \in n + 1 .. N
    <3>1. table[i].boundary = MaxBoundary BY <1>2, <2>2 DEF Reserved
    <3> QED BY <1>1, <3>1
  <2> QED BY <1>1, <2>1, <2>2
<1>4. Fits(table, v) = {} BY <1>1, <1>3 DEF Fits
<1>5. HaircutValue(table, v) = table[N].precomp BY <1>1, <1>4 DEF HaircutValue
<1>6. CASE n = N
  <2>1. ~OffTheEnd(v) BY <1>1, <1>6 DEF OffTheEnd
  <2>2. Below(rows, n + 1) = rows[n] BY <1>1, <1>6 DEF Below
  <2>3. table[N] = rows[n] BY <1>1, <1>2, <1>6
  <2> QED BY <1>4, <1>5, <2>1, <2>2, <2>3
<1>7. CASE n < N
  <2>1. N \in n + 1 .. N BY <1>1, <1>7
  <2>2. table[N] = Reserved BY <1>2, <2>1
  <2>3. CASE model = "T3"
    <3>1. OffTheEnd(v) BY <1>1, <1>7, <2>3 DEF OffTheEnd
    <3>2. Reserved.precomp = 0 BY <2>3 DEF Reserved
    <3> QED BY <1>4, <1>5, <2>2, <3>1, <3>2
  <2>4. CASE model = "T4"
    <3>1. ~OffTheEnd(v) BY <2>4 DEF OffTheEnd
    <3>2. CASE rows = <<>>
      <4>1. n = 0 /\ Below(rows, n + 1).precomp = 0 BY <3>2 DEF Below, Origin
      <4>2. Reserved.precomp = 0 BY <3>2 DEF Reserved
      <4> QED BY <1>4, <1>5, <2>2, <3>1, <4>1, <4>2
    <3>3. CASE rows # <<>>
      <4>1. n # 0 BY <1>1, <3>3
      <4>2. Below(rows, n + 1) = rows[n] BY <1>1, <4>1 DEF Below
      <4>3. Reserved.precomp = rows[n].precomp BY <2>4, <3>3 DEF Reserved
      <4> QED BY <1>4, <1>5, <2>2, <3>1, <4>2, <4>3
    <3> QED BY <3>2, <3>3
  <2> QED BY <2>3, <2>4 DEF CurveInv, TypeOK
<1> QED BY <1>1, <1>6, <1>7

(* The credit haircutValue reads off a loaded curve: the cumulative value  *)
(* of the tiers below, and a share of the rest.                            *)
LEMMA CreditAt ==
  ASSUME CurveInv, pc = "loaded", NEW v \in Nat, ~OffTheEnd(v)
  PROVE  \E k \in 0 .. Len(rows) :
           Above(k, v) /\ HaircutValue(table, v) = Below(rows, k + 1).precomp + Share(k, v)
<1> DEFINE n == Len(rows)  N == TierCount
<1>1. /\ rows \in Seq(TierRatio) /\ table \in Seq(TierRatio) /\ n \in Nat /\ n <= N
      /\ N \in Nat \ {0} /\ Len(table) = N /\ MaxBoundary \in Nat /\ v \in Nat
  BY Padded
<1>2. /\ \A i \in 1 .. n : table[i] = rows[i]
      /\ \A i \in n + 1 .. N : table[i] = Reserved
  BY Padded
<1>3. \A i \in 1 .. n + 1 : Below(table, i) = Below(rows, i) BY Padded
<1>4. \A i \in 1 .. n : rows[i] \in TierRatio BY Padded
<1>5. Below(rows, n + 1) \in TierRatio BY <1>1, BelowTyped
<1>6. CASE v > MaxBoundary
  <2>1. HaircutValue(table, v) = Below(rows, n + 1).precomp BY <1>6, PastTheBoundary
  <2>2. Below(rows, n + 1).precomp + Share(n, v) = Below(rows, n + 1).precomp
    <3>1. ~(n < n) BY <1>1
    <3>2. Share(n, v) = 0 BY <3>1 DEF Share
    <3>3. Below(rows, n + 1).precomp \in Nat BY <1>5 DEF TierRatio
    <3> QED BY <3>2, <3>3
  <2>3. Below(rows, n + 1).boundary <= v
    <3>1. CASE n = 0 BY <1>1, <3>1 DEF Below, Origin
    <3>2. CASE n # 0
      <4>1. Below(rows, n + 1) = rows[n] /\ n \in DOMAIN rows BY <1>1, <3>2 DEF Below
      <4>2. rows[n].boundary <= MaxBoundary BY <4>1 DEF CurveInv, IsCurve
      <4>3. rows[n].boundary \in Nat BY <1>5, <4>1 DEF TierRatio
      <4> QED BY <1>1, <1>6, <4>1, <4>2, <4>3
    <3> QED BY <3>1, <3>2
  <2>4. n \in 0 .. n /\ ~(n < n) BY <1>1
  <2>5. Above(n, v) BY <2>3, <2>4 DEF Above
  <2> WITNESS n \in 0 .. Len(rows)
  <2> QED BY <2>1, <2>2, <2>5
<1>7. CASE v <= MaxBoundary /\ Fits(table, v) = {}
  <2>1. \A i \in 1 .. N : ~(v <= table[i].boundary) BY <1>1, <1>7 DEF Fits
  <2>2. n = N
    <3>1. SUFFICES ASSUME n < N PROVE FALSE BY <1>1
    <3>2. N \in 1 .. N /\ table[N] = Reserved BY <1>1, <1>2, <3>1
    <3> QED BY <1>1, <1>7, <2>1, <3>2 DEF Reserved
  <2>3. HaircutValue(table, v) = rows[n].precomp
    <3>1. HaircutValue(table, v) = table[N].precomp BY <1>1, <1>7 DEF HaircutValue
    <3>2. table[N] = rows[n] BY <1>1, <1>2, <2>2
    <3> QED BY <3>1, <3>2
  <2>4. Below(rows, n + 1) = rows[n] BY <1>1, <2>2 DEF Below
  <2>5. ~(v <= rows[n].boundary) /\ rows[n] \in TierRatio BY <1>1, <1>2, <1>4, <2>1, <2>2
  <2>6. Above(n, v)
    <3>1. rows[n].boundary \in Nat BY <2>5 DEF TierRatio
    <3>2. rows[n].boundary <= v BY <1>1, <2>5, <3>1
    <3>3. n \in 0 .. n /\ ~(n < n) BY <1>1
    <3> QED BY <2>4, <3>2, <3>3 DEF Above
  <2>7. Below(rows, n + 1).precomp + Share(n, v) = rows[n].precomp
    <3>1. ~(n < n) BY <1>1
    <3>2. Share(n, v) = 0 BY <3>1 DEF Share
    <3>3. rows[n].precomp \in Nat BY <2>5 DEF TierRatio
    <3> QED BY <2>4, <3>2, <3>3
  <2>8. n \in 0 .. n BY <1>1
  <2> WITNESS n \in 0 .. Len(rows)
  <2> QED BY <2>3, <2>6, <2>7
<1>8. CASE v <= MaxBoundary /\ Fits(table, v) # {}
  <2> DEFINE f == FirstFit(table, v)
  <2>1. f \in 1 .. N /\ v <= table[f].boundary /\ \A j \in 1 .. f - 1 : ~(v <= table[j].boundary)
    BY <1>1, <1>8, FirstFitIsLeast
  <2>2. HaircutValue(table, v) = Within(table, f, v) BY <1>8 DEF HaircutValue
  <2> HIDE DEF f
  <2>3. f <= n + 1
    <3>1. SUFFICES ASSUME n + 1 < f PROVE FALSE BY <1>1, <2>1
    <3>2. n + 1 \in 1 .. f - 1 /\ n + 1 \in n + 1 .. N BY <1>1, <2>1, <3>1
    <3>3. table[n + 1].boundary = MaxBoundary BY <1>2, <3>2 DEF Reserved
    <3> QED BY <1>1, <1>8, <2>1, <3>2, <3>3
  <2>4. Below(rows, f).boundary <= v
    <3>1. CASE f = 1 BY <1>1, <3>1 DEF Below, Origin
    <3>2. CASE f # 1
      <4>1. f - 1 \in 1 .. n /\ f - 1 \in 1 .. f - 1 BY <1>1, <2>1, <2>3, <3>2
      <4>2. table[f - 1] = rows[f - 1] /\ rows[f - 1] \in TierRatio BY <1>2, <1>4, <4>1
      <4>3. ~(v <= rows[f - 1].boundary) BY <2>1, <4>1, <4>2
      <4>4. rows[f - 1].boundary \in Nat BY <4>2 DEF TierRatio
      <4>5. rows[f - 1].boundary <= v BY <1>1, <4>3, <4>4
      <4> QED BY <3>2, <4>5 DEF Below
    <3> QED BY <3>1, <3>2
  <2>5. PICK k \in 0 .. n : f = k + 1
    <3>1. f - 1 \in 0 .. n /\ f = (f - 1) + 1 BY <1>1, <2>1, <2>3
    <3> QED BY <3>1
  <2>6. Below(table, k + 1) = Below(rows, k + 1) BY <1>1, <1>3, <2>5
  <2>7. CASE k < n
    <3>1. table[k + 1] = rows[k + 1] BY <1>1, <1>2, <2>5, <2>7
    <3>2. Above(k, v) BY <2>1, <2>4, <2>5, <3>1 DEF Above
    <3>3. Within(table, k + 1, v) = Below(rows, k + 1).precomp + Share(k, v)
      BY <2>6, <2>7, <3>1 DEF Within, Share
    <3> QED BY <2>2, <2>5, <3>2, <3>3
  <2>8. CASE k = n
    <3>1. table[k + 1] = Reserved BY <1>1, <1>2, <2>1, <2>5, <2>8
    <3>2. Above(k, v) BY <1>1, <2>4, <2>5, <2>8 DEF Above
    <3>3. v - Below(rows, k + 1).boundary \in Nat
      BY <1>1, <1>5, <2>4, <2>5, <2>8 DEF TierRatio
    <3>4. Cut(v - Below(rows, k + 1).boundary, 0) = 0 BY <3>3, CutNothing
    <3>5. Within(table, k + 1, v) = Below(rows, k + 1).precomp + 0
      BY <2>6, <3>1, <3>4 DEF Within, Reserved
    <3>6. Share(k, v) = 0 BY <1>1, <2>8 DEF Share
    <3> QED BY <2>2, <2>5, <3>2, <3>5, <3>6
  <2> QED BY <1>1, <2>5, <2>7, <2>8
<1> QED BY <1>1, <1>7, <1>8, <1>6

(* A tier below another one ends where the other begins, or before.        *)
LEMMA CurveGrows ==
  ASSUME CurveInv, pc = "loaded",
         NEW k \in 0 .. Len(rows), NEW l \in 0 .. Len(rows), k < l
  PROVE  /\ rows[k + 1].boundary <= Below(rows, l + 1).boundary
         /\ rows[k + 1].precomp <= Below(rows, l + 1).precomp
         /\ rows[k + 1].precomp = Below(rows, k + 1).precomp
              + Cut(rows[k + 1].boundary - Below(rows, k + 1).boundary, rows[k + 1].ratio)
<1>1. rows \in Seq(TierRatio) /\ rows = built /\ IsCurve(rows) BY DEF CurveInv, TypeOK
<1>2. /\ k \in Nat /\ l \in Nat /\ Len(rows) \in Nat
      /\ k + 1 \in 1 .. Len(rows) /\ l \in 1 .. Len(rows) /\ k + 1 <= l
  BY <1>1
<1>3. Below(rows, l + 1) = rows[l] BY <1>2 DEF Below
<1>4. rows[k + 1] \in TierRatio /\ rows[l] \in TierRatio BY <1>1, <1>2
<1>5. rows[k + 1].boundary <= rows[l].boundary /\ rows[k + 1].precomp <= rows[l].precomp
  <2>1. CASE k + 1 = l BY <1>4, <2>1 DEF TierRatio
  <2>2. CASE k + 1 # l
    <3>1. k + 1 \in 1 .. l - 1 /\ l \in DOMAIN rows BY <1>1, <1>2, <2>2
    <3>2. rows[k + 1].boundary < rows[l].boundary /\ rows[k + 1].precomp <= rows[l].precomp
      BY <1>1, <3>1 DEF IsCurve
    <3>3. rows[k + 1].boundary \in Nat /\ rows[l].boundary \in Nat BY <1>4 DEF TierRatio
    <3> QED BY <3>2, <3>3
  <2> QED BY <2>1, <2>2
<1>6. rows[k + 1].precomp = Within(rows, k + 1, rows[k + 1].boundary)
  BY <1>1, <1>2 DEF IsCurve
<1> QED BY <1>3, <1>5, <1>6 DEF Within

(* What lies above k tiers is worth their sum and a share of the rest.     *)
LEMMA ShareBounds ==
  ASSUME CurveInv, pc = "loaded", NEW v \in Nat, NEW k, Above(k, v)
  PROVE  /\ Below(rows, k + 1) \in TierRatio
         /\ Below(rows, k + 1).precomp <= Below(rows, k + 1).boundary
         /\ v - Below(rows, k + 1).boundary \in Nat
         /\ Share(k, v) \in Nat /\ Share(k, v) <= v - Below(rows, k + 1).boundary
         /\ k < Len(rows) =>
              Below(rows, k + 1).precomp + Share(k, v) <= rows[k + 1].precomp
<1> DEFINE low == Below(rows, k + 1)  up == rows[k + 1]
<1>1. rows \in Seq(TierRatio) /\ rows = built /\ IsCurve(rows) BY DEF CurveInv, TypeOK
<1>2. k \in 0 .. Len(rows) /\ low.boundary <= v /\ (k < Len(rows) => v <= up.boundary)
  BY DEF Above
<1>3. low \in TierRatio BY <1>1, <1>2, BelowTyped
<1>4. low.precomp <= low.boundary
  <2>1. CASE k = 0 BY <2>1 DEF Below, Origin
  <2>2. CASE k # 0
    <3>1. k \in 1 .. Len(rows) /\ low = rows[k] BY <1>1, <1>2, <2>2 DEF Below
    <3> QED BY <1>1, <3>1 DEF IsCurve
  <2> QED BY <2>1, <2>2
<1>5. v - low.boundary \in Nat /\ low.boundary \in Nat /\ low.precomp \in Nat
  BY <1>2, <1>3 DEF TierRatio
<1>6. CASE k = Len(rows)
  <2>1. ~(k < Len(rows)) BY <1>1, <1>6
  <2>2. Share(k, v) = 0 BY <2>1 DEF Share
  <2> QED BY <1>3, <1>4, <1>5, <2>1, <2>2
<1>7. CASE k < Len(rows)
  <2>1. k + 1 \in 1 .. Len(rows) /\ k + 1 \in 0 .. Len(rows) BY <1>1, <1>2, <1>7
  <2>2. up \in TierRatio /\ up.ratio <= Percent BY <1>1, <2>1 DEF IsCurve
  <2>3. up.ratio \in Nat /\ up.boundary \in Nat /\ up.precomp \in Nat BY <2>2 DEF TierRatio
  <2>4. Share(k, v) = Cut(v - low.boundary, up.ratio) BY <1>7 DEF Share
  <2>5. Share(k, v) \in Nat /\ Share(k, v) <= v - low.boundary
    BY <1>5, <2>2, <2>3, <2>4, CutShrinks
  <2>6. up.precomp = low.precomp + Cut(up.boundary - low.boundary, up.ratio)
    BY <1>2, <2>1, CurveGrows, k < k + 1
  <2>7. up.boundary - low.boundary \in Nat /\ v - low.boundary <= up.boundary - low.boundary
    <3> DEFINE l == low.boundary  u == up.boundary
    <3>1. l \in Nat /\ u \in Nat /\ l <= v /\ v <= u BY <1>2, <1>5, <1>7, <2>3
    <3> HIDE DEF l, u
    <3>2. u - l \in Nat /\ v - l <= u - l BY <3>1
    <3> QED BY <3>2 DEF l, u
  <2>8. Share(k, v) <= Cut(up.boundary - low.boundary, up.ratio)
    <3> DEFINE a == v - low.boundary  b == up.boundary - low.boundary  r == up.ratio
    <3>1. a \in Nat /\ b \in Nat /\ r \in Nat /\ a <= b BY <1>5, <2>3, <2>7
    <3> HIDE DEF a, b, r
    <3>2. Cut(a, r) <= Cut(b, r) BY <3>1, CutGrows
    <3> QED BY <2>4, <3>2 DEF a, b, r
  <2>9. Cut(up.boundary - low.boundary, up.ratio) \in Nat
    BY <2>2, <2>3, <2>7, CutShrinks
  <2>10. low.precomp + Share(k, v) <= up.precomp
    <3> DEFINE l == low.precomp  s == Share(k, v)
               c == Cut(up.boundary - low.boundary, up.ratio)
    <3>1. l \in Nat /\ s \in Nat /\ c \in Nat /\ s <= c BY <1>5, <2>5, <2>8, <2>9
    <3>2. up.precomp = l + c BY <2>6
    <3> HIDE DEF l, s, c
    <3>3. l + s <= l + c BY <3>1
    <3>4. l + s <= up.precomp BY <3>2, <3>3
    <3> QED BY <3>4 DEF l, s
  <2> QED BY <1>3, <1>4, <1>5, <2>5, <2>10
<1>8. k = Len(rows) \/ k < Len(rows) BY <1>1, <1>2
<1> QED BY <1>6, <1>7, <1>8

(* More collateral never earns less credit, and never more than itself.    *)
LEMMA CreditGrows ==
  ASSUME CurveInv, pc = "loaded",
         NEW v \in Nat, NEW w \in Nat, v <= w, ~OffTheEnd(w)
  PROVE  HaircutValue(table, v) <= HaircutValue(table, w) /\ HaircutValue(table, w) <= w
<1>0. ~OffTheEnd(v) BY CurveAssumption DEF OffTheEnd
<1>1. PICK k \in 0 .. Len(rows) : Above(k, v)
        /\ HaircutValue(table, v) = Below(rows, k + 1).precomp + Share(k, v)
  BY <1>0, CreditAt
<1>2. PICK l \in 0 .. Len(rows) : Above(l, w)
        /\ HaircutValue(table, w) = Below(rows, l + 1).precomp + Share(l, w)
  BY CreditAt
<1> DEFINE a == Below(rows, k + 1)  b == Below(rows, l + 1)
<1>3. /\ a \in TierRatio /\ Share(k, v) \in Nat
      /\ k < Len(rows) => a.precomp + Share(k, v) <= rows[k + 1].precomp
  BY <1>0, <1>1, ShareBounds
<1>4. /\ b \in TierRatio /\ Share(l, w) \in Nat /\ b.precomp <= b.boundary
      /\ w - b.boundary \in Nat /\ Share(l, w) <= w - b.boundary
  BY <1>0, <1>2, ShareBounds
<1>5. a.precomp \in Nat /\ b.precomp \in Nat /\ a.boundary \in Nat /\ b.boundary \in Nat
  BY <1>3, <1>4 DEF TierRatio
<1>6. HaircutValue(table, w) <= w BY <1>0, <1>2, <1>4, <1>5
<1>7. rows \in Seq(TierRatio) /\ Len(rows) \in Nat BY DEF CurveInv, TypeOK
<1>8. \A i \in 1 .. Len(rows) : rows[i] \in TierRatio BY <1>7
<1>9. CASE k = l
  <2>1. Share(k, v) <= Share(k, w)
    <3>1. CASE k < Len(rows)
      <4>1. k + 1 \in 1 .. Len(rows) BY <1>7, <3>1
      <4>2. rows[k + 1].ratio \in Nat BY <1>8, <4>1 DEF TierRatio
      <4>3. v - a.boundary \in Nat /\ w - a.boundary \in Nat /\ v - a.boundary <= w - a.boundary
        BY <1>0, <1>1, <1>4, <1>5, <1>9, ShareBounds
      <4> QED BY <3>1, <4>2, <4>3, CutGrows DEF Share
    <3>2. CASE ~(k < Len(rows)) BY <3>2 DEF Share
    <3> QED BY <3>1, <3>2
  <2> QED BY <1>1, <1>2, <1>3, <1>4, <1>5, <1>6, <1>9, <2>1
<1>10. CASE k < l
  <2>1. rows[k + 1].precomp <= b.precomp BY <1>10, CurveGrows
  <2>2. k < Len(rows) /\ k + 1 \in 1 .. Len(rows) BY <1>7, <1>10
  <2>3. rows[k + 1].precomp \in Nat BY <1>8, <2>2 DEF TierRatio
  <2>4. a.precomp + Share(k, v) <= rows[k + 1].precomp BY <1>3, <2>2
  <2>5. a.precomp + Share(k, v) <= b.precomp + Share(l, w)
    <3> DEFINE p == a.precomp  s == Share(k, v)  u == rows[k + 1].precomp
               q == b.precomp  t == Share(l, w)
    <3>1. /\ p \in Nat /\ s \in Nat /\ u \in Nat /\ q \in Nat /\ t \in Nat
          /\ p + s <= u /\ u <= q
      BY <1>3, <1>4, <1>5, <2>1, <2>3, <2>4
    <3> HIDE DEF p, s, u, q, t
    <3>2. p + s <= q + t BY <3>1
    <3> QED BY <3>2 DEF p, s, q, t
  <2> QED BY <1>1, <1>2, <1>6, <2>5
<1>11. CASE l < k
  <2>1. rows[l + 1].boundary <= a.boundary BY <1>11, CurveGrows
  <2>2. l < Len(rows) /\ l + 1 \in 1 .. Len(rows) BY <1>7, <1>11
  <2>3. rows[l + 1].boundary \in Nat BY <1>8, <2>2 DEF TierRatio
  <2>4. w <= rows[l + 1].boundary /\ a.boundary <= v BY <1>1, <1>2, <2>2 DEF Above
  <2>5. v = w BY <1>0, <1>5, <2>1, <2>3, <2>4
  <2> QED BY <1>2, <1>4, <1>5, <1>6, <2>5
<1>12. k = l \/ k < l \/ l < k BY <1>7
<1> QED BY <1>9, <1>10, <1>11, <1>12

(* For every loaded curve, of either model, and every value, up to and     *)
(* past the largest boundary, the host's collateral credit never exceeds   *)
(* the collateral, and never falls when the collateral grows, but for the  *)
(* end of a short T3 curve, where it drops to nothing.                     *)
THEOREM CreditSound == Spec => []CreditIsSound
<1>1. CurveInv => CreditIsSound
  <2> SUFFICES ASSUME CurveInv, pc = "loaded",
                      NEW v \in 0 .. MaxValue, NEW w \in 0 .. MaxValue, v <= w
               PROVE  /\ HaircutValue(table, w) <= w
                      /\ IF OffTheEnd(w) THEN HaircutValue(table, w) = 0
                         ELSE HaircutValue(table, v) <= HaircutValue(table, w)
    BY DEF CreditIsSound
  <2>1. v \in Nat /\ w \in Nat BY CurveAssumption
  <2>2. CASE OffTheEnd(w)
    <3>1. w > MaxBoundary BY <2>2 DEF OffTheEnd
    <3>2. HaircutValue(table, w) = 0 BY <2>1, <2>2, <3>1, PastTheBoundary
    <3> QED BY <2>1, <2>2, <3>2
  <2>3. CASE ~OffTheEnd(w) BY <2>1, <2>3, CreditGrows
  <2> QED BY <2>2, <2>3
<1> QED BY <1>1, CurveInvariant, PTL

-----------------------------------------------------------------------------
(* The circuit computes what the host added up *)

(* The padded curve passes the range and order checks of the circuit.      *)
LEMMA PaddedGrows ==
  ASSUME CurveInv, pc = "loaded", NEW i \in 1 .. TierCount
  PROVE  /\ table[i] \in TierRatio
         /\ table[i].ratio <= Percent /\ table[i].boundary <= MaxBoundary
         /\ Below(table, i) \in TierRatio /\ Below(table, i).boundary <= table[i].boundary
<1> DEFINE n == Len(rows)
<1>1. /\ table \in Seq(TierRatio) /\ n \in Nat /\ TierCount \in Nat
      /\ Len(table) = TierCount /\ MaxBoundary \in Nat
      /\ \A j \in 1 .. n : table[j] = rows[j] /\ rows[j] \in TierRatio
      /\ \A j \in n + 1 .. TierCount : table[j] = Reserved
  BY Padded
<1>2. rows = built /\ IsCurve(rows) /\ DOMAIN rows = 1 .. n BY <1>1 DEF CurveInv, TypeOK
<1>3. ASSUME NEW j \in 1 .. TierCount
      PROVE  /\ table[j] \in TierRatio /\ table[j].ratio <= Percent
             /\ table[j].boundary <= MaxBoundary
  <2>1. table[j] \in TierRatio BY <1>1
  <2>2. CASE j <= n
    <3>1. j \in 1 .. n BY <1>1, <2>2
    <3>2. rows[j].ratio <= Percent /\ rows[j].boundary <= MaxBoundary
      BY <1>2, <3>1 DEF IsCurve
    <3> QED BY <1>1, <2>1, <3>1, <3>2
  <2>3. CASE ~(j <= n)
    <3>1. j \in n + 1 .. TierCount BY <1>1, <2>3
    <3>2. table[j].ratio = 0 /\ table[j].boundary = MaxBoundary BY <1>1, <3>1 DEF Reserved
    <3> QED BY <1>1, <2>1, <3>2 DEF Percent
  <2> QED BY <2>2, <2>3
<1>4. CASE i = 1
  <2>1. Below(table, i) = Origin BY <1>4 DEF Below
  <2>2. table[i].boundary \in Nat BY <1>3 DEF TierRatio
  <2> QED BY <1>3, <2>1, <2>2 DEF Origin, TierRatio
<1>5. CASE i # 1
  <2>1. i - 1 \in 1 .. TierCount /\ i - 1 \in Nat BY <1>1, <1>5
  <2>2. Below(table, i) = table[i - 1] BY <1>5 DEF Below
  <2>3. table[i - 1].boundary <= table[i].boundary
    <3>1. CASE i <= n
      <4>1. i \in 1 .. n /\ i - 1 \in 1 .. n /\ i - 1 \in 1 .. i - 1 BY <1>1, <2>1, <3>1
      <4>2. rows[i - 1].boundary < rows[i].boundary BY <1>2, <4>1 DEF IsCurve
      <4>3. rows[i - 1].boundary \in Nat /\ rows[i].boundary \in Nat
        <5>1. rows[i - 1] \in TierRatio /\ rows[i] \in TierRatio BY <1>1, <4>1
        <5> QED BY <5>1 DEF TierRatio
      <4>4. rows[i - 1].boundary <= rows[i].boundary BY <4>2, <4>3
      <4> QED BY <1>1, <4>1, <4>4
    <3>2. CASE ~(i <= n)
      <4>1. i \in n + 1 .. TierCount BY <1>1, <3>2
      <4>2. table[i].boundary = MaxBoundary BY <1>1, <4>1 DEF Reserved
      <4> QED BY <1>3, <2>1, <4>2
    <3> QED BY <3>1, <3>2
  <2> QED BY <1>3, <2>1, <2>2, <2>3
<1> QED BY <1>4, <1>5

(* The cumulative column up to tier k, constant past the last row.         *)
Column(k) == Below(rows, IF k <= Len(rows) THEN k + 1 ELSE Len(rows) + 1).precomp

(* The authored column obeys the recurrence of the circuit.                *)
LEMMA ColumnStep ==
  ASSUME CurveInv, pc = "loaded", NEW k \in 1 .. TierCount
  PROVE  Column(k) = Column(k - 1)
           + Cut(table[k].boundary - Below(table, k).boundary, table[k].ratio)
<1> DEFINE n == Len(rows)  width == table[k].boundary - Below(table, k).boundary
<1>1. /\ rows \in Seq(TierRatio) /\ n \in Nat /\ TierCount \in Nat
      /\ \A j \in 1 .. n : table[j] = rows[j]
      /\ \A j \in n + 1 .. TierCount : table[j] = Reserved
      /\ \A j \in 1 .. n + 1 : Below(table, j) = Below(rows, j)
  BY Padded
<1>2. CASE k <= n
  <2>1. k \in 1 .. n /\ k \in 1 .. n + 1 /\ k - 1 <= n /\ (k - 1) + 1 = k /\ k \in DOMAIN rows
    BY <1>1, <1>2
  <2>2. Column(k) = rows[k].precomp
    <3>1. Column(k) = Below(rows, k + 1).precomp BY <1>2 DEF Column
    <3>2. k + 1 # 1 /\ (k + 1) - 1 = k BY <1>1, <2>1
    <3> QED BY <3>1, <3>2 DEF Below
  <2>3. Column(k - 1) = Below(rows, k).precomp BY <2>1 DEF Column
  <2>4. rows = built /\ IsCurve(rows) BY DEF CurveInv
  <2>5. rows[k].precomp = Within(rows, k, rows[k].boundary) BY <2>1, <2>4 DEF IsCurve
  <2>6. table[k] = rows[k] /\ Below(table, k) = Below(rows, k) BY <1>1, <2>1
  <2> QED BY <2>2, <2>3, <2>5, <2>6 DEF Within
<1>3. CASE ~(k <= n)
  <2>1. k \in n + 1 .. TierCount BY <1>1, <1>3
  <2>2. table[k].ratio = 0 BY <1>1, <2>1 DEF Reserved
  <2>3. width \in Nat
    <3>1. /\ table[k] \in TierRatio /\ Below(table, k) \in TierRatio
          /\ Below(table, k).boundary <= table[k].boundary
      BY PaddedGrows
    <3> QED BY <3>1 DEF TierRatio
  <2>4. Cut(width, table[k].ratio) = 0 BY <2>2, <2>3, CutNothing
  <2>5. Column(k) = Below(rows, n + 1).precomp BY <1>3 DEF Column
  <2>6. Column(k - 1) = Below(rows, n + 1).precomp
    <3>1. CASE k - 1 = n BY <3>1 DEF Column
    <3>2. CASE k - 1 # n
      <4>1. ~(k - 1 <= n) BY <1>1, <1>3, <3>2
      <4> QED BY <4>1 DEF Column
    <3> QED BY <3>1, <3>2
  <2>7. Below(rows, n + 1).precomp \in Nat
    <3>1. Below(rows, n + 1) \in TierRatio BY <1>1, BelowTyped
    <3> QED BY <3>1 DEF TierRatio
  <2> HIDE DEF width
  <2>8. Column(k) = Column(k - 1) + Cut(width, table[k].ratio) BY <2>4, <2>5, <2>6, <2>7
  <2> QED BY <2>8 DEF width
<1> QED BY <1>2, <1>3

(* generateRapidArithmeticForCollateral derives the authored column.       *)
LEMMA CircuitColumn ==
  ASSUME CurveInv, pc = "loaded"
  PROVE  \A k \in 0 .. TierCount : CircuitPrecomp[k] = Column(k)
<1> DEFINE N == TierCount
           Step(k) == Cut(table[k].boundary - Below(table, k).boundary, table[k].ratio)
           g == [k \in 0 .. N |-> Column(k)]
<1>1. N \in Nat /\ Len(rows) \in Nat BY Padded
<1>2. Column(0) = 0
  <2>1. 0 <= Len(rows) BY <1>1
  <2> QED BY <2>1 DEF Column, Below, Origin
<1>3. g = [k \in 0 .. N |-> IF k = 0 THEN 0 ELSE g[k - 1] + Step(k)]
  <2> SUFFICES ASSUME NEW k \in 0 .. N
               PROVE  Column(k) = IF k = 0 THEN 0 ELSE g[k - 1] + Step(k)
    OBVIOUS
  <2>1. CASE k = 0 BY <1>2, <2>1
  <2>2. CASE k # 0
    <3>1. k \in 1 .. N /\ k - 1 \in 0 .. N BY <1>1, <2>2
    <3>2. g[k - 1] = Column(k - 1) BY <3>1
    <3>3. Column(k) = Column(k - 1) + Step(k) BY <3>1, ColumnStep
    <3> QED BY <2>2, <3>2, <3>3
  <2> QED BY <2>1, <2>2
<1>4. CircuitPrecomp = [k \in 0 .. N |-> IF k = 0 THEN 0 ELSE CircuitPrecomp[k - 1] + Step(k)]
  <2>1. \E f : f = [k \in 0 .. N |-> IF k = 0 THEN 0 ELSE f[k - 1] + Step(k)]
    <3> HIDE DEF g
    <3> QED BY <1>3
  <2> QED BY <2>1 DEF CircuitPrecomp
<1> DEFINE Wrong == {k \in 0 .. N : CircuitPrecomp[k] # Column(k)}
<1>5. SUFFICES ASSUME Wrong # {} PROVE FALSE OBVIOUS
<1>6. Wrong \in SUBSET Nat OBVIOUS
<1>7. PICK m \in Wrong : \A k \in Wrong : m <= k
  <2> HIDE DEF Wrong
  <2> QED BY <1>5, <1>6, LeastOf
<1>8. CASE m = 0 BY <1>2, <1>4, <1>7, <1>8
<1>9. CASE m # 0
  <2>1. m \in 1 .. N /\ m - 1 \in 0 .. N BY <1>1, <1>9
  <2>2. m - 1 \notin Wrong
    <3>1. ~(m <= m - 1) BY <1>1, <2>1
    <3> QED BY <1>7, <3>1
  <2>3. CircuitPrecomp[m - 1] = Column(m - 1) BY <2>1, <2>2
  <2>4. CircuitPrecomp[m] = CircuitPrecomp[m - 1] + Step(m)
    <3> HIDE DEF Step
    <3> QED BY <1>4, <1>9, <2>1
  <2>5. Column(m) = Column(m - 1) + Step(m) BY <2>1, ColumnStep
  <2> QED BY <2>3, <2>4, <2>5
<1> QED BY <1>8, <1>9

(* For a value in range, the tier that pickTier claims is let through and  *)
(* its credit is the host's.                                               *)
LEMMA CircuitCredit ==
  ASSUME CurveInv, pc = "loaded", NEW v \in 0 .. MaxBoundary
  PROVE  CircuitValues(v) = {HaircutValue(table, v)}
<1> DEFINE n == Len(rows)  N == TierCount
<1>1. /\ n \in Nat /\ n <= N /\ N \in Nat \ {0} /\ Len(table) = N
      /\ table \in Seq(TierRatio) /\ MaxBoundary \in Nat /\ v \in Nat /\ N \in 1 .. N
  BY Padded
<1>2. /\ \A i \in 1 .. n : table[i] = rows[i]
      /\ \A i \in n + 1 .. N : table[i] = Reserved
      /\ \A i \in 1 .. n + 1 : Below(table, i) = Below(rows, i)
  BY Padded
<1>3. CASE Fits(table, v) = {}
  <2> DEFINE low == Below(table, N).boundary
  <2>1. ~(v <= table[N].boundary) BY <1>1, <1>3 DEF Fits
  <2>2. n = N
    <3>1. SUFFICES ASSUME n < N PROVE FALSE BY <1>1
    <3>2. N \in n + 1 .. N BY <1>1, <3>1
    <3>3. table[N].boundary = MaxBoundary BY <1>2, <3>2 DEF Reserved
    <3> QED BY <1>1, <2>1, <3>3
  <2>3. low \in Nat /\ table[N].boundary \in Nat /\ low <= table[N].boundary
    BY <1>1, PaddedGrows DEF TierRatio
  <2>4. v > low /\ v <= MaxBoundary
    <3> HIDE DEF low
    <3> QED BY <1>1, <2>1, <2>3
  <2>5. CircuitValues(v) = {CircuitPrecomp[N]}
    <3>1. PickTier(v) = [index |-> N, flag |-> 1] BY <1>3 DEF PickTier
    <3>2. PickTier(v).index = N /\ PickTier(v).flag = 1 BY <3>1
    <3> QED BY <2>4, <3>2 DEF CircuitValues
  <2>6. CircuitPrecomp[N] = table[N].precomp
    <3>1. CircuitPrecomp[N] = Below(rows, N + 1).precomp
      BY <1>1, <2>2, CircuitColumn DEF Column
    <3>2. Below(rows, N + 1) = rows[N] BY <1>1 DEF Below
    <3> QED BY <1>1, <1>2, <2>2, <3>1, <3>2
  <2>7. HaircutValue(table, v) = table[N].precomp BY <1>1, <1>3 DEF HaircutValue
  <2> QED BY <2>5, <2>6, <2>7
<1>4. CASE Fits(table, v) # {}
  <2> DEFINE f == FirstFit(table, v)  low == Below(table, f).boundary
  <2>1. f \in 1 .. N /\ v <= table[f].boundary /\ \A j \in 1 .. f - 1 : ~(v <= table[j].boundary)
    BY <1>1, <1>4, FirstFitIsLeast
  <2>2. HaircutValue(table, v) = Below(table, f).precomp + Cut(v - low, table[f].ratio)
    BY <1>4 DEF HaircutValue, Within
  <2>3. PickTier(v) = [index |-> f, flag |-> 0] BY <1>4 DEF PickTier
  <2>4. PickTier(v).index = f /\ PickTier(v).flag = 0 BY <2>3
  <2>5. f <= n + 1
    <3> HIDE DEF f
    <3>1. SUFFICES ASSUME n + 1 < f PROVE FALSE BY <1>1, <2>1
    <3>2. n + 1 \in 1 .. f - 1 /\ n + 1 \in n + 1 .. N BY <1>1, <2>1, <3>1
    <3>3. table[n + 1].boundary = MaxBoundary BY <1>2, <3>2 DEF Reserved
    <3> QED BY <1>1, <2>1, <3>2, <3>3
  <2>6. v > low \/ (v = 0 /\ low = 0)
    <3> HIDE DEF f
    <3>1. CASE f = 1
      <4>1. low = 0 BY <3>1 DEF Below, Origin
      <4> QED BY <1>1, <4>1
    <3>2. CASE f # 1
      <4>1. f - 1 \in 1 .. f - 1 /\ f - 1 \in 1 .. N BY <1>1, <2>1, <3>2
      <4>2. low = table[f - 1].boundary BY <3>2 DEF Below
      <4>3. table[f - 1].boundary \in Nat
        <5>1. table[f - 1] \in TierRatio BY <1>1, <4>1
        <5> QED BY <5>1 DEF TierRatio
      <4>4. ~(v <= table[f - 1].boundary) BY <2>1, <4>1
      <4> QED BY <1>1, <4>2, <4>3, <4>4
    <3> QED BY <3>1, <3>2
  <2>7. CircuitPrecomp[f - 1] = Below(table, f).precomp
    <3> HIDE DEF f
    <3>1. f - 1 \in 0 .. N /\ f - 1 <= n /\ (f - 1) + 1 = f /\ f \in 1 .. n + 1
      BY <1>1, <2>1, <2>5
    <3>2. CircuitPrecomp[f - 1] = Below(rows, f).precomp BY <3>1, CircuitColumn DEF Column
    <3> QED BY <1>2, <3>1, <3>2
  <2>8. CircuitValues(v) = {CircuitPrecomp[f - 1] + Cut(v - low, table[f].ratio)}
    <3> HIDE DEF f
    <3> QED BY <2>1, <2>4, <2>6 DEF CircuitValues
  <2> QED BY <2>2, <2>7, <2>8
<1> QED BY <1>3, <1>4

(* A value past MaxBoundary is let through with no tier at all.            *)
LEMMA NoCreditPastMax ==
  ASSUME CurveInv, pc = "loaded", NEW v \in Nat, v > MaxBoundary
  PROVE  CircuitValues(v) = {}
<1>1. ~(v <= MaxBoundary) BY CurveAssumption
<1>2. PickTier(v).flag = 1 BY PastTheBoundary DEF PickTier
<1> QED BY <1>1, <1>2 DEF CircuitValues

(* For every curve the loader lets through and every value up to the       *)
(* largest boundary, the circuit of T3 and T4 computes exactly the         *)
(* collateral credit the host added up when it read the snapshot; a value  *)
(* past it has no proof.                                                   *)
THEOREM CircuitAgrees == Spec => []HostMatchesCircuit
<1>1. CurveInv => HostMatchesCircuit
  <2> SUFFICES ASSUME CurveInv, pc = "loaded"
               PROVE  /\ CircuitTakes(table)
                      /\ \A v \in 0 .. MaxValue :
                           CircuitValues(v) =
                             IF v <= MaxBoundary THEN {HaircutValue(table, v)} ELSE {}
    BY DEF HostMatchesCircuit
  <2>1. CircuitTakes(table)
    <3>1. DOMAIN table = 1 .. TierCount BY Padded
    <3>2. ASSUME NEW i \in 1 .. TierCount, i > 1
          PROVE  table[i - 1].boundary <= table[i].boundary
      <4>1. Below(table, i) = table[i - 1] BY <3>2 DEF Below
      <4> QED BY <4>1, PaddedGrows
    <3> QED BY <3>1, <3>2, PaddedGrows DEF CircuitTakes
  <2>2. ASSUME NEW v \in 0 .. MaxValue
        PROVE  CircuitValues(v) = IF v <= MaxBoundary THEN {HaircutValue(table, v)} ELSE {}
    <3>1. MaxBoundary \in Nat /\ v \in Nat BY CurveAssumption
    <3>2. CASE v <= MaxBoundary
      <4>1. v \in 0 .. MaxBoundary BY <3>1, <3>2
      <4> QED BY <3>2, <4>1, CircuitCredit
    <3>3. CASE ~(v <= MaxBoundary)
      <4>1. v > MaxBoundary BY <3>1, <3>3
      <4> QED BY <3>1, <3>3, <4>1, NoCreditPastMax
    <3> QED BY <3>2, <3>3
  <2> QED BY <2>1, <2>2
<1> QED BY <1>1, CurveInvariant, PTL

-----------------------------------------------------------------------------
(* What the loader accepts and what it refuses *)

(* What tier i of a curve adds to the credit.                              *)
Increment(curve, i) == Cut(curve[i].boundary - Below(curve, i).boundary, curve[i].ratio)

(* The cumulative column of a curve is its credit, tier by tier: a column  *)
(* that starts at zero and grows by each tier's increment is the one that  *)
(* the definition of a curve adds up.                                      *)
LEMMA ReferenceOf ==
  ASSUME NEW curve \in Seq(TierRatio), NEW n \in 1 .. Len(curve), NEW col \in [0 .. n -> Nat],
         col[0] = 0, \A i \in 1 .. n : col[i] = col[i - 1] + Increment(curve, i)
  PROVE  Reference(curve, n) = col[n]
<1> DEFINE Width(i) == curve[i].boundary - (IF i = 1 THEN 0 ELSE curve[i - 1].boundary)
           Grant(i) == (Width(i) * curve[i].ratio) \div Percent
           IsColumn(f) == f = [i \in 0 .. n |->
                                 IF i = 0 THEN 0
                                 ELSE LET width == curve[i].boundary
                                            - (IF i = 1 THEN 0 ELSE curve[i - 1].boundary)
                                      IN  f[i - 1] + ((width * curve[i].ratio) \div Percent)]
           up == CHOOSE f : IsColumn(f)
<1>1. n \in Nat /\ Len(curve) \in Nat OBVIOUS
<1>2. ASSUME NEW i \in 1 .. n PROVE Increment(curve, i) = Grant(i)
  <2>1. Below(curve, i).boundary = IF i = 1 THEN 0 ELSE curve[i - 1].boundary
    BY DEF Below, Origin
  <2> QED BY <2>1 DEF Increment, Cut
<1>3. \A i \in 1 .. n : col[i] = col[i - 1] + Grant(i) BY <1>2
<1>4. IsColumn(col)
  <2> SUFFICES ASSUME NEW i \in 0 .. n
               PROVE  col[i] = IF i = 0 THEN 0 ELSE col[i - 1] + Grant(i)
    OBVIOUS
  <2>1. CASE i = 0 BY <2>1
  <2>2. CASE i # 0
    <3>1. i \in 1 .. n BY <1>1, <2>2
    <3> HIDE DEF Grant
    <3> QED BY <1>3, <2>2, <3>1
  <2> QED BY <2>1, <2>2
<1>5. IsColumn(up)
  <2> HIDE DEF IsColumn
  <2> QED BY <1>4
<1>6. Reference(curve, n) = up[n] BY DEF Reference
<1>7. up[0] = 0 /\ \A i \in 1 .. n : up[i] = up[i - 1] + Grant(i)
  <2> HIDE DEF up
  <2>1. up = [i \in 0 .. n |-> IF i = 0 THEN 0 ELSE up[i - 1] + Grant(i)] BY <1>5
  <2> HIDE DEF Grant, IsColumn
  <2>2. 0 \in 0 .. n /\ \A i \in 1 .. n : i \in 0 .. n /\ i # 0 BY <1>1
  <2> QED BY <2>1, <2>2
<1> HIDE DEF up, Grant
<1> DEFINE Wrong == {i \in 0 .. n : up[i] # col[i]}
<1>8. Wrong = {}
  <2> SUFFICES ASSUME Wrong # {} PROVE FALSE OBVIOUS
  <2>1. Wrong \in SUBSET Nat OBVIOUS
  <2>2. PICK m \in Wrong : \A k \in Wrong : m <= k
    <3> HIDE DEF Wrong
    <3> QED BY <2>1, LeastOf
  <2>3. CASE m = 0 BY <1>7, <2>2, <2>3
  <2>4. CASE m # 0
    <3>1. m \in 1 .. n /\ m - 1 \in 0 .. n BY <1>1, <2>4
    <3>2. m - 1 \notin Wrong
      <4>1. ~(m <= m - 1) BY <1>1, <3>1
      <4> QED BY <2>2, <4>1
    <3>3. up[m - 1] = col[m - 1] BY <3>1, <3>2
    <3> QED BY <1>3, <1>7, <2>2, <3>1, <3>3
  <2> QED BY <2>3, <2>4
<1>9. n \in 0 .. n BY <1>1
<1> QED BY <1>6, <1>8, <1>9

(* Two curves with the same boundaries and ratios have the same credit:    *)
(* what the loader derived of a row is the definition's credit of it.      *)
LEMMA DerivedIsReference ==
  ASSUME CurveInv, pc = "build", NEW n \in 1 .. Len(built)
  PROVE  built[n].precomp = Reference(rows, n)
<1> DEFINE col == [i \in 0 .. n |-> IF i = 0 THEN 0 ELSE built[i].precomp]
<1>1. /\ rows \in Seq(TierRatio) /\ built \in Seq(TierRatio)
      /\ Len(built) \in Nat /\ Len(rows) \in Nat /\ Len(built) <= Len(rows) /\ n \in Nat
  BY DEF CurveInv, TypeOK
<1>2. n \in 1 .. Len(rows) BY <1>1
<1>3. \A i \in 1 .. n : /\ i \in DOMAIN built /\ i \in DOMAIN rows
                        /\ built[i] \in TierRatio /\ rows[i] \in TierRatio
  BY <1>1
<1>4. col \in [0 .. n -> Nat]
  <2> SUFFICES ASSUME NEW i \in 0 .. n, i # 0 PROVE built[i].precomp \in Nat OBVIOUS
  <2>1. i \in 1 .. n BY <1>1
  <2> QED BY <1>3, <2>1 DEF TierRatio
<1>5. ASSUME NEW i \in 1 .. n PROVE col[i] = col[i - 1] + Increment(rows, i)
  <2>1. built[i].precomp = Within(built, i, built[i].boundary) BY <1>3 DEF CurveInv, IsCurve
  <2>2. built[i].boundary = rows[i].boundary /\ built[i].ratio = rows[i].ratio
    BY <1>3 DEF CurveInv
  <2>3. Below(built, i).boundary = Below(rows, i).boundary
    <3>1. CASE i = 1 BY <3>1 DEF Below
    <3>2. CASE i # 1
      <4>1. i - 1 \in 1 .. n BY <1>1, <3>2
      <4>2. built[i - 1].boundary = rows[i - 1].boundary BY <1>3, <4>1 DEF CurveInv
      <4> QED BY <3>2, <4>2 DEF Below
    <3> QED BY <3>1, <3>2
  <2>4. Below(built, i).precomp = col[i - 1]
    <3>1. CASE i = 1 BY <1>1, <3>1 DEF Below, Origin
    <3>2. CASE i # 1
      <4>1. i - 1 \in 0 .. n /\ i - 1 # 0 BY <1>1, <3>2
      <4> QED BY <3>2, <4>1 DEF Below
    <3> QED BY <3>1, <3>2
  <2>5. col[i] = built[i].precomp BY <1>1
  <2> HIDE DEF col
  <2> QED BY <2>1, <2>2, <2>3, <2>4, <2>5 DEF Within, Increment
<1>6. col[0] = 0 /\ col[n] = built[n].precomp BY <1>1
<1> HIDE DEF col
<1> QED BY <1>1, <1>2, <1>4, <1>5, <1>6, ReferenceOf

(* A well-formed curve passes every check of BuildTierCurve.               *)
LEMMA BuildRefusesTheIllFormed ==
  CurveInv /\ BuildTier /\ pc' = "refused" => ~WellFormed(rows)
<1> SUFFICES ASSUME CurveInv, BuildTier, pc' = "refused", WellFormed(rows) PROVE FALSE OBVIOUS
<1> DEFINE next == Len(built) + 1
<1>1. /\ pc = "build" /\ Len(built) < Len(rows)
      /\ ~(/\ NextTier.boundary <= MaxBoundary /\ NextTier.ratio <= Percent
           /\ built # <<>> => NextTier.boundary > built[Len(built)].boundary)
  BY DEF BuildTier
<1>2. /\ rows \in Seq(TierRatio) /\ built \in Seq(TierRatio)
      /\ Len(rows) \in Nat /\ Len(built) \in Nat
  BY DEF CurveInv, TypeOK
<1>3. next \in DOMAIN rows /\ next \in Nat BY <1>1, <1>2
<1>4. NextTier.boundary <= MaxBoundary /\ NextTier.ratio <= Percent
  BY <1>3 DEF WellFormed, NextTier
<1>5. ASSUME built # <<>> PROVE NextTier.boundary > built[Len(built)].boundary
  <2>1. Len(built) \in DOMAIN built /\ next > 1 /\ next - 1 = Len(built) BY <1>2, <1>5
  <2>2. rows[next].boundary > rows[next - 1].boundary BY <1>3, <2>1 DEF WellFormed
  <2>3. built[Len(built)].boundary = rows[Len(built)].boundary BY <1>1, <2>1 DEF CurveInv
  <2> QED BY <2>1, <2>2, <2>3 DEF NextTier
<1> QED BY <1>1, <1>4, <1>5

(* validateTierPrecomputed compares with the definition's column.          *)
LEMMA CompareIsExact ==
  CurveInv /\ Compare =>
    \/ pc' = "loaded" /\ rows' = rows /\ WellFormed(rows)
    \/ pc' = "refused" /\ ~WellFormed(rows)
<1> SUFFICES ASSUME CurveInv, Compare
             PROVE  \/ pc' = "loaded" /\ rows' = rows /\ WellFormed(rows)
                    \/ pc' = "refused" /\ ~WellFormed(rows)
  OBVIOUS
<1>1. pc = "build" /\ Len(built) = Len(rows) BY DEF Compare
<1>2. /\ rows \in Seq(TierRatio) /\ built \in Seq(TierRatio) /\ Len(rows) <= TierCount
      /\ Len(rows) \in Nat /\ DOMAIN rows = 1 .. Len(rows)
  BY <1>1 DEF CurveInv, TypeOK
<1>3. \A i \in DOMAIN rows : built[i].precomp = Reference(rows, i)
  BY <1>1, <1>2, DerivedIsReference
<1>4. CASE \A i \in DOMAIN rows : built[i].precomp = rows[i].precomp
  <2>1. pc' = "loaded" /\ rows' = rows BY <1>4 DEF Compare
  <2>2. ASSUME NEW i \in DOMAIN rows
        PROVE  /\ rows[i].boundary <= MaxBoundary /\ rows[i].ratio <= Percent
               /\ i > 1 => rows[i].boundary > rows[i - 1].boundary
    <3>1. /\ i \in DOMAIN built /\ rows[i] \in TierRatio
          /\ built[i].boundary = rows[i].boundary /\ built[i].ratio = rows[i].ratio
      BY <1>1, <1>2 DEF CurveInv
    <3>2. built[i].boundary <= MaxBoundary /\ built[i].ratio <= Percent
      BY <3>1 DEF CurveInv, IsCurve
    <3>3. ASSUME i > 1 PROVE rows[i].boundary > rows[i - 1].boundary
      <4>1. i - 1 \in 1 .. i - 1 /\ i - 1 \in DOMAIN built BY <1>1, <1>2, <3>3
      <4>2. built[i - 1].boundary < built[i].boundary BY <3>1, <4>1 DEF CurveInv, IsCurve
      <4>3. built[i - 1].boundary = rows[i - 1].boundary BY <1>1, <4>1 DEF CurveInv
      <4>4. rows[i - 1] \in TierRatio BY <1>1, <1>2, <4>1
      <4> QED BY <3>1, <4>2, <4>3, <4>4 DEF TierRatio
    <3> QED BY <3>1, <3>2, <3>3
  <2> QED BY <1>2, <1>3, <1>4, <2>1, <2>2 DEF WellFormed
<1>5. CASE ~(\A i \in DOMAIN rows : built[i].precomp = rows[i].precomp)
  <2>1. pc' = "refused" BY <1>5 DEF Compare, Refuse
  <2> QED BY <1>3, <1>5, <2>1 DEF WellFormed
<1> QED BY <1>4, <1>5

(* The parsers' curve loader is exact: whatever tier_ratios.csv holds, the *)
(* curve that parseTierRatios hands on fits the circuit's slots, keeps its *)
(* bounds, grows strictly and carries the cumulative column of its         *)
(* definition; a curve BuildTierCurve or validateTierPrecomputed refuses   *)
(* does not.                                                               *)
THEOREM LoaderIsExact == Spec => LoadsExactly
<1> DEFINE Exact == /\ pc' = "loaded" => WellFormed(rows')
                    /\ pc = "build" /\ pc' = "refused" => ~WellFormed(rows)
<1>1. CurveInv /\ CurveInv' /\ [Next]_vars => [Exact]_vars
  <2> SUFFICES ASSUME CurveInv, Next, ~(UNCHANGED vars) PROVE Exact OBVIOUS
  <2>1. CASE ReadTier
    <3>1. pc = "read" /\ (pc' = pc \/ pc' = "refused") BY <2>1 DEF ReadTier, Refuse
    <3> QED BY <3>1
  <2>2. CASE EndOfFile
    <3>1. pc = "read" BY <2>2 DEF EndOfFile
    <3>2. ASSUME pc' = "loaded" PROVE WellFormed(rows')
      <4>1. rows' = <<>> /\ rows = <<>> BY <2>2, <3>2 DEF EndOfFile, Refuse
      <4>2. Len(rows') = 0 /\ DOMAIN rows' = {} /\ TierCount \in Nat
        BY <4>1, CurveAssumption
      <4>3. Len(rows') <= TierCount BY <4>2
      <4> QED BY <4>2, <4>3 DEF WellFormed
    <3> QED BY <3>1, <3>2
  <2>3. CASE BuildTier
    <3>1. pc' # "loaded" BY <2>3 DEF BuildTier, Refuse
    <3> QED BY <2>3, <3>1, BuildRefusesTheIllFormed
  <2>4. CASE Compare BY <2>4, CompareIsExact
  <2> QED BY <2>1, <2>2, <2>3, <2>4 DEF Next
<1> HIDE DEF Exact
<1>2. Spec => [][Exact]_vars BY <1>1, CurveInvariant, PTL DEF Spec
<1> QED BY <1>2 DEF LoadsExactly, Exact
==============================================================================
