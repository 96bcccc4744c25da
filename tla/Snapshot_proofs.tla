---------------------------- MODULE Snapshot_proofs ----------------------------
(***************************************************************************)
(* What the snapshot parsers keep and what becomes of it in the batches,   *)
(* for every model, file, table size, tier set and batch size.  First the  *)
(* parsers: the asset table, the policy, the accounts, the rows of an      *)
(* account.  Then the batches: lists, the slots of a leaf, commitments,    *)
(* the sums of an account, a user as the host and as the circuit has it,   *)
(* a batch, the run; and at last that what the parsers deliver is what the *)
(* batches ask for.                                                        *)
(***************************************************************************)
EXTENDS BatchWitness, SequenceTheorems, SumLemmas

LEMMA InitSnapshotInv == Init => SnapshotInv /\ PolicyIsTheTable
<1> SUFFICES ASSUME Init PROVE SnapshotInv /\ PolicyIsTheTable OBVIOUS
<1> USE DEF Init
<1>1. TypeOK
  <2>1. NoWeight \in Weights(model) BY DEF NoWeight, Weights
  <2>2. 0 \in Uint64 BY RulesAssumption DEF Uint64
  <2> QED BY <2>1, <2>2 DEF TypeOK
<1>2. GroupsSoFar BY DEF GroupsSoFar, Met
<1>3. TableSoFar BY DEF TableSoFar
<1>4. IndexIsTheOneStated BY DEF IndexIsTheOneStated
<1>5. PolicyIsTheTable BY DEF PolicyIsTheTable
<1> QED BY <1>1, <1>2, <1>3, <1>4, <1>5 DEF SnapshotInv

-----------------------------------------------------------------------------
(* The asset table. *)

\* what is said of the groups stays true while they and the rows do
LEMMA IndicesStand ==
  ASSUME UNCHANGED <<model, kept, order, groups>>, IndexIsTheOneStated
  PROVE  IndexIsTheOneStated'
<1>1. \A id : IndicesOf(id)' = IndicesOf(id) BY DEF IndicesOf, RowsOf
<1> QED BY <1>1 DEF IndexIsTheOneStated

LEMMA GroupsStand ==
  ASSUME GroupsSoFar, UNCHANGED <<model, kept, order, groups>>,
         pc' = "assets" => pc = "assets" /\ UNCHANGED invalid,
         pc' = "accounts" => Len(kept) + invalid' = met'
  PROVE  GroupsSoFar'
<1>1. \A id : RowsOf(id)' = RowsOf(id) BY DEF RowsOf
<1>2. Met' = Met BY DEF Met
<1> QED BY <1>1, <1>2 DEF GroupsSoFar

\* reading cex_assets.csv leaves the accounts alone
LEMMA AssetsLeaveGroups ==
  ASSUME SnapshotInv, NEW row \in AssetRows[model], ReadAsset(row)
  PROVE  GroupsSoFar' /\ IndexIsTheOneStated'
<1>1. /\ UNCHANGED <<model, kept, order, groups, invalid>> /\ pc = "assets"
      /\ pc' \in {"assets", "failed"}
  BY DEF ReadAsset, accounts, T1LoadAsset, T2LoadAsset, T3LoadAsset, T4LoadAsset, Fill, Abort
<1>2. GroupsSoFar' BY <1>1, GroupsStand DEF SnapshotInv
<1>3. IndexIsTheOneStated' BY <1>1, IndicesStand DEF SnapshotInv
<1> QED BY <1>2, <1>3

LEMMA FillTable ==
  ASSUME TypeOK, TableSoFar, pc = "assets", UNCHANGED model,
         NEW row \in AssetRow(model), row.asset \in Slots,
         NEW weight \in Weights(model), Fill(row, weight),
         model = "T1" => weight = NoWeight,
         IF model = "T2" THEN policy' = Append(policy, <<row.asset, weight>>)
                         ELSE UNCHANGED policy,
         model \in {"T3", "T4"} => weight = Curve(row.asset)
  PROVE  /\ TableSoFar' /\ listed' \subseteq Slots
         /\ static' \in [price : [Slots -> Uint64], weight : [Slots -> Weights(model)]]
         /\ policy' \in Seq(Nat \X Weights(model))
<1>1. /\ static \in [price : [Slots -> Uint64], weight : [Slots -> Weights(model)]]
      /\ policy \in Seq(Nat \X Weights(model)) /\ listed \subseteq Slots
  BY DEF TypeOK
<1>2. /\ static.price \in [Slots -> Uint64] /\ static.weight \in [Slots -> Weights(model)]
  BY <1>1
<1>3. row.price \in Uint64 /\ row.asset \in Nat BY DEF AssetRow
<1>4. /\ static' = [price |-> [static.price EXCEPT ![row.asset] = row.price],
                    weight |-> [static.weight EXCEPT ![row.asset] = weight]]
      /\ listed' = listed \cup {row.asset}
      /\ UNCHANGED <<pc, curves, committed>>
  BY DEF Fill
<1>5. static' \in [price : [Slots -> Uint64], weight : [Slots -> Weights(model)]]
  BY <1>2, <1>3, <1>4
<1>6. /\ static'.weight[row.asset] = weight
      /\ \A s \in Slots : s # row.asset => static'.weight[s] = static.weight[s]
  BY <1>2, <1>4
<1>7. policy' \in Seq(Nat \X Weights(model))
  <2>1. CASE model = "T2"
    <3>1. <<row.asset, weight>> \in Nat \X Weights(model) BY <1>3
    <3> HIDE DEF Weights
    <3>2. Append(policy, <<row.asset, weight>>) \in Seq(Nat \X Weights(model))
      BY <1>1, <3>1, AppendProperties
    <3> QED BY <2>1, <3>2
  <2>2. CASE model # "T2" BY <1>1, <2>2
  <2> QED BY <2>1, <2>2
<1>8. NoWeight' = NoWeight BY DEF NoWeight
<1>9. \A s \in Slots \ listed' : static'.weight[s] = NoWeight
  BY <1>4, <1>6 DEF TableSoFar
<1>10. model = "T1" => \A s \in Slots : static'.weight[s] = NoWeight
  BY <1>6 DEF TableSoFar
<1>11. ASSUME model = "T2"
       PROVE  /\ \A i \in DOMAIN policy' : policy'[i][1] \in listed'
              /\ \A s \in listed' :
                   \E i \in DOMAIN policy' : policy'[i] = <<s, static'.weight[s]>>
  <2>1. /\ \A i \in DOMAIN policy : policy[i][1] \in listed
        /\ \A s \in listed : \E i \in DOMAIN policy : policy[i] = <<s, static.weight[s]>>
    BY <1>11 DEF TableSoFar
  <2>2. /\ Len(policy') = Len(policy) + 1 /\ Len(policy) \in Nat
        /\ DOMAIN policy = 1 .. Len(policy) /\ DOMAIN policy' = 1 .. (Len(policy) + 1)
        /\ policy'[Len(policy) + 1] = <<row.asset, weight>>
        /\ \A i \in DOMAIN policy : policy'[i] = policy[i]
    <3>1. policy' = Append(policy, <<row.asset, weight>>) BY <1>11
    <3>2. policy \in Seq(Nat \X Weights(model)) BY <1>1
    <3>3. <<row.asset, weight>> \in Nat \X Weights(model) BY <1>3
    <3> HIDE DEF Weights
    <3>4. QED BY <3>1, <3>2, <3>3, AppendProperties
  <2>3. ASSUME NEW i \in DOMAIN policy' PROVE policy'[i][1] \in listed'
    BY <1>4, <2>1, <2>2
  <2>4. ASSUME NEW s \in listed'
        PROVE  \E i \in DOMAIN policy' : policy'[i] = <<s, static'.weight[s]>>
    <3>1. CASE s = row.asset BY <1>6, <2>2, <3>1
    <3>2. CASE s # row.asset
      <4>1. s \in listed /\ static'.weight[s] = static.weight[s]
        BY <1>1, <1>4, <1>6, <3>2
      <4>2. PICK i \in DOMAIN policy : policy[i] = <<s, static.weight[s]>> BY <2>1, <4>1
      <4>3. i \in DOMAIN policy' /\ policy'[i] = policy[i] BY <2>2
      <4> QED BY <4>1, <4>2, <4>3
    <3> QED BY <3>1, <3>2
  <2> QED BY <2>3, <2>4
<1>12. model \in {"T3", "T4"} => \A s \in listed' : static'.weight[s] = Curve(s)
  BY <1>1, <1>4, <1>6 DEF TableSoFar
<1>13. \A a : Curve(a)' = Curve(a) BY <1>4 DEF Curve, NoWeight
<1>14. TableSoFar'
  BY <1>4, <1>8, <1>9, <1>10, <1>11, <1>12, <1>13 DEF TableSoFar
<1>15. listed' \subseteq Slots BY <1>1, <1>4
<1> QED BY <1>5, <1>7, <1>14, <1>15

LEMMA ReadAssetInv ==
  ASSUME SnapshotInv, PolicyIsTheTable, NEW row \in AssetRows[model], ReadAsset(row)
  PROVE  SnapshotInv' /\ PolicyIsTheTable'
<1>1. /\ UNCHANGED <<model, kept, order, groups, invalid, curves, committed>>
      /\ pc = "assets" /\ met' = met + 1
  BY DEF ReadAsset, accounts, assetTable, T1LoadAsset, T2LoadAsset, T3LoadAsset, T4LoadAsset,
         Fill, Abort
<1>2. TypeOK /\ TableSoFar BY DEF SnapshotInv
<1>3. row \in AssetRow(model) BY SnapshotAssumption, <1>2 DEF TypeOK
<1>4. row.weight \in Weights(model) BY <1>3 DEF AssetRow
<1>5. NoWeight \in Weights(model) BY DEF NoWeight, Weights
<1>6. Curve(row.asset) \in Weights(model)
  BY SnapshotAssumption, <1>2, <1>5 DEF TypeOK, Curve
<1>7. CASE Abort
  <2>1. UNCHANGED <<curves, static, listed, policy, committed>> /\ pc' = "failed"
    BY <1>7 DEF Abort, assetTable
  <2>2. TypeOK' BY <1>1, <1>2, <2>1 DEF TypeOK
  <2>3. TableSoFar' BY <1>1, <1>2, <2>1 DEF TableSoFar, NoWeight, Curve
  <2> QED BY <1>1, <1>2, <2>1, <2>2, <2>3, AssetsLeaveGroups
          DEF SnapshotInv, PolicyIsTheTable, TableSoFar
<1>8. ASSUME NEW weight \in Weights(model), Fill(row, weight), row.asset \in Slots,
             model = "T1" => weight = NoWeight,
             IF model = "T2" THEN policy' = Append(policy, <<row.asset, weight>>)
                             ELSE UNCHANGED policy,
             model \in {"T3", "T4"} => weight = Curve(row.asset)
      PROVE  SnapshotInv' /\ PolicyIsTheTable'
  <2>1. /\ TableSoFar' /\ listed' \subseteq Slots
        /\ static' \in [price : [Slots -> Uint64], weight : [Slots -> Weights(model)]]
        /\ policy' \in Seq(Nat \X Weights(model))
    BY <1>1, <1>2, <1>3, <1>8, FillTable
  <2>2. pc' = pc BY <1>8 DEF Fill
  <2>3. TypeOK' BY <1>1, <1>2, <2>1, <2>2 DEF TypeOK
  <2>4. committed' = {} BY <1>1, <1>2 DEF TableSoFar
  <2> QED BY <2>1, <2>3, <2>4, AssetsLeaveGroups DEF SnapshotInv, PolicyIsTheTable
<1>9. Abort \/ \E weight \in Weights(model) :
        /\ Fill(row, weight) /\ row.asset \in Slots
        /\ model = "T1" => weight = NoWeight
        /\ IF model = "T2" THEN policy' = Append(policy, <<row.asset, weight>>)
                           ELSE UNCHANGED policy
        /\ model \in {"T3", "T4"} => weight = Curve(row.asset)
  <2>1. CASE T1LoadAsset(row) BY <1>5, <2>1 DEF T1LoadAsset, Usable
  <2>2. CASE T2LoadAsset(row) BY <1>4, <2>2 DEF T2LoadAsset, Usable
  <2>3. CASE T3LoadAsset(row) BY <1>6, <2>3 DEF T3LoadAsset, Usable
  <2>4. CASE T4LoadAsset(row) BY <1>6, <2>4 DEF T4LoadAsset, Usable
  <2> QED BY <2>1, <2>2, <2>3, <2>4 DEF ReadAsset
<1> QED BY <1>7, <1>8, <1>9

-----------------------------------------------------------------------------
(* The policy. *)

LEMMA CommittedIsTheTable ==
  ASSUME TypeOK, TableSoFar,
         NEW c \in IF model = "T1" THEN {} ELSE
                   IF model = "T2" THEN PolicyCommitment(policy) ELSE CurvePolicy,
         NEW s \in Slots, NEW p \in Pools[model]
  PROVE  /\ static.weight[s][p] = IF s \in listed /\ s \in DOMAIN c THEN c[s][p] ELSE 0
         /\ static.weight[s][p] \in 0 .. Full
<1>1. s \notin listed => static.weight[s][p] = 0 BY DEF TableSoFar, NoWeight
<1>2. Full \in Nat /\ 0 \in 0 .. Full BY RulesAssumption
<1>3. static.weight[s] \in Weights(model) BY DEF TypeOK
<1>4. static.weight[s][p] \in Nat BY <1>3 DEF Weights
<1>5. CASE model = "T2" /\ s \in listed
  <2> DEFINE assets == {policy[i][1] : i \in DOMAIN policy}
             entry(a) == CHOOSE i \in DOMAIN policy : policy[i][1] = a
  <2>1. /\ \A i, j \in DOMAIN policy : policy[i][1] = policy[j][1] => i = j
        /\ \A i \in DOMAIN policy : \A q \in Pools[model] : policy[i][2][q] <= Full
        /\ c = [a \in assets |-> policy[entry(a)][2]]
    BY <1>5 DEF PolicyCommitment
  <2>2. PICK i \in DOMAIN policy : policy[i] = <<s, static.weight[s]>>
    BY <1>5 DEF TableSoFar
  <2>3. policy[i][1] = s /\ policy[i][2] = static.weight[s] BY <2>2
  <2>4. entry(s) \in DOMAIN policy /\ policy[entry(s)][1] = s BY <2>3
  <2>5. entry(s) = i BY <2>1, <2>3, <2>4
  <2>6. s \in DOMAIN c /\ c[s] = static.weight[s] BY <2>1, <2>3, <2>5
  <2>7. static.weight[s][p] <= Full BY <2>1, <2>3
  <2> QED BY <1>2, <1>4, <1>5, <2>6, <2>7
<1>6. CASE model \in {"T3", "T4"} /\ s \in listed
  <2>1. c = curves /\ \A a \in DOMAIN curves : \A q \in Pools[model] : ~(curves[a][q] > Full)
    BY <1>6 DEF CurvePolicy
  <2>2. static.weight[s] = Curve(s) BY <1>6 DEF TableSoFar
  <2>3. CASE s \in DOMAIN curves BY <1>2, <1>4, <1>6, <2>1, <2>2, <2>3 DEF Curve
  <2>4. CASE s \notin DOMAIN curves
    BY <1>2, <1>6, <2>1, <2>2, <2>4 DEF Curve, NoWeight
  <2> QED BY <2>3, <2>4
<1>7. model \in {"T2", "T3", "T4"} BY DEF TypeOK, Models
<1> QED BY <1>1, <1>2, <1>5, <1>6, <1>7

LEMMA EndOfAssetsInv ==
  ASSUME SnapshotInv, EndOfAssets
  PROVE  SnapshotInv' /\ PolicyIsTheTable'
<1>1. TypeOK /\ GroupsSoFar /\ TableSoFar /\ IndexIsTheOneStated BY DEF SnapshotInv
<1>2. /\ UNCHANGED <<model, curves, static, listed, policy, kept, order, groups, invalid>>
      /\ pc = "assets" /\ pc' = "accounts" /\ met' = 0
      /\ committed' = IF model = "T1" THEN {} ELSE
                      IF model = "T2" THEN PolicyCommitment(policy) ELSE CurvePolicy
  BY DEF EndOfAssets, accounts
<1>3. TypeOK' BY <1>1, <1>2 DEF TypeOK
<1>4. GroupsSoFar'
  <2>1. kept = <<>> /\ invalid = 0 BY <1>1, <1>2 DEF GroupsSoFar
  <2> QED BY <1>1, <1>2, <2>1, GroupsStand
<1>5. TableSoFar' BY <1>1, <1>2 DEF TableSoFar, NoWeight, Curve
<1>6. IndexIsTheOneStated' BY <1>1, <1>2, IndicesStand
<1>7. PolicyIsTheTable'
  <2>1. ASSUME NEW c \in committed', NEW s \in Slots, NEW p \in Pools[model]
        PROVE  /\ static.weight[s][p] = IF s \in listed /\ s \in DOMAIN c THEN c[s][p] ELSE 0
               /\ static.weight[s][p] \in 0 .. Full
    BY <1>1, <1>2, <2>1, CommittedIsTheTable
  <2> QED BY <1>2, <2>1 DEF PolicyIsTheTable, RatiosCapped
<1> QED BY <1>3, <1>4, <1>5, <1>6, <1>7 DEF SnapshotInv

-----------------------------------------------------------------------------
(* The accounts. *)

\* the rows and the asset table of a step over accounts.csv
LEMMA TableStands ==
  ASSUME TableSoFar, PolicyIsTheTable, UNCHANGED <<model, assetTable>>, pc # "assets",
         pc' # "assets"
  PROVE  TableSoFar' /\ PolicyIsTheTable'
<1>1. UNCHANGED <<curves, static, listed, policy, committed>> BY DEF assetTable
<1>2. TableSoFar' BY <1>1 DEF TableSoFar, NoWeight, Curve
<1>3. PolicyIsTheTable' BY <1>1 DEF PolicyIsTheTable
<1> QED BY <1>2, <1>3

LEMMA SkipInv ==
  ASSUME TypeOK, GroupsSoFar, IndexIsTheOneStated, pc = "accounts", Skip,
         UNCHANGED <<model, pc, assetTable>>, met' = met + 1
  PROVE  TypeOK' /\ GroupsSoFar' /\ IndexIsTheOneStated'
<1>1. UNCHANGED <<curves, static, listed, policy, committed>> BY DEF assetTable
<1>2. UNCHANGED <<kept, order, groups>> /\ invalid' = invalid + 1 BY DEF Skip
<1>3. TypeOK' BY <1>1, <1>2 DEF TypeOK
<1>4. Len(kept) \in Nat /\ met \in Nat /\ invalid \in Nat BY DEF TypeOK
<1>5. GroupsSoFar'
  <2>1. Len(kept) + invalid = met BY DEF GroupsSoFar
  <2>2. Len(kept) + invalid' = met' BY <1>2, <1>4, <2>1
  <2> QED BY <1>2, <2>2, GroupsStand
<1>6. IndexIsTheOneStated' BY <1>2, IndicesStand
<1> QED BY <1>3, <1>5, <1>6

LEMMA UpdateInv ==
  ASSUME TypeOK, GroupsSoFar, IndexIsTheOneStated, pc = "accounts",
         UNCHANGED <<model, pc, assetTable>>, met' = met + 1,
         NEW row \in AccountRow(model), NEW group, Update(row, group),
         model \in {"T1", "T4"} => ~Changes(row) /\ Place(group) = Stated(row, GroupOf(row.id)),
         model \notin {"T1", "T4"} => Place(group) = Place(GroupOf(row.id))
  PROVE  TypeOK' /\ GroupsSoFar' /\ IndexIsTheOneStated'
<1> DEFINE n == Len(kept)
           before == GroupOf(row.id)
<1>1. UNCHANGED <<curves, static, listed, policy, committed>> BY DEF assetTable
<1>2. /\ kept \in Seq(AccountRow(model)) /\ order \in Seq(Ids) /\ row.id \in Ids
      /\ row.index \in Nat \cup {None} /\ n \in Nat /\ met \in Nat /\ invalid \in Nat
  BY DEF TypeOK, AccountRow
<1>3. /\ kept' = Append(kept, row) /\ invalid' = invalid
      /\ order' = IF row.id \in Met THEN order ELSE Append(order, row.id)
      /\ groups' = [id \in Met \cup {row.id} |-> IF id = row.id THEN group ELSE groups[id]]
  BY DEF Update, Met
<1>4. /\ DOMAIN kept = 1 .. n /\ DOMAIN kept' = 1 .. (n + 1) /\ Len(kept') = n + 1
      /\ kept'[n + 1] = row /\ \A i \in 1 .. n : kept'[i] = kept[i]
      /\ kept' \in Seq(AccountRow(model))
  BY <1>2, <1>3
<1>5. /\ Met' = Met \cup {row.id} /\ groups'[row.id] = group
      /\ \A id \in Met : id # row.id => groups'[id] = groups[id]
  BY <1>3 DEF Met
<1>6. RowsOf(row.id)' = RowsOf(row.id) \cup {n + 1}
  BY <1>2, <1>4 DEF RowsOf
<1>7. \A id : id # row.id => RowsOf(id)' = RowsOf(id)
  BY <1>2, <1>4 DEF RowsOf
<1>8. \A id : RowsOf(id) \subseteq 1 .. n BY <1>4 DEF RowsOf
<1>9. before.index \in Nat
  <2>1. CASE row.id \in Met BY <2>1 DEF GroupsSoFar, GroupOf, Met
  <2>2. CASE row.id \notin Met BY <1>2, <2>2 DEF GroupOf, NewGroup, Met
  <2> QED BY <2>1, <2>2
<1>10. /\ group.index = Place(group).index /\ group.stated = Place(group).stated
       /\ before.index = Place(before).index /\ before.stated = Place(before).stated
  BY DEF Place
<1>11. None \notin Nat BY DEF None
<1>12. group.index \in Nat
  <2>1. CASE model \in {"T1", "T4"} BY <1>2, <1>9, <1>10, <2>1 DEF Stated
  <2>2. CASE model \notin {"T1", "T4"} BY <1>9, <1>10, <2>2
  <2> QED BY <2>1, <2>2
<1>13. /\ order' \in Seq(Ids) /\ Len(order) \in Nat
       /\ DOMAIN order = 1 .. Len(order)
       /\ \A k \in DOMAIN order : k \in DOMAIN order' /\ order'[k] = order[k]
       /\ row.id \notin Met => /\ DOMAIN order' = 1 .. (Len(order) + 1)
                               /\ order'[Len(order) + 1] = row.id
       /\ row.id \in Met => order' = order
  BY <1>2, <1>3
<1>14. TypeOK'
  <2>1. met' \in Nat /\ invalid' \in Nat BY <1>2, <1>3
  <2> QED BY <1>1, <1>4, <1>13, <2>1 DEF TypeOK
<1>15. /\ Met = {order[k] : k \in DOMAIN order}
       /\ \A k, l \in DOMAIN order : order[k] = order[l] => k = l
       /\ \A i \in 1 .. n : kept[i].id \in Met
       /\ Len(kept) + invalid = met
  BY <1>4 DEF GroupsSoFar
<1>16. Met' = {order'[k] : k \in DOMAIN order'}
  <2>1. CASE row.id \in Met
    <3>1. Met' = Met /\ order' = order BY <1>5, <1>13, <2>1
    <3> QED BY <1>15, <3>1
  <2>2. CASE row.id \notin Met
    <3>1. ASSUME NEW id \in Met' PROVE \E k \in DOMAIN order' : id = order'[k]
      BY <1>2, <1>5, <1>13, <1>15, <2>2
    <3>2. ASSUME NEW k \in DOMAIN order' PROVE order'[k] \in Met'
      BY <1>2, <1>5, <1>13, <1>15, <2>2
    <3> QED BY <3>1, <3>2
  <2> QED BY <2>1, <2>2
<1>17. \A k, l \in DOMAIN order' : order'[k] = order'[l] => k = l
  <2>1. CASE row.id \in Met BY <1>13, <1>15, <2>1
  <2>2. CASE row.id \notin Met
    <3>1. \A k \in DOMAIN order : order'[k] # row.id BY <1>13, <1>15, <2>2
    <3> QED BY <1>13, <1>15, <2>2, <3>1
  <2> QED BY <2>1, <2>2
<1>18. \A i \in DOMAIN kept' : kept'[i].id \in Met' BY <1>4, <1>5, <1>15
<1>19. row.id \notin Met => RowsOf(row.id) = {} BY <1>4, <1>15 DEF RowsOf
<1> DEFINE states(id) == \E i \in RowsOf(id) : kept[i].index # None
<1>20. model \in {"T1", "T4"} => (before.stated <=> states(row.id))
  <2>1. CASE row.id \in Met BY <2>1 DEF GroupsSoFar, GroupOf, Met
  <2>2. CASE row.id \notin Met BY <1>19, <2>2 DEF GroupOf, NewGroup, Met
  <2> QED BY <2>1, <2>2
<1>21. (\E i \in RowsOf(row.id)' : kept'[i].index # None) <=> states(row.id) \/ row.index # None
  BY <1>4, <1>6, <1>8
<1>22. ASSUME NEW id \in Met'
       PROVE  /\ groups'[id].index \in Nat /\ RowsOf(id)' # {}
              /\ model \in {"T1", "T4"} =>
                   (groups'[id].stated <=> \E i \in RowsOf(id)' : kept'[i].index # None)
  <2>1. CASE id = row.id
    <3>1. model \in {"T1", "T4"} => (group.stated <=> states(row.id) \/ row.index # None)
      BY <1>10, <1>20 DEF Stated
    <3> QED BY <1>5, <1>6, <1>12, <1>21, <2>1, <3>1
  <2>2. CASE id # row.id
    <3>1. id \in Met /\ groups'[id] = groups[id] BY <1>5, <2>2
    <3>2. RowsOf(id)' = RowsOf(id) /\ \A i \in RowsOf(id) : kept'[i] = kept[i]
      BY <1>4, <1>7, <1>8, <2>2
    <3> QED BY <3>1, <3>2 DEF GroupsSoFar
  <2> QED BY <2>1, <2>2
<1>23. GroupsSoFar'
  <2>1. Len(kept') + invalid' = met' BY <1>2, <1>3, <1>4, <1>15
  <2>2. (\A id \in Met :
           /\ groups[id].index \in Nat /\ RowsOf(id) # {}
           /\ model \in {"T1", "T4"} =>
                (groups[id].stated <=> \E i \in RowsOf(id) : kept[i].index # None))'
    BY <1>22
  <2>3. pc' = "accounts" BY <1>1
  <2> QED BY <1>16, <1>17, <1>18, <2>1, <2>2, <2>3 DEF GroupsSoFar
<1>24. \A id : id # row.id => IndicesOf(id)' = IndicesOf(id)
  <2>1. ASSUME NEW id, id # row.id PROVE IndicesOf(id)' = IndicesOf(id)
    <3>1. RowsOf(id)' = RowsOf(id) /\ \A i \in RowsOf(id) : kept'[i] = kept[i]
      BY <1>4, <1>7, <1>8, <2>1
    <3> QED BY <3>1 DEF IndicesOf
  <2> QED BY <2>1
<1>25. IndicesOf(row.id)' = IF row.index = None THEN IndicesOf(row.id)
                            ELSE IndicesOf(row.id) \cup {row.index}
  <2>1. \A i \in RowsOf(row.id) : kept'[i] = kept[i] BY <1>4, <1>8
  <2> HIDE DEF n
  <2> QED BY <1>4, <1>6, <2>1 DEF IndicesOf
<1>26. ASSUME model \in {"T1", "T4"}, NEW k \in DOMAIN order', NEW id, id = order'[k]
       PROVE  IF IndicesOf(id)' = {} THEN groups'[id].index = k - 1
              ELSE IndicesOf(id)' = {groups'[id].index}
  <2>1. CASE id # row.id
    <3>1. id \in Met /\ k \in DOMAIN order /\ order[k] = id
      BY <1>13, <1>15, <1>26, <2>1
    <3>2. groups'[id] = groups[id] BY <1>5, <2>1, <3>1
    <3>3. IF IndicesOf(id) = {} THEN groups[id].index = k - 1
          ELSE IndicesOf(id) = {groups[id].index}
      BY <1>26, <3>1 DEF IndexIsTheOneStated
    <3> QED BY <1>24, <2>1, <3>2, <3>3
  <2>2. CASE id = row.id
    <3>1. IF IndicesOf(id) = {} THEN before.index = k - 1 ELSE IndicesOf(id) = {before.index}
      <4>1. CASE id \in Met
        <5>1. k \in DOMAIN order /\ order[k] = id BY <1>13, <1>26, <2>2, <4>1
        <5>2. before = groups[id] BY <2>2, <4>1 DEF GroupOf, Met
        <5> QED BY <1>26, <5>1, <5>2 DEF IndexIsTheOneStated
      <4>2. CASE id \notin Met
        <5>1. IndicesOf(id) = {} BY <1>19, <2>2, <4>2 DEF IndicesOf
        <5>2. k = Len(order) + 1
          <6>1. k \notin 1 .. Len(order)
            <7>1. \A l \in DOMAIN order : order[l] # row.id BY <1>15, <2>2, <4>2
            <7> QED BY <1>13, <1>26, <2>2, <7>1
          <6>2. k \in 1 .. (Len(order) + 1) BY <1>13, <1>26, <2>2, <4>2
          <6> QED BY <1>13, <6>1, <6>2
        <5>3. before.index = Len(order) BY <2>2, <4>2 DEF GroupOf, NewGroup, Met
        <5> QED BY <1>13, <5>1, <5>2, <5>3
      <4> QED BY <4>1, <4>2
    <3>2. groups'[id] = group BY <1>5, <2>2
    <3>3. CASE row.index = None
      <4>1. group.index = before.index BY <1>10, <1>26, <3>3 DEF Stated
      <4> QED BY <1>25, <2>2, <3>1, <3>2, <3>3, <4>1
    <3>4. CASE row.index # None
      <4>1. group.index = row.index BY <1>10, <1>26, <3>4 DEF Stated
      <4>2. IndicesOf(id) # {} => before.stated BY <1>20, <1>26, <2>2 DEF IndicesOf
      <4>3. IndicesOf(id) # {} => before.index = row.index
        BY <1>26, <3>4, <4>2 DEF Changes
      <4>4. IndicesOf(id)' = {row.index} BY <1>25, <2>2, <3>1, <3>4, <4>3
      <4> QED BY <3>2, <4>1, <4>4
    <3> QED BY <3>3, <3>4
  <2> QED BY <2>1, <2>2
<1>27. IndexIsTheOneStated'
  <2>1. (\A k \in DOMAIN order :
           model \in {"T1", "T4"} =>
             IF IndicesOf(order[k]) = {} THEN groups[order[k]].index = k - 1
             ELSE IndicesOf(order[k]) = {groups[order[k]].index})'
    BY <1>26
  <2> QED BY <2>1 DEF IndexIsTheOneStated
<1> QED BY <1>14, <1>23, <1>27

LEMMA ReadRowInv ==
  ASSUME SnapshotInv, PolicyIsTheTable, NEW row \in AccountRows[model], ReadRow(row)
  PROVE  SnapshotInv' /\ PolicyIsTheTable'
<1>1. TypeOK /\ GroupsSoFar /\ TableSoFar /\ IndexIsTheOneStated BY DEF SnapshotInv
<1>2. /\ UNCHANGED <<model, pc, assetTable>> /\ pc = "accounts" /\ met' = met + 1
  BY DEF ReadRow
<1>3. row \in AccountRow(model) BY SnapshotAssumption, <1>1 DEF TypeOK
<1>4. TableSoFar' /\ PolicyIsTheTable' BY <1>1, <1>2, TableStands
<1>5. \A place, credit : Place(Grown(row, GroupOf(row.id), place, credit))
                           = [index |-> place.index, stated |-> place.stated]
  BY DEF Place, Grown
<1>6. /\ Stated(row, GroupOf(row.id)) =
           [index |-> Stated(row, GroupOf(row.id)).index,
            stated |-> Stated(row, GroupOf(row.id)).stated]
      /\ Place(GroupOf(row.id)) =
           [index |-> Place(GroupOf(row.id)).index, stated |-> Place(GroupOf(row.id)).stated]
  BY DEF Stated, Place
<1>7. Skip \/ \E group :
        /\ Update(row, group)
        /\ model \in {"T1", "T4"} => ~Changes(row) /\ Place(group) = Stated(row, GroupOf(row.id))
        /\ model \notin {"T1", "T4"} => Place(group) = Place(GroupOf(row.id))
  <2>1. CASE T1AddRow(row) BY <1>5, <1>6, <2>1 DEF T1AddRow
  <2>2. CASE T2AddRow(row) BY <1>5, <1>6, <2>2 DEF T2AddRow
  <2>3. CASE T3AddRow(row) BY <1>5, <1>6, <2>3 DEF T3AddRow
  <2>4. CASE T4AddRow(row) BY <1>5, <1>6, <2>4 DEF T4AddRow
  <2> QED BY <2>1, <2>2, <2>3, <2>4 DEF ReadRow
<1>8. TypeOK' /\ GroupsSoFar' /\ IndexIsTheOneStated'
  BY <1>1, <1>2, <1>3, <1>7, SkipInv, UpdateInv
<1> QED BY <1>4, <1>8 DEF SnapshotInv

LEMMA EndOfAccountsInv ==
  ASSUME SnapshotInv, PolicyIsTheTable, EndOfAccounts
  PROVE  SnapshotInv' /\ PolicyIsTheTable'
<1>1. TypeOK /\ GroupsSoFar /\ TableSoFar /\ IndexIsTheOneStated BY DEF SnapshotInv
<1>2. /\ UNCHANGED <<model, assetTable, met, kept, order, groups>>
      /\ pc = "accounts" /\ pc' = "done"
  BY DEF EndOfAccounts
<1>3. UNCHANGED <<curves, static, listed, policy, committed>> BY <1>2 DEF assetTable
<1>4. invalid' \in Nat
  <2>1. CASE UNCHANGED invalid BY <1>1, <2>1 DEF TypeOK
  <2>2. CASE invalid' = invalid + Cardinality({id \in Met : ~Solvent(id)})
    <3>1. IsFiniteSet(Met)
      <4>1. order \in Seq(Ids) BY <1>1 DEF TypeOK
      <4>2. IsFiniteSet(1 .. Len(order)) BY <4>1, FS_Interval
      <4>3. Met = {order[k] : k \in 1 .. Len(order)} BY <1>1, <4>1 DEF GroupsSoFar
      <4>4. IsFiniteSet({order[k] : k \in 1 .. Len(order)})
        <5> DEFINE Dom == 1 .. Len(order)
                   place == [k \in Dom |-> order[k]]
        <5>1. place \in Surjection(Dom, {order[k] : k \in Dom}) BY DEF Surjection
        <5> QED BY <4>2, <5>1, FS_Surjection
      <4> QED BY <4>3, <4>4
    <3>2. IsFiniteSet({id \in Met : ~Solvent(id)}) BY <3>1, FS_Subset
    <3>3. Cardinality({id \in Met : ~Solvent(id)}) \in Nat BY <3>2, FS_CardinalityType
    <3> QED BY <1>1, <2>2, <3>3 DEF TypeOK
  <2> QED BY <2>1, <2>2 DEF EndOfAccounts, T1Finish, T2Finish, T3Finish, T4Finish
<1>5. TypeOK' BY <1>1, <1>2, <1>3, <1>4 DEF TypeOK
<1>6. GroupsSoFar' BY <1>1, <1>2, GroupsStand
<1>7. IndexIsTheOneStated' BY <1>1, <1>2, IndicesStand
<1>8. TableSoFar' /\ PolicyIsTheTable' BY <1>1, <1>2, TableStands
<1> QED BY <1>5, <1>6, <1>7, <1>8 DEF SnapshotInv

-----------------------------------------------------------------------------
LEMMA StepInv ==
  ASSUME SnapshotInv, PolicyIsTheTable, [Next]_vars
  PROVE  SnapshotInv' /\ PolicyIsTheTable'
<1>1. ASSUME NEW row \in AssetRows[model], ReadAsset(row)
      PROVE  SnapshotInv' /\ PolicyIsTheTable' BY <1>1, ReadAssetInv
<1>2. CASE EndOfAssets BY <1>2, EndOfAssetsInv
<1>3. ASSUME NEW row \in AccountRows[model], ReadRow(row)
      PROVE  SnapshotInv' /\ PolicyIsTheTable' BY <1>3, ReadRowInv
<1>4. CASE EndOfAccounts BY <1>4, EndOfAccountsInv
<1>5. CASE UNCHANGED vars
  <2>1. UNCHANGED <<model, pc, curves, static, listed, policy, committed, met, kept, order,
                    groups, invalid>>
    BY <1>5 DEF vars, assetTable, accounts
  <2>2. TypeOK' BY <2>1 DEF SnapshotInv, TypeOK
  <2>3. GroupsSoFar' BY <2>1, GroupsStand DEF SnapshotInv, GroupsSoFar
  <2>4. TableSoFar' BY <2>1 DEF SnapshotInv, TableSoFar, NoWeight, Curve
  <2>5. IndexIsTheOneStated' BY <2>1, IndicesStand DEF SnapshotInv
  <2>6. PolicyIsTheTable' BY <2>1 DEF PolicyIsTheTable
  <2> QED BY <2>2, <2>3, <2>4, <2>5, <2>6 DEF SnapshotInv
<1> QED BY <1>1, <1>2, <1>3, <1>4, <1>5 DEF Next

(* The inductive invariant of the parsers: the groups are those of the     *)
(* rows added, every row is added or counted, and the table holds what the *)
(* rows of cex_assets.csv or the curves said last.                         *)
THEOREM SnapshotInvariant == Spec => []SnapshotInv
<1>1. Spec => [](SnapshotInv /\ PolicyIsTheTable)
  BY InitSnapshotInv, StepInv, PTL DEF Spec
<1> QED BY <1>1, PTL

(* However the rows of an account come and whichever of them state its     *)
(* index, it has the index they state, or its first-seen place.            *)
THEOREM IndexStated == Spec => []IndexIsTheOneStated
<1>1. SnapshotInv => IndexIsTheOneStated BY DEF SnapshotInv
<1> QED BY <1>1, SnapshotInvariant, PTL

(* What a policy digest commits to is what the table carries, and is a     *)
(* table the circuit takes.                                                *)
THEOREM PolicyCommitted == Spec => []PolicyIsTheTable
<1>1. Spec => [](SnapshotInv /\ PolicyIsTheTable)
  BY InitSnapshotInv, StepInv, PTL DEF Spec
<1> QED BY <1>1, PTL

-----------------------------------------------------------------------------
(* The rows of an account. *)

LEMMA Uint64IsNat == Uint64 \subseteq Nat
BY RulesAssumption DEF Uint64

LEMMA ProductIsNat == \A a, b \in Nat : a * b \in Nat
BY SMTT(30)

LEMMA QuotientIsNat == \A a \in Nat : \A b \in Nat \ {0} : a \div b \in Nat
BY SMTT(30)

LEMMA PoolsAreFew == TypeOK => IsFiniteSet(Pools[model])
<1> SUFFICES ASSUME TypeOK PROVE IsFiniteSet(Pools[model]) OBVIOUS
<1>1. IsFiniteSet({}) BY FS_EmptySet
<1>2. IsFiniteSet({"collateral"}) BY FS_Singleton
<1>3. IsFiniteSet({"loan", "margin", "portfolio_margin"})
  <2>1. IsFiniteSet({"loan"} \cup {"margin"}) BY FS_Singleton, FS_AddElement
  <2>2. IsFiniteSet(({"loan"} \cup {"margin"}) \cup {"portfolio_margin"})
    BY <2>1, FS_AddElement
  <2>3. ({"loan"} \cup {"margin"}) \cup {"portfolio_margin"}
          = {"loan", "margin", "portfolio_margin"}
    OBVIOUS
  <2>4. QED BY <2>2, <2>3
<1>4. \/ Pools[model] = {} \/ Pools[model] = {"collateral"}
      \/ Pools[model] = {"loan", "margin", "portfolio_margin"}
  BY DEF TypeOK, Models, Pools
<1>5. CASE Pools[model] = {} BY <1>1, <1>5
<1>6. CASE Pools[model] = {"collateral"} BY <1>2, <1>6
<1>7. CASE Pools[model] = {"loan", "margin", "portfolio_margin"} BY <1>3, <1>7
<1>8. QED BY <1>4, <1>5, <1>6, <1>7

\* what is read of the table for a row is a number
LEMMA RowIsNatural ==
  ASSUME TypeOK, NEW row \in AccountRow(model), row.asset \in Slots
  PROVE  /\ row.amounts \in [Columns(model) -> Uint64]
         /\ \A c \in Columns(model) :
              row.amounts[c] \in Nat /\ row.amounts[c] * static.price[row.asset] \in Nat
         /\ CreditOf(row) \in Nat
<1>1. row.amounts \in [Columns(model) -> Uint64] BY DEF AccountRow
<1>2. static.price[row.asset] \in Nat /\ static.weight[row.asset] \in Weights(model)
  BY Uint64IsNat DEF TypeOK
<1>3. \A c \in Columns(model) :
        row.amounts[c] \in Nat /\ row.amounts[c] * static.price[row.asset] \in Nat
  BY <1>1, <1>2, Uint64IsNat, ProductIsNat
<1>4. Full \in Nat \ {0} /\ MaxCredit \in Nat BY RulesAssumption
<1>5. \A p \in Pools[model] : static.weight[row.asset][p] \in Nat BY <1>2 DEF Weights
<1>6. Pools[model] \subseteq Columns(model) BY DEF Columns
<1>7. ASSUME model = "T2"
      PROVE  Credit(row.amounts, static, row.asset, "collateral") \in Nat
  <2>1. "collateral" \in Pools[model] BY <1>7 DEF Pools
  <2>2. row.amounts["collateral"] * static.price[row.asset] \in Nat
    BY <1>3, <1>6, <2>1
  <2>3. row.amounts["collateral"] * static.price[row.asset]
          * static.weight[row.asset]["collateral"] \in Nat
    BY <1>5, <2>1, <2>2, ProductIsNat
  <2>4. QED BY <1>4, <2>3, QuotientIsNat DEF Credit
<1>8. ASSUME NEW p \in Pools[model]
      PROVE  HaircutValue(row.amounts[p] * static.price[row.asset],
                          static.weight[row.asset][p]) \in Nat
  <2> DEFINE v == row.amounts[p] * static.price[row.asset]
             w == static.weight[row.asset][p]
  <2>1. v \in Nat /\ w \in Nat BY <1>3, <1>5, <1>6
  <2> HIDE DEF v, w
  <2>2. Least2(v, MaxCredit) \in Nat BY <1>4, <2>1 DEF Least2
  <2>3. Least2(v, MaxCredit) * w \in Nat BY <2>1, <2>2, ProductIsNat
  <2>4. (Least2(v, MaxCredit) * w) \div Full \in Nat BY <1>4, <2>3, QuotientIsNat
  <2>5. HaircutValue(v, w) \in Nat BY <2>4 DEF HaircutValue
  <2>6. QED BY <2>5 DEF v, w
<1>9. CurveCredit(row) \in Nat
  <2> DEFINE f == [p \in Pools[model] |->
                     HaircutValue(row.amounts[p] * static.price[row.asset],
                                  static.weight[row.asset][p])]
  <2>1. IsFiniteSet(Pools[model]) BY PoolsAreFew
  <2>2. \A p \in Pools[model] : f[p] \in Nat BY <1>8
  <2>3. DOMAIN f = Pools[model] OBVIOUS
  <2>4. CurveCredit(row) = SumFunction(f) BY DEF CurveCredit
  <2> HIDE DEF f
  <2>5. QED BY <2>1, <2>2, <2>3, <2>4, SumNat DEF SumFunction
<1>10. CreditOf(row) \in Nat BY <1>7, <1>9 DEF CreditOf
<1>11. QED BY <1>1, <1>3, <1>10

LEMMA NothingListed == \A s, c : Listed(<<>>, s, c) = 0
<1> SUFFICES ASSUME NEW s, NEW c PROVE Listed(<<>>, s, c) = 0 OBVIOUS
<1> DEFINE f == [j \in DOMAIN <<>> |-> <<>>[j].amounts[c]]
           at == {j \in DOMAIN <<>> : <<>>[j].slot = s}
<1>1. at = {} OBVIOUS
<1>2. Listed(<<>>, s, c) = SumFunctionOnSet(f, at) BY DEF Listed
<1> HIDE DEF f, at
<1>3. QED BY <1>1, <1>2, SumEmpty

LEMMA ListedGrows ==
  ASSUME NEW assets \in Seq(Entry), NEW e \in Entry, NEW s, NEW c \in Columns(model)
  PROVE  Listed(Append(assets, e), s, c)
           = Listed(assets, s, c) + (IF e.slot = s THEN e.amounts[c] ELSE 0)
<1> DEFINE m == Len(assets)
           more == Append(assets, e)
           f == [j \in DOMAIN assets |-> assets[j].amounts[c]]
           g == [j \in DOMAIN more |-> more[j].amounts[c]]
           at == {j \in DOMAIN assets : assets[j].slot = s}
           wider == {j \in DOMAIN more : more[j].slot = s}
<1>1. /\ m \in Nat /\ DOMAIN assets = 1 .. m /\ DOMAIN more = 1 .. (m + 1)
      /\ more[m + 1] = e /\ \A j \in 1 .. m : more[j] = assets[j] /\ assets[j] \in Entry
  OBVIOUS
<1>2. \A x \in Entry : x.amounts[c] \in Nat BY Uint64IsNat DEF Entry
<1>3. IsFiniteSet(at)
  <2>1. IsFiniteSet(1 .. m) BY <1>1, FS_Interval
  <2>2. at \in SUBSET (1 .. m) BY <1>1
  <2> HIDE DEF at, m
  <2>3. QED BY <2>1, <2>2, FS_Subset
<1>4. \A j \in at : f[j] \in Nat /\ g[j] = f[j] /\ j \in 1 .. m BY <1>1, <1>2
<1>5. g[m + 1] = e.amounts[c] /\ g[m + 1] \in Nat BY <1>1, <1>2
<1>6. wider = IF e.slot = s THEN at \cup {m + 1} ELSE at BY <1>1
<1>7. Listed(assets, s, c) = SumFunctionOnSet(f, at)
      /\ Listed(more, s, c) = SumFunctionOnSet(g, wider)
  BY DEF Listed
<1>8. m + 1 \notin at BY <1>1
<1>9. SumFunctionOnSet(f, at) \in Nat
  <2> HIDE DEF f, at
  <2>1. QED BY <1>3, <1>4, SumNat
<1> HIDE DEF f, g, at, wider, m, more
<1>10. CASE e.slot = s
  <2>0. PICK k : k = m + 1 OBVIOUS
  <2>1. SumFunctionOnSet(g, at \cup {k}) = SumFunctionOnSet(f, at) + g[k]
    <3>1. k \notin at BY <1>8, <2>0
    <3>2. \A j \in at \cup {k} : g[j] \in Nat BY <1>4, <1>5, <2>0
    <3>3. SumFunctionOnSet(g, at \cup {k}) = SumFunctionOnSet(g, at) + g[k]
      BY <1>3, <3>1, <3>2, SumAdd
    <3>4. \A j \in at : g[j] = f[j] BY <1>4
    <3>5. SumFunctionOnSet(g, at) = SumFunctionOnSet(f, at) BY <1>3, <3>4, SumSame
    <3>6. QED BY <3>3, <3>5
  <2>2. Listed(more, s, c) = Listed(assets, s, c) + e.amounts[c]
    BY <1>5, <1>6, <1>7, <1>10, <2>0, <2>1
  <2>3. QED BY <1>10, <2>2 DEF more
<1>11. CASE e.slot # s
  <2>1. SumFunctionOnSet(g, at) = SumFunctionOnSet(f, at) BY <1>3, <1>4, SumSame
  <2>2. Listed(more, s, c) = Listed(assets, s, c) + 0 BY <1>6, <1>7, <1>9, <1>11, <2>1
  <2>3. QED BY <1>11, <2>2 DEF more
<1>12. QED BY <1>10, <1>11

\* before any row is added there is nothing to account for
NoneAdded == kept = <<>> /\ order = <<>>

LEMMA NoRows == SnapshotInv /\ NoneAdded => RowsInv
<1> SUFFICES ASSUME SnapshotInv, kept = <<>>, order = <<>> PROVE RowsInv BY DEF NoneAdded
<1>1. Met = {}
  BY DEF SnapshotInv, GroupsSoFar
<1>2. DOMAIN kept = {} /\ Len(kept) = 0 OBVIOUS
<1>3. pc = "accounts" => Len(kept) + invalid = met BY DEF SnapshotInv, GroupsSoFar
<1>4. RowsAccountFor BY <1>1, <1>2, <1>3 DEF RowsAccountFor
<1>5. QED BY <1>1, <1>2, <1>4 DEF RowsInv

\* and it stays as long as the rows and the table do
LEMMA RowsStand ==
  ASSUME RowsInv, SnapshotInv', UNCHANGED <<model, static, kept, order, groups>>
  PROVE  RowsInv'
<1>1. \A id : RowsOf(id)' = RowsOf(id) BY DEF RowsOf
<1>2. Met' = Met BY DEF Met
<1>3. \A c : Worth(c)' = Worth(c) BY DEF Worth
<1>4. \A s, c : Holding(s, c)' = Holding(s, c) BY DEF Holding
<1>5. Credits' = Credits
  <2>1. \A row : CreditOf(row)' = CreditOf(row)
    BY DEF CreditOf, Credit, CurveCredit, HaircutValue
  <2>2. QED BY <2>1 DEF Credits
<1>6. Entry' = Entry BY DEF Entry
<1>7. Met' = {kept'[i].id : i \in DOMAIN kept'} BY <1>2 DEF RowsInv, RowsAccountFor
<1>8. (pc = "accounts" => Len(kept) + invalid = met)' BY DEF SnapshotInv, GroupsSoFar
<1>9. ASSUME NEW id \in Met
      PROVE  /\ groups'[id].equity = SumFunctionOnSet(Worth("equity"), RowsOf(id))
             /\ groups'[id].debt = SumFunctionOnSet(Worth("debt"), RowsOf(id))
             /\ groups'[id].collateral = SumFunctionOnSet(Credits, RowsOf(id))
             /\ \A s \in Slots : \A c \in Columns(model) :
                  Listed(groups'[id].assets, s, c) = SumFunctionOnSet(Holding(s, c), RowsOf(id))
  BY DEF RowsInv, RowsAccountFor
<1>10. RowsAccountFor'
  BY <1>1, <1>2, <1>3, <1>4, <1>5, <1>7, <1>8, <1>9 DEF RowsAccountFor
<1>11. QED BY <1>2, <1>6, <1>10 DEF RowsInv

\* what is known of the group a row is added to, new or not
LEMMA GroupBefore ==
  ASSUME RowsInv, NEW id
  PROVE  LET group == GroupOf(id) IN
         /\ group.equity = SumFunctionOnSet(Worth("equity"), RowsOf(id))
         /\ group.debt = SumFunctionOnSet(Worth("debt"), RowsOf(id))
         /\ group.collateral = SumFunctionOnSet(Credits, RowsOf(id))
         /\ group.assets \in Seq(Entry)
         /\ \A s \in Slots : \A c \in Columns(model) :
              Listed(group.assets, s, c) = SumFunctionOnSet(Holding(s, c), RowsOf(id))
<1>1. CASE id \in Met
  <2>1. GroupOf(id) = groups[id] BY <1>1 DEF GroupOf, Met
  <2>2. QED BY <1>1, <2>1 DEF RowsInv, RowsAccountFor
<1>2. CASE id \notin Met
  <2>1. GroupOf(id) = NewGroup BY <1>2 DEF GroupOf, Met
  <2>2. RowsOf(id) = {} BY <1>2 DEF RowsOf, RowsInv, RowsAccountFor
  <2>3. <<>> \in Seq(Entry) OBVIOUS
  <2>4. QED BY <2>1, <2>2, <2>3, SumEmpty, NothingListed DEF NewGroup
<1>3. QED BY <1>1, <1>2

\* the rows there were have the values they had
Kept(f, g, n) == \A i \in 1 .. n : g[i] = f[i] /\ f[i] \in Nat

\* one more row of an id: a function of the rows sums to one value more
LEMMA OneMoreRow ==
  ASSUME NEW n \in Nat, NEW R \in SUBSET (1 .. n), NEW k, k \notin R,
         NEW f, NEW g, Kept(f, g, n), g[k] \in Nat
  PROVE  SumFunctionOnSet(g, R \cup {k}) = SumFunctionOnSet(f, R) + g[k]
<1>1. IsFiniteSet(R)
  <2>1. IsFiniteSet(1 .. n) BY FS_Interval
  <2>2. QED BY <2>1, FS_Subset
<1>2. \A i \in R \cup {k} : g[i] \in Nat BY DEF Kept
<1>3. \A i \in R : g[i] = f[i] BY DEF Kept
<1>4. SumFunctionOnSet(g, R \cup {k}) = SumFunctionOnSet(g, R) + g[k]
  BY <1>1, <1>2, SumAdd
<1>5. SumFunctionOnSet(g, R) = SumFunctionOnSet(f, R) BY <1>1, <1>3, SumSame
<1>6. QED BY <1>4, <1>5

\* the rows of everybody else sum to what they did
LEMMA OtherRows ==
  ASSUME NEW n \in Nat, NEW R \in SUBSET (1 .. n), NEW f, NEW g, Kept(f, g, n)
  PROVE  SumFunctionOnSet(g, R) = SumFunctionOnSet(f, R)
<1>1. IsFiniteSet(R)
  <2>1. IsFiniteSet(1 .. n) BY FS_Interval
  <2>2. QED BY <2>1, FS_Subset
<1>2. \A i \in R : g[i] = f[i] BY DEF Kept
<1>3. QED BY <1>1, <1>2, SumSame

(* A row that is added adds what it says to its account and to no other.   *)
LEMMA AddRows ==
  ASSUME RowsInv, SnapshotInv', UNCHANGED <<model, static>>,
         NEW row \in AccountRow(model), row.asset \in Slots, NEW place, NEW credit,
         credit = CreditOf(row),
         Update(row, Grown(row, GroupOf(row.id), place, credit)),
         row.amounts["equity"] = 0 /\ row.amounts["debt"] = 0
           => \A c \in Columns(model) : row.amounts[c] = 0
  PROVE  RowsInv'
<1> DEFINE n == Len(kept)
           before == GroupOf(row.id)
           group == Grown(row, before, place, credit)
           value(c) == row.amounts[c] * static.price[row.asset]
           entry == [slot |-> row.asset, amounts |-> row.amounts]
<1>1. TypeOK /\ GroupsSoFar BY DEF RowsInv, SnapshotInv
<1>2. /\ kept \in Seq(AccountRow(model)) /\ n \in Nat
      /\ kept' = Append(kept, row)
      /\ groups' = [id \in Met \cup {row.id} |-> IF id = row.id THEN group ELSE groups[id]]
  BY <1>1 DEF Update, TypeOK, Met
<1>3. PICK k : k = n + 1 OBVIOUS
<1>4. /\ DOMAIN kept = 1 .. n /\ DOMAIN kept' = 1 .. k
      /\ k \in DOMAIN kept' /\ kept'[k] = row
      /\ \A i \in 1 .. n : i \in DOMAIN kept' /\ i # k
      /\ \A i \in 1 .. n : kept'[i] = kept[i] /\ kept[i] \in AccountRow(model)
      /\ \A i \in DOMAIN kept' : i \in 1 .. n \/ i = k
  BY <1>2, <1>3
<1>5. /\ Met' = Met \cup {row.id} /\ groups'[row.id] = group
      /\ \A id \in Met : id # row.id => groups'[id] = groups[id]
  BY <1>2 DEF Met
<1>6. /\ RowsOf(row.id)' = RowsOf(row.id) \cup {k}
      /\ \A id : id # row.id => RowsOf(id)' = RowsOf(id)
      /\ \A id : RowsOf(id) \subseteq 1 .. n /\ k \notin RowsOf(id)
  BY <1>4 DEF RowsOf
<1>7. \A i \in 1 .. n : kept[i].asset \in Slots BY <1>4 DEF RowsInv
<1>8. /\ "equity" \in Columns(model) /\ "debt" \in Columns(model)
      /\ row.amounts \in [Columns(model) -> Uint64]
      /\ \A c \in Columns(model) : row.amounts[c] \in Nat /\ value(c) \in Nat
      /\ credit \in Nat
  BY <1>1, RowIsNatural DEF Columns
<1>9. \A i \in 1 .. n : /\ CreditOf(kept[i]) \in Nat
                        /\ \A c \in Columns(model) :
                             /\ kept[i].amounts[c] \in Nat
                             /\ kept[i].amounts[c] * static.price[kept[i].asset] \in Nat
  BY <1>1, <1>4, <1>7, RowIsNatural
<1>10. \A c \in Columns(model) :
         /\ Worth(c)'[k] = value(c)
         /\ \A i \in 1 .. n : Worth(c)'[i] = Worth(c)[i] /\ Worth(c)[i] \in Nat
  <2>1. SUFFICES ASSUME NEW c \in Columns(model)
                 PROVE  /\ Worth(c)'[k] = value(c)
                        /\ \A i \in 1 .. n : Worth(c)'[i] = Worth(c)[i] /\ Worth(c)[i] \in Nat
    OBVIOUS
  <2>2. \A i \in DOMAIN kept' :
          Worth(c)'[i] = kept'[i].amounts[c] * static.price[kept'[i].asset]
    BY DEF Worth
  <2>3. \A i \in 1 .. n : Worth(c)[i] = kept[i].amounts[c] * static.price[kept[i].asset]
    BY <1>4 DEF Worth
  <2>4. QED BY <1>4, <1>9, <2>2, <2>3
<1>11. /\ Credits'[k] = credit
       /\ \A i \in 1 .. n : Credits'[i] = Credits[i] /\ Credits[i] \in Nat
  <2>1. \A r : CreditOf(r)' = CreditOf(r)
    BY DEF CreditOf, Credit, CurveCredit, HaircutValue
  <2>2. \A i \in DOMAIN kept' : Credits'[i] = CreditOf(kept'[i]) BY <2>1 DEF Credits
  <2>3. \A i \in 1 .. n : Credits[i] = CreditOf(kept[i]) BY <1>4 DEF Credits
  <2>4. QED BY <1>4, <1>9, <2>2, <2>3
<1>12. \A s \in Slots : \A c \in Columns(model) :
         /\ Holding(s, c)'[k] = IF row.asset = s THEN row.amounts[c] ELSE 0
         /\ \A i \in 1 .. n : Holding(s, c)'[i] = Holding(s, c)[i] /\ Holding(s, c)[i] \in Nat
  <2>1. SUFFICES ASSUME NEW s \in Slots, NEW c \in Columns(model)
                 PROVE  /\ Holding(s, c)'[k] = IF row.asset = s THEN row.amounts[c] ELSE 0
                        /\ \A i \in 1 .. n : /\ Holding(s, c)'[i] = Holding(s, c)[i]
                                             /\ Holding(s, c)[i] \in Nat
    OBVIOUS
  <2>2. \A i \in DOMAIN kept' :
          Holding(s, c)'[i] = IF kept'[i].asset = s THEN kept'[i].amounts[c] ELSE 0
    BY DEF Holding
  <2>3. \A i \in 1 .. n :
          Holding(s, c)[i] = IF kept[i].asset = s THEN kept[i].amounts[c] ELSE 0
    BY <1>4 DEF Holding
  <2>4. Holding(s, c)'[k] = IF row.asset = s THEN row.amounts[c] ELSE 0 BY <1>4, <2>2
  <2>5. ASSUME NEW i \in 1 .. n
        PROVE  Holding(s, c)'[i] = Holding(s, c)[i] /\ Holding(s, c)[i] \in Nat
    <3>1. Holding(s, c)'[i] = IF kept[i].asset = s THEN kept[i].amounts[c] ELSE 0
      BY <1>4, <2>2
    <3>2. Holding(s, c)[i] = IF kept[i].asset = s THEN kept[i].amounts[c] ELSE 0 BY <2>3
    <3>3. kept[i].amounts[c] \in Nat BY <1>9
    <3>4. QED BY <3>1, <3>2, <3>3
  <2>6. QED BY <2>4, <2>5
<1>13. /\ group.equity = before.equity + value("equity")
       /\ group.debt = before.debt + value("debt")
       /\ group.collateral = before.collateral + credit
       /\ group.assets = IF row.amounts["equity"] = 0 /\ row.amounts["debt"] = 0
                           THEN before.assets ELSE Append(before.assets, entry)
  BY DEF Grown
<1>14. /\ before.equity = SumFunctionOnSet(Worth("equity"), RowsOf(row.id))
       /\ before.debt = SumFunctionOnSet(Worth("debt"), RowsOf(row.id))
       /\ before.collateral = SumFunctionOnSet(Credits, RowsOf(row.id))
       /\ before.assets \in Seq(Entry)
       /\ \A s \in Slots : \A c \in Columns(model) :
            Listed(before.assets, s, c) = SumFunctionOnSet(Holding(s, c), RowsOf(row.id))
  BY GroupBefore
<1>15. entry \in Entry /\ Entry' = Entry BY <1>8 DEF Entry
<1>16. \A s \in Slots : \A c \in Columns(model) :
         Listed(group.assets, s, c) = Listed(before.assets, s, c)
                                        + (IF row.asset = s THEN row.amounts[c] ELSE 0)
  <2>1. SUFFICES ASSUME NEW s \in Slots, NEW c \in Columns(model)
                 PROVE  Listed(group.assets, s, c) = Listed(before.assets, s, c)
                          + (IF row.asset = s THEN row.amounts[c] ELSE 0)
    OBVIOUS
  <2>2. CASE row.amounts["equity"] = 0 /\ row.amounts["debt"] = 0
    <3>1. group.assets = before.assets /\ row.amounts[c] = 0 BY <1>13, <2>2
    <3>2. Listed(before.assets, s, c) \in Nat
      <4>1. Listed(before.assets, s, c) = SumFunctionOnSet(Holding(s, c), RowsOf(row.id))
        BY <1>14
      <4>2. IsFiniteSet(RowsOf(row.id))
        <5>1. IsFiniteSet(1 .. n) BY <1>2, FS_Interval
        <5>2. QED BY <1>6, <5>1, FS_Subset
      <4>3. \A i \in RowsOf(row.id) : Holding(s, c)[i] \in Nat BY <1>6, <1>12
      <4>4. QED BY <4>1, <4>2, <4>3, SumNat
    <3>3. QED BY <3>1, <3>2
  <2>3. CASE ~(row.amounts["equity"] = 0 /\ row.amounts["debt"] = 0)
    <3>1. group.assets = Append(before.assets, entry) BY <1>13, <2>3
    <3>2. Listed(Append(before.assets, entry), s, c)
            = Listed(before.assets, s, c) + (IF entry.slot = s THEN entry.amounts[c] ELSE 0)
      BY <1>14, <1>15, ListedGrows
    <3>3. QED BY <3>1, <3>2
  <2>4. QED BY <2>2, <2>3
<1> HIDE DEF n, before, group, value, entry
<1>17. PICK R : R = RowsOf(row.id) OBVIOUS
<1>18. n \in Nat /\ R \in SUBSET (1 .. n) /\ k \notin R BY <1>2, <1>6, <1>17
<1>19. \A f, g : Kept(f, g, n) /\ g[k] \in Nat
                => SumFunctionOnSet(g, R \cup {k}) = SumFunctionOnSet(f, R) + g[k]
  BY <1>18, OneMoreRow
<1>20. /\ group.equity = SumFunctionOnSet(Worth("equity")', RowsOf(row.id) \cup {k})
       /\ group.debt = SumFunctionOnSet(Worth("debt")', RowsOf(row.id) \cup {k})
  <2>1. \A c \in Columns(model) :
          SumFunctionOnSet(Worth(c)', RowsOf(row.id) \cup {k})
            = SumFunctionOnSet(Worth(c), RowsOf(row.id)) + value(c)
    <3>1. SUFFICES ASSUME NEW c \in Columns(model)
                   PROVE  SumFunctionOnSet(Worth(c)', RowsOf(row.id) \cup {k})
                            = SumFunctionOnSet(Worth(c), RowsOf(row.id)) + value(c)
      OBVIOUS
    <3>2. PICK f : f = Worth(c) OBVIOUS
    <3>3. PICK g : g = Worth(c)' OBVIOUS
    <3>4. g[k] = value(c) /\ g[k] \in Nat BY <1>8, <1>10, <3>3
    <3>5. Kept(f, g, n) BY <1>10, <3>2, <3>3 DEF Kept
    <3>6. SumFunctionOnSet(g, RowsOf(row.id) \cup {k})
            = SumFunctionOnSet(f, RowsOf(row.id)) + g[k]
      BY <1>17, <1>19, <3>4, <3>5
    <3>7. QED BY <3>2, <3>3, <3>4, <3>6
  <2>2. QED BY <1>8, <1>13, <1>14, <2>1
<1>21. group.collateral = SumFunctionOnSet(Credits', RowsOf(row.id) \cup {k})
  <2>1. PICK f : f = Credits OBVIOUS
  <2>2. PICK g : g = Credits' OBVIOUS
  <2>3. g[k] = credit /\ g[k] \in Nat BY <1>8, <1>11, <2>2
  <2>4. Kept(f, g, n) BY <1>11, <2>1, <2>2 DEF Kept
  <2>5. SumFunctionOnSet(g, RowsOf(row.id) \cup {k})
          = SumFunctionOnSet(f, RowsOf(row.id)) + g[k]
    BY <1>17, <1>19, <2>3, <2>4
  <2>6. QED BY <1>13, <1>14, <2>1, <2>2, <2>3, <2>5
<1>22. ASSUME NEW s \in Slots, NEW c \in Columns(model)
       PROVE  Listed(group.assets, s, c)
                = SumFunctionOnSet(Holding(s, c)', RowsOf(row.id) \cup {k})
  <2>1. PICK f : f = Holding(s, c) OBVIOUS
  <2>2. PICK g : g = Holding(s, c)' OBVIOUS
  <2>3. g[k] = (IF row.asset = s THEN row.amounts[c] ELSE 0) /\ g[k] \in Nat
    BY <1>8, <1>12, <2>2
  <2>4. Kept(f, g, n) BY <1>12, <2>1, <2>2 DEF Kept
  <2>5. SumFunctionOnSet(g, RowsOf(row.id) \cup {k})
          = SumFunctionOnSet(f, RowsOf(row.id)) + g[k]
    BY <1>17, <1>19, <2>3, <2>4
  <2>6. Listed(before.assets, s, c) = SumFunctionOnSet(f, RowsOf(row.id)) BY <1>14, <2>1
  <2>7. Listed(group.assets, s, c)
          = Listed(before.assets, s, c) + (IF row.asset = s THEN row.amounts[c] ELSE 0)
    BY <1>16
  <2>8. QED BY <2>2, <2>3, <2>5, <2>6, <2>7
<1>23. ASSUME NEW id \in Met, id # row.id
       PROVE  /\ groups[id].equity = SumFunctionOnSet(Worth("equity")', RowsOf(id))
              /\ groups[id].debt = SumFunctionOnSet(Worth("debt")', RowsOf(id))
              /\ groups[id].collateral = SumFunctionOnSet(Credits', RowsOf(id))
              /\ \A s \in Slots : \A c \in Columns(model) :
                   Listed(groups[id].assets, s, c)
                     = SumFunctionOnSet(Holding(s, c)', RowsOf(id))
  <2>1. RowsOf(id) \in SUBSET (1 .. n) BY <1>6
  <2>2. \A f, g : Kept(f, g, n)
                  => SumFunctionOnSet(g, RowsOf(id)) = SumFunctionOnSet(f, RowsOf(id))
    BY <1>2, <2>1, OtherRows
  <2>3. \A c \in Columns(model) :
          SumFunctionOnSet(Worth(c)', RowsOf(id)) = SumFunctionOnSet(Worth(c), RowsOf(id))
    <3>1. ASSUME NEW c \in Columns(model)
          PROVE  Kept(Worth(c), Worth(c)', n)
      BY <1>10, <3>1 DEF Kept
    <3>2. QED BY <2>2, <3>1
  <2>4. SumFunctionOnSet(Credits', RowsOf(id)) = SumFunctionOnSet(Credits, RowsOf(id))
    <3>1. Kept(Credits, Credits', n) BY <1>11 DEF Kept
    <3>2. QED BY <2>2, <3>1
  <2>5. \A s \in Slots : \A c \in Columns(model) :
          SumFunctionOnSet(Holding(s, c)', RowsOf(id))
            = SumFunctionOnSet(Holding(s, c), RowsOf(id))
    <3>1. ASSUME NEW s \in Slots, NEW c \in Columns(model)
          PROVE  Kept(Holding(s, c), Holding(s, c)', n)
      BY <1>12, <3>1 DEF Kept
    <3>2. QED BY <2>2, <3>1
  <2>6. /\ groups[id].equity = SumFunctionOnSet(Worth("equity"), RowsOf(id))
        /\ groups[id].debt = SumFunctionOnSet(Worth("debt"), RowsOf(id))
        /\ groups[id].collateral = SumFunctionOnSet(Credits, RowsOf(id))
        /\ \A s \in Slots : \A c \in Columns(model) :
             Listed(groups[id].assets, s, c) = SumFunctionOnSet(Holding(s, c), RowsOf(id))
    BY <1>23 DEF RowsInv, RowsAccountFor
  <2>7. /\ groups[id].equity = SumFunctionOnSet(Worth("equity")', RowsOf(id))
        /\ groups[id].debt = SumFunctionOnSet(Worth("debt")', RowsOf(id))
    BY <1>8, <2>3, <2>6
  <2>8. groups[id].collateral = SumFunctionOnSet(Credits', RowsOf(id)) BY <2>4, <2>6
  <2>9. ASSUME NEW s \in Slots, NEW c \in Columns(model)
        PROVE  Listed(groups[id].assets, s, c)
                 = SumFunctionOnSet(Holding(s, c)', RowsOf(id))
    <3>1. SumFunctionOnSet(Holding(s, c)', RowsOf(id))
            = SumFunctionOnSet(Holding(s, c), RowsOf(id))
      BY <2>5, <2>9
    <3>2. Listed(groups[id].assets, s, c) = SumFunctionOnSet(Holding(s, c), RowsOf(id))
      BY <2>6, <2>9
    <3>3. QED BY <3>1, <3>2
  <2>10. QED BY <2>7, <2>8, <2>9
<1>24. ASSUME NEW id \in Met'
       PROVE  /\ groups'[id].equity = SumFunctionOnSet(Worth("equity")', RowsOf(id)')
              /\ groups'[id].debt = SumFunctionOnSet(Worth("debt")', RowsOf(id)')
              /\ groups'[id].collateral = SumFunctionOnSet(Credits', RowsOf(id)')
              /\ \A s \in Slots : \A c \in Columns(model) :
                   Listed(groups'[id].assets, s, c)
                     = SumFunctionOnSet(Holding(s, c)', RowsOf(id)')
  <2>1. CASE id = row.id BY <1>5, <1>6, <1>20, <1>21, <1>22, <2>1
  <2>2. CASE id # row.id
    <3>1. id \in Met /\ groups'[id] = groups[id] BY <1>5, <2>2
    <3>2. RowsOf(id)' = RowsOf(id) BY <1>6, <2>2
    <3>3. QED BY <1>23, <2>2, <3>1, <3>2
  <2>3. QED BY <2>1, <2>2
<1>25. Met' = {kept'[i].id : i \in DOMAIN kept'}
  <2>1. Met = {kept[i].id : i \in DOMAIN kept} BY DEF RowsInv, RowsAccountFor
  <2>2. QED BY <1>4, <1>5, <2>1
<1>26. (pc = "accounts" => Len(kept) + invalid = met)' BY DEF SnapshotInv, GroupsSoFar
<1>27. RowsAccountFor' BY <1>24, <1>25, <1>26 DEF RowsAccountFor
<1>28. \A i \in DOMAIN kept' : kept'[i].asset \in Slots BY <1>4, <1>7
<1>29. \A id \in Met' : groups'[id].assets \in Seq(Entry)
  <2>1. group.assets \in Seq(Entry) BY <1>13, <1>14, <1>15
  <2>2. \A id \in Met : groups[id].assets \in Seq(Entry) BY DEF RowsInv
  <2>3. QED BY <1>5, <2>1, <2>2
<1>30. QED BY <1>15, <1>27, <1>28, <1>29 DEF RowsInv

(* A row that is added and lists nothing pledges nothing.                   *)
LEMMA NothingPledged ==
  ASSUME TypeOK, NEW row \in AccountRow(model), row.asset \in Slots,
         model \in {"T2", "T3"} => row.amounts["collateral"] <= row.amounts["equity"],
         model = "T4" => Pledged("T4", row.amounts) <= row.amounts["equity"],
         row.amounts["equity"] = 0, row.amounts["debt"] = 0
  PROVE  \A c \in Columns(model) : row.amounts[c] = 0
<1>1. \A c \in Columns(model) : row.amounts[c] \in Nat BY RowIsNatural
<1>2. Columns(model) = Pools[model] \cup {"equity", "debt"} BY DEF Columns
<1>3. CASE model = "T1"
  <2>1. Pools[model] = {} BY <1>3 DEF Pools
  <2>2. QED BY <1>2, <2>1
<1>4. CASE model \in {"T2", "T3"}
  <2>1. Pools[model] = {"collateral"} BY <1>4 DEF Pools
  <2>2. row.amounts["collateral"] = 0 BY <1>1, <1>2, <1>4, <2>1
  <2>3. QED BY <1>2, <2>1, <2>2
<1>5. CASE model = "T4"
  <2>1. Pools[model] = {"loan", "margin", "portfolio_margin"} BY <1>5 DEF Pools
  <2>2. IsFiniteSet(Pools[model]) BY PoolsAreFew
  <2>3. \A p \in Pools[model] : row.amounts[p] \in Nat BY <1>1, <1>2
  <2>4. Pledged("T4", row.amounts) = SumFunctionOnSet(row.amounts, Pools[model])
    BY <1>5 DEF Pledged
  <2>5. \A p \in Pools[model] : row.amounts[p] <= SumFunctionOnSet(row.amounts, Pools[model])
    <3>1. SUFFICES ASSUME NEW p \in Pools[model]
                   PROVE  row.amounts[p] <= SumFunctionOnSet(row.amounts, Pools[model])
      OBVIOUS
    <3>2. IsFiniteSet(Pools[model] \ {p}) BY <2>2, FS_Subset
    <3>3. SumFunctionOnSet(row.amounts, Pools[model] \ {p}) \in Nat BY <2>3, <3>2, SumNat
    <3>4. SumFunctionOnSet(row.amounts, Pools[model])
            = row.amounts[p] + SumFunctionOnSet(row.amounts, Pools[model] \ {p})
      BY <2>2, <2>3, SumRemove
    <3>5. QED BY <2>3, <3>3, <3>4
  <2>6. SumFunctionOnSet(row.amounts, Pools[model]) <= 0 BY <1>5, <2>4
  <2>7. ASSUME NEW p \in Pools[model] PROVE row.amounts[p] = 0
    <3>1. row.amounts[p] \in Nat BY <2>3
    <3>2. row.amounts[p] <= SumFunctionOnSet(row.amounts, Pools[model]) BY <2>5
    <3>3. SumFunctionOnSet(row.amounts, Pools[model]) \in Nat BY <2>2, <2>3, SumNat
    <3>4. QED BY <2>6, <3>1, <3>2, <3>3
  <2>8. QED BY <1>2, <2>1, <2>7
<1>6. QED BY <1>3, <1>4, <1>5 DEF TypeOK, Models

\* a row is added whole, with its credit, only if it backs what it pledges
Added(row) ==
  \E place, credit :
    /\ row.asset \in Slots /\ credit = CreditOf(row)
    /\ Update(row, Grown(row, GroupOf(row.id), place, credit))
    /\ model \in {"T2", "T3"} => row.amounts["collateral"] <= row.amounts["equity"]
    /\ model = "T4" => Pledged("T4", row.amounts) <= row.amounts["equity"]

(* Every row that is read is added whole, or leaves what was there.        *)
LEMMA SkippedOrAdded ==
  ASSUME TypeOK, NEW row \in AccountRow(model), ReadRow(row)
  PROVE  Skip \/ Added(row)
<1>1. row.asset \in Slots =>
        /\ "equity" \in DOMAIN row.amounts /\ row.amounts["equity"] \in Nat
        /\ model \in {"T2", "T3"} => row.amounts["collateral"] \in Nat
        /\ model = "T4" => Pledged("T4", row.amounts) \in Nat
  <2> SUFFICES ASSUME row.asset \in Slots
               PROVE  /\ "equity" \in DOMAIN row.amounts /\ row.amounts["equity"] \in Nat
                      /\ model \in {"T2", "T3"} => row.amounts["collateral"] \in Nat
                      /\ model = "T4" => Pledged("T4", row.amounts) \in Nat
    OBVIOUS
  <2>1. /\ row.amounts \in [Columns(model) -> Uint64]
        /\ \A c \in Columns(model) : row.amounts[c] \in Nat
    BY RowIsNatural
  <2>2. "equity" \in Columns(model) /\ Pools[model] \subseteq Columns(model) BY DEF Columns
  <2>3. model \in {"T2", "T3"} => "collateral" \in Pools[model] BY DEF Pools
  <2>4. ASSUME model = "T4" PROVE Pledged("T4", row.amounts) \in Nat
    <3>1. Pledged("T4", row.amounts) = SumFunctionOnSet(row.amounts, Pools[model])
      BY <2>4 DEF Pledged
    <3>2. \A p \in Pools[model] : row.amounts[p] \in Nat BY <2>1, <2>2
    <3>3. QED BY <3>1, <3>2, PoolsAreFew, SumNat
  <2>5. QED BY <2>1, <2>2, <2>3, <2>4
<1>2. Skip \/ Added(row)
  <2>1. CASE T1AddRow(row) BY <2>1 DEF T1AddRow, CreditOf, Added
  <2>2. CASE T2AddRow(row)
    <3>1. ~(row.amounts["collateral"] > row.amounts["equity"])
            => row.asset \notin Slots \/ row.amounts["collateral"] <= row.amounts["equity"]
      BY <1>1, <2>2 DEF T2AddRow
    <3>2. CASE Skip BY <3>2
    <3>3. CASE ~Skip
      <4>1. /\ model = "T2" /\ row.asset \in Slots
            /\ ~(row.amounts["collateral"] > row.amounts["equity"])
            /\ Update(row, Grown(row, GroupOf(row.id), Place(GroupOf(row.id)),
                                 Credit(row.amounts, static, row.asset, "collateral")))
        BY <2>2, <3>3 DEF T2AddRow
      <4>2. QED BY <3>1, <4>1 DEF CreditOf, Added
    <3>4. QED BY <3>2, <3>3
  <2>3. CASE T3AddRow(row)
    <3>1. ~(row.amounts["collateral"] > row.amounts["equity"])
            => row.asset \notin Slots \/ row.amounts["collateral"] <= row.amounts["equity"]
      BY <1>1, <2>3 DEF T3AddRow
    <3>2. CASE Skip BY <3>2
    <3>3. CASE ~Skip
      <4>1. /\ model = "T3" /\ row.asset \in Slots
            /\ ~(row.amounts["collateral"] > row.amounts["equity"])
            /\ Update(row, Grown(row, GroupOf(row.id), Place(GroupOf(row.id)),
                                 CurveCredit(row)))
        BY <2>3, <3>3 DEF T3AddRow
      <4>2. QED BY <3>1, <4>1 DEF CreditOf, Added
    <3>4. QED BY <3>2, <3>3
  <2>4. CASE T4AddRow(row)
    <3>1. ~(Pledged("T4", row.amounts) > row.amounts["equity"])
            => row.asset \notin Slots \/ Pledged("T4", row.amounts) <= row.amounts["equity"]
      BY <1>1, <2>4 DEF T4AddRow
    <3>2. CASE Skip BY <3>2
    <3>3. CASE ~Skip
      <4>1. /\ model = "T4" /\ row.asset \in Slots
            /\ ~(Pledged("T4", row.amounts) > row.amounts["equity"])
            /\ Update(row, Grown(row, GroupOf(row.id), Stated(row, GroupOf(row.id)),
                                 CurveCredit(row)))
        BY <2>4, <3>3 DEF T4AddRow
      <4>2. QED BY <3>1, <4>1 DEF CreditOf, Added
    <3>4. QED BY <3>2, <3>3
  <2>5. QED BY <2>1, <2>2, <2>3, <2>4 DEF ReadRow
<1>3. QED BY <1>2

LEMMA ReadRowRows ==
  ASSUME RowsInv, SnapshotInv', NEW row \in AccountRows[model], ReadRow(row)
  PROVE  RowsInv'
<1>1. TypeOK BY DEF RowsInv, SnapshotInv
<1>2. UNCHANGED <<model, static>> BY DEF ReadRow, assetTable
<1>3. row \in AccountRow(model) BY SnapshotAssumption, <1>1 DEF TypeOK
<1>4. Skip \/ Added(row) BY <1>1, <1>3, SkippedOrAdded
<1>5. CASE Skip BY <1>2, <1>5, RowsStand DEF Skip
<1>6. CASE Added(row)
  <2>1. PICK place, credit :
          /\ row.asset \in Slots /\ credit = CreditOf(row)
          /\ Update(row, Grown(row, GroupOf(row.id), place, credit))
          /\ model \in {"T2", "T3"} => row.amounts["collateral"] <= row.amounts["equity"]
          /\ model = "T4" => Pledged("T4", row.amounts) <= row.amounts["equity"]
    BY <1>6 DEF Added
  <2>2. row.amounts["equity"] = 0 /\ row.amounts["debt"] = 0
          => \A c \in Columns(model) : row.amounts[c] = 0
    BY <1>1, <1>3, <2>1, NothingPledged
  <2>3. QED BY <1>2, <1>3, <2>1, <2>2, AddRows
<1>7. QED BY <1>4, <1>5, <1>6

LEMMA StepRows ==
  ASSUME RowsInv, SnapshotInv', [Next]_vars
  PROVE  RowsInv' \/ NoneAdded'
<1>1. pc = "assets" => NoneAdded BY DEF RowsInv, SnapshotInv, GroupsSoFar, NoneAdded
<1>2. ASSUME NEW row \in AssetRows[model], ReadAsset(row) PROVE NoneAdded'
  BY <1>1, <1>2 DEF ReadAsset, accounts, NoneAdded
<1>3. CASE EndOfAssets BY <1>1, <1>3 DEF EndOfAssets, accounts, NoneAdded
<1>4. ASSUME NEW row \in AccountRows[model], ReadRow(row) PROVE RowsInv'
  BY <1>4, ReadRowRows
<1>5. CASE EndOfAccounts
  <2>1. UNCHANGED <<model, static, kept, order, groups>> BY <1>5 DEF EndOfAccounts, assetTable
  <2>2. QED BY <2>1, RowsStand
<1>6. CASE UNCHANGED vars
  <2>1. UNCHANGED <<model, static, kept, order, groups>>
    BY <1>6 DEF vars, assetTable, accounts
  <2>2. QED BY <2>1, RowsStand
<1>7. QED BY <1>2, <1>3, <1>4, <1>5, <1>6 DEF Next

(* The sums of every account are those of its rows, and stay so.           *)
THEOREM RowsInvariant == Spec => []RowsInv
<1>1. Init => NoneAdded BY DEF Init, NoneAdded
<1>2. RowsInv /\ SnapshotInv' /\ [Next]_vars => RowsInv' \/ NoneAdded' BY StepRows
<1>3. SnapshotInv /\ NoneAdded => RowsInv BY NoRows
<1>4. QED BY <1>1, <1>2, <1>3, SnapshotInvariant, PTL DEF Spec

(* An account is made of the rows added for it and of nothing else: its    *)
(* sums, its credit and what it lists of every slot are those of its rows. *)
THEOREM Rows == Spec => []RowsAccountFor
<1>1. RowsInv => RowsAccountFor BY DEF RowsInv
<1>2. QED BY <1>1, RowsInvariant, PTL

-----------------------------------------------------------------------------
(* Recursion and ascending lists.                                          *)

(* Induction along 0 .. N. *)
LEMMA InductionUpto ==
  ASSUME NEW N \in Nat, NEW G, 0 \in G, \A k \in 1 .. N : k - 1 \in G => k \in G
  PROVE  \A k \in 0 .. N : k \in G
<1> DEFINE H == {n \in Nat : n <= N => n \in G}
<1>1. 0 \in H OBVIOUS
<1>2. ASSUME NEW n \in Nat, n \in H PROVE n + 1 \in H
  <2>1. SUFFICES ASSUME n + 1 <= N PROVE n + 1 \in G OBVIOUS
  <2>2. n <= N /\ n + 1 \in 1 .. N /\ (n + 1) - 1 = n BY <2>1
  <2>3. QED BY <1>2, <2>2
<1>3. Nat \subseteq H
  <2> HIDE DEF H
  <2>1. QED BY <1>1, <1>2, InductionOnNat
<1>4. QED BY <1>3

\* f starts with base and follows step
Follows(f, base, step, N) == f[0] = base /\ \A k \in 1 .. N : f[k] = step[k][f[k - 1]]

(* A recursion along 0 .. N has a solution in the set its steps stay in. *)
LEMMA RecursionSolved ==
  ASSUME NEW N \in Nat, NEW V, NEW base \in V, NEW step \in [1 .. N -> [V -> V]]
  PROVE  \E f : f \in [0 .. N -> V] /\ Follows(f, base, step, N)
<1> DEFINE all == [n \in Nat |-> IF n \in 1 .. N THEN step[n] ELSE [v \in V |-> v]]
<1>1. all \in [Nat -> [V -> V]]
  <2>1. \A n \in Nat : (IF n \in 1 .. N THEN step[n] ELSE [v \in V |-> v]) \in [V -> V] OBVIOUS
  <2>2. QED BY <2>1
<1>2. \A k \in 1 .. N : all[k] = step[k] /\ k \in 0 .. N /\ k # 0 OBVIOUS
<1> HIDE DEF all
<1>3. PICK f : f \in [0 .. N -> V] /\ Along(f, base, all, N) BY <1>1, RecursionUpto
<1>4. f[0] = base /\ \A k \in 1 .. N : f[k] = all[k][f[k - 1]] BY <1>2, <1>3 DEF Along
<1>5. QED BY <1>2, <1>3, <1>4 DEF Follows

(* The numbers of an ascending list come later as they are larger. *)
Climbs(s) == \A i, j \in DOMAIN s : i < j => s[i] < s[j]

LEMMA StepsClimb ==
  ASSUME NEW n \in Nat, NEW s, DOMAIN s = 1 .. n, \A i \in 1 .. n : s[i] \in Int,
         \A i \in 1 .. (n - 1) : s[i] < s[i + 1]
  PROVE  Climbs(s)
<1> DEFINE G == {k \in Nat : \A i \in 1 .. n : i + k + 1 \in 1 .. n => s[i] < s[i + k + 1]}
<1>1. 0 \in G
  <2>1. ASSUME NEW i \in 1 .. n, i + 0 + 1 \in 1 .. n PROVE s[i] < s[i + 0 + 1]
    <3>1. i \in 1 .. (n - 1) /\ i + 0 + 1 = i + 1 BY <2>1
    <3>2. QED BY <3>1
  <2>2. QED BY <2>1
<1>2. ASSUME NEW k \in Nat, k \in G PROVE k + 1 \in G
  <2>1. ASSUME NEW i \in 1 .. n, i + (k + 1) + 1 \in 1 .. n PROVE s[i] < s[i + (k + 1) + 1]
    <3>1. PICK m : m = i + k + 1 OBVIOUS
    <3>2. m \in 1 .. n /\ m \in 1 .. (n - 1) /\ i + (k + 1) + 1 = m + 1 /\ m + 1 \in 1 .. n
      BY <2>1, <3>1
    <3>3. s[i] < s[m] BY <1>2, <3>1, <3>2
    <3>4. s[m] < s[m + 1] BY <3>2
    <3>5. s[i] \in Int /\ s[m] \in Int /\ s[m + 1] \in Int BY <3>2
    <3>6. s[i] < s[m + 1] BY <3>3, <3>4, <3>5
    <3>7. QED BY <3>2, <3>6
  <2>2. QED BY <2>1
<1>3. Nat \subseteq G
  <2> HIDE DEF G
  <2>1. QED BY <1>1, <1>2, InductionOnNat
<1>4. ASSUME NEW i \in 1 .. n, NEW j \in 1 .. n, i < j PROVE s[i] < s[j]
  <2>1. PICK k : k = j - i - 1 OBVIOUS
  <2>2. k \in Nat /\ i + k + 1 = j BY <1>4, <2>1
  <2>3. k \in G BY <1>3, <2>2
  <2>4. QED BY <2>2, <2>3
<1>5. QED BY <1>4 DEF Climbs

LEMMA ClimbsApart ==
  ASSUME NEW n \in Nat, NEW s, DOMAIN s = 1 .. n, \A i \in 1 .. n : s[i] \in Int, Climbs(s)
  PROVE  /\ \A i, j \in 1 .. n : s[i] = s[j] => i = j
         /\ \A i, j \in 1 .. n : s[i] < s[j] => i < j
<1>1. ASSUME NEW i \in 1 .. n, NEW j \in 1 .. n PROVE s[i] = s[j] => i = j
  <2>1. i < j => s[i] < s[j] BY DEF Climbs
  <2>2. j < i => s[j] < s[i] BY DEF Climbs
  <2>3. s[i] \in Int /\ s[j] \in Int OBVIOUS
  <2>4. QED BY <2>1, <2>2, <2>3
<1>2. ASSUME NEW i \in 1 .. n, NEW j \in 1 .. n PROVE s[i] < s[j] => i < j
  <2>1. j < i => s[j] < s[i] BY DEF Climbs
  <2>2. s[i] \in Int /\ s[j] \in Int /\ (i = j => s[i] = s[j]) OBVIOUS
  <2>3. QED BY <2>1, <2>2
<1>3. QED BY <1>1, <1>2

(* A set has as many elements as a list of them without repetitions. *)
LEMMA ListsOnce ==
  ASSUME NEW n \in Nat, NEW s, \A i, j \in 1 .. n : s[i] = s[j] => i = j,
         NEW T, \A i \in 1 .. n : s[i] \in T, \A t \in T : \E i \in 1 .. n : s[i] = t
  PROVE  Cardinality(T) = n /\ IsFiniteSet(T)
<1> DEFINE S == 1 .. n
           f == [i \in S |-> s[i]]
<1>1. f \in Bijection(S, T)
  <2>1. f \in [S -> T] OBVIOUS
  <2>2. \A t \in T : \E i \in S : f[i] = t OBVIOUS
  <2>3. \A i, j \in S : f[i] = f[j] => i = j OBVIOUS
  <2> HIDE DEF S, f
  <2>4. QED BY <2>1, <2>2, <2>3 DEF Bijection, Injection, Surjection, IsInjective
<1>2. IsFiniteSet(S) /\ Cardinality(S) = n
  <2>1. QED BY FS_Interval
<1> HIDE DEF S, f
<1>3. ExistsBijection(S, T) BY <1>1 DEF ExistsBijection
<1>4. QED BY <1>2, <1>3, FS_Bijection

(* What an ascending list holds is, in ascending order, the list. *)
LEMMA AscendingIs ==
  ASSUME NEW a \in Seq(Nat), Climbs(a)
  PROVE  Ascending({a[i] : i \in DOMAIN a}) = a
<1>1. PICK n \in Nat : n = Len(a) /\ DOMAIN a = 1 .. n OBVIOUS
<1>2. \A i \in 1 .. n : a[i] \in Nat BY <1>1
<1> DEFINE S == {a[i] : i \in 1 .. n}
           Below(s) == {r \in S : r < s}
<1>3. /\ \A i, j \in 1 .. n : a[i] = a[j] => i = j
      /\ \A i, j \in 1 .. n : a[i] < a[j] => i < j
      /\ \A i, j \in 1 .. n : i < j => a[i] < a[j]
  <2>1. \A i \in 1 .. n : a[i] \in Int BY <1>2
  <2>2. \A i, j \in 1 .. n : i < j => a[i] < a[j] BY <1>1 DEF Climbs
  <2>3. QED BY <1>1, <2>1, <2>2, ClimbsApart
<1>4. Cardinality(S) = n
  <2>1. \A i \in 1 .. n : a[i] \in S OBVIOUS
  <2>2. \A t \in S : \E i \in 1 .. n : a[i] = t OBVIOUS
  <2>3. QED BY <1>3, <2>1, <2>2, ListsOnce
<1>5. ASSUME NEW i \in 1 .. n PROVE Cardinality(Below(a[i])) = i - 1
  <2>1. PICK m \in Nat : m = i - 1 OBVIOUS
  <2>2. \A j \in 1 .. m : j \in 1 .. n /\ j < i BY <2>1
  <2>3. \A j \in 1 .. n : j < i => j \in 1 .. m BY <2>1
  <2>4. Below(a[i]) = {a[j] : j \in 1 .. m}
    <3>1. \A r \in Below(a[i]) : r \in {a[j] : j \in 1 .. m}
      <4>1. TAKE r \in Below(a[i])
      <4>2. PICK j \in 1 .. n : r = a[j] OBVIOUS
      <4>3. a[j] < a[i] BY <4>2
      <4>4. QED BY <1>3, <2>3, <4>2, <4>3
    <3>2. \A r \in {a[j] : j \in 1 .. m} : r \in Below(a[i])
      <4>1. TAKE r \in {a[j] : j \in 1 .. m}
      <4>2. PICK j \in 1 .. m : r = a[j] OBVIOUS
      <4>3. a[j] < a[i] /\ a[j] \in S BY <1>3, <2>2
      <4>4. QED BY <4>2, <4>3
    <3> HIDE DEF Below
    <3>3. QED BY <3>1, <3>2
  <2>5. \A j, k \in 1 .. m : a[j] = a[k] => j = k BY <1>3, <2>2
  <2>6. Cardinality({a[j] : j \in 1 .. m}) = m
    <3>1. PICK s, T : s = a /\ T = {a[j] : j \in 1 .. m} OBVIOUS
    <3>2. \A j \in 1 .. m : s[j] \in T BY <3>1
    <3>3. \A t \in T : \E j \in 1 .. m : s[j] = t BY <3>1
    <3>4. \A j, k \in 1 .. m : s[j] = s[k] => j = k BY <2>5, <3>1
    <3>5. Cardinality(T) = m BY <3>2, <3>3, <3>4, ListsOnce
    <3>6. QED BY <3>1, <3>5
  <2>7. QED BY <2>1, <2>4, <2>6
<1>6. ASSUME NEW i \in 1 .. n
      PROVE  (CHOOSE s \in S : Cardinality(Below(s)) = i - 1) = a[i]
  <2>1. a[i] \in S /\ Cardinality(Below(a[i])) = i - 1 BY <1>5
  <2>2. ASSUME NEW s \in S, Cardinality(Below(s)) = i - 1 PROVE s = a[i]
    <3>1. PICK j \in 1 .. n : s = a[j] OBVIOUS
    <3>2. Cardinality(Below(a[j])) = j - 1 BY <1>5
    <3> HIDE DEF Below
    <3>3. i - 1 = j - 1 BY <2>2, <3>1, <3>2
    <3>4. i = j BY <3>3
    <3>5. QED BY <3>1, <3>4
  <2> HIDE DEF S, Below
  <2>3. QED BY <2>1, <2>2
<1>7. Ascending(S) = [i \in 1 .. n |-> CHOOSE s \in S : Cardinality(Below(s)) = i - 1]
  <2> HIDE DEF S
  <2>1. QED BY <1>4 DEF Ascending
<1> HIDE DEF Below
<1>8. Ascending(S) = [i \in 1 .. n |-> a[i]]
  <2> HIDE DEF S
  <2>1. QED BY <1>6, <1>7
<1>9. a = [i \in 1 .. n |-> a[i]] BY <1>1
<1>10. QED BY <1>1, <1>8, <1>9

-----------------------------------------------------------------------------
(* The slots of a leaf. *)

FromTo(list, a, g) == list \o From(a, g)

LEMMA ClimbsOn ==
  ASSUME NEW s \in Seq(Nat), Climbs(s), NEW a \in Nat, \A i \in DOMAIN s : s[i] < a,
         NEW g \in Nat
  PROVE  /\ FromTo(s, a, g) \in Seq(Nat) /\ Len(FromTo(s, a, g)) = Len(s) + g
         /\ Climbs(FromTo(s, a, g))
         /\ \A i \in DOMAIN FromTo(s, a, g) : FromTo(s, a, g)[i] < a + g
         /\ \A i \in DOMAIN s : i \in DOMAIN FromTo(s, a, g) /\ FromTo(s, a, g)[i] = s[i]
<1> DEFINE f == [k \in 1 .. g |-> a + k - 1]
           t == FromTo(s, a, g)
<1>1. f \in Seq(Nat) /\ Len(f) = g /\ \A k \in 1 .. g : f[k] = a + k - 1
  <2>1. \A k \in 1 .. g : a + k - 1 \in Nat OBVIOUS
  <2>2. f \in [1 .. g -> Nat] BY <2>1
  <2>3. QED BY <2>2
<1>2. t = s \o f BY DEF From, FromTo
<1>3. PICK n \in Nat : n = Len(s) /\ DOMAIN s = 1 .. n OBVIOUS
<1> HIDE DEF f
<1>4. t \in Seq(Nat) /\ Len(t) = n + g /\ DOMAIN t = 1 .. (n + g)
  <2>1. f \in Seq(Nat) /\ Len(f) = g BY <1>1
  <2>2. s \o f \in Seq(Nat) /\ Len(s \o f) = n + g BY <1>3, <2>1
  <2> HIDE DEF t
  <2>3. QED BY <1>2, <2>2
<1>5. \A i \in 1 .. n : i \in DOMAIN t /\ t[i] = s[i]
  <2>1. TAKE i \in 1 .. n
  <2>2. i \in 1 .. (n + g) /\ i \in 1 .. (Len(s) + Len(f)) /\ i <= Len(s) BY <1>1, <1>3
  <2>3. QED BY <1>1, <1>2, <1>3, <1>4, <2>2
<1>6. \A i \in 1 .. (n + g) : i \notin 1 .. n => t[i] = a + (i - n) - 1 /\ i - n \in 1 .. g
  <2>1. TAKE i \in 1 .. (n + g)
  <2>2. SUFFICES ASSUME i \notin 1 .. n PROVE t[i] = a + (i - n) - 1 /\ i - n \in 1 .. g
    OBVIOUS
  <2>3. i - n \in 1 .. g /\ i > n BY <2>2
  <2>4. t[i] = f[i - n] BY <1>1, <1>2, <1>3, <2>3
  <2>5. QED BY <1>1, <2>3, <2>4
<1> HIDE DEF t
<1>7. \A i \in 1 .. n : s[i] \in Nat /\ s[i] < a BY <1>3
<1>8. ASSUME NEW i \in 1 .. (n + g) PROVE t[i] < a + g
  <2>1. CASE i \in 1 .. n BY <1>5, <1>7, <2>1
  <2>2. CASE i \notin 1 .. n BY <1>6, <2>2
  <2>3. QED BY <2>1, <2>2
<1>9. ASSUME NEW i \in 1 .. (n + g), NEW j \in 1 .. (n + g), i < j PROVE t[i] < t[j]
  <2>1. CASE j \in 1 .. n
    <3>1. i \in 1 .. n BY <1>9, <2>1
    <3>2. s[i] < s[j] BY <1>3, <1>9, <2>1, <3>1 DEF Climbs
    <3>3. QED BY <1>5, <2>1, <3>1, <3>2
  <2>2. CASE j \notin 1 .. n /\ i \in 1 .. n
    <3>1. t[i] = s[i] /\ s[i] \in Nat /\ s[i] < a BY <1>5, <1>7, <2>2
    <3>2. t[j] = a + (j - n) - 1 /\ j - n \in 1 .. g BY <1>6, <2>2
    <3>3. QED BY <3>1, <3>2
  <2>3. CASE j \notin 1 .. n /\ i \notin 1 .. n BY <1>6, <1>9, <2>3
  <2>4. QED BY <2>1, <2>2, <2>3
<1>10. Climbs(t) BY <1>4, <1>9 DEF Climbs
<1>11. QED BY <1>3, <1>4, <1>5, <1>8, <1>10 DEF t

\* where Padded stands
PaddedState == [out : Seq(Nat), left : Nat, next : Nat]

\* the gap before an asset
Gap(st, slot) == IF slot > st.next THEN Least2(st.left, slot - st.next) ELSE 0

LEMMA GapIs ==
  ASSUME NEW st \in PaddedState, NEW slot \in Nat
  PROVE  /\ Gap(st, slot) \in Nat /\ Gap(st, slot) <= st.left
         /\ slot >= st.next => st.next + Gap(st, slot) <= slot
         /\ slot >= st.next /\ Gap(st, slot) < st.left => st.next + Gap(st, slot) = slot
<1>1. st.left \in Nat /\ st.next \in Nat BY DEF PaddedState
<1>2. QED BY <1>1 DEF Gap, Least2

LEMMA PlacedIs ==
  ASSUME NEW st \in PaddedState, NEW slot \in Nat
  PROVE  /\ Placed(st, slot).out = FromTo(st.out, st.next, Gap(st, slot)) \o <<slot>>
         /\ Placed(st, slot).left = st.left - Gap(st, slot)
         /\ Placed(st, slot).next = slot + 1
         /\ Placed(st, slot) \in PaddedState
<1>1. st.out \in Seq(Nat) /\ st.left \in Nat /\ st.next \in Nat BY DEF PaddedState
<1>2. PICK g \in Nat : g = Gap(st, slot) /\ g <= st.left BY GapIs
<1>3. Placed(st, slot) = [out |-> FromTo(st.out, st.next, g) \o <<slot>>,
                          left |-> st.left - g, next |-> slot + 1]
  <2>1. \A x, y, z : x \in Seq(Nat) /\ y \in Seq(Nat) /\ z \in Seq(Nat)
                       => (x \o y) \o z = x \o (y \o z) OBVIOUS
  <2>2. QED BY <1>2 DEF Placed, Gap, FromTo
<1>4. FromTo(st.out, st.next, g) \in Seq(Nat)
  <2>1. \A k \in 1 .. g : st.next + k - 1 \in Nat BY <1>1
  <2>2. From(st.next, g) \in [1 .. g -> Nat] BY <2>1 DEF From
  <2>3. From(st.next, g) \in Seq(Nat) BY <2>2
  <2>4. QED BY <1>1, <2>3 DEF FromTo
<1>5. FromTo(st.out, st.next, g) \o <<slot>> \in Seq(Nat)
  <2>1. <<slot>> \in Seq(Nat) OBVIOUS
  <2>2. QED BY <1>4, <2>1
<1>6. st.left - g \in Nat /\ slot + 1 \in Nat BY <1>1, <1>2
<1>7. QED BY <1>2, <1>3, <1>5, <1>6 DEF PaddedState

LEMMA PaddedAlong ==
  ASSUME NEW slots \in Seq(Nat), NEW target \in Nat, Len(slots) <= target
  PROVE  \E p \in [0 .. Len(slots) -> PaddedState] :
           /\ p[0] = [out |-> <<>>, left |-> target - Len(slots), next |-> 0]
           /\ \A k \in 1 .. Len(slots) : p[k] = Placed(p[k - 1], slots[k])
           /\ Padded(slots, target)
                = FromTo(p[Len(slots)].out, p[Len(slots)].next, p[Len(slots)].left)
<1>1. PICK N \in Nat : N = Len(slots) OBVIOUS
<1> DEFINE base == [out |-> <<>>, left |-> target - N, next |-> 0]
           step == [k \in 1 .. N |-> [v \in PaddedState |-> Placed(v, slots[k])]]
           Body(g, k) == IF k = 0 THEN base ELSE Placed(g[k - 1], slots[k])
           Def(g) == g = [k \in 0 .. N |-> Body(g, k)]
           b == CHOOSE g : Def(g)
<1>2. \A k \in 1 .. N : slots[k] \in Nat BY <1>1
<1>3. base \in PaddedState
  <2>1. target - N \in Nat /\ <<>> \in Seq(Nat) BY <1>1
  <2>2. QED BY <2>1 DEF PaddedState
<1>4. step \in [1 .. N -> [PaddedState -> PaddedState]]
  <2>1. \A k \in 1 .. N, v \in PaddedState : Placed(v, slots[k]) \in PaddedState
    BY <1>2, PlacedIs
  <2>2. QED BY <2>1
<1>5. \A k \in 1 .. N, v \in PaddedState : step[k][v] = Placed(v, slots[k]) OBVIOUS
<1>6. \A k \in 1 .. N : k - 1 \in 0 .. N /\ k \in 0 .. N /\ k # 0 OBVIOUS
<1>7. \A k \in 0 .. N : k # 0 => k \in 1 .. N OBVIOUS
<1> HIDE DEF base, step
<1>8. PICK f \in [0 .. N -> PaddedState] : Follows(f, base, step, N)
  BY <1>3, <1>4, RecursionSolved
<1>9. Def(f)
  <2>1. \A k \in 0 .. N : f[k] = Body(f, k)
    <3>1. ASSUME NEW k \in 1 .. N PROVE f[k] = Placed(f[k - 1], slots[k])
      BY <1>5, <1>6, <1>8 DEF Follows
    <3>2. f[0] = base BY <1>8 DEF Follows
    <3>3. QED BY <1>7, <3>1, <3>2
  <2> HIDE DEF Body
  <2>2. f = [k \in 0 .. N |-> f[k]] BY <1>8
  <2>3. QED BY <2>1, <2>2
<1>10. Def(b)
  <2> HIDE DEF Def
  <2>1. QED BY <1>9
<1>11. Padded(slots, target) = FromTo(b[N].out, b[N].next, b[N].left)
  BY <1>1 DEF Padded, base, FromTo
<1> HIDE DEF b
<1>12. \A k \in 0 .. N : b[k] = Body(b, k)
  <2> HIDE DEF Body
  <2>1. QED BY <1>10
<1>13. b[0] = base /\ \A k \in 1 .. N : b[k] = Placed(b[k - 1], slots[k])
  <2>1. 0 \in 0 .. N OBVIOUS
  <2>2. QED BY <1>6, <1>12, <2>1
<1>14. \A k \in 0 .. N : b[k] \in PaddedState
  <2> DEFINE G == {k \in 0 .. N : b[k] \in PaddedState}
  <2>1. 0 \in G BY <1>3, <1>13
  <2>2. \A k \in 1 .. N : k - 1 \in G => k \in G BY <1>2, <1>6, <1>13, PlacedIs
  <2> HIDE DEF G
  <2>3. \A k \in 0 .. N : k \in G BY <2>1, <2>2, InductionUpto
  <2>4. QED BY <2>3 DEF G
<1>15. b \in [0 .. N -> PaddedState]
  <2>1. b = [k \in 0 .. N |-> b[k]]
    <3> HIDE DEF Body
    <3>1. QED BY <1>10
  <2>2. QED BY <1>14, <2>1
<1>16. QED BY <1>1, <1>11, <1>13, <1>15 DEF base

\* after k slots of n, d empty assets at the start
PaddedSoFar(st, slots, k, d) ==
  /\ Climbs(st.out) /\ \A i \in DOMAIN st.out : st.out[i] < st.next
  /\ st.left <= d /\ Len(st.out) = k + d - st.left
  /\ st.left > 0 => Len(st.out) = st.next
  /\ st.next = IF k = 0 THEN 0 ELSE slots[k] + 1
  /\ \A i \in 1 .. k : \E j \in DOMAIN st.out : st.out[j] = slots[i]

LEMMA PaddedStep ==
  ASSUME NEW slots \in Seq(Nat), Climbs(slots), NEW k \in 1 .. Len(slots), NEW d \in Nat,
         NEW st \in PaddedState, PaddedSoFar(st, slots, k - 1, d)
  PROVE  PaddedSoFar(Placed(st, slots[k]), slots, k, d)
<1>1. PICK N \in Nat : N = Len(slots) /\ DOMAIN slots = 1 .. N OBVIOUS
<1>2. PICK slot \in Nat : slot = slots[k] BY <1>1
<1>3. PICK g \in Nat : g = Gap(st, slot) BY GapIs
<1>4. st.out \in Seq(Nat) /\ st.left \in Nat /\ st.next \in Nat BY DEF PaddedState
<1>5. slot >= st.next
  <2>1. CASE k = 1 BY <1>2, <2>1 DEF PaddedSoFar
  <2>2. CASE k # 1
    <3>1. k - 1 \in 1 .. N /\ k \in 1 .. N /\ k - 1 < k /\ k - 1 # 0 BY <1>1, <2>2
    <3>2. slots[k - 1] < slots[k] BY <1>1, <3>1 DEF Climbs
    <3>3. st.next = slots[k - 1] + 1 BY <3>1 DEF PaddedSoFar
    <3>4. slots[k - 1] \in Nat BY <1>1, <3>1
    <3>5. QED BY <1>2, <3>2, <3>3, <3>4
  <2>3. QED BY <2>1, <2>2
<1>6. g <= st.left /\ st.next + g <= slot /\ (g < st.left => st.next + g = slot)
  BY <1>3, <1>5, GapIs
<1> DEFINE out == FromTo(st.out, st.next, g)
           to == Placed(st, slot)
<1>7. /\ to.out = out \o <<slot>> /\ to.left = st.left - g /\ to.next = slot + 1
      /\ to \in PaddedState
  BY <1>3, PlacedIs
<1>8. PICK m \in Nat : m = Len(st.out) /\ DOMAIN st.out = 1 .. m BY <1>4
<1>9. /\ out \in Seq(Nat) /\ Len(out) = m + g /\ Climbs(out)
      /\ \A i \in DOMAIN out : out[i] < st.next + g
      /\ \A i \in DOMAIN st.out : i \in DOMAIN out /\ out[i] = st.out[i]
  <2>1. Climbs(st.out) /\ \A i \in DOMAIN st.out : st.out[i] < st.next BY DEF PaddedSoFar
  <2>2. QED BY <1>4, <1>8, <2>1, ClimbsOn
<1> HIDE DEF out
<1>10. PICK q \in Nat : q = m + g /\ DOMAIN out = 1 .. q BY <1>9
<1>11. /\ Len(to.out) = q + 1 /\ DOMAIN to.out = 1 .. (q + 1)
       /\ \A i \in 1 .. q : to.out[i] = out[i] /\ out[i] \in Nat /\ out[i] < slot
       /\ to.out[q + 1] = slot
  <2>1. /\ Len(to.out) = q + 1 /\ DOMAIN to.out = 1 .. (q + 1)
        /\ \A i \in 1 .. q : to.out[i] = out[i] /\ out[i] \in Nat
        /\ to.out[q + 1] = slot
    <3>1. PICK list \in Seq(Nat) : list = out BY <1>9
    <3>2. Len(list) = q /\ DOMAIN list = 1 .. q BY <1>9, <1>10, <3>1
    <3>3. /\ Len(list \o <<slot>>) = q + 1 /\ DOMAIN (list \o <<slot>>) = 1 .. (q + 1)
          /\ \A i \in 1 .. q : (list \o <<slot>>)[i] = list[i] /\ list[i] \in Nat
          /\ (list \o <<slot>>)[q + 1] = slot
      BY <3>2
    <3> HIDE DEF to
    <3>4. to.out = list \o <<slot>> BY <1>7, <3>1
    <3>5. QED BY <3>1, <3>3, <3>4
  <2>2. \A i \in 1 .. q : out[i] < st.next + g BY <1>9, <1>10
  <2>3. ASSUME NEW i \in 1 .. q PROVE out[i] < slot
    <3>1. out[i] \in Nat /\ out[i] < st.next + g BY <2>1, <2>2
    <3>2. st.next + g <= slot /\ st.next \in Nat BY <1>4, <1>6
    <3>3. QED BY <3>1, <3>2
  <2>4. QED BY <2>1, <2>3
<1> HIDE DEF to
<1>12. Climbs(to.out)
  <2>1. ASSUME NEW i \in 1 .. (q + 1), NEW j \in 1 .. (q + 1), i < j
        PROVE  to.out[i] < to.out[j]
    <3>1. i \in 1 .. q BY <2>1
    <3>2. CASE j = q + 1 BY <1>11, <3>1, <3>2
    <3>3. CASE j # q + 1
      <4>1. j \in 1 .. q BY <3>3
      <4>2. out[i] < out[j] BY <1>9, <1>10, <2>1, <3>1, <4>1 DEF Climbs
      <4>3. QED BY <1>11, <3>1, <4>1, <4>2
    <3>4. QED BY <3>2, <3>3
  <2>2. QED BY <1>11, <2>1 DEF Climbs
<1>13. \A i \in DOMAIN to.out : to.out[i] < to.next
  <2>1. TAKE i \in DOMAIN to.out
  <2>2. i \in 1 .. q \/ i = q + 1 BY <1>11
  <2>3. CASE i = q + 1
    <3>1. to.out[i] = slot BY <1>11, <2>3
    <3>2. QED BY <1>7, <3>1
  <2>4. CASE i \in 1 .. q
    <3>1. to.out[i] \in Nat /\ to.out[i] < slot BY <1>11, <2>4
    <3>2. QED BY <1>7, <3>1
  <2>5. QED BY <2>2, <2>3, <2>4
<1>14. m = (k - 1) + d - st.left /\ st.left <= d /\ (st.left > 0 => m = st.next)
  BY <1>8 DEF PaddedSoFar
<1>15. to.left <= d /\ Len(to.out) = k + d - to.left
  <2>1. PICK left \in Nat, next \in Nat : left = st.left /\ next = st.next BY <1>4
  <2>2. to.left = left - g /\ to.next = slot + 1 BY <1>7, <2>1
  <2>3. Len(to.out) = m + g + 1 BY <1>10, <1>11
  <2>4. k \in Int BY <1>1
  <2>5. /\ m = (k - 1) + d - left /\ left <= d /\ (left > 0 => m = next)
        /\ g <= left /\ (g < left => next + g = slot)
    BY <1>6, <1>14, <2>1
  <2>6. QED BY <2>2, <2>3, <2>4, <2>5
<1>16. to.left > 0 => Len(to.out) = to.next
  <2>1. PICK left \in Nat, next \in Nat : left = st.left /\ next = st.next BY <1>4
  <2>2. to.left = left - g /\ to.next = slot + 1 BY <1>7, <2>1
  <2>3. Len(to.out) = m + g + 1 BY <1>10, <1>11
  <2>4. k \in Int BY <1>1
  <2>5. /\ m = (k - 1) + d - left /\ left <= d /\ (left > 0 => m = next)
        /\ g <= left /\ (g < left => next + g = slot)
    BY <1>6, <1>14, <2>1
  <2>6. QED BY <2>2, <2>3, <2>4, <2>5
<1>17. \A i \in 1 .. k : \E j \in DOMAIN to.out : to.out[j] = slots[i]
  <2>1. TAKE i \in 1 .. k
  <2>2. CASE i = k
    <3>1. q + 1 \in 1 .. (q + 1) OBVIOUS
    <3>2. QED BY <1>2, <1>11, <2>2, <3>1
  <2>3. CASE i # k
    <3>1. i \in 1 .. (k - 1) BY <2>3
    <3>2. PICK j \in DOMAIN st.out : st.out[j] = slots[i] BY <3>1 DEF PaddedSoFar
    <3>3. j \in 1 .. q /\ out[j] = slots[i] BY <1>9, <1>10, <3>2
    <3>4. j \in 1 .. (q + 1) BY <3>3
    <3>5. QED BY <1>11, <3>3, <3>4
  <2>4. QED BY <2>2, <2>3
<1>18. to.next = IF k = 0 THEN 0 ELSE slots[k] + 1 BY <1>2, <1>7
<1>19. QED BY <1>2, <1>12, <1>13, <1>15, <1>16, <1>17, <1>18 DEF PaddedSoFar, to

(* The slots of a leaf, whoever pads them: as many as the tier has, in     *)
(* ascending order, all of the account's among them.                       *)
LEMMA PaddedIs ==
  ASSUME NEW slots \in Seq(Slots), Climbs(slots), NEW target \in Nat,
         Len(slots) <= target, target <= Capacity
  PROVE  /\ Padded(slots, target) \in Seq(Slots) /\ Len(Padded(slots, target)) = target
         /\ Climbs(Padded(slots, target))
         /\ \A i \in DOMAIN slots : \E j \in 1 .. target : Padded(slots, target)[j] = slots[i]
<1>1. PICK N \in Nat : N = Len(slots) /\ DOMAIN slots = 1 .. N OBVIOUS
<1>2. Capacity \in Nat /\ Capacity >= 1 BY RulesAssumption
<1>3. \A i \in 1 .. N : slots[i] \in Nat /\ slots[i] < Capacity BY <1>1, <1>2 DEF Slots
<1>4. slots \in Seq(Nat)
  <2>1. slots = [i \in 1 .. N |-> slots[i]] BY <1>1
  <2>2. slots \in [1 .. N -> Nat] BY <1>3, <2>1
  <2>3. QED BY <2>2
<1>5. PICK p \in [0 .. N -> PaddedState] :
        /\ p[0] = [out |-> <<>>, left |-> target - N, next |-> 0]
        /\ \A k \in 1 .. N : p[k] = Placed(p[k - 1], slots[k])
        /\ Padded(slots, target) = FromTo(p[N].out, p[N].next, p[N].left)
  <2>1. \E q \in [0 .. N -> PaddedState] :
        /\ q[0] = [out |-> <<>>, left |-> target - N, next |-> 0]
        /\ \A k \in 1 .. N : q[k] = Placed(q[k - 1], slots[k])
        /\ Padded(slots, target) = FromTo(q[N].out, q[N].next, q[N].left)
    BY <1>1, <1>4, PaddedAlong
  <2>2. QED BY <2>1
<1>6. PICK d \in Nat : d = target - N BY <1>1
<1>7. PaddedSoFar(p[N], slots, N, d)
  <2> DEFINE G == {k \in 0 .. N : PaddedSoFar(p[k], slots, k, d)}
  <2>1. 0 \in G
    <3>1. p[0].out = <<>> /\ p[0].left = d /\ p[0].next = 0 BY <1>5, <1>6
    <3>2. Climbs(<<>>) BY DEF Climbs
    <3>3. PaddedSoFar(p[0], slots, 0, d) BY <3>1, <3>2 DEF PaddedSoFar
    <3>4. QED BY <3>3
  <2>2. ASSUME NEW k \in 1 .. N, k - 1 \in G PROVE k \in G
    <3>1. k - 1 \in 0 .. N /\ k \in 0 .. N OBVIOUS
    <3>2. PaddedSoFar(Placed(p[k - 1], slots[k]), slots, k, d)
      BY <1>1, <1>4, <1>5, <2>2, <3>1, PaddedStep
    <3>3. QED BY <1>5, <3>1, <3>2
  <2> HIDE DEF G
  <2>3. \A k \in 0 .. N : k \in G BY <2>1, <2>2, InductionUpto
  <2>4. N \in G BY <2>3
  <2>5. QED BY <2>4 DEF G
<1>8. PICK st \in PaddedState : st = p[N] OBVIOUS
<1>9. st.out \in Seq(Nat) /\ st.left \in Nat /\ st.next \in Nat BY DEF PaddedState
<1>10. /\ Climbs(st.out) /\ \A i \in DOMAIN st.out : st.out[i] < st.next
       /\ Len(st.out) = N + d - st.left /\ (st.left > 0 => Len(st.out) = st.next)
       /\ st.next = IF N = 0 THEN 0 ELSE slots[N] + 1
       /\ \A i \in 1 .. N : \E j \in DOMAIN st.out : st.out[j] = slots[i]
  BY <1>7, <1>8 DEF PaddedSoFar
<1> DEFINE out == FromTo(st.out, st.next, st.left)
<1>11. /\ out \in Seq(Nat) /\ Len(out) = Len(st.out) + st.left /\ Climbs(out)
       /\ \A i \in DOMAIN out : out[i] < st.next + st.left
       /\ \A i \in DOMAIN st.out : i \in DOMAIN out /\ out[i] = st.out[i]
  BY <1>9, <1>10, ClimbsOn
<1>12. out = Padded(slots, target) BY <1>5, <1>8
<1> HIDE DEF out
<1>13. Len(out) = target /\ DOMAIN out = 1 .. target BY <1>6, <1>9, <1>10, <1>11
<1>14. st.next + st.left <= Capacity \/ target = 0
  <2>1. CASE st.left > 0
    <3>1. st.next + st.left = target BY <1>9, <1>10, <1>11, <1>13, <2>1
    <3>2. QED BY <3>1
  <2>2. CASE st.left = 0
    <3>1. CASE N = 0 BY <1>9, <1>10, <1>11, <1>13, <2>2, <3>1
    <3>2. CASE N # 0
      <4>1. N \in 1 .. N BY <3>2
      <4>2. QED BY <1>2, <1>3, <1>9, <1>10, <2>2, <3>2, <4>1
    <3>3. QED BY <3>1, <3>2
  <2>3. QED BY <1>9, <2>1, <2>2
<1>15. \A i \in 1 .. target : out[i] \in Slots
  <2>1. TAKE i \in 1 .. target
  <2>2. i \in DOMAIN out BY <1>13
  <2>3. out[i] \in Nat /\ out[i] < st.next + st.left BY <1>11, <2>2
  <2>4. target # 0 OBVIOUS
  <2>5. QED BY <1>2, <1>9, <1>14, <2>3, <2>4 DEF Slots
<1>16. out \in Seq(Slots)
  <2>1. out = [i \in 1 .. target |-> out[i]] BY <1>11, <1>13
  <2>2. out \in [1 .. target -> Slots] BY <1>15, <2>1
  <2>3. QED BY <2>2
<1>17. \A i \in 1 .. N : \E j \in 1 .. target : out[j] = slots[i]
  <2>1. TAKE i \in 1 .. N
  <2>2. PICK j \in DOMAIN st.out : st.out[j] = slots[i] BY <1>10
  <2>3. j \in DOMAIN out /\ out[j] = slots[i] BY <1>11, <2>2
  <2>4. QED BY <1>13, <2>3
<1>18. QED BY <1>1, <1>11, <1>12, <1>13, <1>16, <1>17

-----------------------------------------------------------------------------
(* Two ascending lists, one among the other.                               *)

\* every number of the one list is in the other
Among(a, b) == \A i \in DOMAIN a : \E j \in DOMAIN b : b[j] = a[i]

LEMMA ClimbingList ==
  ASSUME NEW a \in Seq(Nat), Climbs(a), NEW n \in Nat, n = Len(a)
  PROVE  /\ DOMAIN a = 1 .. n
         /\ \A i \in 1 .. n : a[i] \in Nat
         /\ \A i, j \in 1 .. n : a[i] = a[j] => i = j
         /\ \A i, j \in 1 .. n : a[i] < a[j] => i < j
         /\ \A i, j \in 1 .. n : i < j => a[i] < a[j]
         /\ IsFiniteSet(Range(a)) /\ Cardinality(Range(a)) = n
<1>1. DOMAIN a = 1 .. n OBVIOUS
<1>2. \A i \in 1 .. n : a[i] \in Nat BY <1>1
<1>3. \A i \in 1 .. n : a[i] \in Int BY <1>2
<1>4. /\ \A i, j \in 1 .. n : a[i] = a[j] => i = j
      /\ \A i, j \in 1 .. n : a[i] < a[j] => i < j
  BY <1>1, <1>3, ClimbsApart
<1>5. \A i, j \in 1 .. n : i < j => a[i] < a[j] BY <1>1 DEF Climbs
<1>6. PICK T : T = Range(a) OBVIOUS
<1>7. IsFiniteSet(Range(a)) /\ Cardinality(Range(a)) = n
  <2>1. PICK p : p = a OBVIOUS
  <2>2. \A i, j \in 1 .. n : p[i] = p[j] => i = j BY <1>4, <2>1
  <2>3. \A i \in 1 .. n : p[i] \in T BY <1>1, <1>6, <2>1 DEF Range
  <2>4. \A t \in T : \E i \in 1 .. n : p[i] = t BY <1>1, <1>6, <2>1 DEF Range
  <2>5. Cardinality(T) = n /\ IsFiniteSet(T) BY <2>2, <2>3, <2>4, ListsOnce
  <2>6. QED BY <1>6, <2>5
<1>8. QED BY <1>1, <1>2, <1>4, <1>5, <1>7

CountTo(a, b, j) == Cardinality({k \in 1 .. j : b[k] \in Range(a)})

(* Of two ascending lists, one among the other: up to the place of the     *)
(* i-th of the one there are i of them in the other.                       *)
LEMMA CountUpto ==
  ASSUME NEW a \in Seq(Nat), Climbs(a), NEW b \in Seq(Nat), Climbs(b), Among(a, b),
         NEW i \in DOMAIN a, NEW j \in DOMAIN b, b[j] = a[i]
  PROVE  CountTo(a, b, j) = i
<1>1. PICK n \in Nat : n = Len(a) /\ DOMAIN a = 1 .. n OBVIOUS
<1>2. PICK m \in Nat : m = Len(b) /\ DOMAIN b = 1 .. m OBVIOUS
<1>4. /\ \A k \in 1 .. n : a[k] \in Nat
      /\ \A k, l \in 1 .. n : a[k] = a[l] => k = l
      /\ \A k, l \in 1 .. n : a[k] < a[l] => k < l
      /\ \A k, l \in 1 .. n : k < l => a[k] < a[l]
  BY <1>1, ClimbingList
<1>5. /\ \A k \in 1 .. m : b[k] \in Nat
      /\ \A k, l \in 1 .. m : b[k] = b[l] => k = l
      /\ \A k, l \in 1 .. m : b[k] < b[l] => k < l
      /\ \A k, l \in 1 .. m : k < l => b[k] < b[l]
  BY <1>2, ClimbingList
<1> DEFINE q == [l \in 1 .. i |-> CHOOSE k \in 1 .. m : b[k] = a[l]]
           P == {k \in 1 .. j : b[k] \in Range(a)}
<1>6. i \in 1 .. n /\ j \in 1 .. m BY <1>1, <1>2
<1>7. \A l \in 1 .. i : l \in 1 .. n /\ l <= i BY <1>6
<1>8. \A l \in 1 .. i : q[l] \in 1 .. m /\ b[q[l]] = a[l]
  <2>1. TAKE l \in 1 .. i
  <2>2. \E k \in 1 .. m : b[k] = a[l] BY <1>1, <1>2, <1>7 DEF Among
  <2>3. q[l] = CHOOSE k \in 1 .. m : b[k] = a[l] OBVIOUS
  <2> HIDE DEF q
  <2>4. QED BY <2>2, <2>3
<1> HIDE DEF q
<1>9. \A k, l \in 1 .. i : q[k] = q[l] => k = l
  <2>1. TAKE k, l \in 1 .. i
  <2>2. SUFFICES ASSUME q[k] = q[l] PROVE k = l OBVIOUS
  <2>3. a[k] = a[l] BY <1>8, <2>2
  <2>4. QED BY <1>4, <1>7, <2>3
<1>10. P = {q[l] : l \in 1 .. i}
  <2>1. ASSUME NEW k \in P PROVE k \in {q[l] : l \in 1 .. i}
    <3>1. k \in 1 .. j /\ k \in 1 .. m /\ k <= j BY <1>6
    <3>2. PICK l \in 1 .. n : b[k] = a[l] BY <1>1, <2>1 DEF Range
    <3>3. l \in 1 .. i
      <4>1. CASE k = j BY <1>4, <1>6, <3>2, <4>1
      <4>2. CASE k # j
        <5>1. k < j BY <3>1, <4>2
        <5>2. a[l] < a[i] BY <1>5, <1>6, <3>1, <3>2, <5>1
        <5>3. l < i BY <1>4, <1>6, <5>2
        <5>4. QED BY <1>6, <5>3
      <4>3. QED BY <4>1, <4>2
    <3>4. k = q[l] BY <1>5, <1>8, <3>1, <3>2, <3>3
    <3>5. QED BY <3>3, <3>4
  <2>2. ASSUME NEW l \in 1 .. i PROVE q[l] \in P
    <3>1. q[l] \in 1 .. m /\ b[q[l]] = a[l] /\ l \in 1 .. n BY <1>7, <1>8
    <3>2. q[l] <= j
      <4>1. CASE l = i BY <1>5, <1>6, <3>1, <4>1
      <4>2. CASE l # i
        <5>1. l < i BY <1>7, <4>2
        <5>2. a[l] < a[i] BY <1>4, <1>6, <3>1, <5>1
        <5>3. q[l] < j BY <1>5, <1>6, <3>1, <5>2
        <5>4. QED BY <1>6, <3>1, <5>3
      <4>3. QED BY <4>1, <4>2
    <3>3. b[q[l]] \in Range(a) BY <1>1, <3>1 DEF Range
    <3>4. q[l] \in 1 .. j BY <1>6, <3>1, <3>2
    <3>5. QED BY <3>3, <3>4
  <2> HIDE DEF P
  <2>3. QED BY <2>1, <2>2
<1>11. i \in Nat BY <1>6
<1>12. Cardinality(P) = i
  <2>1. \A l \in 1 .. i : q[l] \in P BY <1>10
  <2>2. \A r \in P : \E l \in 1 .. i : q[l] = r BY <1>10
  <2> HIDE DEF P
  <2>3. QED BY <1>9, <1>11, <2>1, <2>2, ListsOnce
<1>13. QED BY <1>10, <1>12 DEF CountTo

(* Ascending lists of the same length, one among the other, are the same. *)
LEMMA AmongFull ==
  ASSUME NEW a \in Seq(Nat), Climbs(a), NEW b \in Seq(Nat), Climbs(b), Among(a, b),
         Len(a) = Len(b)
  PROVE  a = b
<1>1. PICK n \in Nat : n = Len(a) /\ DOMAIN a = 1 .. n /\ DOMAIN b = 1 .. n OBVIOUS
<1>2. Cardinality(Range(a)) = n BY <1>1, ClimbingList
<1>3. Cardinality(Range(b)) = n /\ IsFiniteSet(Range(b)) BY <1>1, ClimbingList
<1>4. Range(a) \in SUBSET Range(b) BY <1>1 DEF Among, Range
<1>5. Range(a) = Range(b) BY <1>2, <1>3, <1>4, FS_Subset
<1>6. Ascending(Range(a)) = a /\ Ascending(Range(b)) = b BY AscendingIs DEF Range
<1>7. QED BY <1>5, <1>6

(* A leaf that is full already gets no more slots. *)
LEMMA PaddedFull ==
  ASSUME NEW slots \in Seq(Slots), Climbs(slots), Len(slots) <= Capacity
  PROVE  Padded(slots, Len(slots)) = slots
<1>1. PICK n \in Nat : n = Len(slots) OBVIOUS
<1>2. PICK b : b = Padded(slots, n) OBVIOUS
<1>0. Len(slots) <= n /\ n <= Capacity BY <1>1
<1>3. b \in Seq(Slots) /\ Len(b) = n /\ Climbs(b)
      /\ \A i \in DOMAIN slots : \E j \in 1 .. n : b[j] = slots[i]
  BY <1>0, <1>2, PaddedIs
<1>4. \A s \in Seq(Slots) : s \in Seq(Nat)
  <2>1. Slots \subseteq Nat BY RulesAssumption DEF Slots
  <2>2. TAKE s \in Seq(Slots)
  <2>3. \A i \in 1 .. Len(s) : s[i] \in Slots OBVIOUS
  <2>4. s = [i \in 1 .. Len(s) |-> s[i]] /\ Len(s) \in Nat OBVIOUS
  <2>5. [i \in 1 .. Len(s) |-> s[i]] \in Seq(Nat) BY <2>1, <2>3, <2>4
  <2>6. QED BY <2>4, <2>5
<1>5. Among(slots, b) BY <1>3 DEF Among
<1>6. slots = b BY <1>1, <1>3, <1>4, <1>5, AmongFull
<1>7. QED BY <1>1, <1>2, <1>6

(* The sum along an ascending list is the sum over what it holds.          *)
LEMMA SumAlong ==
  ASSUME NEW a \in Seq(Nat), Climbs(a), NEW F, NEW e, DOMAIN e = DOMAIN a,
         \A i \in DOMAIN a : e[i] = F[a[i]] /\ e[i] \in Nat
  PROVE  SumFunction(e) = SumFunctionOnSet(F, Range(a))
<1>1. PICK n \in Nat : n = Len(a) OBVIOUS
<1>2. DOMAIN a = 1 .. n /\ \A i, j \in 1 .. n : a[i] = a[j] => i = j
  BY <1>1, ClimbingList
<1>3. PICK S : S = 1 .. n OBVIOUS
<1>4. IsFiniteSet(S) BY <1>3, FS_Interval
<1>5. PICK T : T = Range(a) OBVIOUS
<1>6. a \in [S -> T] BY <1>2, <1>3, <1>5 DEF Range
<1>7. \A z \in T : \E x \in S : a[x] = z BY <1>2, <1>3, <1>5 DEF Range
<1>8. \A x, y \in S : a[x] = a[y] => x = y BY <1>2, <1>3
<1>9. \A x \in S : e[x] \in Nat /\ F[a[x]] = e[x]
  <2>1. TAKE x \in S
  <2>2. x \in DOMAIN a BY <1>2, <1>3
  <2>3. QED BY <2>2
<1>10. SumFunctionOnSet(e, S) = SumFunctionOnSet(F, T)
  <2>1. PICK p : p = a OBVIOUS
  <2>2. p \in [S -> T] /\ \A z \in T : \E x \in S : p[x] = z BY <1>6, <1>7, <2>1
  <2>3. \A x, y \in S : p[x] = p[y] => x = y BY <1>8, <2>1
  <2>4. \A x \in S : e[x] \in Nat /\ F[p[x]] = e[x] BY <1>9, <2>1
  <2>5. QED BY <1>4, <2>2, <2>3, <2>4, SumRenamed
<1>11. QED BY <1>2, <1>3, <1>5, <1>10 DEF SumFunction

\* e is F along a, and F is nothing outside it
Samples(e, F, a) == DOMAIN e = DOMAIN a /\ \A i \in DOMAIN a : e[i] = F[a[i]]
Counts(F, a) == \A s \in Nat : F[s] \in Nat /\ (s \notin Range(a) => F[s] = 0)

(* Sums over the slots a user lists and over those of the leaf.            *)
LEMMA SumsMeet ==
  ASSUME NEW a \in Seq(Nat), Climbs(a), NEW b \in Seq(Nat), Climbs(b), Among(a, b),
         NEW F, Counts(F, a), NEW e, Samples(e, F, a), NEW g, Samples(g, F, b)
  PROVE  SumFunction(e) = SumFunction(g)
<1>1. PICK A, B : A = Range(a) /\ B = Range(b) OBVIOUS
<1>2. A \in SUBSET B BY <1>1 DEF Among, Range
<1>3. IsFiniteSet(B)
  <2>1. PICK m \in Nat : m = Len(b) OBVIOUS
  <2>2. QED BY <1>1, <2>1, ClimbingList
<1>4. \A i \in DOMAIN a : a[i] \in Nat OBVIOUS
<1>5. \A i \in DOMAIN b : b[i] \in Nat OBVIOUS
<1>6. \A x \in B : x \in Nat BY <1>1, <1>5 DEF Range
<1>7. \A x \in B : F[x] \in Nat /\ (x \notin A => F[x] = 0) BY <1>1, <1>6 DEF Counts
<1>8. \A i \in DOMAIN a : e[i] = F[a[i]] /\ e[i] \in Nat BY <1>4 DEF Samples, Counts
<1>9. \A i \in DOMAIN b : g[i] = F[b[i]] /\ g[i] \in Nat BY <1>5 DEF Samples, Counts
<1>10. SumFunction(e) = SumFunctionOnSet(F, A) BY <1>1, <1>8, SumAlong DEF Samples
<1>11. SumFunction(g) = SumFunctionOnSet(F, B) BY <1>1, <1>9, SumAlong DEF Samples
<1>12. SumFunctionOnSet(F, B) = SumFunctionOnSet(F, A) BY <1>2, <1>3, <1>7, SumZeros
<1>13. QED BY <1>10, <1>11, <1>12

-----------------------------------------------------------------------------
(* Lists of lists, one after the other. *)

LEMMA NothingBefore ==
  ASSUME NEW V, NEW s \in Seq(V)
  PROVE  <<>> \o s = s
OBVIOUS

Parts(ss, N, V) ==
  Len(ss) = N /\ (N = 0 => ss = <<>>) /\ \A i \in 1 .. N : ss[i] \in Seq(V)

\* f holds the whole of the first k parts
Flattens(f, ss, N) ==
  f[0] = <<>> /\ (\A k \in 1 .. N : f[k] = f[k - 1] \o ss[k]) /\ FlattenSeq(ss) = f[N]

LEMMA FlattenAlong ==
  ASSUME NEW V, NEW ss, NEW N \in Nat, Parts(ss, N, V)
  PROVE  \E f \in [0 .. N -> Seq(V)] : Flattens(f, ss, N)
<1> DEFINE step == [k \in 1 .. N |-> [v \in Seq(V) |-> v \o ss[k]]]
           Body(g, i) == IF i = 1 THEN ss[i] ELSE g[i - 1] \o ss[i]
           Def(g) == g = [i \in 1 .. N |-> Body(g, i)]
           b == CHOOSE g : Def(g)
<1>1. \A k \in 1 .. N : ss[k] \in Seq(V) BY DEF Parts
<1>2. step \in [1 .. N -> [Seq(V) -> Seq(V)]]
  <2>1. \A k \in 1 .. N, v \in Seq(V) : v \o ss[k] \in Seq(V) BY <1>1
  <2>2. QED BY <2>1
<1>3. \A k \in 1 .. N, v \in Seq(V) : step[k][v] = v \o ss[k] OBVIOUS
<1>4. <<>> \in Seq(V) OBVIOUS
<1> HIDE DEF step
<1>5. PICK f \in [0 .. N -> Seq(V)] : Follows(f, <<>>, step, N) BY <1>2, <1>4, RecursionSolved
<1>6. \A k \in 1 .. N : k - 1 \in 0 .. N /\ k \in 0 .. N /\ k # 0 OBVIOUS
<1>7. f[0] = <<>> /\ \A k \in 1 .. N : f[k] = f[k - 1] \o ss[k] BY <1>3, <1>5, <1>6 DEF Follows
<1>8. CASE N = 0
  <2>1. ss = <<>> BY <1>8 DEF Parts
  <2>2. Len(ss) = 0 BY <1>8 DEF Parts
  <2>3. FlattenSeq(ss) = ss BY <2>2 DEF FlattenSeq
  <2>4. QED BY <1>7, <1>8, <2>1, <2>3 DEF Flattens
<1>9. CASE N # 0
  <2> DEFINE h == [i \in 1 .. N |-> f[i]]
  <2>1. Def(h)
    <3>1. \A i \in 1 .. N : f[i] = Body(h, i)
      <4>1. TAKE i \in 1 .. N
      <4>2. CASE i = 1
        <5>0. f[i] = f[i - 1] \o ss[i] /\ i - 1 = 0
          <6>1. i - 1 = 0 BY <4>2
          <6>2. QED BY <1>7, <6>1
        <5>1. f[1] = <<>> \o ss[1] BY <1>7, <4>2, <5>0
        <5>2. QED BY <1>1, <4>2, <5>1, NothingBefore
      <4>3. CASE i # 1
        <5>1. i - 1 \in 1 .. N BY <4>3
        <5>2. QED BY <1>7, <4>3, <5>1
      <4>4. QED BY <4>2, <4>3
    <3> HIDE DEF Body
    <3>2. QED BY <3>1
  <2>2. Def(b)
    <3> HIDE DEF Def, h
    <3>1. QED BY <2>1
  <2>3. FlattenSeq(ss) = b[N] BY <1>9 DEF FlattenSeq, Parts
  <2> HIDE DEF b
  <2>4. \A i \in 1 .. N : b[i] = Body(b, i)
    <3> HIDE DEF Body
    <3>1. QED BY <2>2
  <2> DEFINE G == {k \in 0 .. N : k # 0 => b[k] = f[k]}
  <2>5. 0 \in G OBVIOUS
  <2>6. ASSUME NEW k \in 1 .. N, k - 1 \in G PROVE k \in G
    <3>1. CASE k = 1
      <4>1. b[1] = ss[1] BY <2>4, <3>1
      <4>0. f[k] = f[k - 1] \o ss[k] /\ k - 1 = 0
        <5>1. k - 1 = 0 BY <3>1
        <5>2. QED BY <1>7, <5>1
      <4>2. f[1] = <<>> \o ss[1] BY <1>7, <3>1, <4>0
      <4>3. b[1] = f[1] BY <1>1, <3>1, <4>1, <4>2, NothingBefore
      <4>4. QED BY <1>6, <3>1, <4>3
    <3>2. CASE k # 1
      <4>1. b[k - 1] = f[k - 1] BY <2>6, <3>2
      <4>2. b[k] = b[k - 1] \o ss[k] BY <2>4, <3>2
      <4>3. QED BY <1>6, <1>7, <4>1, <4>2
    <3>3. QED BY <3>1, <3>2
  <2> HIDE DEF G
  <2>7. \A k \in 0 .. N : k \in G BY <2>5, <2>6, InductionUpto
  <2>8. N \in G BY <2>7
  <2>9. b[N] = f[N] BY <1>9, <2>8 DEF G
  <2>10. QED BY <1>7, <2>3, <2>9 DEF Flattens
<1>10. QED BY <1>8, <1>9

(* What is in the whole is in one of the parts.                            *)
LEMMA FlattenFrom ==
  ASSUME NEW V, NEW ss, NEW N \in Nat, Parts(ss, N, V), NEW p \in DOMAIN FlattenSeq(ss)
  PROVE  \E i \in 1 .. N : \E r \in DOMAIN ss[i] : FlattenSeq(ss)[p] = ss[i][r]
<1>1. \A i \in 1 .. N : ss[i] \in Seq(V) BY DEF Parts
<1>2. PICK f \in [0 .. N -> Seq(V)] : Flattens(f, ss, N) BY FlattenAlong
<1>3. f[0] = <<>> /\ (\A k \in 1 .. N : f[k] = f[k - 1] \o ss[k]) /\ FlattenSeq(ss) = f[N]
  BY <1>2 DEF Flattens
<1> DEFINE In(x) == \E i \in 1 .. N : \E r \in DOMAIN ss[i] : x = ss[i][r]
           G == {k \in 0 .. N : \A q \in DOMAIN f[k] : In(f[k][q])}
<1>4. 0 \in G BY <1>3
<1>5. ASSUME NEW k \in 1 .. N, k - 1 \in G PROVE k \in G
  <2>1. k - 1 \in 0 .. N /\ k \in 0 .. N OBVIOUS
  <2>2. PICK s \in Seq(V) : s = f[k - 1] BY <2>1
  <2>3. PICK t \in Seq(V) : t = ss[k] BY <1>1
  <2>4. f[k] = s \o t BY <1>3, <2>2, <2>3
  <2>5. ASSUME NEW q \in DOMAIN f[k] PROVE In(f[k][q])
    <3>1. q \in 1 .. (Len(s) + Len(t)) BY <2>4, <2>5
    <3>2. CASE q <= Len(s)
      <4>1. q \in DOMAIN f[k - 1] /\ f[k][q] = f[k - 1][q] BY <2>2, <2>4, <3>1, <3>2
      <4>2. QED BY <1>5, <4>1
    <3>3. CASE ~(q <= Len(s))
      <4>1. q - Len(s) \in DOMAIN t /\ f[k][q] = t[q - Len(s)] BY <2>4, <3>1, <3>3
      <4>2. QED BY <2>3, <4>1
    <3>4. QED BY <3>2, <3>3
  <2> HIDE DEF In
  <2>6. QED BY <2>1, <2>5
<1> HIDE DEF G
<1>6. \A k \in 0 .. N : k \in G BY <1>4, <1>5, InductionUpto
<1>7. N \in G BY <1>6
<1>8. p \in DOMAIN f[N] /\ FlattenSeq(ss)[p] = f[N][p] BY <1>3
<1>9. In(f[N][p]) BY <1>7, <1>8 DEF G
<1>10. QED BY <1>1, <1>8, <1>9

\* parts of length w, one after the other
Stacked(all, ss, N, w, V) ==
  /\ all \in Seq(V) /\ Len(all) = N * w
  /\ \A i \in 1 .. N : \A r \in 1 .. w : all[(i - 1) * w + r] = ss[i][r]

(* Parts of the same length come at its multiples.                         *)
LEMMA FlattenAt ==
  ASSUME NEW V, NEW ss, NEW N \in Nat, Parts(ss, N, V), NEW w \in Nat,
         \A i \in 1 .. N : Len(ss[i]) = w
  PROVE  Stacked(FlattenSeq(ss), ss, N, w, V)
<1>2. PICK f \in [0 .. N -> Seq(V)] : Flattens(f, ss, N) BY FlattenAlong
<1>3. f[0] = <<>> /\ (\A k \in 1 .. N : f[k] = f[k - 1] \o ss[k]) /\ FlattenSeq(ss) = f[N]
  BY <1>2 DEF Flattens
<1> DEFINE Right(k) == /\ Len(f[k]) = k * w
                       /\ \A i \in 1 .. k : \A r \in 1 .. w : f[k][(i - 1) * w + r] = ss[i][r]
           G == {k \in 0 .. N : Right(k)}
<1>4. 0 \in G
  <2>1. Len(f[0]) = 0 * w BY <1>3
  <2>2. QED BY <2>1
<1>5. ASSUME NEW k \in 1 .. N, k - 1 \in G PROVE k \in G
  <2>1. k - 1 \in 0 .. N /\ k \in 0 .. N OBVIOUS
  <2>2. PICK s \in Seq(V) : s = f[k - 1] BY <2>1
  <2>3. PICK t \in Seq(V) : t = ss[k] BY DEF Parts
  <2>4. f[k] = s \o t BY <1>3, <2>2, <2>3
  <2>5. PICK m \in Nat : m = (k - 1) * w
    <3>1. k - 1 \in Nat OBVIOUS
    <3>2. (k - 1) * w \in Nat BY <3>1, ProductIsNat
    <3>3. QED BY <3>2
  <2>6. m + w = k * w BY <2>5
  <2>7. Len(s) = m /\ Len(t) = w BY <1>5, <2>2, <2>3, <2>5
  <2>8. Len(f[k]) = k * w
    <3>1. Len(s \o t) = Len(s) + Len(t) OBVIOUS
    <3>2. QED BY <2>4, <2>6, <2>7, <3>1
  <2>9. ASSUME NEW i \in 1 .. k, NEW r \in 1 .. w
        PROVE  f[k][(i - 1) * w + r] = ss[i][r]
    <3>1. CASE i = k
      <4>1. m + r \in 1 .. (m + w) /\ m + r > m /\ (m + r) - m = r OBVIOUS
      <4>2. f[k][m + r] = t[r] BY <2>4, <2>7, <4>1
      <4>3. QED BY <2>3, <2>5, <3>1, <4>2
    <3>2. CASE i # k
      <4>1. i \in 1 .. (k - 1) BY <3>2
      <4>2. PICK d \in Nat : d = (k - 1) - i BY <4>1
      <4>3. PICK e \in Nat : e = (i - 1) * w
        <5>1. i - 1 \in Nat OBVIOUS
        <5>2. (i - 1) * w \in Nat BY <5>1, ProductIsNat
        <5>3. QED BY <5>2
      <4>4. m = e + w + d * w
        <5>1. k - 1 = (i - 1) + 1 + d BY <4>2
        <5>2. ((i - 1) + 1 + d) * w = (i - 1) * w + w + d * w
          <6>1. \A x, y, z \in Nat : (x + 1 + y) * z = x * z + z + y * z BY SMTT(30)
          <6>2. i - 1 \in Nat OBVIOUS
          <6>3. QED BY <6>1, <6>2
        <5>3. QED BY <2>5, <4>3, <5>1, <5>2
      <4>5. PICK x \in Nat : x = d * w
        <5>1. d * w \in Nat BY ProductIsNat
        <5>2. QED BY <5>1
      <4>6. e + r \in 1 .. m
        <5>1. m = e + w + x BY <4>4, <4>5
        <5>2. QED BY <5>1
      <4>7. f[k][e + r] = s[e + r] BY <2>4, <2>7, <4>6
      <4>8. s[e + r] = ss[i][r] BY <1>5, <2>2, <4>1, <4>3
      <4>9. QED BY <4>3, <4>7, <4>8
    <3>3. QED BY <3>1, <3>2
  <2>10. QED BY <2>1, <2>8, <2>9
<1> HIDE DEF G
<1>6. \A k \in 0 .. N : k \in G BY <1>4, <1>5, InductionUpto
<1>7. N \in G BY <1>6
<1>8. Right(N) BY <1>7 DEF G
<1>9. f[N] \in Seq(V) OBVIOUS
<1>10. QED BY <1>3, <1>8, <1>9 DEF Stacked

-----------------------------------------------------------------------------
(* Commitments, packed and indexed. *)

LEMMA SlotsAreNat == Slots \subseteq Nat /\ \A s \in Slots : s < Capacity
BY RulesAssumption DEF Slots

LEMMA Widen ==
  ASSUME NEW V, NEW W, V \subseteq W, NEW s \in Seq(V)
  PROVE  s \in Seq(W)
<1>1. PICK n \in Nat : n = Len(s) OBVIOUS
<1>2. PICK t : t = s OBVIOUS
<1>3. t = [i \in 1 .. n |-> t[i]] /\ \A i \in 1 .. n : t[i] \in V BY <1>1, <1>2
<1>4. t \in [1 .. n -> W] BY <1>3
<1>5. t \in Seq(W) BY <1>4
<1>6. QED BY <1>2, <1>5

LEMMA AsFunction ==
  ASSUME NEW V, NEW s \in Seq(V)
  PROVE  s = [i \in DOMAIN s |-> s[i]]
OBVIOUS

LEMMA JoinedAt ==
  ASSUME NEW V, NEW a \in Seq(V), NEW b \in Seq(V), NEW m \in Nat, m = Len(a),
         NEW n \in Nat, n = Len(b)
  PROVE  /\ a \o b \in Seq(V) /\ Len(a \o b) = m + n
         /\ \A i \in 1 .. m : (a \o b)[i] = a[i]
         /\ \A i \in 1 .. n : (a \o b)[m + i] = b[i]
OBVIOUS

\* every run of n numbers packs into (n + 2) \div 3 elements
LEMMA PacksAlike ==
  ASSUME NEW V, NEW flat \in Seq(V), NEW n \in Nat, n = Len(flat)
  PROVE  Threes(flat, (n + 2) \div 3) = ComputeFlatUint64Commitment(flat)
<1>1. PICK f \in Seq(V) : f = flat /\ Len(f) = n /\ DOMAIN f = 1 .. n OBVIOUS
<1>2. PICK whole \in Nat, rest \in 0 .. 2 :
        whole = n \div 3 /\ rest = n % 3 /\ n = 3 * whole + rest
  <2>1. n \div 3 \in Nat /\ n % 3 \in 0 .. 2 /\ n = 3 * (n \div 3) + (n % 3) OBVIOUS
  <2>2. QED BY <2>1
<1>3. PICK els \in Nat : els = (n + 2) \div 3 /\ els = (IF rest = 0 THEN whole ELSE whole + 1)
  <2>1. (n + 2) \div 3 = (IF rest = 0 THEN whole ELSE whole + 1) BY <1>2
  <2>2. QED BY <2>1
<1> DEFINE at(i, k) == 3 * (i - 1) + k
           There(i, k) == IF at(i, k) \in DOMAIN f THEN f[at(i, k)] ELSE 0
           zeros == [k \in 1 .. (3 - rest) |-> 0]
           Here(i) == IF i <= whole THEN SubSeq(f, 3 * i - 2, 3 * i)
                      ELSE SubSeq(f, 3 * whole + 1, n) \o zeros
<1>4. ASSUME NEW i \in 1 .. els PROVE Here(i) = [k \in 1 .. 3 |-> There(i, k)]
  <2>1. CASE i <= whole
    <3>1. PICK s : s = SubSeq(f, 3 * i - 2, 3 * i) OBVIOUS
    <3>2. 3 * i - 2 \in 1 .. n /\ 3 * i \in 1 .. n BY <1>2, <2>1
    <3>3. s \in Seq(V) /\ Len(s) = 3 /\ \A k \in 1 .. 3 : s[k] = f[(3 * i - 2) + k - 1]
      BY <1>1, <3>1, <3>2
    <3>4. \A k \in 1 .. 3 : at(i, k) \in 1 .. n /\ at(i, k) = (3 * i - 2) + k - 1 BY <3>2
    <3>5. \A k \in 1 .. 3 : s[k] = There(i, k) BY <1>1, <3>3, <3>4
    <3>6. s = [k \in 1 .. 3 |-> s[k]] BY <3>3
    <3> HIDE DEF There
    <3>7. QED BY <2>1, <3>1, <3>5, <3>6
  <2>2. CASE ~(i <= whole)
    <3>1. i = whole + 1 /\ rest # 0 BY <1>3, <2>2
    <3>2. PICK s : s = SubSeq(f, 3 * whole + 1, n) OBVIOUS
    <3>3. /\ s \in Seq(V) /\ Len(s) = rest
          /\ \A k \in 1 .. rest : s[k] = f[(3 * whole + 1) + k - 1]
      <4>1. 3 * whole + 1 \in 1 .. n /\ n \in 1 .. n BY <1>2, <3>1
      <4>2. n - (3 * whole + 1) + 1 = rest BY <1>2
      <4>3. QED BY <1>1, <3>2, <4>1, <4>2
    <3>4. PICK z : z = zeros OBVIOUS
    <3>5. DOMAIN z = 1 .. (3 - rest) /\ z \in Seq({0}) /\ Len(z) = 3 - rest
          /\ \A k \in 1 .. (3 - rest) : z[k] = 0
      BY <3>4
    <3>6. \A k \in 1 .. 3 : (s \o z)[k] = IF k <= rest THEN s[k] ELSE z[k - rest]
      BY <3>3, <3>5
    <3>7. DOMAIN (s \o z) = 1 .. 3
      <4>1. Len(s) + Len(z) = 3 BY <3>3, <3>5
      <4>2. QED BY <3>3, <3>5, <4>1
    <3>8. \A k \in 1 .. 3 : (s \o z)[k] = There(i, k)
      <4>1. TAKE k \in 1 .. 3
      <4>2. CASE k <= rest
        <5>1. at(i, k) = (3 * whole + 1) + k - 1 /\ at(i, k) \in 1 .. n BY <1>2, <3>1, <4>2
        <5>2. QED BY <1>1, <3>3, <3>6, <4>2, <5>1
      <4>3. CASE ~(k <= rest)
        <5>1. at(i, k) \notin 1 .. n /\ k - rest \in 1 .. (3 - rest) BY <1>2, <3>1, <4>3
        <5>2. QED BY <1>1, <3>5, <3>6, <4>3, <5>1
      <4>4. QED BY <4>2, <4>3
    <3>9. s \o z = [k \in 1 .. 3 |-> (s \o z)[k]]
      <4>1. PICK W : W = V \cup {0} OBVIOUS
      <4>2. s \in Seq(W) BY <3>3, <4>1, Widen
      <4>3. z \in Seq(W) BY <3>5, <4>1, Widen
      <4>4. s \o z \in Seq(W) BY <4>2, <4>3
      <4>5. s \o z = [k \in DOMAIN (s \o z) |-> (s \o z)[k]] BY <4>4, AsFunction
      <4>6. QED BY <3>7, <4>5
    <3> HIDE DEF There, zeros
    <3>10. QED BY <2>2, <3>2, <3>4, <3>8, <3>9
  <2>3. QED BY <2>1, <2>2
<1>5. ComputeFlatUint64Commitment(flat) = [i \in 1 .. els |-> Here(i)]
  BY <1>1, <1>2, <1>3 DEF ComputeFlatUint64Commitment
<1>6. Threes(flat, els) = [i \in 1 .. els |-> [k \in 1 .. 3 |-> There(i, k)]]
  BY <1>1 DEF Threes
<1> HIDE DEF Here, There
<1>7. QED BY <1>3, <1>4, <1>5, <1>6

LEMMA Places ==
  ASSUME NEW w \in Nat \ {0}, NEW n \in 1 .. (Capacity * w)
  PROVE  /\ (n - 1) \div w \in Slots /\ (n - 1) % w \in 0 .. (w - 1)
         /\ n = ((n - 1) \div w) * w + (((n - 1) % w) + 1)
<1>1. PICK m \in Nat : m = n - 1 OBVIOUS
<1>2. PICK q \in Nat : q = m \div w BY QuotientIsNat
<1>3. w * q <= m /\ m < w * q + w BY <1>2, DivBounds
<1>4. m % w = m - w * q
  <2>1. m = w * (m \div w) + (m % w) BY SMTT(30)
  <2>2. QED BY <1>2, <2>1, SMTT(30)
<1>5. PICK p \in Nat : p = w * q BY ProductIsNat
<1>6. PICK c \in Nat : c = Capacity BY RulesAssumption
<1>7. q < c
  <2>1. SUFFICES ASSUME q >= c PROVE FALSE OBVIOUS
  <2>2. w * q >= w * c
    <3>1. \A x, y, z \in Nat : x >= y => z * x >= z * y BY SMTT(30)
    <3>2. QED BY <2>1, <3>1
  <2>3. w * c = c * w OBVIOUS
  <2>4. PICK d \in Nat : d = c * w BY ProductIsNat
  <2>5. m < d BY <1>1, <1>6, <2>4
  <2>6. p >= d BY <1>5, <2>2, <2>3, <2>4
  <2>7. QED BY <1>3, <1>5, <2>5, <2>6
<1>8. m \div w \in Slots BY <1>2, <1>6, <1>7 DEF Slots
<1>9. m % w \in 0 .. (w - 1) BY <1>3, <1>4, <1>5
<1>10. n = p + ((m % w) + 1) BY <1>1, <1>4, <1>5
<1>11. p = q * w BY <1>5
<1>12. QED BY <1>1, <1>2, <1>8, <1>9, <1>10, <1>11

AtPlaces(all, elements, w) ==
  all = [n \in 1 .. (Capacity * w) |-> elements[(n - 1) \div w][((n - 1) % w) + 1]]

(* The elements of a slot stand at its place times their number.           *)
LEMMA BySlotIs ==
  ASSUME NEW V, NEW elements, NEW w \in Nat \ {0},
         \A s \in Slots : elements[s] \in Seq(V) /\ Len(elements[s]) = w
  PROVE  AtPlaces(BySlot(elements), elements, w)
<1>1. PICK c \in Nat : c = Capacity BY RulesAssumption
<1>2. PICK ss : ss = [i \in 1 .. c |-> elements[i - 1]] OBVIOUS
<1>3. \A i \in 1 .. c : ss[i] = elements[i - 1] /\ i - 1 \in Slots BY <1>1, <1>2 DEF Slots
<1>4. Parts(ss, c, V)
  <2>1. Len(ss) = c /\ (c = 0 => ss = <<>>) BY <1>2
  <2>2. QED BY <1>3, <2>1 DEF Parts
<1>5. \A i \in 1 .. c : Len(ss[i]) = w BY <1>3
<1>6. PICK all : all = BySlot(elements) OBVIOUS
<1>7. all = FlattenSeq(ss) BY <1>1, <1>2, <1>6 DEF BySlot
<1>8. /\ all \in Seq(V) /\ Len(all) = c * w
      /\ \A i \in 1 .. c : \A r \in 1 .. w : all[(i - 1) * w + r] = ss[i][r]
  <2>1. Stacked(FlattenSeq(ss), ss, c, w, V) BY <1>4, <1>5, FlattenAt
  <2>2. QED BY <1>7, <2>1 DEF Stacked
<1>9. ASSUME NEW n \in 1 .. (Capacity * w)
      PROVE  all[n] = elements[(n - 1) \div w][((n - 1) % w) + 1]
  <2>1. PICK q, r : q = (n - 1) \div w /\ r = (n - 1) % w OBVIOUS
  <2>2. q \in Slots /\ r \in 0 .. (w - 1) /\ n = q * w + (r + 1) BY <2>1, Places
  <2>3. q + 1 \in 1 .. c /\ (q + 1) - 1 = q /\ r + 1 \in 1 .. w BY <1>1, <2>2 DEF Slots
  <2>4. all[q * w + (r + 1)] = ss[q + 1][r + 1] BY <1>8, <2>3
  <2>5. QED BY <1>3, <2>1, <2>2, <2>3, <2>4
<1>10. all = [n \in 1 .. (Capacity * w) |-> all[n]] BY <1>1, <1>8
<1>11. QED BY <1>6, <1>9, <1>10 DEF AtPlaces

-----------------------------------------------------------------------------
(* The totals, committed to by the host and by the circuit. *)

Totals == [Slots -> [Columns(model) -> Uint64]]

LEMMA SlotIsNatural ==
  ASSUME TypeOK, NEW cex \in Totals, NEW s \in Slots
  PROVE  /\ static.price[s] \in Nat
         /\ \A c \in Columns(model) : cex[s][c] \in Nat
         /\ \A p \in Pools[model] : static.weight[s][p] \in Nat
<1>1. static.price[s] \in Uint64 /\ static.weight[s] \in Weights(model) BY DEF TypeOK
<1>2. cex[s] \in [Columns(model) -> Uint64] BY DEF Totals
<1>3. QED BY <1>1, <1>2, Uint64IsNat DEF Weights

LEMMA ColumnNames ==
  /\ model = "T1" => Columns(model) = {"equity", "debt"} /\ Pools[model] = {}
  /\ model \in {"T2", "T3"} =>
       Columns(model) = {"equity", "debt", "collateral"} /\ Pools[model] = {"collateral"}
  /\ model = "T4" =>
       /\ Columns(model) = {"equity", "debt", "loan", "margin", "portfolio_margin"}
       /\ Pools[model] = {"loan", "margin", "portfolio_margin"}
<1>1. Pools["T1"] = {} /\ Pools["T2"] = {"collateral"} /\ Pools["T3"] = {"collateral"}
      /\ Pools["T4"] = {"loan", "margin", "portfolio_margin"}
  BY DEF Pools
<1>2. Columns("T1") = {"equity", "debt"} BY <1>1 DEF Columns
<1>3. Columns("T2") = {"equity", "debt", "collateral"} BY <1>1 DEF Columns
<1>4. Columns("T3") = {"equity", "debt", "collateral"} BY <1>1 DEF Columns
<1>5. Columns("T4") = {"equity", "debt", "loan", "margin", "portfolio_margin"}
  BY <1>1 DEF Columns
<1>6. QED BY <1>1, <1>2, <1>3, <1>4, <1>5

LEMMA T1TotalsMeet ==
  ASSUME TypeOK, model = "T1", NEW cex \in Totals
  PROVE  T1CexAssetsCommitment(cex) = T1FillCexAssetCommitment(cex)
<1> DEFINE el(s) == <<<<cex[s]["equity"], cex[s]["debt"], static.price[s]>>>>
           els == [s \in Slots |-> el(s)]
<1>1. \A s \in Slots : el(s) \in Seq(Seq(Nat)) /\ Len(el(s)) = 1
  <2>1. TAKE s \in Slots
  <2>2. cex[s]["equity"] \in Nat /\ cex[s]["debt"] \in Nat /\ static.price[s] \in Nat
    BY SlotIsNatural, ColumnNames
  <2>3. QED BY <2>2
<1>2. \A s \in Slots : els[s] = el(s) OBVIOUS
<1>3. T1CexAssetsCommitment(cex) = BySlot(els) BY DEF T1CexAssetsCommitment
<1>4. \A s \in Slots : els[s] \in Seq(Seq(Nat)) /\ Len(els[s]) = 1
  <2> HIDE DEF el, els
  <2>1. QED BY <1>1, <1>2
<1> HIDE DEF els
<1>5. BySlot(els) = [n \in 1 .. (Capacity * 1) |-> els[(n - 1) \div 1][((n - 1) % 1) + 1]]
  <2>1. 1 \in Nat \ {0} OBVIOUS
  <2>2. PICK V : V = Seq(Nat) OBVIOUS
  <2>3. \A s \in Slots : els[s] \in Seq(V) /\ Len(els[s]) = 1 BY <1>4, <2>2
  <2>4. AtPlaces(BySlot(els), els, 1) BY <2>1, <2>3, BySlotIs
  <2>5. QED BY <2>4 DEF AtPlaces
<1>6. \A n \in 1 .. Capacity : els[(n - 1) \div 1][((n - 1) % 1) + 1] = el(n - 1)[1]
  <2>1. TAKE n \in 1 .. Capacity
  <2>2. (n - 1) \div 1 = n - 1 /\ (n - 1) % 1 = 0 /\ n - 1 \in Slots
    BY RulesAssumption DEF Slots
  <2> HIDE DEF el
  <2>3. QED BY <1>2, <2>2
<1>7. \A n \in 1 .. Capacity :
        el(n - 1)[1] = <<cex[n - 1]["equity"], cex[n - 1]["debt"], static.price[n - 1]>>
  OBVIOUS
<1>8. Capacity * 1 = Capacity BY RulesAssumption
<1> HIDE DEF el
<1>9. QED BY <1>3, <1>5, <1>6, <1>7, <1>8 DEF T1FillCexAssetCommitment

LEMMA T2TotalsMeet ==
  ASSUME TypeOK, model = "T2", NEW cex \in Totals
  PROVE  T2CexAssetsCommitment(cex) = T2FillCexAssetCommitment(cex)
<1> DEFINE el(s) == <<<<cex[s]["equity"], cex[s]["debt"], static.price[s]>>,
                      <<cex[s]["collateral"], static.weight[s]["collateral"]>>>>
           els == [s \in Slots |-> el(s)]
<1>1. \A s \in Slots : el(s) \in Seq(Seq(Nat)) /\ Len(el(s)) = 2
  <2>1. TAKE s \in Slots
  <2>2. /\ cex[s]["equity"] \in Nat /\ cex[s]["debt"] \in Nat /\ static.price[s] \in Nat
        /\ cex[s]["collateral"] \in Nat /\ static.weight[s]["collateral"] \in Nat
    BY SlotIsNatural, ColumnNames
  <2>3. QED BY <2>2
<1>2. \A s \in Slots : els[s] = el(s) OBVIOUS
<1>3. T2CexAssetsCommitment(cex) = BySlot(els) BY DEF T2CexAssetsCommitment
<1>4. \A s \in Slots : els[s] \in Seq(Seq(Nat)) /\ Len(els[s]) = 2
  <2> HIDE DEF el, els
  <2>1. QED BY <1>1, <1>2
<1> HIDE DEF els
<1>5. BySlot(els) = [n \in 1 .. (Capacity * 2) |-> els[(n - 1) \div 2][((n - 1) % 2) + 1]]
  <2>1. 2 \in Nat \ {0} OBVIOUS
  <2>2. PICK V : V = Seq(Nat) OBVIOUS
  <2>3. \A s \in Slots : els[s] \in Seq(V) /\ Len(els[s]) = 2 BY <1>4, <2>2
  <2>4. AtPlaces(BySlot(els), els, 2) BY <2>1, <2>3, BySlotIs
  <2>5. QED BY <2>4 DEF AtPlaces
<1> DEFINE fill(n) ==
      LET s == PlaceOf(n, 2).slot IN
      CASE PlaceOf(n, 2).at = 0 -> <<cex[s]["equity"], cex[s]["debt"], static.price[s]>>
        [] PlaceOf(n, 2).at = 1 -> <<cex[s]["collateral"], static.weight[s]["collateral"]>>
<1>6. \A n \in 1 .. (Capacity * 2) : els[(n - 1) \div 2][((n - 1) % 2) + 1] = fill(n)
  <2>1. TAKE n \in 1 .. (Capacity * 2)
  <2>2. PICK q, r : q = (n - 1) \div 2 /\ r = (n - 1) % 2 OBVIOUS
  <2>3. q \in Slots /\ r \in 0 .. 1
    <3>1. 2 \in Nat \ {0} /\ 2 - 1 = 1 OBVIOUS
    <3>2. QED BY <2>2, <3>1, Places
  <2>4. PlaceOf(n, 2).slot = q /\ PlaceOf(n, 2).at = r BY <2>2 DEF PlaceOf
  <2>5. els[q][r + 1] = el(q)[r + 1] BY <1>2, <2>3
  <2>6. r = 0 \/ r = 1 BY <2>3
  <2>7. CASE r = 0 BY <2>2, <2>4, <2>5, <2>7
  <2>8. CASE r = 1 BY <2>2, <2>4, <2>5, <2>8
  <2>9. QED BY <2>6, <2>7, <2>8
<1>7. T2FillCexAssetCommitment(cex) = [n \in 1 .. (Capacity * 2) |-> fill(n)]
  BY DEF T2FillCexAssetCommitment
<1> HIDE DEF el, fill
<1>8. QED BY <1>3, <1>5, <1>6, <1>7

LEMMA T3TotalsMeet ==
  ASSUME TypeOK, model = "T3", NEW cex \in Totals
  PROVE  T3CexAssetsCommitment(cex) = T3FillCexAssetCommitment(cex)
<1> DEFINE el(s) == <<<<cex[s]["equity"], cex[s]["debt"], static.price[s]>>,
                      <<cex[s]["collateral"]>>, <<static.weight[s]["collateral"]>>>>
           els == [s \in Slots |-> el(s)]
<1>1. \A s \in Slots : el(s) \in Seq(Seq(Nat)) /\ Len(el(s)) = 3
  <2>1. TAKE s \in Slots
  <2>2. /\ cex[s]["equity"] \in Nat /\ cex[s]["debt"] \in Nat /\ static.price[s] \in Nat
        /\ cex[s]["collateral"] \in Nat /\ static.weight[s]["collateral"] \in Nat
    BY SlotIsNatural, ColumnNames
  <2>3. QED BY <2>2
<1>2. \A s \in Slots : els[s] = el(s) OBVIOUS
<1>3. T3CexAssetsCommitment(cex) = BySlot(els) BY DEF T3CexAssetsCommitment
<1>4. \A s \in Slots : els[s] \in Seq(Seq(Nat)) /\ Len(els[s]) = 3
  <2> HIDE DEF el, els
  <2>1. QED BY <1>1, <1>2
<1> HIDE DEF els
<1>5. BySlot(els) = [n \in 1 .. (Capacity * 3) |-> els[(n - 1) \div 3][((n - 1) % 3) + 1]]
  <2>1. 3 \in Nat \ {0} OBVIOUS
  <2>2. PICK V : V = Seq(Nat) OBVIOUS
  <2>3. \A s \in Slots : els[s] \in Seq(V) /\ Len(els[s]) = 3 BY <1>4, <2>2
  <2>4. AtPlaces(BySlot(els), els, 3) BY <2>1, <2>3, BySlotIs
  <2>5. QED BY <2>4 DEF AtPlaces
<1> DEFINE fill(n) ==
      LET s == PlaceOf(n, 3).slot IN
      CASE PlaceOf(n, 3).at = 0 -> <<cex[s]["equity"], cex[s]["debt"], static.price[s]>>
        [] PlaceOf(n, 3).at = 1 -> <<cex[s]["collateral"]>>
        [] PlaceOf(n, 3).at = 2 -> <<static.weight[s]["collateral"]>>
<1>6. \A n \in 1 .. (Capacity * 3) : els[(n - 1) \div 3][((n - 1) % 3) + 1] = fill(n)
  <2>1. TAKE n \in 1 .. (Capacity * 3)
  <2>2. PICK q, r : q = (n - 1) \div 3 /\ r = (n - 1) % 3 OBVIOUS
  <2>3. q \in Slots /\ r \in 0 .. 2
    <3>1. 3 \in Nat \ {0} /\ 3 - 1 = 2 OBVIOUS
    <3>2. QED BY <2>2, <3>1, Places
  <2>4. PlaceOf(n, 3).slot = q /\ PlaceOf(n, 3).at = r BY <2>2 DEF PlaceOf
  <2>5. els[q][r + 1] = el(q)[r + 1] BY <1>2, <2>3
  <2>6. r = 0 \/ r = 1 \/ r = 2 BY <2>3
  <2>7. CASE r = 0 BY <2>2, <2>4, <2>5, <2>7
  <2>8. CASE r = 1 BY <2>2, <2>4, <2>5, <2>8
  <2>9. CASE r = 2 BY <2>2, <2>4, <2>5, <2>9
  <2>10. QED BY <2>6, <2>7, <2>8, <2>9
<1>7. T3FillCexAssetCommitment(cex) = [n \in 1 .. (Capacity * 3) |-> fill(n)]
  BY DEF T3FillCexAssetCommitment
<1> HIDE DEF el, fill
<1>8. QED BY <1>3, <1>5, <1>6, <1>7

LEMMA T4TotalsMeet ==
  ASSUME TypeOK, model = "T4", NEW cex \in Totals
  PROVE  T4CexAssetsCommitment(cex) = T4FillCexAssetCommitment(cex)
<1> DEFINE two(s) == <<<<cex[s]["equity"], cex[s]["debt"], static.price[s]>>,
                       <<cex[s]["loan"], cex[s]["margin"], cex[s]["portfolio_margin"]>>>>
           three(s) == [k \in 1 .. 3 |->
             <<static.weight[s][<<"loan", "margin", "portfolio_margin">>[k]]>>]
           el(s) == two(s) \o three(s)
           els == [s \in Slots |-> el(s)]
<1>1. ASSUME NEW s \in Slots
      PROVE  /\ el(s) \in Seq(Seq(Nat)) /\ Len(el(s)) = 5
             /\ el(s)[1] = two(s)[1] /\ el(s)[2] = two(s)[2]
             /\ el(s)[3] = <<static.weight[s]["loan"]>>
             /\ el(s)[4] = <<static.weight[s]["margin"]>>
             /\ el(s)[5] = <<static.weight[s]["portfolio_margin"]>>
  <2>1. /\ cex[s]["equity"] \in Nat /\ cex[s]["debt"] \in Nat /\ static.price[s] \in Nat
        /\ cex[s]["loan"] \in Nat /\ static.weight[s]["loan"] \in Nat
        /\ cex[s]["margin"] \in Nat /\ static.weight[s]["margin"] \in Nat
        /\ cex[s]["portfolio_margin"] \in Nat /\ static.weight[s]["portfolio_margin"] \in Nat
    BY SlotIsNatural, ColumnNames
  <2>2. two(s) \in Seq(Seq(Nat)) /\ Len(two(s)) = 2 BY <2>1
  <2>3. three(s) = <<<<static.weight[s]["loan"]>>, <<static.weight[s]["margin"]>>,
                     <<static.weight[s]["portfolio_margin"]>>>>
    OBVIOUS
  <2>4. three(s) \in Seq(Seq(Nat)) /\ Len(three(s)) = 3 BY <2>1, <2>3
  <2>5. /\ three(s)[1] = <<static.weight[s]["loan"]>>
        /\ three(s)[2] = <<static.weight[s]["margin"]>>
        /\ three(s)[3] = <<static.weight[s]["portfolio_margin"]>>
    BY <2>3
  <2> HIDE DEF two, three
  <2>6. PICK a, b : a = two(s) /\ b = three(s) OBVIOUS
  <2>7. /\ a \o b \in Seq(Seq(Nat)) /\ Len(a \o b) = 5
        /\ \A i \in 1 .. 2 : (a \o b)[i] = a[i]
        /\ \A i \in 1 .. 3 : (a \o b)[2 + i] = b[i]
    <3>1. a \in Seq(Seq(Nat)) /\ Len(a) = 2 /\ b \in Seq(Seq(Nat)) /\ Len(b) = 3
      BY <2>2, <2>4, <2>6
    <3>2. PICK m \in Nat, n \in Nat : m = 2 /\ n = 3 OBVIOUS
    <3>3. PICK V : V = Seq(Nat) OBVIOUS
    <3>4. a \in Seq(V) /\ b \in Seq(V) /\ m = Len(a) /\ n = Len(b) BY <3>1, <3>2, <3>3
    <3>5. /\ a \o b \in Seq(V) /\ Len(a \o b) = m + n
          /\ \A i \in 1 .. m : (a \o b)[i] = a[i]
          /\ \A i \in 1 .. n : (a \o b)[m + i] = b[i]
      BY <3>4, JoinedAt
    <3>6. m + n = 5 /\ m = 2 /\ n = 3 BY <3>2
    <3>7. QED BY <3>3, <3>5, <3>6
  <2>8. 2 + 1 = 3 /\ 2 + 2 = 4 /\ 2 + 3 = 5 OBVIOUS
  <2>9. /\ (a \o b)[1] = a[1] /\ (a \o b)[2] = a[2]
        /\ (a \o b)[2 + 1] = b[1] /\ (a \o b)[2 + 2] = b[2] /\ (a \o b)[2 + 3] = b[3]
    <3>1. PICK ab : ab = a \o b OBVIOUS
    <3>2. (\A i \in 1 .. 2 : ab[i] = a[i]) /\ \A i \in 1 .. 3 : ab[2 + i] = b[i]
      BY <2>7, <3>1
    <3>3. 1 \in 1 .. 2 /\ 2 \in 1 .. 2 /\ 1 \in 1 .. 3 /\ 2 \in 1 .. 3 /\ 3 \in 1 .. 3
      OBVIOUS
    <3>4. ab[1] = a[1] /\ ab[2] = a[2] /\ ab[2 + 1] = b[1] /\ ab[2 + 2] = b[2]
          /\ ab[2 + 3] = b[3]
      BY <3>2, <3>3
    <3>5. QED BY <3>1, <3>4
  <2>10. QED BY <2>5, <2>6, <2>7, <2>8, <2>9
<1>2. \A s \in Slots : els[s] = el(s) OBVIOUS
<1>3. T4CexAssetsCommitment(cex) = BySlot(els) BY DEF T4CexAssetsCommitment
<1>4. \A s \in Slots : els[s] \in Seq(Seq(Nat)) /\ Len(els[s]) = 5
  <2> HIDE DEF el, els
  <2>1. QED BY <1>1, <1>2
<1> HIDE DEF els, el
<1>5. BySlot(els) = [n \in 1 .. (Capacity * 5) |-> els[(n - 1) \div 5][((n - 1) % 5) + 1]]
  <2>1. 5 \in Nat \ {0} OBVIOUS
  <2>2. PICK V : V = Seq(Nat) OBVIOUS
  <2>3. \A s \in Slots : els[s] \in Seq(V) /\ Len(els[s]) = 5 BY <1>4, <2>2
  <2>4. AtPlaces(BySlot(els), els, 5) BY <2>1, <2>3, BySlotIs
  <2>5. QED BY <2>4 DEF AtPlaces
<1> DEFINE fill(n) ==
      LET s == PlaceOf(n, 5).slot IN
      CASE PlaceOf(n, 5).at = 0 -> <<cex[s]["equity"], cex[s]["debt"], static.price[s]>>
        [] PlaceOf(n, 5).at = 1 ->
             <<cex[s]["loan"], cex[s]["margin"], cex[s]["portfolio_margin"]>>
        [] PlaceOf(n, 5).at = 2 -> <<static.weight[s]["loan"]>>
        [] PlaceOf(n, 5).at = 3 -> <<static.weight[s]["margin"]>>
        [] PlaceOf(n, 5).at = 4 -> <<static.weight[s]["portfolio_margin"]>>
<1>6. \A n \in 1 .. (Capacity * 5) : els[(n - 1) \div 5][((n - 1) % 5) + 1] = fill(n)
  <2>1. TAKE n \in 1 .. (Capacity * 5)
  <2>2. PICK q, r : q = (n - 1) \div 5 /\ r = (n - 1) % 5 OBVIOUS
  <2>3. q \in Slots /\ r \in 0 .. 4
    <3>1. 5 \in Nat \ {0} /\ 5 - 1 = 4 OBVIOUS
    <3>2. QED BY <2>2, <3>1, Places
  <2>4. PlaceOf(n, 5).slot = q /\ PlaceOf(n, 5).at = r BY <2>2 DEF PlaceOf
  <2>5. els[q][r + 1] = el(q)[r + 1] BY <1>2, <2>3
  <2>6. r = 0 \/ r = 1 \/ r = 2 \/ r = 3 \/ r = 4 BY <2>3
  <2>7. CASE r = 0
    <3>1. el(q)[1] = <<cex[q]["equity"], cex[q]["debt"], static.price[q]>> BY <1>1, <2>3
    <3>2. QED BY <2>2, <2>4, <2>5, <2>7, <3>1
  <2>8. CASE r = 1
    <3>1. el(q)[2] = <<cex[q]["loan"], cex[q]["margin"], cex[q]["portfolio_margin"]>>
      BY <1>1, <2>3
    <3>2. QED BY <2>2, <2>4, <2>5, <2>8, <3>1
  <2>9. CASE r = 2
    <3>1. r + 1 = 3 BY <2>9
    <3>2. els[q][r + 1] = <<static.weight[q]["loan"]>>
      BY <1>1, <2>3, <2>5, <3>1
    <3>3. QED BY <2>2, <2>4, <2>9, <3>2
  <2>10. CASE r = 3
    <3>1. r + 1 = 4 BY <2>10
    <3>2. els[q][r + 1] = <<static.weight[q]["margin"]>>
      BY <1>1, <2>3, <2>5, <3>1
    <3>3. QED BY <2>2, <2>4, <2>10, <3>2
  <2>11. CASE r = 4
    <3>1. r + 1 = 5 BY <2>11
    <3>2. els[q][r + 1] = <<static.weight[q]["portfolio_margin"]>>
      BY <1>1, <2>3, <2>5, <3>1
    <3>3. QED BY <2>2, <2>4, <2>11, <3>2
  <2>12. QED BY <2>6, <2>7, <2>8, <2>9, <2>10, <2>11
<1>7. T4FillCexAssetCommitment(cex) = [n \in 1 .. (Capacity * 5) |-> fill(n)]
  BY DEF T4FillCexAssetCommitment
<1> HIDE DEF fill
<1>8. QED BY <1>3, <1>5, <1>6, <1>7

(* What the host commits to of the totals.                                 *)
HostTotals(cex) ==
  CASE model = "T1" -> T1CexAssetsCommitment(cex)
    [] model = "T2" -> T2CexAssetsCommitment(cex)
    [] model = "T3" -> T3CexAssetsCommitment(cex)
    [] model = "T4" -> T4CexAssetsCommitment(cex)

LEMMA TotalsMeet ==
  ASSUME TypeOK, NEW cex \in Totals
  PROVE  HostTotals(cex) = FillCexAssetCommitment(cex)
<1>1. model = "T1" \/ model = "T2" \/ model = "T3" \/ model = "T4" BY DEF TypeOK, Models
<1>2. QED BY <1>1, T1TotalsMeet, T2TotalsMeet, T3TotalsMeet, T4TotalsMeet
        DEF HostTotals, FillCexAssetCommitment

-----------------------------------------------------------------------------
(* What an account lists. *)

\* entries of the table, each slot once, in ascending order
Listing(account, n) ==
  /\ account.assets \in Seq(Entry) /\ n = Len(account.assets)
  /\ \A i, j \in 1 .. n : account.assets[i].slot = account.assets[j].slot => i = j
  /\ InOrder(account.assets)

LEMMA ListingIs ==
  ASSUME NEW account, NEW n \in Nat, Listing(account, n)
  PROVE  /\ DOMAIN account.assets = 1 .. n
         /\ \A i \in 1 .. n : /\ account.assets[i].slot \in Slots
                              /\ account.assets[i].amounts \in [Columns(model) -> Uint64]
         /\ SlotsOf(account) \in Seq(Slots) /\ SlotsOf(account) \in Seq(Nat)
         /\ Len(SlotsOf(account)) = n /\ DOMAIN SlotsOf(account) = 1 .. n
         /\ \A i \in 1 .. n : SlotsOf(account)[i] = account.assets[i].slot
         /\ Climbs(SlotsOf(account))
         /\ Range(SlotsOf(account)) \subseteq Slots
<1>1. PICK a : a = account.assets OBVIOUS
<1>2. DOMAIN a = 1 .. n /\ \A i \in 1 .. n : a[i] \in Entry BY <1>1 DEF Listing
<1>3. \A i \in 1 .. n : a[i].slot \in Slots /\ a[i].amounts \in [Columns(model) -> Uint64]
  BY <1>2 DEF Entry
<1>4. PICK s : s = [i \in 1 .. n |-> a[i].slot] OBVIOUS
<1>5. s = SlotsOf(account) BY <1>1, <1>2, <1>4 DEF SlotsOf
<1>6. DOMAIN s = 1 .. n /\ \A i \in 1 .. n : s[i] = a[i].slot /\ s[i] \in Slots BY <1>3, <1>4
<1>7. s \in Seq(Slots) /\ Len(s) = n
  <2>1. s \in [1 .. n -> Slots] BY <1>4, <1>6
  <2>2. QED BY <2>1
<1>8. \A i \in 1 .. n : s[i] \in Nat /\ s[i] \in Int
  <2>1. TAKE i \in 1 .. n
  <2>2. s[i] \in Slots BY <1>6
  <2>3. s[i] \in Nat BY <2>2, SlotsAreNat
  <2>4. QED BY <2>3
<1>9. \A i \in 1 .. (n - 1) : s[i] < s[i + 1]
  <2>1. TAKE i \in 1 .. (n - 1)
  <2>2. i \in 1 .. n /\ i + 1 \in 1 .. n /\ i # i + 1 OBVIOUS
  <2>3. a[i].slot <= a[i + 1].slot BY <1>1, <2>1 DEF Listing, InOrder
  <2>4. a[i].slot # a[i + 1].slot BY <1>1, <2>2 DEF Listing
  <2>5. s[i] <= s[i + 1] /\ s[i] # s[i + 1] /\ s[i] \in Int /\ s[i + 1] \in Int
    BY <1>6, <1>8, <2>2, <2>3, <2>4
  <2>6. QED BY <2>5
<1>10. Climbs(s) BY <1>6, <1>8, <1>9, StepsClimb
<1>11. s \in Seq(Nat) BY <1>7, SlotsAreNat, Widen
<1>12. Range(s) \subseteq Slots BY <1>6 DEF Range
<1>13. QED BY <1>1, <1>2, <1>3, <1>5, <1>6, <1>7, <1>10, <1>11, <1>12

LEMMA NoAmountsIs ==
  NoAmounts \in [Columns(model) -> Uint64] /\ \A c \in Columns(model) : NoAmounts[c] = 0
BY RulesAssumption DEF NoAmounts, Uint64

(* The slots of an account by number: what it lists, and else nothing.     *)
LEMMA DenseIs ==
  ASSUME NEW account, NEW n \in Nat, Listing(account, n)
  PROVE  /\ Dense(account) \in Totals
         /\ \A i \in 1 .. n : Dense(account)[account.assets[i].slot] = account.assets[i].amounts
         /\ \A s \in Slots : s \notin Range(SlotsOf(account)) => Dense(account)[s] = NoAmounts
<1>1. PICK a : a = account.assets OBVIOUS
<1>2. /\ DOMAIN a = 1 .. n
      /\ \A i \in 1 .. n : a[i].slot \in Slots /\ a[i].amounts \in [Columns(model) -> Uint64]
  BY <1>1, ListingIs
<1>3. \A i, j \in 1 .. n : a[i].slot = a[j].slot => i = j BY <1>1 DEF Listing
<1> DEFINE At(s) == {i \in 1 .. n : a[i].slot = s}
           LastAt(s) == CHOOSE i \in At(s) : \A j \in At(s) : j <= i
<1>4. Dense(account) = [s \in Slots |-> IF At(s) = {} THEN NoAmounts ELSE a[LastAt(s)].amounts]
  BY <1>1, <1>2 DEF Dense
<1>5. ASSUME NEW i \in 1 .. n PROVE At(a[i].slot) # {} /\ LastAt(a[i].slot) = i
  <2>1. \A j \in At(a[i].slot) : j = i BY <1>3
  <2>2. i \in At(a[i].slot) OBVIOUS
  <2>3. \A j \in At(a[i].slot) : j <= i BY <2>1
  <2> HIDE DEF At
  <2>4. QED BY <2>1, <2>2, <2>3
<1>6. \A s \in Slots : At(s) # {} => \E i \in 1 .. n : s = a[i].slot OBVIOUS
<1> HIDE DEF At, LastAt
<1>7. \A i \in 1 .. n : Dense(account)[a[i].slot] = a[i].amounts BY <1>2, <1>4, <1>5
<1>8. \A s \in Slots : s \notin Range(SlotsOf(account)) => At(s) = {}
  <2>1. TAKE s \in Slots
  <2>2. SUFFICES ASSUME At(s) # {} PROVE s \in Range(SlotsOf(account)) OBVIOUS
  <2>3. PICK i \in 1 .. n : s = a[i].slot BY <1>6, <2>2
  <2>4. QED BY <1>1, <2>3, ListingIs DEF Range
<1>9. \A s \in Slots :
        (IF At(s) = {} THEN NoAmounts ELSE a[LastAt(s)].amounts) \in [Columns(model) -> Uint64]
  <2>1. TAKE s \in Slots
  <2>2. CASE At(s) = {} BY <2>2, NoAmountsIs
  <2>3. CASE At(s) # {}
    <3>1. PICK i \in 1 .. n : s = a[i].slot BY <1>6, <2>3
    <3>2. QED BY <1>2, <1>5, <2>3, <3>1
  <2>4. QED BY <2>2, <2>3
<1>10. Dense(account) \in Totals BY <1>4, <1>9 DEF Totals
<1>11. QED BY <1>1, <1>4, <1>7, <1>8, <1>10

LEMMA ListedIsDense ==
  ASSUME NEW account, NEW n \in Nat, Listing(account, n), NEW s \in Slots,
         NEW c \in Columns(model)
  PROVE  Listed(account.assets, s, c) = Dense(account)[s][c]
<1>1. PICK a : a = account.assets OBVIOUS
<1>2. /\ DOMAIN a = 1 .. n
      /\ \A i \in 1 .. n : a[i].slot \in Slots /\ a[i].amounts \in [Columns(model) -> Uint64]
  BY <1>1, ListingIs
<1>3. \A i, j \in 1 .. n : a[i].slot = a[j].slot => i = j BY <1>1 DEF Listing
<1> DEFINE at == {j \in 1 .. n : a[j].slot = s}
           f == [j \in 1 .. n |-> a[j].amounts[c]]
<1>4. Listed(a, s, c) = SumFunctionOnSet(f, at) BY <1>2 DEF Listed
<1>5. CASE at = {}
  <2>1. s \notin Range(SlotsOf(account))
    <3>1. \A i \in 1 .. n : SlotsOf(account)[i] # s BY <1>1, <1>5, ListingIs
    <3>2. QED BY <3>1, ListingIs DEF Range
  <2>2. Dense(account)[s][c] = 0 BY <2>1, DenseIs, NoAmountsIs
  <2> HIDE DEF at, f
  <2>3. QED BY <1>1, <1>4, <1>5, <2>2, SumEmpty
<1>6. CASE at # {}
  <2>1. PICK i \in 1 .. n : a[i].slot = s BY <1>6
  <2>2. at = {i} BY <1>3, <2>1
  <2>3. f[i] = a[i].amounts[c] OBVIOUS
  <2>4. f[i] \in Nat BY <1>2, <2>3, Uint64IsNat
  <2>5. Dense(account)[s][c] = f[i] BY <1>1, <2>1, <2>3, DenseIs
  <2> HIDE DEF at, f
  <2>6. SumFunctionOnSet(f, {i}) = f[i] BY <2>4, SumSingle
  <2>7. QED BY <1>1, <1>4, <2>2, <2>5, <2>6
<1>7. QED BY <1>5, <1>6

(* What the host holds for the slots of the leaf is what the prover holds. *)
LEMMA HostHeldIs ==
  ASSUME NEW account, NEW n \in Nat, Listing(account, n), NEW t \in Nat,
         n <= t, t <= Capacity, Tier(n) = t
  PROVE  /\ HostSlots(account) = Padded(SlotsOf(account), t)
         /\ HostSlots(account) \in Seq(Slots) /\ HostSlots(account) \in Seq(Nat)
         /\ Len(HostSlots(account)) = t /\ DOMAIN HostSlots(account) = 1 .. t
         /\ Climbs(HostSlots(account)) /\ Among(SlotsOf(account), HostSlots(account))
         /\ HostHeld(account) = [j \in 1 .. t |-> Dense(account)[HostSlots(account)[j]]]
<1>1. PICK a, b, out :
        a = account.assets /\ b = SlotsOf(account) /\ out = HostSlots(account)
  OBVIOUS
<1>2. /\ DOMAIN a = 1 .. n /\ \A i \in 1 .. n : a[i].slot \in Slots /\ b[i] = a[i].slot
      /\ b \in Seq(Slots) /\ b \in Seq(Nat) /\ Len(b) = n /\ DOMAIN b = 1 .. n /\ Climbs(b)
  BY <1>1, ListingIs
<1>3. out = Padded(b, t)
  <2>1. Len(account.assets) = n BY DEF Listing
  <2>2. QED BY <1>1, <2>1 DEF HostSlots
<1>4. /\ out \in Seq(Slots) /\ Len(out) = t /\ Climbs(out)
      /\ \A i \in DOMAIN b : \E j \in 1 .. t : out[j] = b[i]
  BY <1>2, <1>3, PaddedIs
<1>5. out \in Seq(Nat) /\ DOMAIN out = 1 .. t
  <2>1. out \in Seq(Nat) BY <1>4, SlotsAreNat, Widen
  <2>2. QED BY <1>4, <2>1
<1>6. Among(b, out) BY <1>4, <1>5 DEF Among
<1> DEFINE nth(j) == Cardinality({k \in 1 .. j : out[k] \in Range(b)})
           Here(j) == IF out[j] \in Range(b) /\ nth(j) \in DOMAIN a
                        THEN a[nth(j)].amounts ELSE NoAmounts
<1>7. HostHeld(account) = [j \in 1 .. t |-> Here(j)] BY <1>1, <1>5 DEF HostHeld
<1>8. ASSUME NEW j \in 1 .. t PROVE Here(j) = Dense(account)[out[j]]
  <2>1. CASE out[j] \in Range(b)
    <3>1. PICK i \in 1 .. n : b[i] = out[j] BY <1>2, <2>1 DEF Range
    <3>2. i \in DOMAIN b /\ j \in DOMAIN out /\ out[j] = b[i] BY <1>2, <1>5, <3>1
    <3>3. nth(j) = i
      <4>1. CountTo(b, out, j) = i BY <1>2, <1>4, <1>5, <1>6, <3>2, CountUpto
      <4>2. QED BY <4>1 DEF CountTo
    <3>4. Dense(account)[a[i].slot] = a[i].amounts BY <1>1, DenseIs
    <3> HIDE DEF nth
    <3>5. QED BY <1>2, <2>1, <3>1, <3>3, <3>4
  <2>2. CASE out[j] \notin Range(b)
    <3>1. out[j] \in Slots BY <1>4
    <3>2. Dense(account)[out[j]] = NoAmounts BY <1>1, <2>2, <3>1, DenseIs
    <3> HIDE DEF nth
    <3>3. QED BY <2>2, <3>2
  <2>3. QED BY <2>1, <2>2
<1> HIDE DEF Here
<1>9. HostHeld(account) = [j \in 1 .. t |-> Dense(account)[out[j]]] BY <1>7, <1>8
<1>10. QED BY <1>1, <1>3, <1>4, <1>5, <1>6, <1>9

-----------------------------------------------------------------------------
(* The sums of an account, over its assets and over the slots of its leaf. *)

SlotCredit(entry, s) == SumFunction([p \in Pools[model] |-> Credit(entry, static, s, p)])

AsRow(entry) == [amounts |-> entry.amounts, asset |-> entry.slot]

AssetWorth(assets, c) ==
  [j \in DOMAIN assets |-> assets[j].amounts[c] * static.price[assets[j].slot]]
AssetCredits(assets) == [j \in DOMAIN assets |-> CreditOf(AsRow(assets[j]))]

LEMMA SumOfZeros ==
  ASSUME NEW S, IsFiniteSet(S), NEW f, \A x \in S : f[x] = 0
  PROVE  SumFunctionOnSet(f, S) = 0
<1>1. {} \in SUBSET S /\ \A x \in S : f[x] \in Nat OBVIOUS
<1>2. \A x \in S : x \notin {} => f[x] = 0 OBVIOUS
<1>3. SumFunctionOnSet(f, S) = SumFunctionOnSet(f, {}) BY <1>1, <1>2, SumZeros
<1>4. QED BY <1>3, SumEmpty

LEMMA CreditIsNat ==
  ASSUME TypeOK, NEW s \in Slots, NEW entry \in [Columns(model) -> Uint64], NEW p \in Pools[model]
  PROVE  Credit(entry, static, s, p) \in Nat
<1>1. static.price[s] \in Nat /\ static.weight[s] \in Weights(model)
  BY Uint64IsNat DEF TypeOK
<1>2. static.weight[s][p] \in Nat BY <1>1 DEF Weights
<1>3. entry[p] \in Nat BY Uint64IsNat DEF Columns
<1>4. PICK x \in Nat : x = entry[p] * static.price[s] BY <1>1, <1>3, ProductIsNat
<1>5. PICK y \in Nat : y = x * static.weight[s][p] BY <1>2, <1>4, ProductIsNat
<1>6. y \div Full \in Nat BY <1>5, RulesAssumption, QuotientIsNat
<1>7. QED BY <1>4, <1>5, <1>6 DEF Credit

LEMMA SlotCreditIsNat ==
  ASSUME TypeOK, NEW s \in Slots, NEW entry \in [Columns(model) -> Uint64]
  PROVE  SlotCredit(entry, s) \in Nat
<1>1. PICK f : f = [p \in Pools[model] |-> Credit(entry, static, s, p)] OBVIOUS
<1>2. DOMAIN f = Pools[model] /\ \A p \in Pools[model] : f[p] \in Nat BY <1>1, CreditIsNat
<1>3. SumFunctionOnSet(f, Pools[model]) \in Nat BY <1>2, PoolsAreFew, SumNat
<1>4. QED BY <1>1, <1>2, <1>3 DEF SlotCredit, SumFunction

LEMMA NoCredit ==
  ASSUME TypeOK, NEW s \in Slots
  PROVE  SlotCredit(NoAmounts, s) = 0
<1>1. PICK f : f = [p \in Pools[model] |-> Credit(NoAmounts, static, s, p)] OBVIOUS
<1>2. DOMAIN f = Pools[model] BY <1>1
<1>3. ASSUME NEW p \in Pools[model] PROVE f[p] = 0
  <2>1. f[p] = (NoAmounts[p] * static.price[s] * static.weight[s][p]) \div Full
    BY <1>1 DEF Credit
  <2>2. NoAmounts[p] = 0 BY NoAmountsIs DEF Columns
  <2>3. PICK x \in Nat : x = static.price[s] BY Uint64IsNat DEF TypeOK
  <2>4. PICK y \in Nat : y = static.weight[s][p]
    <3>1. static.weight[s] \in Weights(model) BY DEF TypeOK
    <3>2. QED BY <3>1 DEF Weights
  <2>5. PICK z \in Nat \ {0} : z = Full BY RulesAssumption
  <2>6. (0 * x * y) \div z = 0
    <3>1. 0 * x * y = 0 OBVIOUS
    <3>2. 0 \div z = 0 BY SMTT(30)
    <3>3. QED BY <3>1, <3>2
  <2>7. QED BY <2>1, <2>2, <2>3, <2>4, <2>5, <2>6
<1>4. SumFunctionOnSet(f, Pools[model]) = 0 BY <1>3, PoolsAreFew, SumOfZeros
<1>5. QED BY <1>1, <1>2, <1>4 DEF SlotCredit, SumFunction

\* up to the end of the curves, where there are any
InCurve(amounts, s) ==
  model \in {"T3", "T4"} =>
    \A p \in Pools[model] : amounts[p] * static.price[s] <= MaxCredit

(* On the curves a row adds what the circuit credits its slot with.        *)
LEMMA CreditsAgree ==
  ASSUME TypeOK, NEW e \in Entry,
         InCurve(e.amounts, e.slot)
  PROVE  CreditOf(AsRow(e)) = SlotCredit(e.amounts, e.slot)
<1>1. PICK s, am : s = e.slot /\ am = e.amounts OBVIOUS
<1>2. s \in Slots /\ am \in [Columns(model) -> Uint64] BY <1>1 DEF Entry
<1>3. AsRow(e).amounts = am /\ AsRow(e).asset = s BY <1>1 DEF AsRow
<1>4. model = "T1" \/ model = "T2" \/ model = "T3" \/ model = "T4" BY DEF TypeOK, Models
<1>5. CASE model = "T1"
  <2>1. PICK f : f = [p \in Pools[model] |-> Credit(am, static, s, p)] OBVIOUS
  <2>2. DOMAIN f = {} BY <1>5, <2>1, ColumnNames
  <2>3. SumFunction(f) = 0 BY <2>2, SumEmpty DEF SumFunction
  <2>4. QED BY <1>1, <1>5, <2>1, <2>3 DEF SlotCredit, CreditOf
<1>6. CASE model = "T2"
  <2>1. PICK f : f = [p \in Pools[model] |-> Credit(am, static, s, p)] OBVIOUS
  <2>2. DOMAIN f = {"collateral"} /\ f["collateral"] = Credit(am, static, s, "collateral")
    BY <1>6, <2>1, ColumnNames
  <2>3. f["collateral"] \in Nat BY <1>2, <1>6, <2>2, ColumnNames, CreditIsNat
  <2>4. SumFunction(f) = f["collateral"] BY <2>2, <2>3, SumSingle DEF SumFunction
  <2>5. CreditOf(AsRow(e)) = Credit(am, static, s, "collateral")
    BY <1>3, <1>6 DEF CreditOf
  <2>6. QED BY <1>1, <2>1, <2>2, <2>4, <2>5 DEF SlotCredit
<1>7. CASE model = "T3" \/ model = "T4"
  <2>1. PICK f : f = [p \in Pools[model] |-> Credit(am, static, s, p)] OBVIOUS
  <2>2. PICK g : g = [p \in Pools[model] |->
                        HaircutValue(am[p] * static.price[s], static.weight[s][p])]
    OBVIOUS
  <2>3. ASSUME NEW p \in Pools[model] PROVE f[p] = g[p]
    <3>1. am[p] * static.price[s] <= MaxCredit BY <1>1, <1>7 DEF InCurve
    <3>2. p \in Columns(model) BY DEF Columns
    <3>3. am[p] * static.price[s] \in Nat
      <4>1. am[p] \in Nat BY <1>2, <3>2, Uint64IsNat
      <4>2. static.price[s] \in Nat BY <1>2, Uint64IsNat DEF TypeOK
      <4>3. QED BY <4>1, <4>2, ProductIsNat
    <3>4. ~(am[p] * static.price[s] > MaxCredit) BY <3>1, <3>3, RulesAssumption
    <3>5. Least2(am[p] * static.price[s], MaxCredit) = am[p] * static.price[s]
      BY <3>1 DEF Least2
    <3>6. g[p] = (am[p] * static.price[s] * static.weight[s][p]) \div Full
      BY <2>2, <3>4, <3>5 DEF HaircutValue
    <3>7. QED BY <2>1, <3>6 DEF Credit
  <2>4. f = g BY <2>1, <2>2, <2>3
  <2>5. CreditOf(AsRow(e)) = SumFunction(g)
    <3>1. CreditOf(AsRow(e)) = CurveCredit(AsRow(e)) BY <1>7 DEF CreditOf
    <3>2. CurveCredit(AsRow(e)) = SumFunction(g) BY <1>3, <2>2 DEF CurveCredit
    <3>3. QED BY <3>1, <3>2
  <2>6. QED BY <1>1, <2>1, <2>4, <2>5 DEF SlotCredit
<1>8. QED BY <1>4, <1>5, <1>6, <1>7

\* the leaf holds the account's slots, and nothing in the others
Spread(account, n, out) ==
  /\ Listing(account, n)
  /\ out \in Seq(Nat) /\ out \in Seq(Slots) /\ Climbs(out) /\ Among(SlotsOf(account), out)

LEMMA ColumnSums ==
  ASSUME TypeOK, NEW account, NEW n \in Nat, NEW out, Spread(account, n, out),
         NEW c \in Columns(model)
  PROVE  SumFunction(AssetWorth(account.assets, c))
           = SumFunction([j \in DOMAIN out |-> Dense(account)[out[j]][c] * static.price[out[j]]])
<1>1. PICK a, b, D : a = account.assets /\ b = SlotsOf(account) /\ D = Dense(account) OBVIOUS
<1>2. Listing(account, n) BY DEF Spread
<1>3. /\ DOMAIN a = 1 .. n /\ \A i \in 1 .. n : a[i].slot \in Slots /\ b[i] = a[i].slot
      /\ b \in Seq(Nat) /\ DOMAIN b = 1 .. n /\ Climbs(b)
  BY <1>1, <1>2, ListingIs
<1>4. /\ D \in Totals /\ \A i \in 1 .. n : D[a[i].slot] = a[i].amounts
      /\ \A s \in Slots : s \notin Range(b) => D[s] = NoAmounts
  BY <1>1, <1>2, DenseIs
<1>5. out \in Seq(Nat) /\ Climbs(out) /\ Among(b, out)
  BY <1>1 DEF Spread
<1>6. \A j \in DOMAIN out : out[j] \in Slots BY DEF Spread
<1> DEFINE F == [s \in Nat |-> IF s \in Slots THEN D[s][c] * static.price[s] ELSE 0]
           e == [j \in DOMAIN a |-> a[j].amounts[c] * static.price[a[j].slot]]
           g == [j \in DOMAIN out |-> D[out[j]][c] * static.price[out[j]]]
<1>7. \A s \in Slots : static.price[s] \in Nat BY Uint64IsNat DEF TypeOK
<1>8. \A s \in Slots : D[s][c] \in Nat BY <1>4, Uint64IsNat DEF Totals
<1>9. \A s \in Slots : s \in Nat BY SlotsAreNat
<1>10. \A s \in Slots : F[s] = D[s][c] * static.price[s] /\ F[s] \in Nat
  BY <1>7, <1>8, <1>9, ProductIsNat
<1>11. \A s \in Nat : F[s] \in Nat
  <2>1. TAKE s \in Nat
  <2>2. s \notin Slots => F[s] = 0 OBVIOUS
  <2> HIDE DEF F
  <2>3. QED BY <1>10, <2>2
<1>12. \A s \in Nat : s \notin Range(b) => F[s] = 0
  <2>1. TAKE s \in Nat
  <2>2. SUFFICES ASSUME s \notin Range(b) PROVE F[s] = 0 OBVIOUS
  <2>3. CASE s \notin Slots BY <2>3
  <2>4. CASE s \in Slots
    <3>1. D[s][c] = 0 BY <1>4, <2>2, <2>4, NoAmountsIs
    <3>2. F[s] = 0 * static.price[s] /\ static.price[s] \in Nat BY <1>7, <1>10, <2>4, <3>1
    <3> HIDE DEF F
    <3>3. QED BY <3>2
  <2>5. QED BY <2>3, <2>4
<1>13. DOMAIN e = DOMAIN b /\ \A i \in DOMAIN b : e[i] = F[b[i]]
  <2>1. DOMAIN e = DOMAIN b BY <1>3
  <2>2. ASSUME NEW i \in 1 .. n PROVE e[i] = F[b[i]]
    <3>1. e[i] = a[i].amounts[c] * static.price[a[i].slot] BY <1>3
    <3>2. a[i].slot \in Slots /\ b[i] = a[i].slot /\ D[a[i].slot] = a[i].amounts BY <1>3, <1>4
    <3> HIDE DEF F, e
    <3>3. QED BY <1>10, <3>1, <3>2
  <2> HIDE DEF F, e
  <2>3. QED BY <1>3, <2>1, <2>2
<1>14. DOMAIN g = DOMAIN out /\ \A j \in DOMAIN out : g[j] = F[out[j]]
  <2>1. \A j \in DOMAIN out : g[j] = D[out[j]][c] * static.price[out[j]] OBVIOUS
  <2>2. DOMAIN g = DOMAIN out OBVIOUS
  <2> HIDE DEF F, g
  <2>3. QED BY <1>6, <1>10, <2>1, <2>2
<1>15. AssetWorth(a, c) = e BY DEF AssetWorth
<1> HIDE DEF e, g, F
<1>16. SumFunction(e) = SumFunction(g)
  <2>1. Counts(F, b) BY <1>11, <1>12 DEF Counts
  <2>2. Samples(e, F, b) /\ Samples(g, F, out) BY <1>13, <1>14 DEF Samples
  <2>3. QED BY <1>3, <1>5, <2>1, <2>2, SumsMeet
<1>17. QED BY <1>1, <1>15, <1>16 DEF g

LEMMA CreditSums ==
  ASSUME TypeOK, NEW account, NEW n \in Nat, NEW out, Spread(account, n, out),
         \A i \in 1 .. n : InCurve(account.assets[i].amounts, account.assets[i].slot)
  PROVE  SumFunction(AssetCredits(account.assets))
           = SumFunction([j \in DOMAIN out |-> SlotCredit(Dense(account)[out[j]], out[j])])
<1>1. PICK a, b, D : a = account.assets /\ b = SlotsOf(account) /\ D = Dense(account) OBVIOUS
<1>2. Listing(account, n) BY DEF Spread
<1>3. /\ DOMAIN a = 1 .. n /\ \A i \in 1 .. n : a[i].slot \in Slots /\ b[i] = a[i].slot
      /\ b \in Seq(Nat) /\ DOMAIN b = 1 .. n /\ Climbs(b)
  BY <1>1, <1>2, ListingIs
<1>0. \A i \in 1 .. n : a[i] \in Entry BY <1>1, <1>2 DEF Listing
<1>4. /\ D \in Totals /\ \A i \in 1 .. n : D[a[i].slot] = a[i].amounts
      /\ \A s \in Slots : s \notin Range(b) => D[s] = NoAmounts
  BY <1>1, <1>2, DenseIs
<1>5. out \in Seq(Nat) /\ Climbs(out) /\ Among(b, out)
  BY <1>1 DEF Spread
<1>6. \A j \in DOMAIN out : out[j] \in Slots BY DEF Spread
<1> DEFINE F == [s \in Nat |-> IF s \in Slots THEN SlotCredit(D[s], s) ELSE 0]
           e == [j \in DOMAIN a |-> CreditOf(AsRow(a[j]))]
           g == [j \in DOMAIN out |-> SlotCredit(D[out[j]], out[j])]
<1>8. \A s \in Slots : D[s] \in [Columns(model) -> Uint64] BY <1>4 DEF Totals
<1>9. \A s \in Slots : s \in Nat BY SlotsAreNat
<1>10. \A s \in Slots : F[s] = SlotCredit(D[s], s) /\ F[s] \in Nat
  BY <1>8, <1>9, SlotCreditIsNat
<1>11. \A s \in Nat : F[s] \in Nat
  <2>1. TAKE s \in Nat
  <2>2. s \notin Slots => F[s] = 0 OBVIOUS
  <2> HIDE DEF F
  <2>3. QED BY <1>10, <2>2
<1>12. \A s \in Nat : s \notin Range(b) => F[s] = 0
  <2>1. TAKE s \in Nat
  <2>2. SUFFICES ASSUME s \notin Range(b) PROVE F[s] = 0 OBVIOUS
  <2>3. CASE s \notin Slots BY <2>3
  <2>4. CASE s \in Slots
    <3>1. D[s] = NoAmounts BY <1>4, <2>2, <2>4
    <3> HIDE DEF F
    <3>2. QED BY <1>10, <2>4, <3>1, NoCredit
  <2>5. QED BY <2>3, <2>4
<1>13. DOMAIN e = DOMAIN b /\ \A i \in DOMAIN b : e[i] = F[b[i]]
  <2>1. DOMAIN e = DOMAIN b BY <1>3
  <2>2. ASSUME NEW i \in 1 .. n PROVE e[i] = F[b[i]]
    <3>1. e[i] = CreditOf(AsRow(a[i])) BY <1>3
    <3>2. a[i].slot \in Slots /\ b[i] = a[i].slot /\ D[a[i].slot] = a[i].amounts BY <1>3, <1>4
    <3>3. CreditOf(AsRow(a[i])) = SlotCredit(a[i].amounts, a[i].slot)
      BY <1>0, <1>1, CreditsAgree
    <3> HIDE DEF F, e
    <3>4. QED BY <1>10, <3>1, <3>2, <3>3
  <2> HIDE DEF F, e
  <2>3. QED BY <1>3, <2>1, <2>2
<1>14. DOMAIN g = DOMAIN out /\ \A j \in DOMAIN out : g[j] = F[out[j]]
  <2>1. \A j \in DOMAIN out : g[j] = SlotCredit(D[out[j]], out[j]) OBVIOUS
  <2>2. DOMAIN g = DOMAIN out OBVIOUS
  <2> HIDE DEF F, g
  <2>3. QED BY <1>6, <1>10, <2>1, <2>2
<1>15. AssetCredits(a) = e BY DEF AssetCredits
<1> HIDE DEF e, g, F
<1>16. SumFunction(e) = SumFunction(g)
  <2>1. Counts(F, b) BY <1>11, <1>12 DEF Counts
  <2>2. Samples(e, F, b) /\ Samples(g, F, out) BY <1>13, <1>14 DEF Samples
  <2>3. QED BY <1>3, <1>5, <2>1, <2>2, SumsMeet
<1>17. QED BY <1>1, <1>15, <1>16 DEF g

-----------------------------------------------------------------------------
(* The leaf is packed the same way on both sides. *)

\* t slots, and w numbers held for each
Numbered(slots, held, columns, t, w) ==
  /\ DOMAIN slots = 1 .. t /\ DOMAIN columns = 1 .. w
  /\ \A j \in 1 .. t : slots[j] \in Nat
  /\ \A j \in 1 .. t : \A k \in 1 .. w : held[j][columns[k]] \in Nat

LEMMA FlatIs ==
  ASSUME NEW t \in Nat, NEW slots, NEW held, NEW columns, NEW w \in Nat,
         Numbered(slots, held, columns, t, w)
  PROVE  /\ Flat(slots, held, columns) \in Seq(Nat)
         /\ Len(Flat(slots, held, columns)) = t * (w + 1)
<1>n. /\ DOMAIN slots = 1 .. t /\ DOMAIN columns = 1 .. w
      /\ \A j \in 1 .. t : slots[j] \in Nat
      /\ \A j \in 1 .. t : \A k \in 1 .. w : held[j][columns[k]] \in Nat
  BY DEF Numbered
<1> DEFINE row(j) == [k \in DOMAIN columns |-> held[j][columns[k]]]
           part(j) == <<slots[j]>> \o row(j)
<1>1. PICK ss : ss = [j \in 1 .. t |-> part(j)] OBVIOUS
<1>2. ASSUME NEW j \in 1 .. t PROVE part(j) \in Seq(Nat) /\ Len(part(j)) = 1 + w
  <2>1. <<slots[j]>> \in Seq(Nat) /\ Len(<<slots[j]>>) = 1 BY <1>n
  <2>2. row(j) \in Seq(Nat) /\ Len(row(j)) = w
    <3>1. row(j) \in [1 .. w -> Nat] BY <1>n
    <3> HIDE DEF row
    <3>2. QED BY <3>1
  <2>3. PICK a \in Seq(Nat), b \in Seq(Nat) : a = <<slots[j]>> /\ b = row(j) BY <2>1, <2>2
  <2> HIDE DEF row
  <2>4. PICK m \in Nat : m = 1 OBVIOUS
  <2>5. PICK V : V = Nat OBVIOUS
  <2>6. m = Len(a) /\ w = Len(b) BY <2>1, <2>2, <2>3, <2>4
  <2>7. a \in Seq(V) /\ b \in Seq(V) BY <2>5
  <2>8. a \o b \in Seq(V) /\ Len(a \o b) = m + w BY <2>6, <2>7, JoinedAt
  <2>9. QED BY <2>3, <2>4, <2>5, <2>8
<1>3. Flat(slots, held, columns) = FlattenSeq(ss) BY <1>n, <1>1 DEF Flat
<1>4. DOMAIN ss = 1 .. t /\ Len(ss) = t /\ (t = 0 => ss = <<>>) BY <1>1
<1> HIDE DEF part
<1>5. \A j \in 1 .. t : ss[j] \in Seq(Nat) /\ Len(ss[j]) = 1 + w BY <1>1, <1>2
<1>6. PICK V : V = Nat OBVIOUS
<1>7. Parts(ss, t, V) BY <1>4, <1>5, <1>6 DEF Parts
<1>8. PICK v \in Nat : v = 1 + w OBVIOUS
<1>9. Stacked(FlattenSeq(ss), ss, t, v, V)
  <2>1. \A j \in 1 .. t : Len(ss[j]) = v BY <1>5, <1>8
  <2>2. QED BY <1>7, <2>1, FlattenAt
<1>10. v = w + 1 BY <1>8
<1>11. QED BY <1>3, <1>6, <1>9, <1>10 DEF Stacked

LEMMA LeafPacks ==
  ASSUME NEW t \in Nat, NEW slots, NEW held, NEW columns, NEW w \in Nat,
         Numbered(slots, held, columns, t, w)
  PROVE  Threes(Flat(slots, held, columns), (t * (w + 1) + 2) \div 3)
           = ComputeFlatUint64Commitment(Flat(slots, held, columns))
<1>1. PICK f : f = Flat(slots, held, columns) OBVIOUS
<1>2. f \in Seq(Nat) /\ Len(f) = t * (w + 1) BY <1>1, FlatIs
<1>3. PICK n \in Nat : n = t * (w + 1) /\ n = Len(f) BY <1>2
<1>4. Threes(f, (n + 2) \div 3) = ComputeFlatUint64Commitment(f) BY <1>2, <1>3, PacksAlike
<1>5. QED BY <1>1, <1>3, <1>4

(* Tiers *)

LEMMA TierIs ==
  ASSUME NEW n \in Nat, \E u \in Tiers : n <= u
  PROVE  /\ Tier(n) \in Tiers /\ n <= Tier(n) /\ \A u \in Tiers : n <= u => Tier(n) <= u
<1> DEFINE S == {t \in Tiers : n <= t}
<1>1. Tiers \subseteq Nat BY BatchAssumption
<1>2. S \in SUBSET Nat /\ S # {} BY <1>1
<1> DEFINE Is(t) == n <= t /\ \A u \in Tiers : n <= u => t <= u
<1>3. \E t \in Tiers : Is(t)
  <2>1. PICK t \in S : \A u \in S : t <= u
    <3> HIDE DEF S
    <3>1. QED BY <1>2, LeastNatural
  <2>2. QED BY <2>1
<1>4. Tier(n) = CHOOSE t \in Tiers : Is(t) BY DEF Tier
<1> HIDE DEF Is
<1>5. Tier(n) \in Tiers /\ Is(Tier(n)) BY <1>3, <1>4
<1>6. QED BY <1>5 DEF Is

LEMMA TierOfTier ==
  ASSUME NEW t \in Tiers
  PROVE  Tier(t) = t /\ t \in Nat /\ t <= Capacity /\ t >= 1
<1>1. t \in Nat /\ t <= Capacity /\ t >= 1 BY BatchAssumption, RulesAssumption
<1>2. Tier(t) \in Tiers /\ t <= Tier(t) /\ \A u \in Tiers : t <= u => Tier(t) <= u
  BY <1>1, TierIs
<1>3. PICK m : m = Tier(t) OBVIOUS
<1>4. m \in Nat /\ t <= m
  <2>1. Tiers \subseteq Nat BY BatchAssumption
  <2>2. m \in Tiers BY <1>2, <1>3
  <2>3. m \in Nat BY <2>1, <2>2
  <2>4. t <= m BY <1>2, <1>3
  <2>5. QED BY <2>3, <2>4
<1>5. t <= t BY <1>1
<1>6. m <= t BY <1>2, <1>3, <1>5
<1>7. QED BY <1>1, <1>3, <1>4, <1>6

(* Nothing to place: the slots from the first on.                          *)
LEMMA PaddedNone ==
  ASSUME NEW t \in Nat
  PROVE  Padded(<<>>, t) = [k \in 1 .. t |-> k - 1]
<1>1. PICK slots : slots = <<>> OBVIOUS
<1>2. slots \in Seq(Nat) /\ Len(slots) = 0 BY <1>1
<1>3. PICK p \in [0 .. Len(slots) -> PaddedState] :
        /\ p[0] = [out |-> <<>>, left |-> t - Len(slots), next |-> 0]
        /\ Padded(slots, t) = FromTo(p[Len(slots)].out, p[Len(slots)].next, p[Len(slots)].left)
  <2>1. Len(slots) <= t BY <1>2
  <2>2. QED BY <1>2, <2>1, PaddedAlong
<1>4. p[0].out = <<>> /\ p[0].next = 0 /\ p[0].left = t BY <1>2, <1>3
<1>5. Padded(slots, t) = <<>> \o From(0, t) BY <1>2, <1>3, <1>4 DEF FromTo
<1>6. PICK f : f = [k \in 1 .. t |-> 0 + k - 1] OBVIOUS
<1>7. f \in [1 .. t -> Nat] BY <1>6
<1>8. f \in Seq(Nat) BY <1>7
<1>9. From(0, t) = f BY <1>6 DEF From
<1>10. <<>> \o f = f BY <1>8, NothingBefore
<1>11. f = [k \in 1 .. t |-> k - 1] BY <1>6
<1>12. QED BY <1>1, <1>5, <1>9, <1>10, <1>11

(* The slots an account is present in.                                     *)
LEMMA NotPresent ==
  ASSUME NEW account, Dense(account) \in Totals, NEW s \in Slots,
         s \notin Present(account, Columns(model))
  PROVE  Dense(account)[s] = NoAmounts
<1>1. PICK d : d = Dense(account)[s] OBVIOUS
<1>2. d \in [Columns(model) -> Uint64] BY <1>1 DEF Totals
<1>3. \A c \in Columns(model) : d[c] = 0 BY <1>1 DEF Present
<1>4. d = [c \in Columns(model) |-> 0] BY <1>2, <1>3
<1>5. QED BY <1>1, <1>4 DEF NoAmounts

LEMMA PresentIs ==
  ASSUME NEW account, NEW n \in Nat, Listing(account, n),
         \A i \in 1 .. n : \E c \in Columns(model) : account.assets[i].amounts[c] # 0
  PROVE  /\ Present(account, Columns(model)) = Range(SlotsOf(account))
         /\ Ascending(Present(account, Columns(model))) = SlotsOf(account)
         /\ Cardinality(Present(account, Columns(model))) = n
<1>1. PICK b, D, a : b = SlotsOf(account) /\ D = Dense(account) /\ a = account.assets OBVIOUS
<1>2. /\ b \in Seq(Nat) /\ DOMAIN b = 1 .. n /\ Climbs(b) /\ Range(b) \subseteq Slots
      /\ Len(b) = n /\ \A i \in 1 .. n : b[i] = a[i].slot
  BY <1>1, ListingIs
<1>3. /\ \A i \in 1 .. n : D[a[i].slot] = a[i].amounts
      /\ \A s \in Slots : s \notin Range(b) => D[s] = NoAmounts
  BY <1>1, DenseIs
<1>4. Present(account, Columns(model)) = {s \in Slots : \E c \in Columns(model) : D[s][c] # 0}
  BY <1>1 DEF Present
<1>5. ASSUME NEW s \in Slots PROVE s \in Range(b) <=> \E c \in Columns(model) : D[s][c] # 0
  <2>1. ASSUME s \in Range(b) PROVE \E c \in Columns(model) : D[s][c] # 0
    <3>1. PICK i \in 1 .. n : s = b[i] BY <1>2, <2>1 DEF Range
    <3>2. D[s] = a[i].amounts BY <1>2, <1>3, <3>1
    <3>3. QED BY <1>1, <3>2
  <2>2. ASSUME s \notin Range(b) PROVE ~ \E c \in Columns(model) : D[s][c] # 0
    BY <1>3, <2>2, NoAmountsIs
  <2>3. QED BY <2>1, <2>2
<1>6. Present(account, Columns(model)) = Range(b) BY <1>2, <1>4, <1>5
<1>7. Range(b) = {b[i] : i \in DOMAIN b} BY DEF Range
<1>8. Ascending(Range(b)) = b
  <2>1. Ascending({b[i] : i \in DOMAIN b}) = b BY <1>2, AscendingIs
  <2>2. QED BY <1>7, <2>1
<1>9. Cardinality(Range(b)) = n BY <1>2, ClimbingList
<1>10. QED BY <1>1, <1>6, <1>8, <1>9

-----------------------------------------------------------------------------
(* A user of a batch, real or padding. *)

HeldWorth(user, out, c) ==
  [j \in DOMAIN out |-> Dense(user)[out[j]][c] * static.price[out[j]]]
HeldCredit(user, out) == [j \in DOMAIN out |-> SlotCredit(Dense(user)[out[j]], out[j])]

\* the leaf of a user has the slots out, on both sides
Shaped(user, t, out) ==
  /\ out \in Seq(Nat) /\ out \in Seq(Slots) /\ Len(out) = t /\ DOMAIN out = 1 .. t
  /\ Climbs(out) /\ HostSlots(user) = out /\ Tier(Len(user.assets)) = t
  /\ HostHeld(user) = [j \in 1 .. t |-> Dense(user)[out[j]]]
  /\ Dense(user) \in Totals
  /\ \A s \in Slots : s \notin Range(out) => Dense(user)[s] = NoAmounts
  /\ \A s \in Slots : \A c \in Columns(model) :
       Listed(user.assets, s, c) = Dense(user)[s][c]
  /\ Padded(Ascending(Present(user, Columns(model))), t) = out

Summed(user, out) ==
  /\ user.equity = SumFunction(HeldWorth(user, out, "equity"))
  /\ user.debt = SumFunction(HeldWorth(user, out, "debt"))
  /\ user.collateral = SumFunction(HeldCredit(user, out))

Bounded(user) ==
  /\ user.debt <= MaxSum
  /\ (IF model = "T1" THEN user.equity ELSE user.collateral) <= MaxSum
  /\ IF model = "T1" THEN user.debt <= user.equity ELSE user.debt <= user.collateral
  /\ \A s \in Slots :
       /\ Pledged(model, Dense(user)[s]) <= Dense(user)[s]["equity"] \/ model = "T1"
       /\ InCurve(Dense(user)[s], s)

Fit(user, t, out) == Shaped(user, t, out) /\ Summed(user, out) /\ Bounded(user)

\* an account has the sums of what it lists, and backs what it pledges
Summing(account) ==
  /\ account.assets \in Seq(Entry)
  /\ \A i \in DOMAIN account.assets :
       LET amounts == account.assets[i].amounts IN
       /\ amounts["equity"] # 0 \/ amounts["debt"] # 0
       /\ model # "T1" => Pledged(model, amounts) <= amounts["equity"]
  /\ account.equity = SumFunction(AssetWorth(account.assets, "equity"))
  /\ account.debt = SumFunction(AssetWorth(account.assets, "debt"))
  /\ account.collateral = SumFunction(AssetCredits(account.assets))

\* an account, as it is delivered
Sound(account) ==
  /\ Summing(account)
  /\ model \in {"T1", "T4"} => InOrder(account.assets)
  /\ model # "T1" => account.debt <= account.collateral

LEMMA SoundCount ==
  ASSUME NEW account, Sound(account)
  PROVE  Count(account) = Len(account.assets)
<1>a. account.assets \in Seq(Entry) BY DEF Sound, Summing
<1>b. PICK a : a = account.assets OBVIOUS
<1>c. Len(a) \in Nat /\ DOMAIN a = 1 .. Len(a) BY <1>a, <1>b
<1>d. PICK n \in Nat : n = Len(a) BY <1>c
<1>1. a = account.assets /\ n = Len(a) /\ DOMAIN a = 1 .. n BY <1>b, <1>c, <1>d
<1>2. \A i \in 1 .. n : a[i].amounts # NoAmounts
  <2>1. TAKE i \in 1 .. n
  <2>2. a[i].amounts["equity"] # 0 \/ a[i].amounts["debt"] # 0 BY <1>1 DEF Sound, Summing
  <2>3. NoAmounts["equity"] = 0 /\ NoAmounts["debt"] = 0 BY NoAmountsIs DEF Columns
  <2>4. QED BY <2>2, <2>3
<1>3. {i \in DOMAIN a : a[i].amounts # NoAmounts} = 1 .. n BY <1>1, <1>2
<1>4. Cardinality(1 .. n) = n BY FS_Interval
<1>5. QED BY <1>1, <1>3, <1>4 DEF Count

\* what an entry is worth, and its credit, are numbers
LEMMA EntryIsNatural ==
  ASSUME TypeOK, NEW e \in Entry
  PROVE  /\ \A c \in Columns(model) : e.amounts[c] \in Nat
                                      /\ e.amounts[c] * static.price[e.slot] \in Nat
         /\ CreditOf(AsRow(e)) \in Nat
<1>1. e.slot \in Slots /\ e.amounts \in [Columns(model) -> Uint64] BY DEF Entry
<1>2. PICK a, s : a = e.amounts /\ s = e.slot OBVIOUS
<1>3. static.price[s] \in Nat BY <1>1, <1>2, Uint64IsNat DEF TypeOK
<1>4. \A c \in Columns(model) : a[c] \in Nat BY <1>1, <1>2, Uint64IsNat
<1>5. \A c \in Columns(model) : a[c] * static.price[s] \in Nat BY <1>3, <1>4, ProductIsNat
<1>6. CreditOf(AsRow(e)) \in Nat
  <2>1. AsRow(e).amounts = a /\ AsRow(e).asset = s BY <1>2 DEF AsRow
  <2>2. CASE model = "T1" BY <2>2 DEF CreditOf
  <2>3. CASE model = "T2"
    <3>1. "collateral" \in Pools[model] BY <2>3, ColumnNames
    <3>2. Credit(a, static, s, "collateral") \in Nat BY <1>1, <1>2, <3>1, CreditIsNat
    <3>3. CreditOf(AsRow(e)) = Credit(a, static, s, "collateral") BY <2>1, <2>3 DEF CreditOf
    <3>4. QED BY <3>2, <3>3
  <2>4. CASE model \notin {"T1", "T2"}
    <3>1. PICK f : f = [p \in Pools[model] |->
                          HaircutValue(a[p] * static.price[s], static.weight[s][p])]
      OBVIOUS
    <3>2. CreditOf(AsRow(e)) = SumFunctionOnSet(f, Pools[model])
      BY <2>1, <2>4, <3>1 DEF CreditOf, CurveCredit, SumFunction
    <3>3. ASSUME NEW p \in Pools[model] PROVE f[p] \in Nat
      <4>1. PICK v, w : v = a[p] * static.price[s] /\ w = static.weight[s][p] OBVIOUS
      <4>2. p \in Columns(model) BY DEF Columns
      <4>3. v \in Nat BY <1>5, <4>1, <4>2
      <4>4. w \in Nat BY <1>1, <1>2, <4>1 DEF TypeOK, Weights
      <4>5. Least2(v, MaxCredit) \in Nat BY <4>3, RulesAssumption DEF Least2
      <4>6. Least2(v, MaxCredit) * w \in Nat BY <4>4, <4>5, ProductIsNat
      <4>7. Full \in Nat \ {0} BY RulesAssumption
      <4>8. (Least2(v, MaxCredit) * w) \div Full \in Nat BY <4>6, <4>7, QuotientIsNat
      <4>9. HaircutValue(v, w) \in Nat BY <4>8 DEF HaircutValue
      <4>10. f[p] = HaircutValue(v, w) BY <3>1, <4>1
      <4>11. QED BY <4>9, <4>10
    <3>4. IsFiniteSet(Pools[model]) BY PoolsAreFew
    <3>5. SumFunctionOnSet(f, Pools[model]) \in Nat BY <3>3, <3>4, SumNat
    <3>6. QED BY <3>2, <3>5
  <2>5. QED BY <2>2, <2>3, <2>4
<1>7. QED BY <1>2, <1>4, <1>5, <1>6

\* the sums over a list of assets are numbers
LEMMA SumsAreNat ==
  ASSUME TypeOK, NEW a \in Seq(Entry)
  PROVE  /\ \A c \in Columns(model) : SumFunction(AssetWorth(a, c)) \in Nat
         /\ SumFunction(AssetCredits(a)) \in Nat
<1>1. Len(a) \in Nat /\ DOMAIN a = 1 .. Len(a) OBVIOUS
<1>2. PICK n \in Nat : n = Len(a) BY <1>1
<1>3. DOMAIN a = 1 .. n BY <1>1, <1>2
<1>4. \A i \in 1 .. n : a[i] \in Entry BY <1>3
<1>5. IsFiniteSet(1 .. n) BY <1>2, FS_Interval
<1>6. ASSUME NEW c \in Columns(model) PROVE SumFunction(AssetWorth(a, c)) \in Nat
  <2>1. PICK f : f = AssetWorth(a, c) OBVIOUS
  <2>2. DOMAIN f = 1 .. n BY <1>3, <2>1 DEF AssetWorth
  <2>3. \A i \in 1 .. n : f[i] = a[i].amounts[c] * static.price[a[i].slot]
    BY <1>3, <2>1 DEF AssetWorth
  <2>4. \A i \in 1 .. n : f[i] \in Nat BY <1>4, <2>3, EntryIsNatural
  <2>5. SumFunctionOnSet(f, 1 .. n) \in Nat BY <1>5, <2>4, SumNat
  <2>6. QED BY <2>1, <2>2, <2>5 DEF SumFunction
<1>7. SumFunction(AssetCredits(a)) \in Nat
  <2>1. PICK f : f = AssetCredits(a) OBVIOUS
  <2>2. DOMAIN f = 1 .. n BY <1>3, <2>1 DEF AssetCredits
  <2>3. \A i \in 1 .. n : f[i] = CreditOf(AsRow(a[i])) BY <1>3, <2>1 DEF AssetCredits
  <2>4. \A i \in 1 .. n : f[i] \in Nat BY <1>4, <2>3, EntryIsNatural
  <2>5. SumFunctionOnSet(f, 1 .. n) \in Nat BY <1>5, <2>4, SumNat
  <2>6. QED BY <2>1, <2>2, <2>5 DEF SumFunction
<1>8. QED BY <1>6, <1>7

LEMMA SummingIsNat ==
  ASSUME TypeOK, NEW group, Summing(group)
  PROVE  group.equity \in Nat /\ group.debt \in Nat /\ group.collateral \in Nat
<1>1. PICK a : a = group.assets OBVIOUS
<1>2. /\ a \in Seq(Entry) /\ group.equity = SumFunction(AssetWorth(a, "equity"))
      /\ group.debt = SumFunction(AssetWorth(a, "debt"))
      /\ group.collateral = SumFunction(AssetCredits(a))
  BY <1>1 DEF Summing
<1>3. "equity" \in Columns(model) /\ "debt" \in Columns(model) BY DEF Columns
<1>4. QED BY <1>2, <1>3, SumsAreNat

LEMMA NothingPledgedOf ==
  ASSUME TypeOK
  PROVE  Pledged(model, NoAmounts) = 0
<1>1. PICK f : f = NoAmounts OBVIOUS
<1>2. \A p \in Pools[model] : f[p] = 0 BY <1>1, NoAmountsIs DEF Columns
<1>3. SumFunctionOnSet(f, Pools[model]) = 0 BY <1>2, PoolsAreFew, SumOfZeros
<1>4. QED BY <1>1, <1>3 DEF Pledged

LEMMA NothingInCurve ==
  ASSUME TypeOK, NEW s \in Slots
  PROVE  InCurve(NoAmounts, s)
<1>1. ASSUME NEW p \in Pools[model] PROVE NoAmounts[p] * static.price[s] <= MaxCredit
  <2>1. p \in Columns(model) BY DEF Columns
  <2>2. NoAmounts[p] = 0 BY <2>1, NoAmountsIs
  <2>3. static.price[s] \in Nat BY Uint64IsNat DEF TypeOK
  <2>4. MaxCredit \in Nat BY RulesAssumption
  <2>5. NoAmounts[p] * static.price[s] = 0 BY <2>2, <2>3
  <2>6. QED BY <2>4, <2>5
<1>2. QED BY <1>1 DEF InCurve

LEMMA RealFits ==
  ASSUME TypeOK, NEW account, Sound(account), Regular(account), NEW t \in Tiers,
         Tier(Count(account)) = t, \E u \in Tiers : Count(account) <= u
  PROVE  /\ \E out : Fit(account, t, out)
         /\ Tier(Cardinality(Present(account, Columns(model)))) = t
<1>a. account.assets \in Seq(Entry) BY DEF Sound, Summing
<1>b. PICK a : a = account.assets OBVIOUS
<1>c. Len(a) \in Nat /\ DOMAIN a = 1 .. Len(a) BY <1>a, <1>b
<1>d. PICK n \in Nat : n = Len(a) BY <1>c
<1>1. a = account.assets /\ n = Len(a) /\ DOMAIN a = 1 .. n BY <1>b, <1>c, <1>d
<1>2. Count(account) = n BY <1>1, SoundCount
<1>3. Tier(n) = t /\ n <= t BY <1>2, TierIs
<1>4. t \in Nat /\ t <= Capacity BY TierOfTier
<1>5. InOrder(a)
  <2>1. model \in {"T2", "T3"} \/ model \in {"T1", "T4"} BY DEF TypeOK, Models
  <2>2. QED BY <1>1, <2>1 DEF Sound, Regular
<1>6. Listing(account, n)
  <2>1. \A i, j \in 1 .. n : a[i].slot = a[j].slot => i = j BY <1>1 DEF Regular
  <2>2. QED BY <1>1, <1>5, <2>1 DEF Listing, Sound, Summing
<1>7. PICK b, D, out :
        b = SlotsOf(account) /\ D = Dense(account) /\ out = HostSlots(account)
  OBVIOUS
<1>8. /\ out = Padded(b, t) /\ out \in Seq(Slots) /\ out \in Seq(Nat) /\ Len(out) = t
      /\ DOMAIN out = 1 .. t /\ Climbs(out) /\ Among(b, out)
      /\ HostHeld(account) = [j \in 1 .. t |-> D[out[j]]]
  BY <1>3, <1>4, <1>6, <1>7, HostHeldIs
<1>9. /\ D \in Totals /\ \A i \in 1 .. n : D[a[i].slot] = a[i].amounts
      /\ \A s \in Slots : s \notin Range(b) => D[s] = NoAmounts
  BY <1>1, <1>6, <1>7, DenseIs
<1>10. /\ \A i \in 1 .. n : a[i].slot \in Slots /\ b[i] = a[i].slot
       /\ DOMAIN b = 1 .. n /\ b \in Seq(Slots)
  BY <1>1, <1>6, <1>7, ListingIs
<1>11. \A s \in Slots : s \notin Range(out) => s \notin Range(b) BY <1>8 DEF Among, Range
<1>12. \A s \in Slots : \A c \in Columns(model) : Listed(a, s, c) = D[s][c]
  BY <1>1, <1>6, <1>7, ListedIsDense
<1>13. \A i \in 1 .. n : \E c \in Columns(model) : a[i].amounts[c] # 0
  <2>1. TAKE i \in 1 .. n
  <2>2. a[i].amounts["equity"] # 0 \/ a[i].amounts["debt"] # 0 BY <1>1 DEF Sound, Summing
  <2>3. "equity" \in Columns(model) /\ "debt" \in Columns(model) BY DEF Columns
  <2>4. QED BY <2>2, <2>3
<1>14. /\ Ascending(Present(account, Columns(model))) = b
       /\ Cardinality(Present(account, Columns(model))) = n
  BY <1>1, <1>6, <1>7, <1>13, PresentIs
<1>15. Shaped(account, t, out)
  BY <1>1, <1>3, <1>7, <1>8, <1>9, <1>11, <1>12, <1>14 DEF Shaped
<1>16. Spread(account, n, out) BY <1>6, <1>7, <1>8 DEF Spread
<1>17. \A i \in 1 .. n : InCurve(account.assets[i].amounts, account.assets[i].slot)
  BY <1>1 DEF Regular, InCurve
<1>18. Summed(account, out)
  <2>1. "equity" \in Columns(model) /\ "debt" \in Columns(model) BY DEF Columns
  <2>2. account.equity = SumFunction(HeldWorth(account, out, "equity"))
    BY <1>16, <2>1, ColumnSums DEF HeldWorth, Sound, Summing
  <2>3. account.debt = SumFunction(HeldWorth(account, out, "debt"))
    BY <1>16, <2>1, ColumnSums DEF HeldWorth, Sound, Summing
  <2>4. account.collateral = SumFunction(HeldCredit(account, out))
    BY <1>16, <1>17, CreditSums DEF HeldCredit, Sound, Summing
  <2>5. QED BY <2>2, <2>3, <2>4 DEF Summed
<1>19. ASSUME NEW s \in Slots
       PROVE  /\ Pledged(model, D[s]) <= D[s]["equity"] \/ model = "T1"
              /\ InCurve(D[s], s)
  <2>1. CASE s \in Range(b)
    <3>1. PICK i \in 1 .. n : s = a[i].slot BY <1>10, <2>1 DEF Range
    <3>2. D[s] = a[i].amounts BY <1>9, <3>1
    <3>3. Pledged(model, a[i].amounts) <= a[i].amounts["equity"] \/ model = "T1"
      BY <1>1 DEF Sound, Summing
    <3>4. InCurve(a[i].amounts, a[i].slot)
      BY <1>1, <1>17
    <3>5. QED BY <3>1, <3>2, <3>3, <3>4
  <2>2. CASE s \notin Range(b)
    <3>1. D[s] = NoAmounts BY <1>9, <2>2
    <3>2. Pledged(model, D[s]) = 0 BY <3>1, NothingPledgedOf
    <3>3. D[s]["equity"] = 0 BY <3>1, NoAmountsIs DEF Columns
    <3>4. InCurve(D[s], s) BY <3>1, NothingInCurve
    <3>5. QED BY <3>2, <3>3, <3>4
  <2>3. QED BY <2>1, <2>2
<1>20. Bounded(account)
  <2>1. /\ account.debt \in Nat /\ account.collateral \in Nat /\ account.equity \in Nat
    BY SummingIsNat DEF Sound
  <2>2. MaxSum \in Nat BY RulesAssumption
  <2>3. IF model = "T1" THEN account.debt <= account.equity /\ account.equity <= MaxSum
        ELSE account.debt <= account.collateral /\ account.collateral <= MaxSum
    BY DEF Regular, Sound
  <2>4. account.debt <= MaxSum BY <2>1, <2>2, <2>3
  <2>5. QED BY <1>7, <1>19, <2>3, <2>4 DEF Bounded
<1>21. QED BY <1>3, <1>14, <1>15, <1>18, <1>20 DEF Fit

LEMMA PaddingFits ==
  ASSUME TypeOK, NEW t \in Tiers, NEW index
  PROVE  \E out : Fit(PaddingAccount(t, index), t, out)
<1>1. PICK u, a : u = PaddingAccount(t, index) /\ a = u.assets OBVIOUS
<1>2. /\ a = [j \in 1 .. t |-> [slot |-> j - 1, amounts |-> NoAmounts]]
      /\ u.equity = 0 /\ u.debt = 0 /\ u.collateral = 0
  BY <1>1 DEF PaddingAccount
<1>3. Tier(t) = t /\ t \in Nat /\ t <= Capacity BY TierOfTier
<1>4. /\ DOMAIN a = 1 .. t
      /\ \A j \in 1 .. t : a[j].slot = j - 1 /\ a[j].amounts = NoAmounts /\ a[j] \in Entry
  <2>1. \A j \in 1 .. t : j - 1 \in Slots BY <1>3, RulesAssumption DEF Slots
  <2>2. QED BY <1>2, <2>1, NoAmountsIs DEF Entry
<1>5. a \in Seq(Entry) /\ Len(a) = t
  <2>1. a = [j \in 1 .. t |-> a[j]] BY <1>2
  <2>2. a \in [1 .. t -> Entry] BY <1>4, <2>1
  <2>3. QED BY <1>3, <2>2
<1>6. Listing(u, t)
  <2>1. \A i, j \in 1 .. t : a[i].slot = a[j].slot => i = j
    <3>1. TAKE i, j \in 1 .. t
    <3>2. a[i].slot = i - 1 /\ a[j].slot = j - 1 BY <1>4
    <3>3. QED BY <3>2
  <2>2. InOrder(a)
    <3>1. ASSUME NEW i \in 1 .. (t - 1) PROVE a[i].slot <= a[i + 1].slot
      <4>1. i \in 1 .. t /\ i + 1 \in 1 .. t BY <1>3
      <4>2. a[i].slot = i - 1 /\ a[i + 1].slot = (i + 1) - 1 BY <1>4, <4>1
      <4>3. QED BY <4>2
    <3>2. QED BY <1>5, <3>1 DEF InOrder
  <2>3. QED BY <1>1, <1>5, <2>1, <2>2 DEF Listing
<1>7. PICK b, D, out : b = SlotsOf(u) /\ D = Dense(u) /\ out = HostSlots(u) OBVIOUS
<1>8. /\ out = Padded(b, t) /\ out \in Seq(Slots) /\ out \in Seq(Nat) /\ Len(out) = t
      /\ DOMAIN out = 1 .. t /\ Climbs(out) /\ Among(b, out)
      /\ HostHeld(u) = [j \in 1 .. t |-> D[out[j]]]
  <2>1. t <= t BY <1>3
  <2>2. QED BY <1>3, <1>6, <1>7, <2>1, HostHeldIs
<1>9. /\ D \in Totals /\ \A i \in 1 .. t : D[a[i].slot] = a[i].amounts
      /\ \A s \in Slots : s \notin Range(b) => D[s] = NoAmounts
  BY <1>1, <1>3, <1>6, <1>7, DenseIs
<1>10. /\ \A i \in 1 .. t : a[i].slot \in Slots /\ b[i] = a[i].slot
       /\ DOMAIN b = 1 .. t /\ b \in Seq(Slots) /\ Len(b) = t /\ Climbs(b)
  BY <1>1, <1>3, <1>6, <1>7, ListingIs
<1>11. \A s \in Slots : D[s] = NoAmounts
  <2>1. TAKE s \in Slots
  <2>2. CASE s \in Range(b)
    <3>1. PICK i \in 1 .. t : s = a[i].slot BY <1>10, <2>2 DEF Range
    <3>2. QED BY <1>4, <1>9, <3>1
  <2>3. QED BY <1>9, <2>2
<1>12. \A s \in Slots : \A c \in Columns(model) : Listed(a, s, c) = D[s][c]
  BY <1>1, <1>3, <1>6, <1>7, ListedIsDense
<1>13. Present(u, Columns(model)) = {} BY <1>7, <1>11, NoAmountsIs DEF Present
<1>14. Ascending({}) = <<>>
  <2>1. Cardinality({}) = 0 BY FS_EmptySet
  <2>2. QED BY <2>1 DEF Ascending
<1>15. Padded(<<>>, t) = out
  <2>1. Padded(<<>>, t) = [k \in 1 .. t |-> k - 1] BY <1>3, PaddedNone
  <2>2. Padded(b, t) = b
    <3>1. Len(b) <= Capacity BY <1>3, <1>10
    <3>2. Padded(b, Len(b)) = b BY <1>10, <3>1, PaddedFull
    <3>3. QED BY <1>10, <3>2
  <2>3. b = [k \in 1 .. t |-> k - 1]
    <3>1. b = [k \in DOMAIN b |-> b[k]] BY <1>10, AsFunction
    <3>2. \A k \in 1 .. t : b[k] = k - 1 BY <1>4, <1>10
    <3>3. QED BY <1>10, <3>1, <3>2
  <2>4. QED BY <1>8, <2>1, <2>2, <2>3
<1>16. Shaped(u, t, out)
  BY <1>1, <1>3, <1>5, <1>7, <1>8, <1>9, <1>11, <1>12, <1>13, <1>14, <1>15 DEF Shaped
<1>17. IsFiniteSet(1 .. t) BY <1>3, FS_Interval
<1>18. \A j \in 1 .. t : out[j] \in Slots BY <1>8
<1>19. ASSUME NEW c \in Columns(model) PROVE SumFunction(HeldWorth(u, out, c)) = 0
  <2>1. PICK f : f = HeldWorth(u, out, c) OBVIOUS
  <2>2. DOMAIN f = 1 .. t /\ \A j \in 1 .. t : f[j] = D[out[j]][c] * static.price[out[j]]
    BY <1>7, <1>8, <2>1 DEF HeldWorth
  <2>3. \A j \in 1 .. t : f[j] = 0
    <3>1. TAKE j \in 1 .. t
    <3>2. D[out[j]][c] = 0 BY <1>11, <1>18, NoAmountsIs
    <3>3. static.price[out[j]] \in Nat BY <1>18, Uint64IsNat DEF TypeOK
    <3>4. QED BY <2>2, <3>2, <3>3
  <2>4. SumFunctionOnSet(f, 1 .. t) = 0 BY <1>17, <2>3, SumOfZeros
  <2>5. QED BY <2>1, <2>2, <2>4 DEF SumFunction
<1>20. SumFunction(HeldCredit(u, out)) = 0
  <2>1. PICK f : f = HeldCredit(u, out) OBVIOUS
  <2>2. DOMAIN f = 1 .. t /\ \A j \in 1 .. t : f[j] = SlotCredit(D[out[j]], out[j])
    BY <1>7, <1>8, <2>1 DEF HeldCredit
  <2>3. \A j \in 1 .. t : f[j] = 0 BY <1>11, <1>18, <2>2, NoCredit
  <2>4. SumFunctionOnSet(f, 1 .. t) = 0 BY <1>17, <2>3, SumOfZeros
  <2>5. QED BY <2>1, <2>2, <2>4 DEF SumFunction
<1>21. Summed(u, out) BY <1>2, <1>19, <1>20 DEF Summed, Columns
<1>22. Bounded(u)
  <2>1. MaxSum \in Nat BY RulesAssumption
  <2>2. ASSUME NEW s \in Slots
        PROVE  /\ Pledged(model, D[s]) <= D[s]["equity"]
               /\ InCurve(D[s], s)
    <3>1. Pledged(model, D[s]) = 0 BY <1>11, NothingPledgedOf
    <3>2. D[s]["equity"] = 0 BY <1>11, NoAmountsIs DEF Columns
    <3>3. InCurve(D[s], s) BY <1>11, NothingInCurve
    <3>4. QED BY <3>1, <3>2, <3>3
  <2>3. QED BY <1>2, <1>7, <2>1, <2>2 DEF Bounded
<1>23. QED BY <1>1, <1>16, <1>21, <1>22 DEF Fit

-----------------------------------------------------------------------------
(* The circuit's view of a user. *)

HeldAlong(user, out) == [j \in DOMAIN out |-> Dense(user)[out[j]]]

\* op is user as the prover assigns it, on the slots out
Views(op, user, out) ==
  /\ op.id = user.id /\ op.slots = out /\ op.update = Dense(user)
  /\ model = "T1" => op.told = HeldAlong(user, out)

\* the leaf the host has committed to
HostLeaf(user) ==
  CASE model = "T1" -> T1AccountLeafHash(user)
    [] model = "T2" -> T2AccountLeafHash(user)
    [] model = "T3" -> T3AccountLeafHash(user)
    [] model = "T4" -> T4AccountLeafHash(user)

LEMMA HeldAlongIs ==
  ASSUME TypeOK, NEW user, NEW t, NEW out, Shaped(user, t, out)
  PROVE  /\ DOMAIN HeldAlong(user, out) = 1 .. t
         /\ \A j \in 1 .. t :
              /\ out[j] \in Slots /\ out[j] \in Nat
              /\ HeldAlong(user, out)[j] = Dense(user)[out[j]]
              /\ HeldAlong(user, out)[j] \in [Columns(model) -> Uint64]
              /\ static.price[out[j]] \in Nat
              /\ \A c \in Columns(model) : HeldAlong(user, out)[j][c] \in Nat
<1>1. DOMAIN out = 1 .. t /\ out \in Seq(Slots) /\ Dense(user) \in Totals BY DEF Shaped
<1>2. \A j \in 1 .. t : out[j] \in Slots
  <2>1. out \in Seq(Slots) BY <1>1
  <2>2. \A j \in DOMAIN out : out[j] \in Slots BY <2>1
  <2>3. QED BY <1>1, <2>2
<1>3. PICK D : D = Dense(user) OBVIOUS
<1>4. \A s \in Slots : D[s] \in [Columns(model) -> Uint64] BY <1>1, <1>3 DEF Totals
<1>5. \A s \in Slots : static.price[s] \in Nat /\ \A c \in Columns(model) : D[s][c] \in Nat
  BY <1>1, <1>3, SlotIsNatural
<1>6. \A j \in 1 .. t : HeldAlong(user, out)[j] = D[out[j]] BY <1>1, <1>3 DEF HeldAlong
<1>7. DOMAIN HeldAlong(user, out) = 1 .. t BY <1>1 DEF HeldAlong
<1>8. QED BY <1>2, <1>3, <1>4, <1>5, <1>6, <1>7, SlotsAreNat

LEMMA TotalIs ==
  ASSUME NEW user, NEW out, NEW c
  PROVE  Total(out, HeldAlong(user, out), static, c) = SumFunction(HeldWorth(user, out, c))
<1>1. PICK H : H = HeldAlong(user, out) OBVIOUS
<1>2. \A j \in DOMAIN out : H[j] = Dense(user)[out[j]] BY <1>1 DEF HeldAlong
<1>3. [j \in DOMAIN out |-> H[j][c] * static.price[out[j]]] = HeldWorth(user, out, c)
  BY <1>2 DEF HeldWorth
<1>4. QED BY <1>1, <1>3 DEF Total

LEMMA CollateralIs ==
  ASSUME NEW user, NEW out
  PROVE  Collateral(model, out, HeldAlong(user, out), static)
           = SumFunction(HeldCredit(user, out))
<1>1. PICK H : H = HeldAlong(user, out) OBVIOUS
<1>2. \A j \in DOMAIN out : H[j] = Dense(user)[out[j]] BY <1>1 DEF HeldAlong
<1>3. [j \in DOMAIN out |-> SumFunction([p \in Pools[model] |-> Credit(H[j], static, out[j], p)])]
        = HeldCredit(user, out)
  BY <1>2 DEF HeldCredit, SlotCredit
<1>4. QED BY <1>1, <1>3 DEF Collateral

(* The circuit accepts the user.                                           *)
LEMMA UserMeets ==
  ASSUME TypeOK, NEW user, NEW t \in Tiers, NEW out, Fit(user, t, out), NEW op,
         Views(op, user, out)
  PROVE  Len(op.slots) = t /\ User(model, op, static)
<1> DEFINE H == HeldAlong(user, out)
<1>1. t \in Nat BY TierOfTier
<1>2. Shaped(user, t, out) /\ Summed(user, out) /\ Bounded(user) BY DEF Fit
<1>3. /\ DOMAIN H = 1 .. t
      /\ \A j \in 1 .. t :
           /\ out[j] \in Slots /\ out[j] \in Nat
           /\ H[j] = Dense(user)[out[j]] /\ H[j] \in [Columns(model) -> Uint64]
           /\ static.price[out[j]] \in Nat /\ \A c \in Columns(model) : H[j][c] \in Nat
  BY <1>2, HeldAlongIs
<1>4. DOMAIN out = 1 .. t /\ Len(out) = t /\ Climbs(out) BY <1>2 DEF Shaped
<1>5. op.slots = out BY DEF Views
<1>6. Increasing(op)
  <2>1. \A j \in 1 .. (t - 1) : j \in 1 .. t /\ j + 1 \in 1 .. t /\ j < j + 1 BY <1>1
  <2>2. \A j \in 1 .. (t - 1) : out[j] < out[j + 1] BY <1>4, <2>1 DEF Climbs
  <2>3. QED BY <1>3, <1>4, <1>5, <2>2 DEF Increasing, Positions
<1>7. Looked(op) = H BY <1>5 DEF Looked, Positions, Views, HeldAlong
<1>8. Ranged(model, H) BY <1>3 DEF Ranged
<1>9. /\ Total(out, H, static, "equity") = user.equity
      /\ Total(out, H, static, "debt") = user.debt
      /\ Collateral(model, out, H, static) = user.collateral
  BY <1>2, TotalIs, CollateralIs DEF Summed
<1>10. /\ user.debt <= MaxSum
       /\ model = "T1" => user.debt <= user.equity /\ user.equity <= MaxSum
       /\ model # "T1" => user.debt <= user.collateral /\ user.collateral <= MaxSum
  BY <1>2 DEF Bounded
<1>11. model # "T1" => Covered(model, out, H, static) BY <1>9, <1>10 DEF Covered
<1>12. model # "T1" => Backed(model, H) BY <1>2, <1>3 DEF Bounded, Backed
<1>13. model \in {"T3", "T4"} => OnCurve(model, H, out, static)
  BY <1>2, <1>3, <1>4 DEF Bounded, InCurve, OnCurve
<1>14. model = "T1" => op.told = H BY DEF Views
<1> HIDE DEF H
<1>15. User(model, op, static)
  <2>1. CASE model = "T1"
    <3>1. T1User(op, static)
      BY <2>1, <1>5, <1>6, <1>7, <1>8, <1>9, <1>10, <1>14 DEF T1User
    <3>2. QED BY <2>1, <3>1 DEF User
  <2>2. CASE model = "T2"
    <3>1. T2User(op, static) BY <2>2, <1>5, <1>6, <1>7, <1>8, <1>11, <1>12 DEF T2User
    <3>2. QED BY <2>2, <3>1 DEF User
  <2>3. CASE model = "T3"
    <3>1. T3User(op, static) BY <2>3, <1>5, <1>6, <1>7, <1>8, <1>11, <1>12, <1>13 DEF T3User
    <3>2. QED BY <2>3, <3>1 DEF User
  <2>4. CASE model = "T4"
    <3>1. T4User(op, static) BY <2>4, <1>5, <1>6, <1>7, <1>8, <1>11, <1>12, <1>13 DEF T4User
    <3>2. QED BY <2>4, <3>1 DEF User
  <2>5. QED BY <2>1, <2>2, <2>3, <2>4 DEF TypeOK, Models
<1>16. QED BY <1>4, <1>5, <1>15

(* And hashes it to the leaf of the host.                                  *)
LEMMA LeafMeets ==
  ASSUME TypeOK, NEW user, NEW t \in Tiers, NEW out, Fit(user, t, out), NEW op,
         Views(op, user, out)
  PROVE  CircuitLeaf(op) = HostLeaf(user)
<1> DEFINE H == HeldAlong(user, out)
<1>1. t \in Nat BY TierOfTier
<1>2. Shaped(user, t, out) /\ Summed(user, out) BY DEF Fit
<1>3. /\ DOMAIN H = 1 .. t
      /\ \A j \in 1 .. t : out[j] \in Nat /\ \A c \in Columns(model) : H[j][c] \in Nat
  BY <1>2, HeldAlongIs
<1>4. /\ DOMAIN out = 1 .. t /\ HostSlots(user) = out /\ Tier(Len(user.assets)) = t
      /\ HostHeld(user) = [j \in 1 .. t |-> Dense(user)[out[j]]]
  BY <1>2 DEF Shaped
<1>5. HostHeld(user) = H BY <1>4 DEF HeldAlong
<1>6. op.id = user.id /\ op.slots = out BY DEF Views
<1>7. Looked(op) = H BY <1>6 DEF Looked, Positions, Views, HeldAlong
<1>8. Held(model, op) = H BY <1>7 DEF Held, Views
<1>9. /\ Total(out, H, static, "equity") = user.equity
      /\ Total(out, H, static, "debt") = user.debt
      /\ Collateral(model, out, H, static) = user.collateral
  BY <1>2, TotalIs, CollateralIs DEF Summed
<1> HIDE DEF H
<1>10. PICK leaf : leaf = LeafOf(model, op, static) OBVIOUS
<1>11. /\ leaf.id = user.id /\ leaf.equity = user.equity /\ leaf.debt = user.debt
       /\ leaf.collateral = user.collateral /\ leaf.slots = out /\ leaf.held = H
  BY <1>6, <1>8, <1>9, <1>10 DEF LeafOf
<1>12. ASSUME NEW columns, NEW w \in Nat, DOMAIN columns = 1 .. w,
              \A k \in 1 .. w : columns[k] \in Columns(model)
       PROVE  Threes(Flat(out, H, columns), (t * (w + 1) + 2) \div 3)
                = ComputeFlatUint64Commitment(Flat(out, H, columns))
  <2>1. \A j \in 1 .. t : out[j] \in Nat BY <1>3
  <2>2. \A j \in 1 .. t : \A k \in 1 .. w : H[j][columns[k]] \in Nat BY <1>3, <1>12
  <2>3. Numbered(out, H, columns, t, w) BY <1>4, <1>12, <2>1, <2>2 DEF Numbered
  <2>4. QED BY <1>1, <2>3, LeafPacks
<1>13. CASE model = "T1"
  <2>1. PICK cs : cs = <<"equity", "debt">> OBVIOUS
  <2>2. DOMAIN cs = 1 .. 2 /\ \A k \in 1 .. 2 : cs[k] \in Columns(model)
    BY <2>1, <1>13, ColumnNames
  <2>3. PICK w \in Nat : w = 2 OBVIOUS
  <2>4. Threes(Flat(out, H, cs), (t * (w + 1) + 2) \div 3)
          = ComputeFlatUint64Commitment(Flat(out, H, cs))
    BY <1>12, <2>2, <2>3
  <2>5. w + 1 = 3 BY <2>3
  <2>6. T1UserAssetsCommitment(user) = ComputeFlatUint64Commitment(Flat(out, H, cs))
    BY <1>4, <1>5, <2>1, <2>4, <2>5 DEF T1UserAssetsCommitment, T1PaddingAccountAssets
  <2>7. user.collateral = 0
    <3>1. PICK f : f = HeldCredit(user, out) OBVIOUS
    <3>2. DOMAIN f = 1 .. t /\ \A j \in 1 .. t : f[j] = SlotCredit(Dense(user)[out[j]], out[j])
      BY <1>4, <3>1 DEF HeldCredit
    <3>3. ASSUME NEW j \in 1 .. t PROVE f[j] = 0
      <4>1. PICK g : g = [p \in Pools[model] |-> Credit(Dense(user)[out[j]], static, out[j], p)]
        OBVIOUS
      <4>2. DOMAIN g = {} BY <1>13, <4>1, ColumnNames
      <4>3. SumFunction(g) = 0 BY <4>2, SumEmpty DEF SumFunction
      <4>4. QED BY <3>2, <4>1, <4>3 DEF SlotCredit
    <3>4. IsFiniteSet(1 .. t) BY <1>1, FS_Interval
    <3>5. SumFunctionOnSet(f, 1 .. t) = 0 BY <3>3, <3>4, SumOfZeros
    <3>6. QED BY <1>2, <3>1, <3>2, <3>5 DEF Summed, SumFunction
  <2>8. HostLeaf(user) = T1AccountLeafHash(user) BY <1>13 DEF HostLeaf
  <2>9. QED BY <1>10, <1>11, <1>13, <2>1, <2>6, <2>7, <2>8
          DEF CircuitLeaf, T1AccountLeafHash, Leaf
<1>14. CASE model \in {"T2", "T3"}
  <2>1. PICK cs : cs = <<"equity", "debt", "collateral">> OBVIOUS
  <2>2. DOMAIN cs = 1 .. 3 /\ \A k \in 1 .. 3 : cs[k] \in Columns(model)
    BY <2>1, <1>14, ColumnNames
  <2>3. PICK w \in Nat : w = 3 OBVIOUS
  <2>4. Threes(Flat(out, H, cs), (t * (w + 1) + 2) \div 3)
          = ComputeFlatUint64Commitment(Flat(out, H, cs))
    BY <1>12, <2>2, <2>3
  <2>5. w + 1 = 4 BY <2>3
  <2>6. /\ T2UserAssetsCommitment(user) = ComputeFlatUint64Commitment(Flat(out, H, cs))
        /\ T3UserAssetsCommitment(user) = ComputeFlatUint64Commitment(Flat(out, H, cs))
    BY <1>4, <1>5, <2>1, <2>4, <2>5 DEF T2UserAssetsCommitment, T2PaddingAccountAssets,
       T3UserAssetsCommitment, T3PaddingAccountAssets
  <2>7. \/ HostLeaf(user) = T2AccountLeafHash(user)
        \/ HostLeaf(user) = T3AccountLeafHash(user)
    BY <1>14 DEF HostLeaf
  <2>8. CircuitLeaf(op)
          = Leaf(leaf, leaf.collateral,
                 ComputeFlatUint64Commitment(Flat(leaf.slots, leaf.held, cs)))
    BY <1>10, <1>14, <2>1 DEF CircuitLeaf
  <2>9. QED BY <1>11, <2>6, <2>7, <2>8 DEF T2AccountLeafHash, T3AccountLeafHash, Leaf
<1>15. CASE model = "T4"
  <2>1. PICK cs : cs = <<"equity", "debt", "loan", "margin", "portfolio_margin">> OBVIOUS
  <2>2. DOMAIN cs = 1 .. 5 /\ \A k \in 1 .. 5 : cs[k] \in Columns(model)
    BY <2>1, <1>15, ColumnNames
  <2>3. PICK w \in Nat : w = 5 OBVIOUS
  <2>4. Threes(Flat(out, H, cs), (t * (w + 1) + 2) \div 3)
          = ComputeFlatUint64Commitment(Flat(out, H, cs))
    BY <1>12, <2>2, <2>3
  <2>5. w + 1 = 6 BY <2>3
  <2>6. T4UserAssetsCommitment(user) = ComputeFlatUint64Commitment(Flat(out, H, cs))
    BY <1>4, <1>5, <2>1, <2>4, <2>5 DEF T4UserAssetsCommitment, T4PaddingAccountAssets
  <2>7. HostLeaf(user) = T4AccountLeafHash(user) BY <1>15 DEF HostLeaf
  <2>8. CircuitLeaf(op)
          = Leaf(leaf, leaf.collateral,
                 ComputeFlatUint64Commitment(Flat(leaf.slots, leaf.held, cs)))
    BY <1>10, <1>15, <2>1 DEF CircuitLeaf
  <2>9. QED BY <1>11, <2>6, <2>7, <2>8 DEF T4AccountLeafHash, Leaf
<1>16. QED BY <1>13, <1>14, <1>15 DEF TypeOK, Models

(* What the user adds to a slot is what its leaf holds of the slot.        *)
LEMMA UserSpans ==
  ASSUME TypeOK, NEW user, NEW t \in Tiers, NEW out, Fit(user, t, out), NEW op,
         Views(op, user, out), NEW columns, columns \subseteq Columns(model)
  PROVE  Spans(op, columns)
<1>1. t \in Nat BY TierOfTier
<1>2. /\ DOMAIN out = 1 .. t /\ Climbs(out) /\ Dense(user) \in Totals /\ out \in Seq(Slots)
      /\ \A s \in Slots : s \notin Range(out) => Dense(user)[s] = NoAmounts
  BY DEF Fit, Shaped
<1>3. PICK D : D = op.update /\ D = Dense(user) BY DEF Views
<1>4. op.slots = out BY DEF Views
<1>5. \A i \in 1 .. t : out[i] \in Nat
  <2>1. out \in Seq(Slots) BY <1>2
  <2>2. \A i \in DOMAIN out : out[i] \in Slots BY <2>1
  <2>3. QED BY <1>2, <2>2, SlotsAreNat
<1>6. \A i, j \in 1 .. t : out[i] = out[j] => i = j
  <2>1. \A i \in 1 .. t : out[i] \in Int BY <1>5
  <2>2. QED BY <1>1, <1>2, <2>1, ClimbsApart
<1>7. ASSUME NEW s \in Slots, NEW c \in columns
      PROVE  (Cardinality({j \in 1 .. t : out[j] = s}) * D[s][c]) % Modulus = D[s][c]
  <2>1. D[s][c] \in Nat /\ D[s][c] < Modulus
    <3>1. D[s][c] \in Uint64 BY <1>2, <1>3 DEF Totals
    <3>2. MaxValue \in Nat /\ Modulus \in Nat /\ Modulus > MaxValue BY RulesAssumption
    <3>3. QED BY <3>1, <3>2 DEF Uint64
  <2>2. Modulus \in Nat /\ Modulus > 0 BY RulesAssumption
  <2>3. PICK v, N : v = D[s][c] /\ N = Cardinality({j \in 1 .. t : out[j] = s}) OBVIOUS
  <2>4. N * v = v
    <3>1. CASE \E j \in 1 .. t : out[j] = s
      <4>1. PICK j \in 1 .. t : out[j] = s BY <3>1
      <4>2. {i \in 1 .. t : out[i] = s} = {j} BY <1>6, <4>1
      <4>3. N = 1 BY <2>3, <4>2, FS_Singleton
      <4>4. QED BY <2>1, <2>3, <4>3
    <3>2. CASE ~ \E j \in 1 .. t : out[j] = s
      <4>1. {i \in 1 .. t : out[i] = s} = {} BY <3>2
      <4>2. N = 0 BY <2>3, <4>1, FS_EmptySet
      <4>3. D[s] = NoAmounts BY <1>2, <1>3, <3>2 DEF Range
      <4>4. v = 0 BY <2>3, <4>3, NoAmountsIs
      <4>5. QED BY <4>2, <4>4
    <3>3. QED BY <3>1, <3>2
  <2>5. v % Modulus = v BY <2>1, <2>2, <2>3
  <2>6. QED BY <2>3, <2>4, <2>5
<1>8. QED BY <1>2, <1>3, <1>4, <1>7 DEF Spans, Positions

-----------------------------------------------------------------------------
(* The batches of the accounts delivered. *)

MembersOf(t) == {account \in delivered : Tier(Count(account)) = t}
IdsApart == \A a, b \in delivered : a.id = b.id => a = b

(* A bucket holds accounts of its tier and nothing else.                   *)
LEMMA BucketIs ==
  ASSUME TypeOK, IdsApart, NEW t \in Tiers
  PROVE  Bucket(t) \in Seq(MembersOf(t))
<1>1. PICK N \in Nat : N = Len(order) BY DEF TypeOK
<1> DEFINE of(id) == CHOOSE account \in delivered : account.id = id
           members == {account.id : account \in {a \in delivered : Tier(Count(a)) = t}}
           piece(k) == IF order[k] \in members THEN <<of(order[k])>> ELSE <<>>
           V == Seq(MembersOf(t))
           step == [k \in 1 .. N |-> [v \in V |-> v \o piece(k)]]
           Body(g, k) == IF k = 0 THEN <<>> ELSE g[k - 1] \o piece(k)
           Def(g) == g = [k \in 0 .. N |-> Body(g, k)]
           b == CHOOSE g : Def(g)
<1>2. ASSUME NEW id \in members PROVE of(id) \in MembersOf(t)
  <2>1. PICK a \in delivered : a.id = id /\ Tier(Count(a)) = t OBVIOUS
  <2>2. of(id) \in delivered /\ of(id).id = id BY <2>1
  <2>3. of(id) = a
    <3> HIDE DEF of
    <3>1. QED BY <2>1, <2>2 DEF IdsApart
  <2>4. QED BY <2>1, <2>3 DEF MembersOf
<1> HIDE DEF of, members
<1>3. \A k \in 1 .. N : piece(k) \in V BY <1>2
<1> HIDE DEF piece
<1>4. step \in [1 .. N -> [V -> V]]
  <2>1. \A k \in 1 .. N, v \in V : v \o piece(k) \in V BY <1>3
  <2>2. QED BY <2>1
<1>5. \A k \in 1 .. N, v \in V : step[k][v] = v \o piece(k) OBVIOUS
<1>6. <<>> \in V OBVIOUS
<1>7. \A k \in 1 .. N : k - 1 \in 0 .. N /\ k \in 0 .. N /\ k # 0 OBVIOUS
<1>8. \A k \in 0 .. N : k # 0 => k \in 1 .. N OBVIOUS
<1> HIDE DEF V, step
<1>9. PICK f \in [0 .. N -> V] : Follows(f, <<>>, step, N) BY <1>4, <1>6, RecursionSolved
<1>10. Def(f)
  <2>1. \A k \in 0 .. N : f[k] = Body(f, k)
    <3>1. ASSUME NEW k \in 1 .. N PROVE f[k] = f[k - 1] \o piece(k)
      BY <1>5, <1>7, <1>9 DEF Follows
    <3>2. f[0] = <<>> BY <1>9 DEF Follows
    <3>3. QED BY <1>8, <3>1, <3>2
  <2> HIDE DEF Body
  <2>2. f = [k \in 0 .. N |-> f[k]] BY <1>9
  <2>3. QED BY <2>1, <2>2
<1>11. Def(b)
  <2> HIDE DEF Def
  <2>1. QED BY <1>10
<1>12. Bucket(t) = b[N] BY <1>1 DEF Bucket, of, members, piece
<1> HIDE DEF b
<1>13. \A k \in 0 .. N : b[k] = Body(b, k)
  <2> HIDE DEF Body
  <2>1. QED BY <1>11
<1> DEFINE G == {k \in 0 .. N : b[k] \in V}
<1>14. 0 \in G
  <2>1. 0 \in 0 .. N OBVIOUS
  <2>2. b[0] = <<>> BY <1>13, <2>1
  <2>3. QED BY <1>6, <2>1, <2>2
<1>15. ASSUME NEW k \in 1 .. N, k - 1 \in G PROVE k \in G
  <2>1. b[k] = b[k - 1] \o piece(k) BY <1>7, <1>13
  <2>2. b[k - 1] \in V /\ piece(k) \in V BY <1>3, <1>15
  <2>3. b[k] \in V BY <2>1, <2>2 DEF V
  <2>4. QED BY <1>7, <2>3
<1>16. N \in G
  <2> HIDE DEF G
  <2>1. \A k \in 0 .. N : k \in G BY <1>14, <1>15, InductionUpto
  <2>2. QED BY <2>1
<1>17. QED BY <1>12, <1>16 DEF V

\* users of tier t, and the first of them delivered
UserOf(user, t) ==
  user \in MembersOf(t) \/ \E index : user = PaddingAccount(t, index)

Batched(batch) ==
  /\ batch.tier \in Tiers
  /\ Len(batch.users) = UsersPerBatch /\ DOMAIN batch.users = 1 .. UsersPerBatch
  /\ batch.users[1] \in MembersOf(batch.tier)
  /\ \A i \in 1 .. UsersPerBatch : UserOf(batch.users[i], batch.tier)

(* A bucket is filled up to whole batches by less than one.                *)
LEMMA WholeBucketIs ==
  ASSUME TypeOK, IdsApart, NEW t \in Tiers
  PROVE  \E n \in Nat, m \in Nat :
           /\ n = Len(WholeBucket(t)) /\ DOMAIN WholeBucket(t) = 1 .. n
           /\ n < m + UsersPerBatch
           /\ \A k \in 1 .. m : k \in 1 .. n /\ WholeBucket(t)[k] \in MembersOf(t)
           /\ \A k \in 1 .. n : UserOf(WholeBucket(t)[k], t)
<1>1. PICK b : b = Bucket(t) OBVIOUS
<1>2. b \in Seq(MembersOf(t)) BY <1>1, BucketIs
<1>3. PICK m \in Nat : m = Len(b) /\ DOMAIN b = 1 .. m
  <2>1. Len(b) \in Nat /\ DOMAIN b = 1 .. Len(b) BY <1>2
  <2>2. QED BY <2>1
<1>4. UsersPerBatch \in Nat /\ UsersPerBatch > 0 BY BatchAssumption
<1>5. PICK r : r = (-m) % UsersPerBatch OBVIOUS
<1>6. r \in Nat /\ r < UsersPerBatch BY <1>3, <1>4, <1>5
<1>7. PICK c : c = [k \in 1 .. r |-> PaddingAccount(t, PaddingStart(t) + k - 1)] OBVIOUS
<1>8. WholeBucket(t) = b \o c BY <1>1, <1>3, <1>5, <1>7 DEF WholeBucket, Lacking
<1> DEFINE V == MembersOf(t) \cup {c[k] : k \in 1 .. r}
<1>9. c \in Seq(V) /\ Len(c) = r
  <2>1. c \in [1 .. r -> V] BY <1>7
  <2>2. QED BY <1>6, <2>1
<1>10. b \in Seq(V) BY <1>2, Widen
<1> HIDE DEF V
<1>11. /\ b \o c \in Seq(V) /\ Len(b \o c) = m + r
       /\ \A i \in 1 .. m : (b \o c)[i] = b[i]
       /\ \A i \in 1 .. r : (b \o c)[m + i] = c[i]
  BY <1>3, <1>6, <1>9, <1>10, JoinedAt
<1>12. PICK w : w = WholeBucket(t) OBVIOUS
<1>13. w \in Seq(V) /\ Len(w) = m + r BY <1>8, <1>11, <1>12
<1>14. PICK n \in Nat : n = m + r BY <1>3, <1>6
<1>15. n = Len(w) /\ DOMAIN w = 1 .. n BY <1>13, <1>14
<1>16. \A k \in 1 .. m : k \in 1 .. n /\ w[k] \in MembersOf(t)
  <2>1. TAKE k \in 1 .. m
  <2>2. k \in 1 .. n BY <1>3, <1>6, <1>14
  <2>3. b[k] \in MembersOf(t) BY <1>2, <1>3
  <2>4. QED BY <1>8, <1>11, <1>12, <2>2, <2>3
<1>17. \A k \in 1 .. n : UserOf(w[k], t)
  <2>1. TAKE k \in 1 .. n
  <2>2. CASE k <= m
    <3>1. k \in 1 .. m BY <1>3, <2>2
    <3>2. QED BY <1>16, <3>1 DEF UserOf
  <2>3. CASE k > m
    <3>1. PICK i : i = k - m OBVIOUS
    <3>2. i \in 1 .. r /\ m + i = k BY <1>3, <1>6, <1>14, <2>3, <3>1
    <3>3. w[k] = c[i] BY <1>8, <1>11, <1>12, <3>2
    <3>4. c[i] = PaddingAccount(t, PaddingStart(t) + i - 1) BY <1>7, <3>2
    <3>5. QED BY <3>3, <3>4 DEF UserOf
  <2>4. QED BY <1>3, <2>2, <2>3
<1>18. n < m + UsersPerBatch BY <1>3, <1>4, <1>6, <1>14
<1>19. QED BY <1>12, <1>15, <1>16, <1>17, <1>18

LEMMA BatchesOfAre ==
  ASSUME TypeOK, IdsApart, NEW t \in Tiers
  PROVE  \E n \in Nat : /\ BatchesOf(t) \in Seq(Range(BatchesOf(t)))
                        /\ DOMAIN BatchesOf(t) = 1 .. n /\ Len(BatchesOf(t)) = n
                        /\ \A k \in 1 .. n : Batched(BatchesOf(t)[k])
<1>1. PICK w : w = WholeBucket(t) OBVIOUS
<1>2. PICK n \in Nat, m \in Nat :
        /\ n = Len(w) /\ DOMAIN w = 1 .. n /\ n < m + UsersPerBatch
        /\ \A k \in 1 .. m : k \in 1 .. n /\ w[k] \in MembersOf(t)
        /\ \A k \in 1 .. n : UserOf(w[k], t)
  BY <1>1, WholeBucketIs
<1>3. PICK U \in Nat : U = UsersPerBatch /\ U > 0 BY BatchAssumption
<1>4. PICK q : q = n \div U OBVIOUS
<1>5. q \in Nat /\ q * U <= n
  <2>1. n \div U \in Int /\ U * (n \div U) <= n /\ n < U * (n \div U) + U
    BY <1>2, <1>3, DivBounds
  <2>2. q \in Int /\ U * q <= n /\ n < U * (q + 1) BY <1>3, <1>4, <2>1
  <2>3. q >= 0
    <3>1. SUFFICES ASSUME q < 0 PROVE FALSE BY <2>2
    <3>2. q + 1 <= 0 BY <2>2, <3>1
    <3>3. U * (q + 1) <= 0 BY <1>3, <2>2, <3>2
    <3>4. QED BY <1>2, <2>2, <3>3
  <2>4. QED BY <1>3, <2>2, <2>3
<1>6. PICK B : B = BatchesOf(t) OBVIOUS
<1>7. B = [b \in 1 .. q |-> [tier |-> t, users |-> SubSeq(w, (b - 1) * U + 1, b * U)]]
  BY <1>1, <1>2, <1>3, <1>4, <1>6 DEF BatchesOf
<1>8. B \in Seq(Range(B)) /\ DOMAIN B = 1 .. q /\ Len(B) = q
  <2>1. B \in [1 .. q -> Range(B)] BY <1>7 DEF Range
  <2>2. QED BY <1>5, <2>1
<1>9. ASSUME NEW k \in 1 .. q PROVE Batched(B[k])
  <2>1. PICK first, last : first = (k - 1) * U + 1 /\ last = k * U OBVIOUS
  <2>2. first \in Nat /\ last \in Nat /\ 1 <= first /\ last = first + U - 1
    BY <1>3, <1>5, <2>1
  <2>3. last <= n
    <3>1. k * U <= q * U BY <1>3, <1>5
    <3>2. QED BY <1>5, <2>1, <2>2, <3>1
  <2>4. PICK u : u = SubSeq(w, first, last) OBVIOUS
  <2>5. B[k].tier = t /\ B[k].users = u BY <1>7, <2>1, <2>4
  <2>6. last - first + 1 = U /\ first <= last BY <1>3, <2>2
  <2>7. PICK V : \A i \in first .. last : w[i] \in V
    <3>1. \A i \in first .. last : w[i] \in {w[x] : x \in first .. last} OBVIOUS
    <3>2. QED BY <3>1
  <2>8. /\ u \in Seq(V) /\ Len(u) = last - first + 1
        /\ \A i \in 1 .. (last - first + 1) : u[i] = w[first + i - 1]
    BY <2>2, <2>4, <2>6, <2>7, SubSeqProperties
  <2>9. Len(u) = U /\ DOMAIN u = 1 .. U
    <3>1. DOMAIN u = 1 .. Len(u) BY <2>8
    <3>2. QED BY <2>6, <2>8, <3>1
  <2>10. \A i \in 1 .. U : UserOf(u[i], t)
    <3>1. TAKE i \in 1 .. U
    <3>2. first + i - 1 \in 1 .. n BY <1>2, <1>3, <2>2, <2>3
    <3>3. u[i] = w[first + i - 1] BY <2>6, <2>8
    <3>4. QED BY <1>2, <3>2, <3>3
  <2>11. u[1] \in MembersOf(t)
    <3>1. 1 \in 1 .. U /\ first + 1 - 1 = first BY <1>3, <2>2
    <3>2. first \in 1 .. m BY <1>2, <1>3, <2>2, <2>3
    <3>3. u[1] = w[first] BY <2>6, <2>8, <3>1
    <3>4. QED BY <1>2, <3>2, <3>3
  <2>12. QED BY <1>3, <2>5, <2>9, <2>10, <2>11 DEF Batched
<1>10. QED BY <1>5, <1>6, <1>8, <1>9

LEMMA BatchesAre ==
  ASSUME TypeOK, IdsApart
  PROVE  /\ Len(Batches) \in Nat /\ DOMAIN Batches = 1 .. Len(Batches)
         /\ \A p \in DOMAIN Batches : Batched(Batches[p])
<1>1. PICK C \in Nat : C = Capacity BY RulesAssumption
<1> DEFINE part(t) == IF t \in Tiers THEN BatchesOf(t) ELSE <<>>
<1>2. PICK ss : ss = [t \in 1 .. C |-> part(t)] OBVIOUS
<1>3. Batches = FlattenSeq(ss) BY <1>1, <1>2 DEF Batches
<1> DEFINE V == UNION {Range(BatchesOf(t)) : t \in Tiers}
<1>4. ASSUME NEW t \in Tiers PROVE BatchesOf(t) \in Seq(V)
  <2>1. BatchesOf(t) \in Seq(Range(BatchesOf(t))) BY BatchesOfAre
  <2>2. Range(BatchesOf(t)) \subseteq V OBVIOUS
  <2> HIDE DEF V
  <2>3. QED BY <2>1, <2>2, Widen
<1>5. DOMAIN ss = 1 .. C /\ Len(ss) = C /\ (C = 0 => ss = <<>>) BY <1>2
<1> HIDE DEF V
<1>6. \A t \in 1 .. C : ss[t] \in Seq(V)
  <2>1. \A t \in 1 .. C : ss[t] = part(t) BY <1>2
  <2>2. <<>> \in Seq(V) OBVIOUS
  <2>3. QED BY <1>4, <2>1, <2>2
<1>7. Parts(ss, C, V) BY <1>5, <1>6 DEF Parts
<1>8. ASSUME NEW p \in DOMAIN Batches PROVE Batched(Batches[p])
  <2>1. PICK t \in 1 .. C : \E r \in DOMAIN ss[t] : FlattenSeq(ss)[p] = ss[t][r]
    BY <1>3, <1>7, FlattenFrom
  <2>2. PICK r \in DOMAIN ss[t] : Batches[p] = ss[t][r] BY <1>3, <2>1
  <2>3. ss[t] = part(t) BY <1>2
  <2>4. CASE t \in Tiers
    <3>1. ss[t] = BatchesOf(t) BY <2>3, <2>4
    <3>2. PICK n \in Nat : DOMAIN BatchesOf(t) = 1 .. n /\
                           \A k \in 1 .. n : Batched(BatchesOf(t)[k])
      BY <2>4, BatchesOfAre
    <3>3. QED BY <2>2, <3>1, <3>2
  <2>5. CASE t \notin Tiers
    <3>1. ss[t] = <<>> BY <2>3, <2>5
    <3>2. QED BY <2>2, <3>1
  <2>6. QED BY <2>4, <2>5
<1>9. Len(Batches) \in Nat /\ DOMAIN Batches = 1 .. Len(Batches)
  <2>1. PICK f \in [0 .. C -> Seq(V)] : Flattens(f, ss, C) BY <1>7, FlattenAlong
  <2>2. PICK all : all = f[C] OBVIOUS
  <2>3. all \in Seq(V) BY <2>2
  <2>4. Len(all) \in Nat /\ DOMAIN all = 1 .. Len(all) BY <2>3
  <2>5. Batches = all BY <1>3, <2>1, <2>2 DEF Flattens
  <2>6. QED BY <2>4, <2>5
<1>10. QED BY <1>8, <1>9

-----------------------------------------------------------------------------
(* What the prover assigns for the users of a batch. *)

Delivers == /\ IdsApart /\ \A account \in delivered : Sound(account)
            /\ \A account \in delivered : \E t \in Tiers : Count(account) <= t

LEMMA UserFits ==
  ASSUME TypeOK, Delivers, NEW t \in Tiers, NEW user, UserOf(user, t), Regular(user)
  PROVE  \E out : Fit(user, t, out)
<1>1. CASE user \in MembersOf(t)
  <2>1. user \in delivered /\ Tier(Count(user)) = t BY <1>1 DEF MembersOf
  <2>2. Sound(user) /\ \E u \in Tiers : Count(user) <= u BY <2>1 DEF Delivers
  <2>3. QED BY <2>1, <2>2, RealFits
<1>2. CASE \E index : user = PaddingAccount(t, index)
  <2>1. PICK index : user = PaddingAccount(t, index) BY <1>2
  <2>2. \E out : Fit(PaddingAccount(t, index), t, out) BY PaddingFits
  <2>3. QED BY <2>1, <2>2
<1>3. QED BY <1>1, <1>2 DEF UserOf

LEMMA FirstFits ==
  ASSUME TypeOK, Delivers, NEW t \in Tiers, NEW user \in MembersOf(t), Regular(user)
  PROVE  Tier(Cardinality(Present(user, Columns(model)))) = t
<1>1. user \in delivered /\ Tier(Count(user)) = t BY DEF MembersOf
<1>2. Sound(user) /\ \E u \in Tiers : Count(user) <= u BY <1>1 DEF Delivers
<1>3. QED BY <1>1, <1>2, RealFits

LEMMA AssignedViews ==
  ASSUME TypeOK, NEW user, NEW t, NEW out, Fit(user, t, out)
  PROVE  /\ Assigned(user, t, Columns(model)).id = user.id
         /\ Assigned(user, t, Columns(model)).slots = out
         /\ Assigned(user, t, Columns(model)).update = Dense(user)
<1>1. Padded(Ascending(Present(user, Columns(model))), t) = out /\ Dense(user) \in Totals
  BY DEF Fit, Shaped
<1>2. PICK D : D = Dense(user) OBVIOUS
<1>3. [s \in Slots |-> [c \in Columns(model) |-> D[s][c]]] = D BY <1>1, <1>2 DEF Totals
<1>4. QED BY <1>1, <1>2, <1>3 DEF Assigned

LEMMA OpsView ==
  ASSUME TypeOK, NEW wit, NEW U \in Nat, DOMAIN wit.users = 1 .. U, NEW t,
         Target(wit, Columns(model)) = t
  PROVE  /\ DOMAIN CircuitWitness(wit) = 1 .. U /\ Len(CircuitWitness(wit)) = U
         /\ \A i \in 1 .. U : \A out :
              Fit(wit.users[i], t, out) => Views(CircuitWitness(wit)[i], wit.users[i], out)
<1>1. PICK as : as = AssignedUsers(wit, Columns(model)) OBVIOUS
<1>2. /\ as = [i \in 1 .. U |-> Assigned(wit.users[i], t, Columns(model))]
      /\ DOMAIN as = 1 .. U /\ Len(as) = U
  BY <1>1 DEF AssignedUsers
<1>3. CASE model = "T1"
  <2> DEFINE held(i, s) == IF s \in Present(wit.users[i], {"equity", "debt"})
                             THEN Dense(wit.users[i])[s] ELSE NoAmounts
  <2>1. Columns(model) = {"equity", "debt"} BY <1>3, ColumnNames
  <2>2. PICK ops : ops = CircuitWitness(wit) OBVIOUS
  <2>3. ops = T1CircuitWitness(wit) BY <1>3, <2>2 DEF CircuitWitness
  <2>4. ops = [i \in DOMAIN as |->
                [as[i] EXCEPT !.told = [j \in DOMAIN as[i].slots |-> held(i, as[i].slots[j])]]]
    BY <1>1, <2>1, <2>3 DEF T1CircuitWitness
  <2>5. DOMAIN ops = 1 .. U /\ Len(ops) = U BY <1>2, <2>4
  <2>6. ASSUME NEW i \in 1 .. U, NEW out, Fit(wit.users[i], t, out)
        PROVE  Views(ops[i], wit.users[i], out)
    <3>1. PICK a, u : a = as[i] /\ u = wit.users[i] OBVIOUS
    <3>2. a = Assigned(u, t, Columns(model)) BY <1>2, <3>1
    <3>3. a.id = u.id /\ a.slots = out /\ a.update = Dense(u)
      BY <2>6, <3>1, <3>2, AssignedViews
    <3>4. ops[i] = [a EXCEPT !.told = [j \in DOMAIN out |-> held(i, out[j])]]
      BY <1>2, <2>4, <3>1, <3>3
    <3>5. DOMAIN out = 1 .. t /\ Dense(u) \in Totals /\ out \in Seq(Slots)
      BY <2>6, <3>1 DEF Fit, Shaped
    <3>6. \A j \in DOMAIN out : out[j] \in Slots
      <4>1. out \in Seq(Slots) BY <3>5
      <4>2. QED BY <4>1
    <3>7. \A j \in DOMAIN out : held(i, out[j]) = Dense(u)[out[j]]
      BY <2>1, <3>1, <3>5, <3>6, NotPresent
    <3> HIDE DEF held
    <3>8. [j \in DOMAIN out |-> held(i, out[j])] = HeldAlong(u, out)
      BY <3>7 DEF HeldAlong
    <3>9. ops[i] = [a EXCEPT !.told = HeldAlong(u, out)] BY <3>4, <3>8
    <3>10. ops[i].id = a.id /\ ops[i].slots = a.slots /\ ops[i].update = a.update
           /\ ops[i].told = HeldAlong(u, out)
      BY <3>2, <3>9 DEF Assigned
    <3>11. QED BY <3>1, <3>3, <3>10 DEF Views
  <2>7. QED BY <2>2, <2>5, <2>6
<1>4. CASE model # "T1"
  <2>1. CircuitWitness(wit) = as
    BY <1>1, <1>4, ColumnNames
       DEF CircuitWitness, T2CircuitWitness, T3CircuitWitness, T4CircuitWitness, TypeOK, Models
  <2>2. ASSUME NEW i \in 1 .. U, NEW out, Fit(wit.users[i], t, out)
        PROVE  Views(as[i], wit.users[i], out)
    <3>1. PICK a, u : a = as[i] /\ u = wit.users[i] OBVIOUS
    <3>2. a = Assigned(u, t, Columns(model)) BY <1>2, <3>1
    <3>3. a.id = u.id /\ a.slots = out /\ a.update = Dense(u)
      BY <2>2, <3>1, <3>2, AssignedViews
    <3>4. QED BY <1>4, <3>1, <3>3 DEF Views
  <2>3. QED BY <1>2, <2>1, <2>2
<1>5. QED BY <1>3, <1>4

(* The totals *)

NatTotals == [Slots -> [Columns(model) -> Nat]]

LEMMA ListedIsNat ==
  ASSUME TypeOK, NEW assets, assets \in Seq(Entry), NEW s, NEW c \in Columns(model)
  PROVE  Listed(assets, s, c) \in Nat
<1>1. PICK n : n = Len(assets) OBVIOUS
<1>2. n \in Nat /\ DOMAIN assets = 1 .. n BY <1>1
<1>3. PICK f : f = [j \in DOMAIN assets |-> assets[j].amounts[c]] OBVIOUS
<1> DEFINE S == {j \in DOMAIN assets : assets[j].slot = s}
<1>4. IsFiniteSet(S)
  <2>1. IsFiniteSet(1 .. n) BY <1>2, FS_Interval
  <2>2. S \subseteq 1 .. n BY <1>2
  <2> HIDE DEF S
  <2>3. QED BY <2>1, <2>2, FS_Subset
<1>5. \A j \in S : f[j] \in Nat
  <2>1. TAKE j \in S
  <2>2. assets[j] \in Entry OBVIOUS
  <2>3. assets[j].amounts[c] \in Uint64 BY <2>2 DEF Entry
  <2>4. QED BY <1>3, <2>3, Uint64IsNat
<1>6. Listed(assets, s, c) = SumFunctionOnSet(f, S) BY <1>3 DEF Listed
<1> HIDE DEF S
<1>7. QED BY <1>4, <1>5, <1>6, SumNat

LEMMA UserAssets ==
  ASSUME TypeOK, Delivers, NEW t \in Tiers, NEW user, UserOf(user, t)
  PROVE  user.assets \in Seq(Entry)
<1>1. CASE user \in MembersOf(t) BY <1>1 DEF MembersOf, Delivers, Sound, Summing
<1>2. CASE \E index : user = PaddingAccount(t, index)
  <2>1. PICK index : user = PaddingAccount(t, index) BY <1>2
  <2>2. t \in Nat /\ t <= Capacity BY TierOfTier
  <2>3. user.assets = [j \in 1 .. t |-> [slot |-> j - 1, amounts |-> NoAmounts]]
    BY <2>1 DEF PaddingAccount
  <2>4. \A j \in 1 .. t : j - 1 \in Slots BY <2>2, RulesAssumption DEF Slots
  <2>5. user.assets \in [1 .. t -> Entry] BY <2>3, <2>4, NoAmountsIs DEF Entry
  <2>6. QED BY <2>2, <2>5
<1>3. QED BY <1>1, <1>2 DEF UserOf

\* what the host counts, user by user
CountsAlong(f, batch, cex, U) ==
  /\ f[0] = cex /\ After(batch, cex, Columns(model)) = f[U]
  /\ \A k \in 1 .. U : f[k] = Counted(f[k - 1], batch.users[k], Columns(model))

LEMMA AfterAlong ==
  ASSUME TypeOK, NEW batch, NEW U \in Nat, Len(batch.users) = U,
         \A i \in 1 .. U : batch.users[i].assets \in Seq(Entry), NEW cex \in NatTotals
  PROVE  \E f \in [0 .. U -> NatTotals] : CountsAlong(f, batch, cex, U)
<1> DEFINE V == NatTotals
           step == [k \in 1 .. U |-> [v \in V |-> Counted(v, batch.users[k], Columns(model))]]
           Body(g, k) == IF k = 0 THEN cex ELSE Counted(g[k - 1], batch.users[k], Columns(model))
           Def(g) == g = [k \in 0 .. U |-> Body(g, k)]
           b == CHOOSE g : Def(g)
<1>1. ASSUME NEW k \in 1 .. U, NEW v \in V
      PROVE  Counted(v, batch.users[k], Columns(model)) \in V
  <2>1. \A s \in Slots : \A c \in Columns(model) :
          v[s][c] \in Nat /\ Listed(batch.users[k].assets, s, c) \in Nat
    BY ListedIsNat DEF NatTotals
  <2>2. PICK L : L = [s \in Slots |-> [c \in Columns(model) |->
                       Listed(batch.users[k].assets, s, c)]]
    OBVIOUS
  <2>3. \A s \in Slots : \A c \in Columns(model) : v[s][c] + L[s][c] \in Nat BY <2>1, <2>2
  <2>4. Counted(v, batch.users[k], Columns(model))
          = [s \in Slots |-> [c \in Columns(model) |-> v[s][c] + L[s][c]]]
    BY <2>2 DEF Counted
  <2>5. QED BY <2>3, <2>4 DEF NatTotals
<1>2. step \in [1 .. U -> [V -> V]] BY <1>1
<1>3. \A k \in 1 .. U, v \in V : step[k][v] = Counted(v, batch.users[k], Columns(model)) OBVIOUS
<1>4. \A k \in 1 .. U : k - 1 \in 0 .. U /\ k \in 0 .. U /\ k # 0 OBVIOUS
<1>5. \A k \in 0 .. U : k # 0 => k \in 1 .. U OBVIOUS
<1>6. cex \in V OBVIOUS
<1> HIDE DEF V, step
<1>7. PICK f \in [0 .. U -> V] : Follows(f, cex, step, U) BY <1>2, <1>6, RecursionSolved
<1>8. f[0] = cex /\ \A k \in 1 .. U : f[k] = Counted(f[k - 1], batch.users[k], Columns(model))
  BY <1>3, <1>4, <1>7 DEF Follows
<1>9. Def(f)
  <2>1. \A k \in 0 .. U : f[k] = Body(f, k) BY <1>5, <1>8
  <2> HIDE DEF Body
  <2>2. f = [k \in 0 .. U |-> f[k]] BY <1>7
  <2>3. QED BY <2>1, <2>2
<1>10. Def(b)
  <2> HIDE DEF Def
  <2>1. QED BY <1>9
<1>11. After(batch, cex, Columns(model)) = b[U] BY DEF After
<1> HIDE DEF b
<1>12. \A k \in 0 .. U : b[k] = Body(b, k)
  <2> HIDE DEF Body
  <2>1. QED BY <1>10
<1> DEFINE G == {k \in 0 .. U : b[k] = f[k]}
<1>13. 0 \in G
  <2>1. 0 \in 0 .. U OBVIOUS
  <2>2. QED BY <1>8, <1>12, <2>1
<1>14. \A k \in 1 .. U : k - 1 \in G => k \in G BY <1>4, <1>8, <1>12
<1>15. U \in G
  <2> HIDE DEF G
  <2>1. \A k \in 0 .. U : k \in G BY <1>13, <1>14, InductionUpto
  <2>2. QED BY <2>1
<1>16. After(batch, cex, Columns(model)) = f[U] BY <1>11, <1>15
<1>17. f \in [0 .. U -> NatTotals] BY <1>7 DEF V
<1>18. CountsAlong(f, batch, cex, U) BY <1>8, <1>16 DEF CountsAlong
<1>19. QED BY <1>17, <1>18

\* what the circuit adds up, user by user
AddsAlong(f, ops, cex, U) ==
  f[0] = cex /\ \A k \in 1 .. U : f[k] = Accumulated(f[k - 1], ops[k])

LEMMA AfterUsersIs ==
  ASSUME NEW ops, NEW U \in Nat, Len(ops) = U, NEW cex, NEW V, NEW f \in [0 .. U -> V],
         AddsAlong(f, ops, cex, U)
  PROVE  AfterUsers(cex, ops) = f[U]
<1> DEFINE Body(g, k) == IF k = 0 THEN cex ELSE Accumulated(g[k - 1], ops[k])
           Def(g) == g = [k \in 0 .. U |-> Body(g, k)]
           b == CHOOSE g : Def(g)
<1>1. \A k \in 1 .. U : k - 1 \in 0 .. U /\ k \in 0 .. U /\ k # 0 OBVIOUS
<1>2. \A k \in 0 .. U : k # 0 => k \in 1 .. U OBVIOUS
<1>3. f[0] = cex /\ \A k \in 1 .. U : f[k] = Accumulated(f[k - 1], ops[k]) BY DEF AddsAlong
<1>4. Def(f)
  <2>1. \A k \in 0 .. U : f[k] = Body(f, k) BY <1>2, <1>3
  <2> HIDE DEF Body
  <2>2. f = [k \in 0 .. U |-> f[k]] OBVIOUS
  <2>3. QED BY <2>1, <2>2
<1>5. Def(b)
  <2> HIDE DEF Def
  <2>1. QED BY <1>4
<1>6. AfterUsers(cex, ops) = b[U] BY DEF AfterUsers
<1> HIDE DEF b
<1>7. \A k \in 0 .. U : b[k] = Body(b, k)
  <2> HIDE DEF Body
  <2>1. QED BY <1>5
<1> DEFINE G == {k \in 0 .. U : b[k] = f[k]}
<1>8. 0 \in G
  <2>1. 0 \in 0 .. U OBVIOUS
  <2>2. QED BY <1>3, <1>7, <2>1
<1>9. \A k \in 1 .. U : k - 1 \in G => k \in G BY <1>1, <1>3, <1>7
<1>10. U \in G
  <2> HIDE DEF G
  <2>1. \A k \in 0 .. U : k \in G BY <1>8, <1>9, InductionUpto
  <2>2. QED BY <2>1
<1>11. QED BY <1>6, <1>10

\* a user adds the same to both
AddAlike(batch, ops, U) ==
  \A k \in 1 .. U : /\ batch.users[k].assets \in Seq(Entry)
                     /\ \A s \in Slots : \A c \in Columns(model) :
                          Listed(batch.users[k].assets, s, c) = ops[k].update[s][c]

LEMMA SmallRemainder ==
  ASSUME NEW x \in Nat, NEW m \in Nat, x < m
  PROVE  x % m = x
OBVIOUS

(* As long as the host's totals fit 64 bits, the circuit's are the same.   *)
LEMMA TotalsAgree ==
  ASSUME TypeOK, NEW batch, NEW U \in Nat, NEW f \in [0 .. U -> NatTotals], NEW cex,
         CountsAlong(f, batch, cex, U), f[U] \in Totals, NEW ops, Len(ops) = U,
         AddAlike(batch, ops, U)
  PROVE  AfterUsers(cex, ops) = f[U]
<1>1. /\ f[0] = cex
      /\ \A k \in 1 .. U : f[k] = Counted(f[k - 1], batch.users[k], Columns(model))
  BY DEF CountsAlong
<1>2. ASSUME NEW k \in 1 .. U, NEW s \in Slots, NEW c \in Columns(model)
      PROVE  /\ f[k][s][c] = f[k - 1][s][c] + ops[k].update[s][c]
             /\ ops[k].update[s][c] \in Nat
             /\ f[k][s][c] \in Nat /\ f[k - 1][s][c] \in Nat
  <2>1. f[k] \in NatTotals /\ f[k - 1] \in NatTotals OBVIOUS
  <2>2. PICK v, u : v = f[k - 1] /\ u = batch.users[k] OBVIOUS
  <2>3. f[k] = Counted(v, u, Columns(model)) BY <1>1, <2>2
  <2>4. Counted(v, u, Columns(model))[s][c] = v[s][c] + Listed(u.assets, s, c) BY DEF Counted
  <2>5. u.assets \in Seq(Entry) /\ Listed(u.assets, s, c) = ops[k].update[s][c]
    BY <2>2 DEF AddAlike
  <2>6. Listed(u.assets, s, c) \in Nat BY <2>5, ListedIsNat
  <2>7. QED BY <2>1, <2>2, <2>3, <2>4, <2>5, <2>6 DEF NatTotals
<1> DEFINE G == {k \in 0 .. U : \A i \in 0 .. k : \A s \in Slots : \A c \in Columns(model) :
                                  f[i][s][c] <= f[k][s][c]}
<1>3. 0 \in G
  <2>1. f[0] \in NatTotals OBVIOUS
  <2>2. \A i \in 0 .. 0 : i = 0 OBVIOUS
  <2>3. \A s \in Slots : \A c \in Columns(model) : f[0][s][c] \in Nat BY <2>1 DEF NatTotals
  <2>4. QED BY <2>2, <2>3
<1>4. ASSUME NEW k \in 1 .. U, k - 1 \in G PROVE k \in G
  <2>1. ASSUME NEW i \in 0 .. k, NEW s \in Slots, NEW c \in Columns(model)
        PROVE  f[i][s][c] <= f[k][s][c]
    <3>1. /\ f[k][s][c] = f[k - 1][s][c] + ops[k].update[s][c]
          /\ ops[k].update[s][c] \in Nat /\ f[k][s][c] \in Nat /\ f[k - 1][s][c] \in Nat
      BY <1>2
    <3>2. CASE i = k BY <3>1, <3>2
    <3>3. CASE i # k
      <4>1. i \in 0 .. (k - 1) BY <3>3
      <4>2. f[i][s][c] <= f[k - 1][s][c] BY <1>4, <4>1
      <4>3. f[i] \in NatTotals OBVIOUS
      <4>4. f[i][s][c] \in Nat BY <4>3 DEF NatTotals
      <4>5. PICK x, y, z, d : /\ x = f[i][s][c] /\ y = f[k - 1][s][c] /\ z = f[k][s][c]
                              /\ d = ops[k].update[s][c]
        OBVIOUS
      <4>6. /\ x \in Nat /\ y \in Nat /\ d \in Nat /\ z = y + d /\ x <= y
        BY <3>1, <4>2, <4>4, <4>5
      <4>7. x <= z BY <4>6
      <4>8. QED BY <4>5, <4>7
    <3>4. QED BY <3>2, <3>3
  <2>2. QED BY <2>1
<1>5. U \in G
  <2> HIDE DEF G
  <2>1. \A k \in 0 .. U : k \in G BY <1>3, <1>4, InductionUpto
  <2>2. QED BY <2>1
<1>6. ASSUME NEW k \in 1 .. U, NEW s \in Slots, NEW c \in Columns(model)
      PROVE  (f[k - 1][s][c] + ops[k].update[s][c]) % Modulus = f[k][s][c]
  <2>1. f[k][s][c] <= f[U][s][c] BY <1>5
  <2>2. f[U][s][c] \in Uint64 BY DEF Totals
  <2>3. MaxValue \in Nat /\ Modulus \in Nat /\ Modulus > MaxValue BY RulesAssumption
  <2>4. PICK x : x = f[k][s][c] OBVIOUS
  <2>5. x \in Nat /\ x < Modulus BY <1>2, <2>1, <2>2, <2>3, <2>4 DEF Uint64
  <2>6. x % Modulus = x BY <2>3, <2>5, SmallRemainder
  <2>7. QED BY <1>2, <2>4, <2>6
<1>7. ASSUME NEW k \in 1 .. U PROVE f[k] = Accumulated(f[k - 1], ops[k])
  <2>1. f[k] \in NatTotals OBVIOUS
  <2>2. PICK v, w, o : v = f[k - 1] /\ w = f[k] /\ o = ops[k].update OBVIOUS
  <2>3. \A s \in Slots : \A c \in Columns(model) : (v[s][c] + o[s][c]) % Modulus = w[s][c]
    BY <1>6, <2>2
  <2>4. [s \in Slots |-> [c \in Columns(model) |-> (v[s][c] + o[s][c]) % Modulus]]
          = [s \in Slots |-> [c \in Columns(model) |-> w[s][c]]]
    BY <2>3
  <2>5. w = [s \in Slots |-> [c \in Columns(model) |-> w[s][c]]] BY <2>1, <2>2 DEF NatTotals
  <2>6. QED BY <2>2, <2>4, <2>5 DEF Accumulated
<1>8. AddsAlong(f, ops, cex, U) BY <1>1, <1>7 DEF AddsAlong
<1> HIDE DEF G
<1>9. PICK V : f \in [0 .. U -> V] OBVIOUS
<1>10. QED BY <1>8, <1>9, AfterUsersIs

-----------------------------------------------------------------------------
(* A batch as it is built. *)

LEMMA BuiltIs ==
  ASSUME TypeOK, NEW batch, NEW cex, NEW wit, wit = BuildBatch(batch, cex)
  PROVE  /\ wit.tier = batch.tier /\ wit.users = batch.users /\ wit.cex = cex
         /\ wit.after = After(batch, cex, Columns(model))
         /\ wit.leaves = [i \in DOMAIN batch.users |-> HostLeaf(batch.users[i])]
         /\ wit.commitments = <<HostTotals(cex), HostTotals(wit.after)>>
<1>1. PICK after : after = After(batch, cex, Columns(model)) OBVIOUS
<1>2. CASE model = "T1"
  <2>1. wit = T1BuildBatch(batch, cex) BY <1>2 DEF BuildBatch
  <2>2. after = After(batch, cex, {"equity", "debt"}) BY <1>1, <1>2, ColumnNames
  <2>3. wit = Sealed(batch, cex, after,
                [i \in DOMAIN batch.users |-> T1AccountLeafHash(batch.users[i])],
                <<T1CexAssetsCommitment(cex), T1CexAssetsCommitment(after)>>)
    BY <2>1, <2>2 DEF T1BuildBatch
  <2>4. \A u : HostLeaf(u) = T1AccountLeafHash(u) BY <1>2 DEF HostLeaf
  <2>5. \A c : HostTotals(c) = T1CexAssetsCommitment(c) BY <1>2 DEF HostTotals
  <2>6. QED BY <1>1, <2>3, <2>4, <2>5 DEF Sealed
<1>3. CASE model = "T2"
  <2>1. wit = T2BuildBatch(batch, cex) BY <1>3 DEF BuildBatch
  <2>2. after = After(batch, cex, {"equity", "debt", "collateral"}) BY <1>1, <1>3, ColumnNames
  <2>3. wit = Sealed(batch, cex, after,
                [i \in DOMAIN batch.users |-> T2AccountLeafHash(batch.users[i])],
                <<T2CexAssetsCommitment(cex), T2CexAssetsCommitment(after)>>)
    BY <2>1, <2>2 DEF T2BuildBatch
  <2>4. \A u : HostLeaf(u) = T2AccountLeafHash(u) BY <1>3 DEF HostLeaf
  <2>5. \A c : HostTotals(c) = T2CexAssetsCommitment(c) BY <1>3 DEF HostTotals
  <2>6. QED BY <1>1, <2>3, <2>4, <2>5 DEF Sealed
<1>4. CASE model = "T3"
  <2>1. wit = T3BuildBatch(batch, cex) BY <1>4 DEF BuildBatch
  <2>2. after = After(batch, cex, {"equity", "debt", "collateral"}) BY <1>1, <1>4, ColumnNames
  <2>3. wit = Sealed(batch, cex, after,
                [i \in DOMAIN batch.users |-> T3AccountLeafHash(batch.users[i])],
                <<T3CexAssetsCommitment(cex), T3CexAssetsCommitment(after)>>)
    BY <2>1, <2>2 DEF T3BuildBatch
  <2>4. \A u : HostLeaf(u) = T3AccountLeafHash(u) BY <1>4 DEF HostLeaf
  <2>5. \A c : HostTotals(c) = T3CexAssetsCommitment(c) BY <1>4 DEF HostTotals
  <2>6. QED BY <1>1, <2>3, <2>4, <2>5 DEF Sealed
<1>5. CASE model = "T4"
  <2>1. wit = T4BuildBatch(batch, cex) BY <1>5 DEF BuildBatch
  <2>2. after = After(batch, cex, {"equity", "debt", "loan", "margin", "portfolio_margin"})
    BY <1>1, <1>5, ColumnNames
  <2>3. wit = Sealed(batch, cex, after,
                [i \in DOMAIN batch.users |-> T4AccountLeafHash(batch.users[i])],
                <<T4CexAssetsCommitment(cex), T4CexAssetsCommitment(after)>>)
    BY <2>1, <2>2 DEF T4BuildBatch
  <2>4. \A u : HostLeaf(u) = T4AccountLeafHash(u) BY <1>5 DEF HostLeaf
  <2>5. \A c : HostTotals(c) = T4CexAssetsCommitment(c) BY <1>5 DEF HostTotals
  <2>6. QED BY <1>1, <2>3, <2>4, <2>5 DEF Sealed
<1>6. QED BY <1>2, <1>3, <1>4, <1>5 DEF TypeOK, Models

LEMMA BatchedAssets ==
  ASSUME TypeOK, Delivers, NEW batch, Batched(batch)
  PROVE  \A i \in 1 .. UsersPerBatch : batch.users[i].assets \in Seq(Entry)
<1>1. batch.tier \in Tiers /\ \A i \in 1 .. UsersPerBatch : UserOf(batch.users[i], batch.tier)
  BY DEF Batched
<1>2. QED BY <1>1, UserAssets

LEMMA AfterIsTotals ==
  ASSUME TypeOK, Delivers, NEW batch, Batched(batch), NEW cex \in Totals
  PROVE  Fits(After(batch, cex, Columns(model))) => After(batch, cex, Columns(model)) \in Totals
<1>1. PICK U \in Nat : U = UsersPerBatch BY BatchAssumption
<1>2. Len(batch.users) = U /\ \A i \in 1 .. U : batch.users[i].assets \in Seq(Entry)
  BY <1>1, BatchedAssets DEF Batched
<1>3. cex \in NatTotals BY Uint64IsNat DEF Totals, NatTotals
<1>4. PICK f \in [0 .. U -> NatTotals] : CountsAlong(f, batch, cex, U)
  BY <1>2, <1>3, AfterAlong
<1>5. PICK a : a = f[U] OBVIOUS
<1>6. a \in NatTotals BY <1>5
<1>7. After(batch, cex, Columns(model)) = a BY <1>4, <1>5 DEF CountsAlong
<1>8. ASSUME Fits(a) PROVE a \in Totals
  <2>1. \A s \in Slots : \A c \in Columns(model) : a[s][c] \in Nat /\ a[s][c] <= MaxValue
    BY <1>6, <1>8 DEF Fits, NatTotals
  <2>2. MaxValue \in Nat BY RulesAssumption
  <2>3. \A s \in Slots : \A c \in Columns(model) : a[s][c] \in Uint64 BY <2>1, <2>2 DEF Uint64
  <2>4. QED BY <1>6, <2>3 DEF NatTotals, Totals
<1>9. QED BY <1>7, <1>8

(* The circuit takes a batch of regular users whose totals fit 64 bits.    *)
LEMMA BatchIsProvable ==
  ASSUME TypeOK, Delivers, model # "T1" => RatiosCapped(model, static),
         NEW batch, Batched(batch), NEW cex \in Totals,
         NEW wit, wit = BuildBatch(batch, cex), wit.after \in Totals,
         \A i \in DOMAIN wit.users : Regular(wit.users[i])
  PROVE  Provable(wit)
<1>1. PICK U \in Nat : U = UsersPerBatch /\ U > 0 BY BatchAssumption
<1>2. PICK t, users, after : t = batch.tier /\ users = batch.users /\ after = wit.after OBVIOUS
<1>3. /\ t \in Tiers /\ Len(users) = U /\ DOMAIN users = 1 .. U /\ users[1] \in MembersOf(t)
      /\ \A i \in 1 .. U : UserOf(users[i], t)
  BY <1>1, <1>2 DEF Batched
<1>4. /\ wit.tier = t /\ wit.users = users /\ wit.cex = cex
      /\ after = After(batch, cex, Columns(model))
      /\ wit.leaves = [i \in 1 .. U |-> HostLeaf(users[i])]
      /\ wit.commitments = <<HostTotals(cex), HostTotals(after)>>
  BY <1>2, <1>3, BuiltIs
<1>5. \A i \in 1 .. U : Regular(users[i]) BY <1>3, <1>4
<1>6. Target(wit, Columns(model)) = t
  <2>1. 1 \in 1 .. U BY <1>1
  <2>2. Tier(Cardinality(Present(users[1], Columns(model)))) = t
    BY <1>3, <1>5, <2>1, FirstFits
  <2>3. QED BY <1>4, <2>2 DEF Target
<1>7. PICK ops : ops = CircuitWitness(wit) OBVIOUS
<1>8. /\ DOMAIN ops = 1 .. U /\ Len(ops) = U
      /\ \A i \in 1 .. U : \A out : Fit(users[i], t, out) => Views(ops[i], users[i], out)
  BY <1>3, <1>4, <1>6, <1>7, OpsView
<1>9. ASSUME NEW i \in 1 .. U
      PROVE  \E out : Fit(users[i], t, out) /\ Views(ops[i], users[i], out)
  <2>1. \E out : Fit(users[i], t, out) BY <1>3, <1>5, UserFits
  <2>2. QED BY <1>8, <2>1
<1>10. ASSUME NEW i \in 1 .. U
       PROVE  /\ Len(ops[i].slots) = t /\ User(model, ops[i], static)
              /\ CircuitLeaf(ops[i]) = wit.leaves[i]
              /\ \A columns : columns \subseteq Columns(model) => Spans(ops[i], columns)
  <2>1. PICK out, user, op : /\ user = users[i] /\ op = ops[i]
                             /\ Fit(user, t, out) /\ Views(op, user, out)
    BY <1>9
  <2>2. Len(op.slots) = t /\ User(model, op, static) BY <1>3, <2>1, UserMeets
  <2>3. CircuitLeaf(op) = HostLeaf(user) BY <1>3, <2>1, LeafMeets
  <2>4. \A columns : columns \subseteq Columns(model) => Spans(op, columns)
    BY <1>3, <2>1, UserSpans
  <2>5. QED BY <1>4, <2>1, <2>2, <2>3, <2>4
<1>11. InRange(model, cex) /\ InRange(model, after) BY <1>2 DEF InRange, Totals
<1>12. PricesInRange(static) BY DEF TypeOK, PricesInRange
<1>13. Starts(model, cex, static)
  BY <1>11, <1>12 DEF Starts, T1Starts, T2Starts, T3Starts, T4Starts, TypeOK, Models
<1>14. AfterUsers(cex, ops) = after
  <2>1. \A i \in 1 .. U : users[i].assets \in Seq(Entry) BY <1>1, <1>2, BatchedAssets
  <2>2. cex \in NatTotals BY Uint64IsNat DEF Totals, NatTotals
  <2>3. PICK f \in [0 .. U -> NatTotals] : CountsAlong(f, batch, cex, U)
    BY <1>2, <1>3, <2>1, <2>2, AfterAlong
  <2>4. f[U] = after BY <1>4, <2>3 DEF CountsAlong
  <2>5. f[U] \in Totals BY <1>2, <2>4
  <2>6. AddAlike(batch, ops, U)
    <3>1. ASSUME NEW k \in 1 .. U, NEW s \in Slots, NEW c \in Columns(model)
          PROVE  Listed(users[k].assets, s, c) = ops[k].update[s][c]
      <4>1. PICK out : Fit(users[k], t, out) /\ Views(ops[k], users[k], out) BY <1>9
      <4>2. Listed(users[k].assets, s, c) = Dense(users[k])[s][c] BY <4>1 DEF Fit, Shaped
      <4>3. ops[k].update = Dense(users[k]) BY <4>1 DEF Views
      <4>4. QED BY <4>2, <4>3
    <3>2. QED BY <1>2, <2>1, <3>1 DEF AddAlike
  <2>7. AfterUsers(cex, ops) = f[U] BY <1>8, <2>3, <2>5, <2>6, TotalsAgree
  <2>8. QED BY <2>4, <2>7
<1>15. Ends(model, ops, after)
  <2>1. ASSUME NEW i \in 1 .. U, NEW columns, columns \subseteq Columns(model)
        PROVE  Spans(ops[i], columns)
    BY <1>10, <2>1
  <2>2. CASE model = "T1"
    <3>1. {"equity"} \subseteq Columns(model) /\ {"debt"} \subseteq Columns(model)
      BY <2>2, ColumnNames
    <3>2. \A i \in 1 .. U : Spans(ops[i], {"equity"}) /\ Spans(ops[i], {"debt"})
      BY <2>1, <3>1
    <3>3. T1Ends(ops, after) BY <1>8, <1>11, <2>2, <3>2 DEF T1Ends
    <3>4. QED BY <2>2, <3>3 DEF Ends
  <2>3. CASE model = "T2"
    <3>1. \A i \in 1 .. U : Spans(ops[i], {"equity", "debt", "collateral"})
      BY <2>1, <2>3, ColumnNames
    <3>2. T2Ends(ops, after) BY <1>8, <1>11, <2>3, <3>1 DEF T2Ends
    <3>3. QED BY <2>3, <3>2 DEF Ends
  <2>4. CASE model = "T3"
    <3>1. \A i \in 1 .. U : Spans(ops[i], {"equity", "debt", "collateral"})
      BY <2>1, <2>4, ColumnNames
    <3>2. T3Ends(ops, after) BY <1>8, <1>11, <2>4, <3>1 DEF T3Ends
    <3>3. QED BY <2>4, <3>2 DEF Ends
  <2>5. CASE model = "T4"
    <3>1. \A i \in 1 .. U :
            Spans(ops[i], {"equity", "debt", "loan", "margin", "portfolio_margin"})
      BY <2>1, <2>5, ColumnNames
    <3>2. T4Ends(ops, after) BY <1>8, <1>11, <2>5, <3>1 DEF T4Ends
    <3>3. QED BY <2>5, <3>2 DEF Ends
  <2>6. QED BY <2>2, <2>3, <2>4, <2>5 DEF TypeOK, Models
<1>16. HostTotals(cex) = FillCexAssetCommitment(cex)
       /\ HostTotals(after) = FillCexAssetCommitment(after)
  <2>1. after \in Totals BY <1>2
  <2>2. QED BY <2>1, TotalsMeet
<1>17. QED BY <1>4, <1>7, <1>8, <1>10, <1>13, <1>14, <1>15, <1>16 DEF Provable

-----------------------------------------------------------------------------
(* The run. *)

BuiltSet ==
  {wit \in {BuildBatch(Batches[k], cex) : k \in DOMAIN Batches, cex \in Totals} :
     wit.after \in Totals}

RunState == [cex : Totals, failed : BOOLEAN, built : Seq(BuiltSet)]

LEMMA RunGoesOn ==
  ASSUME TypeOK, Delivers, NEW k \in DOMAIN Batches, NEW run \in RunState
  PROVE  WithBatch(run, Batches[k]) \in RunState
<1>1. PICK batch : batch = Batches[k] OBVIOUS
<1>2. Batched(batch) BY <1>1, BatchesAre DEF Delivers
<1>3. run.cex \in Totals /\ run.failed \in BOOLEAN /\ run.built \in Seq(BuiltSet)
  BY DEF RunState
<1>4. PICK cex, wit : cex = run.cex /\ wit = BuildBatch(batch, cex) OBVIOUS
<1>5. cex \in Totals /\ wit.after = After(batch, cex, Columns(model)) BY <1>3, <1>4, BuiltIs
<1>6. CASE run.failed \/ ~Fits(wit.after)
  <2>1. WithBatch(run, batch) = [run EXCEPT !.failed = TRUE] BY <1>4, <1>6 DEF WithBatch
  <2>2. QED BY <1>1, <2>1 DEF RunState
<1>7. CASE ~(run.failed \/ ~Fits(wit.after))
  <2>1. wit.after \in Totals BY <1>2, <1>5, <1>7, AfterIsTotals
  <2>2. wit \in BuiltSet BY <1>1, <1>4, <1>5, <2>1 DEF BuiltSet
  <2>3. PICK list : list = run.built OBVIOUS
  <2>4. Append(list, wit) \in Seq(BuiltSet) BY <1>3, <2>2, <2>3
  <2>5. WithBatch(run, batch) = [run EXCEPT !.cex = wit.after, !.built = Append(list, wit)]
    BY <1>4, <1>7, <2>3 DEF WithBatch
  <2>6. QED BY <1>1, <2>1, <2>4, <2>5 DEF RunState
<1>8. QED BY <1>6, <1>7

LEMMA WitnessesAre ==
  ASSUME TypeOK, Delivers
  PROVE  Witnesses \in Seq(BuiltSet)
<1>1. PICK N \in Nat : N = Len(Batches) /\ DOMAIN Batches = 1 .. N BY BatchesAre DEF Delivers
<1> DEFINE V == RunState
           base == [cex |-> Zeroed, failed |-> FALSE, built |-> <<>>]
           step == [k \in 1 .. N |-> [v \in V |-> WithBatch(v, Batches[k])]]
           Body(g, k) == IF k = 0 THEN base ELSE WithBatch(g[k - 1], Batches[k])
           Def(g) == g = [k \in 0 .. N |-> Body(g, k)]
           b == CHOOSE g : Def(g)
<1>2. base \in V
  <2>1. Zeroed \in Totals BY NoAmountsIs DEF Zeroed, Totals
  <2>2. <<>> \in Seq(BuiltSet) OBVIOUS
  <2>3. QED BY <2>1, <2>2 DEF RunState
<1>3. \A k \in 1 .. N, v \in V : WithBatch(v, Batches[k]) \in V BY <1>1, RunGoesOn
<1>4. step \in [1 .. N -> [V -> V]] BY <1>3
<1>5. \A k \in 1 .. N, v \in V : step[k][v] = WithBatch(v, Batches[k]) OBVIOUS
<1>6. \A k \in 1 .. N : k - 1 \in 0 .. N /\ k \in 0 .. N /\ k # 0 OBVIOUS
<1>7. \A k \in 0 .. N : k # 0 => k \in 1 .. N OBVIOUS
<1> HIDE DEF V, base, step
<1>8. PICK f \in [0 .. N -> V] : Follows(f, base, step, N) BY <1>2, <1>4, RecursionSolved
<1>9. Def(f)
  <2>1. \A k \in 0 .. N : f[k] = Body(f, k)
    <3>1. ASSUME NEW k \in 1 .. N PROVE f[k] = WithBatch(f[k - 1], Batches[k])
      BY <1>5, <1>6, <1>8 DEF Follows
    <3>2. f[0] = base BY <1>8 DEF Follows
    <3>3. QED BY <1>7, <3>1, <3>2
  <2> HIDE DEF Body
  <2>2. f = [k \in 0 .. N |-> f[k]] BY <1>8
  <2>3. QED BY <2>1, <2>2
<1>10. Def(b)
  <2> HIDE DEF Def
  <2>1. QED BY <1>9
<1>11. Witnesses = b[N].built BY <1>1 DEF Witnesses, base
<1> HIDE DEF b
<1>12. \A k \in 0 .. N : b[k] = Body(b, k)
  <2> HIDE DEF Body
  <2>1. QED BY <1>10
<1> DEFINE G == {k \in 0 .. N : b[k] \in V}
<1>13. 0 \in G
  <2>1. 0 \in 0 .. N OBVIOUS
  <2>2. QED BY <1>2, <1>12, <2>1
<1>14. \A k \in 1 .. N : k - 1 \in G => k \in G BY <1>3, <1>6, <1>12
<1>15. N \in G
  <2> HIDE DEF G
  <2>1. \A k \in 0 .. N : k \in G BY <1>13, <1>14, InductionUpto
  <2>2. QED BY <2>1
<1>16. b[N] \in RunState BY <1>15 DEF V
<1>17. QED BY <1>11, <1>16 DEF RunState

LEMMA EachIsProvable ==
  ASSUME TypeOK, Delivers, model # "T1" => RatiosCapped(model, static)
  PROVE  \A k \in DOMAIN Witnesses :
           (\A i \in DOMAIN Witnesses[k].users : Regular(Witnesses[k].users[i]))
             => Provable(Witnesses[k])
<1>1. PICK all : all = Witnesses OBVIOUS
<1>2. all \in Seq(BuiltSet) BY <1>1, WitnessesAre
<1>3. ASSUME NEW k \in DOMAIN all, \A i \in DOMAIN all[k].users : Regular(all[k].users[i])
      PROVE  Provable(all[k])
  <2>1. all[k] \in BuiltSet BY <1>2
  <2>2. PICK p \in DOMAIN Batches, cex \in Totals : all[k] = BuildBatch(Batches[p], cex)
    BY <2>1 DEF BuiltSet
  <2>3. PICK wit, batch : wit = all[k] /\ batch = Batches[p] OBVIOUS
  <2>4. Batched(batch) BY <2>3, BatchesAre DEF Delivers
  <2>5. wit = BuildBatch(batch, cex) /\ wit.after \in Totals BY <2>1, <2>2, <2>3 DEF BuiltSet
  <2>6. \A i \in DOMAIN wit.users : Regular(wit.users[i]) BY <1>3, <2>3
  <2>7. Provable(wit) BY <2>4, <2>5, <2>6, BatchIsProvable
  <2>8. QED BY <2>3, <2>7
<1>4. QED BY <1>1, <1>3

-----------------------------------------------------------------------------
(* The accounts delivered. *)

LEMMA SumGrows ==
  ASSUME NEW n \in Nat, NEW f, NEW g, DOMAIN f = 1 .. n, DOMAIN g = 1 .. (n + 1),
         Kept(f, g, n), g[n + 1] \in Nat
  PROVE  SumFunction(g) = SumFunction(f) + g[n + 1]
<1>1. PICK k, R : k = n + 1 /\ R = 1 .. n OBVIOUS
<1>2. R \in SUBSET (1 .. n) /\ k \notin R /\ 1 .. (n + 1) = R \cup {k} BY <1>1
<1>3. SumFunctionOnSet(g, R \cup {k}) = SumFunctionOnSet(f, R) + g[k]
  BY <1>1, <1>2, OneMoreRow
<1>4. QED BY <1>1, <1>2, <1>3 DEF SumFunction

LEMMA NothingSums ==
  ASSUME NEW group, group.assets = <<>>, group.equity = 0, group.debt = 0, group.collateral = 0
  PROVE  Summing(group)
<1>1. <<>> \in Seq(Entry) /\ DOMAIN <<>> = {} OBVIOUS
<1>2. ASSUME NEW f, DOMAIN f = {} PROVE SumFunction(f) = 0 BY <1>2, SumEmpty DEF SumFunction
<1>3. \A c : DOMAIN AssetWorth(group.assets, c) = {} BY <1>1 DEF AssetWorth
<1>4. DOMAIN AssetCredits(group.assets) = {} BY <1>1 DEF AssetCredits
<1>5. \A c : SumFunction(AssetWorth(group.assets, c)) = 0 BY <1>2, <1>3
<1>6. SumFunction(AssetCredits(group.assets)) = 0 BY <1>2, <1>4
<1>7. QED BY <1>1, <1>5, <1>6 DEF Summing

\* one more asset: a sum over the assets grows by what it is worth
LEMMA AssetsGrow ==
  ASSUME TypeOK, NEW a \in Seq(Entry), NEW e \in Entry
  PROVE  /\ Append(a, e) \in Seq(Entry)
         /\ \A c \in Columns(model) :
              SumFunction(AssetWorth(Append(a, e), c))
                = SumFunction(AssetWorth(a, c)) + e.amounts[c] * static.price[e.slot]
         /\ SumFunction(AssetCredits(Append(a, e)))
              = SumFunction(AssetCredits(a)) + CreditOf(AsRow(e))
<1>1. PICK b : b = Append(a, e) OBVIOUS
<1>2. PICK n : n = Len(a) OBVIOUS
<1>3. /\ n \in Nat /\ DOMAIN a = 1 .. n /\ b \in Seq(Entry) /\ DOMAIN b = 1 .. (n + 1)
      /\ b[n + 1] = e /\ \A i \in 1 .. n : b[i] = a[i] /\ a[i] \in Entry
  BY <1>1, <1>2
<1>4. \A i \in 1 .. n : i \in 1 .. (n + 1) BY <1>3
<1>5. n + 1 \in 1 .. (n + 1) BY <1>3
<1>6. ASSUME NEW c \in Columns(model)
      PROVE  SumFunction(AssetWorth(b, c))
               = SumFunction(AssetWorth(a, c)) + e.amounts[c] * static.price[e.slot]
  <2>1. PICK f, g : f = AssetWorth(a, c) /\ g = AssetWorth(b, c) OBVIOUS
  <2>2. DOMAIN f = 1 .. n /\ DOMAIN g = 1 .. (n + 1) BY <1>3, <2>1 DEF AssetWorth
  <2>3. g[n + 1] = e.amounts[c] * static.price[e.slot] BY <1>3, <1>5, <2>1 DEF AssetWorth
  <2>4. g[n + 1] \in Nat BY <2>3, EntryIsNatural
  <2>5. Kept(f, g, n)
    <3>1. ASSUME NEW i \in 1 .. n PROVE g[i] = f[i] /\ f[i] \in Nat
      <4>1. a[i] \in Entry /\ b[i] = a[i] BY <1>3
      <4>2. f[i] = a[i].amounts[c] * static.price[a[i].slot] BY <1>3, <2>1 DEF AssetWorth
      <4>3. g[i] = b[i].amounts[c] * static.price[b[i].slot] BY <1>3, <1>4, <2>1 DEF AssetWorth
      <4>4. QED BY <4>1, <4>2, <4>3, EntryIsNatural
    <3>2. QED BY <3>1 DEF Kept
  <2>6. SumFunction(g) = SumFunction(f) + g[n + 1] BY <1>3, <2>2, <2>4, <2>5, SumGrows
  <2>7. QED BY <2>1, <2>3, <2>6
<1>7. SumFunction(AssetCredits(b)) = SumFunction(AssetCredits(a)) + CreditOf(AsRow(e))
  <2>1. PICK f, g : f = AssetCredits(a) /\ g = AssetCredits(b) OBVIOUS
  <2>2. DOMAIN f = 1 .. n /\ DOMAIN g = 1 .. (n + 1) BY <1>3, <2>1 DEF AssetCredits
  <2>3. g[n + 1] = CreditOf(AsRow(e)) BY <1>3, <1>5, <2>1 DEF AssetCredits
  <2>4. g[n + 1] \in Nat BY <2>3, EntryIsNatural
  <2>5. Kept(f, g, n)
    <3>1. ASSUME NEW i \in 1 .. n PROVE g[i] = f[i] /\ f[i] \in Nat
      <4>1. a[i] \in Entry /\ b[i] = a[i] BY <1>3
      <4>2. f[i] = CreditOf(AsRow(a[i])) BY <1>3, <2>1 DEF AssetCredits
      <4>3. g[i] = CreditOf(AsRow(b[i])) BY <1>3, <1>4, <2>1 DEF AssetCredits
      <4>4. QED BY <4>1, <4>2, <4>3, EntryIsNatural
    <3>2. QED BY <3>1 DEF Kept
  <2>6. SumFunction(g) = SumFunction(f) + g[n + 1] BY <1>3, <2>2, <2>4, <2>5, SumGrows
  <2>7. QED BY <2>1, <2>3, <2>6
<1>8. QED BY <1>1, <1>3, <1>6, <1>7

\* a row that lists nothing has no worth and no credit
LEMMA EmptyEntry ==
  ASSUME TypeOK, NEW e \in Entry, \A c \in Columns(model) : e.amounts[c] = 0
  PROVE  /\ \A c \in Columns(model) : e.amounts[c] * static.price[e.slot] = 0
         /\ CreditOf(AsRow(e)) = 0
<1>1. e.slot \in Slots /\ e.amounts \in [Columns(model) -> Uint64] BY DEF Entry
<1>2. PICK a, s : a = e.amounts /\ s = e.slot OBVIOUS
<1>3. static.price[s] \in Nat BY <1>1, <1>2, Uint64IsNat DEF TypeOK
<1>4. \A c \in Columns(model) : a[c] * static.price[s] = 0 BY <1>2, <1>3
<1>5. a = NoAmounts
  <2>1. a = [c \in Columns(model) |-> a[c]] BY <1>1, <1>2
  <2>2. QED BY <1>2, <2>1 DEF NoAmounts
<1>6. CreditOf(AsRow(e)) = SlotCredit(a, s)
  <2>1. InCurve(e.amounts, e.slot)
    <3>1. Pools[model] \subseteq Columns(model) BY DEF Columns
    <3>2. MaxCredit \in Nat BY RulesAssumption
    <3>3. QED BY <1>2, <1>4, <3>1, <3>2 DEF InCurve
  <2>2. QED BY <1>2, <2>1, CreditsAgree
<1>7. SlotCredit(a, s) = 0 BY <1>1, <1>2, <1>5, NoCredit
<1>8. QED BY <1>2, <1>4, <1>6, <1>7

LEMMA SummingGrows ==
  ASSUME TypeOK, NEW before, Summing(before), NEW row \in AccountRow(model),
         row.asset \in Slots, NEW place, NEW credit, credit = CreditOf(row),
         model \in {"T2", "T3"} => row.amounts["collateral"] <= row.amounts["equity"],
         model = "T4" => Pledged("T4", row.amounts) <= row.amounts["equity"]
  PROVE  Summing(Grown(row, before, place, credit))
<1>1. PICK e : e = [slot |-> row.asset, amounts |-> row.amounts] OBVIOUS
<1>2. /\ row.amounts \in [Columns(model) -> Uint64]
      /\ \A c \in Columns(model) : row.amounts[c] \in Nat
  BY RowIsNatural
<1>3. e \in Entry /\ e.slot = row.asset /\ e.amounts = row.amounts BY <1>1, <1>2 DEF Entry
<1>4. credit = CreditOf(AsRow(e)) BY <1>3 DEF AsRow, CreditOf, Credit, CurveCredit
<1>5. PICK a : a = before.assets OBVIOUS
<1>6. /\ a \in Seq(Entry) /\ before.equity = SumFunction(AssetWorth(a, "equity"))
      /\ before.debt = SumFunction(AssetWorth(a, "debt"))
      /\ before.collateral = SumFunction(AssetCredits(a))
      /\ \A i \in DOMAIN a :
           /\ a[i].amounts["equity"] # 0 \/ a[i].amounts["debt"] # 0
           /\ model # "T1" => Pledged(model, a[i].amounts) <= a[i].amounts["equity"]
  BY <1>5 DEF Summing
<1>7. "equity" \in Columns(model) /\ "debt" \in Columns(model) BY DEF Columns
<1>8. PICK group : group = Grown(row, before, place, credit) OBVIOUS
<1>9. /\ group.equity = before.equity + e.amounts["equity"] * static.price[e.slot]
      /\ group.debt = before.debt + e.amounts["debt"] * static.price[e.slot]
      /\ group.collateral = before.collateral + CreditOf(AsRow(e))
  BY <1>3, <1>4, <1>8 DEF Grown
<1>10. CASE row.amounts["equity"] = 0 /\ row.amounts["debt"] = 0
  <2>1. \A c \in Columns(model) : row.amounts[c] = 0 BY <1>10, NothingPledged
  <2>2. /\ \A c \in Columns(model) : e.amounts[c] * static.price[e.slot] = 0
        /\ CreditOf(AsRow(e)) = 0
    BY <1>3, <2>1, EmptyEntry
  <2>3. group.assets = a BY <1>5, <1>8, <1>10 DEF Grown
  <2>4. before.equity \in Nat /\ before.debt \in Nat /\ before.collateral \in Nat
    BY SummingIsNat
  <2>5. /\ group.equity = before.equity /\ group.debt = before.debt
        /\ group.collateral = before.collateral
    BY <1>7, <1>9, <2>2, <2>4
  <2>6. QED BY <1>6, <1>8, <2>3, <2>5 DEF Summing
<1>11. CASE ~(row.amounts["equity"] = 0 /\ row.amounts["debt"] = 0)
  <2>1. PICK b : b = Append(a, e) OBVIOUS
  <2>2. group.assets = b BY <1>1, <1>5, <1>8, <1>11, <2>1 DEF Grown
  <2>3. /\ b \in Seq(Entry)
        /\ \A c \in Columns(model) :
             SumFunction(AssetWorth(b, c))
               = SumFunction(AssetWorth(a, c)) + e.amounts[c] * static.price[e.slot]
        /\ SumFunction(AssetCredits(b)) = SumFunction(AssetCredits(a)) + CreditOf(AsRow(e))
    BY <1>3, <1>6, <2>1, AssetsGrow
  <2>4. /\ group.equity = SumFunction(AssetWorth(b, "equity"))
        /\ group.debt = SumFunction(AssetWorth(b, "debt"))
        /\ group.collateral = SumFunction(AssetCredits(b))
    BY <1>6, <1>7, <1>9, <2>3
  <2>5. model # "T1" => Pledged(model, row.amounts) <= row.amounts["equity"]
    <3>1. CASE model \in {"T2", "T3"}
      <4>1. Pools[model] = {"collateral"} /\ "collateral" \in Columns(model)
        BY <3>1, ColumnNames
      <4>2. PICK f : f = row.amounts OBVIOUS
      <4>3. f["collateral"] \in Nat BY <1>2, <4>1, <4>2
      <4>4. SumFunctionOnSet(f, {"collateral"}) = f["collateral"] BY <4>3, SumSingle
      <4>5. QED BY <3>1, <4>1, <4>2, <4>4 DEF Pledged
    <3>2. QED BY <3>1 DEF TypeOK, Models
  <2>6. ASSUME NEW i \in DOMAIN b
        PROVE  /\ b[i].amounts["equity"] # 0 \/ b[i].amounts["debt"] # 0
               /\ model # "T1" => Pledged(model, b[i].amounts) <= b[i].amounts["equity"]
    <3>1. (i \in DOMAIN a /\ b[i] = a[i]) \/ b[i] = e BY <1>6, <2>1
    <3>2. QED BY <1>3, <1>6, <1>11, <2>5, <3>1
  <2>7. QED BY <1>8, <2>2, <2>3, <2>4, <2>6 DEF Summing
<1>12. QED BY <1>10, <1>11

\* p puts 1 .. n in another order
Shuffles(p, n) == p \in [1 .. n -> 1 .. n] /\ \A i, j \in 1 .. n : p[i] = p[j] => i = j

LEMMA ShufflesAll ==
  ASSUME NEW n \in Nat, NEW p, Shuffles(p, n), NEW z \in 1 .. n
  PROVE  \E i \in 1 .. n : p[i] = z
<1>1. PICK T : T = {p[i] : i \in 1 .. n} OBVIOUS
<1>2. \A i \in 1 .. n : p[i] \in T BY <1>1
<1>3. \A t \in T : \E i \in 1 .. n : p[i] = t BY <1>1
<1>4. \A i, j \in 1 .. n : p[i] = p[j] => i = j BY DEF Shuffles
<1>5. Cardinality(T) = n BY <1>2, <1>3, <1>4, ListsOnce
<1>6. IsFiniteSet(1 .. n) /\ Cardinality(1 .. n) = n BY FS_Interval
<1>7. T \in SUBSET (1 .. n) BY <1>1 DEF Shuffles
<1>8. T = 1 .. n BY <1>5, <1>6, <1>7, FS_Subset
<1>9. QED BY <1>3, <1>8

\* g is f with its arguments renamed by p
Renames(p, f, g, n) ==
  /\ DOMAIN f = 1 .. n /\ DOMAIN g = 1 .. n
  /\ \A i \in 1 .. n : f[i] \in Nat /\ g[p[i]] = f[i]

LEMMA SumShuffled ==
  ASSUME NEW n \in Nat, NEW p, Shuffles(p, n), NEW f, NEW g, Renames(p, f, g, n)
  PROVE  SumFunction(f) = SumFunction(g)
<1>1. PICK S, T : S = 1 .. n /\ T = 1 .. n OBVIOUS
<1>2. IsFiniteSet(S) BY <1>1, FS_Interval
<1>3. p \in [S -> T] BY <1>1 DEF Shuffles
<1>4. \A x, y \in S : p[x] = p[y] => x = y BY <1>1 DEF Shuffles
<1>5. ASSUME NEW z \in T PROVE \E x \in S : p[x] = z
  <2>1. z \in 1 .. n BY <1>1
  <2>2. \E i \in 1 .. n : p[i] = z BY <2>1, ShufflesAll
  <2>3. QED BY <1>1, <2>2
<1>6. \A x \in S : f[x] \in Nat /\ g[p[x]] = f[x] BY <1>1 DEF Renames
<1>7. SumFunctionOnSet(f, S) = SumFunctionOnSet(g, T)
  BY <1>2, <1>3, <1>4, <1>5, <1>6, SumRenamed
<1>8. DOMAIN f = S /\ DOMAIN g = T BY <1>1 DEF Renames
<1>9. QED BY <1>7, <1>8 DEF SumFunction

\* s lists a in the order p
Reordered(a, s, p, n) == Shuffles(p, n) /\ s = [i \in 1 .. n |-> a[p[i]]]

LEMMA SortingIs ==
  ASSUME NEW a, NEW s \in Sortings(a), NEW n \in Nat, n = Len(a)
  PROVE  InOrder(s) /\ \E p : Reordered(a, s, p, n)
<1> DEFINE Orders == {p \in [1 .. n -> 1 .. n] : \A i, j \in 1 .. n : p[i] = p[j] => i = j}
           all == {[i \in 1 .. n |-> a[p[i]]] : p \in Orders}
<1>1. s \in {x \in all : InOrder(x)} BY DEF Sortings
<1>2. s \in all /\ InOrder(s) BY <1>1
<1>3. PICK p \in Orders : s = [i \in 1 .. n |-> a[p[i]]] BY <1>2
<1>4. Shuffles(p, n) BY DEF Shuffles
<1>5. Reordered(a, s, p, n) BY <1>3, <1>4 DEF Reordered
<1>6. QED BY <1>2, <1>5

(* Sorting keeps the sums.                                                 *)
LEMMA SortedSums ==
  ASSUME TypeOK, NEW group, Summing(group), NEW account,
         account.assets \in Sortings(group.assets), account.equity = group.equity,
         account.debt = group.debt, account.collateral = group.collateral
  PROVE  Summing(account) /\ InOrder(account.assets)
<1>1. Len(group.assets) \in Nat BY DEF Summing
<1>2. PICK n \in Nat : n = Len(group.assets) BY <1>1
<1>3. PICK a, s : a = group.assets /\ s = account.assets OBVIOUS
<1>4. /\ a \in Seq(Entry) /\ group.equity = SumFunction(AssetWorth(a, "equity"))
      /\ group.debt = SumFunction(AssetWorth(a, "debt"))
      /\ group.collateral = SumFunction(AssetCredits(a))
      /\ \A i \in DOMAIN a :
           /\ a[i].amounts["equity"] # 0 \/ a[i].amounts["debt"] # 0
           /\ model # "T1" => Pledged(model, a[i].amounts) <= a[i].amounts["equity"]
  BY <1>3 DEF Summing
<1>5. n \in Nat /\ DOMAIN a = 1 .. n /\ \A i \in 1 .. n : a[i] \in Entry BY <1>2, <1>3, <1>4
<1>6. s \in Sortings(a) /\ n = Len(a) BY <1>2, <1>3
<1>7. InOrder(s) /\ \E p : Reordered(a, s, p, n) BY <1>6, SortingIs
<1>8. PICK p : Reordered(a, s, p, n) BY <1>7
<1>9. Shuffles(p, n) BY <1>8 DEF Reordered
<1>10. DOMAIN s = 1 .. n /\ \A i \in 1 .. n : s[i] = a[p[i]] /\ p[i] \in 1 .. n
  BY <1>8 DEF Reordered, Shuffles
<1>11. \A i \in 1 .. n : s[i] \in Entry BY <1>5, <1>10
<1>12. s \in Seq(Entry)
  <2>1. s = [i \in 1 .. n |-> s[i]] BY <1>10, <1>8 DEF Reordered
  <2>2. s \in [1 .. n -> Entry] BY <1>11, <2>1
  <2>3. QED BY <1>5, <2>2
<1>13. ASSUME NEW c \in Columns(model)
       PROVE  SumFunction(AssetWorth(s, c)) = SumFunction(AssetWorth(a, c))
  <2>1. PICK f, g : f = AssetWorth(s, c) /\ g = AssetWorth(a, c) OBVIOUS
  <2>2. DOMAIN f = 1 .. n /\ DOMAIN g = 1 .. n BY <1>5, <1>10, <2>1 DEF AssetWorth
  <2>3. ASSUME NEW i \in 1 .. n PROVE f[i] \in Nat /\ g[p[i]] = f[i]
    <3>1. f[i] = s[i].amounts[c] * static.price[s[i].slot] BY <1>10, <2>1 DEF AssetWorth
    <3>2. g[p[i]] = a[p[i]].amounts[c] * static.price[a[p[i]].slot]
      BY <1>5, <1>10, <2>1 DEF AssetWorth
    <3>3. s[i] \in Entry /\ s[i] = a[p[i]] BY <1>10, <1>11
    <3>4. f[i] \in Nat BY <3>1, <3>3, EntryIsNatural
    <3>5. QED BY <3>1, <3>2, <3>3, <3>4
  <2>4. Renames(p, f, g, n) BY <2>2, <2>3 DEF Renames
  <2>5. SumFunction(f) = SumFunction(g) BY <1>9, <2>4, SumShuffled
  <2>6. QED BY <2>1, <2>5
<1>14. SumFunction(AssetCredits(s)) = SumFunction(AssetCredits(a))
  <2>1. PICK f, g : f = AssetCredits(s) /\ g = AssetCredits(a) OBVIOUS
  <2>2. DOMAIN f = 1 .. n /\ DOMAIN g = 1 .. n BY <1>5, <1>10, <2>1 DEF AssetCredits
  <2>3. ASSUME NEW i \in 1 .. n PROVE f[i] \in Nat /\ g[p[i]] = f[i]
    <3>1. f[i] = CreditOf(AsRow(s[i])) BY <1>10, <2>1 DEF AssetCredits
    <3>2. g[p[i]] = CreditOf(AsRow(a[p[i]])) BY <1>5, <1>10, <2>1 DEF AssetCredits
    <3>3. s[i] \in Entry /\ s[i] = a[p[i]] BY <1>10, <1>11
    <3>4. f[i] \in Nat BY <3>1, <3>3, EntryIsNatural
    <3>5. QED BY <3>1, <3>2, <3>3, <3>4
  <2>4. Renames(p, f, g, n) BY <2>2, <2>3 DEF Renames
  <2>5. SumFunction(f) = SumFunction(g) BY <1>9, <2>4, SumShuffled
  <2>6. QED BY <2>1, <2>5
<1>15. "equity" \in Columns(model) /\ "debt" \in Columns(model) BY DEF Columns
<1>16. QED BY <1>3, <1>4, <1>5, <1>7, <1>10, <1>12, <1>13, <1>14, <1>15 DEF Summing

-----------------------------------------------------------------------------
(* What is delivered is sound. *)

AllGroups == {groups[id] : id \in Met}
GroupsSum == \A group \in AllGroups : Summing(group)

SoundDelivered ==
  pc = "done" => IdsApart /\ \A account \in delivered : Sound(account)

LEMMA SummingStands ==
  ASSUME UNCHANGED <<model, static>>, NEW account, Summing(account)
  PROVE  Summing(account)'
<1>1. PICK a : a = account.assets OBVIOUS
<1>2. \A row : CurveCredit(row)' = CurveCredit(row) BY DEF CurveCredit, HaircutValue
<1>3. \A row : CreditOf(row)' = CreditOf(row) BY <1>2 DEF CreditOf, Credit
<1>4. AssetCredits(a)' = AssetCredits(a) BY <1>3 DEF AssetCredits
<1>5. \A c : AssetWorth(a, c)' = AssetWorth(a, c) BY DEF AssetWorth
<1>6. Entry' = Entry BY DEF Entry
<1>7. QED BY <1>1, <1>4, <1>5, <1>6 DEF Summing

LEMMA SoundStands ==
  ASSUME UNCHANGED <<model, static>>, NEW account, Sound(account)
  PROVE  Sound(account)'
<1>1. Summing(account) BY DEF Sound
<1>2. Summing(account)' BY <1>1, SummingStands
<1>3. QED BY <1>2 DEF Sound

LEMMA GroupsSumStands ==
  ASSUME UNCHANGED <<model, static, groups>>, GroupsSum
  PROVE  GroupsSum'
<1>1. ASSUME NEW group, group \in AllGroups' PROVE Summing(group)'
  <2>1. group \in AllGroups BY <1>1 DEF AllGroups, Met
  <2>2. Summing(group) BY <2>1 DEF GroupsSum
  <2>3. QED BY <2>2, SummingStands
<1>2. QED BY <1>1 DEF GroupsSum

LEMMA NoGroups ==
  ASSUME SnapshotInv, NoneAdded
  PROVE  GroupsSum
BY DEF SnapshotInv, GroupsSoFar, NoneAdded, GroupsSum, AllGroups

LEMMA AddedSums ==
  ASSUME TypeOK, GroupsSum, UNCHANGED <<model, static>>,
         NEW row \in AccountRow(model), Added(row)
  PROVE  GroupsSum'
<1>1. PICK place, credit :
        /\ row.asset \in Slots /\ credit = CreditOf(row)
        /\ Update(row, Grown(row, GroupOf(row.id), place, credit))
        /\ model \in {"T2", "T3"} => row.amounts["collateral"] <= row.amounts["equity"]
        /\ model = "T4" => Pledged("T4", row.amounts) <= row.amounts["equity"]
  BY DEF Added
<1>2. PICK before : before = GroupOf(row.id) OBVIOUS
<1>3. Summing(before)
  <2>1. CASE row.id \in DOMAIN groups
    <3>1. before \in AllGroups BY <1>2, <2>1 DEF GroupOf, AllGroups, Met
    <3>2. QED BY <3>1 DEF GroupsSum
  <2>2. CASE row.id \notin DOMAIN groups
    <3>1. before = NewGroup BY <1>2, <2>2 DEF GroupOf
    <3>2. /\ before.assets = <<>> /\ before.equity = 0 /\ before.debt = 0
          /\ before.collateral = 0
      BY <3>1 DEF NewGroup
    <3>3. QED BY <3>2, NothingSums
  <2>3. QED BY <2>1, <2>2
<1>4. PICK after : after = Grown(row, before, place, credit) OBVIOUS
<1>5. Summing(after) BY <1>1, <1>3, <1>4, SummingGrows
<1>6. groups' = [id \in DOMAIN groups \cup {row.id} |->
                   IF id = row.id THEN after ELSE groups[id]]
  BY <1>1, <1>2, <1>4 DEF Update
<1>7. ASSUME NEW group, group \in AllGroups' PROVE Summing(group)'
  <2>1. group = after \/ group \in AllGroups BY <1>6, <1>7 DEF AllGroups, Met
  <2>2. Summing(group) BY <1>5, <2>1 DEF GroupsSum
  <2>3. QED BY <2>2, SummingStands
<1>8. QED BY <1>7 DEF GroupsSum

\* an account with what its group has
Copies(account, group) ==
  /\ account.equity = group.equity /\ account.debt = group.debt
  /\ account.collateral = group.collateral

LEMMA SummingCopies ==
  ASSUME NEW group, Summing(group), NEW account, Copies(account, group),
         account.assets = group.assets
  PROVE  Summing(account)
BY DEF Summing, Copies

\* sorted, solvent where it matters: T1 and T4
LEMMA SortedIsSound ==
  ASSUME TypeOK, NEW group, Summing(group), NEW account, Copies(account, group),
         account.assets \in Sortings(group.assets),
         model # "T1" => group.collateral >= group.debt
  PROVE  Sound(account)
<1>1. Summing(account) /\ InOrder(account.assets) BY SortedSums DEF Copies
<1>2. model # "T1" => account.debt <= account.collateral BY SummingIsNat DEF Copies
<1>3. QED BY <1>1, <1>2 DEF Sound

\* as it is, and solvent: T2 and T3
LEMMA CopyIsSound ==
  ASSUME TypeOK, model \in {"T2", "T3"}, NEW group, Summing(group), NEW account,
         Copies(account, group), account.assets = group.assets,
         group.collateral >= group.debt
  PROVE  Sound(account)
<1>1. Summing(account) BY SummingCopies
<1>2. account.debt <= account.collateral BY SummingIsNat DEF Copies
<1>3. QED BY <1>1, <1>2 DEF Sound

\* a group of some id, and what is delivered for it
Delivery(account, id) ==
  id \in Met /\ account.id = id /\ Copies(account, groups[id])

LEMMA SortedDelivered ==
  ASSUME TypeOK, GroupsSum, T1Finish \/ T4Finish
  PROVE  /\ \A account \in delivered' : Sound(account)
         /\ \A a, b \in delivered' : a.id = b.id => a = b
<1>1. PICK sorted \in [Met -> UNION {Sortings(groups[id].assets) : id \in Met}] :
        /\ \A id \in Met : sorted[id] \in Sortings(groups[id].assets)
        /\ \A account \in delivered' :
             \E id \in Met : /\ account = Account(id, groups[id].index, sorted[id])
                             /\ model # "T1" => Solvent(id)
  BY DEF T1Finish, T4Finish
<1>2. ASSUME NEW account \in delivered' PROVE Sound(account)
  <2>1. PICK id \in Met : /\ account = Account(id, groups[id].index, sorted[id])
                          /\ model # "T1" => Solvent(id)
    BY <1>1
  <2>2. PICK group : group = groups[id] OBVIOUS
  <2>3. Summing(group) BY <2>2 DEF GroupsSum, AllGroups
  <2>4. Copies(account, group) BY <2>1, <2>2 DEF Copies, Account
  <2>5. account.assets \in Sortings(group.assets) BY <1>1, <2>1, <2>2 DEF Account
  <2>6. model # "T1" => group.collateral >= group.debt BY <2>1, <2>2 DEF Solvent
  <2>7. QED BY <2>3, <2>4, <2>5, <2>6, SortedIsSound
<1>3. ASSUME NEW a \in delivered', NEW b \in delivered', a.id = b.id PROVE a = b
  <2>1. PICK i \in Met : a = Account(i, groups[i].index, sorted[i]) BY <1>1
  <2>2. PICK j \in Met : b = Account(j, groups[j].index, sorted[j]) BY <1>1
  <2>3. a.id = i /\ b.id = j BY <2>1, <2>2 DEF Account
  <2>4. QED BY <1>3, <2>1, <2>2, <2>3
<1>4. QED BY <1>2, <1>3

LEMMA CopiedDelivered ==
  ASSUME TypeOK, GroupsSoFar, GroupsSum, T2Finish \/ T3Finish
  PROVE  /\ \A account \in delivered' : Sound(account)
         /\ \A a, b \in delivered' : a.id = b.id => a = b
<1>1. /\ model \in {"T2", "T3"}
      /\ delivered' = {Account(order[i], i - 1, groups[order[i]].assets) :
                         i \in {j \in DOMAIN order : Solvent(order[j])}}
  BY DEF T2Finish, T3Finish
<1>2. \A account \in delivered' :
        \E i \in DOMAIN order : /\ account = Account(order[i], i - 1, groups[order[i]].assets)
                                /\ Solvent(order[i])
  BY <1>1
<1>3. ASSUME NEW account \in delivered' PROVE Sound(account)
  <2>1. PICK i \in DOMAIN order :
          /\ account = Account(order[i], i - 1, groups[order[i]].assets)
          /\ Solvent(order[i])
    BY <1>2
  <2>2. PICK group : group = groups[order[i]] OBVIOUS
  <2>3. order[i] \in Met BY DEF GroupsSoFar
  <2>4. Summing(group) BY <2>2, <2>3 DEF GroupsSum, AllGroups
  <2>5. Copies(account, group) /\ account.assets = group.assets
    BY <2>1, <2>2 DEF Copies, Account
  <2>6. group.collateral >= group.debt BY <2>1, <2>2 DEF Solvent
  <2>7. QED BY <1>1, <2>4, <2>5, <2>6, CopyIsSound
<1>4. ASSUME NEW a \in delivered', NEW b \in delivered', a.id = b.id PROVE a = b
  <2>1. PICK i \in DOMAIN order : a = Account(order[i], i - 1, groups[order[i]].assets)
    BY <1>2
  <2>2. PICK j \in DOMAIN order : b = Account(order[j], j - 1, groups[order[j]].assets)
    BY <1>2
  <2>3. a.id = order[i] /\ b.id = order[j] BY <2>1, <2>2 DEF Account
  <2>4. i = j BY <1>4, <2>3 DEF GroupsSoFar
  <2>5. QED BY <2>1, <2>2, <2>4
<1>5. QED BY <1>3, <1>4

LEMMA EndSound ==
  ASSUME SnapshotInv, GroupsSum, EndOfAccounts
  PROVE  GroupsSum' /\ SoundDelivered'
<1>1. UNCHANGED <<model, static, groups>> BY DEF EndOfAccounts, assetTable
<1>2. TypeOK /\ GroupsSoFar BY DEF SnapshotInv
<1>3. /\ \A account \in delivered' : Sound(account)
      /\ \A a, b \in delivered' : a.id = b.id => a = b
  <2>1. CASE T1Finish \/ T4Finish BY <1>2, <2>1, SortedDelivered
  <2>2. CASE T2Finish \/ T3Finish BY <1>2, <2>2, CopiedDelivered
  <2>3. QED BY <2>1, <2>2 DEF EndOfAccounts
<1>4. ASSUME NEW account, account \in delivered' PROVE Sound(account)'
  <2>1. Sound(account) BY <1>3, <1>4
  <2>2. QED BY <1>1, <2>1, SoundStands
<1>5. IdsApart' BY <1>3 DEF IdsApart
<1>6. GroupsSum' BY <1>1, GroupsSumStands
<1>7. QED BY <1>4, <1>5, <1>6 DEF SoundDelivered

LEMMA StepSound ==
  ASSUME SnapshotInv, SnapshotInv', GroupsSum, SoundDelivered, [Next]_vars
  PROVE  GroupsSum' /\ SoundDelivered'
<1>1. pc = "assets" => NoneAdded BY DEF SnapshotInv, GroupsSoFar, NoneAdded
<1>2. TypeOK BY DEF SnapshotInv
<1>3. ASSUME NEW row \in AssetRows[model], ReadAsset(row)
      PROVE  GroupsSum' /\ SoundDelivered'
  <2>1. NoneAdded' BY <1>1, <1>3 DEF ReadAsset, accounts, NoneAdded
  <2>2. GroupsSum'
    BY <2>1 DEF SnapshotInv, GroupsSoFar, NoneAdded, GroupsSum, AllGroups
  <2>3. pc' # "done"
    BY <1>3 DEF ReadAsset, T1LoadAsset, T2LoadAsset, T3LoadAsset, T4LoadAsset, Fill, Abort
  <2>4. QED BY <2>2, <2>3 DEF SoundDelivered
<1>4. CASE EndOfAssets
  <2>1. NoneAdded' BY <1>1, <1>4 DEF EndOfAssets, accounts, NoneAdded
  <2>2. GroupsSum'
    BY <2>1 DEF SnapshotInv, GroupsSoFar, NoneAdded, GroupsSum, AllGroups
  <2>3. pc' # "done" BY <1>4 DEF EndOfAssets
  <2>4. QED BY <2>2, <2>3 DEF SoundDelivered
<1>5. ASSUME NEW row \in AccountRows[model], ReadRow(row)
      PROVE  GroupsSum' /\ SoundDelivered'
  <2>1. UNCHANGED <<model, static>> /\ pc' # "done" BY <1>5 DEF ReadRow, assetTable
  <2>2. row \in AccountRow(model) BY SnapshotAssumption, <1>2 DEF TypeOK
  <2>3. Skip \/ Added(row) BY <1>2, <1>5, <2>2, SkippedOrAdded
  <2>4. CASE Skip
    <3>1. UNCHANGED groups BY <2>4 DEF Skip
    <3>2. GroupsSum' BY <2>1, <3>1, GroupsSumStands
    <3>3. QED BY <2>1, <3>2 DEF SoundDelivered
  <2>5. CASE Added(row)
    <3>1. GroupsSum' BY <1>2, <2>1, <2>2, <2>5, AddedSums
    <3>2. QED BY <2>1, <3>1 DEF SoundDelivered
  <2>6. QED BY <2>3, <2>4, <2>5
<1>6. CASE EndOfAccounts BY <1>6, EndSound
<1>7. CASE UNCHANGED vars
  <2>1. UNCHANGED <<model, static, groups, pc, delivered>>
    BY <1>7 DEF vars, assetTable, accounts
  <2>2. GroupsSum' BY <2>1, GroupsSumStands
  <2>3. ASSUME pc' = "done" PROVE IdsApart' /\ \A account \in delivered' : Sound(account)'
    <3>1. IdsApart /\ \A account \in delivered : Sound(account)
      BY <2>1, <2>3 DEF SoundDelivered
    <3>2. ASSUME NEW account, account \in delivered' PROVE Sound(account)'
      <4>1. Sound(account) BY <2>1, <3>1, <3>2
      <4>2. QED BY <2>1, <4>1, SoundStands
    <3>3. IdsApart' BY <2>1, <3>1 DEF IdsApart
    <3>4. QED BY <3>2, <3>3
  <2>4. QED BY <2>2, <2>3 DEF SoundDelivered
<1>8. QED BY <1>3, <1>4, <1>5, <1>6, <1>7 DEF Next

(* The accounts delivered have different ids, the sums of what they list,  *)
(* in order where the parser sorts, and are solvent where it looks.        *)
THEOREM SoundInvariant == Spec => []SoundDelivered
<1>1. Init => NoneAdded /\ SoundDelivered BY DEF Init, NoneAdded, SoundDelivered
<1>2. SnapshotInv /\ NoneAdded => GroupsSum BY NoGroups
<1>3. SnapshotInv /\ SnapshotInv' /\ GroupsSum /\ SoundDelivered /\ [Next]_vars
        => GroupsSum' /\ SoundDelivered'
  BY StepSound
<1>4. QED BY <1>1, <1>2, <1>3, SnapshotInvariant, PTL DEF Spec

(* Whatever files are read and however many users a batch has, every batch *)
(* of accounts with regular rows meets its circuit and gives the leaves    *)
(* and the totals the host has committed to.                               *)
THEOREM Delivered == Spec => []DeliveredIsProvable
<1>1. SnapshotInv /\ SoundDelivered /\ PolicyIsTheTable => DeliveredIsProvable
  <2> SUFFICES ASSUME SnapshotInv, SoundDelivered, PolicyIsTheTable, pc = "done",
                      Bucketed, model = "T1" \/ committed # {}
               PROVE  \A k \in DOMAIN Witnesses :
                        (\A i \in DOMAIN Witnesses[k].users :
                           Regular(Witnesses[k].users[i])) => Provable(Witnesses[k])
    BY DEF DeliveredIsProvable
  <2>1. TypeOK BY DEF SnapshotInv
  <2>2. Delivers BY DEF SoundDelivered, Bucketed, Delivers
  <2>3. model # "T1" => RatiosCapped(model, static) BY DEF PolicyIsTheTable
  <2>4. QED BY <2>1, <2>2, <2>3, EachIsProvable
<1>2. QED BY <1>1, SnapshotInvariant, SoundInvariant, PolicyCommitted, PTL
==============================================================================
