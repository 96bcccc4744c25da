------------------------------- MODULE Snapshot -------------------------------
(***************************************************************************)
(* The snapshot parsers: cex_assets.csv and accounts.csv, read row by row  *)
(* into the asset table, one account per id, and the account list the      *)
(* witness service streams (core/snapshot, one parser per model, over the  *)
(* validating reader of core/snapshot/csv).  What becomes of an account    *)
(* after that is in BatchWitness.                                          *)
(*                                                                         *)
(* A row carries decoded values, and the spelling of its key: the reader   *)
(* compares primary keys as text, the parsers what they decode to (hex     *)
(* digits in either case, ids modulo the field, zeros before a number).    *)
(* tier_ratios.csv is TierCurve's; here it is the curves it came out with. *)
(***************************************************************************)
EXTENDS CircuitRules, SequencesExt

CONSTANTS
  Ids,          \* accounts
  Spellings,    \* ways to write a primary key
  AssetRows,    \* by model, the rows cex_assets.csv may hold
  AccountRows,  \* by model, the rows accounts.csv may hold
  Curves,       \* by model, the curves of tier_ratios.csv by asset
  MaxAssetRows, MaxRows  \* bounds on the rows of the two files

None == -1

Weights(m) == [Pools[m] -> Nat]
AssetRow(m) ==
  [asset : Nat, spelling : Spellings, price : Uint64, weight : Weights(m),
   malformed : BOOLEAN]
AccountRow(m) ==
  [id : Ids, asset : Nat, spelling : Spellings, index : Nat \cup {None},
   amounts : [Columns(m) -> Uint64], malformed : BOOLEAN]

ASSUME SnapshotAssumption ==
  /\ MaxAssetRows \in Nat /\ MaxRows \in Nat
  /\ \A m \in Models :
       /\ AssetRows[m] \subseteq AssetRow(m)
       /\ AccountRows[m] \subseteq AccountRow(m)
       /\ \A curves \in Curves[m] :
            /\ DOMAIN curves \subseteq Nat
            /\ \A a \in DOMAIN curves : curves[a] \in Weights(m)

VARIABLES
  model,
  pc,        \* the file being read, or "done", or "failed"
  curves,    \* tier_ratios.csv
  static,    \* the asset table: price and weight by slot
  listed,    \* the slots cex_assets.csv has filled
  policy,    \* the asset policies collected, T2
  committed, \* the policy committed to, as a set: empty if it has no digest
  seen,      \* primary keys of the file being read, as text
  met,       \* rows of the file so far
  kept,      \* the rows of accounts.csv that were added, in order
  order,     \* the ids in first-seen order
  groups,    \* the account built for each id
  invalid,   \* InvalidCount
  delivered  \* the accounts streamed

assetTable == <<curves, static, listed, policy, committed>>
accounts == <<kept, order, groups, invalid>>
vars == <<model, pc, assetTable, seen, met, accounts, delivered>>

NoWeight == [p \in Pools[model] |-> 0]

-----------------------------------------------------------------------------
(* The reader. *)

AssetKey(row) == <<row.asset, row.spelling>>
AccountKey(row) == <<row.id, row.asset, row.spelling>>

\* buildRow and checkPrimaryKey
Readable(row, key) == ~row.malformed /\ key \notin seen

\* a readable row marks its key, whatever the parser makes of it
Marked(row, key) == IF Readable(row, key) THEN seen \cup {key} ELSE seen

-----------------------------------------------------------------------------
Init ==
  /\ model \in Models /\ pc = "assets"
  /\ curves \in Curves[model]
  /\ static = [price |-> [s \in Slots |-> 0], weight |-> [s \in Slots |-> NoWeight]]
  /\ listed = {} /\ policy = <<>> /\ committed = {}
  /\ seen = {} /\ met = 0
  /\ kept = <<>> /\ order = <<>> /\ groups = [id \in {} |-> 0]
  /\ invalid = 0 /\ delivered = {}

-----------------------------------------------------------------------------
(* cex_assets.csv: any row that cannot be read ends the run. *)

Abort == pc' = "failed" /\ UNCHANGED assetTable

Fill(row, weight) ==
  /\ static' = [price |-> [static.price EXCEPT ![row.asset] = row.price],
                weight |-> [static.weight EXCEPT ![row.asset] = weight]]
  /\ listed' = listed \cup {row.asset}
  /\ UNCHANGED <<pc, curves, committed>>

Usable(row) == Readable(row, AssetKey(row)) /\ row.asset \in Slots

Curve(a) == IF a \in DOMAIN curves THEN curves[a] ELSE NoWeight

\* a slot is filled once
T1LoadAsset(row) ==
  /\ model = "T1"
  /\ IF Usable(row) /\ row.asset \notin listed
       THEN Fill(row, NoWeight) /\ UNCHANGED policy
       ELSE Abort

\* or overwritten
T2LoadAsset(row) ==
  /\ model = "T2"
  /\ IF Usable(row)
       THEN Fill(row, row.weight) /\ policy' = Append(policy, <<row.asset, row.weight>>)
       ELSE Abort

T3LoadAsset(row) ==
  /\ model = "T3"
  /\ IF Usable(row) THEN Fill(row, Curve(row.asset)) /\ UNCHANGED policy ELSE Abort

T4LoadAsset(row) ==
  /\ model = "T4"
  /\ IF Usable(row) /\ row.asset \notin listed
       THEN Fill(row, Curve(row.asset)) /\ UNCHANGED policy
       ELSE Abort

ReadAsset(row) ==
  /\ pc = "assets" /\ met < MaxAssetRows
  /\ T1LoadAsset(row) \/ T2LoadAsset(row) \/ T3LoadAsset(row) \/ T4LoadAsset(row)
  /\ seen' = Marked(row, AssetKey(row)) /\ met' = met + 1
  /\ UNCHANGED <<model, accounts, delivered>>

\* mutant of PolicyCommitment: of two entries for an asset one is committed
PolicyOfFirst(entries) ==
  LET assets == {entries[i][1] : i \in DOMAIN entries}
      first(a) == CHOOSE i \in DOMAIN entries :
                    entries[i][1] = a /\ \A j \in 1 .. (i - 1) : entries[j][1] # a
  IN  IF entries = <<>> \/ \E i \in DOMAIN entries : entries[i][2]["collateral"] > Full
        THEN {} ELSE {[a \in assets |-> entries[first(a)][2]]}

\* tierpolicy.PolicyCommitment: what the digest commits to; an asset listed
\* twice, a weight that is no ratio and an empty policy have no digest
PolicyCommitment(entries) ==
  LET ok == /\ entries # <<>>
            /\ \A i, j \in DOMAIN entries : entries[i][1] = entries[j][1] => i = j
            /\ \A i \in DOMAIN entries : \A p \in Pools[model] : entries[i][2][p] <= Full
      entry(a) == CHOOSE i \in DOMAIN entries : entries[i][1] = a
      assets == {entries[i][1] : i \in DOMAIN entries}
  IN  IF ok THEN {[a \in assets |-> entries[entry(a)][2]]} ELSE {}

\* t3PolicyCommitment, t4PolicyCommitment: a map has no asset twice
CurvePolicy ==
  IF DOMAIN curves = {} \/ \E a \in DOMAIN curves : \E p \in Pools[model] : curves[a][p] > Full
    THEN {} ELSE {curves}

EndOfAssets ==
  /\ pc = "assets" /\ pc' = "accounts"
  /\ committed' = IF model = "T1" THEN {} ELSE
                  IF model = "T2" THEN PolicyCommitment(policy) ELSE CurvePolicy
  /\ seen' = {} /\ met' = 0
  /\ UNCHANGED <<model, curves, static, listed, policy, accounts, delivered>>

-----------------------------------------------------------------------------
(* accounts.csv: a row that cannot be used is skipped and counted. *)

\* mutant of Skip: the row is not counted
SkipUncounted == UNCHANGED <<invalid, kept, order, groups>>

Skip == invalid' = invalid + 1 /\ UNCHANGED <<kept, order, groups>>

NewGroup ==
  [index |-> Len(order), stated |-> FALSE, assets |-> <<>>,
   equity |-> 0, debt |-> 0, collateral |-> 0]

GroupOf(id) == IF id \in DOMAIN groups THEN groups[id] ELSE NewGroup

Update(row, group) ==
  /\ groups' = [id \in DOMAIN groups \cup {row.id} |-> IF id = row.id THEN group ELSE groups[id]]
  /\ order' = IF row.id \in DOMAIN groups THEN order ELSE Append(order, row.id)
  /\ kept' = Append(kept, row)
  /\ UNCHANGED invalid

Place(group) == [index |-> group.index, stated |-> group.stated]

\* mutant of Stated: a row that states no index puts the derived one back
StatedOrDerived(row, group) ==
  [index |-> IF row.index = None THEN Len(order) ELSE row.index, stated |-> row.index # None]

\* the account_index column, where the parser looks at it
Stated(row, group) ==
  IF row.index = None THEN Place(group) ELSE [index |-> row.index, stated |-> TRUE]

Changes(row) ==
  LET group == GroupOf(row.id)
  IN  row.index # None /\ group.stated /\ group.index # row.index

Least2(a, b) == IF a <= b THEN a ELSE b

(* haircutValue of a curve of one ratio, padded: past the last boundary T4 *)
(* stays, T3 has nothing. *)
HaircutValue(value, weight) ==
  IF value > MaxCredit /\ model = "T3" THEN 0
  ELSE (Least2(value, MaxCredit) * weight) \div Full

\* the balances of a row: an empty asset is not listed, but its sums and
\* its credit are added all the same
Grown(row, group, place, credit) ==
  LET value(c) == row.amounts[c] * static.price[row.asset]
      empty == row.amounts["equity"] = 0 /\ row.amounts["debt"] = 0
      entry == [slot |-> row.asset, amounts |-> row.amounts]
  IN  [index |-> place.index, stated |-> place.stated,
       assets |-> IF empty THEN group.assets ELSE Append(group.assets, entry),
       equity |-> group.equity + value("equity"), debt |-> group.debt + value("debt"),
       collateral |-> group.collateral + credit]

\* the credit of a row's pools on their curves
CurveCredit(row) ==
  SumFunction([p \in Pools[model] |->
    HaircutValue(row.amounts[p] * static.price[row.asset], static.weight[row.asset][p])])

\* mutant of T1AddRow: the balances are added before the index is looked at
T1AddRowFirst(row) ==
  /\ model = "T1"
  /\ IF row.asset \notin Slots THEN Skip
     ELSE IF Changes(row)
       THEN /\ groups' = [groups EXCEPT ![row.id] = Grown(row, GroupOf(row.id), Place(GroupOf(row.id)), 0)]
            /\ invalid' = invalid + 1 /\ UNCHANGED <<kept, order>>
       ELSE Update(row, Grown(row, GroupOf(row.id), Stated(row, GroupOf(row.id)), 0))

T1AddRow(row) ==
  /\ model = "T1"
  /\ IF row.asset \notin Slots \/ Changes(row) THEN Skip
     ELSE Update(row, Grown(row, GroupOf(row.id), Stated(row, GroupOf(row.id)), 0))

\* basis points of the whole amount
T2AddRow(row) ==
  /\ model = "T2"
  /\ IF row.asset \notin Slots \/ row.amounts["collateral"] > row.amounts["equity"] THEN Skip
     ELSE Update(row, Grown(row, GroupOf(row.id), Place(GroupOf(row.id)),
                            Credit(row.amounts, static, row.asset, "collateral")))

T3AddRow(row) ==
  /\ model = "T3"
  /\ IF row.asset \notin Slots \/ row.amounts["collateral"] > row.amounts["equity"] THEN Skip
     ELSE Update(row, Grown(row, GroupOf(row.id), Place(GroupOf(row.id)), CurveCredit(row)))

\* the sum of the three pools is compared, a sum past uint64 is refused
T4AddRow(row) ==
  /\ model = "T4"
  /\ IF row.asset \notin Slots \/ Pledged("T4", row.amounts) > row.amounts["equity"]
        \/ Changes(row) THEN Skip
     ELSE Update(row, Grown(row, GroupOf(row.id), Stated(row, GroupOf(row.id)), CurveCredit(row)))

ReadRow(row) ==
  /\ pc = "accounts" /\ met < MaxRows
  /\ IF Readable(row, AccountKey(row))
       THEN T1AddRow(row) \/ T2AddRow(row) \/ T3AddRow(row) \/ T4AddRow(row)
       ELSE Skip
  /\ seen' = Marked(row, AccountKey(row)) /\ met' = met + 1
  /\ UNCHANGED <<model, pc, assetTable, delivered>>

-----------------------------------------------------------------------------
(* The end of accounts.csv. *)

Account(id, index, assets) ==
  [id |-> id, index |-> index, assets |-> assets, equity |-> groups[id].equity,
   debt |-> groups[id].debt, collateral |-> groups[id].collateral]

InOrder(assets) == \A i \in 1 .. (Len(assets) - 1) : assets[i].slot <= assets[i + 1].slot

\* the orders sort.Slice may leave a list in: it is not stable
Sortings(assets) ==
  LET n == Len(assets)
      Orders == {p \in [1 .. n -> 1 .. n] : \A i, j \in 1 .. n : p[i] = p[j] => i = j}
  IN  {s \in {[i \in 1 .. n |-> assets[p[i]]] : p \in Orders} : InOrder(s)}

Solvent(id) == groups[id].collateral >= groups[id].debt
Met == DOMAIN groups

\* mutant of T1Finish: assets as they were met
T1FinishUnsorted ==
  /\ model = "T1"
  /\ delivered' = {Account(id, groups[id].index, groups[id].assets) : id \in Met}
  /\ UNCHANGED invalid

\* finalizeAccounts: everybody is delivered
T1Finish ==
  /\ model = "T1"
  /\ \E sorted \in [Met -> UNION {Sortings(groups[id].assets) : id \in Met}] :
       /\ \A id \in Met : sorted[id] \in Sortings(groups[id].assets)
       /\ delivered' = {Account(id, groups[id].index, sorted[id]) : id \in Met}
  /\ UNCHANGED invalid

\* the index is the place among all ids, the ones left out are counted
T2Finish ==
  /\ model = "T2"
  /\ delivered' = {Account(order[i], i - 1, groups[order[i]].assets) :
                     i \in {j \in DOMAIN order : Solvent(order[j])}}
  /\ invalid' = invalid + Cardinality({id \in Met : ~Solvent(id)})

T3Finish ==
  /\ model = "T3"
  /\ delivered' = {Account(order[i], i - 1, groups[order[i]].assets) :
                     i \in {j \in DOMAIN order : Solvent(order[j])}}
  /\ invalid' = invalid + Cardinality({id \in Met : ~Solvent(id)})

\* finalizeAccounts: the ones left out are not counted
T4Finish ==
  /\ model = "T4"
  /\ \E sorted \in [Met -> UNION {Sortings(groups[id].assets) : id \in Met}] :
       /\ \A id \in Met : sorted[id] \in Sortings(groups[id].assets)
       /\ delivered' = {Account(id, groups[id].index, sorted[id]) :
                          id \in {i \in Met : Solvent(i)}}
  /\ UNCHANGED invalid

EndOfAccounts ==
  /\ pc = "accounts" /\ pc' = "done"
  /\ T1Finish \/ T2Finish \/ T3Finish \/ T4Finish
  /\ UNCHANGED <<model, assetTable, seen, met, kept, order, groups>>

Next ==
  \/ \E row \in AssetRows[model] : ReadAsset(row)
  \/ EndOfAssets
  \/ \E row \in AccountRows[model] : ReadRow(row)
  \/ EndOfAccounts

Spec == Init /\ [][Next]_vars

-----------------------------------------------------------------------------
(* Properties *)

RowsOf(id) == {i \in DOMAIN kept : kept[i].id = id}

\* what a row adds to the credit of its account
CreditOf(row) ==
  IF model = "T1" THEN 0 ELSE
  IF model = "T2" THEN Credit(row.amounts, static, row.asset, "collateral") ELSE CurveCredit(row)

\* over the rows added: what each is worth in a column, what it holds of a
\* slot, and its credit
Worth(c) == [i \in DOMAIN kept |-> kept[i].amounts[c] * static.price[kept[i].asset]]
Credits == [i \in DOMAIN kept |-> CreditOf(kept[i])]
Holding(s, c) == [i \in DOMAIN kept |-> IF kept[i].asset = s THEN kept[i].amounts[c] ELSE 0]

\* what an account lists of a slot
Listed(assets, s, c) ==
  SumFunctionOnSet([j \in DOMAIN assets |-> assets[j].amounts[c]],
                   {j \in DOMAIN assets : assets[j].slot = s})

(* The account built for an id is made of the rows added for it and of     *)
(* nothing else: a refused row, even one that is refused after its group   *)
(* was looked up, leaves no trace, and every row met is either added or    *)
(* counted as invalid.                                                     *)
RowsAccountFor ==
  /\ \A id \in Met :
       /\ groups[id].equity = SumFunctionOnSet(Worth("equity"), RowsOf(id))
       /\ groups[id].debt = SumFunctionOnSet(Worth("debt"), RowsOf(id))
       /\ groups[id].collateral = SumFunctionOnSet(Credits, RowsOf(id))
       /\ \A s \in Slots : \A c \in Columns(model) :
            Listed(groups[id].assets, s, c) = SumFunctionOnSet(Holding(s, c), RowsOf(id))
  /\ Met = {kept[i].id : i \in DOMAIN kept}
  /\ pc = "accounts" => Len(kept) + invalid = met

\* the indices its rows state
IndicesOf(id) == {kept[i].index : i \in RowsOf(id)} \ {None}

(* The index of an account is the one stated for it, whichever of its rows *)
(* states it, and its place in first-seen order if none does; a row that   *)
(* states another is the one refused, before or after rows that state none *)
(* (T1's parser.go:275-300, T4's :470-496).                                *)
IndexIsTheOneStated ==
  model \in {"T1", "T4"} =>
    \A k \in DOMAIN order :
      IF IndicesOf(order[k]) = {} THEN groups[order[k]].index = k - 1
      ELSE IndicesOf(order[k]) = {groups[order[k]].index}

TypeOK ==
  /\ model \in Models /\ pc \in {"assets", "accounts", "done", "failed"}
  /\ curves \in Curves[model]
  /\ static \in [price : [Slots -> Uint64], weight : [Slots -> Weights(model)]]
  /\ listed \subseteq Slots /\ policy \in Seq(Nat \X Weights(model))
  /\ kept \in Seq(AccountRow(model)) /\ order \in Seq(Ids)
  /\ met \in Nat /\ invalid \in Nat

\* what the parser knows of the ids it has met
GroupsSoFar ==
  /\ Met = {order[k] : k \in DOMAIN order}
  /\ \A k, l \in DOMAIN order : order[k] = order[l] => k = l
  /\ \A i \in DOMAIN kept : kept[i].id \in Met
  /\ \A id \in Met :
       /\ groups[id].index \in Nat /\ RowsOf(id) # {}
       /\ model \in {"T1", "T4"} =>
            (groups[id].stated <=> \E i \in RowsOf(id) : kept[i].index # None)
  /\ pc = "assets" => kept = <<>> /\ order = <<>> /\ invalid = 0
  /\ pc = "accounts" => Len(kept) + invalid = met

\* what the table holds so far
TableSoFar ==
  /\ \A s \in Slots \ listed : static.weight[s] = NoWeight
  /\ model = "T1" => \A s \in Slots : static.weight[s] = NoWeight
  /\ model = "T2" =>
       /\ \A i \in DOMAIN policy : policy[i][1] \in listed
       /\ \A s \in listed :
            \E i \in DOMAIN policy : policy[i] = <<s, static.weight[s]>>
  /\ model \in {"T3", "T4"} => \A s \in listed : static.weight[s] = Curve(s)
  /\ pc = "assets" => committed = {}

(* What the properties of the index, of the policy and of the counting of  *)
(* rows rest on.                                                           *)
SnapshotInv == TypeOK /\ GroupsSoFar /\ TableSoFar /\ IndexIsTheOneStated

\* an asset of an account, as the parser keeps it
Entry == [slot : Slots, amounts : [Columns(model) -> Uint64]]

(* The sums rest on the parser's index check: no other row is added.       *)
RowsInv ==
  /\ SnapshotInv /\ RowsAccountFor
  /\ \A i \in DOMAIN kept : kept[i].asset \in Slots
  /\ \A id \in Met : groups[id].assets \in Seq(Entry)

(* A policy that is committed to is the one the table carries and one the  *)
(* circuit can be given, although the table is overwritten and the policy  *)
(* appended to when an asset is listed twice.                              *)
PolicyIsTheTable ==
  /\ \A c \in committed : \A s \in Slots : \A p \in Pools[model] :
       static.weight[s][p] =
         IF s \in listed /\ s \in DOMAIN c THEN c[s][p] ELSE 0
  /\ committed # {} => RatiosCapped(model, static)

(* "If omitted, the parser derives it from first-seen valid account order" *)
(* and so densely (standard_schema.go, account_index).                     *)
IndicesAreDense ==
  pc = "done" /\ (\A i \in DOMAIN kept : kept[i].index = None) =>
    {a.index : a \in delivered} = 0 .. (Cardinality(delivered) - 1)
==============================================================================
