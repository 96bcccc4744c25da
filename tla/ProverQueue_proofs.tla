-------------------------- MODULE ProverQueue_proofs --------------------------
(***************************************************************************)
(* What a prover keeps, for every value of the constants.                  *)
(*                                                                         *)
(* Its keys: what a key directory and a prover's cache keep, for every     *)
(* profile and any number of setups and batches (KeyStore).                *)
(*                                                                         *)
(* Its queue: safety of the witness queue and the provers for every set of *)
(* provers, every number of batches and every bound on failures            *)
(* (ProverQueue): the inductive invariant IInv, the invariants that follow *)
(* from it, and that the queue, the proof table and the provers implement  *)
(* the batch ledger: each step of ProverQueue is a step of BatchLedger or  *)
(* leaves the ledger alone.                                                *)
(***************************************************************************)
EXTENDS ProverQueue, KeyStore, SequenceTheorems, NaturalsInduction,
        WellFoundedInduction, TLAPS

-----------------------------------------------------------------------------
(* The keys. *)

LEMMA StemIsShape == \A stem \in Stems : stem \in Shape
<1> SUFFICES ASSUME NEW declared \in Profiles, NEW i \in DOMAIN declared PROVE declared[i] \in Shape
  BY DEF Stems, Shapes
<1> QED BY KeyAssumption, ElementOfSeq

LEMMA PlanIsSequence ==
  ASSUME NEW p \in Plans
  PROVE  /\ Len(p) \in Nat \ {0} /\ DOMAIN p = 1 .. Len(p)
         /\ \A i \in 1 .. Len(p) : p[i] \in Stems /\ p[i] \in Shape
         /\ \A i, j \in 1 .. Len(p) : p[i] = p[j] => i = j
<1>1. PICK declared \in Profiles : Accepted(declared) /\ p \in Resolved(declared)
  BY DEF Plans
<1>2. declared \in Seq(Shape) /\ declared # <<>> BY <1>1, KeyAssumption DEF Accepted
<1>3. Len(declared) \in Nat \ {0} /\ DOMAIN declared = 1 .. Len(declared)
  BY <1>2, LenProperties, EmptySeq
<1>4. Shapes(declared) \subseteq Shape /\ Shapes(declared) \subseteq Stems
  BY <1>1, <1>2, <1>3, ElementOfSeq DEF Shapes, Stems
<1>5. p \in [1 .. Len(declared) -> Shapes(declared)]
  BY <1>1 DEF Resolved
<1>6. p \in Seq(Shapes(declared)) BY <1>3, <1>5, SeqDef
<1>7. Len(p) = Len(declared) BY <1>3, <1>5, <1>6, LenProperties
<1>8. \A i, j \in 1 .. Len(p) : i < j => p[i].tier < p[j].tier
  BY <1>1, <1>7 DEF Resolved
<1>9. \A i \in 1 .. Len(p) : p[i] \in Stems /\ p[i] \in Shape BY <1>4, <1>5, <1>7
<1>10. ASSUME NEW i \in 1 .. Len(p), NEW j \in 1 .. Len(p), p[i] = p[j] PROVE i = j
  <2>1. p[i].tier \in Nat /\ p[i].tier = p[j].tier BY <1>9, <1>10 DEF Shape
  <2>2. ~(i < j) /\ ~(j < i) BY <1>8, <2>1
  <2> QED BY <2>2, <1>3, <1>7
<1> QED BY <1>3, <1>5, <1>7, <1>9, <1>10

-----------------------------------------------------------------------------
(* Initially. *)

LEMMA InitKeyInv == KeyInit => KeyInv /\ RefusedAfterEveryShape /\ PublishedVerifies
<1> SUFFICES ASSUME KeyInit PROVE KeyInv /\ RefusedAfterEveryShape /\ PublishedVerifies OBVIOUS
<1> USE DEF KeyInit
<1>1. KeyTypeOK
  <2>1. plan.keygen \in Plans /\ plan.prover \in Plans OBVIOUS
  <2>2. files \in [Stems -> [Ext -> [setup : Setups, whole : BOOLEAN]]]
    BY DEF Setups, Ext, Nothing
  <2>3. params \in Keys BY DEF NoParams, NoShape, Keys, Shape, Setups, Nothing
  <2>4. at \in 0 .. Len(plan.prover) BY <2>1, PlanIsSequence
  <2>5. got \in Seq(Setups \cup {Torn}) /\ Len(got) < 3 OBVIOUS
  <2>6. open \in BOOLEAN OBVIOUS
  <2>7. gen = "off" /\ stage = "claim" /\ flawed \in BOOLEAN OBVIOUS
  <2>8. setups = 0 /\ shape = 1 /\ step = 1 OBVIOUS
  <2> HIDE DEF KeyInit
  <2> QED BY <2>1, <2>2, <2>3, <2>4, <2>5, <2>6, <2>7, <2>8 DEF KeyTypeOK
<1>2. DoneIsUsable /\ WrittenSoFar /\ TriedSoFar
  BY DEF DoneIsUsable, WrittenSoFar, TriedSoFar
<1>3. CacheSoFar
  BY DEF CacheSoFar, NoParams, NoShape, Nothing
<1> QED BY <1>1, <1>2, <1>3 DEF KeyInv, RefusedAfterEveryShape, PublishedVerifies

-----------------------------------------------------------------------------
(* Steps of keygen: the prover's state stands, setups and the setup of a   *)
(* file only grow.                                                         *)

LEMMA ProverStands ==
  ASSUME KeyTypeOK, TriedSoFar, CacheSoFar, RefusedAfterEveryShape, PublishedVerifies,
         UNCHANGED <<plan, prover>>,
         setups' \in Nat, setups <= setups',
         files' \in [Stems -> [Ext -> [setup : Setups', whole : BOOLEAN]]],
         \A stem \in Stems : files[stem]["vk"].setup <= files'[stem]["vk"].setup
  PROVE  /\ TriedSoFar' /\ CacheSoFar' /\ RefusedAfterEveryShape' /\ PublishedVerifies'
         /\ stage' \in {"claim", "load", "try", "refused", "unloaded"} /\ params' \in Keys'
         /\ flawed' \in BOOLEAN /\ at' \in 0 .. Len(plan.prover)' /\ got' \in Seq(Setups \cup {Torn})' /\ Len(got)' < 3
         /\ plan'.keygen \in Plans /\ plan'.prover \in Plans
<1> USE DEF prover
<1>1. TriedSoFar' /\ RefusedAfterEveryShape'
  BY DEF TriedSoFar, RefusedAfterEveryShape, Proves, Usable, InPlan
<1>2. Setups \subseteq Setups' BY DEF KeyTypeOK, Setups
<1>3. params' \in Keys' BY <1>2 DEF KeyTypeOK, Keys
<1>4. got' \in Seq(Setups \cup {Torn})'
  <2>1. got \in Seq(Setups \cup {Torn}) BY DEF KeyTypeOK
  <2>2. \A i \in 1 .. Len(got) : got[i] \in Setups' \cup {Torn} BY <1>2, <2>1, ElementOfSeq
  <2>3. got \in Seq(Setups' \cup {Torn}) BY <2>1, <2>2, SeqDef, LenProperties
  <2> QED BY <2>3 DEF Torn
<1>5. \A stem \in Stems : files[stem]["vk"].setup \in Nat /\ files'[stem]["vk"].setup \in Nat
  BY DEF KeyTypeOK, Ext, Setups
<1>6. ASSUME params.shape \in Stems PROVE params.vk <= files'[params.shape]["vk"].setup
  <2>1. params.vk \in Int BY DEF KeyTypeOK, Keys, Setups, Torn
  <2>2. params.vk <= files[params.shape]["vk"].setup BY <1>6 DEF CacheSoFar
  <2> QED BY <1>5, <1>6, <2>1, <2>2
<1>7. CacheSoFar' BY <1>2, <1>6 DEF CacheSoFar, Stems, NoParams, Torn
<1>8. PublishedVerifies'
  <2> SUFFICES ASSUME NEW proof \in published
               PROVE proof.pk = proof.vk /\ proof.vk <= files'[proof.shape]["vk"].setup
    BY DEF PublishedVerifies
  <2>1. proof.shape \in Stems /\ proof.vk \in Int BY DEF CacheSoFar, Setups, Torn, KeyTypeOK
  <2>2. proof.pk = proof.vk /\ proof.vk <= files[proof.shape]["vk"].setup BY DEF PublishedVerifies
  <2> QED BY <1>5, <2>1, <2>2
<1> QED BY <1>1, <1>3, <1>4, <1>7, <1>8 DEF KeyTypeOK

(* What a step of keygen has to show, and what the prover's part of the    *)
(* invariant then gives.                                                   *)
LEMMA KeygenStep ==
  ASSUME KeyInv, RefusedAfterEveryShape, PublishedVerifies, UNCHANGED <<plan, prover>>,
         setups' \in Nat, setups <= setups',
         gen' \in {"off", "setup", "write", "done", "failed"},
         shape' \in Nat \ {0}, step' \in 1 .. 3, open' \in BOOLEAN,
         gen' = "write" => shape' \in DOMAIN plan.keygen,
         files' \in [Stems -> [Ext -> [setup : Setups', whole : BOOLEAN]]],
         \A stem \in Stems : files[stem]["vk"].setup <= files'[stem]["vk"].setup,
         DoneIsUsable', WrittenSoFar'
  PROVE  KeyInv' /\ RefusedAfterEveryShape' /\ PublishedVerifies'
<1>1. KeyTypeOK /\ TriedSoFar /\ CacheSoFar BY DEF KeyInv
<1>2. /\ TriedSoFar' /\ CacheSoFar' /\ RefusedAfterEveryShape' /\ PublishedVerifies'
      /\ stage' \in {"claim", "load", "try", "refused", "unloaded"} /\ params' \in Keys'
      /\ flawed' \in BOOLEAN /\ at' \in 0 .. Len(plan.prover)' /\ got' \in Seq(Setups \cup {Torn})' /\ Len(got)' < 3
      /\ plan'.keygen \in Plans /\ plan'.prover \in Plans
  BY <1>1, ProverStands
<1>3. plan' = plan OBVIOUS
<1>4. KeyTypeOK' BY <1>2, <1>3 DEF KeyTypeOK
<1> QED BY <1>2, <1>4 DEF KeyInv

\* nothing is written
LEMMA FilesStand ==
  ASSUME KeyTypeOK, UNCHANGED files, setups' \in Nat, setups <= setups'
  PROVE  /\ files' \in [Stems -> [Ext -> [setup : Setups', whole : BOOLEAN]]]
         /\ \A stem \in Stems : files[stem]["vk"].setup <= files'[stem]["vk"].setup
<1>1. Setups \subseteq Setups' BY DEF KeyTypeOK, Setups
<1>2. files \in [Stems -> [Ext -> [setup : Setups, whole : BOOLEAN]]] BY DEF KeyTypeOK
<1>3. ASSUME NEW stem \in Stems, NEW ext \in Ext
      PROVE files[stem][ext] \in [setup : Setups', whole : BOOLEAN] /\ files[stem][ext].setup \in Nat
  <2>1. files[stem][ext] \in [setup : Setups, whole : BOOLEAN] BY <1>2
  <2> QED BY <1>1, <2>1 DEF Setups, KeyTypeOK
<1>4. \A stem \in Stems : files[stem] \in [Ext -> [setup : Setups', whole : BOOLEAN]] BY <1>2, <1>3
<1>5. files \in [Stems -> [Ext -> [setup : Setups', whole : BOOLEAN]]] BY <1>2, <1>4
<1>6. \A stem \in Stems : files[stem]["vk"].setup \in Nat BY <1>3 DEF Ext
<1> QED BY <1>5, <1>6

KeysInv == KeyInv /\ RefusedAfterEveryShape /\ PublishedVerifies

LEMMA StartKeygenKeeps == KeysInv /\ StartKeygen => KeysInv'
<1> SUFFICES ASSUME KeysInv, StartKeygen PROVE KeysInv' OBVIOUS
<1>1. KeyInv /\ KeyTypeOK /\ WrittenSoFar BY DEF KeysInv, KeyInv
<1>2. /\ UNCHANGED <<plan, prover>> /\ UNCHANGED files /\ setups' = setups /\ step' = step
      /\ open' = open /\ gen' = "setup" /\ shape' = 1 /\ gen # "write"
  BY DEF StartKeygen, directory
<1>3. open' = FALSE BY <1>1, <1>2 DEF WrittenSoFar, KeyTypeOK
<1>4. DoneIsUsable' BY <1>2 DEF DoneIsUsable
<1>5. WrittenSoFar'
  <2>1. \A i \in DOMAIN plan.keygen : ~(i < 1) BY <1>1, PlanIsSequence DEF KeyTypeOK
  <2> QED BY <1>2, <1>3, <2>1 DEF WrittenSoFar
<1>6. setups \in Nat /\ step \in 1 .. 3 /\ open \in BOOLEAN BY <1>1 DEF KeyTypeOK
<1> QED BY <1>1, <1>2, <1>4, <1>5, <1>6, FilesStand, KeygenStep DEF KeysInv

LEMMA SetupKeeps == KeysInv /\ Setup => KeysInv'
<1> SUFFICES ASSUME KeysInv, Setup PROVE KeysInv' OBVIOUS
<1>1. KeyInv /\ KeyTypeOK /\ WrittenSoFar BY DEF KeysInv, KeyInv
<1>2. /\ UNCHANGED <<plan, prover>> /\ UNCHANGED files /\ shape' = shape /\ open' = open /\ gen = "setup"
  BY DEF Setup, directory
<1>3. open' = FALSE BY <1>1, <1>2 DEF WrittenSoFar, KeyTypeOK
<1>4. setups \in Nat /\ step \in 1 .. 3 /\ open \in BOOLEAN /\ shape \in Nat \ {0} BY <1>1 DEF KeyTypeOK
<1>5. CASE shape \in DOMAIN plan.keygen /\ setups' = setups + 1 /\ gen' = "write" /\ step' = 1
  <2>1. DoneIsUsable' BY <1>5 DEF DoneIsUsable
  <2>2. WrittenSoFar' BY <1>1, <1>2, <1>3, <1>5 DEF WrittenSoFar, Paired
  <2>3. setups' \in Nat /\ setups <= setups' BY <1>4, <1>5
  <2>4. open' \in BOOLEAN BY <1>2, <1>4
  <2> QED BY <1>1, <1>2, <1>4, <1>5, <2>1, <2>2, <2>3, <2>4, FilesStand, KeygenStep DEF KeysInv
<1>6. CASE shape \notin DOMAIN plan.keygen /\ gen' = "done" /\ UNCHANGED <<setups, step>>
  <2>1. \A i \in DOMAIN plan.keygen : i < shape
    BY <1>1, <1>4, <1>6, PlanIsSequence DEF KeyTypeOK
  <2>2. \A i \in DOMAIN plan.keygen :
          Paired(plan.keygen[i]) /\ \A ext \in Ext : files[plan.keygen[i]][ext].whole
    BY <1>1, <1>2, <2>1 DEF WrittenSoFar
  <2>3. DoneIsUsable' BY <1>2, <2>2 DEF DoneIsUsable, Paired
  <2>4. WrittenSoFar' BY <1>2, <1>3, <1>6, <2>2 DEF WrittenSoFar, Paired
  <2>5. open' \in BOOLEAN BY <1>2, <1>4
  <2> QED BY <1>1, <1>2, <1>4, <1>6, <2>3, <2>4, <2>5, FilesStand, KeygenStep DEF KeysInv
<1> QED BY <1>5, <1>6 DEF Setup

LEMMA StopKeygenKeeps == KeysInv /\ StopKeygen => KeysInv'
<1> SUFFICES ASSUME KeysInv, StopKeygen PROVE KeysInv' OBVIOUS
<1>1. KeyInv /\ KeyTypeOK /\ WrittenSoFar BY DEF KeysInv, KeyInv
<1>2. /\ UNCHANGED <<plan, prover>> /\ UNCHANGED files /\ setups' = setups /\ shape' = shape
      /\ step' = step /\ gen' = "failed"
  BY DEF StopKeygen, directory
<1>3. open' = FALSE BY DEF StopKeygen
<1>4. DoneIsUsable' /\ WrittenSoFar' BY <1>2, <1>3 DEF DoneIsUsable, WrittenSoFar
<1>5. setups \in Nat /\ step \in 1 .. 3 /\ shape \in Nat \ {0} BY <1>1 DEF KeyTypeOK
<1>6. open' \in BOOLEAN BY <1>3
<1> QED BY <1>1, <1>2, <1>4, <1>5, <1>6, FilesStand, KeygenStep DEF KeysInv

-----------------------------------------------------------------------------
(* One file is changed: the one keygen is at.                              *)

LEMMA Replaced ==
  ASSUME NEW E, NEW R, NEW f \in [E -> R], NEW e, NEW r \in R
  PROVE  [f EXCEPT ![e] = r] \in [E -> R]
OBVIOUS

LEMMA OneFile ==
  ASSUME KeyTypeOK, gen = "write", UNCHANGED <<plan, setups>>,
         NEW file \in [setup : Setups, whole : BOOLEAN],
         files[plan.keygen[shape]][Written[step]].setup <= file.setup,
         files' = [files EXCEPT ![plan.keygen[shape]][Written[step]] = file]
  PROVE  /\ files' \in [Stems -> [Ext -> [setup : Setups', whole : BOOLEAN]]]
         /\ \A stem \in Stems : files[stem]["vk"].setup <= files'[stem]["vk"].setup
         /\ files'[plan.keygen[shape]][Written[step]] = file
         /\ \A k \in 1 .. 3 : k # step =>
              files'[plan.keygen[shape]][Written[k]] = files[plan.keygen[shape]][Written[k]]
         /\ \A i \in DOMAIN plan.keygen : i < shape =>
              files'[plan.keygen[i]] = files[plan.keygen[i]]
<1> DEFINE here == plan.keygen[shape]
<1>1. /\ files \in [Stems -> [Ext -> [setup : Setups, whole : BOOLEAN]]]
      /\ shape \in DOMAIN plan.keygen /\ step \in 1 .. 3 /\ plan.keygen \in Plans
  BY DEF KeyTypeOK
<1>2. here \in Stems BY <1>1, PlanIsSequence
<1>3. \A k \in 1 .. 3 : Written[k] \in Ext /\ (k # step => Written[k] # Written[step])
  BY <1>1 DEF Written, Ext
<1>4. files' = [files EXCEPT ![here] = [files[here] EXCEPT ![Written[step]] = file]]
  BY <1>1
<1> HIDE DEF here
<1>5. files[here] \in [Ext -> [setup : Setups, whole : BOOLEAN]] BY <1>1, <1>2
<1>6. files'[here] = [files[here] EXCEPT ![Written[step]] = file] BY <1>1, <1>2, <1>4
<1>7. \A stem \in Stems : stem # here => files'[stem] = files[stem] BY <1>1, <1>2, <1>4
<1>8. files'[here] \in [Ext -> [setup : Setups, whole : BOOLEAN]]
  <2> DEFINE R == [setup : Setups, whole : BOOLEAN]
  <2>1. files[here] \in [Ext -> R] /\ file \in R BY <1>5
  <2> HIDE DEF R
  <2>2. [files[here] EXCEPT ![Written[step]] = file] \in [Ext -> R] BY <2>1, Replaced
  <2> QED BY <1>6, <2>2 DEF R
<1>9. files' \in [Stems -> [Ext -> [setup : Setups', whole : BOOLEAN]]]
  <2>1. \A stem \in Stems : [files[here] EXCEPT ![Written[step]] = file]
                              \in [Ext -> [setup : Setups, whole : BOOLEAN]] BY <1>6, <1>8
  <2>2. files' \in [Stems -> [Ext -> [setup : Setups, whole : BOOLEAN]]] BY <1>1, <1>4, <2>1
  <2>3. Setups' = Setups BY DEF Setups
  <2> QED BY <2>2, <2>3
<1>10. files'[here][Written[step]] = file BY <1>1, <1>3, <1>5, <1>6
<1>11. \A k \in 1 .. 3 : k # step => files'[here][Written[k]] = files[here][Written[k]]
  BY <1>3, <1>5, <1>6
<1>12. ASSUME NEW stem \in Stems PROVE files[stem]["vk"].setup <= files'[stem]["vk"].setup
  <2>1. files[stem]["vk"].setup \in Int
    <3>1. files[stem]["vk"] \in [setup : Setups, whole : BOOLEAN] BY <1>1 DEF Ext
    <3> QED BY <3>1 DEF Setups
  <2>2. CASE stem # here BY <1>7, <2>1, <2>2
  <2>3. CASE stem = here
    <3>1. CASE Written[step] = "vk" BY <1>10, <2>3, <3>1 DEF here
    <3>2. CASE Written[step] # "vk" BY <1>5, <1>6, <2>1, <2>3, <3>2 DEF Ext
    <3> QED BY <3>1, <3>2
  <2> QED BY <2>2, <2>3
<1>13. ASSUME NEW i \in DOMAIN plan.keygen, i < shape PROVE files'[plan.keygen[i]] = files[plan.keygen[i]]
  <2>1. plan.keygen[i] # here /\ plan.keygen[i] \in Stems BY <1>1, <1>13, PlanIsSequence DEF here
  <2> QED BY <1>7, <2>1
<1> QED BY <1>9, <1>10, <1>11, <1>12, <1>13 DEF here

LEMMA CreateFileKeeps == KeysInv /\ CreateFile => KeysInv'
<1> SUFFICES ASSUME KeysInv, CreateFile PROVE KeysInv' OBVIOUS
<1>1. KeyInv /\ KeyTypeOK /\ WrittenSoFar BY DEF KeysInv, KeyInv
<1>2. /\ UNCHANGED <<plan, prover>> /\ setups' = setups /\ shape' = shape /\ step' = step
      /\ gen' = gen /\ gen = "write"
  BY DEF CreateFile
<1>3. open' \in BOOLEAN /\ open' = TRUE BY DEF CreateFile
<1>4. setups \in Nat /\ step \in 1 .. 3 /\ shape \in Nat \ {0} /\ shape \in DOMAIN plan.keygen
  BY <1>1, <1>2 DEF KeyTypeOK
<1> DEFINE file == [setup |-> setups, whole |-> FALSE]
<1>5. file \in [setup : Setups, whole : BOOLEAN] BY <1>4 DEF Setups
<1>6. files' = [files EXCEPT ![plan.keygen[shape]][Written[step]] = file]
  BY DEF CreateFile, File
<1>7. files[plan.keygen[shape]][Written[step]].setup <= file.setup
  <2>1. plan.keygen[shape] \in Stems /\ Written[step] \in Ext
    BY <1>1, <1>4, PlanIsSequence DEF KeyTypeOK, Written, Ext
  <2>2. files[plan.keygen[shape]][Written[step]] \in [setup : Setups, whole : BOOLEAN]
    BY <1>1, <2>1 DEF KeyTypeOK
  <2> QED BY <1>4, <2>2 DEF Setups
<1> HIDE DEF file
<1>8. /\ files' \in [Stems -> [Ext -> [setup : Setups', whole : BOOLEAN]]]
      /\ \A stem \in Stems : files[stem]["vk"].setup <= files'[stem]["vk"].setup
      /\ files'[plan.keygen[shape]][Written[step]] = file
      /\ \A k \in 1 .. 3 : k # step =>
           files'[plan.keygen[shape]][Written[k]] = files[plan.keygen[shape]][Written[k]]
      /\ \A i \in DOMAIN plan.keygen : i < shape => files'[plan.keygen[i]] = files[plan.keygen[i]]
  BY <1>1, <1>2, <1>5, <1>6, <1>7, OneFile
<1>9. DoneIsUsable' BY <1>2 DEF DoneIsUsable
<1>10. file.setup = setups BY DEF file
<1>11. WrittenSoFar'
  <2>1. \A i \in DOMAIN plan.keygen : i < shape =>
          (Paired(plan.keygen[i]) /\ \A ext \in Ext : files[plan.keygen[i]][ext].whole)'
    BY <1>1, <1>2, <1>8 DEF WrittenSoFar, Paired
  <2>2. ASSUME NEW k \in 1 .. 3
        PROVE /\ k < step => files'[plan.keygen[shape]][Written[k]].setup = setups
                             /\ files'[plan.keygen[shape]][Written[k]].whole
              /\ k = step => files'[plan.keygen[shape]][Written[k]].setup = setups
    BY <1>1, <1>2, <1>4, <1>8, <1>10 DEF WrittenSoFar
  <2> QED BY <1>2, <1>3, <2>1, <2>2 DEF WrittenSoFar
<1> QED BY <1>1, <1>2, <1>3, <1>4, <1>8, <1>9, <1>11, KeygenStep DEF KeysInv

LEMMA WriteFileKeeps == KeysInv /\ WriteFile => KeysInv'
<1> SUFFICES ASSUME KeysInv, WriteFile PROVE KeysInv' OBVIOUS
<1>1. KeyInv /\ KeyTypeOK /\ WrittenSoFar BY DEF KeysInv, KeyInv
<1>2. /\ UNCHANGED <<plan, prover>> /\ setups' = setups /\ gen = "write" /\ open /\ open' = FALSE
  BY DEF WriteFile
<1>3. setups \in Nat /\ step \in 1 .. 3 /\ shape \in Nat \ {0} /\ shape \in DOMAIN plan.keygen
  BY <1>1, <1>2 DEF KeyTypeOK
<1> DEFINE here == plan.keygen[shape]
           old == files[here][Written[step]]
           file == [old EXCEPT !.whole = TRUE]
<1>4. here \in Stems /\ Written[step] \in Ext
  BY <1>1, <1>3, PlanIsSequence DEF KeyTypeOK, Written, Ext
<1>5. old \in [setup : Setups, whole : BOOLEAN] BY <1>1, <1>4 DEF KeyTypeOK
<1>6. old.setup = setups BY <1>1, <1>2, <1>3 DEF WrittenSoFar
<1>7. files' = [files EXCEPT ![here][Written[step]] = file] BY DEF WriteFile
<1> HIDE DEF old
<1>8. file \in [setup : Setups, whole : BOOLEAN] /\ file.setup = setups /\ file.whole BY <1>5, <1>6
<1>9. old.setup <= file.setup BY <1>3, <1>6, <1>8
<1> HIDE DEF file, here
<1>10. /\ files' \in [Stems -> [Ext -> [setup : Setups', whole : BOOLEAN]]]
       /\ \A stem \in Stems : files[stem]["vk"].setup <= files'[stem]["vk"].setup
       /\ files'[here][Written[step]] = file
       /\ \A k \in 1 .. 3 : k # step => files'[here][Written[k]] = files[here][Written[k]]
       /\ \A i \in DOMAIN plan.keygen : i < shape => files'[plan.keygen[i]] = files[plan.keygen[i]]
  BY <1>1, <1>2, <1>7, <1>8, <1>9, OneFile DEF here, old
<1>11. \A i \in DOMAIN plan.keygen : i < shape =>
         (Paired(plan.keygen[i]) /\ \A ext \in Ext : files[plan.keygen[i]][ext].whole)'
  BY <1>1, <1>2, <1>10 DEF WrittenSoFar, Paired
<1>12. ASSUME NEW k \in 1 .. 3, k <= step
       PROVE  files'[here][Written[k]].setup = setups /\ files'[here][Written[k]].whole
  <2>1. CASE k = step BY <1>8, <1>10, <2>1
  <2>2. CASE k < step
    <3>1. files[here][Written[k]].setup = setups /\ files[here][Written[k]].whole
      BY <1>1, <1>2, <2>2 DEF WrittenSoFar, here
    <3> QED BY <1>10, <2>2, <3>1
  <2> QED BY <1>3, <1>12, <2>1, <2>2
<1>13. open' \in BOOLEAN BY <1>2
<1>14. CASE step < 3 /\ step' = step + 1 /\ gen' = gen /\ shape' = shape
  <2>1. DoneIsUsable' BY <1>2, <1>14 DEF DoneIsUsable
  <2>2. WrittenSoFar'
    <3>1. \A k \in 1 .. 3 : k < step' => files'[here][Written[k]].setup = setups
                                         /\ files'[here][Written[k]].whole
      BY <1>3, <1>12, <1>14
    <3> QED BY <1>2, <1>11, <1>14, <3>1 DEF WrittenSoFar, here
  <2>3. step' \in 1 .. 3 BY <1>3, <1>14
  <2> QED BY <1>1, <1>2, <1>3, <1>10, <1>13, <1>14, <2>1, <2>2, <2>3, KeygenStep DEF KeysInv
<1>15. CASE step = 3 /\ gen' = "setup" /\ shape' = shape + 1 /\ step' = step
  <2>1. DoneIsUsable' BY <1>15 DEF DoneIsUsable
  <2>2. /\ files'[here]["pk"].setup = files'[here]["vk"].setup
        /\ \A ext \in Ext : files'[here][ext].whole
    <3>1. \A k \in 1 .. 3 : files'[here][Written[k]].setup = setups /\ files'[here][Written[k]].whole
      BY <1>12, <1>15
    <3>2. Written[1] = "pk" /\ Written[2] = "vk" /\ Written[3] = "r1cs" BY DEF Written
    <3>3. /\ files'[here][Written[1]].setup = setups /\ files'[here][Written[1]].whole
          /\ files'[here][Written[2]].setup = setups /\ files'[here][Written[2]].whole
          /\ files'[here][Written[3]].setup = setups /\ files'[here][Written[3]].whole
      BY <3>1
    <3> QED BY <3>2, <3>3 DEF Ext
  <2>3. WrittenSoFar'
    <3>1. ASSUME NEW i \in DOMAIN plan.keygen, i < shape'
          PROVE  (Paired(plan.keygen[i]) /\ \A ext \in Ext : files[plan.keygen[i]][ext].whole)'
      <4>1. i \in Int BY <1>1, PlanIsSequence DEF KeyTypeOK
      <4>2. i < shape \/ i = shape BY <1>3, <1>15, <3>1, <4>1
      <4>3. CASE i < shape BY <1>11, <4>3
      <4>4. CASE i = shape BY <1>2, <2>2, <4>4 DEF here, Paired
      <4> QED BY <4>2, <4>3, <4>4
    <3> QED BY <1>2, <1>15, <3>1 DEF WrittenSoFar, Paired
  <2>4. shape' \in Nat \ {0} BY <1>3, <1>15
  <2> QED BY <1>1, <1>2, <1>3, <1>10, <1>13, <1>15, <2>1, <2>3, <2>4, KeygenStep DEF KeysInv
<1>16. Len(Written) = 3 BY DEF Written
<1> QED BY <1>3, <1>14, <1>15, <1>16 DEF WriteFile

-----------------------------------------------------------------------------
(* Steps of the prover: the directory and keygen stand.                    *)

LEMMA ProverStep ==
  ASSUME KeysInv, UNCHANGED <<directory, keygen>>,
         stage' \in {"claim", "load", "try", "refused", "unloaded"},
         flawed' \in BOOLEAN, params' \in Keys', at' \in 0 .. Len(plan.prover),
         got' \in Seq(Setups \cup {Torn}), Len(got') < 3,
         TriedSoFar', CacheSoFar', RefusedAfterEveryShape', PublishedVerifies'
  PROVE  KeysInv'
<1> USE DEF KeysInv, KeyInv, directory, keygen
<1>1. Setups' = Setups BY DEF Setups
<1>2. KeyTypeOK' BY <1>1 DEF KeyTypeOK
<1>3. DoneIsUsable' BY DEF DoneIsUsable, Paired
<1>4. WrittenSoFar' BY DEF WrittenSoFar, Paired
<1> QED BY <1>2, <1>3, <1>4

\* the proofs, and the cached keys, are the ones there were
LEMMA CacheStands ==
  ASSUME KeysInv, UNCHANGED <<directory, keygen, params, published>>
  PROVE  CacheSoFar' /\ PublishedVerifies' /\ params' \in Keys'
<1>1. CacheSoFar /\ PublishedVerifies /\ params \in Keys BY DEF KeysInv, KeyInv, KeyTypeOK
<1>2. Setups' = Setups BY DEF Setups, keygen
<1>3. CacheSoFar' BY <1>1, <1>2 DEF CacheSoFar, directory
<1>4. PublishedVerifies' BY <1>1 DEF PublishedVerifies, directory
<1> QED BY <1>1, <1>2, <1>3, <1>4 DEF Keys

LEMMA ClaimKeeps == KeysInv /\ Claim => KeysInv'
<1> SUFFICES ASSUME KeysInv, Claim PROVE KeysInv' OBVIOUS
<1>1. UNCHANGED <<directory, keygen, params, published>> BY DEF Claim
<1>2. CacheSoFar' /\ PublishedVerifies' /\ params' \in Keys' BY <1>1, CacheStands
<1>3. /\ got \in Seq(Setups \cup {Torn}) /\ Len(got) < 3
      /\ Len(plan.prover) \in Nat
  BY PlanIsSequence DEF KeysInv, KeyInv, KeyTypeOK
<1>4. at' = 0 /\ tried' = {} /\ batch' \in InPlan' /\ flawed' \in BOOLEAN
  BY <1>1 DEF Claim, InPlan, directory
<1>5. CASE stage' = "load" /\ want' = plan.prover[1] /\ got' = <<>>
  <2>1. TriedSoFar' BY <1>1, <1>4, <1>5 DEF TriedSoFar, directory
  <2>2. got' \in Seq(Setups \cup {Torn}) /\ Len(got') < 3 BY <1>5
  <2>3. at' \in 0 .. Len(plan.prover) BY <1>3, <1>4
  <2> QED BY <1>1, <1>2, <1>4, <1>5, <2>1, <2>2, <2>3, ProverStep DEF RefusedAfterEveryShape
<1>6. CASE stage' = "try" /\ UNCHANGED <<want, got>>
  <2>1. TriedSoFar' BY <1>1, <1>4, <1>6 DEF TriedSoFar, directory
  <2>2. got' \in Seq(Setups \cup {Torn}) /\ Len(got') < 3 BY <1>3, <1>6
  <2>3. at' \in 0 .. Len(plan.prover) BY <1>3, <1>4
  <2> QED BY <1>1, <1>2, <1>4, <1>6, <2>1, <2>2, <2>3, ProverStep DEF RefusedAfterEveryShape
<1> QED BY <1>5, <1>6 DEF Claim, Load

LEMMA ReadFailsKeeps == KeysInv /\ ReadFails => KeysInv'
<1> SUFFICES ASSUME KeysInv, ReadFails PROVE KeysInv' OBVIOUS
<1>1. UNCHANGED <<directory, keygen, params, published>> /\ UNCHANGED <<batch, flawed, want, got, at, tried>>
      /\ stage = "load" /\ stage' = "unloaded"
  BY DEF ReadFails
<1>2. CacheSoFar' /\ PublishedVerifies' /\ params' \in Keys' BY <1>1, CacheStands
<1>3. TriedSoFar' BY <1>1 DEF TriedSoFar, KeysInv, KeyInv
<1>4. /\ flawed' \in BOOLEAN /\ got' \in Seq(Setups \cup {Torn}) /\ Len(got') < 3 /\ at' \in 0 .. Len(plan.prover)
  BY <1>1 DEF KeysInv, KeyInv, KeyTypeOK
<1> QED BY <1>1, <1>2, <1>3, <1>4, ProverStep DEF RefusedAfterEveryShape

LEMMA RestartKeeps == KeysInv /\ RestartProver => KeysInv'
<1> SUFFICES ASSUME KeysInv, RestartProver PROVE KeysInv' OBVIOUS
<1>1. /\ UNCHANGED <<directory, keygen, published>> /\ stage' = "claim" /\ params' = NoParams
      /\ got' = <<>> /\ at' = 0 /\ tried' = {} /\ flawed' \in BOOLEAN
  BY DEF RestartProver
<1>2. KeysInv /\ CacheSoFar /\ PublishedVerifies /\ setups \in Nat /\ Len(plan.prover) \in Nat
  BY PlanIsSequence DEF KeysInv, KeyInv, KeyTypeOK
<1>3. Setups' = Setups /\ 0 \in Setups BY <1>1, <1>2 DEF Setups, keygen
<1>4. params' \in Keys' BY <1>1, <1>3 DEF Keys, NoParams, NoShape, Nothing, Shape
<1>5. NoParams.vk = 0 /\ \A stem \in Stems : files[stem]["vk"].setup \in Nat
  BY DEF NoParams, Nothing, KeysInv, KeyInv, KeyTypeOK, Ext, Setups
<1>6. CacheSoFar' /\ PublishedVerifies'
  <2>1. \A stem \in Stems : NoParams.vk <= files[stem]["vk"].setup BY <1>5
  <2> QED BY <1>1, <1>2, <1>3, <2>1 DEF CacheSoFar, PublishedVerifies, directory
<1>7. TriedSoFar' BY <1>1 DEF TriedSoFar
<1>8. /\ got' \in Seq(Setups \cup {Torn}) /\ Len(got') < 3 /\ at' \in 0 .. Len(plan.prover)
  BY <1>1, <1>2
<1> QED BY <1>1, <1>2, <1>4, <1>6, <1>7, <1>8, ProverStep DEF RefusedAfterEveryShape

LEMMA ReadFileKeeps == KeysInv /\ ReadFile => KeysInv'
<1> SUFFICES ASSUME KeysInv, ReadFile PROVE KeysInv' OBVIOUS
<1>1. /\ KeyTypeOK /\ TriedSoFar /\ CacheSoFar /\ PublishedVerifies
  BY DEF KeysInv, KeyInv
<1>2. /\ UNCHANGED <<directory, keygen>> /\ UNCHANGED <<batch, flawed, want, at, tried, published>> /\ stage = "load"
  BY DEF ReadFile
<1>3. /\ setups \in Nat /\ got \in Seq(Setups \cup {Torn}) /\ Len(got) < 3
      /\ at \in 0 .. Len(plan.prover) /\ flawed' \in BOOLEAN
  BY <1>1, <1>2 DEF KeyTypeOK
<1>4. Setups' = Setups BY <1>2 DEF Setups, keygen
<1>5. Len(got) \in Nat /\ DOMAIN got = 1 .. Len(got) BY <1>3, LenProperties
<1> DEFINE next == ReadOrder[Len(got) + 1]
<1>6. next \in Ext /\ Len(ReadOrder) = 3 /\ (Len(got) = 2 => next = "vk")
  BY <1>3, <1>5 DEF ReadOrder, Ext
<1> HIDE DEF next
<1>7. PICK content \in Contents(want, next) :
        IF Len(got) + 1 < Len(ReadOrder)
          THEN got' = Append(got, content) /\ UNCHANGED <<stage, params>>
          ELSE /\ params' = [shape |-> want, r1cs |-> got[1], pk |-> got[2], vk |-> content]
               /\ stage' = "try" /\ got' = <<>>
  BY DEF ReadFile, next
<1>8. want \in Stems BY <1>7 DEF Contents
<1>9. /\ files[want][next].setup \in Setups /\ files[want]["vk"].setup \in Nat
  <2>1. files \in [Stems -> [Ext -> [setup : Setups, whole : BOOLEAN]]] BY <1>1 DEF KeyTypeOK
  <2>2. /\ files[want][next] \in [setup : Setups, whole : BOOLEAN]
        /\ files[want]["vk"] \in [setup : Setups, whole : BOOLEAN]
    BY <1>6, <1>8, <2>1 DEF Ext
  <2> QED BY <2>2 DEF Setups
<1>10. content \in Setups \cup {Torn} /\ (content = files[want][next].setup \/ content = Torn)
  BY <1>7, <1>9 DEF Contents
<1>11. CASE Len(got) + 1 < 3
  <2>1. got' = Append(got, content) /\ UNCHANGED <<stage, params>> BY <1>6, <1>7, <1>11
  <2>2. got' \in Seq(Setups \cup {Torn}) /\ Len(got') < 3
    BY <1>3, <1>5, <1>10, <1>11, <2>1, AppendProperties
  <2>3. TriedSoFar' BY <1>1, <1>2, <2>1 DEF TriedSoFar, directory, InPlan, Proves, Usable
  <2>4. CacheSoFar' /\ PublishedVerifies' /\ params' \in Keys' BY <1>2, <2>1, CacheStands
  <2>5. stage' \in {"claim", "load", "try", "refused", "unloaded"} /\ stage' = "load" /\ at' \in 0 .. Len(plan.prover)
    BY <1>2, <1>3, <2>1
  <2> QED BY <1>2, <1>3, <2>2, <2>3, <2>4, <2>5, ProverStep DEF RefusedAfterEveryShape
<1>12. CASE ~(Len(got) + 1 < 3)
  <2>1. /\ params' = [shape |-> want, r1cs |-> got[1], pk |-> got[2], vk |-> content]
        /\ stage' = "try" /\ got' = <<>>
    BY <1>6, <1>7, <1>12
  <2>2. Len(got) = 2 BY <1>3, <1>5, <1>12
  <2>3. got[1] \in Setups \cup {Torn} /\ got[2] \in Setups \cup {Torn}
    <3>1. got \in Seq(Setups \cup {Torn}) /\ 1 \in 1 .. Len(got) /\ 2 \in 1 .. Len(got) BY <1>3, <2>2
    <3> HIDE DEF Setups, Torn
    <3> QED BY <3>1, ElementOfSeq
  <2>4. want \in Shape BY <1>8, StemIsShape
  <2>5. params' \in Keys' BY <1>4, <1>10, <2>1, <2>3, <2>4 DEF Keys
  <2>6. content <= files[want]["vk"].setup
    <3>1. content = files[want]["vk"].setup \/ content = -1 BY <1>6, <1>10, <2>2 DEF Torn
    <3> QED BY <1>9, <3>1
  <2>7. CacheSoFar'
    <3>1. params'.shape = want /\ params'.vk = content BY <2>1
    <3>2. files' = files /\ published' = published BY <1>2 DEF directory
    <3> QED BY <1>1, <1>4, <1>8, <2>6, <3>1, <3>2 DEF CacheSoFar
  <2>8. PublishedVerifies' BY <1>1, <1>2 DEF PublishedVerifies, directory
  <2>9. TriedSoFar'
    <3>1. params'.shape = want BY <2>1
    <3> QED BY <1>1, <1>2, <2>1, <3>1 DEF TriedSoFar, directory, InPlan, Proves, Usable
  <2>10. got' \in Seq(Setups \cup {Torn}) /\ Len(got') < 3 /\ at' \in 0 .. Len(plan.prover)
    BY <1>2, <1>3, <2>1
  <2> QED BY <1>2, <1>3, <2>1, <2>5, <2>7, <2>8, <2>9, <2>10, ProverStep DEF RefusedAfterEveryShape
<1> QED BY <1>11, <1>12

(* Every nonempty set of naturals has a least element, and CHOOSE takes it. *)
LEMMA Least ==
  ASSUME NEW S \in SUBSET Nat, S # {}
  PROVE  \E i \in S : \A j \in S : i <= j
<1>1. \E i \in S : \A j \in S : ~(<<j, i>> \in OpToRel(<, Nat))
  BY NatLessThanWellFounded, WFMin
<1>2. \A j, i \in Nat : ~(<<j, i>> \in OpToRel(<, Nat)) => i <= j
  BY DEF OpToRel
<1> QED BY <1>1, <1>2

LEMMA TryKeeps == KeysInv /\ Try => KeysInv'
<1> SUFFICES ASSUME KeysInv, Try PROVE KeysInv' OBVIOUS
<1>1. /\ KeyTypeOK /\ TriedSoFar /\ CacheSoFar /\ PublishedVerifies /\ RefusedAfterEveryShape
  BY DEF KeysInv, KeyInv
<1>2. /\ UNCHANGED <<directory, keygen>> /\ UNCHANGED <<batch, flawed, params>> /\ stage = "try"
  BY DEF Try
<1>3. PICK attempt :
        /\ attempt.keys = params /\ tried' = tried \cup {attempt}
        /\ \/ /\ Proves(attempt)
              /\ published' = published \cup
                   {[shape |-> batch, pk |-> params.pk, vk |-> params.vk]}
              /\ stage' = "claim" /\ UNCHANGED <<want, got, at>>
           \/ /\ ~Proves(attempt) /\ Remaining # {} /\ UNCHANGED published
              /\ at' = CHOOSE i \in Remaining : \A j \in Remaining : i <= j
              /\ Load(plan.prover[at'])
           \/ /\ ~Proves(attempt) /\ Remaining = {}
              /\ stage' = "refused" /\ UNCHANGED <<want, got, at, published>>
  <2>1. PICK broke \in {FALSE, ~flawed /\ Usable(params)} :
          LET attempt == [keys |-> params, broke |-> broke] IN
            /\ tried' = tried \cup {attempt}
            /\ \/ /\ Proves(attempt)
                  /\ published' = published \cup
                       {[shape |-> batch, pk |-> params.pk, vk |-> params.vk]}
                  /\ stage' = "claim" /\ UNCHANGED <<want, got, at>>
               \/ /\ ~Proves(attempt) /\ Remaining # {}
                  /\ at' = CHOOSE i \in Remaining : \A j \in Remaining : i <= j
                  /\ Load(plan.prover[at']) /\ UNCHANGED published
               \/ /\ ~Proves(attempt) /\ Remaining = {}
                  /\ stage' = "refused" /\ UNCHANGED <<want, got, at, published>>
    BY DEF Try
  <2> DEFINE it == [keys |-> params, broke |-> broke]
  <2>2. it.keys = params OBVIOUS
  <2> WITNESS it
  <2> QED BY <2>1, <2>2
<1>4. /\ flawed' \in BOOLEAN /\ got \in Seq(Setups \cup {Torn}) /\ Len(got) < 3 /\ at \in 0 .. Len(plan.prover)
      /\ params \in Keys /\ plan.prover \in Plans
  BY <1>1, <1>2 DEF KeyTypeOK
<1>5. Setups' = Setups /\ params' \in Keys' BY <1>2, <1>4 DEF Setups, Keys, keygen
<1>6. Len(plan.prover) \in Nat /\ DOMAIN plan.prover = 1 .. Len(plan.prover)
  BY <1>4, PlanIsSequence
<1>7. batch \in InPlan /\ \A other \in tried : ~Proves(other) BY <1>1, <1>2 DEF TriedSoFar
<1>8. CASE /\ Proves(attempt) /\ stage' = "claim" /\ UNCHANGED <<want, got, at>>
           /\ published' = published \cup {[shape |-> batch, pk |-> params.pk, vk |-> params.vk]}
  <2> DEFINE proof == [shape |-> batch, pk |-> params.pk, vk |-> params.vk]
  <2>1. batch \in Stems BY <1>4, <1>6, <1>7, PlanIsSequence DEF InPlan
  <2>2. params.shape = batch /\ params.pk = params.vk BY <1>3, <1>8 DEF Proves, Usable
  <2>3. proof.pk = proof.vk /\ proof.vk = params.vk /\ proof.shape = batch
        /\ proof.vk <= files[batch]["vk"].setup
    BY <1>1, <2>1, <2>2 DEF CacheSoFar
  <2>4. proof.vk \in Setups \cup {Torn} BY <1>4 DEF Keys
  <2>5. published' = published \cup {proof} BY <1>8
  <2> HIDE DEF proof
  <2>6. files' = files BY <1>2 DEF directory
  <2>7. PublishedVerifies' BY <1>1, <2>3, <2>5, <2>6 DEF PublishedVerifies
  <2>8. CacheSoFar' BY <1>1, <1>2, <1>5, <2>1, <2>3, <2>4, <2>5, <2>6 DEF CacheSoFar
  <2>9. TriedSoFar' BY <1>8 DEF TriedSoFar
  <2>10. /\ got' \in Seq(Setups \cup {Torn}) /\ Len(got') < 3 /\ at' \in 0 .. Len(plan.prover)
    BY <1>4, <1>8
  <2> QED BY <1>2, <1>4, <1>5, <1>8, <2>7, <2>8, <2>9, <2>10, ProverStep DEF RefusedAfterEveryShape
<1>9. CASE /\ ~Proves(attempt) /\ Remaining # {} /\ UNCHANGED published
           /\ at' = CHOOSE i \in Remaining : \A j \in Remaining : i <= j
           /\ Load(plan.prover[at'])
  <2>1. Remaining \in SUBSET Nat BY <1>4, <1>6 DEF Remaining
  <2>2. \E i \in Remaining : \A j \in Remaining : i <= j BY <1>9, <2>1, Least
  <2>3. at' \in Remaining /\ \A j \in Remaining : at' <= j BY <1>9, <2>2
  <2>4. at' \in (at + 1) .. Len(plan.prover) BY <2>3 DEF Remaining
  <2>5. at' \in 1 .. Len(plan.prover) /\ at < at' BY <1>4, <1>6, <2>4
  <2>6. stage' = "load" /\ want' = plan.prover[at'] /\ got' = <<>> BY <1>9 DEF Load
  <2>7. CacheSoFar' /\ PublishedVerifies' BY <1>2, <1>9, CacheStands
  <2>8. ASSUME NEW i \in 1 .. (at' - 1) PROVE \E other \in tried' : other.keys.shape = plan.prover[i]
    <3>1. i \in Nat /\ i < at' /\ i <= Len(plan.prover) /\ 0 < i
      <4>1. at' \in Nat /\ at' <= Len(plan.prover) /\ Len(plan.prover) \in Nat BY <1>6, <2>5
      <4>2. \A n, m \in Nat : n <= m => \A k \in 1 .. (n - 1) : k \in Nat /\ k < n /\ k <= m /\ 0 < k
        OBVIOUS
      <4> QED BY <4>1, <4>2, Zenon
    <3>2. CASE at < i
      <4>1. i \notin Remaining BY <2>3, <2>5, <3>1
      <4>2. i \in (at + 1) .. Len(plan.prover) BY <1>4, <3>1, <3>2
      <4>3. plan.prover[i] = params.shape BY <4>1, <4>2 DEF Remaining
      <4> QED BY <1>3, <1>2, <4>3
    <3>3. CASE i = at
      <4>1. params.shape = plan.prover[at] BY <1>1, <1>2, <3>1, <3>3 DEF TriedSoFar
      <4> QED BY <1>3, <1>2, <3>3, <4>1
    <3>4. CASE i < at
      <4>1. at > 0 /\ i \in 1 .. (at - 1) BY <1>4, <3>1, <3>4
      <4>2. \E other \in tried : other.keys.shape = plan.prover[i] BY <1>1, <1>2, <4>1 DEF TriedSoFar
      <4> QED BY <1>3, <1>2, <4>2
    <3> QED BY <1>4, <3>1, <3>2, <3>3, <3>4
  <2>9. \A other \in tried' : ~Proves(other)' BY <1>3, <1>2, <1>7, <1>9 DEF Proves, Usable
  <2>10. batch' \in InPlan' BY <1>2, <1>7 DEF InPlan, directory
  <2>11. at' > 0 BY <2>5
  <2>12. TriedSoFar' BY <1>2, <2>6, <2>8, <2>9, <2>10, <2>11 DEF TriedSoFar, directory
  <2>13. got' \in Seq(Setups \cup {Torn}) /\ Len(got') < 3 /\ at' \in 0 .. Len(plan.prover)
    BY <1>6, <2>5, <2>6
  <2> QED BY <1>2, <1>4, <1>5, <2>6, <2>7, <2>12, <2>13, ProverStep DEF RefusedAfterEveryShape
<1>10. CASE ~Proves(attempt) /\ Remaining = {} /\ stage' = "refused" /\ UNCHANGED <<want, got, at, published>>
  <2>1. CacheSoFar' /\ PublishedVerifies' BY <1>2, <1>10, CacheStands
  <2>2. ASSUME NEW i \in 1 .. Len(plan.prover) PROVE \E other \in tried' : other.keys.shape = plan.prover[i]
    <3>1. CASE at < i
      <4>1. i \in (at + 1) .. Len(plan.prover) BY <1>4, <1>6, <3>1
      <4>2. plan.prover[i] = params.shape BY <1>10, <4>1 DEF Remaining
      <4> QED BY <1>3, <1>2, <4>2
    <3>2. CASE i = at
      <4>1. params.shape = plan.prover[at] BY <1>1, <1>2, <3>2 DEF TriedSoFar
      <4> QED BY <1>3, <1>2, <3>2, <4>1
    <3>3. CASE i < at
      <4>1. at > 0 /\ i \in 1 .. (at - 1) BY <1>4, <1>6, <3>3
      <4>2. \E other \in tried : other.keys.shape = plan.prover[i] BY <1>1, <1>2, <4>1 DEF TriedSoFar
      <4> QED BY <1>3, <1>2, <4>2
    <3> QED BY <1>4, <1>6, <3>1, <3>2, <3>3
  <2>3. PICK i \in 1 .. Len(plan.prover) : batch = plan.prover[i] BY <1>6, <1>7 DEF InPlan
  <2>4. \A other \in tried' : ~Proves(other) BY <1>3, <1>7, <1>10
  <2>5. \/ flawed
        \/ \E other \in tried' :
             other.keys.shape = batch /\ (other.broke \/ ~Usable(other.keys))
    BY <2>2, <2>3, <2>4 DEF Proves
  <2>6. \A stem \in InPlan : \E other \in tried' : other.keys.shape = stem
    BY <1>6, <2>2 DEF InPlan
  <2>7. InPlan' = InPlan /\ batch' = batch /\ flawed' = flawed
    BY <1>2 DEF InPlan, directory
  <2>8. RefusedAfterEveryShape' BY <2>5, <2>6, <2>7 DEF RefusedAfterEveryShape, Usable
  <2>9. batch' \in InPlan' BY <1>2, <1>7 DEF InPlan, directory
  <2>10. TriedSoFar' BY <1>10, <2>9 DEF TriedSoFar
  <2>11. got' \in Seq(Setups \cup {Torn}) /\ Len(got') < 3 /\ at' \in 0 .. Len(plan.prover)
    BY <1>4, <1>10
  <2> QED BY <1>2, <1>4, <1>5, <1>10, <2>1, <2>8, <2>10, <2>11, ProverStep
<1> QED BY <1>3, <1>8, <1>9, <1>10

-----------------------------------------------------------------------------
(* The theorems. *)

LEMMA KeyStepKeeps == KeysInv /\ [KeyNext]_keyVars => KeysInv'
<1>1. ASSUME KeysInv, UNCHANGED keyVars PROVE KeysInv'
  <2> USE <1>1 DEF keyVars, directory, keygen, prover
  <2>1. Setups' = Setups BY DEF Setups
  <2>2. KeyTypeOK' BY <2>1 DEF KeysInv, KeyInv, KeyTypeOK, Keys
  <2>3. DoneIsUsable' /\ WrittenSoFar' BY DEF KeysInv, KeyInv, DoneIsUsable, WrittenSoFar, Paired
  <2>4. TriedSoFar' /\ RefusedAfterEveryShape'
    BY DEF KeysInv, KeyInv, TriedSoFar, RefusedAfterEveryShape, Proves, Usable, InPlan
  <2>5. CacheSoFar' /\ PublishedVerifies' BY <2>1 DEF KeysInv, KeyInv, CacheSoFar, PublishedVerifies
  <2> QED BY <2>2, <2>3, <2>4, <2>5 DEF KeysInv, KeyInv
<1> QED BY <1>1, StartKeygenKeeps, SetupKeeps, CreateFileKeeps, WriteFileKeeps, StopKeygenKeeps,
           ClaimKeeps, ReadFileKeeps, ReadFailsKeeps, TryKeeps, RestartKeeps DEF KeyNext

LEMMA KeysAlways == KeySpec => []KeysInv
<1>1. KeyInit => KeysInv BY InitKeyInv DEF KeysInv
<1> QED BY <1>1, KeyStepKeeps, PTL DEF KeySpec

(* Whatever keygen runs have come before and however they ended, one that  *)
(* ends well leaves usable keys for every shape (keygen.go:82-106); the    *)
(* loop over shapes skips none before its place, and the cache holds no    *)
(* verifying key newer than the one in the directory.                      *)
THEOREM KeysAreKept == KeySpec => []KeyInv
<1>1. KeysInv => KeyInv BY DEF KeysInv
<1> QED BY <1>1, KeysAlways, PTL

(* No batch is refused before the keys of every shape were tried on it,    *)
(* and none whose row is sound unless its own shape's keys were unusable   *)
(* then, or a call broke under them (dispatch.go:51-70).                   *)
THEOREM NoBatchIsRefusedUntried == KeySpec => []RefusedAfterEveryShape
<1>1. KeysInv => RefusedAfterEveryShape BY DEF KeysInv
<1> QED BY <1>1, KeysAlways, PTL

(* Every published proof is of one setup, and no setup newer than the      *)
(* verifying key in the directory (dispatch.go:78-130, load.go:38-78).     *)
THEOREM PublishedProofsVerify == KeySpec => []PublishedVerifies
<1>1. KeysInv => PublishedVerifies BY DEF KeysInv
<1> QED BY <1>1, KeysAlways, PTL

-----------------------------------------------------------------------------
(* The queue. *)

USE DEF Working, Exited, Pcs, Statuses, NoRow

(* Nothing is claimed, locked or proved at the start (fresh tables). *)
LEMMA InitInv == Init => IInv
  BY ProverAssumption
     DEF Init, IInv, TypeOK, ExclusiveClaim, NoDuplicateProof, FinishedIsProved,
         ClaimTransaction, NoBatchAbandoned, Matches, Holds, Heights, AllDown

(* A claim, committed or failed, touches one Published row, and nobody     *)
(* inside proveOne holds a Published row (ClaimOldestByStatus).            *)
LEMMA ClaimInv ==
  ASSUME NEW p \in Provers, IInv,
         SelectOldest(p) \/ SelectNothing(p) \/ ClaimCommit(p) \/ ClaimFails(p)
  PROVE  IInv'
<1> USE ProverAssumption
    DEF IInv, TypeOK, ExclusiveClaim, NoDuplicateProof, FinishedIsProved,
        ClaimTransaction, Matches, Holds, Heights, Goto, Forget, Unlock, reset, AllDown
<1>1. CASE SelectOldest(p)
  BY <1>1 DEF SelectOldest, Claimable, NoBatchAbandoned, bounds
<1>2. CASE SelectNothing(p)
  BY <1>2 DEF SelectNothing, NoBatchAbandoned, bounds, tables
<1>3. CASE ClaimCommit(p)
  BY <1>3 DEF ClaimCommit, NoBatchAbandoned, bounds
<1>4. CASE ClaimFails(p)
  <2>1. CASE UNCHANGED status
    BY <1>4, <2>1 DEF ClaimFails, Fault, NoBatchAbandoned
  <2>2. CASE /\ pc[p] = "update"
             /\ status' = [status EXCEPT ![row[p]] = "Received"]
    <3>1. TypeOK' BY <1>4, <2>2 DEF ClaimFails, Fault
    <3>2. NoBatchAbandoned'
      BY <1>4 DEF ClaimFails, Fault, NoBatchAbandoned
    <3>3. ExclusiveClaim' /\ NoDuplicateProof' /\ FinishedIsProved'
      BY <1>4, <2>2 DEF ClaimFails
    <3>4. ClaimTransaction'
      BY <1>4, <2>2 DEF ClaimFails
    <3>5. QED
      BY <1>4, <2>2, <3>1, <3>2, <3>3, <3>4 DEF ClaimFails
  <2>3. QED BY <1>4, <2>1, <2>2 DEF ClaimFails
<1>5. QED BY <1>1, <1>2, <1>3, <1>4

(* proveOne and persistProof: the proof row goes in before the status      *)
(* changes, and both concern a batch nobody else holds.                    *)
LEMMA ProveOneInv ==
  ASSUME NEW p \in Provers, IInv,
         \/ Probe(p) \/ ProveBatch(p) \/ CreateProof(p)
         \/ MarkFinished(p) \/ ProveOneFails(p)
  PROVE  IInv'
<1> USE ProverAssumption
    DEF IInv, TypeOK, ExclusiveClaim, NoDuplicateProof, FinishedIsProved,
        ClaimTransaction, Matches, Holds, Goto, Forget, bounds, reset, AllDown
<1>1. CASE Probe(p)
  BY <1>1 DEF Probe, NoBatchAbandoned, tables
<1>2. CASE ProveBatch(p)
  BY <1>2 DEF ProveBatch, NoBatchAbandoned, tables
<1>3. CASE CreateProof(p)
  <2>1. /\ row[p] \notin proofs /\ row' = row
        /\ pc' = [pc EXCEPT ![p] = "mark"]
        /\ proofs' = proofs \cup {row[p]}
        /\ UNCHANGED <<status, locked, cancelled, operator, dropped, crashes, faults, resets>>
    BY <1>3 DEF CreateProof
  <2>2. TypeOK'
    <3>1. proofs' \subseteq Heights BY <1>3, <2>1 DEF CreateProof
    <3>2. QED BY <1>3, <2>1, <3>1 DEF CreateProof
  <2>3. ExclusiveClaim' /\ NoDuplicateProof' /\ FinishedIsProved'
    BY <1>3, <2>1 DEF CreateProof
  <2>4. ClaimTransaction' BY <1>3, <2>1 DEF CreateProof
  <2>5. NoBatchAbandoned'
    <3>1. \A q \in Provers, h \in Heights : Holds(q, h) => Holds(q, h)'
      BY <1>3, <2>1 DEF CreateProof
    <3>2. QED BY <2>1, <3>1 DEF NoBatchAbandoned
  <2>6. QED BY <1>3, <2>1, <2>2, <2>3, <2>4, <2>5 DEF CreateProof
<1>4. CASE MarkFinished(p)
  BY <1>4 DEF MarkFinished, NoBatchAbandoned
<1>5. CASE ProveOneFails(p)
  <2>1. /\ pc[p] \in Working /\ pc' = [pc EXCEPT ![p] = "failed"]
        /\ row' = [row EXCEPT ![p] = NoRow]
        /\ faults' = faults + 1
        /\ UNCHANGED <<locked, cancelled, operator, dropped, crashes, resets>>
    BY <1>5 DEF ProveOneFails, Fault
  <2>2. CASE UNCHANGED <<status, proofs>>
    <3>1. TypeOK' BY <2>1, <2>2
    <3>2. ExclusiveClaim' /\ NoDuplicateProof' /\ FinishedIsProved'
      BY <2>1, <2>2
    <3>3. NoBatchAbandoned' BY <2>1 DEF NoBatchAbandoned
    <3>4. ClaimTransaction' BY <2>1, <2>2
    <3>5. QED BY <2>1, <2>2, <3>1, <3>2, <3>3, <3>4
  <2>3. CASE /\ pc[p] = "create"
             /\ proofs' = proofs \cup {row[p]}
             /\ UNCHANGED status
    <3>1. proofs' \subseteq Heights BY <2>3
    <3>2. TypeOK' BY <2>1, <2>3, <3>1
    <3>3. ExclusiveClaim' /\ NoDuplicateProof' /\ FinishedIsProved'
      BY <2>1, <2>3
    <3>4. NoBatchAbandoned' BY <2>1 DEF NoBatchAbandoned
    <3>5. QED BY <2>1, <2>3, <3>2, <3>3, <3>4
  <2>4. CASE /\ pc[p] = "mark"
             /\ status' = [status EXCEPT ![row[p]] = "Finished"]
             /\ UNCHANGED proofs
    <3>1. TypeOK' BY <2>1, <2>4
    <3>2. ExclusiveClaim' /\ NoDuplicateProof' /\ FinishedIsProved'
      BY <2>1, <2>4
    <3>3. NoBatchAbandoned' BY <2>1 DEF NoBatchAbandoned
    <3>4. QED BY <2>1, <2>4, <3>1, <3>2, <3>3
  <2>5. QED BY <1>5, <2>2, <2>3, <2>4 DEF ProveOneFails
<1>6. QED BY <1>1, <1>2, <1>3, <1>4, <1>5

(* The rest of the poll loop, and signals, deaths and restarts: a prover   *)
(* that leaves proveOne only ever stops holding a batch.                   *)
LEMMA ControlInv ==
  ASSUME NEW p \in Provers, IInv,
         CheckContext(p) \/ Backoff(p) \/ Signal(p) \/ Crash(p) \/ Restart(p)
  PROVE  IInv'
<1> USE ProverAssumption
    DEF IInv, TypeOK, ExclusiveClaim, NoDuplicateProof, FinishedIsProved,
        ClaimTransaction, NoBatchAbandoned, Matches, Holds, Heights, Goto,
        tables, bounds, reset, AllDown
<1>1. CASE CheckContext(p) BY <1>1 DEF CheckContext
<1>2. CASE Backoff(p) BY <1>2 DEF Backoff
<1>3. CASE Signal(p) BY <1>3 DEF Signal
<1>4. CASE Crash(p) BY <1>4 DEF Crash, Forget, Unlock
<1>5. CASE Restart(p) BY <1>5 DEF Restart
<1>6. QED BY <1>1, <1>2, <1>3, <1>4, <1>5

(* The witness service adds a row nobody refers to.                        *)
LEMMA PublishInv == IInv /\ Publish => IInv'
<1> USE ProverAssumption
    DEF IInv, TypeOK, ExclusiveClaim, NoDuplicateProof, FinishedIsProved,
        ClaimTransaction, NoBatchAbandoned, Matches, Holds, Heights, bounds, reset, AllDown
<1>1. SUFFICES ASSUME IInv, NEW h \in Heights, status[h] = "absent",
                      status' = [status EXCEPT ![h] = "Published"],
                      UNCHANGED <<locked, proofs, pc, row, cancelled, reset, bounds>>
               PROVE  IInv'
  BY DEF Publish
<1>2. QED BY <1>1

(* The operator moves rows and deletes proofs only when no prover runs:    *)
(* no row is held, locked or selected.                                     *)
LEMMA OperatorInv == IInv /\ Operator => IInv'
<1> USE ProverAssumption
    DEF IInv, TypeOK, ExclusiveClaim, NoDuplicateProof, FinishedIsProved,
        ClaimTransaction, NoBatchAbandoned, Matches, Holds, Heights, bounds, reset, AllDown
<1>1. IInv /\ RerunLatest => IInv' BY DEF RerunLatest
<1>2. ASSUME IInv, DeleteProofs PROVE IInv'
  <2>1. /\ AllDown /\ operator' = "deleted" /\ resets' = resets + 1 /\ proofs' = {}
        /\ dropped' = dropped \cup {h \in proofs : status[h] = "Finished"}
        /\ UNCHANGED <<status, locked, pc, row, cancelled, crashes, faults>>
    BY <1>2 DEF DeleteProofs
  <2>2. dropped' \subseteq Heights /\ \A h \in dropped' : status[h] = "Finished"
    BY <1>2, <2>1
  <2>3. TypeOK' BY <1>2, <2>1, <2>2
  <2>4. FinishedIsProved' BY <1>2, <2>1
  <2>5. ClaimTransaction' /\ NoBatchAbandoned' /\ ExclusiveClaim' /\ NoDuplicateProof'
    BY <1>2, <2>1
  <2>6. AllDown' BY <2>1
  <2>7. \A p \in Provers : pc'[p] \notin Working \cup {"update"} BY <2>6
  <2> QED BY <1>2, <2>1, <2>2, <2>3, <2>4, <2>5, <2>6, <2>7
<1>3. IInv /\ RequeueAll => IInv' BY DEF RequeueAll
<1>4. IInv /\ ResetStops => IInv' BY DEF ResetStops, tables
<1>5. QED BY <1>1, <1>2, <1>3, <1>4 DEF Operator

(* IInv is inductive: no step of any process breaks it. *)
LEMMA StepInv == IInv /\ [Next]_vars => IInv'
<1> SUFFICES ASSUME IInv, [Next]_vars PROVE IInv'
  OBVIOUS
<1>1. CASE Publish \/ Operator BY <1>1, PublishInv, OperatorInv
<1>2. ASSUME NEW p \in Provers, Step(p) \/ Signal(p) \/ Crash(p) \/ Restart(p)
      PROVE  IInv'
  BY <1>2, ClaimInv, ProveOneInv, ControlInv DEF Step
<1>3. CASE UNCHANGED vars
  BY <1>3 DEF vars, bounds, tables, reset, IInv, TypeOK, ExclusiveClaim,
              NoDuplicateProof, FinishedIsProved, ClaimTransaction,
              NoBatchAbandoned, Matches, Holds, AllDown
<1>4. QED BY <1>1, <1>2, <1>3 DEF Next

(* The inductive invariant holds in every reachable state. *)
THEOREM InductiveInvariant == Spec => []IInv
<1>1. QED BY InitInv, StepInv, PTL DEF Spec

(* Every variable keeps its type. *)
THEOREM TypeCorrect == Spec => []TypeOK
<1>1. IInv => TypeOK BY DEF IInv
<1>2. QED BY <1>1, InductiveInvariant, PTL

(* However claims, failures, deaths, restarts and resets interleave, no    *)
(* batch is in the hands of two provers (store/witness.go:113-119).        *)
THEOREM ClaimsAreExclusive == Spec => []ExclusiveClaim
<1>1. IInv => ExclusiveClaim BY DEF IInv
<1>2. QED BY <1>1, InductiveInvariant, PTL

(* The proof table's unique index is never hit: each batch is proved once  *)
(* (pkg/prover/prove.go:52-57 and 102-111).                                *)
THEOREM ProofsAreUnique == Spec => []NoDuplicateProof
<1>1. IInv => NoDuplicateProof BY DEF IInv
<1>2. QED BY <1>1, InductiveInvariant, PTL

(* A Finished row has its proof row (pkg/prover/prove.go:102-112), but for *)
(* those of which an interrupted reset has deleted the proof               *)
(* (docs/R13_GPU_RUNBOOK.md:91).                                           *)
THEOREM FinishedHasProof == Spec => []FinishedIsProved
<1>1. IInv => FinishedIsProved BY DEF IInv
<1>2. QED BY <1>1, InductiveInvariant, PTL

(* The conditional UPDATE of a claim always finds its row: the outcome     *)
(* store/witness.go:147-150 calls unreachable is.                          *)
THEOREM ClaimsAreIsolated == Spec => []ClaimTransaction
<1>1. IInv => ClaimTransaction BY DEF IInv
<1>2. QED BY <1>1, InductiveInvariant, PTL

(* Signals and empty queues orphan no batch; only a death or a failed call *)
(* does (pkg/prover/prover.go:27-34).                                      *)
THEOREM StoppingIsGraceful == Spec => []NoBatchAbandoned
<1>1. IInv => NoBatchAbandoned BY DEF IInv
<1>2. QED BY <1>1, InductiveInvariant, PTL
-----------------------------------------------------------------------------
(* The batch ledger *)

(* ---- who holds what ---- *)

(* A prover that holds an unproved batch is its taker: there is only one. *)
LEMMA HolderIsTaker ==
  IInv => \A p \in Provers, h \in Heights :
            Holds(p, h) /\ h \notin proofs => LedgerOf(h) = "taken" /\ TakerOf(h) = p
<1> SUFFICES ASSUME IInv, NEW p \in Provers, NEW h \in Heights,
                    Holds(p, h), h \notin proofs
             PROVE  LedgerOf(h) = "taken" /\ TakerOf(h) = p
  OBVIOUS
<1>1. status[h] = "Received" BY DEF IInv, Holds
<1>2. LedgerOf(h) = "taken" BY <1>1 DEF LedgerOf
<1>3. \A q \in Provers : Holds(q, h) => q = p
  BY DEF IInv, ExclusiveClaim, Holds
<1>4. QED BY <1>2, <1>3 DEF TakerOf

(* A batch nobody holds has no taker. *)
LEMMA UnheldHasNoTaker ==
  \A h \in Heights : h \in proofs \/ (\A p \in Provers : ~Holds(p, h))
                       => LedgerOf(h) # "taken" /\ TakerOf(h) = NoProver
  BY DEF LedgerOf, TakerOf

(* The same two facts about the state a step leads to. *)
LEMMA HolderIsTakerNext ==
  (IInv => \A p \in Provers, h \in Heights :
             Holds(p, h) /\ h \notin proofs
                => LedgerOf(h) = "taken" /\ TakerOf(h) = p)'
  BY HolderIsTaker, PTL

LEMMA UnheldHasNoTakerNext ==
  (\A h \in Heights : h \in proofs \/ (\A p \in Provers : ~Holds(p, h))
                        => LedgerOf(h) # "taken" /\ TakerOf(h) = NoProver)'
  BY UnheldHasNoTaker, PTL

(* The place of a batch depends on its two rows and its holders only. *)
LEMMA SamePlace ==
  ASSUME IInv, IInv', NEW h \in Heights,
         (h \in proofs)' <=> h \in proofs,
         h \in proofs \/ status'[h] = status[h],
         \A p \in Provers : Holds(p, h)' <=> Holds(p, h)
  PROVE  LedgerOf(h)' = LedgerOf(h) /\ TakerOf(h)' = TakerOf(h)
<1>1. LedgerOf(h)' = LedgerOf(h) BY DEF LedgerOf
<1>2. CASE h \in proofs \/ \A p \in Provers : ~Holds(p, h)
  BY <1>1, <1>2, UnheldHasNoTaker, UnheldHasNoTakerNext
<1>3. CASE h \notin proofs /\ \E p \in Provers : Holds(p, h)
  BY <1>1, <1>3, HolderIsTaker, HolderIsTakerNext
<1>4. QED BY <1>1, <1>2, <1>3

(* ---- from batches to the whole ledger ---- *)

(* h stays where it was: the premises of SamePlace. *)
Unmoved(h) ==
  /\ (h \in proofs)' <=> h \in proofs
  /\ h \in proofs \/ status'[h] = status[h]
  /\ \A p \in Provers : Holds(p, h)' <=> Holds(p, h)

(* When no batch moves the ledger stutters. *)
LEMMA LedgerStutters ==
  ASSUME IInv, IInv', \A h \in Heights : Unmoved(h)
  PROVE  UNCHANGED Ledger!vars
<1>1. \A h \in Heights : LedgerOf(h)' = LedgerOf(h) /\ TakerOf(h)' = TakerOf(h)
  BY SamePlace DEF Unmoved
<1>2. QED BY <1>1 DEF Ledger!vars

(* When only h moves the ledger changes at h. *)
LEMMA OneBatchMoves ==
  ASSUME IInv, IInv', NEW h \in Heights,
         \A k \in Heights \ {h} : Unmoved(k)
  PROVE  /\ [k \in Heights |-> LedgerOf(k)]'
              = [[k \in Heights |-> LedgerOf(k)] EXCEPT ![h] = LedgerOf(h)']
         /\ [k \in Heights |-> TakerOf(k)]'
              = [[k \in Heights |-> TakerOf(k)] EXCEPT ![h] = TakerOf(h)']
<1>1. \A k \in Heights \ {h} :
        LedgerOf(k)' = LedgerOf(k) /\ TakerOf(k)' = TakerOf(k)
  BY SamePlace DEF Unmoved
<1>2. QED BY <1>1

(* A prover that lets go of an unproved batch orphans it. *)
LEMMA LettingGoOrphans ==
  ASSUME IInv, IInv', NEW p \in Provers, NEW h \in Heights,
         Holds(p, h), h \notin proofs, UNCHANGED <<status, proofs>>,
         \A q \in Provers, k \in Heights : Holds(q, k)' <=> Holds(q, k) /\ q # p
  PROVE  Ledger!Orphan(h)
<1>1. \A q \in Provers : Holds(q, h) => q = p
  BY DEF IInv, ExclusiveClaim, Holds
<1>2. \A k \in Heights \ {h} : Unmoved(k)
  BY DEF Unmoved, Holds
<1>3. LedgerOf(h) = "taken" BY HolderIsTaker
<1>4. status[h] = "Received" BY DEF IInv, Holds
<1>5. LedgerOf(h)' = "orphaned" /\ TakerOf(h)' = NoProver
  BY <1>1, <1>4 DEF LedgerOf, TakerOf
<1>6. QED BY <1>2, <1>3, <1>5, OneBatchMoves DEF Ledger!Orphan

(* A new proof row for a held batch proves it. *)
LEMMA ProofRowProves ==
  ASSUME IInv, IInv', NEW p \in Provers, NEW h \in Heights,
         Holds(p, h), h \notin proofs,
         proofs' = proofs \cup {h}, UNCHANGED status,
         \A q \in Provers, k \in Heights :
            k # h => (Holds(q, k)' <=> Holds(q, k))
  PROVE  Ledger!Prove(h)
<1>1. \A k \in Heights \ {h} : Unmoved(k) BY DEF Unmoved
<1>2. LedgerOf(h) = "taken" BY HolderIsTaker
<1>3. LedgerOf(h)' = "proved" /\ TakerOf(h)' = NoProver
  BY DEF LedgerOf, TakerOf
<1>4. QED BY <1>1, <1>2, <1>3, OneBatchMoves DEF Ledger!Prove

(* ---- each step of the queue and the provers ---- *)

(* The claim: the batch goes from queued to taken, or, when COMMIT is      *)
(* applied but not answered, from queued to orphaned.                      *)
LEMMA ClaimRefines ==
  ASSUME IInv, IInv', NEW p \in Provers,
         SelectOldest(p) \/ SelectNothing(p) \/ ClaimCommit(p) \/ ClaimFails(p)
  PROVE  Ledger!Next \/ UNCHANGED Ledger!vars
<1>1. CASE SelectOldest(p) \/ SelectNothing(p)
  <2>1. \A k \in Heights : Unmoved(k)
    BY <1>1 DEF SelectOldest, SelectNothing, Goto, Unmoved, Holds, IInv, TypeOK,
                tables
  <2>2. QED BY <2>1, LedgerStutters
<1>2. CASE ClaimCommit(p)
  <2>1. PICK h \in Heights :
          /\ row[p] = h /\ status[h] = "Published" /\ pc[p] = "update"
          /\ status' = [status EXCEPT ![h] = "Received"]
          /\ proofs' = proofs /\ row' = row /\ pc' = [pc EXCEPT ![p] = "probe"]
    BY <1>2 DEF ClaimCommit, Goto, Matches, IInv
  <2>2. /\ Holds(p, h)'
        /\ \A q \in Provers, k \in Heights :
             q # p \/ k # h => (Holds(q, k)' <=> Holds(q, k))
    BY <2>1 DEF Holds, IInv, TypeOK
  <2>3. \A k \in Heights \ {h} : Unmoved(k)
    BY <2>1, <2>2 DEF Unmoved, IInv, TypeOK
  <2>4. \A q \in Provers : ~Holds(q, h) BY <2>1 DEF Holds, IInv
  <2>5. CASE h \notin proofs
    <3>1. LedgerOf(h) = "queued" BY <2>1, <2>5 DEF LedgerOf
    <3>2. LedgerOf(h)' = "taken" /\ TakerOf(h)' = p
      BY <2>1, <2>2, <2>5, HolderIsTakerNext
    <3>3. \A k \in Heights : TakerOf(k) # p
      <4>1. \A k \in Heights : ~Holds(p, k) BY <2>1 DEF Holds
      <4>2. SUFFICES ASSUME NEW k \in Heights, TakerOf(k) = p PROVE FALSE
        OBVIOUS
      <4>3. LedgerOf(k) = "taken" BY <4>2, ProverAssumption DEF TakerOf
      <4>4. \E q \in Provers : Holds(q, k) BY <4>3 DEF LedgerOf
      <4>5. QED BY <4>1, <4>2, <4>3, <4>4 DEF TakerOf
    <3>4. Ledger!Take(p, h)
      BY <2>1, <2>3, <3>1, <3>2, <3>3, OneBatchMoves DEF Ledger!Take
    <3>5. QED BY <2>1, <3>4 DEF Ledger!Next
  <2>6. CASE h \in proofs
    <3>1. LedgerOf(h) = "proved" /\ LedgerOf(h)' = "proved"
      BY <2>1, <2>6 DEF LedgerOf
    <3>2. TakerOf(h) = NoProver /\ TakerOf(h)' = NoProver
      BY <3>1 DEF TakerOf
    <3> DEFINE ledger == [k \in Heights |-> LedgerOf(k)]
               taker == [k \in Heights |-> TakerOf(k)]
    <3>3. /\ ledger' = [ledger EXCEPT ![h] = LedgerOf(h)']
          /\ taker' = [taker EXCEPT ![h] = TakerOf(h)']
      BY <2>1, <2>3, OneBatchMoves
    <3>4. ledger[h] = LedgerOf(h) /\ taker[h] = TakerOf(h) BY <2>1
    <3>5. UNCHANGED <<ledger, taker>>
      <4>1. ledger = [ledger EXCEPT ![h] = ledger[h]] /\ taker = [taker EXCEPT ![h] = taker[h]]
        OBVIOUS
      <4>2. LedgerOf(h)' = ledger[h] /\ TakerOf(h)' = taker[h] BY <3>1, <3>2, <3>4
      <4> HIDE DEF ledger, taker
      <4> QED BY <3>3, <4>1, <4>2
    <3>6. UNCHANGED Ledger!vars BY <3>5 DEF Ledger!vars
    <3>7. QED BY <3>6
  <2>7. QED BY <2>5, <2>6
<1>3. CASE ClaimFails(p)
  <2>1. /\ pc[p] \in {"select", "update"} /\ proofs' = proofs
        /\ row' = [row EXCEPT ![p] = NoRow] /\ pc' = [pc EXCEPT ![p] = "backoff"]
    BY <1>3 DEF ClaimFails, Goto, Forget
  <2>2. \A q \in Provers, k \in Heights : Holds(q, k)' <=> Holds(q, k)
    BY <2>1 DEF Holds, IInv, TypeOK
  <2>3. CASE UNCHANGED status
    <3>1. \A k \in Heights : Unmoved(k) BY <2>1, <2>2, <2>3 DEF Unmoved
    <3>2. QED BY <3>1, LedgerStutters
  <2>4. CASE /\ pc[p] = "update" /\ Matches(row[p])
             /\ status' = [status EXCEPT ![row[p]] = "Received"]
    <3>1. PICK h \in Heights :
            Matches(h) /\ status' = [status EXCEPT ![h] = "Received"]
      BY <2>4 DEF IInv
    <3>2. \A k \in Heights \ {h} : Unmoved(k)
      BY <2>1, <2>2, <3>1 DEF Unmoved, IInv, TypeOK
    <3>3. CASE h \in proofs
      <4>1. \A k \in Heights : Unmoved(k)
        BY <2>1, <2>2, <3>2, <3>3 DEF Unmoved
      <4>2. QED BY <4>1, LedgerStutters
    <3>4. CASE h \notin proofs
      <4>1. \A q \in Provers : ~Holds(q, h) BY <3>1 DEF Holds, IInv, Matches
      <4>2. status'[h] = "Received" BY <3>1 DEF IInv, TypeOK
      <4>3. LedgerOf(h)' = "orphaned" /\ TakerOf(h)' = NoProver
        BY <2>1, <2>2, <3>1, <3>4, <4>1, <4>2 DEF LedgerOf, TakerOf
      <4>4. LedgerOf(h) = "queued" BY <3>1, <3>4 DEF LedgerOf, Matches
      <4>5. Ledger!Orphan(h)
        BY <3>1, <3>2, <4>3, <4>4, OneBatchMoves DEF Ledger!Orphan
      <4>6. QED BY <3>1, <4>5 DEF Ledger!Next
    <3>5. QED BY <3>3, <3>4
  <2>5. QED BY <1>3, <2>3, <2>4 DEF ClaimFails
<1>4. QED BY <1>1, <1>2, <1>3

(* proveOne: the proof row proves the batch, marking its status changes    *)
(* nothing the ledger sees, and an error orphans a batch without a proof.  *)
LEMMA ProveOneRefines ==
  ASSUME IInv, IInv', NEW p \in Provers,
         \/ Probe(p) \/ ProveBatch(p) \/ CreateProof(p)
         \/ MarkFinished(p) \/ ProveOneFails(p)
  PROVE  Ledger!Next \/ UNCHANGED Ledger!vars
<1>1. CASE Probe(p) \/ ProveBatch(p)
  <2>1. \A k \in Heights : Unmoved(k)
    BY <1>1 DEF Probe, ProveBatch, Goto, Unmoved, Holds, IInv, TypeOK, tables
  <2>2. QED BY <2>1, LedgerStutters
<1>2. CASE CreateProof(p)
  <2>1. PICK h \in Heights :
          /\ row[p] = h /\ pc[p] = "create" /\ h \notin proofs
          /\ proofs' = proofs \cup {h} /\ status' = status
          /\ row' = row /\ pc' = [pc EXCEPT ![p] = "mark"]
    BY <1>2 DEF CreateProof, Goto, IInv, NoDuplicateProof
  <2>2. Holds(p, h) BY <2>1 DEF Holds
  <2>3. \A q \in Provers, k \in Heights :
          k # h => (Holds(q, k)' <=> Holds(q, k))
    BY <2>1 DEF Holds, IInv, TypeOK
  <2>4. Ledger!Prove(h) BY <2>1, <2>2, <2>3, ProofRowProves
  <2>5. QED BY <2>4 DEF Ledger!Next
<1>3. CASE MarkFinished(p)
  <2>1. PICK h \in Heights :
          /\ row[p] = h /\ pc[p] = "mark" /\ h \in proofs
          /\ proofs' = proofs /\ status' = [status EXCEPT ![h] = "Finished"]
          /\ row' = [row EXCEPT ![p] = NoRow]
    BY <1>3 DEF MarkFinished, Forget, IInv
  <2>2. \A k \in Heights \ {h} : Unmoved(k)
    BY <1>3, <2>1 DEF MarkFinished, Goto, Unmoved, Holds, IInv, TypeOK
  <2>3. LedgerOf(h) # "taken" /\ LedgerOf(h) = "proved" /\ LedgerOf(h)' = "proved"
    BY <2>1 DEF LedgerOf
  <2>4. TakerOf(h) = NoProver /\ TakerOf(h)' = NoProver
    BY <2>3 DEF TakerOf
  <2>5. UNCHANGED Ledger!vars
    BY <2>2, <2>3, <2>4, OneBatchMoves DEF Ledger!vars
  <2>6. QED BY <2>5
<1>4. CASE ProveOneFails(p)
  <2>1. PICK h \in Heights :
          /\ row[p] = h /\ pc[p] \in Working
          /\ row' = [row EXCEPT ![p] = NoRow] /\ pc' = [pc EXCEPT ![p] = "failed"]
    BY <1>4 DEF ProveOneFails, Goto, Forget, IInv
  <2>2. Holds(p, h) BY <2>1 DEF Holds
  <2>3. \A q \in Provers, k \in Heights :
          Holds(q, k)' <=> Holds(q, k) /\ q # p
    BY <2>1 DEF Holds, IInv, TypeOK
  <2>4. \A q \in Provers, k \in Heights :
          k # h => (Holds(q, k)' <=> Holds(q, k))
    BY <2>1, <2>3 DEF Holds
  <2>5. CASE UNCHANGED <<status, proofs>> /\ h \notin proofs
    <3>1. Ledger!Orphan(h) BY <2>2, <2>3, <2>5, LettingGoOrphans
    <3>2. QED BY <3>1 DEF Ledger!Next
  <2>6. CASE pc[p] = "create" /\ proofs' = proofs \cup {h} /\ UNCHANGED status
    <3>1. h \notin proofs BY <2>1, <2>6 DEF IInv, NoDuplicateProof
    <3>2. Ledger!Prove(h) BY <2>2, <2>4, <2>6, <3>1, ProofRowProves
    <3>3. QED BY <3>2 DEF Ledger!Next
  <2>7. CASE /\ h \in proofs /\ proofs' = proofs
             /\ \A k \in Heights \ {h} : status'[k] = status[k]
    <3>1. \A k \in Heights \ {h} : Unmoved(k) BY <2>4, <2>7 DEF Unmoved
    <3>2. LedgerOf(h) = "proved" /\ LedgerOf(h)' = "proved"
      BY <2>7 DEF LedgerOf
    <3>3. TakerOf(h) = NoProver /\ TakerOf(h)' = NoProver
      BY <3>2 DEF TakerOf
    <3>4. UNCHANGED Ledger!vars
      BY <3>1, <3>2, <3>3, OneBatchMoves DEF Ledger!vars
    <3>5. QED BY <3>4
  <2>8. \/ UNCHANGED <<status, proofs>>
        \/ pc[p] = "create" /\ proofs' = proofs \cup {h} /\ UNCHANGED status
        \/ /\ h \in proofs /\ proofs' = proofs
           /\ status' = [status EXCEPT ![h] = "Finished"]
    BY <1>4, <2>1 DEF ProveOneFails, IInv
  <2>9. QED BY <2>5, <2>6, <2>7, <2>8 DEF IInv, TypeOK
<1>5. QED BY <1>1, <1>2, <1>3, <1>4

(* The poll loop, signals and restarts are invisible; a death orphans the  *)
(* batch it interrupts.                                                    *)
LEMMA ControlRefines ==
  ASSUME IInv, IInv', NEW p \in Provers,
         CheckContext(p) \/ Backoff(p) \/ Signal(p) \/ Crash(p) \/ Restart(p)
  PROVE  Ledger!Next \/ UNCHANGED Ledger!vars
<1>1. CASE CheckContext(p) \/ Backoff(p) \/ Signal(p) \/ Restart(p)
  <2>1. \A k \in Heights : Unmoved(k)
    BY <1>1 DEF CheckContext, Backoff, Signal, Restart, Goto, Unmoved, Holds,
                IInv, TypeOK, tables
  <2>2. QED BY <2>1, LedgerStutters
<1>2. CASE Crash(p)
  <2>1. \A q \in Provers, k \in Heights :
          Holds(q, k)' <=> Holds(q, k) /\ q # p
    BY <1>2 DEF Crash, Goto, Forget, Holds, IInv, TypeOK
  <2>2. UNCHANGED <<status, proofs>> BY <1>2 DEF Crash
  <2>3. CASE \E h \in Heights : Holds(p, h) /\ h \notin proofs
    <3>1. PICK h \in Heights : Holds(p, h) /\ h \notin proofs BY <2>3
    <3>2. Ledger!Orphan(h) BY <2>1, <2>2, <3>1, LettingGoOrphans
    <3>3. QED BY <3>2 DEF Ledger!Next
  <2>4. CASE \A h \in Heights : Holds(p, h) => h \in proofs
    <3>1. \A h \in Heights : LedgerOf(h)' = LedgerOf(h) /\ TakerOf(h)' = TakerOf(h)
      <4>1. SUFFICES ASSUME NEW h \in Heights
                     PROVE  LedgerOf(h)' = LedgerOf(h) /\ TakerOf(h)' = TakerOf(h)
        OBVIOUS
      <4>2. CASE h \in proofs
        BY <2>2, <4>2, UnheldHasNoTaker, UnheldHasNoTakerNext DEF LedgerOf
      <4>3. CASE h \notin proofs
        <5>1. Unmoved(h) BY <2>1, <2>2, <2>4, <4>3 DEF Unmoved
        <5>2. QED BY <5>1, SamePlace DEF Unmoved
      <4>4. QED BY <4>2, <4>3
    <3>2. QED BY <3>1 DEF Ledger!vars
  <2>5. QED BY <2>3, <2>4
<1>3. QED BY <1>1, <1>2

(* Publishing queues a batch. *)
LEMMA PublishRefines ==
  ASSUME IInv, IInv', Publish PROVE Ledger!Next
<1>1. PICK h \in Heights :
        /\ status[h] = "absent" /\ status' = [status EXCEPT ![h] = "Published"]
        /\ UNCHANGED <<proofs, pc, row>>
  BY DEF Publish
<1>2. \A k \in Heights \ {h} : Unmoved(k)
  BY <1>1 DEF Unmoved, Holds, IInv, TypeOK
<1>3. h \notin proofs /\ \A p \in Provers : ~Holds(p, h)
  BY <1>1 DEF IInv, Holds
<1>4. QED
  <2>1. LedgerOf(h) = "none" BY <1>1, <1>3 DEF LedgerOf
  <2>2. LedgerOf(h)' = "queued" BY <1>1, <1>3 DEF LedgerOf, IInv, TypeOK
  <2>3. TakerOf(h)' = TakerOf(h) BY <2>1, <2>2 DEF TakerOf
  <2>4. Ledger!Enqueue(h)
    BY <1>2, <2>1, <2>2, <2>3, OneBatchMoves DEF Ledger!Enqueue
  <2>5. QED BY <2>4 DEF Ledger!Next

(* ---- the operator ---- *)

(* While all provers are down no batch is taken.                           *)
LEMMA NobodyHolds ==
  ASSUME AllDown, UNCHANGED pc
  PROVE  /\ \A p \in Provers, h \in Heights : ~Holds(p, h) /\ ~Holds(p, h)'
         /\ \A h \in Heights : LedgerOf(h) # "taken" /\ LedgerOf(h)' # "taken"
         /\ \A h \in Heights : TakerOf(h) = NoProver /\ TakerOf(h)' = NoProver
<1>1. \A p \in Provers, h \in Heights : ~Holds(p, h) /\ ~Holds(p, h)' BY DEF AllDown, Holds
<1>2. QED BY <1>1, UnheldHasNoTaker, UnheldHasNoTakerNext

(* A rerun of the latest received row requeues it, or nothing moves when   *)
(* its proof is there.                                                     *)
LEMMA RerunRefines ==
  ASSUME IInv, IInv', RerunLatest PROVE Ledger!Next \/ UNCHANGED Ledger!vars
<1>1. PICK h \in Heights :
        /\ status[h] = "Received" /\ status' = [status EXCEPT ![h] = "Published"]
        /\ AllDown /\ UNCHANGED <<proofs, pc, row>>
  BY DEF RerunLatest
<1>2. /\ \A k \in Heights : LedgerOf(k) # "taken"
      /\ \A k \in Heights : TakerOf(k) = NoProver /\ TakerOf(k)' = NoProver
      /\ \A p \in Provers, k \in Heights : ~Holds(p, k) /\ ~Holds(p, k)'
  BY <1>1, NobodyHolds
<1>3. CASE h \in proofs
  <2>1. \A k \in Heights : Unmoved(k) BY <1>1, <1>2, <1>3 DEF Unmoved, IInv, TypeOK
  <2>2. QED BY <2>1, LedgerStutters
<1>4. CASE h \notin proofs
  <2>1. \A k \in Heights : LedgerOf(k)' = IF k \in {h} THEN "queued" ELSE LedgerOf(k)
    BY <1>1, <1>2, <1>4 DEF LedgerOf, IInv, TypeOK
  <2>2. LedgerOf(h) = "orphaned" BY <1>1, <1>2, <1>4 DEF LedgerOf
  <2>3. Ledger!Requeue({h}) BY <1>2, <2>1, <2>2 DEF Ledger!Requeue, Ledger!Idle
  <2>4. QED BY <2>3 DEF Ledger!Next
<1>5. QED BY <1>3, <1>4

(* Deleting every proof discards: what was put back in the queue after it  *)
(* was proved is queued again, every other proved batch is orphaned.       *)
LEMMA DeleteRefines ==
  ASSUME IInv, IInv', DeleteProofs PROVE Ledger!Next
<1> DEFINE S == {h \in proofs : status[h] = "Published"}
<1>1. AllDown /\ UNCHANGED <<status, pc, row>> /\ proofs' = {} BY DEF DeleteProofs
<1>2. /\ \A k \in Heights : LedgerOf(k) # "taken"
      /\ \A k \in Heights : TakerOf(k) = NoProver /\ TakerOf(k)' = NoProver
      /\ \A p \in Provers, k \in Heights : ~Holds(p, k) /\ ~Holds(p, k)'
  BY <1>1, NobodyHolds
<1>3. S \subseteq Heights /\ \A h \in S : LedgerOf(h) = "proved" BY DEF IInv, TypeOK, LedgerOf
<1>4. \A h \in Heights :
        LedgerOf(h)' = IF h \in S THEN "queued"
                       ELSE IF LedgerOf(h) = "proved" THEN "orphaned" ELSE LedgerOf(h)
  BY <1>1, <1>2 DEF LedgerOf, IInv
<1> HIDE DEF S
<1>5. Ledger!Discard(S) BY <1>2, <1>3, <1>4 DEF Ledger!Discard, Ledger!Idle
<1>6. QED BY <1>3, <1>5 DEF Ledger!Next

(* With no proof left and every row put back, all orphans are queued.      *)
LEMMA RequeueRefines ==
  ASSUME IInv, IInv', RequeueAll PROVE Ledger!Next
<1> DEFINE S == {h \in Heights : LedgerOf(h) = "orphaned"}
<1>1. /\ AllDown /\ UNCHANGED <<proofs, pc, row>>
      /\ \A h \in Heights :
           status'[h] = IF status[h] = "absent" THEN "absent" ELSE "Published"
  BY DEF RequeueAll, IInv
<1>2. /\ \A k \in Heights : LedgerOf(k) # "taken"
      /\ \A k \in Heights : TakerOf(k) = NoProver /\ TakerOf(k)' = NoProver
      /\ \A p \in Provers, k \in Heights : ~Holds(p, k) /\ ~Holds(p, k)'
  BY <1>1, NobodyHolds
<1>3. \A h \in Heights :
        LedgerOf(h)' = IF h \in S THEN "queued" ELSE LedgerOf(h)
  BY <1>1, <1>2 DEF LedgerOf, IInv, TypeOK
<1>4. Ledger!Requeue(S) BY <1>2, <1>3 DEF Ledger!Requeue, Ledger!Idle
<1>5. QED BY <1>4 DEF Ledger!Next

LEMMA OperatorRefines ==
  ASSUME IInv, IInv', Operator PROVE Ledger!Next \/ UNCHANGED Ledger!vars
<1>1. CASE ResetStops
  <2>1. \A k \in Heights : Unmoved(k) BY <1>1 DEF ResetStops, tables, Unmoved, Holds
  <2>2. QED BY <2>1, LedgerStutters
<1>2. QED BY <1>1, RerunRefines, DeleteRefines, RequeueRefines DEF Operator

(* Every step is a step of the ledger or a stutter. *)
LEMMA StepRefines ==
  IInv /\ IInv' /\ [Next]_vars => [Ledger!Next]_(Ledger!vars)
<1> SUFFICES ASSUME IInv, IInv', [Next]_vars
             PROVE  Ledger!Next \/ UNCHANGED Ledger!vars
  OBVIOUS
<1>1. CASE Publish \/ Operator BY <1>1, PublishRefines, OperatorRefines
<1>2. ASSUME NEW p \in Provers, Step(p) \/ Signal(p) \/ Crash(p) \/ Restart(p)
      PROVE  Ledger!Next \/ UNCHANGED Ledger!vars
  BY <1>2, ClaimRefines, ProveOneRefines, ControlRefines DEF Step
<1>3. CASE UNCHANGED vars
  <2>1. \A k \in Heights : Unmoved(k)
    BY <1>3 DEF vars, tables, Unmoved, Holds
  <2>2. QED BY <2>1, LedgerStutters
<1>4. QED BY <1>1, <1>2, <1>3 DEF Next

(* Empty tables are an empty ledger. *)
LEMMA InitRefines == Init => Ledger!Init
  BY DEF Init, Ledger!Init, LedgerOf, TakerOf

(* Queue, table and provers together implement the batch ledger: a batch   *)
(* is queued once, taken by one prover at a time, and proved by its taker; *)
(* an orphaned batch returns to the queue only by the operator's hand, a   *)
(* proved one only when he deletes every proof, and neither happens while  *)
(* a prover works (store/witness.go, store/proof.go, pkg/prover,           *)
(* docs/R13_GPU_RUNBOOK.md:89-91).                                         *)
THEOREM QueueImplementsLedger == Spec => ImplementsLedger
<1>1. Spec => Ledger!Spec
  BY InitRefines, StepRefines, InductiveInvariant, PTL DEF Spec, Ledger!Spec
<1>2. QED BY <1>1 DEF ImplementsLedger
==============================================================================
