------------------------------- MODULE KeyStore -------------------------------
(***************************************************************************)
(* The directory of proving and verifying keys: the key generator that     *)
(* writes a .pk, a .vk and an .r1cs for every batch shape of a profile     *)
(* (pkg/keygen), and a prover that keeps the three of one shape in memory, *)
(* tries them on a batch of any shape, and goes through the shapes of its  *)
(* own copy of the profile when an attempt fails (pkg/prover, dispatch.go  *)
(* and load.go), for whatever reason: keys that do not fit, a row that     *)
(* does not decode or satisfy its circuit, or a call that breaks.  Keygen  *)
(* may be run again over the directory, die between or inside files, and   *)
(* write while the prover reads; the prover may die anywhere.  A Setup     *)
(* makes a new pair of keys, which work with each other only; a compiled   *)
(* circuit is the same every time.                                         *)
(***************************************************************************)
EXTENDS Integers, Sequences

CONSTANTS
  Profiles,  \* the lists of batch shapes a profile may declare
  MaxSetups, \* bound on Setups
  MaxBatches \* bound on the batches the prover is handed

Nothing == 0  \* no file, and no setup
Torn == -1    \* what is read of a file that is being written

Shape == [tier : Nat, users : Nat]

ASSUME KeyAssumption ==
  /\ Profiles # {} /\ \A declared \in Profiles : declared \in Seq(Shape)
  /\ MaxSetups \in Nat /\ MaxBatches \in Nat

VARIABLES
  plan,    \* the shapes keygen and the prover have resolved
  files,   \* the directory: by shape and extension, whose setup, and if all of it
  setups,  \* Setups so far
  gen, shape, step, open, \* keygen: where it is, which shape and file of it
  stage,   \* where the prover is
  batch,   \* the shape of the batch it was handed
  flawed,  \* that batch does not decode, or does not satisfy its own circuit
  want,    \* the shape it loads
  got,     \* what of it it has read
  params,  \* the keys it keeps
  at,      \* its place in the loop over shapes, 0 before
  tried,   \* the attempts on this batch: keys, and whether a call broke by itself
  published, \* the proofs it has made
  batches

directory == <<plan, files>>
keygen == <<setups, gen, shape, step, open>>
prover == <<stage, batch, flawed, want, got, params, at, tried, published, batches>>
keyVars == <<directory, keygen, prover>>

Written == <<"pk", "vk", "r1cs">>   \* the order of keygenShape
ReadOrder == <<"r1cs", "pk", "vk">> \* the order of loadSnarkParams
NoShape == [tier |-> 0, users |-> 0]
NoParams == [shape |-> NoShape, r1cs |-> Nothing, pk |-> Nothing, vk |-> Nothing]

-----------------------------------------------------------------------------
(* The shapes of a profile. *)

Accepted(declared) ==
  /\ declared # <<>>
  /\ \A i \in DOMAIN declared : declared[i].tier > 0 /\ declared[i].users > 0
  /\ \A i, j \in DOMAIN declared : declared[i].tier = declared[j].tier => i = j

Shapes(declared) == {declared[i] : i \in DOMAIN declared}

\* BuildBatchShape: sorted by tier
Resolved(declared) ==
  {shapes \in [1 .. Len(declared) -> Shapes(declared)] :
     \A i, j \in 1 .. Len(declared) : i < j => shapes[i].tier < shapes[j].tier}

Plans == UNION {Resolved(declared) : declared \in {d \in Profiles : Accepted(d)}}
Stems == UNION {Shapes(declared) : declared \in Profiles}

KeyInit ==
  /\ plan \in [keygen : Plans, prover : Plans]
  /\ files = [stem \in Stems |->
                [ext \in {"pk", "vk", "r1cs"} |-> [setup |-> Nothing, whole |-> FALSE]]]
  /\ setups = 0 /\ gen = "off" /\ shape = 1 /\ step = 1 /\ open = FALSE
  /\ stage = "claim" /\ batch = NoShape /\ flawed = FALSE /\ want = NoShape /\ got = <<>>
  /\ params = NoParams /\ at = 0 /\ tried = {} /\ published = {} /\ batches = 0

-----------------------------------------------------------------------------
(* Keygen. *)

StartKeygen ==
  /\ gen \in {"off", "done", "failed"} /\ setups < MaxSetups
  /\ gen' = "setup" /\ shape' = 1
  /\ UNCHANGED <<directory, setups, step, open, prover>>

(* Compile and Setup of the next shape, or the end. *)
Setup ==
  /\ gen = "setup"
  /\ \/ /\ shape \in DOMAIN plan.keygen /\ setups < MaxSetups
        /\ setups' = setups + 1 /\ gen' = "write" /\ step' = 1
     \/ /\ shape \notin DOMAIN plan.keygen
        /\ gen' = "done" /\ UNCHANGED <<setups, step>>
  /\ UNCHANGED <<directory, shape, open, prover>>

File(setup, whole) ==
  files' = [files EXCEPT ![plan.keygen[shape]][Written[step]] =
              [setup |-> setup, whole |-> whole]]

\* mutant: a file that is there is kept
CreateMissing ==
  /\ gen = "write" /\ ~open
  /\ IF files[plan.keygen[shape]][Written[step]].whole THEN UNCHANGED files
     ELSE File(setups, FALSE)
  /\ open' = TRUE
  /\ UNCHANGED <<plan, setups, gen, shape, step, prover>>

(* Create truncates what is there. *)
CreateFile ==
  /\ gen = "write" /\ ~open
  /\ File(setups, FALSE) /\ open' = TRUE
  /\ UNCHANGED <<plan, setups, gen, shape, step, prover>>

WriteFile ==
  /\ gen = "write" /\ open
  /\ files' = [files EXCEPT ![plan.keygen[shape]][Written[step]].whole = TRUE]
  /\ open' = FALSE
  /\ IF step < Len(Written)
       THEN step' = step + 1 /\ UNCHANGED <<gen, shape>>
       ELSE gen' = "setup" /\ shape' = shape + 1 /\ UNCHANGED step
  /\ UNCHANGED <<plan, setups, prover>>

(* Keygen dies, a write fails, or the context is cancelled between shapes. *)
StopKeygen ==
  /\ gen \in {"setup", "write"}
  /\ gen' = "failed" /\ open' = FALSE
  /\ UNCHANGED <<directory, setups, shape, step, prover>>

-----------------------------------------------------------------------------
(* The prover. *)

InPlan == {plan.prover[i] : i \in DOMAIN plan.prover}

Load(stem) == stage' = "load" /\ want' = stem /\ got' = <<>>

(* proveOne is handed a row: with nothing cached the first shape is        *)
(* loaded, whatever the batch.  A row may also be one that nothing proves. *)
Claim ==
  /\ stage = "claim" /\ batches < MaxBatches
  /\ batches' = batches + 1
  /\ batch' \in InPlan /\ flawed' \in BOOLEAN /\ at' = 0 /\ tried' = {}
  /\ IF params = NoParams THEN Load(plan.prover[1])
     ELSE stage' = "try" /\ UNCHANGED <<want, got>>
  /\ UNCHANGED <<directory, keygen, params, published>>

\* whether keygen is writing a file
Writing(stem, ext) ==
  /\ gen = "write" /\ open
  /\ stem = plan.keygen[shape] /\ ext = Written[step]

\* what ReadFrom may make of a file
Contents(stem, ext) ==
  IF stem \notin Stems THEN {}
  ELSE IF files[stem][ext].whole THEN {files[stem][ext].setup}
  ELSE IF Writing(stem, ext) THEN {Torn} ELSE {}

(* Open and read the next file; the cache changes when all three are read. *)
ReadFile ==
  /\ stage = "load"
  /\ \E content \in Contents(want, ReadOrder[Len(got) + 1]) :
       IF Len(got) + 1 < Len(ReadOrder)
         THEN got' = Append(got, content) /\ UNCHANGED <<stage, params>>
         ELSE /\ params' = [shape |-> want, r1cs |-> got[1], pk |-> got[2], vk |-> content]
              /\ stage' = "try" /\ got' = <<>>
  /\ UNCHANGED <<directory, keygen, batch, flawed, want, at, tried, published, batches>>

(* A file is missing, cut short, or cannot be read: the prover exits. *)
ReadFails ==
  /\ stage = "load" /\ stage' = "unloaded"
  /\ UNCHANGED <<directory, keygen, batch, flawed, want, got, params, at, tried,
                 published, batches>>

\* mutant: the proof is not verified before it is published
ProvesUnverified(attempt) ==
  /\ ~flawed /\ ~attempt.broke
  /\ attempt.keys.shape = batch /\ attempt.keys.r1cs # Torn /\ attempt.keys.pk # Torn

\* the witness has the size of its own shape, and the proof is verified with
\* the key loaded beside the proving key
Usable(keys) ==
  keys.shape = batch /\ keys.r1cs # Torn /\ keys.pk # Torn /\ keys.pk = keys.vk

\* DecodeAndProve succeeds: the row decodes and satisfies its circuit, no call
\* of the prover, verifier or serialiser breaks, and the keys are the batch's
Proves(attempt) == ~flawed /\ ~attempt.broke /\ Usable(attempt.keys)

\* mutant: shapes come in ascending order, so the smaller ones are behind
RemainingAbove == {i \in (at + 1) .. Len(plan.prover) : plan.prover[i].tier > params.shape.tier}

\* the rest of the loop, but for the shape that is cached by now
Remaining == {i \in (at + 1) .. Len(plan.prover) : plan.prover[i] # params.shape}

\* whatever the error, the next shape is loaded; a call that would have failed
\* anyway need not break
Try ==
  /\ stage = "try"
  /\ \E broke \in {FALSE, ~flawed /\ Usable(params)} :
       LET attempt == [keys |-> params, broke |-> broke] IN
         /\ tried' = tried \cup {attempt}
         /\ \/ /\ Proves(attempt)
               /\ published' = published \cup
                    {[shape |-> batch, pk |-> params.pk, vk |-> params.vk]}
               /\ stage' = "claim" /\ UNCHANGED <<want, got, at>>
            \/ /\ ~Proves(attempt) /\ Remaining # {}
               /\ at' = CHOOSE i \in Remaining : \A j \in Remaining : i <= j
               /\ Load(plan.prover[at']) /\ UNCHANGED published
            \/ /\ ~Proves(attempt) /\ Remaining = {}
               /\ stage' = "refused" /\ UNCHANGED <<want, got, at, published>>
  /\ UNCHANGED <<directory, keygen, batch, flawed, params, batches>>

(* The prover has exited, or dies, and is started again. *)
RestartProver ==
  /\ stage' = "claim" /\ params' = NoParams
  /\ batch' = NoShape /\ flawed' = FALSE /\ want' = NoShape /\ got' = <<>>
  /\ at' = 0 /\ tried' = {}
  /\ UNCHANGED <<directory, keygen, published, batches>>

KeyNext ==
  \/ StartKeygen \/ Setup \/ CreateFile \/ WriteFile \/ StopKeygen
  \/ Claim \/ ReadFile \/ ReadFails \/ Try \/ RestartProver

KeySpec == KeyInit /\ [][KeyNext]_keyVars

-----------------------------------------------------------------------------
(* Properties *)

Ext == {"pk", "vk", "r1cs"}
Setups == 0 .. setups
Keys == [shape : Shape, r1cs : Setups \cup {Torn}, pk : Setups \cup {Torn},
         vk : Setups \cup {Torn}]

KeyTypeOK ==
  /\ setups \in Nat /\ gen \in {"off", "setup", "write", "done", "failed"}
  /\ shape \in Nat \ {0} /\ step \in 1 .. 3 /\ open \in BOOLEAN
  /\ gen = "write" => shape \in DOMAIN plan.keygen
  /\ plan.keygen \in Plans /\ plan.prover \in Plans
  /\ files \in [Stems -> [Ext -> [setup : Setups, whole : BOOLEAN]]]
  /\ stage \in {"claim", "load", "try", "refused", "unloaded"} /\ flawed \in BOOLEAN
  /\ params \in Keys /\ at \in 0 .. Len(plan.prover)
  /\ got \in Seq(Setups \cup {Torn}) /\ Len(got) < 3

\* a pair of keys of one setup
Paired(stem) == files[stem]["pk"].setup = files[stem]["vk"].setup

(* A keygen run that ends well leaves a whole and matching triple for      *)
(* every shape of its profile, over whatever interrupted runs have left    *)
(* (pkg/keygen/keygen.go:82-84).                                           *)
DoneIsUsable ==
  gen = "done" => \A i \in DOMAIN plan.keygen :
    Paired(plan.keygen[i]) /\ \A ext \in Ext : files[plan.keygen[i]][ext].whole

\* what keygen has written of the shapes behind it, and of the one it is at
WrittenSoFar ==
  /\ gen \in {"setup", "write", "done"} =>
       \A i \in DOMAIN plan.keygen : i < shape =>
         Paired(plan.keygen[i]) /\ \A ext \in Ext : files[plan.keygen[i]][ext].whole
  /\ gen = "write" =>
       \A k \in 1 .. 3 :
         LET file == files[plan.keygen[shape]][Written[k]] IN
           /\ k < step => file.setup = setups /\ file.whole
           /\ k = step /\ open => file.setup = setups
  /\ gen = "done" => shape \notin DOMAIN plan.keygen
  /\ open => gen = "write"

\* the shapes tried so far are those before the loop's place
TriedSoFar ==
  /\ stage \in {"load", "try", "refused"} => batch \in InPlan
  /\ stage = "try" /\ at > 0 => params.shape = plan.prover[at]
  /\ stage = "load" /\ at > 0 => want = plan.prover[at]
  /\ stage = "load" /\ at = 0 => want = plan.prover[1]
  /\ stage \in {"load", "try"} /\ at > 0 =>
       \A i \in 1 .. (at - 1) : \E attempt \in tried : attempt.keys.shape = plan.prover[i]
  /\ \A attempt \in tried : stage \in {"load", "try"} => ~Proves(attempt)

\* the cached verifying key is no newer than the one in the directory
CacheSoFar ==
  /\ params = NoParams \/ params.shape \in Stems
  /\ params.shape \in Stems => params.vk <= files[params.shape]["vk"].setup
  /\ \A proof \in published : proof.shape \in Stems /\ proof.vk \in Setups \cup {Torn}

(* A batch is refused only after the keys of every shape were tried on it, *)
(* whichever shape was cached and though the loop changes what it compares *)
(* with; and unless its row is flawed, the keys of its own shape were of   *)
(* two setups or cut short when they were tried, or a call broke under     *)
(* them.  The loop does not ask why an attempt failed                      *)
(* (pkg/prover/dispatch.go:51-70).                                         *)
RefusedAfterEveryShape ==
  stage = "refused" =>
    /\ \A stem \in InPlan : \E attempt \in tried : attempt.keys.shape = stem
    /\ \/ flawed
       \/ \E attempt \in tried :
            attempt.keys.shape = batch /\ (attempt.broke \/ ~Usable(attempt.keys))

(* Keys of two setups never make a proof that is published, however keygen *)
(* and the loader interleave; and the verifying key in the directory is    *)
(* the one of the proof, until keygen writes another.                      *)
PublishedVerifies ==
  \A proof \in published :
    /\ proof.pk = proof.vk
    /\ proof.vk <= files[proof.shape]["vk"].setup

KeyInv == KeyTypeOK /\ DoneIsUsable /\ WrittenSoFar /\ TriedSoFar /\ CacheSoFar
==============================================================================
