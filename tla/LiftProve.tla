----------------------------- MODULE LiftProve ------------------------------
(***************************************************************************)
(* `lift prove` (prove_cmd of src/src/main.rs, src/src/prove.rs): the Lean *)
(* definition that Charon and Aeneas extract from a Rust crate, or from    *)
(* the crate cpp2rust writes, is joined with a fragment of theorems, and   *)
(* the axioms that Lean says they rest on decide the level.  One call      *)
(* after another in one work directory; any of them may be killed, and any *)
(* of the tools may fail.                                                  *)
(*                                                                         *)
(* A fragment is [theorems, proof, uses, audited]: its theorems in order,  *)
(* how each is proved ("closed", "sorry" or "broken"), which others its    *)
(* proof cites, and which of them it prints the axioms of.                 *)
(***************************************************************************)
EXTENDS Integers, Sequences, FiniteSets, SequencesExt

CONSTANTS
  Examples,    \* [name, lane, entrypoint, frag : a fragment or Absent]
  Absent,      \* Rust's None, and no file
  MaxProofs    \* calls

VARIABLES
  subject,   \* the example under way
  stage,     \* its next step
  llbc,      \* the .llbc of the crate that cpp2rust writes: of an example, or Absent
  extract,   \* what the module in rust-extract was made from, or Absent
  rep,       \* the report of prove_aeneas, or Absent
  json,      \* proof.json, or Absent
  level,     \* the level on the terminal
  ended,     \* the exit code, or Absent
  proofs     \* calls so far

proving == <<subject, stage, llbc, extract, rep, json, level, ended, proofs>>

(* What is known of a fragment; Absent is no exit code.                    *)
FragmentAssumption ==
  /\ \A x \in Examples : x.frag # Absent =>
       \A t \in Range(x.frag.theorems) : x.frag.proof[t] \in {"closed", "sorry", "broken"}
  /\ Absent # 0

(* All the Rust examples live in one crate.                                *)
origin(x) == IF x.lane = "rust" THEN "rust-kernels" ELSE x.name
Defines(from, entry) ==
  \E x \in Examples : origin(x) = from /\ x.entrypoint = entry

ProveInit ==
  /\ subject = Absent /\ stage = "idle"
  /\ llbc = Absent /\ extract = Absent /\ rep = Absent /\ json = Absent
  /\ level = "nothing" /\ ended = Absent /\ proofs = 0

Leave(c) == ended' = c /\ stage' = "idle"

StartProof ==
  /\ stage = "idle" /\ proofs < MaxProofs
  /\ \E x \in Examples :
       /\ subject' = x
       /\ IF x.frag = Absent \/ x.lane = "other" THEN Leave(2)
          ELSE ended' = Absent /\ stage' = IF x.lane = "rust" THEN "charon" ELSE "translate"
  /\ level' = "nothing" /\ rep' = Absent /\ proofs' = proofs + 1
  /\ UNCHANGED <<llbc, extract, json>>

(* cpp2rust_translate: not built is a skip; what an earlier call left of   *)
(* Charon's output is removed.                                             *)
Translate ==
  /\ stage = "translate"
  /\ \/ Leave(0) /\ level' = "SKIPPED" /\ UNCHANGED llbc
     \/ Leave(1) /\ UNCHANGED <<level, llbc>>
     \/ stage' = "charon" /\ llbc' = Absent /\ UNCHANGED <<level, ended>>
  /\ UNCHANGED <<subject, extract, rep, json, proofs>>

Charon ==
  /\ stage = "charon"
  /\ \/ subject.lane = "rust" /\ stage' = "aeneas" /\ UNCHANGED <<llbc, ended>>
     \/ /\ subject.lane = "cpp2rust" /\ llbc' \in {llbc, subject.name}
        /\ IF llbc' = Absent THEN Leave(1) ELSE stage' = "aeneas" /\ UNCHANGED ended
     \/ Leave(1) /\ UNCHANGED llbc
  /\ UNCHANGED <<subject, extract, rep, json, level, proofs>>

(* The directory is emptied first, and the exit status of Aeneas ignored.  *)
EmptiedKept == extract                           \* mutant: the directory is kept
Emptied == Absent

Aeneas ==
  /\ stage = "aeneas"
  /\ \E m \in {Emptied, IF subject.lane = "rust" THEN origin(subject) ELSE llbc} :
       IF m # Absent /\ Defines(m, subject.entrypoint)
         THEN extract' = m /\ stage' = "elaborate" /\ UNCHANGED ended
         ELSE extract' = m /\ Leave(1)
  /\ UNCHANGED <<subject, llbc, rep, json, level, proofs>>

-----------------------------------------------------------------------------
(* The theorems that a proof rests on: the least set with it and all that  *)
(* its members cite.                                                       *)
Citing(frag, S) == \A u \in S : frag.uses[u] \subseteq S
RestsOn(frag, t) ==
  {u \in Range(frag.theorems) :
     \A S \in SUBSET Range(frag.theorems) : t \in S /\ Citing(frag, S) => u \in S}

SorryFree(frag, t) == \A u \in RestsOn(frag, t) : frag.proof[u] # "sorry"

(* Lean takes a file with `sorry` and warns; it refuses a proof that fails.*)
(* A proof about a definition made from something else may do either.      *)
prove_aeneas ==
  /\ stage = "elaborate"
  /\ \/ /\ \A t \in Range(subject.frag.theorems) : subject.frag.proof[t] # "broken"
        /\ rep' = [theorems |-> subject.frag.theorems, of |-> extract,
                   sorry_free |-> \A t \in subject.frag.audited : SorryFree(subject.frag, t)]
        /\ level' = IF rep'.sorry_free THEN "L3_proved" ELSE "L2_unverified"
        /\ stage' = "report" /\ UNCHANGED ended
     \/ Leave(1) /\ level' = "L1" /\ UNCHANGED rep
  /\ UNCHANGED <<subject, llbc, extract, json, proofs>>

(* lh is asked when it is there; its answer is written and decides nothing.*)
lh_verify == {Absent, \A t \in Range(subject.frag.theorems) : subject.frag.proof[t] = "closed"}

(* A proof.json that cannot be written is left as it was.                  *)
Certify ==
  /\ stage = "report"
  /\ \E lh \in lh_verify :
       json' \in {json, [example |-> subject, level |-> level, lh |-> lh, of |-> rep.of]}
  /\ Leave(IF rep.sorry_free THEN 0 ELSE 1)
  /\ UNCHANGED <<subject, llbc, extract, rep, level, proofs>>

KillProof ==
  /\ stage # "idle"
  /\ stage' = "idle" /\ ended' = Absent
  /\ UNCHANGED <<subject, llbc, extract, rep, json, level, proofs>>

ProveNext ==
  StartProof \/ Translate \/ Charon \/ Aeneas \/ prove_aeneas \/ Certify \/ KillProof

ProveSpec == ProveInit /\ [][ProveNext]_proving

-----------------------------------------------------------------------------
Earned(x, from) ==
  /\ from = origin(x)
  /\ \A t \in x.frag.audited : \A u \in RestsOn(x.frag, t) : x.frag.proof[u] = "closed"

(* prove.rs:72-75 and frontend.rs:353-356: level L3, on the terminal or in *)
(* proof.json, is about the definition extracted from that example, not    *)
(* one that an earlier or killed call left behind, and rests on no sorry   *)
(* in any theorem whose axioms were printed, nor in one that these cite;   *)
(* and nothing but L3 and a skip exits 0.                                  *)
ProvedIsEarned ==
  /\ level = "L3_proved" => Earned(subject, rep.of)
  /\ json # Absent /\ json.level = "L3_proved" => Earned(json.example, json.of)
  /\ ended = 0 => level \in {"L3_proved", "SKIPPED"}

(* prove.rs:72-73: "a `sorry` anywhere in a theorem's proof surfaces as    *)
(* the `sorryAx` axiom": an obligation listed at level L3 has none.        *)
SorrySurfaces ==
  level = "L3_proved" => \A t \in Range(rep.theorems) : SorryFree(subject.frag, t)
=============================================================================
