------------------------------ MODULE ModelCli ------------------------------
(***************************************************************************)
(* `lift model check`, `prove`, `simulate`, `export` and `prism`           *)
(* (src/src/models/mod.rs, report.rs): one invocation after another in one *)
(* directory, each of which may be killed, while the Lean theory that      *)
(* proofs import is edited in between.                                     *)
(*                                                                         *)
(* A file is a record of what decides the control flow:                    *)
(*   [name : its path, stem : file_stem of it, kind : the family, xml,     *)
(*    parses, cyclic : an immediate cycle, queries,                        *)
(*    safe : nothing forbidden is reachable, small : within the bound,     *)
(*    provable : the theorem of its Lean export holds, meets : it is       *)
(*    schedulable or stable].                                              *)
(* Checker, PtNet, Rt, Qnet, Gspn and Executor model what stands behind.   *)
(***************************************************************************)
EXTENDS Integers, Sequences, FiniteSets

CONSTANTS
  Specs,      \* the files there are
  Theory,     \* the modules of lean/LeanLift/Models
  Nothing,    \* no file on disk, no exit code
  MaxCalls,   \* invocations
  MaxEdits    \* edits of the theory

VARIABLES
  call,       \* the invocation: [verb, spec], or Nothing
  at,         \* its next step
  source,     \* [Theory -> version of the source]
  olean,      \* [Theory -> version compiled, Partial or Nothing]
  dated,      \* [Theory -> the olean is no older than its source]
  proof,      \* [stem -> the file whose proof <stem>.gen.lean holds, or Nothing]
  kept,       \* model-report.json: [of, level, prism], or Nothing
  printed,    \* the level on the terminal
  exit,       \* the last exit code
  calls, edits

cli == <<call, at, source, olean, dated, proof, kept, printed, exit, calls, edits>>

Partial == 0    \* an olean that a killed compiler left half written

(* The theory has what proofs import; Nothing is no exit code and no       *)
(* version.                                                                *)
TheoryAssumption == {"Fsm", "Petri"} \subseteq Theory /\ Nothing \notin Nat

Verbs == {"check", "prove", "simulate", "export", "prism"}
Stems == {f.stem : f \in Specs}

ToLts == {"fsm", "bt"}
ToNet == {"petri", "cpn"}

(* What a generated proof imports.                                         *)
Imports(f) == {"Fsm"} \cup IF f.kind \in ToLts THEN {} ELSE {"Petri"}

safe(f) == f.safe /\ f.small

CliInit ==
  /\ call = Nothing /\ at = "idle"
  /\ source = [t \in Theory |-> 1]
  /\ olean \in [Theory -> {Nothing, 1}]
  /\ dated = [t \in Theory |-> olean[t] # Nothing]
  /\ proof = [s \in Stems |-> Nothing]
  /\ kept = Nothing /\ printed = "nothing" /\ exit = Nothing
  /\ calls = 0 /\ edits = 0

disk == <<source, olean, dated, proof, kept>>

Invoke ==
  /\ at = "idle" /\ calls < MaxCalls
  /\ \E v \in Verbs, f \in Specs : call' = [verb |-> v, spec |-> f]
  /\ at' = "load" /\ printed' = "nothing" /\ exit' = Nothing
  /\ calls' = calls + 1
  /\ UNCHANGED <<disk, edits>>

Exit(c) == exit' = c /\ at' = "idle"

(* Reading the file and the dispatch on its family.  XML is read by check, *)
(* prove and export; the other two parse the text as TOML and fail.        *)
Applies(verb, f) ==
  CASE verb = "check" -> f.kind # "spn"
    [] verb = "prove" -> f.kind \notin {"tasks", "qnet"}
    [] verb = "export" -> f.kind \in ToLts \cup ToNet
    [] verb = "simulate" -> f.kind \in {"spn", "tasks", "qnet"} /\ ~f.xml
    [] verb = "prism" -> f.kind = "spn" /\ ~f.xml

Load ==
  /\ at = "load"
  /\ LET f == call.spec
     IN  IF ~f.parses \/ f.kind = "unknown" \/ ~Applies(call.verb, f)
           THEN Exit(2)
           ELSE at' = call.verb /\ UNCHANGED exit
  /\ UNCHANGED <<call, disk, printed, calls, edits>>

-----------------------------------------------------------------------------
(* write_json, write_prove_json, write_prism_json: a report that cannot be *)
(* written is a warning, and the old one stays.                            *)
Reported(level, prism) ==
  kept' \in {[of |-> call.spec.name, level |-> level, prism |-> prism], kept}

check_cmd ==
  /\ at = "check"
  /\ LET f == call.spec
     IN  IF f.kind \in {"tasks", "qnet"}
           THEN /\ Exit(IF f.meets THEN 0 ELSE 1)
                /\ UNCHANGED <<printed, kept>>
           ELSE /\ printed' = IF safe(f) THEN "M1_checked" ELSE "M0_modelled"
                /\ Reported(printed', Nothing)
                /\ Exit(IF safe(f) THEN 0 ELSE 1)
  /\ UNCHANGED <<call, source, olean, dated, proof, calls, edits>>

prove_cmd ==
  /\ at = "prove"
  /\ at' = "theory"
  /\ UNCHANGED <<call, disk, printed, exit, calls, edits>>

(* ensure_models_lib, in the order of the directory: what has no olean, or *)
(* one older than its source, is compiled.                                 *)
staleMissing(t) == olean[t] = Nothing                   \* mutant: dates not looked at
stale(t) == olean[t] = Nothing \/ ~dated[t]

ensure_models_lib ==
  /\ at = "theory"
  /\ \/ \E t \in {u \in Theory : stale(u)} :
          \/ /\ olean' = [olean EXCEPT ![t] = source[t]]
             /\ dated' = [dated EXCEPT ![t] = TRUE]
             /\ UNCHANGED <<at, exit>>
          \/ Exit(2) /\ UNCHANGED <<olean, dated>>
     \/ /\ \A t \in Theory : ~stale(t)
        /\ at' = "emit"
        /\ UNCHANGED <<olean, dated, exit>>
  /\ UNCHANGED <<call, source, proof, kept, printed, calls, edits>>

EmitProof ==
  /\ at = "emit"
  /\ \/ /\ proof' = [proof EXCEPT ![call.spec.stem] = call.spec]
        /\ at' = "elaborate" /\ UNCHANGED exit
     \/ Exit(2) /\ UNCHANGED proof
  /\ UNCHANGED <<call, source, olean, dated, kept, printed, calls, edits>>

(* Lean, external: what it may say of the file that is there.              *)
TheoryWhole == \A t \in Imports(call.spec) : olean[t] \notin {Nothing, Partial}
LeanSays ==
  {"rejects"} \cup
  (IF TheoryWhole THEN {"sorry"} ELSE {}) \cup
  (IF TheoryWhole /\ proof[call.spec.stem].provable THEN {"closes"} ELSE {})

Elaborate ==
  /\ at = "elaborate"
  /\ \/ Exit(2) /\ UNCHANGED <<printed, kept>>
     \/ \E o \in LeanSays :
          /\ printed' = CASE o = "rejects" -> "M1_checked"
                          [] o = "sorry"   -> "M2_unverified"
                          [] o = "closes"  -> "M3_proved"
          /\ Reported(IF o = "closes" THEN "M3_proved" ELSE "M2_unverified", Nothing)
          /\ Exit(IF o = "closes" THEN 0 ELSE 1)
  /\ UNCHANGED <<call, source, olean, dated, proof, calls, edits>>

-----------------------------------------------------------------------------
(* simulate prints and exits 0, but for a network that is not stable.      *)
simulate_cmd ==
  /\ at = "simulate"
  /\ Exit(IF call.spec.kind = "qnet" /\ ~call.spec.meets THEN 1 ELSE 0)
  /\ UNCHANGED <<call, disk, printed, calls, edits>>

(* Without --verify, which is Executor, an export writes its file.         *)
export_cmd ==
  /\ at = "export"
  /\ Exit(0) \/ Exit(2)
  /\ UNCHANGED <<call, disk, printed, calls, edits>>

(* run_prism_and_diff: no binary, or so many results, that many of them as *)
(* the solver's.                                                           *)
zip_prism_and_diff(results, agreeing) ==          \* mutant: the pairs there are
  IF agreeing # results THEN "disagreement" ELSE "machine_checked"
run_prism_and_diff(results, agreeing) ==
  IF results # call.spec.queries \/ agreeing # results THEN "disagreement" ELSE "machine_checked"

prism_cmd ==
  /\ at = "prism"
  /\ IF call.spec.cyclic
       THEN Exit(2) /\ UNCHANGED <<printed, kept>>
       ELSE /\ printed' = "M2_measured"
            /\ \/ Reported("M2_measured", [verdict |-> "self_checked", agreed |-> 0])
               \/ \E n \in 0..2 : \E k \in 0..n :
                    Reported("M2_measured", [verdict |-> run_prism_and_diff(n, k), agreed |-> k])
            /\ Exit(0)
  /\ UNCHANGED <<call, source, olean, dated, proof, calls, edits>>

-----------------------------------------------------------------------------
(* A kill ends a command anywhere; the compiler under it may have written  *)
(* part of an olean, which is then newer than its source.                  *)
Kill ==
  /\ at # "idle"
  /\ at' = "idle" /\ exit' = Nothing
  /\ \/ UNCHANGED <<olean, dated>>
     \/ /\ at = "theory"
        /\ \E t \in {u \in Theory : stale(u)} :
             /\ olean' = [olean EXCEPT ![t] = Partial]
             /\ dated' = [dated EXCEPT ![t] = TRUE]
  /\ UNCHANGED <<call, source, proof, kept, printed, calls, edits>>

Edit ==
  /\ at = "idle" /\ edits < MaxEdits
  /\ \E t \in Theory :
       /\ source' = [source EXCEPT ![t] = @ + 1]
       /\ dated' = [dated EXCEPT ![t] = FALSE]
  /\ edits' = edits + 1
  /\ UNCHANGED <<call, at, olean, proof, kept, printed, exit, calls>>

CliNext ==
  \/ Invoke \/ Load \/ check_cmd \/ prove_cmd \/ ensure_models_lib \/ EmitProof \/ Elaborate
  \/ simulate_cmd \/ export_cmd \/ prism_cmd \/ Kill \/ Edit

CliSpec == CliInit /\ [][CliNext]_cli

-----------------------------------------------------------------------------
Merits(f, level) ==
  /\ level = "M3_proved" => f.provable
  /\ level = "M1_checked" => f.safe

(* report.rs:5-8: the report names the file it is about, and what it says  *)
(* of that file is so, whatever ran or was killed since; machine_checked   *)
(* means that PRISM answered every query as the solver did.                *)
ReportIsTrue ==
  kept # Nothing =>
    \E f \in Specs :
      /\ f.name = kept.of
      /\ Merits(f, kept.level)
      /\ kept.prism # Nothing /\ kept.prism.verdict = "machine_checked"
           => kept.prism.agreed = f.queries

(* mod.rs:91-470, 644-740: an exit 0 is earned by the file of that call,  *)
(* whatever earlier calls left in the directory: the file is one that the  *)
(* command takes, and what the command asks of it is so.                   *)
ExitIsEarned ==
  exit = 0 =>
    /\ call.spec.parses /\ Applies(call.verb, call.spec)
    /\ call.verb = "prove" => call.spec.provable /\ printed = "M3_proved"
    /\ call.verb = "check" =>
         IF call.spec.kind \in {"tasks", "qnet"} THEN call.spec.meets ELSE safe(call.spec)
    /\ call.verb = "simulate" /\ call.spec.kind = "qnet" => call.spec.meets
    /\ call.verb = "prism" => ~call.spec.cyclic

(* Report and exit code together, over any sequence of calls.              *)
VerdictIsEarned == ReportIsTrue /\ ExitIsEarned

(* mod.rs:798-832: a proof is only reported closed over the theory as it   *)
(* is now: no compiled module it imports is older than its source.         *)
TheoryIsCurrent ==
  [][printed' = "M3_proved" /\ printed # "M3_proved" =>
       \A t \in Imports(call.spec) : olean[t] = source[t]]_cli
=============================================================================
