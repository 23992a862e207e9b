------------------------------- MODULE Verify -------------------------------
(***************************************************************************)
(* `lift verify` (verify_cmd in src/src/main.rs): processes that build the *)
(* source's oracle, obtain a Lean candidate, run both over the same        *)
(* vectors and compare.  All processes of a machine share the work         *)
(* directory (temp_dir/leanlift-work), and those started in one directory  *)
(* the cache of answers.  A process may be killed anywhere, and leaves its *)
(* files to the next.                                                      *)
(*                                                                         *)
(* A result map is the record of whose code ran on whose vectors; a Lean   *)
(* definition is a member of Def.  A process counts as one step each file  *)
(* it reads or writes and each command it runs, but the write of a cache   *)
(* entry is two: the file is created or cut to nothing, then filled, and   *)
(* other processes may look it up, create it or fill it in between.        *)
(***************************************************************************)
EXTENDS Integers, FiniteSets

CONSTANTS
  Proc,          \* invocations of lift
  MaxRunning,    \* how many of them may run at the same time
  Example,       \* the built-in examples
  entrypoint,    \* [Example -> Name]   the function each is about
  Lane,          \* the LLM lanes that --lane may name
  Configured,    \* those whose endpoint or binary is there
  Def,           \* Lean definitions a front-end may come up with
  Typechecks,    \* those that Lean accepts
  Agrees,        \* pairs <<e, d>>: d gives e's results on e's vectors
  extracted,     \* [Example -> Def]  what Charon and Aeneas make of e
  MaxIters,      \* the iteration bound of the repair loop
  NoDef          \* no definition, or an empty answer

ASSUME DefAssumption == /\ NoDef \notin Def \cup Example
                        /\ Typechecks \subseteq Def
                        /\ Agrees \subseteq Example \X Typechecks
                        /\ extracted \in [Example -> Def]
ASSUME ItersAssumption == MaxIters \in Nat \ {0}

VARIABLES
  pc,       \* where each process is
  ex,       \* ex[p]       its example
  kind,     \* kind[p]     its front-end
  lane,     \* lane[p]     its lane (LLM front-end only)
  cpp,      \* cpp[p]      the oracle's results
  def,      \* def[p]      the definition it has obtained
  prompt,   \* prompt[p]   what it is asking the lane
  iter,     \* iter[p]     iteration of run_llm, 0 outside the loop
  attempt,  \* attempt[p]  attempt of leanrt::run
  results,  \* results[p]  the candidate's results
  verdict,  \* verdict[p]  "L1", "L0", "failed", "skipped", or "none"
  work,     \* the shared work directory
  cache,    \* .leanlift-cache: pairs <<prompt, text>>, the text being the
            \* set of answers it is made of: none while the file is empty,
            \* one when it is whole, several when writes have overlapped
  replied,  \* history: the answers the lanes have given
  crowded   \* history: the processes that have run while another did

local == <<ex, kind, lane, cpp, def, prompt, iter, attempt, results, verdict>>
history == <<replied, crowded>>
verifying == <<pc, local, work, cache, history>>

Kinds == {"prewritten", "llm", "rust", "cpp2rust"}
NoRun == [of |-> NoDef, on |-> NoDef]     \* an empty result map

Running(p) == pc[p] \notin {"idle", "end"}
Goto(p, l) == pc' = [pc EXCEPT ![p] = l]

(* exit(code), after printing the level.                                   *)
EndWith(p, v) == Goto(p, "end") /\ verdict' = [verdict EXCEPT ![p] = v]
ExitCode(p) == IF verdict[p] \in {"L1", "skipped"} THEN 0 ELSE 1

VerifyInit ==
  /\ pc = [p \in Proc |-> "idle"]
  /\ ex \in [Proc -> Example]
  /\ kind \in [Proc -> Kinds]
  /\ lane \in [Proc -> Lane]
  /\ cpp = [p \in Proc |-> NoRun]
  /\ def = [p \in Proc |-> NoDef]
  /\ prompt = [p \in Proc |-> NoDef]
  /\ iter = [p \in Proc |-> 0]
  /\ attempt = [p \in Proc |-> 0]
  /\ results = [p \in Proc |-> NoRun]
  /\ verdict = [p \in Proc |-> "none"]
  /\ work = [vectors |-> NoDef, oracle |-> NoDef, llbc |-> NoDef,
             extract |-> NoDef, LlmCandidate |-> NoDef, RustRunner |-> NoDef]
  /\ cache = {}
  /\ replied = {}
  /\ crowded = {}

-----------------------------------------------------------------------------
(* Steps 1 to 3 of verify_cmd: skip when cpp2rust is not built, compile    *)
(* the support library, write the vectors, build the oracle, run it.       *)
Start(p) ==
  /\ pc[p] = "idle"
  /\ LET others == {q \in Proc : Running(q)}
     IN  /\ Cardinality(others) < MaxRunning
         /\ crowded' = IF others = {} THEN crowded ELSE crowded \cup others \cup {p}
  /\ \/ Goto(p, "support") /\ UNCHANGED verdict
     \/ kind[p] = "cpp2rust" /\ EndWith(p, "skipped")
  /\ UNCHANGED <<ex, kind, lane, cpp, def, prompt, iter, attempt, results,
                 work, cache, replied>>

EnsureSupportLib(p) ==
  /\ pc[p] = "support"
  /\ \/ Goto(p, "vectors") /\ UNCHANGED verdict
     \/ EndWith(p, "failed")
  /\ UNCHANGED <<ex, kind, lane, cpp, def, prompt, iter, attempt, results,
                 work, cache, history>>

WriteVectors(p) ==
  /\ pc[p] = "vectors"
  /\ work' = [work EXCEPT !.vectors = ex[p]]
  /\ Goto(p, "build")
  /\ UNCHANGED <<local, cache, history>>

BuildUnchecked(p) ==                             \* mutant: exit status ignored
  /\ pc[p] = "build"
  /\ Goto(p, "oracle") /\ UNCHANGED verdict
  /\ \/ work' = [work EXCEPT !.oracle = ex[p]]
     \/ UNCHANGED work
  /\ UNCHANGED <<ex, kind, lane, cpp, def, prompt, iter, attempt, results, cache, history>>

BuildOracle(p) ==
  /\ pc[p] = "build"
  /\ \/ /\ work' = [work EXCEPT !.oracle = ex[p]]
        /\ Goto(p, "oracle")
        /\ UNCHANGED verdict
     \/ EndWith(p, "failed") /\ UNCHANGED work
  /\ UNCHANGED <<ex, kind, lane, cpp, def, prompt, iter, attempt, results, cache, history>>

Frontend(p) == CASE kind[p] = "llm" -> "lane"
                 [] kind[p] = "rust" -> "charon"
                 [] kind[p] = "cpp2rust" -> "translate"
                 [] kind[p] = "prewritten" -> "given"

RunOracle(p) ==
  /\ pc[p] = "oracle"
  /\ \/ /\ cpp' = [cpp EXCEPT ![p] = [of |-> work.oracle, on |-> work.vectors]]
        /\ Goto(p, Frontend(p))
        /\ UNCHANGED verdict
     \/ EndWith(p, "failed") /\ UNCHANGED cpp
  /\ UNCHANGED <<ex, kind, lane, def, prompt, iter, attempt, results, work, cache, history>>

-----------------------------------------------------------------------------
(* The front-ends other than the LLM's (Frontend::produce).  A file given  *)
(* with --lean is the process's own.                                       *)
Prewritten(p) ==
  /\ pc[p] = "given"
  /\ \E d \in Def : def' = [def EXCEPT ![p] = d]
  /\ Goto(p, "lean")
  /\ UNCHANGED <<ex, kind, lane, cpp, prompt, iter, attempt, results, verdict, work, cache, history>>

(* cpp2rust_translate stages one crate for every example, and removes the  *)
(* LLBC of the example staged there before.                                *)
StaleLlbc == NoDef

TranslateSource(p) ==
  /\ pc[p] = "translate"
  /\ \/ /\ work' = [work EXCEPT !.llbc = StaleLlbc]
        /\ Goto(p, "charon")
        /\ UNCHANGED verdict
     \/ EndWith(p, "failed") /\ UNCHANGED work
  /\ UNCHANGED <<ex, kind, lane, cpp, def, prompt, iter, attempt, results, cache, history>>

(* The newest LLBC of the process's crate: a Rust example has a crate of   *)
(* its own, so its LLBC is always of that example.                         *)
Llbc(p) == IF kind[p] = "cpp2rust" THEN work.llbc ELSE ex[p]

(* extract_rust_def: Charon must succeed, and an LLBC must be there.       *)
RunCharon(p) ==
  /\ pc[p] = "charon"
  /\ \/ /\ kind[p] = "cpp2rust"
        /\ work' = [work EXCEPT !.llbc = ex[p]]
        /\ Goto(p, "aeneas")
        /\ UNCHANGED verdict
     \/ Llbc(p) # NoDef /\ Goto(p, "aeneas") /\ UNCHANGED <<verdict, work>>
     \/ EndWith(p, "failed") /\ UNCHANGED work
  /\ UNCHANGED <<ex, kind, lane, cpp, def, prompt, iter, attempt, results, cache, history>>

(* The extraction directory is cleared first; Aeneas may fail or die: only *)
(* what it left behind is looked at.                                       *)
Uncleared == work.extract                        \* mutant: directory kept
Cleared == NoDef

RunAeneas(p) ==
  /\ pc[p] = "aeneas"
  /\ \E m \in {Llbc(p), Cleared} : work' = [work EXCEPT !.extract = m]
  /\ Goto(p, "slice")
  /\ UNCHANGED <<local, cache, history>>

(* slice_def finds the entrypoint by name in whatever module is newest.    *)
Slice(p) ==
  /\ pc[p] = "slice"
  /\ IF work.extract \in Example /\ entrypoint[work.extract] = entrypoint[ex[p]]
     THEN /\ def' = [def EXCEPT ![p] = extracted[work.extract]]
          /\ work' = [work EXCEPT !.RustRunner = extracted[work.extract]]
          /\ Goto(p, "lean")
          /\ UNCHANGED verdict
     ELSE EndWith(p, "failed") /\ UNCHANGED <<def, work>>
  /\ UNCHANGED <<ex, kind, lane, cpp, prompt, iter, attempt, results, cache, history>>

-----------------------------------------------------------------------------
(* run_llm: ask for a translation, then at most MaxIters times write the   *)
(* candidate, run it, compare, and ask for a repair.                       *)
Ask(p, prev, why) ==
  prompt' = [prompt EXCEPT ![p] = [lane |-> lane[p], ex |-> ex[p], prev |-> prev, why |-> why]]

ResolveLane(p) ==
  /\ pc[p] = "lane"
  /\ \/ /\ lane[p] \in Configured
        /\ Goto(p, "query")
        /\ Ask(p, NoDef, "translate")
        /\ iter' = [iter EXCEPT ![p] = 1]
        /\ UNCHANGED verdict
     \/ /\ lane[p] \notin Configured
        /\ EndWith(p, "skipped")
        /\ UNCHANGED <<prompt, iter>>
  /\ UNCHANGED <<ex, kind, lane, cpp, def, attempt, results, work, cache, history>>

Hits(q) == {c \in cache : c[1] = q}

(* The cache key: the lane's id and the prompt, previous definition and    *)
(* failure included.                                                       *)
Key(p) == prompt[p]

Mixed(text) == Cardinality(text) > 1

(* What extract_def makes of a text: of a mixed one, any definition.       *)
Reads(text) == IF text = {} THEN {NoDef} ELSE IF Mixed(text) THEN Def ELSE text

CacheHit(p) ==
  /\ pc[p] = "query"
  /\ \E c \in Hits(Key(p)) : \E d \in Reads(c[2]) : def' = [def EXCEPT ![p] = d]
  /\ Goto(p, "propose")
  /\ UNCHANGED <<ex, kind, lane, cpp, prompt, iter, attempt, results, verdict,
                 work, cache, history>>

(* There is no entry, or one that is not UTF-8: a mix may have cut a       *)
(* character in two.                                                       *)
CacheMiss(p) ==
  /\ pc[p] = "query"
  /\ \A c \in Hits(Key(p)) : Mixed(c[2])
  /\ Goto(p, "ask")
  /\ UNCHANGED <<local, work, cache, history>>

(* A failed query ends the run and leaves no entry behind.                 *)
QueryLane(p) ==
  /\ pc[p] = "ask"
  /\ \/ \E d \in Def :
          /\ def' = [def EXCEPT ![p] = d]
          /\ replied' = replied \cup {<<prompt[p], d>>}
          /\ Goto(p, "create")
          /\ UNCHANGED verdict
     \/ EndWith(p, "failed") /\ UNCHANGED <<def, replied>>
  /\ UNCHANGED <<ex, kind, lane, cpp, prompt, iter, attempt, results, work, cache, crowded>>

Entry(p, text) == (cache \ Hits(Key(p))) \cup {<<Key(p), text>>}

(* fs::write opens the file, which cuts it to nothing, and writes at its   *)
(* beginning: a longer text that another process has written meanwhile     *)
(* shows behind it.  Either call may fail, which is ignored.               *)
CreateEntry(p) ==
  /\ pc[p] = "create"
  /\ \/ cache' = Entry(p, {}) /\ Goto(p, "fill")
     \/ UNCHANGED cache /\ Goto(p, "propose")
  /\ UNCHANGED <<local, work, history>>

FillEntry(p) ==
  /\ pc[p] = "fill"
  /\ \/ cache' = Entry(p, {def[p]})
     \/ \E c \in Hits(Key(p)) : cache' = Entry(p, c[2] \cup {def[p]})
     \/ UNCHANGED cache
  /\ Goto(p, "propose")
  /\ UNCHANGED <<local, work, history>>

WriteCandidate(p) ==
  /\ pc[p] = "propose"
  /\ work' = [work EXCEPT !.LlmCandidate = def[p]]
  /\ Goto(p, "lean")
  /\ UNCHANGED <<local, cache, history>>

-----------------------------------------------------------------------------
(* leanrt::run: write the vectors, then run the candidate's file, again if *)
(* Lean exits with success and no output (a flake).                        *)
Candidate(p) == CASE kind[p] = "llm" -> work.LlmCandidate
                  [] kind[p] = "prewritten" -> def[p]
                  [] OTHER -> work.RustRunner

LeanVectors(p) ==
  /\ pc[p] = "lean"
  /\ work' = [work EXCEPT !.vectors = ex[p]]
  /\ attempt' = [attempt EXCEPT ![p] = 1]
  /\ Goto(p, "run")
  /\ UNCHANGED <<ex, kind, lane, cpp, def, prompt, iter, results, verdict, cache, history>>

RepairUncounted(p, why) ==                       \* mutant: not counted
  iter' = iter /\ Ask(p, def[p], why) /\ Goto(p, "query")

(* A repair with the given reason, unless this was the last iteration;     *)
(* run_llm then returns, and verify_cmd runs the candidate once more.      *)
Repair(p, why) ==
  IF iter[p] = MaxIters
  THEN /\ iter' = [iter EXCEPT ![p] = 0]
       /\ Goto(p, "lean")
       /\ UNCHANGED prompt
  ELSE /\ iter' = [iter EXCEPT ![p] = @ + 1]
       /\ Ask(p, def[p], why)
       /\ Goto(p, "query")

LeanError(p) ==
  IF iter[p] > 0 THEN Repair(p, "elaboration") /\ UNCHANGED verdict
                 ELSE EndWith(p, "failed") /\ UNCHANGED <<iter, prompt>>

FlakeUsable == FALSE

LeanRejects(p) ==
  /\ pc[p] = "run"
  /\ Candidate(p) \notin Typechecks
  /\ LeanError(p)
  /\ UNCHANGED <<ex, kind, lane, cpp, def, attempt, results, work, cache, history>>

LeanRuns(p) ==
  /\ pc[p] = "run"
  /\ Candidate(p) \in Typechecks
  /\ results' = [results EXCEPT ![p] = [of |-> Candidate(p), on |-> work.vectors]]
  /\ Goto(p, "compare")
  /\ UNCHANGED <<ex, kind, lane, cpp, def, prompt, iter, attempt, verdict, work, cache, history>>

LeanFlakes(p) ==
  /\ pc[p] = "run"
  /\ Candidate(p) \in Typechecks
  /\ IF FlakeUsable
     THEN /\ results' = [results EXCEPT ![p] = NoRun]
          /\ Goto(p, "compare")
          /\ UNCHANGED <<attempt, iter, prompt, verdict>>
     ELSE /\ UNCHANGED results
          /\ IF attempt[p] < 2
             THEN /\ attempt' = [attempt EXCEPT ![p] = @ + 1]
                  /\ UNCHANGED <<pc, iter, prompt, verdict>>
             ELSE LeanError(p) /\ UNCHANGED attempt
  /\ UNCHANGED <<ex, kind, lane, cpp, def, work, cache, history>>

-----------------------------------------------------------------------------
(* compare: no line is an unexplained mismatch.  A vector that either side *)
(* has no result for is one.                                               *)
Conformant(p) ==
  /\ cpp[p].on = ex[p]
  /\ results[p].on = ex[p]
  /\ <<cpp[p].of, results[p].of>> \in Agrees

(* Inside run_llm a conformant candidate ends the loop, and verify_cmd     *)
(* runs it once more; outside, the comparison is the verdict.              *)
Settle(p) ==
  /\ pc[p] = "compare"
  /\ iter[p] > 0
  /\ IF Conformant(p)
     THEN /\ iter' = [iter EXCEPT ![p] = 0]
          /\ Goto(p, "lean")
          /\ UNCHANGED prompt
     ELSE Repair(p, "mismatch")
  /\ UNCHANGED <<ex, kind, lane, cpp, def, attempt, results, verdict, work, cache, history>>

Assess(p) ==
  /\ pc[p] = "compare"
  /\ iter[p] = 0
  /\ EndWith(p, IF Conformant(p) THEN "L1" ELSE "L0")
  /\ UNCHANGED <<ex, kind, lane, cpp, def, prompt, iter, attempt, results, work, cache, history>>

(* The process is killed: what it held is gone, its files stay.            *)
Killed(p) ==
  /\ Running(p)
  /\ Goto(p, "end")
  /\ cpp' = [cpp EXCEPT ![p] = NoRun] /\ results' = [results EXCEPT ![p] = NoRun]
  /\ def' = [def EXCEPT ![p] = NoDef] /\ prompt' = [prompt EXCEPT ![p] = NoDef]
  /\ iter' = [iter EXCEPT ![p] = 0] /\ attempt' = [attempt EXCEPT ![p] = 0]
  /\ UNCHANGED <<ex, kind, lane, verdict, work, cache, history>>

StepOf(p) ==
  \/ EnsureSupportLib(p) \/ WriteVectors(p) \/ BuildOracle(p) \/ RunOracle(p)
  \/ Prewritten(p) \/ TranslateSource(p) \/ RunCharon(p) \/ RunAeneas(p) \/ Slice(p)
  \/ ResolveLane(p) \/ CacheHit(p) \/ CacheMiss(p) \/ QueryLane(p)
  \/ CreateEntry(p) \/ FillEntry(p) \/ WriteCandidate(p)
  \/ LeanVectors(p) \/ LeanRejects(p) \/ LeanRuns(p) \/ LeanFlakes(p)
  \/ Settle(p) \/ Assess(p)

Done == (\A p \in Proc : pc[p] = "end") /\ UNCHANGED verifying

VerifyNext == (\E p \in Proc : Start(p) \/ StepOf(p) \/ Killed(p)) \/ Done

VerifySpec == VerifyInit /\ [][VerifyNext]_verifying
VerifyFairSpec == VerifySpec /\ \A p \in Proc : WF_verifying(StepOf(p))

-----------------------------------------------------------------------------
Prompt == [lane : Lane, ex : Example, prev : Def \cup {NoDef},
           why : {"translate", "elaboration", "mismatch"}]
RunMap == [of : Example \cup Def \cup {NoDef}, on : Example \cup {NoDef}]

WorkDir == [vectors : Example \cup {NoDef}, oracle : Example \cup {NoDef},
            llbc : Example \cup {NoDef}, extract : Example \cup {NoDef},
            LlmCandidate : Def \cup {NoDef}, RustRunner : Def \cup {NoDef}]
Labels == {"idle", "support", "vectors", "build", "oracle", "given", "translate", "charon",
           "aeneas", "slice", "lane", "query", "ask", "create", "fill", "propose", "lean",
           "run", "compare", "end"}

VerifyTypeOK ==
  /\ pc \in [Proc -> Labels]
  /\ verdict \in [Proc -> {"L1", "L0", "failed", "skipped", "none"}]
  /\ work \in WorkDir
  /\ ex \in [Proc -> Example] /\ kind \in [Proc -> Kinds] /\ lane \in [Proc -> Lane]
  /\ cpp \in [Proc -> RunMap] /\ results \in [Proc -> RunMap]
  /\ def \in [Proc -> Def \cup {NoDef}]
  /\ prompt \in [Proc -> Prompt \cup {NoDef}]
  /\ iter \in [Proc -> 0..MaxIters] /\ attempt \in [Proc -> 0..2]
  /\ cache \subseteq Prompt \X SUBSET Def
  /\ replied \subseteq Prompt \X Def
  /\ crowded \subseteq Proc

(* A verdict "L1 conformant" is about the invoked example and the          *)
(* definition this process obtained for it (src/src/report.rs).            *)
L1Genuine(p) == verdict[p] = "L1" => <<ex[p], def[p]>> \in Agrees
L1IsGenuine == \A p \in Proc : L1Genuine(p)

(* "NOT conformant" is a measured disagreement of a definition that Lean   *)
(* accepts: a runner that did not execute is never scored as one           *)
(* (src/src/leanrt.rs, "a false red").                                     *)
L0IsMeasured(p) ==
  verdict[p] = "L0" => def[p] \in Typechecks /\ <<ex[p], def[p]>> \notin Agrees

(* Both verdicts of an invocation that ran alone are about what it was     *)
(* asked, whatever earlier ones, overlapping or killed, left in the work   *)
(* directory or in the cache.                                              *)
VerdictsAreGenuine == \A p \in Proc \ crowded : L1Genuine(p) /\ L0IsMeasured(p)

(* What the sound path runs was extracted from this invocation's source,   *)
(* not left by another example with the same entrypoint, even when Charon  *)
(* or Aeneas die (src/src/frontend.rs, extract_rust_def).                  *)
OwnExtraction(p) ==
  kind[p] \in {"rust", "cpp2rust"} /\ def[p] # NoDef => def[p] = extracted[ex[p]]

(* The candidate of the LLM front-end is what the lane answered to the     *)
(* very prompt it stands for, now or in an earlier invocation, unless the  *)
(* entry of that prompt was left empty or mixed.                           *)
OwnAnswer(p) ==
  kind[p] = "llm" /\ pc[p] \in {"create", "fill", "propose", "lean", "run", "compare"} =>
    \/ def[p] = NoDef \/ <<prompt[p], def[p]>> \in replied
    \/ \E c \in Hits(prompt[p]) : Mixed(c[2])

(* Whatever an entry's text is made of are answers that its own lane gave  *)
(* to its very prompt, the definition to repair included, however many     *)
(* processes look it up, ask and write it at once; and only invocations    *)
(* that overlap leave a mixed one (harness.rs, query).                     *)
CacheIsKeyed ==
  \A c \in cache : /\ \A d \in c[2] : <<c[1], d>> \in replied
                   /\ Mixed(c[2]) => crowded # {}

(* The candidate of an invocation that ran alone is its own, whether       *)
(* extracted or cached, and the cache always answers what it is keyed by.  *)
CandidateIsOwn ==
  CacheIsKeyed /\ \A p \in Proc \ crowded : OwnExtraction(p) /\ OwnAnswer(p)

(* Every entry is a complete answer: README.md says that responses are     *)
(* content-addressed so that reruns do not query again.                    *)
CacheIsComplete ==
  \A c \in cache :
    (\E d \in Def : c = <<c[1], {d}>>) \/ \E p \in Proc : pc[p] = "fill" /\ Key(p) = c[1]

(* Lean is said to have rejected a definition only if it did: a runner     *)
(* that never ran does not mean that the candidate is wrong                *)
(* (src/src/leanrt.rs).                                                    *)
RejectionIsEarned ==
  \A p \in Proc : prompt[p] # NoDef /\ prompt[p].why = "elaboration" =>
    prompt[p].prev \notin Typechecks

(* An invocation whose lane is not there skips, with exit code 0, whatever *)
(* else the machine lacks (src/src/main.rs, verify_cmd).                   *)
SkipIsClean ==
  \A p \in Proc : kind[p] = "llm" /\ lane[p] \notin Configured /\ verdict[p] # "none" =>
    ExitCode(p) = 0

(* The repair loop, the retry of the runner and the tools in between come  *)
(* to an end, whatever the lane answers and however often Lean flakes.     *)
EveryRunEnds == \A p \in Proc : Running(p) ~> ~Running(p)
=============================================================================
