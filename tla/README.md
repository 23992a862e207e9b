# LeanLift in TLA+

This directory is a TLA+ development of [LeanLift](../src/README.md): modules that model its
components, TLC configurations that check them on small instances, and TLAPS proofs of the
theorems that matter most. Source paths below are written from the root of this checkout
(`src/src/main.rs` is the repository's `src/main.rs`); a file named alone is in `src/src/models/`
or `src/src/`.

1. [The system](#1-the-system): inventory, interactions, what is hard
2. [The modules](#2-the-modules): which module models which code, and how
3. [The runs](#3-the-runs): what each shows, its bounds, fairness
4. [The proofs](#4-the-proofs)
5. [Findings](#5-findings)
6. [What is not modelled](#6-what-is-not-modelled)
7. [Plan](#7-plan)

To check: `tlc -config X.cfg M` for a row of section 3, `tlapm M.tla` for a module of section 4.
Only the standard, the community and the proof modules are used.

## 1. The system

LeanLift has two axes and a concurrency annex.

* The **code axis** (`lift verify`, `lift prove`) takes a function in Rust, C++, Go or Solidity,
  obtains a Lean definition of it, by extraction (Charon and Aeneas) or from a language model in a
  repair loop, and gates the definition by running it and the source on the same vectors, or by
  proving theorems about it.
* The **model axis** (`lift model`, `lift fpga`) reads a behavioural model, reduces it to one
  transition-system trait, checks it by bounded exploration, closed-form analysis or simulation,
  and exports executors and Lean files.
* The **concurrency annex** (`leanlift-loom`) holds six lock-free algorithms on C11 atomics that
  loom explores; `leanlift-iris` proves some of them in Lean over a view-based memory.

### Inventory

"Hard" is what a unit test would hardly reach; "correct" is what the component promises.

| Component | Source | State | Operations | Hard | Correct |
|---|---|---|---|---|---|
| Native checker | `check.rs`, trait in `ir.rs` | seen set, work queue, truncation flag | explore, scan, verdict | the ceiling and what is dropped at it | exact unless truncated, truncated only if something was left out, no false finding |
| Petri nets | `ir.rs`, `pnml.rs`, `format.rs`, `src/lean/LeanLift/Models/Petri.lean` | a marking of `u32` counts | step by transition name, bounds | namesakes, wrap-around, token loss | what Lean proves of a net the sweep never contradicts; bounds survive loss |
| FPGA FIFOs and commands | `fpga_fifo.rs`, `check_cmd`, `prove_cmd`, `equiv_cmd` of `fpga.rs` | counters of obligations | project, check, prove, compare | what is counted, deferred or refused | an exit 0 is about the whole file; check and prove agree |
| Coloured nets | `cpn.rs` | tokens per place and colour | unfold, occurrence graph | names made by joining, doubled arcs | unfolded steps are exactly the occurrences |
| Behaviour trees | `bt.rs` | boolean blackboards met, queue, system built | tick, compile | re-ticked actions, merged states | edges are the ticks; forbidden states those of unsafe blackboards |
| Task sets | `rt.rs` | per-task job state of the simulation | response times, demand bound, simulate | cut-off horizons, wrap-around, order of passes at one instant | verdicts agree with every schedule |
| Stochastic nets | `gspn.rs` | tangible markings, rates; simulated marking; the matrices of the solvers | build the chain, settle, race; steady state, absorption, law at a time | vanishing markings, immediate cycles, zero pivots | the simulation walks along the chain; laws satisfy their equations |
| FPGA control machines | `fpga_fsm.rs` | packed states met, events | extract: pack, interpret, explore, merge, forbid | widths, merging, refusals | the machine is the design's, or is refused |
| FPGA equivalence | `fpga_equiv.rs`, `equiv_cmd` of `fpga.rs` | pairs met | drive two machines together | inputs numbered differently | "equivalent" exactly if no input tells them apart |
| FPGA timing, throughput, import | `fpga.rs` | certificates so far | certify each module, conclude | half-stated clocks, delays and folds | what is not established is not certified |
| Queueing networks | `qnet.rs` | queue lengths, solved rates | traffic equations, verdict, simulate | trapped jobs, saturation | flow balances; jobs are only where the equations say |
| Executors | `codegen.rs`, `conformance` of `mod.rs` | traces, pipes to a child process | generate in Rust, C++, Go; trace, feed, compare | what traces cover, names that become identifiers, integer widths, two pipes | a program that passes is the model; what is generated passes |
| Lean export | `models/lean.rs`, `Models/Fsm.lean`, `Models/Ctmc.lean` | none | emit a script per family | what the script really proves | for nets: the invariant the script proves implies the bounds |
| PRISM export | `prism.rs` | none | emit, compare answers | fewer answers than queries | a machine-checked report is about every query |
| Command line and reports | `models/mod.rs`, `models/report.rs` | reports, compiled theory | check, prove, simulate, export, prism | stale theory, stale report, kills | an exit 0, a level and a report are earned by the file they name |
| Readers | `toml.rs`, `xml.rs`, `pnml.rs`, `scxml.rs`, `format.rs` | parser positions | parse; build a machine or a product of machines | joined names, shared events | the machine is the synchronous product |
| Random testing | `fuzz.rs`, `proptest.rs` | generator seed | generate, shrink | none here | not modelled |
| Verification pipeline | `src/src/main.rs`, `frontend.rs`, `harness.rs`, `leanrt.rs`, `oracle.rs`, `report.rs` | a work directory and a cache shared by all processes; per process the definition, prompt, iteration and results | build the oracle, obtain a definition, run, compare, repair | several processes, kills, stale files, tools that die or flake | a verdict is about this source and this definition; the loop ends |
| Comparison, signatures, vectors | `compare.rs`, `sig.rs`, `vectors.rs` | lines classified so far | classify result lines | overflow witnesses, float tolerance | conformant exactly if right up to declared overflow and tolerance |
| Proving command | `prove.rs`, `prove_cmd` of `main.rs`, `frontend.rs` | the same work directory, `proof.json` | extract, join with theorems, elaborate, audit axioms | leftovers of other examples, sorries cited | L3 is about this example and rests on no audited sorry |
| Built-in examples, Solidity oracle | `examples.rs`, `oracle_sol.rs`, `lang.rs` | none | tables; revert on overflow | none | six kernels, within `Compare` |
| Lean arithmetic | `src/lean/LeanLift/Checked.lean`, `Float.lean` | none | checked operations | widths | when an operation overflows, within `Compare` |
| SPSC ring | `src/leanlift-loom/src/spsc.rs` | head, tail, cells | push, pop | stale counters, missing ordering | a FIFO queue of at most N |
| MPSC queue | `mpsc.rs` | head, tail, a stamp per cell | push, pop | laps, a full queue | accepted values come out in ticket order |
| Seqlock, SPMC ring | `seqlock.rs`, `spmc.rs` | stamps and words | write, read | fences | a snapshot is one write, whole |
| Treiber stack | `treiber.rs` | head, nodes | push, pop | reuse of nodes (ABA), order of free | a stack; nothing used after free, nothing leaked |
| Chase-Lev deque | `chase_lev.rs` | top, bottom, slots | push, take, steal | the last element, reused slots | each value claimed once, none lost |
| Weak memory | `src/leanlift-iris/LeanliftIris/PhaseB/WeakMem.lean`, `SeqCst.lean` | histories and views | load, store, RMW, fence | staleness | used by the cores |
| Iris developments | `src/leanlift-iris` | a small concurrent language | Lean proofs | reclamation schemes | not modelled |
| Other proofs, scripts | `src/leanproofs`, `src/scripts`, `src/examples` | none | none | none | not modelled |

### How the parts interact

* A family implements the `Model` trait (initial state, enabled actions, step, forbidden) and the
  checker explores it. Coloured nets are unfolded into Petri nets first, behaviour trees and FPGA
  designs are compiled into explicit transition systems, so a verdict on these is the composition
  of a compilation and an exploration. The development checks the two halves apart: `Checker` for
  every model, and each compilation against the semantics of its own family.
* `lift model` and `lift fpga` call the checker, the analyses and Lean, and turn what they say
  into counters, reports and an exit code. `ModelCli` and `FpgaCli` take the answers of the parts
  as given (a file is safe or not, a proof closes or not) and check what the commands make of
  them.
* `lift model export --verify` compiles a generated program and talks to it over two pipes; the
  program is compared with the model behind the trait.
* `lift verify` composes, in order: front-end check, support library, vectors, oracle, candidate,
  run, comparison. Every step hands its result on through a file in one directory that all
  processes of a machine share, and the LLM front-end through a cache that all processes of one
  working directory share. There are no locks. `lift prove` uses the same extraction and the same
  directory.
* The FPGA certificates call the schedulability test (for the lanes of a folded pipeline) and the
  queueing analysis (for its stages): `FpgaTiming` is instantiated with `Rt` and `Qnet`.
* The cores share nothing with the rest; each is a set of threads over shared memory.

## 2. The modules

Every definition that models code is listed with its lines in `PROJECT.json` ("map"). Names follow
the source. A definition marked `mutant` is a plausible bug; it stands in front of the definition
it would replace and is used by nothing.

### The checker

| Module | Models | State and actions |
|---|---|---|
| `Checker` | `reachable_set` and `check` of `check.rs`, over the trait `Model` of `ir.rs` | `seen`, `queue`, `truncated` are the variables of the loop; `cur` and `todo` its position. `PopFront` is the head of `while let`, `TryAction` one turn of the inner `for`, `NextState` its end, `Report` the scan after the loop |
| `Lts` | `impl Model for Lts` | gives `Checker` its trait operators for explicit transition systems |
| `ToolProofs` | | its proofs, section 4, beside those about the commands |

`Checker` knows a model only through `Initial`, `Enabled`, `Step` and `Forbidden`, as the code
does. `Reachable` is defined apart, as the least set with the initial state that steps stay in, so
that no property compares the sweep with itself.

### The families

| Module | Models | State and actions |
|---|---|---|
| `PtNet` | `impl Model for PtNet`: enabled names, first-match `step`, wrapping counts, bounds; `fifo_net`; `LeanProves`: whether the proof that `emit_petri` generates goes through, each of its three parts over the naturals, about a bound that is a `u32` sum | used by `Checker`, `CpnUnfold`, `Gspn`, `Executor`, `FpgaCli` |
| `PetriReport` | what is said of a Petri net: `Checker` over `PtNet` against `LeanProves`; and the firing rule of `Petri.lean`, for the claim of `petri_notes` | the explorer's; and two runs in step, one that loses tokens and one that does not |
| `Cpn` | names, tokens and `unfold` of `cpn.rs` | none; names are sequences of words, so joining with `_` is concatenation and two names meet exactly if the code's do |
| `CpnUnfold` | the unfolded net as the checker steps it | `unfolded`, its marking; `FireByName` is one turn of the loop over `enabled` |
| `CpnOccurrence` | `occurrence_graph`, the independent simulator | a coloured marking; what `CpnUnfold` implements |
| `Bt` | `tick`, `compile` of `bt.rs` | `seen`, `queue`, `lts` as in the code; `TickNext` takes one blackboard, ticks the tree, adds the edge and the forbidden mark |
| `Rt` | response times, demand bound, `simulate_miss` of `rt.rs` | analyses are operators; the simulation has its three passes as actions `Check`, `Release`, `Run`, and `Sweep` at the horizon |
| `RtProofs` | | its proofs, section 4 |
| `Gspn` | `ctmc` (support of the chain) and the simulation of `gspn.rs` | the chain is computed in `Init`; `Immediate`, `Settled`, `Race` are the simulation. Rates are dropped: which marking may follow, not how often |
| `FpgaFsm` | packing, `eval`, input selection, merging of events, forbidden states in `fpga_fsm.rs`; and `Hw`, a reference semantics of the same designs over register values | operators only |
| `FpgaEquiv` | the extraction loops and `build_product` of `fpga_equiv.rs`, `equiv_cmd` | `part` is where the run is; `Reach`, `Label`, `Product`, `PairEvent` are one turn of their loops |
| `MCFamilies`, `FamilyExamples` | the dispatch on `kind` in `mod.rs`; the instances | one family moves, the others keep an empty state (of `Checker` and `Rt`, an initial one) |

### The commands and the numbers

| Module | Models | State and actions |
|---|---|---|
| `Compare` | the classes of `compare.rs`, the postconditions, the tolerance on floats, six kernels of `src/examples`, when checked arithmetic of `Checked.lean` overflows, and the revert of `oracle_sol.rs` | `lines`, the classes so far; one action classifies one line. A machine word is `job.word`; a float has 5 bits (a sign, two of exponent, two of mantissa), zeros, subnormals, infinities and NaNs included |
| `LiftProve` | `prove_cmd` of `main.rs`, `prove_aeneas` and `lh_verify` of `prove.rs`, with `extract_rust_def` | calls one after another in one directory; `llbc` and `extract` record which example a leftover is of |
| `Executor` | `codegen.rs`: identifiers, the generated step in three languages, coverage and random traces; `conformance` of `mod.rs`: compile, spawn, two pipes, compare | a program is a language and the model it is a program of, which may differ from the one it is checked against: every possible bug of a generator is some other model |
| `Fsm` | `build_fsm`, `build_fsm_product`, `product` of `format.rs` | the product steps beside its components |
| `Ctmc` | `steady_state` (GTH), `prob_reach`, `expected_time`, `transient` of `gspn.rs` | `Reduce`, `BackSubstitute`, `AddTerm` are one turn of the solver's loops |
| `Qnet` | `parse`'s checks, `analyze`, `simulate` of `qnet.rs` | queue lengths; `Arrive` and `Serve` in any order: which positive rate fires is a choice |
| `Linear` | the two `solve` functions; fractions in lowest terms for `f64` | operators only |
| `FpgaTiming` | `certify_timing`, `certify_throughput` and their commands in `fpga.rs` | one action per module, one for the exit code |
| `FpgaCli` | `check_cmd`, `prove_cmd`, `equiv_cmd` of `fpga.rs`, `extract_fifos`, the refusals of `build_product` | one action per module or obligation, one for the exit code; `tally` is the counters |
| `ModelCli` | the commands of `mod.rs` with their reports and exit codes, `ensure_models_lib` | invocations one after another; `Kill` and `Edit` (of the Lean theory) between any two steps |
| `ToolProofs` | | proofs about `Checker`, `PetriReport`, `CpnUnfold`, `ModelCli`, `LiftProve`, `Verify`, `FpgaTiming` and `FpgaCli`, section 4 |
| `MCTools`, `ToolExamples` | | the instances; one command moves, the others keep an empty state |

Abstractions. A canonical state string is replaced by the value it encodes where the encoding is
injective (markings), and kept as a sequence of words where it may not be (blackboards, unfolded
names, product states, identifiers). A count of `u32` is modulo `Modulus`; a product of `u64` is
modulo `Word`. A number in `f64` is an exact fraction, so rounding is left out, and thresholds
such as 1e-18 are zero; the floor of `lam` in `transient` is 1/100 for 1e-12. The order of `Vec`s
is kept wherever a first match decides. Parsers are left out: the models start from values a
parser accepts (for instance 0 < d <= t for a task).

### The pipeline

`Verify` is `verify_cmd` and `run_llm` of `main.rs` and `harness.rs`, with `extract_rust_def` of
`frontend.rs` and `run` of `leanrt.rs`. A process has a program counter; one action is one file
read or written or one command run, with every way it may end: success, a non-zero exit, death, a
flake. What matters of a file is whose it is, so `work` holds examples and definitions, and a
result map records which program ran on whose vectors. `Killed` stops a process anywhere and leaves
its files. The comparison is the relation `Agrees`; `Compare` models how it is decided.

`query` takes up to four steps: the look-up (`CacheHit` or `CacheMiss`), the lane's answer
(`QueryLane`), and the two halves of `fs::write`, which creates the entry or cuts it to nothing
(`CreateEntry`) and then fills it (`FillEntry`); either half may fail, which the code ignores. Any
process may act between them, so that several miss the same entry, ask, and write it at once. The
text of an entry is the set of answers it is made of: none while it is empty, one when it is whole,
several where one process wrote over what another had written (`Mixed`); any definition may be read
from a mixed text, or the text is no UTF-8 and counts as a miss. `replied` (the answers the lanes
gave) and `crowded` (the processes that have run while another did) are history variables.
`ToolProofs` holds the proofs, `MCVerify` the instance.

### The cores

| Module | Models |
|---|---|
| `WeakMem` | C11 accesses by views, from `WeakMem.lean` and `SeqCst.lean`: histories, thread views, acquire and release fences, the SC view, data races on plain cells, release sequences |
| `Core` | what the six have in common: threads, calls, registers |
| `Spsc`, `Mpsc`, `Spmc` (and the seqlock as its one-slot case), `Treiber`, `ChaseLev` | the operations of `src/leanlift-loom/src/*.rs`, one action per memory access with the source's ordering |
| `Fifo`, `Stack` | abstract specifications; `Spsc` and `Treiber` implement them |
| `SpscProofs`, `MpscProofs`, `SpmcProofs`, `TreiberProofs`, `ChaseLevProofs` | proofs about one core each, section 4 |
| `LoomCores` | the six cores side by side, one per behaviour, as instances of the modules of their proofs; its theorems lift theirs to the properties of the run |
| `MCCores` | the values of the constants of `LoomCores` for TLC |

A load may return any message not older than the thread's view; a store appends. That a store goes
to the end of its location's history is a restriction of the model. It excludes nothing in a core
that never stores without knowing the last message (`StoresAreLatest`), which the property of
the core states along with the rest: `RaceFree` for the SPSC ring, `MpscKeepsOrder`,
`SnapshotsAreWhole` and `DequeClaimedOnce`. The Treiber stack changes its head by compare-and-swap
only, which acts on the last message. Load buffering is left out, as it is in loom and in the Lean development.

## 3. The runs

| Run | Module, config | Question | Expected |
|---|---|---|---|
| `tools` | `MCTools`, `Tools.cfg` | Are the loops, commands and numerical analyses right, and do the loops end? | pass |
| `families` | `MCFamilies`, `Families.cfg` | Does each compilation or analysis agree with an independent semantics of its family? | pass |
| `verify` | `MCVerify`, `Verify.cfg` | With kills, dying and flaking tools, is a verdict about this example and this definition? | pass |
| `cores` | `MCCores`, `Cores.cfg` | Races, lost, doubled or torn values, use after free; refinement of a queue and a stack | pass |
| `cpn_namesake`, `gspn_ergodic`, `fpga_cast` | `MCFamilies`, one family each | A sentence of the source that the code does not keep, section 5 | violation |
| `compare_clamped` | `MCTools`, `CompareClamped.cfg` | the same | violation |
| `verify_shared`, `verify_killed`, `verify_skip` | `MCVerify` | the same | violation |
| `mpsc_wedge` | `MCCores`, `MpscWedge.cfg` | the same | violation |

`Commands`, `Families` and `Cores` are constants that say which of the parts a run starts; every
part is started by a passing run.

### What they show, and why the bounds are enough

`tools` and `families` each start one of several independent machines, so that a behaviour is a
behaviour of one component.

**`tools`**

* The exploration (`ExactUnlessTruncated`, `TruncationIsHonest`, `FindingsAreReal`, `SafeIsSound`).
  All partial transition functions on three states and two actions, one state or none forbidden,
  every ceiling from 0 to 4: below, at, and above the size of the state space. Two actions suffice
  for a state to be met twice, and three states for one to be dropped and met again later. The
  proofs lift the four properties to every model and ceiling.
* The repair loop (`ToolsEnd`). One process, three iterations: a first, a middle and a last one.
  `ToolsEnd` says that it and the exploration end.
* Comparisons (`ClassIsRight`, `ToleranceIsSound`). Words of 4, 8, 64 or 128 as the kernel needs
  them, with all small vectors and all answers, an overflow reported by either side or by none;
  all pairs of 5-bit floats under each comparison mode. The word is a parameter of a job, so each
  kernel meets its wrap-around.
* Proof calls (`ProvedIsEarned`). A fragment of a lemma, a specification that cites it and a
  corollary, each closed, with a sorry, or broken, auditing one or two of them; six examples, two of
  which share an entry point and a lane's leftovers; two calls, so that the second meets the files
  of the first; a kill anywhere.
* Exports (`ConformanceIsComplete`, `GeneratedCodeConforms`). Every program over two states and one
  event against every such model, programs of two states and two events that differ from their
  model in one entry, names that fold to one identifier or to none, nets
  of two places modulo 4 whose coverage is cut at 3, 4 or 20 markings, pipes of 4 lines.
* State machines (`ProductIsSynchronous`). Pairs of machines of two states, three machines, and
  names that contain the separator.
* Chains (`LawsAreRight`, `AbsorptionIsRight`). Every chain of three states with rates up to 2, and
  rings and absorbing chains of four. Three states are the fewest for an elimination to fill in an
  entry that was zero.
* Networks (`FlowIsBalanced`). Two stations that route halves, wholes or nothing to each other,
  three that route wholes or nothing, stable and saturated, with and without a way out; one that
  the parser refuses; queues up to 2 in the simulation.
* FPGA files (`TimingIsFailClosed`, `StableIsClosure`, `PassIsAboutTheWholeFile`). Clocks with
  `Giga` 12 for 10^9, folds 0 to 5 around `MAX_FOLD` 4, stages and periods stated, half-stated or
  absent. Files of at most two modules with FIFOs of depth 0 to 4, around `DEFAULT_BOUND` 3, the
  largest `MaxDepth` 3 and `EXPLICIT_LIMIT` 6 markings, and products of machines around
  `MAX_UNION_INPUTS` 2 and `MAX_PRODUCT_PAIRS` 6, so that each limit is met from both sides.
* Commands (`VerdictIsEarned`, `TheoryIsCurrent`). Eight files that differ in what the parts say of
  them, two calls, one edit of the Lean theory between any two calls, kills. `VerdictIsEarned` is
  about the report left on disk and about exit 0: of `check` and `prove` what was asked, of
  `simulate` and `prism` what they refuse, of `export` only that the file is one it takes.

**`families`**

* Petri nets. Every net of two places and two transitions with weights up to one, the two
  transitions possibly namesakes, from `<<1, 1>>` and `<<2, 2>>`, and FIFO nets of depth 1 to 3.
  `Modulus` 4 makes wrap-around reachable in a few firings, and the sum of `<<2, 2>>` wraps to the
  bound 0, so that the base case of the generated proof is what keeps it honest.
  `PetriProvedIsSafe`: what Lean proves over the naturals, the sweep over wrapping counts never
  contradicts; and it meets as many markings of a FIFO net as `fpga_fifo.rs` sizes it for. It is
  proved for every net (section 4).
* Lossy net. A link with a batch of two, two kinds of loss. `Covered` and `IdealIsARun` are proved
  for every net; the run is the sanity check.
* Coloured nets. Variants of two transitions over variable, constant and doubled arcs.
  `CpnNoOccurrenceLost` and `CpnOnlyOccurrences` are the two inclusions of "the unfolded graph is
  the occurrence graph"; the second is a refinement of `CpnOccurrence`. Both are proved (section 4).
  Names are injective here; where they are not, see `cpn_namesake`.
* Behaviour trees. Every tree `k1(leaf, k2(leaf, leaf))` on two variables, seven leaves: nesting of
  the two control nodes in both orders with every failing, succeeding and running child.
* Task sets. Pairs of periods 2 to 4, pairs of 4 and 6, triples of short jobs, jobs far past their
  deadline so that sums wrap at `Word` 16; lightness 0 or 2 halves; two hyperperiods, cut at 14.
  The simulation chooses every job's length. The analyses are compared with exhaustive
  definitions (least fixed point, every window) and with the simulation.
* Stochastic nets. Three places, a timed ring and two transitions of any kind, with inhibitors:
  vanishing markings, immediate cycles and absorbing markings all occur.
* FPGA designs. Two registers of 2 and 1 bits, two inputs declared in either order, wrapped
  subtraction, muxes, gates, properties of both kinds, designs refused or passed over. Some
  designs go past `StateCeiling` 8, `PairCeiling` 40 and `CheckBound` 30; none goes past
  `InputBits` 2 and `UnionBits` 2, as no design has a third input. `ProjectionIsExact` compares the
  machine with the hardware reference; `EquivalenceIsDecided` the verdict with driving both designs
  by name. Designs with casts are those of `fpga_cast`.

**`verify`**. Two invocations (`MaxRunning` 2), over two examples with the same entrypoint name, so
that one's leftovers fit the other; three definitions, one rejected by Lean; two lanes, one absent;
two iterations. `Contended` of `MCVerify`, an action constraint, is the bound on how they overlap:
two processes run at the same time only if both use the LLM front-end with the same example and
lane, and only while one of them is in `query`. That is where they share the cache; what they do to
each other in the work directory is the run `verify_shared`, without this bound. So two may miss
the same entry, ask and write it in any order, also for repairs, and be killed in between; every
run of one invocation after the other is there too. `VerdictsAreGenuine` is about both levels the
command reports, for invocations that ran alone. `CandidateIsOwn` is about extraction and, for all
of them, the cache: what an entry holds was answered to its own key, and only an overlap mixes it.
A third process, which would run alone after two that overlapped, is left to the proofs. Symmetry
exchanges the processes, and the examples together with their definitions. What invocations at once
and kills still break is in section 5.

**`cores`**. Rings of two slots with up to five calls fill and go round twice; two producers of
three calls; two readers; two thieves against five calls of the owner, so that the last element is
contended and a slot is reused; three nodes for three pushes and an allocator that hands freed
nodes out again. `tests/loom.rs` has no lap, no second thief and no reuse.

### Fairness

`tools` is checked under `FairTools`: WF of `Next` for the exploration, which has one thread and no
blocking call, and WF of each process's `StepOf(p)` for the repair loop. There, each command either
ends or its failure is one of the modelled outcomes; a tool that never returns is outside the
code's control, as the code sets no timeout on it. `Start` and `Killed` are not fair. No strong
fairness is assumed anywhere: flaking ends because the code counts attempts, not because a flake
must stop. The other tools and the cores have no liveness property; the cores' loops are in the
caller.

`CHECK_DEADLOCK FALSE` is set where the program ends (an exploration is over, a command has exited,
threads have made their calls). In `verify` and its variants the end is the action `Done` and
deadlock is checked.

## 4. The proofs

Each theorem holds for every value of the constants that its assumptions allow. The assumptions
are named definitions, and TLC evaluates them in the runs: `ToolAssumptions` of `MCTools`,
`CoreAssumptions` of `LoomCores` (as `CoreAssumptionsHold` of `MCCores`), the others as `ASSUME`s
of `Checker`, `PetriReport`, `CpnUnfold`, `Rt`, `Verify`, `FpgaTiming` and `FpgaCli`, or, for
hypotheses of theorems, of `MCFamilies` (`KeysAssumption`, `PetriModelsAssumption`). No property
below is inductive as it stands. Every proof gives an invariant, shows that Init establishes it and
that each action keeps it (one lemma per action), and derives the property.

| Module | Theorems | Properties of the runs that they prove for every instance |
|---|---|---|
| `ToolProofs`, the explorer | `ExplorerTyped`, `Exact`, `Honest`, `VerdictSound`, `Genuine` | `ExactUnlessTruncated`, `TruncationIsHonest`, `SafeIsSound`, `FindingsAreReal` |
| `ToolProofs`, the commands | `VerdictEarned`, `Current`, `ProofEarned`, `LossMonotone`, `LossFreeRun` | `VerdictIsEarned`, `TheoryIsCurrent`, `ProvedIsEarned`, `Covered`, `IdealIsARun` |
| `ToolProofs`, Petri nets | `ProvedIsSafe` | `PetriProvedIsSafe` |
| `ToolProofs`, coloured nets | `UnfoldedStepsOccur`, `EveryOccurrenceSteps` | `CpnOnlyOccurrences`, `CpnNoOccurrenceLost` |
| `ToolProofs`, the pipeline | `VerifyTyped`, `CacheKeyed`, `VerdictsGenuine`, `CandidateOwn` | `VerdictsAreGenuine`, `CandidateIsOwn` |
| `ToolProofs`, `lift fpga` | `TimingFailClosed`, `WholeFile` | `TimingIsFailClosed`, `PassIsAboutTheWholeFile` |
| `RtProofs` | `VerdictIsExact`, `ResponseIsExact`, `AnalysesExact`, `LanesFit` | `HardVerdictIsExact`, `WorstCaseIsExact`, `AnalysesAreExact` |
| `SpscProofs` | `Safe`, `Refines` | `RaceFree`, `SpscIsAFifo` |
| `MpscProofs` | `Correct` | `MpscKeepsOrder` |
| `SpmcProofs` | `Correct` | `SnapshotsAreWhole`, of `seqlock.rs` and of `spmc.rs` |
| `TreiberProofs` | `NodesSafe`, `Refines` | `TreiberNodesAccounted`, `TreiberIsAStack` |
| `ChaseLevProofs` | `Correct` | `DequeClaimedOnce` |
| `LoomCores` | `RingSafe`, `RingIsAFifo`, `QueueKeepsOrder`, `NoTornSnapshot`, `NodesSafe`, `StackIsAStack`, `DequeSafe` | the seven properties above, as the run `cores` states them |

### The explorer

It assumes `BoundsAssumption`, `NoneAssumption` and `TraitAssumption` (the trait's
functions are typed). The invariant is
`ExplorerInv == TypeOK /\ Worklist /\ Expanded /\ Dropped /\ Finished`:

* `Worklist`: what waits has been met, and everything met is reachable;
* `Expanded`: a state met that neither waits nor is being expanded has all its successors met,
  unless `truncated`; for the one being expanded, all but those in `todo`;
* `Dropped`: if `truncated`, some reachable state was dropped, and since the ceiling never rises
  and `seen` never shrinks it stays out for good;
* `Finished`: the report was computed from the final `seen`.

At the end the queue is empty, so `Expanded` says that `seen` is closed, hence contains the least
closed set, and `Worklist` gives the other inclusion. This is the contract that `check.rs:46-51`
leaves to a deductive proof. `RangeTail` and `RangeAppend` relate a queue's elements to popping and
pushing; `ReachableInitial`, `ReachableStep` and `ReachableLeast` are the three facts about
`Reachable`.

### The commands

* **`lift model`** (`VerdictEarned`, `Current`), from `TheoryAssumption`: a proof imports modules
  of the theory. The invariant has `Placed` (a command is where its verb leads), `Dated` (a
  compiled module that its date calls current was compiled from the present source, or is half
  of one, which Lean refuses; and from the check of the dates until Lean has run, none is out of
  date), `Admitted` (past the dispatch, the file is one that the command takes) and `OwnProof`
  (Lean is given the script of this call's file), beside the property. `Dated`
  survives `Kill` in the middle of a compilation because of its second half.
* **`lift prove`** (`ProofEarned`), from `FragmentAssumption`. `OwnFiles` says that the `.llbc` a lane
  reads and then the extracted module are of this example, whatever earlier calls left; `Reporting`
  that the report between Lean and the certificate is this call's. `SorryFreeIsClosed`: a printed
  theorem on which no `sorryAx` is reported is closed together with what it cites.
* **Lossy nets** (`LossMonotone`, `LossFreeRun`), from `NetAssumption` (weights are naturals) and
  `LossAssumption` (a loss produces nothing): at every marking of a lossy net the loss-free net,
  having fired the same transitions, is at a marking at least as large, and could fire them. So an
  upper bound on places that holds without loss holds with it, which is what the report line
  claims. The lemma under both is the monotonicity of firing.
* **Petri nets** (`ProvedIsSafe`), from the explorer's assumptions and `PetriAssumption`: the trait's
  operators are those of `PtNet`, and a net has markings of one length whose counts are below
  `Modulus`. The sum of counts is the number of tokens (`TokenCount`), so that its laws are those of
  finite sets: `TokensAdd`, `TokensMonotone`. `InvAt`, the invariant of the generated proof, holds at
  every marking that is reached with wrapping counts (`ReachedHasInv`): as long as the conserved
  places hold at most the bound, which is below `Modulus`, none of their counts wraps
  (`InvIsPreserved`), while others may. `Genuine`'s invariant then gives the first half. For the second,
  `Reachable` of a FIFO net is exactly the markings of at most d tokens (`FifoReachable`: it drains by
  an enqueue and a leak at a time, then fills), these are (d + 1)(d + 2)/2 (`WithinCount`), and
  `Dropped` excludes a truncation at that ceiling.
* **Coloured nets** (`UnfoldedStepsOccur`, `EveryOccurrenceSteps`), from `CpnAssumption` (the lists of
  a file are lists, and its places and colours list nothing twice) and the hypothesis of both theorems,
  that a name of the unfolded net stands for one transition (`NamesAreKeys`). The code ensures
  neither: `parse_cpn` refuses no repetition, and where names meet the claim is false, which
  `cpn_namesake` shows; TLC evaluates both on the nets of `families`. The refinement mapping is
  `Image`. Every transition of the unfolding is that of one coloured transition under one binding, and
  conversely (`UnfoldedTransitions`, from what `FlattenSeq` joins); with names as keys, `step` finds it
  (`StepIsFiring`); and since no token has two places, enabling and firing through the image are those
  of the occurrence rule (`OccursIsEnabled`, `FiredIsSuccessor`), wrapped counts included.

### The pipeline

All four theorems are about any number of invocations at once (`MaxRunning` is any). `CacheKeyed`: whatever processes
look an entry up, ask, create and fill it at once, it holds answers that its own lane gave to the
prompt it is keyed by, and mixes several only if invocations have overlapped. Its invariant
(`CacheInv`) says also that a process about to write holds an answer to its own prompt (`Filling`)
and that while nothing has overlapped, the entry being filled is empty (`StillEmpty`).

`VerdictsGenuine` and `CandidateOwn` are about invocations that ran alone, after any others,
overlapping or not: for one that did not, L1 may be about the other's files, and `verify_shared`
is the counterexample. Their invariant (`VerifyInv`) is, for each process that is not
`crowded`, besides `Alone` (no other runs while it does):

* `Routed`: which steps each front-end goes through, and that only the LLM front-end repeats;
* `Files`: every file about to be read is one that this process wrote since it started, or is
  absent because it removed it (the `.llbc` before translating, the extraction directory);
* `OwnAnswer`: its definition is an answer to its prompt, or its entry was left empty or mixed;
* `Measured`: the results being compared are of this source and of this candidate, each on this
  example's vectors;
* `Claims`: a verdict ends the invocation and is true of it.

A killed process leaves `Files` of nobody, so the next one has to establish it from arbitrary
contents, which is the point of the theorem.

### FPGA files

* **Certificates** (`TimingFailClosed`), from `TimingAssumption`: times are fractions with a positive
  denominator, and `fold_schedulable(c, ii)` for `c` and `ii` up to `MAX_FOLD` is `c <= ii`. The
  latter is not taken on trust: `LanesFit` of `RtProofs` proves it of the response-time analysis
  that the code calls, from `Sum` of ones. `CertMatches` shows that a certificate is in order
  exactly if nothing the module states contradicts something else it states, over three ways to
  know the period (`PeriodIs`), two to know the critical path (`DerivedIs`), and each of them
  absent; fractions are compared by their cross products, so `NotBelow` is what makes the slowest
  stage exist (`GreatestIs`). The invariant `TimingInv` says that the certificates made are those
  of the modules passed, which is what an exit code too early or a module left out would break.
* **Obligations** (`WholeFile`), from `FileAssumption`: a machine is told from the absence of one,
  depths are naturals, and `MaxDepth` is below `Modulus`, so that no count wraps. The code has
  2^16 and 2^32. The invariant has one part for each command. `CheckInv`: the obligations are
  those of the modules read, and the counters are 0 exactly if none of these was refused or found
  unsafe. `ProveInv`: with a refusal the command has stopped; as long as nothing has failed, what
  was counted as proved holds, and the counts add up to what was done. `EquivInv`: either file has
  one machine (`OneMachine`: the least module with one, as any other would have stopped the
  command). `FifoFacts` settles the FIFOs for every depth d that is accepted. The markings met have
  at most d tokens (`FifoWithin`, from `GrowthWithin`: a set that a monotone step grows stays in any
  set closed under it), so none overflows; there are (d + 1)(d + 2)/2 markings of at most d tokens
  (`WithinCount`), so the ceiling that `fpga_fifo.rs` computes is never reached and `check` cannot
  refute what `prove` certifies; and what `prove` certifies holds. `Flattened` says that the list
  `prove` works through is the obligations of all modules.

### Task sets

The theorems hold for every task set that the parser lets through, every lightness of the jobs, every
number of hyperperiods and every cap on the horizon. `RtAssumption` says what the parser does:
`0 < c`, `0 < d <= t`, at least one task, and `d + t` of any two tasks within the machine word (`rt.rs`
bounds `t` by 1 000 000, far below half a word). `c` has no bound, as `--scale` may make anything of
it. The rounding of a load of exactly one to just below one is the parameter `below`.

* **The simulation** (`VerdictIsExact`, `ResponseIsExact`). The invariant has seven parts. `Typed`;
  `AllTimely`: a job was released at the last multiple of its period and its deadline, if it has not been
  checked, is ahead. `Bounded` is the busy-period argument, for every fixed point r of the recurrence
  of a task and not the least only. When the tasks above it have worked without a pause since an
  instant s (`Busy`), what they were given since is what they have executed and have left, and what
  arrives in a window of any start is at most what arrives in one of that length from zero; so they leave the processor before r has passed, and the job ends by
  then. `Passed` follows: a set with a fixed point below every deadline misses nothing.
  Conversely `Exact`: with each job at its worst case and nothing missed, the first job of a task
  has waited exactly for what the recurrence counts, so when it ends its response is a fixed point, and
  the least (`CompletionStep`), and a task without one must miss. `Settled` is the last pass of the
  loop, at the horizon, and `Accounted` counts the jobs that may yet be missed (`Within`) among those
  that were counted when released.
* **Response times** (`RtaExact`). In the integers the recurrence is increasing, so its iteration from
  c ends in the least fixed point or passes the deadline. In words that wrap it is the same as long
  as the response is within the deadline, and never below c.
* **Demand** (`DemandTest`). The bound steps at deadlines only, so the code's points suffice. It grows
  by the load with every hyperperiod, so windows of one hyperperiod do; and it stays under the line
  through the slack whose slope is the load, so a window beyond `Slack / spare` cannot overflow. When
  rounding hides a full load there is no slack, and the line itself is the claim.
* **Policies**. What RM schedules DM does (`RmThenDm`): the tasks above the lowest one of an
  interfering set, and itself, need no more than that one's response time. What DM schedules EDF
  does (`DmThenEdf`): a window is split into one response of the last task due in it and a shorter
  window, and the shorter ones are within the bound by induction.

The recurrence is iterated by a recursive function, the sums are folds over sets, and the library's
induction theorems are out of the provers' reach (below). `LeastNumber`, `CountingUp` and `GrowingSets`
are induction for sets in the place of predicates, from the well-foundedness of `<`; every other
induction of the module is one of them.

### The cores

The state of a core is that of the memory: the history of every location, the views of the threads
and of the messages. A proof has to say what a thread that reads an *old* message knows, so each
invariant has a clause about every message of every history (`Messages`, `Installed`), saying what
the view that it releases contains. Views only grow and histories are only appended to; the lemmas
`Loaded`, `Stored`, `Joined` and `Seen` carry these clauses over a load, a store, an acquire and a
growing view.

* **SPSC ring** (N at least 1). The i-th message of an index has value i - 1; one of `tail` releases
  the writes of all slots below it (`KnowsWritten`), one of `head` the reads (`KnowsRead`). `Window`
  keeps the producer within N of the head it has *seen*, the consumer below the tail it has seen;
  since `RingApart` shows that indices less than N apart are different cells, the slot written
  is one whose last read the producer knows of, so there is no race. `Filled` says what the ring
  holds. The refinement (`Refines`) maps the items to the numbers from head to tail: the two
  publishing stores are the steps of `Fifo`, everything else stutters.
* **MPSC queue** (N at least 2, any producers). The stamp of a slot counts twice a lap:
  `StampMessage` says that the message that frees it for ticket t releases the accesses of all laps
  before, and the one that publishes t also the write of t. `Laps` relates, for every ticket, how
  often its cell was written and read to how often its stamp was stored. `Tickets`: a ticket is one
  producer's own until it is published. `Outcomes`: each ticket taken is published, refused, or in
  the hands of a producer. N at least 2 is needed: with one slot the stamps of a full cell and of
  one freed for the next ticket coincide, and a push overwrites (section 5).
* **Snapshot cell and SPMC ring** (any slots and readers). A word stored in write n carries, through
  the release *fence* alone, that stamp 2n - 1 was stored (`WordMessage`). So a reader that has
  read an even stamp 2m, a word, and then after its acquire fence the same stamp, cannot
  have read a word of a later write: it would know a later stamp (`Snapshot`). That it does not
  read an older one comes from the release of the even stamp (`StampMessage`). `Phases` and `Turns`
  place the writer in its write and in its round over the slots.
* **Treiber stack** (any nodes and pushers, one popper). The invariant is `Inv(S)` for some sequence
  S, the linked nodes from the bottom up; `Spec => [](\E S : Inv(S))` is proved, and a step of a pusher
  extends S by one, that of the popper cuts it by one, any other leaves it (`Grows`, `Shrinks`,
  `Keeps`). Reuse of nodes (ABA) is harmless for two reasons that the invariant states. A push
  whose CAS succeeds links to the node that is on top *now*, whichever life it is in, and owns its
  node until then (`Owners`). A pop whose CAS succeeds has read the fields of the node on top in
  its present life: a head that the popper can still read is the one its last pop left or one
  installed since, hence by pushes only, so each is still in the stack (`Installed`, by counting
  `Depth`) and releases the writes of all nodes from there down, and nobody else pops. That `release` on the push and `acquire` on the pop suffice, with a relaxed CAS
  in pop and none of them in `push`'s load, follows from release sequences: the CAS of a later push
  passes the earlier pushes' views on. `Accounted` then counts the places of each node, and
  `Refines` maps the stack to the values of S. The list that the statement of the property follows
  is a recursive function (`Chain`); `ReadOff` shows that it yields S, by a least counterexample.

* **Chase-Lev deque** (N at least 1, any thieves and calls). The items are those from `T`, the last
  top, to `End`, which is bottom, or one more while a take that has lowered bottom still contends
  for its item; thieves may claim those below `Open`, which leaves that item out once the owner has
  decided for it. `Items` says that the slots of these indices hold, in order, exactly the values
  pushed and not claimed, `Window` that they are at most N, so that a push reuses no slot of an item.
  What a thief may do with what it sees is `Shown(m, i)`: every message of bottom from m on that
  shows index i releases the store of its slot, and i is below `Open`. It holds of every index from
  top on for m the SC view's bottom (`Posted`), which is what a thief knows that passes its fence
  now, and it stays true for one that has passed, as long as top is what it has read (`Fresh`).
  The two fences are ordered by the SC view. If the owner's comes first, the thief sees the lowered
  bottom (`Posted`). If the thief's comes first, the owner knows the top the thief has read; and
  since all but the last step of top are known (`Tops`), an owner that sees two items or more may
  take the lower one without a compare-and-swap: a thief is at most one step further. For the
  last item one of the two knows of the other (the second part of `Fresh`), or both go through the
  compare-and-swap of top, which one wins. `AtRest` reads the property off `Items`.

`LoomCores` puts the cores side by side; a behaviour is of one core and so of that core's
specification (`RingAlone` and its like), which is all that its theorems add.

### What is only model-checked

* Liveness (`ToolsEnd`) is out of the prover's reach.
* `SimulationIsTheChain`: it compares two algorithms of `Gspn`, each a recursive definition.
* What a recursive definition computes for every input (`Linear`, `Ctmc`, `Qnet`, `Executor`,
  `Compare`). The library's induction theorems take an operator that the provers cannot instantiate.
  Induction in set form, by the least element of a set of counterexamples, is possible, and
  `RtProofs` and `ToolProofs` prove with it what folds and recursive functions compute; it has not
  been carried to these modules. `StableIsClosure` depends on one of them, as the stages of a
  pipeline are solved by `Qnet`.
* `Bt`, `FpgaFsm` and `FpgaEquiv` use recursive operators over trees and expressions.
* That the assumed constants are those of the code: `Agrees`, `Typechecks`, what Lean says.

## 5. Findings

Each has a run whose counterexample shows it; the sentences of the repository that they contradict
are quoted in `PROJECT.json`.

| Run | Code | What happens |
|---|---|---|
| `cpn_namesake` | `cpn.rs:221` | Unfolded names are joined with `_`: `go` over `a_b` and `go_a` over `b` coincide, and the checker fires the first only. |
| `verify_shared` | `main.rs:326` | Two invocations at once share one work directory, and one may be certified L1 for the other's candidate. |
| `verify_killed` | `harness.rs:501` | A kill or a failed write between creating and filling a cache entry leaves an empty answer that reruns replay. |
| `verify_skip` | `main.rs:391` | A lane that is not configured is noticed after the support library and the oracle are built, and their failure exits with code 1 where the comment promises a skip. |
| `mpsc_wedge` | `mpsc.rs:52` | A push refused by a full queue keeps its ticket; the consumer waits at it for ever, and values accepted behind it never come out. |
| `gspn_ergodic` | `gspn.rs:153` | Timed transitions fire in vanishing markings when the chain is indexed; an absorbing marking nothing reaches makes the steady-state metrics NaN. |
| `fpga_cast` | `fpga_fsm.rs:636` | A truncating cast is passed through unmasked, and a forbidden value the design reaches is missing from its machine. |
| `compare_clamped` | `compare.rs:231` | An overflow that the model reports past the end of a stream counts as declared, although the source multiplies nothing there. |

Met while reading, without a run of their own. Some are statements of a module that TLC refutes and
no run lists; those are named.

* The pipeline. A runner that flakes twice is reported to the lane as "Lean rejected your
  definition" (`harness.rs:105`; `RejectionIsEarned` of `Verify`).
* Comparison. A NaN that both runners print as `NAN` is a mismatch under `--float-tol` and
  conformant without it (`compare.rs:311-312`).
* Proofs. `prove.rs:72-73` looks for `sorryAx` in the printed axioms, so the sorry of a theorem
  that is neither printed nor cited by a printed one does not surface (`SorrySurfaces` of
  `LiftProve`). Concurrent calls share `<stem>.gen.lean`. A kill during a compile, or a source
  edited meanwhile, leaves a compiled file that looks fresh.
* Libraries. The support modules are compiled in directory order (`main.rs:114`), not in the order
  of their imports.
* Reports. `mod.rs:856` says of a conservative net that "safety and liveness [are] both intact",
  also below a list of violations or deadlocks. A proof of a model whose script does not elaborate
  prints "level: M1" while its JSON says `M2_unverified`. `prism` exits 0 after printing
  DISAGREEMENT. `simulate` does not look for immediate cycles. Arcs of the drawn nets show no
  weight.
* Executors. `codegen.rs:57-58` says that distinct names stay distinct; names may fold to one
  identifier, and the program then does not compile. `conformance` writes all its input before it
  reads (`mod.rs:626`): a program that answers as it reads and fills its pipe blocks, and so does
  the writer (`NotWedged` of `Executor`); it takes more lines than both pipes hold.
* Behaviour trees. `bt.rs:107-110` joins variable names into state names, so that some blackboards
  may share one.
* Task sets. `mod.rs:427` compares a hard verdict under DM or EDF with a simulation that is always
  RM. `rt.rs:7-8` calls the utilisation bound sufficient; for a deadline below the period it is not
  (c = 2, t = 4, d = 1). `rt.rs:102` may collect a very large vector of points.
* Stochastic nets. `gspn.rs:166` and `:357` give a path up after 10 000 immediate firings, acyclic
  ones too and in silence; `all_markings` has no ceiling; `has_immediate_cycle` refuses nets whose
  cycle nothing reaches. `gspn.rs:423` answers 0 for a state that a zero pivot leaves undetermined,
  and a trap beside the goal makes one (`ReachIsAlwaysRight` of `Ctmc`); `AbsorptionIsRight` is
  about the other chains.
* FPGA. `fpga.rs:638-642` calls stability "timing closure restated"; it is not for a stage exactly
  as long as the period, nor for an initiation interval above 1. `StableIsClosure` is about the
  rest. A stage delay of 0 switches the stability test off. `throughput` does not look at a
  period that the clock contradicts. `fpga_fsm.rs` takes shift counts modulo 64; unnamed input
  ports are all called "in"; the comparison of packed outputs compares layouts, not names.
* Cores. `mpsc.rs` with N = 1: the stamp of a published value equals that of the next lap's free
  cell.

## 6. What is not modelled

* Text: parsers, prompts, runners, the layout of reports, of generated programs and of PRISM
  models, the emission of Lean scripts. Where what the text says matters (names that meet, axioms
  that are printed, lines that answer lines), that is modelled without the text.
* Rounding. Rates, probabilities, delays and utilisations are exact fractions, so the models say
  that the algorithms are right and nothing about their accuracy. `Compare` has floats as bit
  patterns because there the bits are compared. Lean's own `Float` is out of reach.
* Random testing (`fuzz.rs`, `proptest.rs`): it samples properties that the modules state.
  Signatures and the generation of vectors (`sig.rs`, `vectors.rs`) are functions on text; vectors
  are sets here.
* `import_cmd` and `info` of `fpga.rs` print what they read. A clock of 0 Hz is no clock.
* `emit_fsm` of `models/lean.rs` writes the table of a machine in Lean, names changed. Names that
  meet, and arms that are never used, make Lean refuse the script; what it proves of one that it
  accepts is `Reachable` of `Checker` against the forbidden states, the question of the sweep.
* Waiting times of `Qnet` are quotients of figures that are there; several servers at a station
  are refused by the parser.
* In `Verify`: tools that hang, disks that fill, edits of the source during a run; the staleness
  test of the support library is modelled once, in `ModelCli`.
* In the cores: panics, drops of a structure in use, memory orders weaker than loom explores.
* The Iris developments are Lean proofs about a language of their own; `leanproofs` is real
  analysis and has no state; scripts and examples call `lift`.

## 7. Plan

Modelled, in this order: `Checker` with its proofs; the families that feed it; `Verify`; the cores;
then comparison, proving, executors, readers, solvers, queueing networks, FPGA certificates and the
two command lines. Proved: the explorer, lossy and coloured nets, `lift model`, `lift prove`, the
pipeline, task sets, `lift fpga` and the six cores.

Worth a module if the code grows there: the hazard-pointer scheme of `PhaseB/HazardPtr.lean`, which
the `Treiber` core leaves to its single popper.
