---------------------------- MODULE ToolExamples ----------------------------
(***************************************************************************)
(* What the commands are checked on: comparisons, proofs, exports, machine *)
(* descriptions, chains, networks, timed modules, files and invocations.   *)
(***************************************************************************)
EXTENDS Integers, Sequences, FiniteSets, SequencesExt, FiniteSetsExt, Functions

CONSTANTS OVERFLOW, NAN, Missing, None, NoState, RustCaps, StreamCap, Bar, Unknown, NoFsm, Refused

-----------------------------------------------------------------------------
(* Comparisons, for TLC: one vector or two of every profile with a kernel  *)
(* over integers, small enough to take all vectors and all answers of a    *)
(* model; all pairs of float patterns under each kind of tolerance.        *)
Integer(p, w, vectors, values) ==
  [profile : {p}, word : {w}, checks : {FALSE, TRUE},
   vectors : vectors, lean : {<<x>> : x \in values \cup {OVERFLOW, Missing}}]

(* Two lines, the second of them right: one bad line is enough.            *)
TwoLines ==
  [profile : {"Avg"}, word : {4}, checks : {FALSE},
   vectors : {<<a, b>> : a \in (0..3) \X (0..3), b \in {<<1, 1>>, <<3, 1>>}},
   lean : {<<x, y>> : x \in (0..3) \cup {OVERFLOW, Missing}, y \in {1, OVERFLOW}}]

Vectors(S) == {<<v>> : v \in S}

IntegerComparisons ==
  UNION {
    Integer("Streamed", 4, Vectors({v \in (0..3) \X (0..3) \X (0..3) \X (0..3) : v[2] < v[3]}), 0..3),
    Integer("Dot2", 4, Vectors((0..3) \X (0..3) \X (0..3) \X (0..3)), 0..3),
    Integer("Avg", 8, Vectors((0..7) \X (0..7)), 0..7),
    Integer("Isqrt", 64, Vectors({<<n>> : n \in 0..63}), {0, 3, 7}),
    Integer("Bisect", 64, Vectors((0..63) \X (0..8)), {3}),
    Integer("Quant", 128, Vectors((0..3) \X (0..31)), {0, 24}),
    TwoLines }

(* The runner of the source prints a NaN as its token and -0 as 0.         *)
Printed == ((0..12) \cup (17..28) \cup {NAN})

Tolerances ==
  [kind : {"Exact"}, n : {0}] \cup [kind : {"Ulp"}, n : 0..2]
    \cup [kind : {"Rel"}, n : 0..2] \cup [kind : {"Abs"}, n : {0, 1, 8, 14}]

FloatComparisons ==
  [width : {64}, tol : Tolerances, source : Printed, lean : (0..31) \cup {NAN, Missing}]
    \cup [width : {32}, tol : Tolerances, source : Printed,
          lean : (0..39) \cup {NAN, Missing}]

AllComparisons == IntegerComparisons \cup FloatComparisons

-----------------------------------------------------------------------------
(* Examples of `lift prove`, for TLC: two of the Rust crate, two that      *)
(* cpp2rust writes, with the entry point of the first among them, all with *)
(* theorems in every state of proof; and one of another front end.  The    *)
(* fragment has a theorem that cites a lemma, and prints the axioms of all *)
(* its theorems, or of the theorem only (examples/orderbook).              *)
Proofs == {"closed", "sorry", "broken"}
Cites == [lemma |-> {}, spec |-> {"lemma"}, corollary |-> {}]

Fragments ==
  [theorems : {<<"lemma", "spec", "corollary">>},
   proof : [{"lemma", "spec", "corollary"} -> Proofs],
   uses : {[t \in {"lemma", "spec", "corollary"} |-> Cites[t]]},
   audited : {{"spec"}, {"spec", "corollary"}}]

Sound == [theorems |-> <<"spec">>, proof |-> [t \in {"spec"} |-> "closed"],
          uses |-> [t \in {"spec"} |-> {}], audited |-> {"spec"}]

ProofOf(n, l, e, f) == [name |-> n, lane |-> l, entrypoint |-> e, frag |-> f]

ProofExamples ==
  {ProofOf("rust-isqrt", "rust", "isqrt", f) : f \in Fragments}
    \cup {ProofOf("cpp-isqrt", "cpp2rust", "isqrt", Sound),
          ProofOf("cpp-bisect", "cpp2rust", "bisect_sqrt", Sound),
          ProofOf("rust-bisect", "rust", "bisect_sqrt", Sound),
          ProofOf("avg", "other", "avg", Sound),
          ProofOf("fadd", "other", "fadd", None)}

-----------------------------------------------------------------------------
(* Exports to check: every program of two states and one event against     *)
(* every model of that size; models of two states and two events against   *)
(* the programs that differ from them in one place; names that do not      *)
(* survive the trip; and small nets, exported rightly.                     *)
S1 == <<"a">>
S2 == <<"b">>
T == <<"t">>
U == <<"u">>

Program(states, alphabet, init, table, forbid) ==
  [states |-> states, alphabet |-> alphabet, initial |-> init,
   transitions |-> table, forbid |-> forbid]

Tables(events) == [{S1, S2} \X events -> {S1, S2, NoState}]

OneEvent ==
  {Program(<<S1, S2>>, <<T>>, i, f, SetToSeq(b)) :
     i \in {S1, S2}, f \in Tables({T}), b \in SUBSET {S1, S2}}

TwoEvents == {Program(<<S1, S2>>, <<T, U>>, S1, f, <<S2>>) : f \in Tables({T, U})}

OffByOne(m) ==
  {[m EXCEPT !.transitions[s, a] = t] : s \in {S1, S2}, a \in {T, U}, t \in {S1, S2, NoState}}

Export(m, of, lang, cap, samples) ==
  [model |-> m, of |-> of, lang |-> lang, cap |-> cap, samples |-> samples]

WrongPrograms ==
  {Export(m, of, "rust", 20, 0) : m \in {x \in OneEvent : x.initial = S1}, of \in OneEvent} \cup
  UNION {{Export(m, of, "cpp", 20, 0) : of \in OffByOne(m)} : m \in TwoEvents}

(* Names in a chain of two states; an event of two words; a repeated state *)
(* and a repeated forbidden state; no event at all.                        *)
Names == {<<"a">>, <<"a", "|", "b">>, <<"a", "_", "b">>, <<"a", " ", "b">>, <<"1">>,
          <<"-">>, <<"while">>, <<>>, <<"!">>}
NamedPrograms ==
  {Program(<<n, k>>, <<e>>, n, [p \in {<<n, e>>} |-> k], [i \in 1..f |-> k]) :
     n \in Names, k \in Names, e \in {T, <<"t", " ", "u">>, <<>>}, f \in 0..2} \cup
  {Program(<<S1>>, <<>>, S1, [p \in {} |-> S1], <<>>)}

NamedExports == {Export(m, m, l, 20, 1) : m \in NamedPrograms, l \in {"rust", "cpp", "go"}}

Arc == [1..2 -> 0..1]
SmallNet(names, r, o, c) ==
  [transitions |-> <<[name |-> names[1], pre |-> r, post |-> o],
                     [name |-> names[2], pre |-> <<1, 0>>, post |-> <<0, 2>>]>>,
   initial     |-> <<1, 1>>,
   bounds      |-> <<[places |-> c, max |-> 2]>>,
   conserved   |-> {1, 2}]

ExportedNets ==
  {SmallNet(n, r, o, c) : n \in {<<T, U>>, <<T, T>>}, r \in Arc, o \in Arc,
                          c \in {{}, {1}, {1, 2}}}

NetExports ==
  {Export(n, n, "rust", cap, 0) : n \in ExportedNets, cap \in RustCaps} \cup
  {Export(n, n, l, StreamCap, 0) : n \in ExportedNets, l \in {"cpp", "go"}}

MixedExports == WrongPrograms \cup NamedExports \cup NetExports

-----------------------------------------------------------------------------
(* Descriptions to build: every two machines of two states, one with a     *)
(* private event and a shared one, the other with the shared one; three    *)
(* machines; rows that contradict each other; names with a bar in them;    *)
(* and single machines.                                                    *)
N(i) == <<i>>
Row(k, f, e, t) == [machine |-> k, from |-> f, on |-> e, to |-> t]

Doc(ms, init, states, rows, forbid) ==
  [machines |-> ms, initial |-> init, states |-> states,
   transition |-> FoldSet(LAMBDA r, acc : Append(acc, r), <<>>, rows), forbid |-> forbid]

RowsOf(k, events) == {Row(k, N(f), e, N(t)) : f \in {"1", "2"}, e \in events, t \in {"1", "2"}}

PairDocs ==
  {Doc(<<"A", "B">>, <<N("1"), N("1")>>, <<>>, ra \cup rb, f) :
     ra \in {r \in SUBSET RowsOf("A", {"p", "s"}) : Cardinality(r) \in 1..3},
     rb \in {r \in SUBSET RowsOf("B", {"s"}) : Cardinality(r) \in 0..2},
     f \in {<<>>, <<<<N("2"), N("2")>>>>}}

ThreeDocs ==
  {Doc(<<"A", "B", "C">>, <<N("1"), N("1"), N("1")>>, <<>>,
       {Row("A", N("1"), "s", N("2")), Row("B", N("1"), "s", N("2"))} \cup rc,
       <<<<N("2"), N("2"), N("2")>>>>) : rc \in SUBSET RowsOf("C", {"s", "c"})}

BarredDocs ==
  {Doc(<<"A", "B">>, <<<<"1">>, <<"1">>>>, <<>>,
       {Row("A", <<"1">>, "p", <<"1", Bar, "2">>), Row("A", <<"1">>, "s", <<"1">>),
        Row("B", <<"1">>, "q", <<"2", Bar, "1">>), Row("B", <<"1">>, "q", <<"1">>)} \ r, <<>>) :
     r \in SUBSET {Row("A", <<"1">>, "s", <<"1">>), Row("B", <<"1">>, "q", <<"1">>)}}

SingleDocs ==
  {Doc(<<"A">>, <<N("1")>>, <<N("1"), N("2")>>, r, f) :
     r \in {x \in SUBSET RowsOf("A", {"p", "s"}) : Cardinality(x) <= 3},
     f \in {<<>>, <<<<N("2")>>>>, <<<<N("3")>>>>}}

FsmDocs == PairDocs \cup ThreeDocs \cup BarredDocs \cup SingleDocs

-----------------------------------------------------------------------------
(* Chains: every one of three states with rates up to two; of four states  *)
(* with rates up to one, every one around a ring and every one whose first *)
(* state is absorbing.  The last state holds one token of the queried      *)
(* place, the first two.                                                   *)
Off(n) == {<<i, j>> \in (1..n) \X (1..n) : i # j}

Chain(n, f) ==
  [rate   |-> [i \in 1..n |-> [j \in 1..n |-> <<IF i = j THEN 0 ELSE f[i, j], 1>>]],
   tokens |-> [i \in 1..n |-> IF i = n THEN 1 ELSE IF i = 1 THEN 2 ELSE 0]]

Full3 == [Off(3) -> 0..2]
Ring == {<<1, 2>>, <<2, 3>>, <<3, 4>>, <<4, 1>>}
Ringed4 == {f \in [Off(4) -> 0..1] : \A p \in Ring : f[p] = 1}
Ending4 == {f \in [Off(4) -> 0..1] : \A p \in Off(4) : p[1] = 1 => f[p] = 0}

MarkovChains == {Chain(3, f) : f \in Full3} \cup {Chain(4, f) : f \in Ringed4 \cup Ending4}

-----------------------------------------------------------------------------
(* Networks: two stations that route halves, wholes or nothing to each     *)
(* other, with two service rates and one external rate that may be none;   *)
(* three stations that route wholes or nothing; and one the parser refuses.*)
Fr(n, d) == <<n, d>>
Listed(S) == FoldSet(LAMBDA x, acc : Append(acc, x), <<>>, S)

Net(mus, lambdas, P) ==
  [station |-> [i \in DOMAIN mus |-> [mu |-> Fr(mus[i], 1), servers |-> 1, lambda |-> lambdas[i]]],
   route   |-> Listed({[from |-> p[1], to |-> p[2], prob |-> P[p]] :
                         p \in {x \in DOMAIN P : P[x] # Fr(0, 1)}})]

Square(n) == (1..n) \X (1..n)
Halves == [Square(2) -> {Fr(0, 1), Fr(1, 2), Fr(1, 1)}]
Wholes == {P \in [Square(3) -> {Fr(0, 1), Fr(1, 1)}] :
             \A i \in 1..3 : Cardinality({j \in 1..3 : P[i, j] = Fr(1, 1)}) <= 1}

QNets ==
  {Net(<<m1, 2>>, <<l1, l2>>, P) : m1 \in {1, 2}, l1, l2 \in {Fr(0, 1), Fr(1, 2)}, P \in Halves} \cup
  {Net(<<1, 2, 1>>, <<Fr(1, 2), l2, Fr(0, 1)>>, P) : l2 \in {Fr(0, 1), Fr(1, 3)}, P \in Wholes} \cup
  {[Net(<<1>>, <<Fr(1, 2)>>, [p \in Square(1) |-> Fr(0, 1)]) EXCEPT !.station[1].servers = 2]}

-----------------------------------------------------------------------------
(* Files to certify: one pipelined module with every mixture of stated and *)
(* missing clocks, paths, stage delays and folds; two modules, one of them *)
(* without a pipeline; and none.  Giga is 12.                              *)
Ns(n) == <<n, 1>>
Pipe(stages, latency, ii, delays) ==
  [num_stages |-> stages, latency |-> latency, ii |-> ii, delays |-> delays]
Module(freq, domains, target, critical, c_slow, pipeline) ==
  [freq |-> freq, domains |-> domains, target |-> target, critical |-> critical,
   c_slow |-> c_slow, pipeline |-> pipeline]

Delays == {<<>>} \cup {<<a, b>> : a \in {Ns(0), Ns(3), Ns(4), Unknown}, b \in {Ns(3), Ns(5), Unknown}}

Clocked ==
  {Module(f, ds, t, c, 1, Pipe(2, l, i, d)) :
     f \in {Unknown, 0, 3}, ds \in {<<Unknown, 4>>, <<>>}, t \in {Unknown, Ns(4)},
     c \in {Unknown, Ns(5)}, l \in {1, 2}, i \in {1, 2}, d \in Delays}

Folded ==
  {Module(3, <<>>, Unknown, Unknown, s, Pipe(2, l, i, <<>>)) : s \in 0..5, l \in {1, 3}, i \in 0..5}

Unpipelined == Module(3, <<>>, Unknown, Unknown, 1, Unknown)

TimedFiles ==
  {<<m>> : m \in Clocked \cup Folded \cup {Unpipelined}} \cup {<<>>} \cup
  {<<Unpipelined, m>> : m \in Folded} \cup {<<m, n>> : m, n \in {x \in Folded : x.c_slow \in 2..3}}

TimingPlans == {[verb |-> v, modules |-> ms] : v \in {"timing", "throughput"}, ms \in TimedFiles}

-----------------------------------------------------------------------------
(* Files for the FPGA commands: up to two modules, each with no machine, a *)
(* refused one, or one of: safe, vacuous, unsafe, unsafe but unreachable,  *)
(* and a ring larger than the bound; and FIFOs of depths that are out of   *)
(* range, explored and deferred.  The rings of three and four states have  *)
(* more pairs together, and more inputs with one of their own, than a      *)
(* product may.                                                            *)
Machine(n, forbid, used) ==
  [states |-> [i \in 1..n |-> i], alphabet |-> <<"t", "u">>, initial |-> 1,
   transitions |-> [p \in (1..n) \X {"t", "u"} |->
                      IF p[2] = "u" THEN p[1] ELSE IF p[1] < n THEN p[1] + 1 ELSE 1],
   forbid |-> forbid, used |-> used, inputs |-> {"go"}]

(* State 3 is there and never entered.                                     *)
Padded(m) ==
  [m EXCEPT !.states = <<1, 2, 3>>,
            !.transitions = [p \in (1..3) \X {"t", "u"} |->
                               IF p[1] = 3 \/ p[2] = "u" THEN p[1] ELSE 3 - p[1]]]

Fsms == {NoFsm, Refused, Machine(2, {}, 0), Machine(3, {2}, 1),
         [Machine(4, {}, 1) EXCEPT !.inputs = {"go", "halt"}],
         [Padded(Machine(2, {3}, 1)) EXCEPT !.inputs = {"go", "clear"}]}
Depths == {<<>>, <<1>>, <<2, 3>>, <<0>>, <<1, 4>>}

Mods == [fsm : Fsms, depths : Depths]
DesignFiles == {<<>>} \cup {<<m>> : m \in Mods} \cup {<<m, n>> : m, n \in Mods}
Solo == {f \in DesignFiles : \A i \in DOMAIN f : f[i].depths = <<>>}

FpgaInvocations ==
  {[verb |-> c[1], files |-> <<f>>, emit |-> c[2], prove |-> FALSE] :
     f \in DesignFiles, c \in {<<"check", FALSE>>, <<"prove", FALSE>>, <<"prove", TRUE>>}} \cup
  {[verb |-> "equiv", files |-> <<f, g>>, emit |-> FALSE, prove |-> p] :
     f, g \in Solo, p \in BOOLEAN}

-----------------------------------------------------------------------------
(* Files for ModelCli: one of each way through the dispatch; two nets      *)
(* share a stem, only one of them is safe.                                 *)
PlainSpec ==
  [name |-> "net.toml", stem |-> "net", kind |-> "petri", xml |-> FALSE, parses |-> TRUE,
   cyclic |-> FALSE, queries |-> 0, safe |-> TRUE, small |-> TRUE, provable |-> TRUE,
   meets |-> TRUE]

CliSpecs ==
  {PlainSpec,
   [name |-> "net.pnml", xml |-> TRUE, safe |-> FALSE, provable |-> FALSE] @@ PlainSpec,
   [name |-> "big.toml", stem |-> "big", kind |-> "fsm", small |-> FALSE, provable |-> FALSE] @@ PlainSpec,
   [name |-> "tasks.toml", stem |-> "tasks", kind |-> "tasks", meets |-> FALSE] @@ PlainSpec,
   [name |-> "queue.toml", stem |-> "queue", kind |-> "qnet"] @@ PlainSpec,
   [name |-> "chain.toml", stem |-> "chain", kind |-> "spn", queries |-> 2] @@ PlainSpec,
   [name |-> "trap.toml", stem |-> "trap", kind |-> "spn", cyclic |-> TRUE] @@ PlainSpec,
   [name |-> "torn.toml", stem |-> "torn", parses |-> FALSE] @@ PlainSpec}

CliTheory == {"Fsm", "Petri"}
=============================================================================
