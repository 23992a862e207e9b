----------------------------- MODULE FpgaTiming -----------------------------
(***************************************************************************)
(* `lift fpga timing` and `lift fpga throughput` (certify_timing,          *)
(* certify_throughput and their commands in src/src/models/fpga.rs): each  *)
(* pipelined module of a file gets a certificate, and the exit code says   *)
(* whether all of them hold.  A module is what read_module makes of its    *)
(* JSON, as far as the certificates look:                                  *)
(*                                                                         *)
(*   [freq : the @clock_freq annotation, 0 if it is no number, domains :   *)
(*    the clock domains' frequencies, target, critical : periods, c_slow,  *)
(*    pipeline : [num_stages, latency, ii, delays]]                        *)
(*                                                                         *)
(* with Unknown for a field that is not there.  Times are fractions of a   *)
(* nanosecond, so the tolerances of 1 ps and below are zero.               *)
(***************************************************************************)
EXTENDS Linear

CONSTANTS
  Plans,           \* the invocations: [verb, modules]
  Giga,            \* 10^9: a period in ns is Giga / Hz
  MAX_FOLD,        \* 2^16 in the code
  Unknown,         \* Rust's None
  RateMonotonic(_),  \* the verdict of rt.rs on a task set
  Jackson(_)         \* the report of qnet.rs on a network, see Qnet

VARIABLES
  plan,      \* the invocation
  certs,     \* the certificates so far, Unknown for a module without pipeline
  status     \* Unknown, then the exit code

certifying == <<plan, certs, status>>

Known(x) == x # Unknown
OrElse(x, y) == IF Known(x) THEN x ELSE y
Differ(x, y) == Below(x, y) \/ Below(y, x)
Greatest(v) == CHOOSE x \in Range(v) : \A y \in Range(v) : ~Below(x, y)

(* The annotation if it parses, else the first domain that has one.        *)
clock_freq_hz(m) ==
  LET stated == {i \in DOMAIN m.domains : Known(m.domains[i])}
  IN  IF Known(m.freq) /\ m.freq # 0 THEN m.freq
      ELSE IF stated # {} THEN m.domains[Min(stated)] ELSE Unknown

AtLeastOne(n) == IF n = 0 THEN 1 ELSE n

(* Each of c_slow lanes wants one slot of every ii.                        *)
fold_schedulable(c_slow, ii) ==
  RateMonotonic([k \in 1..c_slow |-> [c |-> 1, t |-> ii, d |-> ii]])

(* Only a complete list of stage delays gives the critical path.           *)
derived_critical_any(p) ==                  \* mutant: of the stages that say
  LET said == SelectSeq(p.delays, Known)
  IN  IF said # <<>> THEN Greatest(said) ELSE Unknown
derived_critical(p) ==
  IF p.delays # <<>> /\ \A s \in DOMAIN p.delays : Known(p.delays[s])
    THEN Greatest(p.delays) ELSE Unknown

certify_timing(m) ==
  LET p == m.pipeline
      ii == AtLeastOne(p.ii)
      c_slow == AtLeastOne(m.c_slow)
      hz == clock_freq_hz(m)
      freq_period == IF Known(hz) THEN <<Giga, hz>> ELSE Unknown
      period == OrElse(freq_period, m.target)
      derived == derived_critical(p)
      path == OrElse(derived, m.critical)
      malformed == ii > MAX_FOLD \/ c_slow > MAX_FOLD
  IN  [closes    |-> IF Known(path) /\ Known(period) THEN ~Below(period, path) ELSE Unknown,
       mismatch  |-> \/ Known(freq_period) /\ Known(m.target) /\ Differ(freq_period, m.target)
                     \/ Known(derived) /\ Known(m.critical) /\ Differ(derived, m.critical),
       impossible |-> ii = 1 /\ p.latency < p.num_stages,
       fold      |-> ~malformed /\ fold_schedulable(c_slow, ii)]

TimingOk(c) == c.closes # FALSE /\ c.fold /\ ~c.mismatch /\ ~c.impossible

(* A station per stage, in a row.                                          *)
Tandem(rates, load) ==
  [station |-> [i \in DOMAIN rates |->
                  [mu |-> rates[i], servers |-> 1, lambda |-> IF i = 1 THEN load ELSE Zero]],
   route   |-> [i \in 1..(Len(rates) - 1) |-> [from |-> i, to |-> i + 1, prob |-> One]]]

OfferedFlat(m) ==                                \* mutant: not divided by II
  LET hz == clock_freq_hz(m)
  IN  IF Known(hz) THEN Whole(hz)
      ELSE IF Known(m.target) THEN Over(Whole(Giga), m.target) ELSE Unknown
Offered(m) ==
  LET hz == clock_freq_hz(m)
      clk == IF Known(hz) THEN Whole(hz)
             ELSE IF Known(m.target) THEN Over(Whole(Giga), m.target) ELSE Unknown
  IN  IF Known(clk) THEN Over(clk, Whole(AtLeastOne(m.pipeline.ii))) ELSE Unknown

have_rates(p) ==
  p.delays # <<>> /\ \A s \in DOMAIN p.delays : Known(p.delays[s]) /\ Below(Zero, p.delays[s])

certify_throughput(m) ==
  LET p == m.pipeline
      load == Offered(m)
      rates == [s \in DOMAIN p.delays |-> Over(Whole(Giga), p.delays[s])]
      net == Jackson(Tandem(rates, load))
      none == [max_sustainable |-> load, stable |-> Unknown, bottleneck |-> Unknown,
               mismatch |-> FALSE]
  IN  IF ~have_rates(p) THEN none
      ELSE LET slowest == Over(Whole(Giga), Greatest(p.delays))
           IN  IF ~Known(load) \/ "refused" \in DOMAIN net
                 THEN [none EXCEPT !.max_sustainable = slowest]
                 ELSE [max_sustainable |-> slowest, stable |-> net.stable,
                       bottleneck |-> net.bottleneck,
                       mismatch |-> Differ(p.delays[net.bottleneck], Greatest(p.delays))]

ThroughputOk(c) == ~c.mismatch /\ c.stable # FALSE

CertOf(m) ==
  IF ~Known(m.pipeline) THEN Unknown
  ELSE IF plan.verb = "timing" THEN certify_timing(m) ELSE certify_throughput(m)

CertOk(c) == IF plan.verb = "timing" THEN TimingOk(c) ELSE ThroughputOk(c)

TimingInit == plan \in Plans /\ certs = <<>> /\ status = Unknown

CertifyModule ==
  /\ status = Unknown /\ Len(certs) < Len(plan.modules)
  /\ certs' = Append(certs, CertOf(plan.modules[Len(certs) + 1]))
  /\ UNCHANGED <<plan, status>>

Conclude ==
  /\ status = Unknown /\ Len(certs) = Len(plan.modules)
  /\ LET made == Range(certs) \ {Unknown}
     IN  status' = IF made = {} THEN 2 ELSE IF \A c \in made : CertOk(c) THEN 0 ELSE 1
  /\ UNCHANGED <<plan, certs>>

TimingNext == CertifyModule \/ Conclude

TimingSpec == TimingInit /\ [][TimingNext]_certifying

-----------------------------------------------------------------------------
(* What read_module accepts, with no clock of 0 Hz and no time that is not *)
(* a number.                                                               *)
Time == Int \X (Nat \ {0})
Maybe(S) == {Unknown} \cup S

IsModule(m) ==
  /\ m.freq \in Maybe(Nat) /\ m.domains \in Seq(Maybe(Nat \ {0}))
  /\ m.target \in Maybe(Time) /\ m.critical \in Maybe(Time)
  /\ m.c_slow \in Nat
  /\ m.pipeline \in
       Maybe([num_stages : Nat, latency : Nat, ii : Nat, delays : Seq(Maybe(Time))])

TimingCert == [closes : Maybe(BOOLEAN), mismatch : BOOLEAN, impossible : BOOLEAN, fold : BOOLEAN]

(* fpga.rs:477-482: the lanes fit exactly if they are no more than the     *)
(* slots.  LanesFit of RtProofs shows it of the analysis of Rt.            *)
ASSUME TimingAssumption ==
  /\ Unknown \notin 0..2 /\ Unknown \notin BOOLEAN
  /\ Unknown \notin Time /\ Unknown \notin TimingCert
  /\ Giga \in Nat /\ MAX_FOLD \in Nat \ {0}
  /\ \A p \in Plans : p.modules \in Seq(Range(p.modules)) /\ \A m \in Range(p.modules) : IsModule(m)
  /\ \A c_slow, ii \in 1..MAX_FOLD : fold_schedulable(c_slow, ii) <=> c_slow <= ii

-----------------------------------------------------------------------------
(* What the file says of a pipeline, without a word on how it is checked.  *)
Pipelined(ms) == {i \in DOMAIN ms : Known(ms[i].pipeline)}
Period(m) == {<<Giga, hz>> : hz \in {clock_freq_hz(m)} \ {Unknown}} \cup ({m.target} \ {Unknown})
AllStages(p) == p.delays # <<>> /\ \A s \in DOMAIN p.delays : Known(p.delays[s])

(* Some stated time or size contradicts another one, or the clock.         *)
Contradicted(m) ==
  LET p == m.pipeline
      slow(d) == \E t \in Period(m) : Below(t, d)
  IN  \/ \E x, y \in Period(m) : Below(x, y)
      \/ AllStages(p) /\ \E s \in DOMAIN p.delays : slow(p.delays[s])
      \/ AllStages(p) /\ Known(m.critical)
         /\ \/ \E s \in DOMAIN p.delays : Below(m.critical, p.delays[s])
            \/ \A s \in DOMAIN p.delays : Below(p.delays[s], m.critical)
      \/ ~AllStages(p) /\ Known(m.critical) /\ slow(m.critical)
      \/ p.ii <= 1 /\ p.latency < p.num_stages
      \/ p.ii > MAX_FOLD \/ m.c_slow > MAX_FOLD
      \/ AtLeastOne(m.c_slow) > AtLeastOne(p.ii)

(* fpga.rs:517-527, "Fail-closed": the command passes a file exactly if it *)
(* has a pipeline and nothing it says of one is contradicted, the lanes of *)
(* a fold, which are scheduled like tasks, being no more than the slots.   *)
TimingIsFailClosed ==
  plan.verb = "timing" =>
    /\ status = 0 => Pipelined(plan.modules) # {}
    /\ status \in {0, 1} =>
         (status = 1 <=> \E i \in Pipelined(plan.modules) : Contradicted(plan.modules[i]))

(* fpga.rs:638-642: the station the network calls its bottleneck is a      *)
(* slowest stage, the verdict is that every stage ends within II periods,  *)
(* and that is closure if II is 1 and no stage takes the whole period.     *)
StableIsClosure ==
  \A i \in DOMAIN certs :
    plan.verb = "throughput" /\ Known(certs[i]) /\ Known(certs[i].stable) =>
      LET c == certs[i]
          m == plan.modules[i]
          t == IF Known(clock_freq_hz(m)) THEN <<Giga, clock_freq_hz(m)>> ELSE m.target
          ends(d) == Below(d, Times(Whole(AtLeastOne(m.pipeline.ii)), t))
          d == m.pipeline.delays
      IN  /\ ~c.mismatch /\ \A s \in DOMAIN d : ~Below(d[c.bottleneck], d[s])
          /\ c.stable <=> \A s \in DOMAIN d : ends(d[s])
          /\ c.stable <=> Below(Offered(m), c.max_sustainable)
          /\ m.pipeline.ii = 1 /\ (\A s \in DOMAIN d : Differ(d[s], t))
               => (c.stable <=> certify_timing(m).closes)
=============================================================================
