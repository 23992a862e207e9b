------------------------------ MODULE Compare -------------------------------
(***************************************************************************)
(* The verdict of `lift verify` (src/src/compare.rs): what the source      *)
(* printed for every vector is joined with what the Lean model printed,    *)
(* and each line is classified; an overflow that the model reports and the *)
(* source does not is excused where the profile says that the source wraps.*)
(*                                                                         *)
(* A machine integer of 32 or 64 bits is a number below job.word.  A float *)
(* is a bit pattern of one sign bit, two exponent bits and two bits of     *)
(* mantissa: its finite values are integers up to 14, and it has zeros,    *)
(* subnormal numbers, infinities and NaNs as IEEE-754 has.                 *)
(***************************************************************************)
EXTENDS Integers, Sequences, FiniteSets

CONSTANTS
  Comparisons,   \* [profile, word, checks, vectors, lean] or [width, tol, source, lean]
  OVERFLOW, NAN, Missing   \* what a runner prints instead of a number, or no line

VARIABLES
  job,     \* the comparison
  lines    \* the classes of the lines so far

comparing == <<job, lines>>

IsFloat(j) == "tol" \in DOMAIN j

-----------------------------------------------------------------------------
(* The kernels that are compared, as C++ runs them.                        *)
streamed(w, a) ==
  IF a[4] <= a[2] THEN 0
  ELSE IF a[3] <= a[4] THEN a[1]
  ELSE ((a[1] * (a[4] - a[2])) % w) \div (a[3] - a[2])

avg(w, a) == ((a[1] + a[2]) % w) \div 2

dot2(w, a) == (((a[1] * a[2]) % w) + ((a[3] * a[4]) % w)) % w

Root(w) == CHOOSE r \in 1..w : r * r = w

bisect_sqrt(w, n, eps) ==
  LET h == Root(w) - 1
      search[b \in (0..h) \X (0..h)] ==
        LET mid == (b[1] + b[2] + 1) \div 2
        IN  IF b[2] - b[1] <= eps THEN b[1]
            ELSE IF mid * mid <= n THEN search[<<mid, b[2]>>] ELSE search[<<b[1], mid - 1>>]
  IN  search[<<0, h>>]

isqrt(w, n) == bisect_sqrt(w, n, 0)

ilog2(n) == CHOOSE e \in 0..n : 2^e <= n /\ n < 2^(e + 1)

quantize_rne(prec, n) ==
  IF n = 0 \/ ilog2(n) <= prec THEN n
  ELSE LET step == 2^(ilog2(n) - prec)
           low == (n \div step) * step
           rem == n - low
       IN  CASE 2 * rem > step -> low + step
             [] 2 * rem < step -> low
             [] OTHER -> IF (low \div step) % 2 = 0 THEN low ELSE low + step

kernel(p, w, a) ==
  CASE p = "Streamed" -> streamed(w, a)
    [] p = "Avg" -> avg(w, a)
    [] p = "Dot2" -> dot2(w, a)
    [] p = "Isqrt" -> isqrt(w, a[1])
    [] p = "Bisect" -> bisect_sqrt(w, a[1], a[2])
    [] p = "Quant" -> quantize_rne(a[1], a[2])

(* Where checked arithmetic fails, operation by operation.                 *)
Overflows(p, w, a) ==
  \/ p = "Streamed" /\ a[2] < a[4] /\ a[4] < a[3] /\ a[1] * (a[4] - a[2]) >= w
  \/ p = "Avg" /\ a[1] + a[2] >= w
  \/ p = "Dot2" /\ \/ a[1] * a[2] >= w \/ a[3] * a[4] >= w
                   \/ a[1] * a[2] + a[3] * a[4] >= w

(* A Solidity contract whose arithmetic is checked reverts.                *)
oracle(j, i) ==
  IF j.checks /\ Overflows(j.profile, j.word, j.vectors[i]) THEN OVERFLOW
  ELSE kernel(j.profile, j.word, j.vectors[i])

-----------------------------------------------------------------------------
declared_divergence_strict(p, w, a) ==            \* mutant: the word itself fits
  CASE p = "Streamed" -> a[4] > a[2] /\ a[1] * (a[4] - a[2]) > w
    [] p = "Avg" -> a[1] + a[2] > w
    [] p = "Dot2" -> a[1] * a[2] + a[3] * a[4] > w
    [] OTHER -> FALSE
declared_divergence(p, w, a) ==
  CASE p = "Streamed" -> a[4] > a[2] /\ a[1] * (a[4] - a[2]) >= w
    [] p = "Avg" -> a[1] + a[2] >= w
    [] p = "Dot2" -> a[1] * a[2] + a[3] * a[4] >= w
    [] OTHER -> FALSE

classify(j, i) ==
  LET src == oracle(j, i)
      lean == j.lean[i]
  IN  IF lean = OVERFLOW
        THEN IF src = OVERFLOW THEN "Conform"
             ELSE IF declared_divergence(j.profile, j.word, j.vectors[i])
               THEN "DeclaredOverflow" ELSE "Mismatch"
      ELSE IF lean = src THEN "Conform" ELSE "Mismatch"

(* The postcondition of the profile at a result.                           *)
postcondition(p, a, r) ==
  CASE p = "Isqrt" -> r * r <= a[1] /\ a[1] < (r + 1) * (r + 1)
    [] p = "Bisect" -> r * r <= a[1] /\ a[1] < (r + a[2] + 1) * (r + a[2] + 1)
    [] p = "Quant" ->
         IF a[2] = 0 THEN r = 0
         ELSE IF ilog2(a[2]) <= a[1] THEN r = a[2]
         ELSE LET step == 2^(ilog2(a[2]) - a[1])
                  err == IF r < a[2] THEN a[2] - r ELSE r - a[2]
              IN  r % step = 0 /\ err <= step \div 2
    [] OTHER -> TRUE

-----------------------------------------------------------------------------
(* Floats: 16 is the sign, 12 the exponent bits, all of them set for NaN   *)
(* and the infinities.  The narrow width ignores the bits above its own,   *)
(* and is decoded into a type wide enough for every difference.            *)
Sign(b) == IF b >= 16 THEN -1 ELSE 1
Exponent(b) == (b % 16) \div 4
is_nan(b) == Exponent(b) = 3 /\ b % 4 # 0
is_infinite(b) == Exponent(b) = 3 /\ b % 4 = 0
decode(b) ==
  Sign(b) * IF Exponent(b) = 0 THEN b % 4 ELSE (4 + (b % 4)) * 2^(Exponent(b) - 1)

monotone_order(b) == IF b >= 16 THEN -(b % 16) ELSE b

Abs(x) == IF x < 0 THEN -x ELSE x
MaxFinite == 14
Infinite == 2 * MaxFinite + 4

(* A result of the wide type's arithmetic, rounded to the nearest.         *)
Rounded(x) ==
  IF x > MaxFinite THEN Infinite
  ELSE IF x < 8 \/ x % 2 = 0 THEN x ELSE 4 * ((x + 1) \div 4)

Difference(width, a, b) ==
  LET d == Abs(decode(a) - decode(b)) IN IF width = 64 THEN Rounded(d) ELSE d
Scaled(width, eps, a, b) ==
  LET s == eps * (IF Abs(decode(a)) > Abs(decode(b)) THEN Abs(decode(a)) ELSE Abs(decode(b)))
  IN  IF width = 64 THEN Rounded(s) ELSE s

withinUnguarded(width, tol, a, b) ==              \* mutant: no finite difference required
  CASE tol.kind = "Exact" -> FALSE
    [] tol.kind = "Ulp" -> Abs(monotone_order(a) - monotone_order(b)) <= tol.n
    [] tol.kind = "Rel" -> Difference(width, a, b) <= Scaled(width, tol.n, a, b)
    [] tol.kind = "Abs" -> Difference(width, a, b) <= tol.n
within(width, tol, a, b) ==
  LET d == Difference(width, a, b)
      finite == width = 64 => d # Infinite
  IN  CASE tol.kind = "Exact" -> FALSE
        [] tol.kind = "Ulp" -> Abs(monotone_order(a) - monotone_order(b)) <= tol.n
        [] tol.kind = "Rel" -> finite /\ d <= Scaled(width, tol.n, a, b)
        [] tol.kind = "Abs" -> finite /\ d <= tol.n

float_match(width, tol, x, y) ==
  LET a == IF width = 32 THEN x % 32 ELSE x
      b == IF width = 32 THEN y % 32 ELSE y
  IN  IF is_nan(a) \/ is_nan(b)
        THEN IF ~(is_nan(a) /\ is_nan(b)) THEN "Diverge"
             ELSE IF a = b THEN "BitExact" ELSE "WithinTolerance"
      ELSE IF a = b THEN "BitExact"
      ELSE IF decode(a) = 0 /\ decode(b) = 0 THEN "WithinTolerance"
      ELSE IF is_infinite(a) \/ is_infinite(b) THEN "Diverge"
      ELSE IF within(width, tol, a, b) THEN "WithinTolerance" ELSE "Diverge"

(* A token in the place of a pattern does not parse.                       *)
float_classify(j) ==
  IF {j.source, j.lean} \cap {NAN, Missing} # {} THEN "Mismatch"
  ELSE CASE float_match(j.width, j.tol, j.source, j.lean) = "BitExact" -> "Conform"
         [] float_match(j.width, j.tol, j.source, j.lean) = "WithinTolerance" ->
              "ToleranceDivergence"
         [] OTHER -> "Mismatch"

-----------------------------------------------------------------------------
CompareInit == job \in Comparisons /\ lines = <<>>

CompareLine ==
  /\ ~IsFloat(job) /\ Len(lines) < Len(job.vectors)
  /\ lines' = Append(lines, classify(job, Len(lines) + 1))
  /\ UNCHANGED job

CompareFloat ==
  /\ IsFloat(job) /\ lines = <<>>
  /\ lines' = <<float_classify(job)>>
  /\ UNCHANGED job

CompareNext == CompareLine \/ CompareFloat

CompareSpec == CompareInit /\ [][CompareNext]_comparing

Compared == Len(lines) = IF IsFloat(job) THEN 1 ELSE Len(job.vectors)
conformant == \A i \in DOMAIN lines : lines[i] # "Mismatch"

-----------------------------------------------------------------------------
(* compare.rs:236-240 and the kernels: a model that is the kernel in       *)
(* checked arithmetic is conformant, whether the source wraps or reverts,  *)
(* up to the very product and sum that no longer fit; one that has another *)
(* value anywhere, or no line, is not; and what the kernels return meets   *)
(* the postcondition that is reported about them.                          *)
Checked(j, i) ==
  IF Overflows(j.profile, j.word, j.vectors[i]) THEN OVERFLOW
  ELSE kernel(j.profile, j.word, j.vectors[i])

ClassIsRight ==
  ~IsFloat(job) /\ Compared =>
    /\ (\A i \in DOMAIN lines : job.lean[i] = Checked(job, i)) => conformant
    /\ conformant => \A i \in DOMAIN lines : job.lean[i] \in {OVERFLOW, oracle(job, i)}
    /\ \A i \in DOMAIN lines :
         postcondition(job.profile, job.vectors[i], kernel(job.profile, job.word, job.vectors[i]))

(* compare.rs:312-318: whatever the tolerance, a NaN, an infinity and a    *)
(* difference that overflows are never within it; ULPs are counted through *)
(* the zeros; a relative or absolute bound holds of the exact difference,  *)
(* up to the rounding of its computation; and a wider tolerance accepts    *)
(* what a narrower one does.                                               *)
Finite == {b \in 0..31 : Exponent(b) # 3}
Between(x, y) == {decode(b) : b \in Finite} \cap ((x + 1)..y \cup (y + 1)..x)
Slack(x) == IF x < 8 THEN 0 ELSE 1

ToleranceIsSound ==
  IsFloat(job) /\ lines \in {<<"ToleranceDivergence">>, <<"Conform">>} =>
    LET a == job.source % 32
        b == job.lean % 32
        d == Abs(decode(a) - decode(b))
        scale == IF Abs(decode(a)) > Abs(decode(b)) THEN Abs(decode(a)) ELSE Abs(decode(b))
    IN  \/ a = b
        \/ /\ {a, b} \subseteq Finite
           /\ job.width = 64 => d <= MaxFinite
           /\ CASE job.tol.kind = "Exact" -> d = 0
                [] job.tol.kind = "Ulp" -> Cardinality(Between(decode(a), decode(b))) <= job.tol.n
                [] job.tol.kind = "Rel" ->
                     d <= job.tol.n * scale + Slack(d) + Slack(job.tol.n * scale)
                [] job.tol.kind = "Abs" -> d <= job.tol.n + Slack(d)
           /\ float_match(job.width, [job.tol EXCEPT !.n = @ + 1], a, b) # "Diverge"
           /\ float_match(job.width, job.tol, b, a) # "Diverge"

(* compare.rs:224-226: a divergence is only declared where the source      *)
(* does wrap.                                                              *)
DeclaredIsReal ==
  ~IsFloat(job) =>
    \A i \in DOMAIN lines :
      lines[i] = "DeclaredOverflow" => Overflows(job.profile, job.word, job.vectors[i])
=============================================================================
