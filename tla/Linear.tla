------------------------------- MODULE Linear -------------------------------
(***************************************************************************)
(* Gaussian elimination with partial pivoting, as in gspn.rs and qnet.rs:  *)
(* the two agree but for a column without a pivot, where qnet.rs gives up  *)
(* and gspn.rs goes on.                                                    *)
(*                                                                         *)
(* Exact fractions stand for the f64 of the code: a pair of a numerator    *)
(* and a positive denominator, in lowest terms, so that equal numbers are  *)
(* equal values.  The thresholds (1e-18 and the like) are zero here.       *)
(***************************************************************************)
EXTENDS Integers, Sequences, SequencesExt, FiniteSetsExt, Functions

Gcd[a \in Nat, b \in Nat] == IF b = 0 THEN a ELSE Gcd[b, a % b]
Size(n) == IF n < 0 THEN -n ELSE n

Frac(n, d) ==
  LET g == Gcd[Size(n), Size(d)]
      s == IF d < 0 THEN -1 ELSE 1
  IN  <<s * (n \div g), s * (d \div g)>>

Whole(n) == <<n, 1>>
Zero == Whole(0)
One == Whole(1)
Plus(x, y) == Frac(x[1] * y[2] + y[1] * x[2], x[2] * y[2])
Neg(x) == <<-x[1], x[2]>>
Less(x, y) == Plus(x, Neg(y))
Times(x, y) == Frac(x[1] * y[1], x[2] * y[2])
Over(x, y) == Frac(x[1] * y[2], x[2] * y[1])
Magnitude(x) == <<Size(x[1]), x[2]>>
Below(x, y) == x[1] * y[2] < y[1] * x[2]

(* A sum of F(i) over a finite set of indices, and of the members of a     *)
(* vector.                                                                 *)
Sigma(F(_), S) == FoldSet(LAMBDA i, acc : Plus(F(i), acc), Zero, S)
Total(v) == Sigma(LAMBDA i : v[i], DOMAIN v)

-----------------------------------------------------------------------------
(* max_by returns the last of the largest.                                 *)
Pivot(a, col) ==
  LET rows == col..Len(a)
  IN  Max({r \in rows : \A k \in rows :
             ~Below(Magnitude(a[r][col]), Magnitude(a[k][col]))})

Swap(v, i, j) == [v EXCEPT ![i] = v[j], ![j] = v[i]]

Column(at, col) ==
  LET p == Pivot(at.a, col)
      a == Swap(at.a, col, p)
      b == Swap(at.b, col, p)
      f(row) == Over(a[row][col], a[col][col])
  IN  IF a[col][col] = Zero THEN [a |-> a, b |-> b, singular |-> TRUE]
      ELSE [a |-> [row \in DOMAIN a |->
                     IF row <= col THEN a[row]
                     ELSE [k \in DOMAIN a |-> Less(a[row][k], Times(f(row), a[col][k]))]],
            b |-> [row \in DOMAIN b |->
                     IF row <= col THEN b[row] ELSE Less(b[row], Times(f(row), b[col]))],
            singular |-> at.singular]

Eliminated(a, b) ==
  FoldLeft(Column, [a |-> a, b |-> b, singular |-> FALSE], [i \in DOMAIN b |-> i])

Substituted(a, b) ==
  LET n == Len(b)
      x[i \in 1..n] == IF a[i][i] = Zero THEN Zero
                       ELSE Over(Less(b[i], Sigma(LAMBDA k : Times(a[i][k], x[k]), (i + 1)..n)),
                                 a[i][i])
  IN  x

(* gspn.rs: a zero pivot leaves its row, and its unknown is zero.          *)
solve_anyway(a, b) == LET e == Eliminated(a, b) IN Substituted(e.a, e.b)

(* qnet.rs: no answer for a singular system.                               *)
IsSingular(a, b) == Eliminated(a, b).singular
solve(a, b) == LET e == Eliminated(a, b) IN Substituted(e.a, e.b)
=============================================================================
