------------------------------- MODULE Figures -------------------------------
(***************************************************************************)
(* Figures that may be missing, and ratios of them.  The figures of a year *)
(* are a function whose domain is what was reported.  A ratio is a pair    *)
(* <<numerator, denominator>> with a positive denominator.                 *)
(***************************************************************************)
EXTENDS Integers

AbsOf(n) == IF n < 0 THEN -n ELSE n
Larger(a, b) == IF a > b THEN a ELSE b
Smaller(a, b) == IF a < b THEN a ELSE b
Within(n, low, high) == Smaller(high, Larger(low, n))

Ratio(n, d) == IF d < 0 THEN <<-n, -d>> ELSE <<n, d>>
Equal(q, r) == q[1] * r[2] = r[1] * q[2]
Less(q, r) == q[1] * r[2] < r[1] * q[2]

\* What a calculation gives when an input is missing, and when none is.
NoData == [status |-> "INSUFFICIENT_DATA", value |-> <<>>]
Valid(n, d) == [status |-> "VALID", value |-> Ratio(n, d)]

Has(f, names) == names \subseteq DOMAIN f
OrZero(f, name) == IF name \in DOMAIN f THEN f[name] ELSE 0
OrElse(f, name, default) == IF name \in DOMAIN f THEN f[name] ELSE default

\* The figures with one of them set, and with one of them left out.
Set(f, name, value) == [n \in DOMAIN f \cup {name} |-> IF n = name THEN value ELSE f[n]]
Drop(f, name) == [n \in DOMAIN f \ {name} |-> f[n]]
=============================================================================
