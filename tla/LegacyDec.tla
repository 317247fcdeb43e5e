----------------------------- MODULE LegacyDec -----------------------------
(***************************************************************************)
(* Fixed-point decimals of cosmossdk.io/math (LegacyDec), as stakeibc uses *)
(* them: a decimal d is the integer d * Precision.  The library has        *)
(* Precision = 10^18; the instances checked by TLC use a smaller one, so   *)
(* that rounding happens on small amounts.  External code.                 *)
(***************************************************************************)
EXTENDS Integers

CONSTANT Precision
ASSUME PrecisionAssumption == Precision \in Nat \ {0}

\* The closest integer to n / d, a tie going to the even one (chopPrecisionAndRound).
RoundHalfEven(n, d) ==
    LET q == n \div d
        r == n % d
    IN  IF 2 * r < d \/ (2 * r = d /\ q % 2 = 0) THEN q ELSE q + 1

NewDecFromInt(n) == n * Precision
Quo(a, b) == RoundHalfEven(a * Precision, b)
Mul(a, b) == RoundHalfEven(a * b, Precision)
TruncateInt(a) == a \div Precision
=============================================================================
