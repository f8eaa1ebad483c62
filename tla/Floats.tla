------------------------------- MODULE Floats -------------------------------
(***************************************************************************)
(* float64 with its rounding, for figures computed from int64 values that  *)
(* a float64 does not hold exactly.  A float64 is an exact fraction, and   *)
(* one of 53 significant bits; an operation returns the float64 nearest to *)
(* the exact result.  The precision is a parameter, like the word.         *)
(***************************************************************************)
EXTENDS GoArith

CONSTANTS
  Precision   (* up to here every integer is a float64: 2^53 in the real build *)

ASSUME PrecisionAssumption == Precision \in Nat \ {0} /\ Precision % 2 = 0

(* How far the float64 values around n are apart: all integers are there   *)
(* below 2^53, every second one from there on, every fourth from 2^54 on.  *)
spacing[n \in Nat] == IF n < Precision THEN 1 ELSE 2 * spacing[n \div 2]

(* The integer nearest to a / b, the even one of two that are as near.     *)
Nearest(a, b) ==
  LET low    == a \div b
      excess == 2 * (a % b)
      up     == excess > b \/ (excess = b /\ low % 2 = 1)
  IN  IF up THEN low + 1 ELSE low

RoundedNat(n) == Nearest(n, spacing[n]) * spacing[n]

(* The float64 nearest to an integer.  Scaled by a power of two it stays   *)
(* the nearest, so this rounds the numerator of a fraction as well.        *)
Rounded(n) == IF n < 0 THEN -RoundedNat(-n) ELSE RoundedNat(n)

(* A rational, an infinity or NaN, and those of them that are a float64:   *)
(* the numerator is one and the denominator a power of two, as the         *)
(* spacings are.                                                           *)
Fractions == {f \in Int \X Nat : f[2] = 0 => f[1] \in {-1, 0, 1}}

Float64s ==
  {f \in Fractions : f[2] # 0 =>
     /\ Rounded(f[1]) = f[1]
     /\ \E k \in 0 .. f[2] : f[2] = spacing[Precision * k]}
=============================================================================
