------------------------------ MODULE GoArith ------------------------------
(***************************************************************************)
(* The machine arithmetic the tool's models are computed in: Go's signed   *)
(* 64-bit integers, which wrap around, and the conversion of a float64 to  *)
(* an integer, whose result Go leaves to the platform when the value does  *)
(* not fit.  The word size is a parameter, so that a run with a small      *)
(* MaxInt meets the wrap-around and a proof covers every word size.        *)
(***************************************************************************)
EXTENDS Integers

CONSTANTS
  MaxInt   (* the largest integer of the word: 2^63 - 1 in the real build *)

ASSUME MaxIntAssumption == MaxInt \in Nat \ {0}

MinInt == -MaxInt - 1
Int64  == MinInt .. MaxInt

(* Two's complement: the representative of x in the word. *)
Wrap(x) == ((x + MaxInt + 1) % (2 * (MaxInt + 1))) - MaxInt - 1

AbsVal(x) == IF x < 0 THEN -x ELSE x

(* Integer division truncates toward zero; b = 0 panics and is excluded by *)
(* every caller.                                                           *)
Quo(a, b) ==
  LET q == AbsVal(a) \div AbsVal(b)
  IN  IF (a < 0) = (b < 0) THEN q ELSE -q

(***************************************************************************)
(* A float64 is an exact rational <<num, den>>, or an infinity <<num, 0>>  *)
(* or NaN <<0, 0>>.  Arithmetic on it is exact, unless the module Floats   *)
(* rounds it.                                                              *)
(***************************************************************************)
Archs == {"amd64", "arm64"}

(* amd64 answers MinInt for everything that does not fit; arm64 saturates  *)
(* and turns NaN into 0.                                                   *)
OutOfRange(arch, positive) ==
  IF arch = "arm64" /\ positive THEN MaxInt ELSE MinInt

NaNToInt(arch) == IF arch = "arm64" THEN 0 ELSE MinInt

FloatToInt(arch, f) ==
  LET n == Quo(f[1], f[2])
  IN  IF f[2] = 0
      THEN IF f[1] = 0 THEN NaNToInt(arch) ELSE OutOfRange(arch, f[1] > 0)
      ELSE IF n \in Int64 THEN n ELSE OutOfRange(arch, n > 0)
=============================================================================
