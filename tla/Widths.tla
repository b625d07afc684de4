------------------------------- MODULE Widths -------------------------------
(* The largest value of an int64_t, a parameter: its real value is beyond      *)
(* TLC's integers, and nothing but its being a bound matters.                  *)
EXTENDS Integers

CONSTANT INT64_MAX
ASSUME INT64_MAXAssumption == INT64_MAX \in Nat \ {0}
=============================================================================
