------------------------------- MODULE MCFuzzLoop -------------------------------
(* Constant values for model checking FuzzLoop.                             *)
EXTENDS FuzzLoop

\* 10 * ln(1 + x), rounded: strictly increasing, as energy_bonus() needs.
MCLog1p == [x \in 0..4 |-> <<0, 7, 11, 14, 16>>[x + 1]]
================================================================================
