---- MODULE MCEngine ----
(* Engine for TLC: calls are interchangeable in safety runs. *)
EXTENDS Engine, TLC

Symmetry == Permutations(Call)

====
