--------------------------------- MODULE MCLog ---------------------------------
(* Log on small sets of model values. *)
EXTENDS Log, TLC

Symmetry == Permutations(Impls) \cup Permutations(LogImpls) \cup Permutations(Writers)
================================================================================
