----------------------------- MODULE MCHttpEngine -----------------------------
(* HttpEngine on small sets of model values.                               *)
EXTENDS HttpEngine, TLC

Symmetry ==
  Permutations(Transfers) \cup Permutations(Responses) \cup Permutations(Hosts)
===============================================================================
