---------------------------- MODULE MCMapStream ----------------------------
(* Instances of MapStream for the model checker. *)
EXTENDS MapStream, TLC

Symmetry ==
    Permutations(Conn) \union Permutations(Location) \union Permutations(FilterKey)
=============================================================================
