------------------------------ MODULE MCNomap -------------------------------
(* Nomap with interchangeable maps and keys: a small instance for TLC. *)
EXTENDS Nomap

Symmetry == Permutations(Maps) \cup Permutations(Keys)

=============================================================================
