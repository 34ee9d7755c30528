----------------------------- MODULE MCConnection -----------------------------
(* Connection on a small instance.                                         *)
EXTENDS Connection, TLC

\* The wrappers are interchangeable, and so are the connections of a kind.
Symmetry == Permutations(Wrappers) \cup Permutations(Shared) \cup Permutations(Private)

=============================================================================
