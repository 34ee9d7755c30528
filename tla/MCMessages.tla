------------------------------ MODULE MCMessages ------------------------------
(* Messages on a small instance.                                           *)
EXTENDS Messages, TLC

\* The messages are interchangeable, and so are the iterators of a kind.
Symmetry == Permutations(Objects) \cup Permutations(Readers) \cup Permutations(Writers)

=============================================================================
