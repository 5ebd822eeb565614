--------------------------- MODULE MCActionReview ---------------------------
(* Small instances of ActionReview for TLC.                                *)
EXTENDS ActionReview, TLC

Symmetry == Permutations(Turns) \cup Permutations(Reviews)
            \cup Permutations(Files)

=============================================================================
