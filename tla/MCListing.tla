------------------------------ MODULE MCListing ------------------------------
(* Listing on four records and two writers, with 3-bit words. *)
EXTENDS Listing, TLC

Symmetry == Permutations(Ids) \cup Permutations(Writers)
=============================================================================
