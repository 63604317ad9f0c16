--------------------------- MODULE MCSimpleLending ---------------------------
(* Two users, small amounts, a price that moves and a rate model that answers. *)
EXTENDS SimpleLending, TLC

CONSTANTS u1, u2

MCUsers == {u1, u2}
MCSymmetry == Permutations(MCUsers)
=============================================================================
