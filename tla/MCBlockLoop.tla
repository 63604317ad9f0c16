----------------------------- MODULE MCBlockLoop -----------------------------
(* Instances of BlockLoop for TLC. *)
EXTENDS BlockLoop, TLC

CONSTANTS feed, aave

MCSlots == {feed, aave}

NoFaults == {}
=============================================================================
