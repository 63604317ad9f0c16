---------------------------- MODULE MCGatedMiner ----------------------------
(* Instances of GatedMiner for TLC: two oracle slots, a chain of a few blocks. *)
EXTENDS GatedMiner, TLC

CONSTANTS feed, aave

MCSlots == {feed, aave}
Symmetry == Permutations(MCSlots)

WriteFaults == {"read", "commit", "apply"}
CommitFaults == {"commit"}
ApplyFaults == {"apply"}
MineFaults == {"apply", "mine"}
=============================================================================
