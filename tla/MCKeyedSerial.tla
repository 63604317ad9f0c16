---------------------------- MODULE MCKeyedSerial ----------------------------
(* Four calls, three of them for one wallet. *)
EXTENDS KeyedSerial, TLC

CONSTANTS a1, a2, a3, b1, walletA, walletB

MCTasks == {a1, a2, a3, b1}
MCKeys == {walletA, walletB}
MCKeyOf == [t \in MCTasks |-> IF t = b1 THEN walletB ELSE walletA]
=============================================================================
