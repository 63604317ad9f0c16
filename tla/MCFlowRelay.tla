----------------------------- MODULE MCFlowRelay -----------------------------
(* Two wallets, each with up to two orders of a block. *)
EXTENDS FlowRelay, TLC

CONSTANTS w1, w2

MCWallets == {w1, w2}
OneWallet == {w1}
OneStuck == {w1}
=============================================================================
