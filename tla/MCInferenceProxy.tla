--------------------------- MODULE MCInferenceProxy ---------------------------
(* Two calls of one agent, one of them a stream, and one of another. *)
EXTENDS InferenceProxy, TLC

CONSTANTS ann, bob, a1, a2, b1

MCAgents == {ann, bob}
MCCalls == {a1, a2, b1}
MCAgentOf == [c \in MCCalls |-> IF c = b1 THEN bob ELSE ann]
MCStreams == {a1}
MCSizes == {1, 2}
=============================================================================
