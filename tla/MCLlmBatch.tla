----------------------------- MODULE MCLlmBatch -----------------------------
(* LlmBatch on small instances.                                            *)
EXTENDS LlmBatch

CONSTANTS a, b
=============================================================================
