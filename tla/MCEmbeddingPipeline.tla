------------------------ MODULE MCEmbeddingPipeline ------------------------
(* Instances of EmbeddingPipeline for TLC.                                 *)
EXTENDS EmbeddingPipeline, TLC

CONSTANTS w1, w2, a1, a2, i1, i2

Symmetry == Permutations(Workers)

\* Two artifacts of one investigation, or of an investigation each.
SameInvestigation == [a \in Artifacts |-> i1]
OwnInvestigation  == [a \in Artifacts |-> IF a = a1 THEN i1 ELSE i2]
=============================================================================
