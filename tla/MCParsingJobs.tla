--------------------------- MODULE MCParsingJobs ---------------------------
(* Instances of ParsingJobs for TLC.                                       *)
EXTENDS ParsingJobs, TLC

CONSTANTS w1, w2, u1, u2, i1, i2

Symmetry == Permutations(Workers)

\* Two requests, to one investigation or to an investigation each.
SameInvestigation  == [u \in Uploads |-> i1]
OwnInvestigation   == [u \in Uploads |-> IF u = u1 THEN i1 ELSE i2]
=============================================================================
