---------------------------- MODULE MCAgentJobs ----------------------------
(* Instances of AgentJobs for TLC.                                         *)
EXTENDS AgentJobs

CONSTANTS w1, w2, s1
=============================================================================
