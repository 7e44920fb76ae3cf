------------------------------ MODULE MCTimeline ------------------------------
\* The instance for TLC: an agent, a timeline question and a user of one
\* investigation with two events.
EXTENDS Timeline
=============================================================================
