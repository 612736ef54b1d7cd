---------------------------- MODULE MCPolicyLoop -----------------------------
(* PolicyLoop for TLC.                                                       *)
EXTENDS PolicyLoop

\* A lower-is-better task records negative canonical scores.
MCScores == {-1, 1}

=============================================================================
