----------------------------- MODULE MCDreaming ------------------------------
(* Dreaming for TLC: what a replay may come to.                              *)
EXTENDS Dreaming

\* Nothing attained; and scores of either sign, the better one at a higher price.
MCReplays ==
  {[attainment |-> NoScore, revealed |-> 0, rounds |-> 1],
   [attainment |-> -1,      revealed |-> 1, rounds |-> 1],
   [attainment |-> 2,       revealed |-> 2, rounds |-> 2]}

=============================================================================
