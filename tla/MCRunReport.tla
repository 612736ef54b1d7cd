----------------------------- MODULE MCRunReport -----------------------------
(* RunReport for TLC.                                                        *)
EXTENDS RunReport, TLC

MCSymmetry == Permutations(Procs)

=============================================================================
