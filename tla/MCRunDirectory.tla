---------------------------- MODULE MCRunDirectory ---------------------------
(* RunDirectory for TLC: what the processes, trees and policies are.         *)
EXTENDS RunDirectory, TLC

\* Processes and trees are interchangeable: nothing orders or computes with them.
MCSymmetry == Permutations(Procs) \cup Permutations(Trees)

=============================================================================
