--------------------------- MODULE MCSnapshotStore ---------------------------
(* SnapshotStore for TLC.                                                    *)
EXTENDS SnapshotStore, TLC

\* Workers, paths and contents are interchangeable.
MCSymmetry == Permutations(Workers) \cup Permutations(Parts) \cup Permutations(Values)

=============================================================================
