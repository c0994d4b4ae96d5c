---------------------------- MODULE MCHelmTasks ----------------------------
(* Small instances of HelmTasks for TLC.                                    *)
EXTENDS HelmTasks, TLC

Symmetry == Permutations(Releases) \cup Permutations(Requests)
============================================================================
