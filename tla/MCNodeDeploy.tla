---------------------------- MODULE MCNodeDeploy ----------------------------
(* Small instances of NodeDeploy for TLC.                                    *)
EXTENDS NodeDeploy, TLC

Symmetry == Permutations(Callers)
=============================================================================
