--------------------------- MODULE MCMeshSessions ---------------------------
(* Small instances of MeshSessions for TLC.  Calls are alike, and no property *)
(* of this run is a liveness property.                                        *)
EXTENDS MeshSessions, TLC

CallSymmetry == Permutations(Calls)
=============================================================================
