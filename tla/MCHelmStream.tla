---------------------------- MODULE MCHelmStream ----------------------------
(* Small instances of HelmStream for TLC.                                    *)
EXTENDS HelmStream
=============================================================================
