------------------------------ MODULE MCReplicatedRun ------------------------------
(* Instances of ReplicatedRun for TLC.                                        *)
EXTENDS ReplicatedRun
==============================================================================
