---------------------------- MODULE MCRemoteTask ----------------------------
(* Instances of RemoteTask for TLC.                                         *)
EXTENDS RemoteTask, TLC

CONSTANTS t1, t2

TaskSymmetry == Permutations(Tasks)
=============================================================================
