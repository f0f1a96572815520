---------------------------- MODULE MCHandshake ----------------------------
(* Instances of Handshake for TLC.                                          *)
EXTENDS Handshake, TLC

CONSTANTS s1, s2, s3

SocketSymmetry == Permutations(Sockets)
=============================================================================
