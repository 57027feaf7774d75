---------------------------- MODULE MCDfopsRing -----------------------------
(* DfopsRing for TLC: the instances are in the .cfg files. *)
EXTENDS DfopsRing
=============================================================================
