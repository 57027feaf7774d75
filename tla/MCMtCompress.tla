---------------------------- MODULE MCMtCompress ----------------------------
(* Three files of two, one and two segments, no two of one file alike. *)
EXTENDS MtCompress

MCSegs == <<2, 1, 2>>
MCBlks == << <<1, 2>>, <<0>>, <<2, 1>> >>
=============================================================================
