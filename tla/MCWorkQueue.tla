---------------------------- MODULE MCWorkQueue -----------------------------
(* WorkQueue for TLC: model values for workers, producers and works. *)
EXTENDS WorkQueue
=============================================================================
