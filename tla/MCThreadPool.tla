---------------------------- MODULE MCThreadPool ----------------------------
(* A pool of three threads, of which the limit allows two. *)
EXTENDS ThreadPool
=============================================================================
