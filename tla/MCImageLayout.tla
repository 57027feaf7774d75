--------------------------- MODULE MCImageLayout ----------------------------
(* ImageLayout for TLC: three inodes of one size, or two of sizes around   *)
(* the boundaries of blocks and slots, in a new image and an extended one. *)
EXTENDS ImageLayout

Three == [start |-> 0, jobs |-> 3, nblocks |-> {0, 1}, isizes |-> {3}, idata |-> {0, 4},
          xsizes |-> {0}, blobs |-> {9}]
Sized(s, x, b) == [start |-> s, jobs |-> 2, nblocks |-> {0, 2}, isizes |-> {2, 5, 9},
                   idata |-> {0, 3, 7}, xsizes |-> x, blobs |-> b]
MCPlans == {Three, Sized(0, {0, 3}, {9}), Sized(2, {3}, {0})}
=============================================================================
