------------------------------ MODULE MCZFile -------------------------------
(* Small files with all options, and longer ones whose indexes need packs  *)
(* of sixteen.                                                             *)
EXTENDS ZFile

Count(n) == [k \in 1 .. n |-> k]
Repeat(n, p) == [k \in 1 .. n |-> ((k - 1) % p) + 1]
From(n, at, s) == [k \in 1 .. n |-> IF k < at THEN 20 ELSE s + k - at]

Base == [files |-> <<Count(10)>>, pcl |-> 8, pclp |-> 8, legacy |-> FALSE, ztail |-> FALSE,
         frags |-> FALSE, all |-> FALSE, dedupe |-> FALSE, mt |-> FALSE, seg |-> 8,
         out |-> {<<9, 4>>, <<11, 8>>, <<10, 6>>, <<6, 3>>, <<3, 3>>}, maxraw |-> 2, mpos |-> 0]

Legacy(c) == [c EXCEPT !.legacy = TRUE]
Ztail(c) == [c EXCEPT !.ztail = TRUE]
Threads(c) == [c EXCEPT !.mt = TRUE, !.files = <<Count(19)>>]
Small == [Base EXCEPT !.pcl = 4, !.pclp = 4]
Basic == {Base, Small, [Base EXCEPT !.files = <<Count(13)>>],
          [Base EXCEPT !.files = <<Count(40)>>, !.legacy = TRUE, !.out = {<<22, 8>>, <<15, 8>>}]}

(* Deduplication turns off threads. *)
Twice == [Base EXCEPT !.dedupe = TRUE, !.files = <<Count(11), Count(10)>>]
Shift == [Twice EXCEPT !.files = <<Count(12), From(12, 4, 2)>>]
Self == [Twice EXCEPT !.files = <<Repeat(14, 5)>>]

Frag == [Base EXCEPT !.frags = TRUE, !.out = {<<9, 4>>, <<10, 6>>, <<6, 3>>},
                     !.maxraw = 1, !.files = <<Count(10), From(9, 3, 4), From(13, 11, 8)>>]
All == [Frag EXCEPT !.all = TRUE]
AllMt == [All EXCEPT !.mt = TRUE]

(* Nineteen clusters: packs of sixteen at three places of the inode. *)
Long == [Base EXCEPT !.files = <<Count(76)>>, !.out = {<<9, 8>>, <<15, 8>>}, !.maxraw = 1]

(* Sixteen clusters in one pack, and a tail of three bytes behind the      *)
(* first byte of the last: it may be taken back from the inode.            *)
Sixteen == [Base EXCEPT !.files = <<Count(64)>>, !.out = {<<12, 8>>, <<13, 8>>, <<3, 2>>},
                        !.maxraw = 0, !.ztail = TRUE]

MCConfigs ==
    Basic \cup {Legacy(c) : c \in Basic} \cup {Ztail(c) : c \in Basic}
    \cup {Threads(c) : c \in {Base, Legacy(Base), Ztail(Base), Small}}
    \cup {Twice, Shift, Self, Ztail(Twice), Ztail(Shift), Legacy(Shift)}
    \cup {[c EXCEPT !.mpos = q] : c \in {Long, Ztail(Long)}, q \in {0, 8, 24}}
    \cup {[Long EXCEPT !.pcl = 4, !.out = {<<9, 4>>, <<15, 4>>}]}
    \cup {Frag, All, AllMt, [Frag EXCEPT !.dedupe = TRUE], Legacy(Frag)}
    \cup {Sixteen, Ztail(Frag), Ztail(All), Ztail(AllMt)}
=============================================================================
