------------------------------- MODULE MakeImage ----------------------------
(***************************************************************************)
(* An image is written inode by inode from a tree of inodes, and may be    *)
(* damaged in one place before it is read (modules Fsck and Fuse).         *)
(*                                                                         *)
(* A mode is a set of permission bits.  Failures of malloc and of the I/O  *)
(* below erofs_dev_read are left out.                                      *)
(***************************************************************************)
EXTENDS Image

CONSTANTS
    Configs,     \* what is built and read: see MCReaders
    Harm(_)      \* the images one fault makes of an image

VARIABLES
    cf, pc,
    im,        \* the image: super block, inodes, blocks, inline tails, blob
    nx,        \* inode to be written next
    hurt       \* ghost: the image was damaged

mkfsVars == <<cf, pc, im, nx, hurt>>

Nid(i) == i * (BlkSz \div CompactSize)

-----------------------------------------------------------------------------
(* Writing the image.                                                      *)

EmptyImage(c) == [sb |-> [root |-> Nid(1), packed |-> IF c.packed = 0 THEN 0 ELSE Nid(c.packed), build |-> c.mk.build,
                          valid |-> TRUE, sum |-> c.sum, sumok |-> TRUE, devs |-> 0],
                  ino |-> <<>>, blk |-> <<>>, tail |-> <<>>, blob |-> BlobInit(c.mk.chunkblks)]

mkfsInit == cf \in Configs /\ pc = "mkfs" /\ nx = Len(cf.tree) /\ im = EmptyImage(cf) /\ hurt = FALSE

(* Dentries of a directory, with those of erofs_init_empty_dir.  A         *)
(* directory of a base image was written under the parent it had there.    *)
Dentries(tree, i) ==
    LET t == tree[i]
    IN  {[name |-> n, nid |-> Nid(t.ents[n]), type |-> FT[tree[t.ents[n]].kind]] : n \in DOMAIN t.ents}
        \cup {[name |-> DotName, nid |-> Nid(i), type |-> FT.dir],
              [name |-> DotDot, nid |-> Nid(IF t.base # 0 THEN t.base ELSE t.parent), type |-> FT.dir]}
Links(tree, i) ==
    IF tree[i].kind = "dir" THEN 2 + Cardinality({d \in DOMAIN tree : tree[d].kind = "dir" /\ tree[d].parent = i /\ d # i})
    ELSE MapThenSumSet(LAMBDA d : Cardinality({n \in DOMAIN tree[d].ents : tree[d].ents[n] = i}), DOMAIN tree)

(* erofs_rebuild_inode_fix_pnid: ".." of a directory of the base image.    *)
(* The base image is one that mkfs made: the errors for what is not a      *)
(* directory or has no ".." are left out.                                  *)
FixBlock(m, vi, k, inl, b, pnid) ==
    LET hits == {j \in DOMAIN b.de :
                    NameAt(b, b.de[j].nameoff, NameLenAt(b, j - 1, FirstNameOff(b), Min({BlkSz, vi.size - k * BlkSz}))) = DotDot}
        de == [j \in DOMAIN b.de |-> IF j \in hits THEN [b.de[j] EXCEPT !.nid = pnid] ELSE b.de[j]]
        fixed == <<"dir", [b EXCEPT !.de = de]>>
    IN  IF inl THEN [m EXCEPT !.tail[vi.nid] = fixed] ELSE [m EXCEPT !.blk[vi.u + k] = fixed]
FixBlocks(m, vi, pnid) ==
    LET last == Blks(vi.size) - 1
        Inline(k) == vi.layout = "inline" /\ k = last
    IN  FoldLeft(LAMBDA x, k : FixBlock(x, vi, k, Inline(k), IF Inline(k) THEN x.tail[vi.nid][2] ELSE x.blk[vi.u + k][2], pnid),
                 m, [k \in 1 .. last + 1 |-> k - 1])
FixPnid_Skipped(m, nid, pnid) == m
FixPnid(m, nid, pnid) == FixBlocks(m, ReadInode(m, nid), pnid)

(* The data of an inode and the inode itself.  Tail-end data that are not  *)
(* inlined get a block behind the others.                                  *)
Laid(m, tree, i, mk, size, blocks, layout, chunked) ==
    LET t == tree[i]
        main == IF layout = "inline" THEN Front(blocks) ELSE blocks
        u == CASE t.kind \in Special -> EncodeDev(t.rdev)
               [] layout = "chunk" -> [format |-> "ok", cs |-> chunked.cs, index |-> chunked.index]
               [] layout = "compact" -> [ok |-> TRUE, data |-> AsRead(blocks)]
               [] OTHER -> IF main = <<>> THEN NullAddr ELSE Len(m.blk) + 1
    IN  [m EXCEPT !.ino = (Nid(i) :> IFlush(t, mk, size, Links(tree, i), u)) @@ @,
                  !.blk = IF layout \in {"plain", "inline"} /\ t.kind \notin Special THEN @ \o main ELSE @,
                  !.tail = IF layout = "inline" THEN (Nid(i) :> Last(blocks)) @@ @ ELSE @,
                  !.blob = IF layout = "chunk" THEN chunked.blob ELSE @]
PutData(m, tree, i, mk, size, blocks) ==
    Laid(m, tree, i, mk, size, blocks, LayoutOf(tree[i], mk, FillInode(tree[i], mk).isize, size),
         IF tree[i].data = "chunk" THEN WriteChunked(m.blob, blocks, size, mk.chunkblks) ELSE <<>>)
PutDir(m, tree, i, mk, sorted) ==
    FoldSet(LAMBDA d, x : FixPnid(x, Nid(d), Nid(i)),
            PutData(m, tree, i, mk, DirSize(sorted), DirBlocks(sorted)),
            {d \in {tree[i].ents[n] : n \in DOMAIN tree[i].ents} : tree[d].base # 0})
PutInode(m, tree, i, mk) ==
    IF tree[i].kind = "dir" THEN PutDir(m, tree, i, mk, SetToSortSeq(Dentries(tree, i), CompSubdir))
    ELSE PutData(m, tree, i, mk, tree[i].size, tree[i].blocks)

WriteInode ==
    /\ pc = "mkfs" /\ nx > 0
    /\ im' = PutInode(im, cf.tree, nx, cf.mk)
    /\ nx' = nx - 1
    /\ UNCHANGED <<cf, pc, hurt>>

(* The image is stored; one fault may change it. *)
Store ==
    /\ pc = "mkfs" /\ nx = 0
    /\ pc' = cf.tool
    /\ \/ im' = im /\ hurt' = FALSE
       \/ cf.hurt /\ im' \in Harm(im) \ {im} /\ hurt' = TRUE
    /\ UNCHANGED <<cf, nx>>
=============================================================================
