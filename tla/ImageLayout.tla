---------------------------- MODULE ImageLayout -----------------------------
(***************************************************************************)
(* How mkfs lays an image out: the users of the buffer manager in the      *)
(* order mkfs/main.c runs them.  The super block is reserved, the device   *)
(* table and the shared xattrs are placed; then the jobs of the dfops      *)
(* worker place data, inodes and inline tails one after another            *)
(* (lib/inode.c, lib/compress.c); then the blobs are appended, everything  *)
(* is flushed and the super block is written.                              *)
(*                                                                         *)
(* One thread at a time uses the manager (MkfsBuild), so a job is a step.  *)
(***************************************************************************)
EXTENDS BufMgr

CONSTANTS
  SbSize,      \* EROFS_SUPER_END
  MallocJunk,  \* what malloc may leave in metablkcnt
  Plans        \* what an image may be made of: records of
               \*   start: 0 for a new image, the size of the old one to extend it
               \*   jobs: bound on the inodes placed
               \*   nblocks: numbers of full data blocks an inode may have
               \*   isizes: sizes of inodes, xattrs and extents included
               \*   idata: sizes of tail-end data, below BlkSize
               \*   xsizes: sizes of the shared xattr table, 0 for none
               \*   blobs: sizes of the blob data, 0 for none

ASSUME LayoutAssumption ==
  /\ SbSize \in Nat \ {0}
  /\ MallocJunk \subseteq Nat
  /\ Plans \subseteq [start : Nat, jobs : Nat, nblocks : SUBSET Nat,
                      isizes : SUBSET (Nat \ {0}), idata : SUBSET (0..(BlkSize - 1)),
                      xsizes : SUBSET Nat, blobs : SUBSET Nat]

VARIABLES
  plan,     \* what this image is made of
  junk,     \* what malloc left in metablkcnt
  m,        \* the buffer manager
  phase,    \* how far main() is
  jobs,     \* inodes placed so far; the first is the root directory
  pend,     \* directories placed and not written: number, tail, lazy_tailblock
  nids,     \* the addresses erofs_lookupnid gave out
  written,  \* what was written to the image: key and extent
  nblocks   \* the size the super block records

vars == <<plan, junk, m, phase, jobs, pend, nids, written, nblocks>>

Phases == {"sb", "devt", "xattr", "build", "blobs", "flush", "writesb", "done"}

(* The extent of a bh in the image. *)
Extent(s, key) ==
  LET id == BlockOf(s, key) IN
    [key |-> key, lo |-> Btell(s, key),
     hi |-> Btell(s, key) + s.bb[id].bhs[BhNr(s, key)].len]

SetOp(s, key, op) == [s EXCEPT !.bb[BlockOf(s, key)].bhs[BhNr(s, key)].op = op]
HasBh(s, key) == \E id \in Ids(s) : \E n \in DOMAIN s.bb[id].bhs :
                    s.bb[id].bhs[n].key = key

(* The names of the bhs: one super block, device table, xattr table and    *)
(* blob, and those of every inode.                                         *)
Sb == <<"sb", 0>>
Devt == <<"devt", 0>>
Xattr == <<"xattr", 0>>
Blob == <<"blob", 0>>
Inode(j) == <<"inode", j>>
Inline(j) == <<"inline", j>>
Data(j) == <<"data", j>>

(* A call that must not fail, and an allocation that is mapped at once.    *)
(* From here on an operator on the manager is the set of its outcomes, of  *)
(* which there is one.                                                     *)
Must(r) == Bug(r.m, r.err # "ok")
Alloc(s, what, size, inl, key) == {Must(r) : r \in {Balloc(s, what, size, inl, key)}}
AllocMap(s, what, size, key) == {Map(s1, key) : s1 \in Alloc(s, what, size, 0, key)}

(* What is written and dropped. *)
WriteAndDrop(s, w, key) ==
  [m |-> Bdrop(s, key, FALSE),
   w |-> w \cup {x \in {Extent(s, key)} : x.lo < x.hi}]

Init ==
  /\ plan \in Plans /\ junk \in MallocJunk
  /\ m = BufferInit(plan.start, junk)
  /\ phase = IF plan.start = 0 THEN "sb" ELSE "devt"
  /\ jobs = 0
  /\ pend = {}
  /\ nids = {}
  /\ written = {}
  /\ nblocks = 0
-----------------------------------------------------------------------------
(* erofs_reserve_sb: "make sure that the super block should be the very    *)
(* first blocks".                                                          *)
ReserveSb ==
  /\ phase = "sb"
  /\ \E s1 \in Alloc(m, "META", 0, 0, Sb) :
     \E s2 \in {Map(Must(Balloon(s1, Sb, SbSize)), Sb)} :
       m' = Bug(s2, Btell(s2, Sb) # 0)
  /\ phase' = "devt"
  /\ UNCHANGED <<plan, junk, jobs, pend, nids, written, nblocks>>

(* erofs_mkfs_init_devices: the device table, kept until the blobs are     *)
(* dumped.                                                                 *)
InitDevices ==
  /\ phase = "devt"
  /\ \/ UNCHANGED m
     \/ m' \in AllocMap(m, "DEVT", DevtSlot, Devt)
  /\ phase' = "xattr"
  /\ UNCHANGED <<plan, junk, jobs, pend, nids, written, nblocks>>

(* erofs_build_shared_xattrs_from_path *)
SharedXattrs ==
  /\ phase = "xattr"
  /\ \E size \in plan.xsizes :
       IF size = 0 THEN UNCHANGED <<m, written>>
       ELSE \E s \in AllocMap(m, "XATTR", size, Xattr) :
            \E r \in {WriteAndDrop(s, {}, Xattr)} :
              m' = r.m /\ written' = r.w
  /\ phase' = "build"
  /\ UNCHANGED <<plan, junk, jobs, pend, nids, nblocks>>
-----------------------------------------------------------------------------
(* The parts of the worker's jobs *)

(* erofs_allocate_inode_bh_data *)
AllocData(s, j, what, n) ==
  IF n = 0 THEN {s} ELSE AllocMap(s, what, n * BlkSize, Data(j))

(* "expend a block as the tail block (should be successful)" *)
TailBlock(s, j) == Must(Balloon(s, Data(j), BlkSize))

(* erofs_prepare_inode_buffer: the inode with its tail-end data behind it, *)
(* or, when that must not or cannot be, with a block of its own for the    *)
(* tail: right after the data if there is some, else later.                *)
NoInline(s, j, isize, idata) ==
  LET tail == idata > 0 /\ HasBh(s, Data(j))
  IN UNION {{[m |-> s2, lazy |-> idata > 0 /\ ~tail] :
               s2 \in Alloc(s1, "INODE", isize, 0, Inode(j))} :
                 s1 \in {IF tail THEN TailBlock(s, j) ELSE s}}

WithInline(s, j, idata) ==
  {[m |-> IF idata = 0 THEN s ELSE Must(Battach(s, Inode(j), "META", idata, Inline(j))),
    lazy |-> FALSE]}

PrepareInode(s, j, isize, idata, inlinable) ==
  {[p EXCEPT !.m = SetOp(@, Inode(j), "write")] :
     p \in UNION {IF ~inlinable \/ r.err = "ENOSPC"
                  THEN NoInline(s, j, isize, idata)
                  ELSE UNION {WithInline(s1, j, idata) : s1 \in {Must(r)}} :
                    r \in {Balloc(s, "INODE", isize, idata, Inode(j))}}}

(* erofs_write_tail_end: inline data waits for the flush; else the tail    *)
(* goes to the block set aside for it, or to a new one.  The data is       *)
(* complete then.                                                          *)
PlaceTail(s, j, idata, lazy) ==
  CASE idata = 0 -> {s}
    [] idata > 0 /\ HasBh(s, Inline(j)) -> {SetOp(s, Inline(j), "write")}
    [] idata > 0 /\ ~HasBh(s, Inline(j)) /\ ~HasBh(s, Data(j)) ->
         AllocMap(s, "DATA", BlkSize, Data(j))
    [] idata > 0 /\ ~HasBh(s, Inline(j)) /\ HasBh(s, Data(j)) ->
         {IF lazy THEN TailBlock(s, j) ELSE s}

WriteTailEnd(s, w, j, idata, lazy) ==
  {IF HasBh(s1, Data(j)) THEN WriteAndDrop(s1, w, Data(j)) ELSE [m |-> s1, w |-> w] :
     s1 \in PlaceTail(s, j, idata, lazy)}

(* erofs_write_compressed_file: an empty DATA buffer is mapped to know the *)
(* address, n blocks are written behind it, and it is ballooned to them.   *)
(* Without tail-end data it is dropped at once.                            *)
Compressed(s, j, n, idata) ==
  UNION {{IF idata = 0 THEN WriteAndDrop(s2, {}, Data(j)) ELSE [m |-> s2, w |-> {}] :
            s2 \in {IF n = 0 THEN s1 ELSE Must(Balloon(s1, Data(j), n * BlkSize))}} :
              s1 \in AllocMap(s, "DATA", 0, Data(j))}

(* Compression saved no space: the buffer, still empty, is revoked.        *)
Revoked(s, j) == {Bdrop(s1, Data(j), TRUE) : s1 \in AllocMap(s, "DATA", 0, Data(j))}

FileData(s, j, n, idata, how) ==
  CASE how = "plain"      -> {[m |-> s1, w |-> {}] : s1 \in AllocData(s, j, "DATA", n)}
    [] how = "compressed" -> Compressed(s, j, n, idata)
    [] how = "revoked"    ->
         UNION {{[m |-> s2, w |-> {}] : s2 \in AllocData(s1, j, "DATA", n)} :
                  s1 \in Revoked(s, j)}
-----------------------------------------------------------------------------
(* EROFS_MKFS_JOB_NDIR: erofs_mkfs_handle_nondirectory, with the data as   *)
(* it is, compressed, or as it is after compression was given up.          *)
FileJob ==
  /\ phase = "build"
  /\ jobs \in 1..(plan.jobs - 1)
  /\ \E n \in plan.nblocks, isize \in plan.isizes, idata \in plan.idata, inlinable \in BOOLEAN,
        how \in {"plain", "compressed", "revoked"} :
       \E d \in FileData(m, jobs + 1, n, idata, how) :
       \E p \in PrepareInode(d.m, jobs + 1, isize, idata, inlinable) :
       \E t \in WriteTailEnd(p.m, d.w, jobs + 1, idata, p.lazy) :
         /\ m' = t.m
         /\ written' = written \cup t.w
  /\ jobs' = jobs + 1
  /\ UNCHANGED <<plan, junk, phase, pend, nids, nblocks>>

Nid(s, j) == [inode |-> j, addr |-> Btell(s, Inode(j))]

(* EROFS_MKFS_JOB_DIR: the inode of a directory, before its data.  The     *)
(* root of a new image is given its nid at once (erofs_fixup_meta_blkaddr).*)
DirJob ==
  /\ phase = "build"
  /\ jobs < plan.jobs
  /\ \E isize \in plan.isizes, idata \in plan.idata, inlinable \in BOOLEAN :
       \E p \in PrepareInode(m, jobs + 1, isize, idata, inlinable) :
         /\ IF jobs = 0 /\ HasBh(m, Sb)
            THEN m' = Map(p.m, Inode(1)) /\ nids' = nids \cup {Nid(m', 1)}
            ELSE m' = p.m /\ UNCHANGED nids
         /\ pend' = pend \cup {[dir |-> jobs + 1, idata |-> idata, lazy |-> p.lazy]}
  /\ jobs' = jobs + 1
  /\ UNCHANGED <<plan, junk, phase, written, nblocks>>

(* EROFS_MKFS_JOB_DIR_BH: the data of a directory.  Its blocks are placed, *)
(* its entries (itself and some inode c) resolved, and the tail written.   *)
DirBhJob ==
  /\ phase = "build"
  /\ \E p \in pend, n \in plan.nblocks, c \in 1..jobs :
       \E s1 \in AllocData(m, p.dir, "DIRA", n) :
       \E s2 \in {Map(s1, Inode(p.dir))} :
       \E s3 \in {Map(s2, Inode(c))} :
       \E t \in WriteTailEnd(s3, {}, p.dir, p.idata, p.lazy) :
         /\ m' = t.m
         /\ nids' = nids \cup {Nid(s3, p.dir), Nid(s3, c)}
         /\ written' = written \cup t.w
         /\ pend' = pend \ {p}
  /\ UNCHANGED <<plan, junk, phase, jobs, nblocks>>

BuildDone ==
  /\ phase = "build"
  /\ jobs > 0 /\ pend = {}
  /\ phase' = "blobs"
  /\ UNCHANGED <<plan, junk, m, jobs, pend, nids, written, nblocks>>
-----------------------------------------------------------------------------
(* erofs_mkfs_dump_blobs: the device table is written, or the blob's data  *)
(* is appended to the image.                                               *)
DumpBlobs ==
  /\ phase = "blobs"
  /\ IF HasBh(m, Devt)
     THEN \E s \in {MapBb(m, HEAD)} :
          \E r \in {WriteAndDrop(s, written, Devt)} :
            m' = r.m /\ written' = r.w
     ELSE \E size \in plan.blobs :
            IF size = 0 THEN UNCHANGED <<m, written>>
            ELSE \E s \in AllocMap(m, "DATA", size, Blob) :
                 \E r \in {WriteAndDrop(s, written, Blob)} :
                   m' = r.m /\ written' = r.w
  /\ phase' = "flush"
  /\ UNCHANGED <<plan, junk, jobs, pend, nids, nblocks>>

(* What a flush from s to s2 writes: the bhs that are ready. *)
Flushed(s, s2) ==
  UNION {{[key |-> h.key,
           lo |-> s2.bb[id].blkaddr * BlkSize + h.off,
           hi |-> s2.bb[id].blkaddr * BlkSize + h.off + h.len] :
             h \in {x \in Range(s.bb[id].bhs) : x.op = "write"}} : id \in Ids(s)}

(* "flush all buffers except for the superblock" *)
FlushAll ==
  /\ phase = "flush"
  /\ m' = Bflush(m)
  /\ written' = written \cup Flushed(m, m')
  /\ phase' = "writesb"
  /\ UNCHANGED <<plan, junk, jobs, pend, nids, nblocks>>

(* erofs_writesb, then what is left is flushed. *)
WriteSb ==
  /\ phase = "writesb"
  /\ \E s \in {MapBb(m, HEAD)} :
     \E r \in {IF HasBh(s, Sb) THEN WriteAndDrop(s, written, Sb)
               ELSE [m |-> s, w |-> written]} :
       /\ nblocks' = s.tail_blkaddr
       /\ m' = Bflush(r.m)
       /\ written' = r.w \cup Flushed(r.m, m')
  /\ phase' = "done"
  /\ UNCHANGED <<plan, junk, jobs, pend, nids>>

Next == \/ ReserveSb \/ InitDevices \/ SharedXattrs \/ FileJob \/ DirJob
        \/ DirBhJob \/ BuildDone \/ DumpBlobs \/ FlushAll \/ WriteSb

Spec == Init /\ [][Next]_vars
-----------------------------------------------------------------------------
(* The blocks of every bb, on the list or gone. *)
BlocksOf(id) == IF m.bb[id].blkaddr = NULL_ADDR THEN {}
                ELSE m.bb[id].blkaddr..(EndBlk(m, id) - 1)

(* "the next buffer block should be NULL_ADDR all the time": the mapped    *)
(* bbs are the first of the list, their addresses ascend, and last_mapped  *)
(* is the last of them.                                                    *)
MappedPrefix ==
  \A p \in 1..Len(m.list) :
    LET b == m.bb[m.list[p]]
        last == IF m.last_mapped = HEAD THEN 0 ELSE PosOf(m, m.last_mapped)
    IN /\ (b.blkaddr # NULL_ADDR) <=> (p <= last)
       /\ p > 1 /\ b.blkaddr # NULL_ADDR => EndBlk(m, m.list[p - 1]) <= b.blkaddr

(* Every block from the first one to the end of the image belongs to one   *)
(* bb: no two of them share a block, and none is lost, when a bb grows, is *)
(* dropped or is revoked; and erofs_total_metablocks counts those that do  *)
(* not hold data, on top of what malloc left in the counter.               *)
BlocksTiled ==
  /\ phase = "done" =>
       m.metablkcnt - junk =
         Cardinality(UNION {BlocksOf(id) : id \in {i \in 1..m.nr : m.bb[i].type = "META"}})
  /\ \A i, k \in 1..m.nr : i # k => BlocksOf(i) \cap BlocksOf(k) = {}
  /\ UNION {BlocksOf(id) : id \in 1..m.nr} = plan.start..(m.tail_blkaddr - 1)

(* The buckets hold exactly the mapped bbs of the list, each under its     *)
(* type and fill level.                                                    *)
BucketsExact ==
  \A t \in {"DATA", "META"} : \A o \in 0..(BlkSize - 1) :
    /\ IsInjective(m.buckets[t][o])
    /\ Range(m.buckets[t][o]) =
         {id \in Ids(m) : /\ m.bb[id].type = t /\ m.bb[id].blkaddr # NULL_ADDR
                          /\ m.bb[id].off % BlkSize = o}

(* What the searches of the buffer manager rely on agrees with the list,   *)
(* no DBG_BUGON fires, and what should be successful is.                   *)
ListExact == MappedPrefix /\ BucketsExact /\ ~m.bug

(* Inline data is behind its inode, in the block the inode ends in.        *)
InlineInBlock ==
  \A x, y \in written : x.key[1] = "inode" /\ y.key = Inline(x.key[2]) =>
    /\ y.lo = x.hi
    /\ (y.lo \div BlkSize) = ((y.hi - 1) \div BlkSize)

(* What is written to the image does not overlap, inline data is where the *)
(* reader looks for it, and all of it is in the size the super block       *)
(* records, which is final.                                                *)
WritesDisjoint ==
  /\ InlineInBlock
  /\ \A x, y \in written : x # y => x.hi <= y.lo \/ y.hi <= x.lo
  /\ phase = "done" => /\ m.tail_blkaddr = nblocks
                       /\ \A x \in written : x.hi <= nblocks * BlkSize

(* An inode is written where its nid says, and everything is written.      *)
NidsHold ==
  phase = "done" =>
    /\ m.list = << >>
    /\ \A j \in 1..jobs : \E x \in written : x.key = Inode(j)
    /\ \A n \in nids : \E x \in written : x.key = Inode(n.inode) /\ x.lo = n.addr
=============================================================================
