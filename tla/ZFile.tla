------------------------------- MODULE ZFile --------------------------------
(***************************************************************************)
(* A compressed file from its bytes to its bytes: cut into extents by      *)
(* lib/compress.c, with dedupe (lib/dedupe.c), fragments                   *)
(* (lib/fragments.c) and inlined tails, indexed (ZIndex), committed or     *)
(* given up, and read again by lib/data.c and lib/decompress.c.            *)
(*                                                                         *)
(* Files are sequences of bytes.  The compressor is external: it may       *)
(* consume any number of bytes into any number of bytes a configuration    *)
(* offers.  A block of a physical cluster holds the bytes it decodes to    *)
(* and its place in the cluster; decoding needs the cluster as it was      *)
(* written.  Several threads compressing segments are the subject of       *)
(* MtCompress; here the segments of a file follow each other.              *)
(***************************************************************************)
EXTENDS ZIndex, TLC

CONSTANTS
    Configs,    \* records: the files and the options of mkfs
    TofLen,     \* EROFS_TOF_HASHLEN
    MaxSz,      \* EROFS_CONFIG_COMPR_MAX_SZ; the queue has twice this size
    ChunkSz     \* 16384, the step of the backward search in the packed file

ASSUME ZFileAssumption == MaxSz >= BlkSize /\ TofLen > 0 /\ ChunkSz > 0

VARIABLES
    cf,       \* the configuration of this build
    pc,
    fi,       \* number of the file; one more is the packed file
    ino,      \* struct erofs_inode of the file
    ic,       \* struct z_erofs_compress_ictx
    sc,       \* struct z_erofs_compress_sctx
    disk,     \* blocks from address 1 on
    tree,     \* dedupe_tree, the items in order of insertion
    sub,      \* dedupe_subtree: how many of them are not committed
    packed,   \* contents of the packed file
    frags,    \* dupli_frags
    done,     \* the inodes written so far
    bug       \* a DBG_BUGON was met

vars == <<cf, pc, fi, ino, ic, sc, disk, tree, sub, packed, frags, done, bug>>

QueueSz == 2 * MaxSz
Big == cf.pcl > BlkSize
Window == IF cf.dedupe THEN BlkSize ELSE 0
Data == IF ino.packed THEN packed ELSE cf.files[fi]

(* Bytes [from, to) of s, counted from 0. *)
Bytes(s, from, to) == SubSeq(s, from + 1, to)
Start == sc.rd - (sc.tail - sc.head)           \* file offset of ctx->head
Avail == sc.tail - sc.head

Extent(n, blks, addr, raw, inlined) ==
    [length |-> n, blks |-> blks, addr |-> addr, raw |-> raw, partial |-> FALSE,
     inlined |-> inlined]
Dummy == Extent(0, 0, 0, FALSE, FALSE)
NoPivot == Extent(-1, 0, 0, FALSE, FALSE)
NullAddr == -1

NewInode(isPacked, size) ==
    [packed |-> isPacked, size |-> size,
     layout |-> IF cf.legacy THEN "FULL" ELSE "COMPACT", twob |-> ~cf.legacy,
     big |-> Big, interlaced |-> cf.frags /\ ~cf.dedupe, mpos |-> cf.mpos,
     inline |-> FALSE, frag |-> FALSE, whole |-> FALSE, fragsize |-> 0, fragoff |-> 0,
     idata |-> <<>>, idataz |-> FALSE, idatasize |-> 0, tailraw |-> <<>>,
     idx |-> <<>>, packs |-> <<>>, ext |-> <<>>, addr |-> 0, blocks |-> 0]

NewSegment(seg, remaining, rd, addr) ==
    [seg |-> seg, remaining |-> remaining, rd |-> rd, addr |-> addr, head |-> 0, tail |-> 0,
     pcl |-> IF ino'.packed THEN cf.pclp ELSE cf.pcl, ofs |-> 0, pivot |-> Dummy,
     extents |-> <<>>, membuf |-> <<>>, raws |-> 0]

Init ==
    /\ cf \in Configs /\ pc = "begin" /\ fi = 1
    /\ ino = [packed |-> FALSE] /\ ic = [seg_num |-> 0] /\ sc = [seg |-> 0]
    /\ disk = <<>> /\ tree = <<>> /\ sub = 0 /\ packed = <<>> /\ frags = <<>>
    /\ done = <<>> /\ bug = FALSE

-----------------------------------------------------------------------------
(* Fragments. *)

CommonSuffix(a, b, max) ==
    CHOOSE i \in 0 .. max :
        /\ \A j \in 0 .. i - 1 : a[Len(a) - j] = b[Len(b) - j]
        /\ i = max \/ a[Len(a) - i] # b[Len(b) - i]

(* One tail compared with the end of the file: bytes in common. *)
TailMatch(item, d) == CommonSuffix(item.data, d, Min({Len(item.data), Len(d)}))

(* The step backwards in the packed file while whole chunks agree. *)
RECURSIVE Extend(_, _, _)
Extend(s, deduped, pos) ==
    LET sz == Min({pos, ChunkSz})
    IN  IF /\ deduped < Len(s) /\ pos > 0 /\ Len(s) - deduped - sz >= 0
           /\ Bytes(packed, pos - sz, pos) =
                Bytes(s, Len(s) - deduped - sz, Len(s) - deduped)
        THEN Extend(s, deduped + sz, pos - sz)
        ELSE [size |-> deduped, off |-> pos]

(* z_erofs_fragments_dedupe: the longest tail met first. *)
FindFragment(s) ==
    LET d == Bytes(s, Len(s) - Min({Len(s), MaxSz}), Len(s))
        hits == {k \in DOMAIN frags : TailMatch(frags[k], d) >= TofLen}
        best == Max({TailMatch(frags[k], d) : k \in hits})
        it == frags[Min({k \in hits : TailMatch(frags[k], d) = best})]
    IN  IF Len(s) <= TofLen \/ hits = {} THEN [size |-> 0, off |-> 0]
        ELSE IF best = Len(it.data) THEN Extend(s, best, it.pos)
        ELSE [size |-> best, off |-> it.pos + Len(it.data) - best]

(* z_erofs_fragments_dedupe_insert *)
InsertTail(d, pos) ==
    IF Len(d) <= TofLen THEN frags
    ELSE LET n == Min({Len(d), MaxSz})
         IN  Append(frags, [data |-> Bytes(d, Len(d) - n, Len(d)), pos |-> pos + Len(d) - n])

-----------------------------------------------------------------------------
(* Dedupe of extents. *)

CommonPrefix(a, b, max) ==
    CHOOSE i \in 0 .. max : /\ \A j \in 1 .. i : a[j] = b[j]
                            /\ i = max \/ a[i + 1] # b[i + 1]

(* What the window at file offset c matches before end: 0 or more bytes. *)
MatchAt(s, c, end) ==
    LET hits == {k \in DOMAIN tree : Bytes(tree[k].data, 0, Window) = Bytes(s, c, c + Window)}
        k == Min(hits)
        max == Min({end - c, tree[k].e.length})
    IN  IF hits = {} THEN [length |-> 0]
        ELSE LET n == CommonPrefix(Bytes(s, c, c + max), tree[k].data, max)
             IN  [tree[k].e EXCEPT !.length = n,
                                   !.partial = @ \/ n < tree[k].e.length]

(* z_erofs_dedupe_match moves backwards from cur until a match reaches it. *)
DedupeMatch(s, start, cur, end) ==
    LET hits == {c \in start .. Min({cur, end - Window}) : MatchAt(s, c, end).length > cur - c}
    IN  IF Window = 0 \/ hits = {} THEN [found |-> FALSE]
        ELSE [found |-> TRUE, cur |-> Max(hits), e |-> MatchAt(s, Max(hits), end)]

Inserted(e, d) ==
    /\ Window > 0 /\ e.length >= Window
    /\ \A k \in DOMAIN tree : Bytes(tree[k].data, 0, Window) # Bytes(d, 0, Window)

(* z_erofs_dedupe_commit(drop) *)
AfterDrop_Kept(t, n) == t
AfterDrop(t, n) == SubSeq(t, 1, Len(t) - n)

(* z_erofs_commit_extent *)
Commit(s, e) ==
    IF e.length <= 0 THEN s
    ELSE [s EXCEPT !.extents = Append(@, e), !.ofs = (@ + e.length) % BlkSize]

(* z_erofs_need_refill *)
Refill(s) == s.remaining > 0 /\ s.head >= MaxSz
Shifted(s) ==
    IF ~Refill(s) THEN s
    ELSE [s EXCEPT !.head = @ % BlkSize, !.tail = @ - RoundDown(s.head, BlkSize)]

(* How far before head a match may start: it shortens the pivot. *)
Backward(e) ==
    IF e.length <= BlkSize THEN 0 ELSE Min({e.length - BlkSize, sc.head})

(* Two index entries are needed to keep a count of several blocks. *)
TooShort_Never(e, ofs) == FALSE
TooShort(e, ofs) == e.blks > 1 /\ (ofs % BlkSize) + e.length < 2 * BlkSize

DedupeFound ==
    LET ei == sc.pivot
        m == DedupeMatch(Data, Start - Backward(ei), Start, sc.rd)
        delta == Start - m.cur
    IN  /\ ~ino.packed /\ m.found
        /\ ~TooShort(m.e, sc.ofs + ei.length - delta)
        /\ delta = 0 \/ ~TooShort([ei EXCEPT !.length = @ - delta], sc.ofs)

(* Blocks are no longer consecutive: compacted indexes cannot be used. *)
AfterMatch(i) == [i EXCEPT !.twob = FALSE, !.layout = "FULL"]

DedupeStep ==
    LET ei == sc.pivot
        m == DedupeMatch(Data, Start - Backward(ei), Start, sc.rd)
        delta == Start - m.cur
        short == IF delta = 0 THEN ei ELSE [ei EXCEPT !.length = @ - delta, !.partial = TRUE]
        s == [Commit(sc, short) EXCEPT !.pivot = m.e, !.head = @ + m.e.length - delta]
    IN  /\ pc = "loop" /\ Avail > 0 /\ sc.pivot # NoPivot /\ DedupeFound
        /\ ino' = AfterMatch(ino)
        /\ sc' = IF Refill(s) THEN Shifted(s)
                 ELSE IF s.head = s.tail THEN [Commit(s, m.e) EXCEPT !.pivot = NoPivot]
                 ELSE s
        /\ pc' = IF Refill(s) \/ s.head = s.tail THEN "fill" ELSE "loop"
        /\ bug' = (bug \/ m.e.inlined \/ (delta > 0 /\ ei.length = 0))
        /\ UNCHANGED <<cf, fi, ic, disk, tree, sub, packed, frags, done>>

(* The pivot is committed: no (further) match. *)
DedupeNone ==
    /\ pc = "loop" /\ Avail > 0
    /\ sc.pivot # NoPivot => ~DedupeFound
    /\ sc' = [Commit(sc, sc.pivot) EXCEPT !.pivot = NoPivot]
    /\ pc' = "one"
    /\ UNCHANGED <<cf, fi, ino, ic, disk, tree, sub, packed, frags, done, bug>>

-----------------------------------------------------------------------------
(* erofs_begin_compressed_file and the first segment. *)

SegNum(size, mt) == IF mt THEN (size + cf.seg - 1) \div cf.seg ELSE 1
MtFile(isPacked) == cf.mt /\ (isPacked \/ ~cf.all)
SegLen(i, k, n, mt) == IF mt /\ k < n - 1 THEN cf.seg ELSE i.size - i.fragsize - (k * cf.seg)

Begin(isPacked, s) ==
    LET fresh == NewInode(isPacked, Len(s))
        found == IF cf.frags /\ ~isPacked THEN FindFragment(s) ELSE [size |-> 0, off |-> 0]
        pack == cf.all /\ ~isPacked /\ found.size = 0
        n == SegNum(Len(s), MtFile(isPacked))
        mapped == {k \in {TRUE, FALSE} : pack \/ k}      \* mmap may fail
    IN  \E mm \in mapped :
        /\ ino' = [fresh EXCEPT !.fragsize = IF pack THEN Len(s) ELSE found.size,
                                !.fragoff = IF pack THEN Len(packed) ELSE found.off,
                                !.addr = Len(disk) + 1]
        /\ packed' = IF pack THEN packed \o s ELSE packed
        /\ frags' = IF pack /\ mm THEN InsertTail(s, Len(packed)) ELSE frags
        /\ ic' = [seg_num |-> n, mt |-> MtFile(isPacked), fix |-> FALSE, emitted |-> FALSE,
                  extents |-> <<>>]
        /\ sc' = NewSegment(0, SegLen(ino', 0, n, MtFile(isPacked)), 0, Len(disk) + 1)
        /\ pc' = "fill"
        /\ UNCHANGED <<cf, fi, disk, tree, sub, done, bug>>

BeginFile == pc = "begin" /\ fi <= Len(cf.files) /\ Begin(FALSE, cf.files[fi])

(* erofs_flush_packed_inode *)
BeginPacked == pc = "begin" /\ fi = Len(cf.files) + 1 /\ packed # <<>> /\ Begin(TRUE, packed)

(* The loop of z_erofs_compress_segment: read, then z_erofs_compress_one.  *)
Fill ==
    LET rx == Min({sc.remaining, QueueSz - sc.tail})
    IN  /\ pc = "fill" /\ sc.remaining > 0
        /\ sc' = [sc EXCEPT !.remaining = @ - rx, !.tail = @ + rx, !.rd = @ + rx]
        /\ pc' = "loop"
        /\ UNCHANGED <<cf, fi, ino, ic, disk, tree, sub, packed, frags, done, bug>>

LoopEnds ==
    /\ pc = "loop" /\ Avail = 0
    /\ pc' = "fill"
    /\ UNCHANGED <<cf, fi, ino, ic, sc, disk, tree, sub, packed, frags, done, bug>>

-----------------------------------------------------------------------------
(* __z_erofs_compress_one.  It returns for more data when at most a        *)
(* cluster is left and the file goes on: the queue is refilled before that *)
(* can happen, as a cluster is not longer than MaxSz.                      *)

Tsg == sc.seg + 1 >= ic.seg_num
Final == sc.remaining = 0
MayPacking == cf.frags /\ Tsg /\ Final /\ ~ino.packed /\ ~cf.mt
MayInline == cf.ztail /\ Tsg /\ Final /\ ~MayPacking
Short == Avail <= sc.pcl

(* What the compressor may answer: <<bytes consumed, bytes produced>>. *)
DestSize(n, dst) ==
    {<<Min({o[1], n}), o[2]>> : o \in {o \in cf.out : o[2] <= dst}}

InQueue == Bytes(Data, Start, sc.rd)

(* The rest of the function once e is known: blocks written, dedupe item   *)
(* inserted, head advanced, then the tail of z_erofs_compress_one.         *)
Emit(e, blocks, insert, i, c, raws) ==
    LET placed == [e EXCEPT !.addr = IF ic.mt THEN NullAddr ELSE sc.addr]
        s == [sc EXCEPT !.head = @ + e.length, !.pivot = placed, !.raws = @ + raws,
                        !.addr = @ + e.blks,
                        !.membuf = IF ic.mt THEN @ \o blocks ELSE @]
        left == s.tail - s.head
        newsize == s.remaining + left
        fix == c.fix /\ ~c.emitted
        shrink == fix /\ i.fragsize >= newsize
        s2 == IF shrink THEN [s EXCEPT !.head = s.tail, !.remaining = 0]
              ELSE IF ~fix THEN s
              ELSE [s EXCEPT !.pcl = Min({IF i.packed THEN cf.pclp ELSE cf.pcl,
                                          RoundUp(newsize - i.fragsize, BlkSize)})]
    IN  /\ disk' = IF ic.mt THEN disk ELSE disk \o blocks
        /\ tree' = IF insert /\ ~i.packed /\ Inserted(placed, InQueue)
                   THEN Append(tree, [data |-> Bytes(InQueue, 0, e.length), e |-> placed])
                   ELSE tree
        /\ sub' = sub + Len(tree') - Len(tree)
        /\ ino' = IF shrink THEN [i EXCEPT !.fragoff = @ + i.fragsize - newsize,
                                           !.fragsize = newsize] ELSE i
        /\ ic' = c
        /\ sc' = IF shrink THEN s2 ELSE Shifted(s2)
        /\ pc' = IF shrink \/ Refill(s2) THEN "fill" ELSE "loop"
        /\ bug' = (bug \/ (fix /\ i.fragsize = 0) \/ (~e.raw /\ e.blks * BlkSize >= e.length /\ ~e.inlined))
        /\ UNCHANGED <<cf, fi, done>>

(* fix_dedupedfrag: the fragment found at first is read after all.         *)
FixFragment(pcl) ==
    /\ sc' = [sc EXCEPT !.pcl = pcl, !.remaining = @ + ino.fragsize]
    /\ ic' = [ic EXCEPT !.fix = TRUE]
    /\ bug' = (bug \/ ino.fragsize = 0)
    /\ pc' = "fill"
    /\ UNCHANGED <<cf, fi, ino, disk, tree, sub, packed, frags, done>>

MustFix == Short /\ Final /\ Avail > 0 /\ ino.fragsize > 0 /\ ~ic.fix
FixShort == pc = "one" /\ MustFix /\ FixFragment(RoundUp(Avail, BlkSize))

(* z_erofs_pack_fragments *)
PackTail ==
    LET i == [ino EXCEPT !.fragoff = Len(packed), !.fragsize = Avail]
    IN  /\ packed' = packed \o InQueue
        /\ frags' = InsertTail(InQueue, Len(packed))
        /\ Emit(Extent(Avail, 0, 0, FALSE, FALSE), <<>>, FALSE, i, [ic EXCEPT !.emitted = TRUE], 0)

MustPack == Short /\ Final /\ Avail > 0 /\ ~MustFix /\ MayPacking
PackShort == pc = "one" /\ MustPack /\ PackTail

(* write_uncompressed_extent: one block, rotated if interlaced. *)
RawBlock(d) ==
    LET off == IF ino.interlaced THEN sc.ofs ELSE 0
        right == Min({BlkSize - off, Len(d)})
    IN  [j \in 1 .. BlkSize |->
            IF j > off /\ j <= off + right THEN d[j - off]
            ELSE IF j <= Len(d) - right THEN d[j + right] ELSE 0]

Uncompressed(raws) ==
    LET d == Bytes(InQueue, 0, Min({BlkSize, Avail}))
    IN  /\ Emit(Extent(Len(d), 1, 0, TRUE, FALSE), <<[z |-> FALSE, d |-> RawBlock(d)]>>,
                TRUE, ino, ic, raws)
        /\ UNCHANGED <<packed, frags>>

MustNotCompress == Short /\ Final /\ Avail > 0 /\ ~MustFix /\ ~MustPack
                   /\ ~MayInline /\ Avail <= BlkSize
UncompressedTail == pc = "one" /\ MustNotCompress /\ Uncompressed(0)

(* z_erofs_fill_inline_data *)
Inlined(d, z, size, tailraw) ==
    [ino EXCEPT !.inline = TRUE, !.idata = d, !.idataz = z, !.idatasize = size,
                !.tailraw = tailraw]

(* erofs_compress_destsize is called: c bytes for the next n bytes.        *)
Called == pc = "one" /\ Avail > 0 /\ (Short => Final)
          /\ ~MustFix /\ ~MustPack /\ ~MustNotCompress
Kept(n, c) == IF MayInline /\ n = Avail /\ c < BlkSize THEN c ELSE RoundUp(c, BlkSize)
Gain(n, c) == Kept(n, c) < n

NoGain(n, c) ==
    /\ Called /\ ~Gain(n, c) /\ sc.raws < cf.maxraw
    /\ IF MayInline /\ Avail < BlkSize
       THEN /\ Emit(Extent(Avail, 1, 0, TRUE, TRUE), <<>>, FALSE,
                    Inlined(InQueue, FALSE, Avail, <<>>), ic, 1)
            /\ UNCHANGED <<packed, frags>>
       ELSE Uncompressed(1)

MayPackAll(n, c) == MayPacking /\ n = Avail /\ c < sc.pcl /\ (ino.fragsize = 0 \/ ic.fix)
PackCompressed(n, c) == Called /\ Gain(n, c) /\ MayPackAll(n, c) /\ PackTail

MayInlineAll(n, c) == MayInline /\ n = Avail /\ c < BlkSize
InlineCompressed(n, c) ==
    /\ Called /\ Gain(n, c) /\ ~MayPackAll(n, c) /\ MayInlineAll(n, c)
    /\ Emit(Extent(n, 1, 0, FALSE, TRUE), <<>>, FALSE,
            Inlined(InQueue, TRUE, c, IF sc.ofs + n <= BlkSize THEN InQueue ELSE <<>>), ic, 0)
    /\ UNCHANGED <<packed, frags>>

FixLast(n, c) ==
    /\ Called /\ Gain(n, c) /\ ~MayPackAll(n, c) /\ ~MayInlineAll(n, c)
    /\ MayPacking /\ n = Avail /\ c % BlkSize # 0 /\ sc.tail < QueueSz
    /\ FixFragment(RoundUp(c, BlkSize))

(* tryrecompress_trailing: what is kept of <<n, c>>. *)
Recompressed(n, c) ==
    IF ~(MayInline /\ n = Avail) \/ c % BlkSize = 0 THEN {<<n, c>>}
    ELSE {IF o[2] + (n - o[1]) >= RoundUp(c, BlkSize) THEN <<n, c>> ELSE o :
             o \in DestSize(n, RoundDown(c, BlkSize))} \cup {<<n, c>>}

Compressed(n, c) ==
    /\ Called /\ Gain(n, c) /\ ~MayPackAll(n, c) /\ ~MayInlineAll(n, c)
    /\ ~(MayPacking /\ n = Avail /\ c % BlkSize # 0 /\ sc.tail < QueueSz)
    /\ \E o \in Recompressed(n, c) :
          LET k == Blks(o[2])
          IN  Emit(Extent(o[1], k, 0, FALSE, FALSE),
                   [j \in 1 .. k |-> [z |-> TRUE, d |-> Bytes(InQueue, 0, o[1]), i |-> j, n |-> k]],
                   TRUE, ino, ic, 0)
    /\ UNCHANGED <<packed, frags>>

CompressOne ==
    /\ pc = "one"
    /\ \E o \in DestSize(Avail, sc.pcl) :
          \/ NoGain(o[1], o[2]) \/ PackCompressed(o[1], o[2]) \/ InlineCompressed(o[1], o[2])
          \/ FixLast(o[1], o[2]) \/ Compressed(o[1], o[2])

-----------------------------------------------------------------------------
(* The end of a segment, with z_erofs_merge_segment for the threads.       *)

Placed(extents, addr) ==
    LET before(k) == FoldLeft(LAMBDA a, e : a + e.blks, 0, SubSeq(extents, 1, k - 1))
    IN  [k \in DOMAIN extents |-> IF extents[k].addr # NullAddr THEN extents[k]
                                  ELSE [extents[k] EXCEPT !.addr = addr + before(k)]]

SegmentEnds ==
    LET s == Commit(sc, sc.pivot)
        last == Tsg /\ ino.fragsize > 0 /\ ~ic.emitted
        s2 == IF last THEN Commit(s, Extent(ino.fragsize, 0, IF ic.mt THEN NullAddr ELSE s.addr,
                                            FALSE, FALSE)) ELSE s
        from == IF ic.mt THEN Len(disk) + 1 ELSE ino.addr
        n == sc.seg + 1
    IN  /\ pc = "fill" /\ sc.remaining = 0
        /\ bug' = (bug \/ sc.head # sc.tail)
        /\ ic' = [ic EXCEPT !.extents = @ \o (IF ic.mt THEN Placed(s2.extents, from)
                                                       ELSE s2.extents)]
        /\ disk' = disk \o sc.membuf
        /\ IF Tsg
           THEN /\ pc' = "commit" /\ UNCHANGED <<ino, sc>>
           ELSE /\ pc' = "fill" /\ UNCHANGED ino
                /\ sc' = NewSegment(n, SegLen(ino, n, ic.seg_num, TRUE), n * cf.seg, 0)
        /\ UNCHANGED <<cf, fi, tree, sub, packed, frags, done>>

(* The assertions of z_erofs_write_extent. *)
ExtentsBug(extents) ==
    LET ofs(k) == FoldLeft(LAMBDA a, e : NextOfs(e, a), 0, SubSeq(extents, 1, k - 1))
    IN  \E k \in DOMAIN extents :
            LET e == extents[k] IN
            IF ofs(k) + e.length < BlkSize
            THEN e.partial \/ (~e.raw /\ ~cf.ztail /\ ~cf.frags)
            ELSE e.partial /\ e.raw

(* erofs_commit_compressed_file, the file is kept compressed. *)
CommitFile ==
    LET whole == ino.size <= ino.fragsize
        i0 == [ino EXCEPT !.frag = ino.fragsize > 0,
                          !.layout = IF (ino.fragsize > 0 /\ ino.fragoff >= FragSpan)
                                     THEN "FULL" ELSE @]
        idx == WriteIndexes(i0, ic.extents)
        i1 == [i0 EXCEPT !.layout = IF whole THEN "FULL" ELSE @, !.whole = whole,
                         !.blocks = Len(disk) + 1 - ino.addr, !.ext = ic.extents,
                         !.idatasize = IF i0.frag THEN 0 ELSE @,
                         !.idx = IF whole THEN <<>> ELSE idx]
        cv == ToCompacted(i1, ino.addr, idx)
    IN  /\ pc = "commit"
        /\ ino' = IF i1.layout = "FULL" THEN i1
                  ELSE [i1 EXCEPT !.idx = <<>>, !.packs = cv.packs]
        /\ bug' = (bug \/ ExtentsBug(ic.extents) \/ (i1.layout # "FULL" /\ cv.bug)
                       \/ ino.size < ino.fragsize)
        /\ sub' = 0
        /\ pc' = "inode"
        /\ UNCHANGED <<cf, fi, ic, sc, disk, tree, packed, frags, done>>

(* No space is saved: blocks and dedupe items go, the file is stored as it *)
(* is by write_uncompressed_file_from_fd.                                  *)
CommitNoSpace ==
    LET s == Data
        n == Blks(Len(s))
        plain == [j \in 1 .. n |-> [z |-> FALSE, d |-> [k \in 1 .. BlkSize |->
                      IF BlkSize * (j - 1) + k <= Len(s) THEN s[BlkSize * (j - 1) + k] ELSE 0]]]
    IN  /\ pc = "commit" /\ ino.fragsize = 0
        /\ ino' = [ino EXCEPT !.layout = "PLAIN", !.blocks = n, !.idatasize = 0]
        /\ disk' = SubSeq(disk, 1, ino.addr - 1) \o plain
        /\ tree' = AfterDrop(tree, sub) /\ sub' = 0
        /\ pc' = "inode"
        /\ UNCHANGED <<cf, fi, ic, sc, packed, frags, done, bug>>

-----------------------------------------------------------------------------
(* erofs_prepare_inode_buffer and erofs_write_tail_end. *)

Finish(i) ==
    /\ done' = Append(done, i) /\ fi' = fi + 1 /\ pc' = "begin"
    /\ UNCHANGED <<cf, ino, ic, sc, tree, sub, packed, frags, bug>>

WriteInode == pc = "inode" /\ Finish(ino) /\ UNCHANGED disk

(* The inode has no room for the inline data: z_erofs_drop_inline_pcluster *)
(* and a block behind the others.                                          *)
DropInline ==
    LET i == [ino EXCEPT !.inline = FALSE, !.idatasize = 0]
        z == ino.idataz /\ ino.tailraw = <<>>
        d == IF ino.tailraw = <<>> THEN ino.idata ELSE ino.tailraw
    IN  /\ pc = "inode" /\ ino.inline /\ ino.layout # "PLAIN"
        /\ disk' = Append(disk,
               IF z THEN [z |-> TRUE, d |-> d, i |-> 1, n |-> 1]
               ELSE [z |-> FALSE, d |-> [k \in 1 .. BlkSize |-> IF k <= Len(d) THEN d[k] ELSE 0]])
        /\ Finish(IF ino.tailraw = <<>> THEN i ELSE PatchLast(i))

Done == fi = Len(cf.files) + (IF packed = <<>> THEN 1 ELSE 2)

Next ==
    \/ BeginFile \/ BeginPacked \/ Fill \/ LoopEnds \/ DedupeStep \/ DedupeNone
    \/ FixShort \/ PackShort \/ UncompressedTail \/ CompressOne
    \/ SegmentEnds \/ CommitFile \/ CommitNoSpace \/ WriteInode \/ DropInline

Spec == Init /\ [][Next]_vars

-----------------------------------------------------------------------------
(* Reading, lib/data.c and lib/decompress.c.  -1 stands for a byte that is *)
(* not what was written: garbage, or a read that failed.                   *)

Bad(n) == [k \in 1 .. n |-> -1]
At(s, k) == IF k \in DOMAIN s THEN s[k] ELSE -1
Slice(s, from, to) == [k \in 1 .. to - from |-> At(s, from + k)]

(* z_erofs_decompress for the formats that are not compressed. *)
Interlaced(in, size, la, skip, length) ==
    LET count == length - skip
        sk == (la + skip) % BlkSize
        right == Min({BlkSize - sk, count})
    IN  IF size > BlkSize \/ length > BlkSize THEN Bad(count)
        ELSE Slice(in, sk, sk + right) \o Slice(in, 0, count - right)

ShiftedData(in, size, skip, length) ==
    IF length > size THEN Bad(length - skip) ELSE Slice(in, skip, length)

(* A cluster decodes completely, or partially if the caller says so. *)
Decoded(blocks, n, partial, skip, length) ==
    LET d == blocks[1].d
    IN  IF /\ Len(blocks) = n /\ \A j \in 1 .. n : blocks[j].z
           /\ \A j \in 1 .. n : blocks[j].i = j /\ blocks[j].n = n /\ blocks[j].d = d
           /\ IF partial THEN length <= Len(d) ELSE length = Len(d)
        THEN Slice(d, skip, length) ELSE Bad(length - skip)

RECURSIVE ReadData(_, _, _)
(* z_erofs_read_one_data *)
ReadOne(i, m, skip, length, trimmed) ==
    LET n == m.plen \div BlkSize
        meta == m.kind = "META"
        in == IF meta THEN IF m.idataoff = IndexBytes(i) THEN i.idata ELSE <<>>
              ELSE IF n = 1 /\ m.pblk \in DOMAIN disk THEN disk[m.pblk].d ELSE <<>>
    IN  IF m.kind = "FRAGMENT"
        THEN ReadData(done[Len(done)], m.fragoff + skip, m.fragoff + length)
        ELSE CASE m.alg = "INTERLACED" -> Interlaced(in, m.plen, m.la, skip, length)
               [] m.alg = "SHIFTED" -> ShiftedData(in, m.plen, skip, length)
               [] OTHER -> Decoded(IF meta THEN <<[z |-> i.idataz, d |-> in, i |-> 1, n |-> 1]>>
                                           ELSE SubSeq(disk, m.pblk, m.pblk + n - 1),
                                   IF meta THEN 1 ELSE n, trimmed \/ ~m.full \/ m.part,
                                   skip, length)

(* z_erofs_read_data reads [offset, end) extent by extent from the end;    *)
(* erofs_read_raw_data.                                                    *)
ReadData(i, offset, end) ==
    LET Read(m) ==
            IF m.err \/ m.kind = "NONE" \/ m.la + m.llen < end THEN Bad(end - offset)
            ELSE ReadData(i, offset, m.la) \o
                 ReadOne(i, m, IF m.la < offset THEN offset - m.la ELSE 0,
                         Min({end - m.la, m.llen}), end < m.la + m.llen)
    IN  IF end <= offset THEN <<>>
        ELSE IF i.layout = "PLAIN"
        THEN [k \in 1 .. end - offset |->
                LET o == offset + k - 1 IN disk[i.addr + o \div BlkSize].d[(o % BlkSize) + 1]]
        ELSE Read(MapBlocks(i, end - 1, FALSE))

Contents(k) == IF done[k].packed THEN packed ELSE cf.files[k]

(* Places where reads start and end: all of them in a small file.          *)
Cuts(n) == IF n <= 3 * BlkSize THEN 0 .. n
           ELSE {0, n} \cup {o \in 1 .. n - 1 : (o + 1) % BlkSize = 0}

-----------------------------------------------------------------------------
(* The extent that ends a file is compressed, shared with another file and *)
(* within the last cluster: the reader then looks for its number of blocks *)
(* behind the indexes of the file, where it may find anything.             *)
LooksBehind(i) ==
    LET e == i.ext[Len(i.ext)]
    IN  /\ i.layout # "PLAIN" /\ ~i.whole /\ ~i.frag /\ ~e.inlined
        /\ i.big /\ ~e.raw /\ ((i.size - e.length) % BlkSize) + e.length <= BlkSize

(* The tail of a file was taken back from its inode where the indexes end  *)
(* with a pack of sixteen: 16 bits are patched over an item of 14, and two *)
(* bits of the offset of the tail, if they are set, are lost.              *)
PatchedSixteen(i) ==
    /\ i.layout = "COMPACT" /\ ~i.inline /\ i.tailraw # <<>>
    /\ Len(i.packs[Len(i.packs)].items) = 16
    /\ (i.size - Len(i.tailraw)) % BlkSize >= BlkSize \div 4

(* A tail that did not compress was inlined in an interlaced file, and     *)
(* does not start a cluster: it is stored as it is, and read as if it were *)
(* rotated.                                                                *)
UnrotatedTail(i) ==
    /\ i.layout # "PLAIN" /\ i.interlaced /\ i.idata # <<>> /\ ~i.idataz
    /\ (i.size - Len(i.idata)) % BlkSize # 0

(* The files that are not read back: these three, and those with a         *)
(* fragment in a packed file that is one of them.                          *)
Misread(i) == LooksBehind(i) \/ PatchedSixteen(i) \/ UnrotatedTail(i)
ReadableFiles ==
    {k \in DOMAIN done :
        ~Misread(done[k]) /\ (done[k].frag => ~Misread(done[Len(done)]))}

(* Once everything is written, every read of every file returns the bytes  *)
(* that were given to mkfs: whatever was deduplicated against other files, *)
(* packed into fragments, inlined, dropped from the inode again, or stored *)
(* in a file that was then given up.  The exceptions are LooksBehind,      *)
(* PatchedSixteen and UnrotatedTail.                                       *)
ReadBack ==
    Done => \A k \in ReadableFiles :
                LET s == Contents(k) IN
                /\ ReadData(done[k], 0, Len(s)) = s
                /\ \A o \in Cuts(Len(s)) : \A e \in Cuts(Len(s)) :
                      (o < e /\ e <= o + BlkSize) =>
                          ReadData(done[k], o, e) = Bytes(s, o, e)

(* The complete map (EROFS_GET_BLOCKS_FIEMAP), as fsck and dump use it,    *)
(* gives back the extents mkfs made, with their blocks; and no DBG_BUGON   *)
(* of the writer is met on the way.  The exceptions are LooksBehind, where *)
(* the number of blocks is looked up behind the indexes, and               *)
(* PatchedSixteen, where the last index was damaged.                       *)
ExtentsMapped ==
    /\ ~bug
    /\ Done => \A k \in {j \in DOMAIN done :
                             ~LooksBehind(done[j]) /\ ~PatchedSixteen(done[j])} :
        LET i == done[k]
            from(j) == FoldLeft(LAMBDA a, e : a + e.length, 0, SubSeq(i.ext, 1, j - 1))
        IN  (i.layout # "PLAIN" /\ ~i.whole) =>
            \A j \in DOMAIN i.ext : \A o \in {from(j), from(j) + i.ext[j].length - 1} :
                \E m \in {MapBlocks(i, o, TRUE)} :
                /\ ~m.err
                /\ m.la = from(j) /\ m.llen = i.ext[j].length
                /\ m.kind = "BLOCKS" => /\ m.pblk = i.ext[j].addr
                                        /\ m.plen = i.ext[j].blks * BlkSize
=============================================================================
