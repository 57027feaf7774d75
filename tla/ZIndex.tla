------------------------------- MODULE ZIndex -------------------------------
(***************************************************************************)
(* The logical cluster indexes of a compressed file: how lib/compress.c    *)
(* writes them, full or compacted, and how lib/zmap.c maps a file offset   *)
(* through them.  Operators only: ZFile builds files with them.            *)
(*                                                                         *)
(* Bits are abstract: a full index is a record, a compacted pack is the    *)
(* sequence of its items <<type, lo>> and its block address.  Positions in *)
(* the index area are bytes, since packs are aligned.                      *)
(***************************************************************************)
EXTENDS Integers, Sequences, SequencesExt, FiniteSetsExt

CONSTANTS
    BlkSize,    \* bytes of a block, which is also a logical cluster
    CblkFlag,   \* Z_EROFS_LI_D0_CBLKCNT, a power of two
    FragSpan    \* 2^32: fragment offsets from here on need the high half

ASSUME ZIndexAssumption ==
    /\ BlkSize \in Nat \ {0} /\ BlkSize % 4 = 0
    /\ CblkFlag \in Nat \ {0, 1} /\ FragSpan \in Nat \ {0}

Blks(n) == (n + BlkSize - 1) \div BlkSize
RoundUp(n, a) == ((n + a - 1) \div a) * a
RoundDown(n, a) == (n \div a) * a

PLAIN == 0
HEAD1 == 1
NONHEAD == 2

(* lobits: a value of a compacted item is below LoSpan. *)
LoSpan == Max({BlkSize, 2 * CblkFlag})

HasCblk(v) == (v \div CblkFlag) % 2 = 1
Cblk(v) == v % CblkFlag

-----------------------------------------------------------------------------
(* Writing. *)

(* Indexes of one extent whose first byte is at ofs in its first cluster.  *)
HeadIndex(ino, e, ofs) ==
    [type |-> IF e.raw THEN PLAIN ELSE HEAD1, ofs |-> ofs, part |-> e.partial,
     addr |-> IF ino.layout = "FULL" /\ e.blks = 0 THEN ino.fragoff \div FragSpan
                                                    ELSE e.addr,
     d0 |-> 0, d1 |-> 0]

Delta0(k, e, big) ==
    IF k = 1 /\ big THEN e.blks + CblkFlag ELSE Min({k, CblkFlag - 1})

ExtentIndexes(ino, e, ofs) ==
    LET n == (ofs + e.length) \div BlkSize
    IN  <<HeadIndex(ino, e, ofs)>> \o
        [k \in 1 .. Max({n - 1, 0}) |->
            [type |-> NONHEAD, ofs |-> ofs, part |-> FALSE, addr |-> 0,
             d0 |-> Delta0(k, e, ino.big), d1 |-> n - k]]

NextOfs(e, ofs) == IF ofs + e.length < BlkSize THEN 0 ELSE (ofs + e.length) % BlkSize

(* z_erofs_write_indexes: all extents, and the final index if the last one *)
(* ends inside a cluster that has no index of its own.                     *)
WriteIndexes(ino, extents) ==
    LET w == FoldLeft(LAMBDA a, e : [idx |-> a.idx \o ExtentIndexes(ino, e, a.ofs),
                                     ofs |-> NextOfs(e, a.ofs)],
                      [idx |-> <<>>, ofs |-> 0], extents)
    IN  IF w.ofs = 0 THEN w.idx
        ELSE Append(w.idx, [type |-> PLAIN, ofs |-> w.ofs, part |-> FALSE,
                            addr |-> 0, d0 |-> 0, d1 |-> 0])

(* One item of a pack.  st: addr is blkaddr, base is *blkaddr_ret.         *)
Item(st, c, last, final) ==
    IF c.type = NONHEAD
    THEN LET cb == HasCblk(c.d0)
         IN  [st EXCEPT !.addr = IF cb THEN @ + Cblk(c.d0) ELSE @,
                        !.dummy = IF cb THEN FALSE ELSE @,
                        !.items = Append(@, <<NONHEAD,
                            IF cb THEN c.d0
                            ELSE IF last THEN Min({c.d1, LoSpan - 1}) ELSE c.d0>>)]
    ELSE LET a == IF st.dummy THEN st.addr + 1 ELSE st.addr
         IN  [st EXCEPT !.addr = a,
                        !.base = IF st.dummy /\ st.upd THEN a ELSE @,
                        !.dummy = TRUE, !.upd = FALSE,
                        !.bug = @ \/ (c.addr # a /\ ((~last /\ ~final) \/ c.addr # 0)),
                        !.items = Append(@, <<c.type, c.ofs>>)]

Zeroed == [type |-> PLAIN, ofs |-> 0, part |-> FALSE, addr |-> 0, d0 |-> 0, d1 |-> 0]

(* write_compacted_indexes: one pack of Len(cv) items appended to st.packs *)
WritePack(st, cv, big, final) ==
    LET s0 == [addr |-> st.addr, base |-> st.addr, dummy |-> st.dummy, upd |-> big,
               bug |-> st.bug, items |-> <<>>]
        s == FoldLeft(LAMBDA a, i : Item(a, cv[i], i = Len(cv), final),
                      s0, [i \in 1 .. Len(cv) |-> i])
    IN  [addr |-> s.addr, dummy |-> s.dummy, bug |-> s.bug,
         packs |-> Append(st.packs, [items |-> s.items, base |-> s.base])]

(* How many indexes lie in 4-byte packs before, and in 2-byte packs.       *)
Initial4B(mpos) == ((32 - (mpos % 32)) \div 4) % 8

Split(ino, total) ==
    LET i == Initial4B(ino.mpos)
    IN  IF ~ino.twob \/ i > total THEN [first |-> 0, two |-> 0]
        ELSE [first |-> i, two |-> RoundDown(total - i, 16)]

(* z_erofs_convert_to_compacted_format *)
ToCompacted(ino, addr, idx) ==
    LET total == Len(idx)
        sp == Split(ino, total)
        cuts == [k \in 1 .. sp.first \div 2 |-> <<2 * k - 1, 2>>] \o
                [k \in 1 .. sp.two \div 16 |-> <<sp.first + 16 * k - 15, 16>>] \o
                [k \in 1 .. (total - sp.first - sp.two + 1) \div 2 |->
                    <<sp.first + sp.two + 2 * k - 1, 2>>]
        vec(c) == [j \in 1 .. c[2] |-> IF c[1] + j - 1 <= total THEN idx[c[1] + j - 1]
                                                                ELSE Zeroed]
    IN  FoldLeft(LAMBDA a, c : WritePack(a, vec(c), ino.big, c[1] + c[2] - 1 > total),
                 [addr |-> IF ino.big THEN addr ELSE addr - 1, dummy |-> ~ino.big,
                  bug |-> FALSE, packs |-> <<>>], cuts)

PackBytes(p) == IF Len(p.items) = 16 THEN 32 ELSE 8

(* extent_isize without the header: where inline data starts. *)
IndexBytes(ino) ==
    IF ino.layout = "FULL" THEN 8 * Len(ino.idx)
    ELSE FoldLeft(LAMBDA a, p : a + PackBytes(p), 0, ino.packs)

(* z_erofs_drop_inline_pcluster patches the last index to PLAIN.  In the   *)
(* compacted form it writes 16 bits at the place the last item has in a    *)
(* 4-byte pack; if the area ends with a 2-byte pack, these 16 bits are the *)
(* last item shifted by two, and the mask takes two bits of its offset.    *)
PatchLast(ino) ==
    IF ino.layout = "FULL"
    THEN [ino EXCEPT !.idx[Len(ino.idx)].type = PLAIN, !.idx[Len(ino.idx)].part = FALSE]
    ELSE LET n == Len(ino.packs)
             odd == Blks(ino.size) % 2 = 1
         IN  IF Len(ino.packs[n].items) = 2
             THEN [ino EXCEPT !.packs[n].items[IF odd THEN 1 ELSE 2] =
                                  <<PLAIN, @[2] % BlkSize>>]
             ELSE [ino EXCEPT !.packs[n].items[16] = <<PLAIN, @[2] % (BlkSize \div 4)>>]

-----------------------------------------------------------------------------
(* Reading.  m is the z_erofs_maprecorder; err holds the first error.      *)

Recorder == [lcn |-> 0, type |-> PLAIN, headtype |-> PLAIN, ofs |-> 0, d0 |-> 0, d1 |-> 0,
             pblk |-> 0, cblks |-> 0, next |-> 0, part |-> FALSE, err |-> FALSE]

Failed(m) == [m EXCEPT !.err = TRUE]

LoadLegacy(ino, m, lcn) ==
    LET di == ino.idx[lcn + 1]
        n == [m EXCEPT !.lcn = lcn, !.next = 8 * (lcn + 1), !.type = di.type]
    IN  IF lcn >= Len(ino.idx) THEN Failed(m)
        ELSE IF di.type # NONHEAD
        THEN [n EXCEPT !.part = @ \/ di.part, !.ofs = di.ofs, !.pblk = di.addr]
        ELSE IF ~HasCblk(di.d0)
        THEN [n EXCEPT !.ofs = BlkSize, !.d0 = di.d0, !.d1 = di.d1]
        ELSE IF ~ino.big THEN Failed(n)
        ELSE [n EXCEPT !.ofs = BlkSize, !.cblks = Cblk(di.d0), !.d0 = 1, !.d1 = di.d1]

(* get_compacted_la_distance: d1 of item i (from 0) of a pack. *)
LaDistance(items, i) ==
    LET heads == {j \in i .. Len(items) - 1 : items[j + 1][1] # NONHEAD}
        lo == items[Len(items)][2]
    IN  IF heads # {} THEN Min(heads) - i
        ELSE Len(items) - i + (IF HasCblk(lo) THEN 0 ELSE lo - 1)

(* Blocks between the base of a pack and its item i, counting backwards.   *)
RECURSIVE BlocksBefore(_, _, _)
BlocksBefore(items, big, i) ==
    IF i <= 0 THEN [n |-> 0, err |-> FALSE]
    ELSE LET it == items[i]          \* the item before i, from 0
             lo == it[2]
             plus(k, r) == [r EXCEPT !.n = @ + k]
         IN  IF ~big
             THEN IF it[1] # NONHEAD THEN plus(1, BlocksBefore(items, big, i - 1))
                  ELSE LET j == i - 1 - lo
                       IN  IF j >= 0 THEN plus(1, BlocksBefore(items, big, j))
                                     ELSE [n |-> 0, err |-> FALSE]
             ELSE IF it[1] # NONHEAD THEN plus(1, BlocksBefore(items, big, i - 1))
             ELSE IF HasCblk(lo) THEN plus(Cblk(lo), BlocksBefore(items, big, i - 2))
             ELSE IF lo <= 1 THEN [n |-> 0, err |-> TRUE]
             ELSE BlocksBefore(items, big, i - 1 - (lo - 2))

(* unpack_compacted_index: item i (from 0) of pack p. *)
UnpackNonhead(ino, m, p, i, lo, prev) ==
    IF HasCblk(lo) THEN IF ino.big THEN [m EXCEPT !.cblks = Cblk(lo), !.d0 = 1] ELSE Failed(m)
    ELSE IF i + 1 # Len(p.items) THEN [m EXCEPT !.d0 = lo]
    ELSE [m EXCEPT !.d0 = IF prev[1] # NONHEAD THEN 1
                          ELSE IF HasCblk(prev[2]) THEN 2 ELSE prev[2] + 1]

UnpackHead(ino, m, p, before) ==
    [m EXCEPT !.d0 = 0, !.pblk = p.base + before.n + (IF ino.big THEN 0 ELSE 1),
              !.err = @ \/ before.err]

Unpack(ino, m, p, i, lookahead) ==
    LET it == p.items[i + 1]
    IN  IF it[1] = NONHEAD
        THEN UnpackNonhead(ino, [m EXCEPT !.type = NONHEAD, !.ofs = BlkSize,
                                          !.d1 = IF lookahead THEN LaDistance(p.items, i) ELSE @],
                           p, i, it[2], p.items[i])
        ELSE UnpackHead(ino, [m EXCEPT !.type = it[1], !.ofs = it[2]], p,
                        BlocksBefore(p.items, ino.big, i))

(* Where the reader looks for cluster lcn: pack number and item. *)
Located(ino, lcn) ==
    LET total == Blks(ino.size)
        i == Initial4B(ino.mpos)
        two == IF ino.twob /\ i < total THEN RoundDown(total - i, 16) ELSE 0
    IN  IF lcn < i THEN [pack |-> lcn \div 2, item |-> lcn % 2, end |-> 8 * (lcn \div 2 + 1)]
        ELSE IF lcn - i < two
        THEN LET q == (lcn - i) \div 16
             IN  [pack |-> i \div 2 + q, item |-> (lcn - i) % 16, end |-> 4 * i + 32 * (q + 1)]
        ELSE LET r == lcn - i - two
             IN  [pack |-> i \div 2 + two \div 16 + r \div 2, item |-> r % 2,
                  end |-> 4 * i + 2 * two + 8 * (r \div 2 + 1)]

LoadCompacted(ino, m, lcn, lookahead) ==
    LET LoadAt(l) ==
            IF l.pack >= Len(ino.packs) \/ l.item >= Len(ino.packs[l.pack + 1].items)
            THEN Failed(m)      \* bytes behind the index area
            ELSE Unpack(ino, [m EXCEPT !.lcn = lcn, !.next = l.end], ino.packs[l.pack + 1],
                        l.item, lookahead)
    IN  IF lcn >= Blks(ino.size) THEN Failed(m) ELSE LoadAt(Located(ino, lcn))

Load(ino, m, lcn, lookahead) ==
    IF ino.layout = "FULL" THEN LoadLegacy(ino, m, lcn)
    ELSE LoadCompacted(ino, m, lcn, lookahead)

(* z_erofs_extent_lookback; the result has la of the extent. *)
RECURSIVE Lookback(_, _, _)
Lookback(ino, m, dist) ==
    IF m.lcn < dist THEN Failed(m)
    ELSE LET Back(n) ==
                IF n.err THEN n
                ELSE IF n.type = NONHEAD
                THEN IF n.d0 = 0 THEN Failed(n) ELSE Lookback(ino, n, n.d0)
                ELSE [n EXCEPT !.headtype = n.type]
         IN  Back(Load(ino, m, m.lcn - dist, FALSE))

(* z_erofs_get_extent_compressedlen, in blocks; m with cblks set. *)
CompressedLen(ino, m) ==
    IF m.headtype = PLAIN \/ ~ino.big THEN [m EXCEPT !.cblks = 1]
    ELSE IF m.cblks # 0 THEN m
    ELSE LET Second(n) ==
                IF n.err THEN n
                ELSE IF n.type # NONHEAD THEN [n EXCEPT !.cblks = 1]
                ELSE IF n.d0 # 1 \/ n.cblks = 0 THEN Failed(n) ELSE n
         IN  Second(Load(ino, m, m.lcn + 1, FALSE))

(* z_erofs_get_extent_decompressedlen: the end of the extent with head     *)
(* cluster head, or -1.                                                    *)
RECURSIVE ExtentEnd(_, _, _, _)
ExtentEnd(ino, m, lcn, head) ==
    IF lcn * BlkSize >= ino.size THEN ino.size
    ELSE LET Ahead(n) ==
                IF n.err THEN -1
                ELSE IF n.type = NONHEAD /\ n.d1 # 0 THEN ExtentEnd(ino, n, lcn + n.d1, head)
                ELSE IF n.type = NONHEAD \/ lcn # head THEN lcn * BlkSize + n.ofs
                ELSE ExtentEnd(ino, n, lcn + 1, head)
         IN  Ahead(Load(ino, m, lcn, TRUE))

(* z_erofs_do_map_blocks for the byte ofs; tail is what a FINDTAIL call    *)
(* stored before (headlcn, idataoff), or findtail is set.  m0 is the index *)
(* at ofs, m1 the head of its extent, m2 has its blocks, end its end.      *)
Here(ofs, m0) == m0.type # NONHEAD /\ ofs % BlkSize >= m0.ofs
Cut(ofs, m0) == m0.type # NONHEAD /\ ~Here(ofs, m0)

HeadOf(ino, ofs, m0) ==
    IF m0.err THEN m0
    ELSE IF Here(ofs, m0) THEN [m0 EXCEPT !.headtype = m0.type]
    ELSE IF m0.type # NONHEAD /\ ofs < BlkSize THEN Failed(m0)
    ELSE Lookback(ino, m0, IF m0.type = NONHEAD THEN m0.d0 ELSE 1)

NearEnd(ino, ofs, m0) ==
    LET here == RoundDown(ofs, BlkSize)
    IN  IF Cut(ofs, m0) THEN here + m0.ofs
        ELSE IF Here(ofs, m0) /\ ino.inline /\ here + BlkSize > ino.size THEN ino.size
        ELSE here + BlkSize

MapKind(ino, m1, headlcn) ==
    IF m1.lcn # headlcn THEN "BLOCKS"
    ELSE IF ino.inline THEN "META" ELSE IF ino.frag THEN "FRAGMENT" ELSE "BLOCKS"

MapResult(ino, ofs, m0, m1, m2, kind, end, tail, fiemap) ==
    LET la == m1.lcn * BlkSize + m1.ofs
        plen == IF kind = "META" THEN ino.idatasize
                ELSE IF kind = "BLOCKS" THEN m2.cblks * BlkSize ELSE 0
    IN  IF m2.err \/ end = -1
           \/ (m1.headtype = PLAIN /\ kind # "FRAGMENT" /\ NearEnd(ino, ofs, m0) - la > plen)
        THEN [err |-> TRUE]
        ELSE [err |-> FALSE, la |-> la, llen |-> end - la,
              kind |-> kind, pblk |-> m1.pblk, plen |-> plen,
              idataoff |-> tail.idataoff, headlcn |-> tail.headlcn, hi |-> m1.pblk,
              alg |-> IF m1.headtype # PLAIN THEN "LZ"
                      ELSE IF ino.interlaced THEN "INTERLACED" ELSE "SHIFTED",
              full |-> fiemap \/ Cut(ofs, m0), part |-> m1.part]

DoMap(ino, ofs, tail, findtail, fiemap) ==
    LET MapEnd(m0, m1, m2, kind, t) ==
            MapResult(ino, ofs, m0, m1, m2, kind,
                      IF fiemap /\ ~m2.err THEN ExtentEnd(ino, m2, m2.lcn, m1.lcn)
                                           ELSE NearEnd(ino, ofs, m0), t, fiemap)
        MapLen(m0, m1, kind, t) ==
            MapEnd(m0, m1, IF kind = "BLOCKS" /\ ~m1.err THEN CompressedLen(ino, m1) ELSE m1,
                   kind, t)
        MapTail(m0, m1, t) == MapLen(m0, m1, MapKind(ino, m1, t.headlcn), t)
        MapHead(m0, m1) ==
            MapTail(m0, m1, IF findtail THEN [headlcn |-> m1.lcn, idataoff |-> m0.next] ELSE tail)
        MapFrom(m0) == MapHead(m0, HeadOf(ino, ofs, m0))
    IN  MapFrom(Load(ino, Recorder, ofs \div BlkSize, FALSE))

NoTail == [err |-> FALSE, headlcn |-> -1, idataoff |-> 0, plen |-> 1, hi |-> 0]

FragMap(ino, off) == [err |-> FALSE, la |-> 0, llen |-> ino.size, kind |-> "FRAGMENT",
                      fragoff |-> off]
WithFragOff(m, off) == IF m.err THEN m ELSE m @@ [fragoff |-> off]

(* z_erofs_map_blocks_iter with z_erofs_fill_inode_lazy: the fields of the *)
(* inode that come from its header, then the map.                          *)
MapBlocks(ino, ofs, fiemap) ==
    LET FragOff(hi) == (ino.fragoff % FragSpan) + (IF ino.layout = "FULL" THEN FragSpan * hi ELSE 0)
        MapWith(tail) ==
            IF tail.err \/ (ino.inline /\ tail.plen = 0) THEN [err |-> TRUE]
            ELSE IF ino.frag /\ tail.headlcn = 0 THEN FragMap(ino, FragOff(tail.hi))
            ELSE WithFragOff(DoMap(ino, ofs, tail, FALSE, fiemap),
                             IF ino.frag THEN FragOff(tail.hi) ELSE 0)
    IN  IF ofs >= ino.size THEN [err |-> FALSE, la |-> ino.size, llen |-> ofs + 1 - ino.size,
                                 kind |-> "NONE", fragoff |-> 0]
        ELSE IF ino.whole THEN FragMap(ino, ino.fragoff)
        ELSE MapWith(IF ino.inline \/ ino.frag
                     THEN DoMap(ino, ino.size - 1, NoTail, TRUE, FALSE) ELSE NoTail)
=============================================================================
