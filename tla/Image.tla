------------------------------- MODULE Image --------------------------------
(***************************************************************************)
(* The on-disk form of inodes and directories, as lib/inode.c writes it    *)
(* and as lib/namei.c, lib/data.c and lib/dir.c read it.                   *)
(*                                                                         *)
(* Names are sequences of character codes, and a directory block keeps its *)
(* dirents and the text of its names by offset: lengths and orders are     *)
(* those of the code.  A data block of a file is a token.  Every inode has *)
(* a metadata block of its own, so that inline data begin behind the inode *)
(* and its attributes at that offset of the block; where inodes are really *)
(* put is the business of ImageLayout, compressed data that of ZFile.      *)
(* Blocks are tuples: <<"dir", block>>, <<"file", ...>>, Hole or Zeroes.   *)
(***************************************************************************)
EXTENDS Integers, Sequences, SequencesExt, FiniteSets, FiniteSetsExt, TLC

CONSTANT BlkSz      \* erofs_blksiz

DirentSize == 12
CompactSize == 32
ExtendedSize == 64
NameLen == 255      \* EROFS_NAME_LEN
UShort == 65536
NullAddr == -1
Hole == <<"hole">>
Zeroes == <<"zeroes">>
FT == [file |-> 1, dir |-> 2, chr |-> 3, blk |-> 4, fifo |-> 5, sock |-> 6, symlink |-> 7]
FTMax == 8
Special == {"chr", "blk", "fifo", "sock"}
Compressed == {"full", "compact"}
Layouts == {"plain", "inline", "chunk"} \cup Compressed
DotName == <<46>>
DotDot == <<46, 46>>
Slash == 47

Blks(n) == (n + BlkSz - 1) \div BlkSz
RoundUp(n, a) == ((n + a - 1) \div a) * a

(* strncmp: it stops behind the first difference or the first NUL. *)
StrNCmp(a, b, n) ==
    LET stop == {k \in 1 .. n : a[k] # b[k] \/ a[k] = 0}
    IN  IF stop = {} THEN 0 ELSE a[Min(stop)] - b[Min(stop)]
MinLen(a, b) == Min({Len(a), Len(b)})

-----------------------------------------------------------------------------
(* Directories as mkfs writes them.  A dentry is [name, nid, type].        *)

CompSubdir(d, e) == StrNCmp(Append(d.name, 0), Append(e.name, 0), MinLen(d.name, e.name) + 1) < 0

DirentLen(d) == Len(d.name) + DirentSize
Full(used, d) == used + DirentLen(d) > BlkSz

(* erofs_prepare_dir_file *)
DirSize(sorted) ==
    FoldLeft(LAMBDA size, d : (IF (size % BlkSz) + DirentLen(d) > BlkSz THEN RoundUp(size, BlkSz) ELSE size) + DirentLen(d),
             0, sorted)

(* fill_dirblock *)
FillBlock(head, size) ==
    LET q == DirentSize * Len(head)
        text == FoldLeft(LAMBDA s, d : s \o d.name, <<>>, head)
    IN  [de |-> [k \in 1 .. Len(head) |->
                     [nid |-> head[k].nid, type |-> head[k].type,
                      nameoff |-> q + MapThenSumSet(LAMBDA j : Len(head[j].name), 1 .. k - 1)]],
         text |-> [o \in q .. size - 1 |-> IF o - q < Len(text) THEN text[o - q + 1] ELSE 0]]

(* erofs_write_dir_file: the blocks of a directory; the last one is the    *)
(* tail unless it is full.                                                 *)
DirBlocks(sorted) ==
    LET walk == FoldLeft(LAMBDA w, d : IF Full(w.used, d)
                                       THEN [done |-> Append(w.done, w.head), head |-> <<d>>, used |-> DirentLen(d)]
                                       ELSE [w EXCEPT !.head = Append(@, d), !.used = @ + DirentLen(d)],
                         [done |-> <<>>, head |-> <<>>, used |-> 0], sorted)
    IN  [k \in 1 .. Len(walk.done) |-> <<"dir", FillBlock(walk.done[k], BlkSz)>>] \o <<<<"dir", FillBlock(walk.head, walk.used)>>>>

-----------------------------------------------------------------------------
(* Chunk-based files.  A file is a sequence of blocks, some of them holes, *)
(* sizes are counted in blocks except that of the last chunk.              *)

LowBit(n) == IF n = 0 THEN 0 ELSE Max({p \in {1, 2, 4, 8, 16} : n % p = 0})
Pow2Below(n) == Max({p \in {1, 2, 4, 8, 16} : p <= n})
Pow2Above(n) == Min({p \in {1, 2, 4, 8, 16} : p >= n})
AsRead(blocks) == [k \in DOMAIN blocks |-> IF blocks[k] = Hole THEN Zeroes ELSE blocks[k]]
Sparse(blocks) == \A k \in DOMAIN blocks : blocks[k] = Hole
HoleChunk == [key |-> <<>>, blkaddr |-> NullAddr, len |-> 0]

(* erofs_blob_init: a chunk of zeroes is a hole. *)
BlobInit(chunkblks) ==
    [hash |-> {[key |-> <<[k \in 1 .. chunkblks |-> Zeroes], chunkblks * BlkSz>>, blkaddr |-> NullAddr, len |-> chunkblks * BlkSz]},
     data |-> <<>>]

(* erofs_blob_getchunk *)
GetChunk(blob, blocks, len) ==
    LET key == <<AsRead(blocks), len>>
        found == {c \in blob.hash : c.key = key}
        new == [key |-> key, blkaddr |-> Len(blob.data) + 1, len |-> len]
    IN  IF found = {}
        THEN [blob |-> [hash |-> blob.hash \cup {new}, data |-> blob.data \o AsRead(blocks)], chunk |-> new]
        ELSE LET c == CHOOSE c \in found : TRUE
             IN  [blob |-> blob, chunk |-> IF c.blkaddr = NullAddr THEN HoleChunk ELSE c]

(* erofs_blob_can_merge.  There is one device, whose number is compared    *)
(* too in the code.                                                        *)
CanMerge_Any(last, chunk) == (last = HoleChunk) = (chunk = HoleChunk)
CanMerge(last, chunk) ==
    \/ last = HoleChunk /\ chunk = HoleChunk
    \/ last.blkaddr * BlkSz + last.len = chunk.blkaddr * BlkSz

(* erofs_update_minextblks, with the tail of the last interval *)
MinExtBlks(chunks, cs, size) ==
    LET starts == {1} \cup {k \in 2 .. Len(chunks) : ~CanMerge(chunks[k - 1], chunks[k])}
        Ends(k) == IF \E j \in starts : j > k THEN (Min({j \in starts : j > k}) - 1) * cs
                   ELSE IF Last(chunks) = HoleChunk THEN Len(chunks) * cs ELSE size \div BlkSz
        bits == {LowBit(Ends(k) - (k - 1) * cs) : k \in starts} \ {0}
    IN  Min(bits \cup {Blks(size)})

(* erofs_blob_mergechunks *)
MergeChunks(chunks, cs, new, size) ==
    IF cs >= new THEN [cs |-> cs, index |-> chunks]
    ELSE [cs |-> new, index |-> [d \in 1 .. (Blks(size) + new - 1) \div new |-> chunks[(d - 1) * (new \div cs) + 1]]]

(* erofs_blob_write_chunked_file and erofs_blob_write_chunk_indexes *)
Part(blocks, cs, c) == SubSeq(blocks, (c - 1) * cs + 1, Min({c * cs, Len(blocks)}))
Grown(w, g) == [blob |-> g.blob, chunks |-> Append(w.chunks, g.chunk)]
PutChunk(w, part, len) ==
    IF Sparse(part) THEN [w EXCEPT !.chunks = Append(@, HoleChunk)] ELSE Grown(w, GetChunk(w.blob, part, len))
PutChunks(blob, blocks, size, cs) ==
    FoldLeft(LAMBDA w, c : PutChunk(w, Part(blocks, cs, c), Min({size - (c - 1) * cs * BlkSz, cs * BlkSz})),
             [blob |-> blob, chunks |-> <<>>], [c \in 1 .. (Blks(size) + cs - 1) \div cs |-> c])
Indexed(walk, m) == [blob |-> walk.blob, cs |-> m.cs, index |-> [k \in DOMAIN m.index |-> m.index[k].blkaddr]]
Merged(walk, cs, size) == Indexed(walk, MergeChunks(walk.chunks, cs, Pow2Below(MinExtBlks(walk.chunks, cs, size)), size))
WriteChunked(blob, blocks, size, chunkblks) ==
    LET cs == IF Sparse(blocks) THEN Pow2Above(Blks(size)) ELSE chunkblks
    IN  Merged(PutChunks(blob, blocks, size, cs), cs, size)

-----------------------------------------------------------------------------
(* Inodes.  mk holds the options of mkfs and the time of the build.        *)

EncodeDev_Short(dev) == (dev.minor % 256) + dev.major * 256
EncodeDev(dev) == (dev.minor % 256) + dev.major * 256 + (dev.minor \div 256) * 1048576
DecodeDev(u) == [major |-> (u \div 256) % 4096, minor |-> (u % 256) + (u \div 1048576) * 256]

(* __erofs_fill_inode and erofs_should_use_inode_extended.  The link count *)
(* is still 1 here.  Groups are treated as owners are, files of 4 GiB and  *)
(* the error of a forced compact inode are left out.                       *)
FillInode(t, mk) ==
    LET mtime == IF mk.inherit = "fixed" \/ (mk.inherit = "clamp" /\ t.mtime >= mk.build) THEN mk.build ELSE t.mtime
        uid == IF mk.uid = -1 THEN t.uid ELSE mk.uid
        ext == \/ mk.force = "extended"
               \/ ~t.packed /\ (uid >= UShort \/ (mtime # mk.build /\ ~mk.ignore))
    IN  [mtime |-> mtime, uid |-> uid, isize |-> IF ext THEN ExtendedSize ELSE CompactSize]

(* The layout that the tail-end rules leave (erofs_prepare_inode_buffer). *)
LayoutOf_Aligned(t, mk, isize, size) ==
    CASE t.kind \in Special -> "plain"
      [] t.data \in {"chunk", "compact"} -> t.data
      [] OTHER -> IF (t.kind = "file" /\ ~mk.inline) \/ isize + t.xisize + (size % BlkSz) > BlkSz
                  THEN "plain" ELSE "inline"
LayoutOf(t, mk, isize, size) ==
    CASE t.kind \in Special -> "plain"
      [] t.data \in {"chunk", "compact"} -> t.data
      [] OTHER -> IF \/ size % BlkSz = 0
                     \/ t.kind = "file" /\ ~mk.inline
                     \/ isize + t.xisize + (size % BlkSz) > BlkSz
                  THEN "plain" ELSE "inline"

(* erofs_iflush: what the inode holds on disk. *)
IFlush(t, mk, size, nlink, u) ==
    LET f == FillInode(t, mk)
        compact == f.isize = CompactSize
    IN  [version |-> IF compact THEN "compact" ELSE "extended",
         layout |-> LayoutOf(t, mk, f.isize, size), xisize |-> t.xisize, fmt |-> t.kind, perm |-> t.perm,
         nlink |-> IF compact THEN nlink % UShort ELSE nlink,
         uid |-> IF compact THEN f.uid % UShort ELSE f.uid,
         mtime |-> IF compact THEN 0 ELSE f.mtime,
         size |-> size, u |-> u, attrs |-> t.attrs, shared |-> t.shared, packed |-> t.packed]

BogusInode == [version |-> "compact", fmt |-> "bogus", layout |-> "plain"]
OnDisk(im, nid) == IF nid \in DOMAIN im.ino THEN im.ino[nid] ELSE BogusInode

(* erofs_read_inode_from_disk; chunk-based inodes keep their format in u. *)
ReadErr(d) ==
    CASE d.layout \notin Layouts -> "EOPNOTSUPP"
      [] d.version \notin {"compact", "extended"} -> "EOPNOTSUPP"
      [] d.fmt \notin DOMAIN FT -> "EFSCORRUPTED"
      [] d.layout = "chunk" -> IF d.u.format = "ok" THEN "" ELSE "EOPNOTSUPP"
      [] OTHER -> ""
ReadInode(im, nid) ==
    LET d == OnDisk(im, nid)
    IN  [err |-> ReadErr(d), nid |-> nid,
         isize |-> IF d.version = "compact" THEN CompactSize ELSE ExtendedSize]
        @@ (IF ReadErr(d) # "" THEN d
            ELSE [mtime |-> IF d.version = "compact" THEN im.sb.build ELSE d.mtime,
                  u |-> IF d.fmt \in {"chr", "blk"} THEN DecodeDev(d.u) ELSE IF d.fmt \in Special THEN DecodeDev(0) ELSE d.u] @@ d)

-----------------------------------------------------------------------------
(* Reading data.  Addresses of blocks beyond the image read as zeroes.     *)

BlockAt(s, a) == IF a \in DOMAIN s THEN s[a] ELSE Zeroes
NoMap(err) == [err |-> err, mapped |-> FALSE, meta |-> FALSE, la |-> 0, llen |-> 0, at |-> 0]

(* erofs_map_blocks_flatmode.  An inode is at the start of its block, and  *)
(* inline data beyond the end of that block is refused also where the code *)
(* would find it in a later one.                                           *)
MapFlat(vi, la) ==
    LET lastblk == Blks(vi.size) - (IF vi.layout = "inline" THEN 1 ELSE 0)
        Mapped(meta, at, len) == [err |-> "", mapped |-> TRUE, meta |-> meta, la |-> la, llen |-> len, at |-> at]
    IN  CASE la < lastblk * BlkSz -> Mapped(FALSE, vi.u + la \div BlkSz, lastblk * BlkSz - la)
          [] la >= lastblk * BlkSz /\ vi.layout = "inline" ->
                 IF vi.isize + vi.xisize + (la % BlkSz) + vi.size - la > BlkSz
                 THEN NoMap("EFSCORRUPTED") ELSE Mapped(TRUE, vi.nid, vi.size - la)
          [] OTHER -> NoMap("EIO")

(* erofs_map_blocks *)
MapBlocks(vi, la) ==
    IF la >= vi.size THEN [NoMap("") EXCEPT !.la = la]
    ELSE IF vi.layout # "chunk" THEN MapFlat(vi, la)
    ELSE LET bytes == vi.u.cs * BlkSz
             nr == la \div bytes
             addr == vi.u.index[nr + 1]
         IN  [err |-> "", mapped |-> addr # NullAddr, meta |-> FALSE, la |-> nr * bytes,
              llen |-> Min({bytes, RoundUp(vi.size - nr * bytes, BlkSz)}), at |-> addr]

(* erofs_read_one_data: n bytes at an offset into the mapping. *)
ReadOneData(im, vi, m, off, n) ==
    IF m.meta THEN <<BlockAt(im.tail, m.at)>>
    ELSE [k \in 1 .. Blks((off % BlkSz) + n) |->
             BlockAt(IF vi.layout = "chunk" THEN im.blob.data ELSE im.blk, m.at + off \div BlkSz + k - 1)]

(* erofs_read_raw_data: the blocks that hold the bytes from ptr up to end. *)
MapEnd(m, end) == IF ~m.mapped /\ m.llen = 0 THEN end ELSE Min({end, m.la + m.llen})
RECURSIVE ReadRaw(_, _, _, _, _), ReadExtent(_, _, _, _, _, _)
ReadRaw(im, vi, ptr, end, done) ==
    IF ptr >= end THEN [err |-> "", data |-> done]
    ELSE ReadExtent(im, vi, ptr, end, done, MapBlocks(vi, ptr))
ReadExtent(im, vi, ptr, end, done, m) ==
    IF m.err # "" THEN [err |-> m.err, data |-> <<>>]
    ELSE ReadRaw(im, vi, MapEnd(m, end), end,
                 done \o (IF m.mapped THEN ReadOneData(im, vi, m, ptr - m.la, MapEnd(m, end) - ptr)
                          ELSE [k \in 1 .. Blks(MapEnd(m, end) - ptr) |-> Zeroes]))

(* Compressed data: see ZFile. *)
ReadZ(vi, ptr, end) ==
    IF ~vi.u.ok THEN [err |-> "EFSCORRUPTED", data |-> <<>>]
    ELSE [err |-> "", data |-> SubSeq(vi.u.data, ptr \div BlkSz + 1, Min({Blks(end), Len(vi.u.data)}))]

(* erofs_pread *)
PRead(im, vi, count, off) ==
    IF vi.layout \in Compressed THEN ReadZ(vi, off, off + count) ELSE ReadRaw(im, vi, off, off + count, <<>>)

-----------------------------------------------------------------------------
(* Reading directories (lib/dir.c).  A block that is no directory block    *)
(* has no dirent and no text.                                              *)

NoBlock == [de |-> <<>>, text |-> <<>>]
AsDirBlock(r) ==
    [err |-> r.err] @@ (IF r.err = "" /\ r.data # <<>> /\ r.data[1][1] = "dir" THEN r.data[1][2] ELSE NoBlock)
DirBlock(im, vi, pos) == AsDirBlock(PRead(im, vi, Min({vi.size - pos, BlkSz}), pos))

(* Behind the dirents lie characters: no offset of a name. *)
DeAt(b, k) == IF k < Len(b.de) THEN b.de[k + 1] ELSE [nid |-> 0, nameoff |-> UShort - 1, type |-> 0]
CharAt(b, o) == IF o \in DOMAIN b.text THEN b.text[o] ELSE 0
FirstNameOff(b) == IF b.de = <<>> THEN 0 ELSE b.de[1].nameoff

(* The length of name k of a block; next to last names end at the next. *)
StrNLen(b, off, n) ==
    LET nul == {o \in off .. off + n - 1 : CharAt(b, o) = 0} IN IF nul = {} THEN Max({n, 0}) ELSE Min(nul) - off
NameLenAt(b, k, end, size) ==
    IF (k + 1) * DirentSize >= end THEN StrNLen(b, DeAt(b, k).nameoff, size - DeAt(b, k).nameoff)
    ELSE DeAt(b, k + 1).nameoff - DeAt(b, k).nameoff
NameAt(b, off, len) == [j \in 1 .. len |-> CharAt(b, off + j - 1)]

(* What a walk over a directory keeps: struct erofs_dir_context and the    *)
(* locals of traverse_dirents.                                             *)
NewCtx(valid, pnid) == [next |-> 0, prev |-> <<>>, dots |-> {}, valid |-> valid, pnid |-> pnid]

Misordered_Later(prev, name) == StrNCmp(prev, name, MinLen(prev, name)) > 0
Misordered(prev, name) ==
    LET cmp == StrNCmp(prev, name, MinLen(prev, name))
    IN  cmp > 0 \/ (cmp = 0 /\ Len(prev) >= Len(name))

IllegalName(name) ==
    \E k \in DOMAIN name : name[k] = Slash /\ \A j \in 1 .. k : name[j] # 0

(* One turn of the loop of traverse_dirents up to the callback: the entry  *)
(* must be sane, then the context is brought up to date, then the checks   *)
(* of fsck follow.                                                         *)
Seen(ctx, name, atroot, root) ==
    [next |-> ctx.next + Len(name), prev |-> name, dots |-> ctx.dots \cup ({name} \cap {DotName, DotDot}),
     valid |-> ctx.valid \/ atroot, pnid |-> IF atroot THEN root ELSE ctx.pnid]
Suspect(ctx, after, dir, de, name) ==
    \/ ctx.prev # <<>> /\ Misordered(ctx.prev, name)
    \/ de.type >= FTMax
    \/ name \in {DotName, DotDot} /\ name \in ctx.dots
    \/ name = DotDot /\ after.valid /\ de.nid # after.pnid
    \/ name = DotName /\ de.nid # dir
    \/ name \notin {DotName, DotDot} /\ IllegalName(name)
Judged(ctx, after, dir, de, name, fsck) ==
    [err |-> IF fsck /\ Suspect(ctx, after, dir, de, name) THEN "EFSCORRUPTED" ELSE "",
     name |-> name, nid |-> de.nid, type |-> de.type, isdot |-> name \in {DotName, DotDot}, ctx |-> after]
Named(im, dir, ctx, de, name, fsck) ==
    Judged(ctx, Seen(ctx, name, name = DotDot /\ dir = im.sb.root, im.sb.root), dir, de, name, fsck)
Sized(im, dir, b, size, ctx, de, len, fsck) ==
    IF de.nameoff = ctx.next /\ de.nameoff + len <= size /\ len \in 1 .. NameLen
    THEN Named(im, dir, ctx, de, NameAt(b, de.nameoff, len), fsck)
    ELSE [err |-> "EFSCORRUPTED", name |-> <<>>, nid |-> de.nid, type |-> de.type, isdot |-> FALSE, ctx |-> ctx]
Dirent(im, dir, b, k, size, ctx, fsck) ==
    Sized(im, dir, b, size, ctx, DeAt(b, k), NameLenAt(b, k, FirstNameOff(b), size), fsck)

(* erofs_iterate_dir: the checks before and behind a block. *)
BadFirst(b) == FirstNameOff(b) < DirentSize \/ FirstNameOff(b) >= BlkSz
Missing(ctx, fsck) == fsck /\ ctx.dots # {DotName, DotDot}

(* All that a callback that never stops is given, and how the walk ends:   *)
(* w is the walk so far, b the block and d the entry it has come to.       *)
RECURSIVE WalkFrom(_, _, _, _, _), WalkBlocks(_, _, _, _)
WalkEntry(im, vi, fsck, w, b, d) ==
    IF d.err # "" THEN [list |-> w.list, err |-> d.err]
    ELSE WalkFrom(im, vi, fsck, [w EXCEPT !.k = @ + 1, !.ctx = d.ctx, !.list = Append(@, d)], b)
WalkFrom(im, vi, fsck, w, b) ==
    IF w.k * DirentSize >= FirstNameOff(b) THEN WalkBlocks(im, vi, fsck, [w EXCEPT !.pos = @ + BlkSz, !.k = 0])
    ELSE WalkEntry(im, vi, fsck, w, b, Dirent(im, vi.nid, b, w.k, Min({vi.size - w.pos, BlkSz}), w.ctx, fsck))
EnterBlock(ctx, b) == [ctx EXCEPT !.next = FirstNameOff(b), !.prev = <<>>]
WalkBlock(im, vi, fsck, w, b) ==
    IF b.err # "" \/ BadFirst(b) THEN [list |-> w.list, err |-> IF b.err # "" THEN b.err ELSE "EFSCORRUPTED"]
    ELSE WalkFrom(im, vi, fsck, [w EXCEPT !.ctx = EnterBlock(@, b)], b)
WalkBlocks(im, vi, fsck, w) ==
    IF w.pos >= vi.size THEN [list |-> w.list, err |-> IF Missing(w.ctx, fsck) THEN "EFSCORRUPTED" ELSE ""]
    ELSE WalkBlock(im, vi, fsck, w, DirBlock(im, vi, w.pos))

IterateDir(im, vi, fsck) ==
    IF vi.fmt # "dir" THEN [list |-> <<>>, err |-> "ENOTDIR"]
    ELSE WalkBlocks(im, vi, fsck, [pos |-> 0, k |-> 0, ctx |-> NewCtx(FALSE, 0), list |-> <<>>])

-----------------------------------------------------------------------------
(* Looking names up (lib/namei.c).                                         *)

(* find_target_dirent: "none" when the block does not hold the name. *)
Found(err, nid) == [err |-> err, nid |-> nid]
FindTarget(b, size, name) ==
    LET n == (FirstNameOff(b) + DirentSize - 1) \div DirentSize
        Off(k) == DeAt(b, k).nameoff
        NLen(k) == NameLenAt(b, k, FirstNameOff(b), size)
        bad == {k \in 0 .. n - 1 : NLen(k) \notin 0 .. NameLen \/ Off(k) + NLen(k) > size}
        hit == {k \in (0 .. n - 1) \ bad : NameAt(b, Off(k), NLen(k)) = name}
        stop == bad \cup hit
    IN  IF stop = {} THEN Found("none", 0)
        ELSE IF Min(stop) \in bad THEN Found("EFSCORRUPTED", 0)
        ELSE Found("", DeAt(b, Min(stop)).nid)

(* The loop of erofs_namei.  The inode is not asked whether it is a        *)
(* directory.                                                              *)
RECURSIVE FindFrom(_, _, _, _)
FindOn(im, vi, pos, name, r) == IF r.err = "none" THEN FindFrom(im, vi, pos + BlkSz, name) ELSE r
FindIn(im, vi, pos, name, b) ==
    IF b.err # "" THEN Found(b.err, 0)
    ELSE IF BadFirst(b) THEN Found("EFSCORRUPTED", 0)
    ELSE FindOn(im, vi, pos, name, FindTarget(b, Min({vi.size - pos, BlkSz}), name))
FindFrom(im, vi, pos, name) ==
    IF pos >= vi.size THEN Found("ENOENT", 0) ELSE FindIn(im, vi, pos, name, DirBlock(im, vi, pos))

NameiIn(im, vi, name) == IF vi.err # "" THEN Found(vi.err, vi.nid) ELSE FindFrom(im, vi, 0, name)
Namei(im, nid, name) == NameiIn(im, ReadInode(im, nid), name)

(* link_path_walk and erofs_ilookup; a path is the sequence of its names. *)
ILookup(im, path) ==
    LET end == FoldLeft(LAMBDA nd, name : IF nd.err # "" THEN nd ELSE Namei(im, nd.nid, name),
                        [err |-> "", nid |-> im.sb.root], path)
    IN  IF end.err # "" THEN end ELSE [err |-> ReadInode(im, end.nid).err, nid |-> end.nid]

(* erofs_get_pathname_iter over the entries of a directory from the k-th;  *)
(* pos characters of the path lie before it.                               *)
RECURSIVE PathnameIter(_, _, _, _, _, _), PathnameDir(_, _, _, _, _)
PathnameSub(im, walk, k, target, pos, size, below) ==
    CASE below.ret = "none" -> PathnameIter(im, walk, k + 1, target, pos, size)
      [] below.ret = "found" -> [below EXCEPT !.path = <<walk.list[k].name>> \o @]
      [] OTHER -> below
PathnameEntry(im, walk, k, target, pos, size, d) ==
    IF d.isdot \/ (d.nid # target /\ d.type \notin {0, FT.dir}) THEN PathnameIter(im, walk, k + 1, target, pos, size)
    ELSE IF d.nid # target
    THEN PathnameSub(im, walk, k, target, pos, size, PathnameDir(im, ReadInode(im, d.nid), target, pos + Len(d.name) + 1, size))
    ELSE IF pos + Len(d.name) + 2 > size THEN [ret |-> "ERANGE", path |-> <<>>]
    ELSE [ret |-> "found", path |-> <<d.name>>]
PathnameIter(im, walk, k, target, pos, size) ==
    IF k > Len(walk.list) THEN [ret |-> IF walk.err = "" THEN "none" ELSE walk.err, path |-> <<>>]
    ELSE PathnameEntry(im, walk, k, target, pos, size, walk.list[k])
PathnameDir(im, vi, target, pos, size) ==
    IF vi.err # "" THEN [ret |-> vi.err, path |-> <<>>]
    ELSE IF vi.fmt # "dir" THEN [ret |-> "none", path |-> <<>>]
    ELSE PathnameIter(im, IterateDir(im, vi, FALSE), 1, target, pos, size)

(* erofs_get_pathname *)
GetPathname(im, nid, size) ==
    IF nid = im.sb.root THEN [ret |-> IF size < 2 THEN "ERANGE" ELSE "found", path |-> <<>>]
    ELSE PathnameDir(im, ReadInode(im, im.sb.root), nid, 0, size)
=============================================================================
