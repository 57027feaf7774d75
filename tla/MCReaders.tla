------------------------------ MODULE MCReaders -----------------------------
EXTENDS Readers

RX == {"r", "x"}
RWX == User
a == <<97>>
b == <<98>>
c == <<99>>
Long(n) == [k \in 1 .. n |-> 109]
Attr(key, user, empty) == [key |-> key, user |-> user, empty |-> empty, size |-> 12]

(* The inodes of a tree. *)
Inode(kind, perm) ==
    [kind |-> kind, perm |-> perm, uid |-> 0, mtime |-> 5, attrs |-> <<>>, shared |-> 0, xisize |-> 0, size |-> 0,
     blocks |-> <<>>, ents |-> <<>>, parent |-> 1, base |-> 0, data |-> "flat", rdev |-> [major |-> 0, minor |-> 0], packed |-> FALSE]
Dir(perm, parent, ents) == [Inode("dir", perm) EXCEPT !.parent = parent, !.ents = ents]
Blk(i, k) == <<"file", i, k>>
File(i, size) == [Inode("file", RWX) EXCEPT !.size = size, !.blocks = [k \in 1 .. Blks(size) |-> Blk(i, k)]]
Chunked(size, blocks) == [Inode("file", RX \cup {"suid"}) EXCEPT !.size = size, !.blocks = blocks, !.data = "chunk"]
Link(i) == [Inode("symlink", RWX) EXCEPT !.size = 5, !.blocks = <<Blk(i, 1)>>]
Device(kind, major, minor) == [Inode(kind, RWX) EXCEPT !.rdev = [major |-> major, minor |-> minor]]

(* Every kind of file, a directory without write permission, two names of  *)
(* a file and of a pipe, chunks that repeat and holes.                     *)
X(i) == Blk(7, i)
Mixed ==
    <<Dir(RWX, 1, (<<45>> :> 2) @@ (a :> 3) @@ (b :> 4) @@ (c :> 5)),
      [File(2, BlkSz + 20) EXCEPT !.attrs = <<Attr("u", TRUE, FALSE), Attr("t", FALSE, FALSE)>>, !.xisize = 36, !.uid = 70000],
      [Dir(RX, 1, (a :> 2) @@ (b :> 6) @@ (c :> 7) @@ (Long(2) :> 8)) EXCEPT !.mtime = 4, !.uid = 1,
          !.attrs = <<Attr("u", TRUE, FALSE), Attr("e", TRUE, TRUE), Attr("t", TRUE, FALSE)>>, !.xisize = 48],
      Link(4), Device("chr", 8, 300), [Device("fifo", 0, 0) EXCEPT !.mtime = 3],
      Chunked(7 * BlkSz + 20, <<X(1), X(2), X(1), X(2), Hole, Hole, X(3), X(4)>>),
      Chunked(4 * BlkSz, <<X(1), X(2), X(3), Hole>>)>>
Linked2 == [Mixed EXCEPT ![2].perm = RX, ![1].ents = @ @@ (Long(1) :> 5), ![3].ents = @ @@ (Long(1) :> 6)]

(* Directories of exactly one block, of one block and a tail that cannot   *)
(* be inlined, and one of a base image that has moved.                     *)
Wide ==
    <<Dir(RWX, 1, (a :> 2) @@ (b :> 3) @@ (Long(15) :> 4) @@ (Long(14) :> 5)),
      Dir(RWX, 1, (Long(40) :> 5) @@ (Long(37) :> 5)),
      Dir(RWX, 1, (Long(40) :> 5) @@ (Long(38) :> 5) @@ (Long(60) :> 5) @@ (Long(12) :> 6)),
      File(4, 2 * BlkSz), [File(5, 2 * BlkSz - 20) EXCEPT !.data = "compact"],
      [Dir(RWX, 3, a :> 5) EXCEPT !.base = 1]>>

Small ==
    <<Dir(RWX, 1, (a :> 2) @@ (b :> 3)), Dir(RWX, 1, (a :> 3) @@ (Long(64) :> 4)), [File(3, BlkSz + 9) EXCEPT !.xisize = 24, !.attrs = <<Attr("u", TRUE, FALSE)>>],
      Chunked(2 * BlkSz, <<X(1), X(1)>>)>>
Packed == Append(Small, [File(5, BlkSz) EXCEPT !.packed = TRUE, !.mtime = 9])

MkfsOptions == [inherit |-> "none", uid |-> -1, force |-> "", ignore |-> FALSE, inline |-> TRUE, build |-> 5, chunkblks |-> 1]
NoFs == [dent |-> <<>>, node |-> <<>>]
UsedDir(perm) == [dent |-> (<<>> :> 1), node |-> (1 :> [kind |-> "dir", perm |-> perm, data |-> <<>>, size |-> 0, uid |-> 1, mtime |-> 1, rdev |-> DecodeDev(0), attrs |-> {}])]
Used(kind, perm) == LET f == UsedDir(RX) IN
    [dent |-> f.dent @@ (<<a>> :> 2) @@ (<<b>> :> 3), node |-> f.node @@ (2 :> [f.node[1] EXCEPT !.kind = kind, !.perm = perm]) @@ (3 :> [f.node[1] EXCEPT !.kind = "file"])]

Case(t, args) ==
    [tool |-> "fsck", tree |-> t, mk |-> MkfsOptions, args |-> args, su |-> TRUE, umask |-> {"x"}, pre |-> NoFs, sum |-> TRUE, packed |-> 0,
     hurt |-> FALSE, ndebug |-> TRUE, names |-> {a, b, DotDot, <<45>>, Long(40)}]
Mk(i, u, f, g, l, n) == [inherit |-> i, uid |-> u, force |-> f, ignore |-> g, inline |-> l, build |-> 5, chunkblks |-> n]
Ex == <<"extract=x">>
MCConfigs ==
    {Case(Mixed, <<>>), Case(Wide, <<"extract">>), Case(Wide, Ex), Case(Small, Ex), [Case(Packed, <<"extract">>) EXCEPT !.packed = 5],
     [Case(Packed, <<>>) EXCEPT !.packed = 5, !.hurt = TRUE],
     Case(Small, <<"extract", "xattrs">>),
     [Case(Small, <<"extract">>) EXCEPT !.hurt = TRUE, !.mk.inline = FALSE]}
    \cup {[Case(Linked2, Ex \o o) EXCEPT !.su = s] : o \in {<<>>, <<"preserve">>, <<"no-preserve", "xattrs">>,
          <<"preserve-owner", "no-preserve-perms", "xattrs", "no-xattrs">>, <<"preserve-perms", "no-preserve-owner">>}, s \in BOOLEAN}
    \cup {[Case(Mixed, <<"extract=/", "force", "xattrs">>) EXCEPT !.su = s, !.mk = m] : s \in BOOLEAN,
          m \in {Mk("fixed", 3, "", FALSE, TRUE, 2), Mk("clamp", -1, "extended", FALSE, FALSE, 2), Mk("none", -1, "", TRUE, TRUE, 4)}}
    \cup {Case(Small, o) : o \in {<<"extract=">>, <<"extract=/">>, <<"extract", "overwrite">>, <<"extract", "device">>}}
    \cup {[Case(Small, Ex \o o) EXCEPT !.su = s, !.pre = f] : o \in {<<>>, <<"overwrite">>}, s \in BOOLEAN,
          f \in {UsedDir(RX), Used("dir", RX), Used("file", RX), Used("symlink", RX)}}
    \cup {[Case(t, <<>>) EXCEPT !.tool = "fuse", !.ndebug = n] : t \in {Mixed, Wide}, n \in BOOLEAN}

(* One fault: a field of an inode or a dirent, a character of a name, the  *)
(* super block.                                                            *)
Set(m, n, d) == [m EXCEPT !.ino[n] = d]
HarmInode(m, n) ==
    LET d == m.ino[n]
    IN  {Set(m, n, [d EXCEPT !.fmt = "bogus"]), Set(m, n, [d EXCEPT !.version = "bogus"]), Set(m, n, [d EXCEPT !.layout = "bogus"]),
         Set(m, n, [d EXCEPT !.fmt = "dir"])}
        \cup {Set(m, n, [d EXCEPT !.xisize = x]) : x \in {12, 28, 100}}
        \cup (IF d.layout \in {"plain", "inline"} THEN {Set(m, n, [d EXCEPT !.size = s]) : s \in {0, d.size - 1, d.size + 1, d.size + BlkSz}} ELSE {})
        \cup (IF d.layout = "chunk" THEN {Set(m, n, [d EXCEPT !.u.format = "bogus"])} ELSE {})
HarmBlock(m, blk) ==
    {[blk EXCEPT ![2].de[k].nid = n] : k \in DOMAIN blk[2].de, n \in (DOMAIN m.ino) \cup {0}}
    \cup {[blk EXCEPT ![2].de[k].nameoff = o] : k \in DOMAIN blk[2].de, o \in {0, 12, 24, 25, 36, 60, 200}}
    \cup {[blk EXCEPT ![2].de[k].type = o] : k \in DOMAIN blk[2].de, o \in {1, 9}}
    \cup {[blk EXCEPT ![2].text[o] = ch] : o \in {x \in DOMAIN blk[2].text : x < 56}, ch \in {0, Slash, 46, 97, 98}}
MCSpans == {<<BlkSz, 0>>, <<2 * BlkSz, BlkSz>>, <<BlkSz, 4 * BlkSz>>, <<8 * BlkSz, 0>>}
MCHarm(m) ==
    {[m EXCEPT !.sb.valid = FALSE], [m EXCEPT !.sb.sumok = FALSE]}
    \cup UNION {HarmInode(m, n) : n \in DOMAIN m.ino}
    \cup UNION {{[m EXCEPT !.blk[k] = x] : x \in HarmBlock(m, m.blk[k])} : k \in {j \in DOMAIN m.blk : m.blk[j][1] = "dir"}}
    \cup UNION {{[m EXCEPT !.tail[n] = x] : x \in HarmBlock(m, m.tail[n])} : n \in {j \in DOMAIN m.tail : m.tail[j][1] = "dir"}}
=============================================================================
