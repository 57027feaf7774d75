------------------------------ MODULE Readers -------------------------------
(***************************************************************************)
(* Image, checker and file system daemon together: the image that mkfs     *)
(* wrote is checked, extracted or mounted, as cf.tool says, and what comes *)
(* out is compared with the tree that went in.                             *)
(***************************************************************************)
EXTENDS Fsck, Fuse

vars == <<mkfsVars, fsckVars, fuseVars>>

Init == mkfsInit /\ fsckInit /\ fuseInit
Mkfs == (WriteInode \/ Store) /\ UNCHANGED <<fsckVars, fuseVars>>
Check == fsckNext /\ UNCHANGED fuseVars
Serve == fuseNext /\ UNCHANGED fsckVars
Done == pc = "done" /\ UNCHANGED vars
Next == Mkfs \/ Check \/ Serve \/ Done
Spec == Init /\ [][Next]_vars

-----------------------------------------------------------------------------
tree == cf.tree
Index(nid) == nid \div (BlkSz \div CompactSize)
AllEnts(i) == tree[i].ents @@ (DotName :> i) @@ (DotDot :> tree[i].parent)
SizeOf(i) == IF tree[i].kind = "dir" THEN im.ino[Nid(i)].size ELSE tree[i].size
Mtime(i) == FillInode(tree[i], cf.mk).mtime
Settled == pc = "done" /\ ~Refused(opt)

(* An image that was not damaged is clean to fsck, whatever trees, layouts *)
(* and directories of exactly one block mkfs wrote; an extraction into an  *)
(* unused directory succeeds.  A caller who may not make a device fails on *)
(* its second link: the first was skipped; and one who may not write a     *)
(* file by now cannot set its attributes again when it is linked.          *)
LinkedSpecial == \E i \in DOMAIN tree : tree[i].kind \in {"chr", "blk"} /\ Links(tree, i) > 1
LinkedReadOnly ==
    opt.xattrs /\ \E i \in DOMAIN tree : tree[i].kind = "file" /\ Links(tree, i) > 1 /\ "w" \notin tree[i].perm /\ tree[i].attrs # <<>>
CleanReported ==
    (Settled /\ ~hurt /\ opt.devs = 0 /\ (opt.path => cf.pre.dent = <<>> /\ (cf.su \/ ~(LinkedSpecial \/ LinkedReadOnly)))) => exit = 0

(* What fsck calls clean can be used, even when the image was damaged:     *)
(* every inode below the root can be read, each directory lists names that *)
(* differ within a block and has itself as "." and the directory it was    *)
(* reached from as "..".  fsck exits with 0 when the checksum is wrong, so *)
(* this is about images it went through.                                   *)
Step(S) ==
    S \cup UNION {LET l == IterateDir(im, ReadInode(im, e[2]), FALSE).list
                  IN  {<<e[2], l[k].nid>> : k \in {j \in DOMAIN l : ~l[j].isdot}} :
                  e \in {d \in S : ReadInode(im, d[2]).err = "" /\ ReadInode(im, d[2]).fmt = "dir"}}
Edges == FoldLeft(LAMBDA S, k : Step(S), {<<im.sb.root, im.sb.root>>}, [k \in 1 .. Len(tree) |-> k])
BlockNames(vi, k) == LET b == DirBlock(im, vi, k * BlkSz) IN
    [j \in 1 .. Len(b.de) |-> NameAt(b, b.de[j].nameoff, NameLenAt(b, j - 1, FirstNameOff(b), Min({vi.size - k * BlkSz, BlkSz})))]
Usable(e) ==
    LET vi == ReadInode(im, e[2])
        walk == IterateDir(im, vi, FALSE)
    IN  /\ vi.err = ""
        /\ vi.fmt = "dir" =>
             /\ walk.err = ""
             /\ Namei(im, e[2], DotName) = [err |-> "", nid |-> e[2]]
             /\ Namei(im, e[2], DotDot) = [err |-> "", nid |-> IF e[2] = im.sb.root THEN im.sb.root ELSE e[1]]
             /\ \A k \in 0 .. Blks(vi.size) - 1 : IsInjective(BlockNames(vi, k))
CleanIsUsable == (Settled /\ exit = 0 /\ ~corrupted) => \A e \in Edges : Usable(e)

(* A successful extraction to an unused directory leaves the tree that     *)
(* mkfs was given: names, data, links between them, times, modes, owners.  *)
(* Known to differ: a hole at the end of a chunk-based file is cut off,    *)
(* the suid bit of a file goes when it changes hands, and an attribute     *)
(* without a value hides those behind it.                                  *)
RECURSIVE PathsOf(_)
PathsOf(i) ==
    (<<>> :> i) @@ (IF tree[i].kind # "dir" THEN <<>>
                    ELSE FoldSet(LAMBDA n, f : LET sub == PathsOf(tree[i].ents[n])
                                               IN  f @@ [p \in {<<n>> \o q : q \in DOMAIN sub} |-> sub[Tail(p)]],
                                 <<>>, DOMAIN tree[i].ents))
Skipped(i) == tree[i].kind \in {"chr", "blk"} /\ ~cf.su
TailHole(i) == tree[i].blocks # <<>> /\ Last(tree[i].blocks) = Hole
SameData(i, n) ==
    /\ IsPrefix(n.data, AsRead(tree[i].blocks))
    /\ \A k \in DOMAIN tree[i].blocks : tree[i].blocks[k] # Hole => k <= Len(n.data)
    /\ TailHole(i) \/ (Len(n.data) = Len(tree[i].blocks) /\ n.size = tree[i].size)
Shown(i) == LET a == tree[i].attrs
                stop == {k \in DOMAIN a : a[k].empty}
            IN  {a[k].key : k \in {j \in DOMAIN a : (stop = {} \/ j < Min(stop)) /\ (cf.su \/ a[j].user)}}
Extracted(i, n) ==
    LET t == tree[i]
        handed == opt.owner /\ (cf.su \/ FillInode(t, cf.mk).uid = Me)
        perm == IF opt.perms THEN t.perm ELSE t.perm \ cf.umask
    IN  /\ n.kind = t.kind
        /\ n.mtime = IF im.ino[Nid(i)].version = "compact" THEN cf.mk.build ELSE Mtime(i)
        /\ t.kind # "symlink" => n.perm \ {"suid"} = perm \ {"suid"}
        /\ t.kind = "dir" => n.perm = perm
        /\ n.uid = IF handed THEN FillInode(t, cf.mk).uid ELSE Me
        /\ t.kind \in {"chr", "blk"} => n.rdev = t.rdev
        /\ t.kind \in {"file", "symlink"} => SameData(i, n)
        /\ n.attrs = IF opt.decomp /\ opt.xattrs THEN Shown(i) ELSE {}
ExtractedIsTree ==
    (Settled /\ exit = 0 /\ ~hurt /\ opt.path /\ cf.pre.dent = <<>>) =>
        \E want \in {PathsOf(1)} :
            /\ DOMAIN fs.dent = {p \in DOMAIN want : ~Skipped(want[p])}
            /\ \A p \in DOMAIN fs.dent : Extracted(want[p], NodeAt(fs, p))
            /\ \A p, q \in DOMAIN fs.dent : (fs.dent[p] = fs.dent[q]) <=> (want[p] = want[q])

(* The path that erofs_get_pathname finds for an inode leads back to it,   *)
(* and every path of the tree leads to its inode.                          *)
PathsResolve ==
    pc = cf.tool /\ ~hurt =>
        \E want \in {PathsOf(1)} :
            /\ \A p \in DOMAIN want : ILookup(im, p) = [err |-> "", nid |-> Nid(want[p])]
            /\ \A i \in {want[p] : p \in DOMAIN want} :
                  LET g == GetPathname(im, Nid(i), 4096)
                  IN  g.ret = "found" /\ g.path \in DOMAIN want /\ want[g.path] = i

StatOf(i) ==
    [fmt |-> tree[i].kind, perm |-> tree[i].perm, nlink |-> Links(tree, i), size |-> SizeOf(i), uid |-> FillInode(tree[i], cf.mk).uid,
     mtime |-> IF im.ino[Nid(i)].version = "compact" THEN cf.mk.build ELSE Mtime(i),
     rdev |-> IF tree[i].kind \in {"chr", "blk"} THEN tree[i].rdev ELSE DecodeDev(0)]
RightLookup(r) ==
    LET i == Index(ToNid(r.parent))
    IN  IF tree[i].kind # "dir" THEN r.err = "ENOTDIR"
        ELSE /\ r.err = ""
             /\ r.name \in DOMAIN AllEnts(i) => r.ino = ToIno(Nid(AllEnts(i)[r.name])) /\ r.stat = StatOf(AllEnts(i)[r.name])
             /\ r.name \notin DOMAIN AllEnts(i) => r.ino = 0
RightReply ==
    CASE reply.req = "lookup" -> RightLookup(reply)
      [] reply.req = "getattr" -> reply.err = "" /\ reply.stat = StatOf(Index(ToNid(reply.ino)))
      [] reply.req = "readlink" -> reply.err = "" /\ reply.data = tree[Index(ToNid(reply.ino))].blocks
      [] reply.req = "read" ->
             LET i == Index(ToNid(reply.ino))
                 first == reply.off \div BlkSz
             IN  /\ reply.err = "" /\ reply.n = Max({0, Min({reply.size, tree[i].size - reply.off})})
                 /\ reply.data = SubSeq(AsRead(tree[i].blocks), first + 1, first + Blks(reply.n))
      [] OTHER -> TRUE

(* Who asks for a path or an inode is told what the tree says: by the      *)
(* library, and by the daemon whatever requests came before.               *)
AnswersRight == PathsResolve /\ RightReply

(* A directory read in pieces gives every entry once, whatever buffers the *)
(* kernel offers and wherever it comes back.  Only a build with debugging  *)
(* fails, when a buffer is full before "." and "..".                       *)
ReaddirExact ==
    /\ \A h \in Handles : (handle[h].open /\ handle[h].vi.fmt = "dir") =>
         LET i == Index(ToNid(handle[h].ino))
             used == handle[h].used
         IN  /\ \A j \in DOMAIN used : used[j].name \in DOMAIN AllEnts(i) /\ used[j].ino = ToIno(Nid(AllEnts(i)[used[j].name]))
             /\ IsInjective([j \in DOMAIN used |-> used[j].name])
             /\ handle[h].eof => Len(used) = Cardinality(DOMAIN AllEnts(i))
    /\ (reply.req = "readdir" /\ reply.err # "") =>
         /\ ~cf.ndebug
         /\ \E n \in DOMAIN tree[Index(ToNid(reply.ino))].ents : n[1] < DotName[1]
=============================================================================
