-------------------------------- MODULE Fsck --------------------------------
(***************************************************************************)
(* fsck.erofs (fsck/main.c) checks or extracts the image of MakeImage.     *)
(* The recursion of erofsfsck_check_inode is a stack of frames; the file   *)
(* system that is extracted to is modelled by what the calls of POSIX do.  *)
(***************************************************************************)
EXTENDS MakeImage

CONSTANT PathMax     \* PATH_MAX

VARIABLES
    opt,       \* struct erofsfsck_cfg
    stack,     \* activations of erofsfsck_check_inode
    fs,        \* file system that is extracted to: [dent, node]
    links,     \* erofsfsck_link_hashtable: nid to path
    corrupted, err, exit

fsckVars == <<opt, stack, fs, links, corrupted, err, exit>>

User == {"r", "w", "x"}    \* 0700

fsckInit ==
    /\ opt = <<>> /\ stack = <<>> /\ fs = cf.pre /\ links = <<>>
    /\ corrupted = FALSE /\ err = "" /\ exit = -1

-----------------------------------------------------------------------------
(* Options and super block.                                                *)

(* erofsfsck_parse_options_cfg; target is the length of the path given. *)
NoOptions(su) == [decomp |-> FALSE, path |-> FALSE, pos |-> 0, force |-> FALSE, overwrite |-> FALSE,
                  owner |-> su, perms |-> su, preserve |-> FALSE, xattrs |-> FALSE, devs |-> 0, bad |-> FALSE]
Option(o, a) ==
    CASE a = "extract" -> [o EXCEPT !.decomp = TRUE]
      [] a = "extract=x" -> [o EXCEPT !.decomp = TRUE, !.path = TRUE, !.pos = 1]
      [] a = "extract=/" -> [o EXCEPT !.decomp = TRUE, !.path = TRUE, !.pos = 0]
      [] a = "extract=" -> [o EXCEPT !.decomp = TRUE, !.bad = TRUE]
      [] a = "device" -> [o EXCEPT !.devs = @ + 1]
      [] a = "force" -> [o EXCEPT !.force = TRUE]
      [] a = "overwrite" -> [o EXCEPT !.overwrite = TRUE]
      [] a = "preserve" -> [o EXCEPT !.owner = TRUE, !.perms = TRUE, !.preserve = TRUE]
      [] a = "no-preserve" -> [o EXCEPT !.owner = FALSE, !.perms = FALSE, !.preserve = TRUE]
      [] a = "preserve-owner" -> [o EXCEPT !.owner = TRUE, !.preserve = TRUE]
      [] a = "preserve-perms" -> [o EXCEPT !.perms = TRUE, !.preserve = TRUE]
      [] a = "no-preserve-owner" -> [o EXCEPT !.owner = FALSE, !.preserve = TRUE]
      [] a = "no-preserve-perms" -> [o EXCEPT !.perms = FALSE, !.preserve = TRUE]
      [] a = "xattrs" -> [o EXCEPT !.xattrs = TRUE]
      [] a = "no-xattrs" -> [o EXCEPT !.xattrs = FALSE]
Refused(o) ==
    \/ o.bad
    \/ o.path /\ o.pos = 0 /\ ~o.force
    \/ ~o.path /\ (o.force \/ o.overwrite \/ o.preserve)

Quit(e) == pc' = "done" /\ err' = e /\ exit' = IF e = "" THEN 0 ELSE 1

ParseOptions ==
    /\ pc = "fsck"
    /\ \E o \in {FoldLeft(Option, NoOptions(cf.su), cf.args)} :
          /\ opt' = o
          /\ IF Refused(o) THEN Quit("EINVAL") ELSE pc' = "super" /\ UNCHANGED <<err, exit>>
    /\ UNCHANGED <<cf, im, nx, hurt, stack, fs, links, corrupted>>

Frame(pnid, nid, path, pos) ==
    [pnid |-> pnid, nid |-> nid, path |-> path, pos |-> pos, stage |-> "new", ret |-> "", off |-> 0, k |-> 0, ctx |-> NewCtx(TRUE, pnid)]

(* erofs_read_superblock and erofs_check_sb_chksum *)
DevicesFit == opt.devs \in {0, im.sb.devs}
WrongSum == im.sb.sum /\ ~im.sb.sumok
StartCheck ==
    /\ pc' = IF im.sb.packed > 0 THEN "packed" ELSE "root"
    /\ stack' = <<IF im.sb.packed > 0 THEN Frame(im.sb.packed, im.sb.packed, <<>>, opt.pos)
                  ELSE Frame(im.sb.root, im.sb.root, <<>>, opt.pos)>>
ReadSuper ==
    /\ pc = "super"
    /\ \/ /\ ~(im.sb.valid /\ DevicesFit)
          /\ Quit("EINVAL") /\ UNCHANGED <<corrupted, stack>>
       \/ /\ im.sb.valid /\ DevicesFit /\ WrongSum
          /\ corrupted' = TRUE /\ Quit("") /\ UNCHANGED stack
       \/ /\ im.sb.valid /\ DevicesFit /\ ~WrongSum
          /\ StartCheck /\ UNCHANGED <<corrupted, err, exit>>
    /\ UNCHANGED <<cf, im, nx, hurt, opt, fs, links>>

-----------------------------------------------------------------------------
(* Checking an inode.                                                      *)

(* erofs_verify_xattr.  Headers take 12 bytes and shared ids 4; behind the *)
(* entries zeroes read as entries of 4 bytes.                              *)
EntriesFit(vi) ==
    LET left == vi.xisize - 12 - 4 * vi.shared
        Used(n) == MapThenSumSet(LAMBDA k : vi.attrs[k].size, 1 .. n)
        n == Len(vi.attrs)
        over == {k \in 1 .. n : Used(k - 1) < left /\ Used(k) > left}
    IN  over = {} /\ (Used(n) < left => (left - Used(n)) % 4 = 0)
VerifyXattr(vi) ==
    IF vi.xisize = 0 \/ (vi.xisize > 12 /\ EntriesFit(vi)) THEN "" ELSE "EFSCORRUPTED"

(* erofs_verify_inode_data: the blocks that are written to the output and  *)
(* the size the output gets; a hole only moves the file position.          *)
RECURSIVE VerifyRaw(_, _, _, _), VerifyMapped(_, _, _, _, _)
VerifyMapped(m, vi, pos, out, map) ==
    LET llen == Min({map.llen, vi.size - map.la})
        gap == [k \in 1 .. (pos \div BlkSz) - Len(out.data) |-> Zeroes]
    IN  IF map.err # "" THEN [out EXCEPT !.err = map.err]
        ELSE VerifyRaw(m, vi, pos + llen,
                       IF map.mapped THEN [out EXCEPT !.data = @ \o gap \o ReadOneData(m, vi, map, 0, llen), !.size = pos + llen]
                       ELSE out)
VerifyRaw(m, vi, pos, out) ==
    IF pos >= vi.size THEN out ELSE VerifyMapped(m, vi, pos, out, MapBlocks(vi, pos))
Output(r, size) == [err |-> r.err, data |-> r.data, size |-> size]
VerifyData(m, vi, decomp) ==
    IF vi.layout \notin Compressed THEN VerifyRaw(m, vi, 0, [err |-> "", data |-> <<>>, size |-> 0])
    ELSE IF decomp THEN Output(ReadZ(vi, 0, vi.size), vi.size) ELSE [err |-> "", data |-> <<>>, size |-> 0]

(* What the calls of POSIX do.  The umask is 0 (main); a change of a       *)
(* directory or of data sets the time of modification.                     *)
Now == 99
Me == IF cf.su THEN 0 ELSE 1
Exists(f, p) == p \in DOMAIN f.dent
NodeAt(f, p) == f.node[f.dent[p]]
MayWrite(f, p) == cf.su \/ p = <<>> \/ "w" \in NodeAt(f, Front(p)).perm
SetNode(f, p, n) == [f EXCEPT !.node[f.dent[p]] = n]
Touched(f, p) == IF p = <<>> THEN f ELSE SetNode(f, Front(p), [NodeAt(f, Front(p)) EXCEPT !.mtime = Now])
Linked(f, p, id) == Touched([f EXCEPT !.dent = (p :> id) @@ @], p)
NewNode(f, p, n) ==
    LET id == Cardinality(DOMAIN f.node) + 1 IN Linked([f EXCEPT !.node = (id :> n) @@ @], p, id)
Unlinked(f, p) == Touched([f EXCEPT !.dent = [q \in (DOMAIN @) \ {p} |-> @[q]]], p)
Childless(f, p) == \A q \in DOMAIN f.dent : Len(q) > Len(p) => SubSeq(q, 1, Len(p)) # p
Node(kind, perm) ==
    [kind |-> kind, perm |-> perm, data |-> <<>>, size |-> 0, uid |-> Me, mtime |-> Now, rdev |-> DecodeDev(0), attrs |-> {}]
Made(e, f) == [err |-> e, fs |-> f]

(* erofs_extract_dir; v is what erofs_verify_inode_data gives. *)
ExtractDir(f, p, v) ==
    IF v.err # "" THEN Made(v.err, f)
    ELSE IF ~Exists(f, p)
    THEN IF MayWrite(f, p) THEN Made("", NewNode(f, p, Node("dir", User))) ELSE Made("EACCES", f)
    ELSE IF NodeAt(f, p).kind # "dir" THEN Made("ENOTDIR", f)
    ELSE Made("", SetNode(f, p, [NodeAt(f, p) EXCEPT !.perm = User]))

(* erofs_extract_file: open, perhaps a second time, and write. *)
OpenErr(f, p) ==
    IF ~Exists(f, p) THEN IF MayWrite(f, p) THEN "" ELSE "EACCES"
    ELSE IF ~opt.overwrite THEN "EEXIST"
    ELSE IF NodeAt(f, p).kind = "dir" THEN "EISDIR"
    ELSE IF NodeAt(f, p).kind = "symlink" THEN "ELOOP"
    ELSE IF "w" \in NodeAt(f, p).perm \/ cf.su THEN "" ELSE "EACCES"
Retried(f, p, e) ==
    CASE e = "EISDIR" -> IF Childless(f, p) /\ MayWrite(f, p) THEN Made("", Unlinked(f, p)) ELSE Made("EISDIR", f)
      [] e = "EACCES" -> IF Exists(f, p) THEN Made("", SetNode(f, p, [NodeAt(f, p) EXCEPT !.perm = User])) ELSE Made("ENOENT", f)
      [] OTHER -> Made("", f)
WriteTo(f, p, v) == Made(v.err, SetNode(f, p, [NodeAt(f, p) EXCEPT !.data = v.data, !.size = v.size, !.mtime = Now]))
WriteOut(f, p, v) == WriteTo(IF Exists(f, p) THEN f ELSE NewNode(f, p, Node("file", User)), p, v)
OpenAgain(r, p, v) ==
    IF r.err # "" THEN r
    ELSE IF OpenErr(r.fs, p) # "" THEN Made(OpenErr(r.fs, p), r.fs)
    ELSE WriteOut(r.fs, p, v)
ExtractFile(f, p, v) ==
    OpenAgain(IF opt.overwrite /\ OpenErr(f, p) # "" THEN Retried(f, p, OpenErr(f, p)) ELSE Made(OpenErr(f, p), f), p, v)

(* erofs_extract_symlink and erofs_extract_special: an existing file is    *)
(* removed once.                                                           *)
Emptied(f, p) ==
    IF ~Exists(f, p) THEN Made("", f)
    ELSE IF ~opt.overwrite THEN Made("EEXIST", f)
    ELSE IF NodeAt(f, p).kind = "dir" THEN Made("EISDIR", f)
    ELSE IF MayWrite(f, p) THEN Made("", Unlinked(f, p)) ELSE Made("EACCES", f)
Symlinked(f, r, p, target, size) ==
    IF target.err # "" THEN Made(target.err, f)
    ELSE IF r.err # "" THEN r
    ELSE IF ~MayWrite(r.fs, p) THEN Made("EACCES", r.fs)
    ELSE Made("", NewNode(r.fs, p, [Node("symlink", {}) EXCEPT !.data = target.data, !.size = size]))
ExtractSymlink(f, p, vi, v) ==
    IF v.err # "" THEN Made(v.err, f) ELSE Symlinked(f, Emptied(f, p), p, PRead(im, vi, vi.size, 0), vi.size)
Mknod(r, p, vi) ==
    IF r.err # "" THEN r
    ELSE IF cf.su \/ (vi.fmt \in {"fifo", "sock"} /\ MayWrite(r.fs, p))
    THEN Made("", NewNode(r.fs, p, [Node(vi.fmt, vi.perm) EXCEPT !.rdev = vi.u]))
    ELSE Made("ECANCELED", r.fs)
ExtractSpecial(f, p, vi, v) == IF v.err # "" THEN Made(v.err, f) ELSE Mknod(Emptied(f, p), p, vi)

(* erofsfsck_extract_inode: a result and the table of hard links. *)
HardLink(f, p, old) ==
    IF Exists(f, p) THEN Made("EEXIST", f)
    ELSE IF ~Exists(f, old) THEN Made("ENOENT", f)
    ELSE IF MayWrite(f, p) THEN Made("", Linked(f, p, f.dent[old])) ELSE Made("EACCES", f)
Recorded(r, p, vi) ==
    IF r.err \in {"", "ECANCELED"} /\ vi.nlink > 1 /\ vi.fmt # "dir"
    THEN [err |-> "", fs |-> r.fs, links |-> (vi.nid :> p) @@ links]
    ELSE [err |-> r.err, fs |-> r.fs, links |-> links]
Unrecorded(r) == [err |-> r.err, fs |-> r.fs, links |-> links]
ExtractBy(f, p, vi, v) ==
    IF ~opt.path \/ (vi.fmt = "file" /\ vi.nid = im.sb.packed) THEN Unrecorded(Made(v.err, f))
    ELSE IF vi.nid \in DOMAIN links THEN Unrecorded(HardLink(f, p, links[vi.nid]))
    ELSE Recorded(CASE vi.fmt = "dir" -> ExtractDir(f, p, v)
                    [] vi.fmt = "file" -> ExtractFile(f, p, v)
                    [] vi.fmt = "symlink" -> ExtractSymlink(f, p, vi, v)
                    [] OTHER -> ExtractSpecial(f, p, vi, v), p, vi)
ExtractInode(f, p, vi) == ExtractBy(f, p, vi, VerifyData(im, vi, opt.decomp))

(* erofsfsck_dump_xattrs: an empty value ends it; lsetxattr answers -1,    *)
(* which is -EPERM.                                                        *)
MaySet(f, p, a) ==
    /\ Exists(f, p)
    /\ IF a.user THEN NodeAt(f, p).kind \in {"file", "dir"} /\ (cf.su \/ "w" \in NodeAt(f, p).perm) ELSE cf.su
DumpXattrs(f, p, vi) ==
    FoldLeft(LAMBDA r, a : CASE r.stop -> r
                             [] ~r.stop /\ a.empty -> [r EXCEPT !.stop = TRUE]
                             [] ~r.stop /\ ~a.empty /\ ~opt.path -> r
                             [] ~r.stop /\ ~a.empty /\ opt.path ->
                                    IF MaySet(r.fs, p, a)
                                    THEN [r EXCEPT !.fs = SetNode(r.fs, p, [NodeAt(r.fs, p) EXCEPT !.attrs = @ \cup {a.key}])]
                                    ELSE IF ~cf.su /\ ~a.user THEN r
                                    ELSE [r EXCEPT !.stop = TRUE, !.err = "EPERM"],
             [stop |-> FALSE, err |-> "", fs |-> f], vi.attrs)

(* erofsfsck_set_attributes; a file that changes hands loses its suid bit  *)
(* (and its capabilities, which are no attribute here).                    *)
SetAttributes(f, p, vi) ==
    LET n == NodeAt(f, p)
        given == opt.owner /\ (cf.su \/ vi.uid = Me)
        perm == IF vi.fmt = "symlink" THEN n.perm ELSE IF opt.perms THEN vi.perm ELSE vi.perm \ cf.umask
    IN  IF ~opt.path \/ vi.nid = im.sb.packed \/ ~Exists(f, p) THEN f
        ELSE SetNode(f, p, [n EXCEPT !.mtime = vi.mtime,
                                     !.perm = IF given /\ n.kind # "dir" THEN perm \ {"suid"} ELSE perm,
                                     !.uid = IF given THEN vi.uid ELSE @])

-----------------------------------------------------------------------------
(* erofsfsck_check_inode.                                                  *)

top == Last(stack)
Below == Front(stack)
Checking(stage) == pc \in {"packed", "root"} /\ top.stage = stage
Ended(e) == Append(Below, [top EXCEPT !.stage = "end", !.ret = e])
Masked(e, ctx) == IF Missing(ctx, TRUE) THEN "EFSCORRUPTED" ELSE e

(* Up to the walk over the entries of a directory.  What lsetxattr answers *)
(* is returned without a note that the image is corrupted.                 *)
Dumped(r, vi) ==
    IF opt.decomp /\ opt.xattrs /\ r.err \in {"", "ECANCELED"} THEN DumpXattrs(r.fs, top.path, vi)
    ELSE [stop |-> FALSE, err |-> r.err, fs |-> r.fs]
Entered(vi, r, x) ==
    /\ links' = r.links /\ fs' = x.fs
    /\ stack' = IF vi.fmt = "dir" /\ x.err = "" THEN Append(Below, [top EXCEPT !.stage = "iter"])
                ELSE IF x.err = "EPERM" THEN Append(Below, [top EXCEPT !.stage = "quiet", !.ret = x.err])
                ELSE Ended(x.err)
CheckInode ==
    /\ Checking("new")
    /\ \E vi \in {ReadInode(im, top.nid)} :
         LET early == IF vi.err # "" THEN vi.err ELSE IF opt.decomp /\ opt.xattrs THEN "" ELSE VerifyXattr(vi)
         IN  \/ /\ early # ""
                /\ stack' = Ended(early) /\ UNCHANGED <<fs, links>>
             \/ /\ early = ""
                /\ \E r \in {ExtractInode(fs, top.path, vi)} : \E x \in {Dumped(r, vi)} : Entered(vi, r, x)
    /\ UNCHANGED <<cf, pc, im, nx, hurt, opt, corrupted, err, exit>>

(* One entry, in the order of erofs_iterate_dir, with the callback         *)
(* erofsfsck_dirent_iter, or the end of a block or of the directory.       *)
AfterDirent(d) ==
    IF d.err # "" THEN Ended(d.err)
    ELSE IF d.isdot THEN Append(Below, [top EXCEPT !.ctx = d.ctx, !.k = @ + 1])
    ELSE IF top.pos + Len(d.name) >= PathMax THEN Ended(Masked("EOPNOTSUPP", d.ctx))
    ELSE Below \o <<[top EXCEPT !.ctx = d.ctx],
                    Frame(top.nid, d.nid, Append(top.path, d.name), top.pos + Len(d.name) + (IF opt.path THEN 1 ELSE 0))>>
InBlock(vi, b, size) ==
    IF top.off >= vi.size THEN Ended(Masked("", top.ctx))
    ELSE IF b.err # "" THEN Ended(b.err)
    ELSE IF BadFirst(b) THEN Ended("EFSCORRUPTED")
    ELSE IF top.k * DirentSize >= FirstNameOff(b) THEN Append(Below, [top EXCEPT !.off = @ + size, !.k = 0])
    ELSE AfterDirent(Dirent(im, vi.nid, b, top.k, size, IF top.k = 0 THEN EnterBlock(top.ctx, b) ELSE top.ctx, TRUE))
IterateStep ==
    /\ Checking("iter")
    /\ \E vi \in {ReadInode(im, top.nid)} : \E b \in {DirBlock(im, vi, top.off)} :
           stack' = InBlock(vi, b, Min({vi.size - top.off, BlkSz}))
    /\ UNCHANGED <<cf, pc, im, nx, hurt, opt, fs, links, corrupted, err, exit>>

(* The rest of erofsfsck_check_inode.  e goes back to the walk over the    *)
(* parent directory, where "." or ".." not seen yet takes the place of an  *)
(* error, or to main.                                                      *)
Return(e, cor) ==
    /\ corrupted' = cor
    /\ \/ /\ Len(stack) > 1
          /\ stack' = [Below EXCEPT ![Len(stack) - 1] =
                          IF e = "" THEN [@ EXCEPT !.k = @ + 1]
                          ELSE [@ EXCEPT !.stage = "end", !.ret = Masked(e, Last(Below).ctx)]]
          /\ UNCHANGED <<pc, err, exit>>
       \/ /\ Len(stack) = 1 /\ pc = "packed" /\ e = ""
          /\ pc' = "root" /\ stack' = <<Frame(im.sb.root, im.sb.root, <<>>, opt.pos)>> /\ UNCHANGED <<err, exit>>
       \/ /\ Len(stack) = 1 /\ ~(pc = "packed" /\ e = "")
          /\ stack' = <<>> /\ Quit(IF pc = "root" /\ cor THEN "EFSCORRUPTED" ELSE e)
Leave ==
    /\ Checking("end") \/ Checking("quiet")
    /\ fs' = IF top.ret = "" THEN SetAttributes(fs, top.path, ReadInode(im, top.nid)) ELSE fs
    /\ Return(IF top.ret = "ECANCELED" THEN "" ELSE top.ret,
              corrupted \/ (top.stage = "end" /\ top.ret \notin {"", "EIO", "ECANCELED"}))
    /\ UNCHANGED <<cf, im, nx, hurt, opt, links>>

fsckNext == ParseOptions \/ ReadSuper \/ CheckInode \/ IterateStep \/ Leave
=============================================================================
