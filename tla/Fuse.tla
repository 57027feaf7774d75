-------------------------------- MODULE Fuse --------------------------------
(***************************************************************************)
(* erofsfuse (fuse/main.c) serves the image of MakeImage: one action per   *)
(* request of the kernel, whose answer is kept in reply.  A directory is   *)
(* read in pieces: the kernel offers a buffer, may use a part of what it   *)
(* gets and comes back with the offset of the last entry that it used.     *)
(***************************************************************************)
EXTENDS MakeImage

CONSTANTS
    Handles,    \* open files and directories at a time
    Buffers,    \* sizes of the buffers of readdir
    Spans       \* <<size, offset>> of the reads

VARIABLES
    handle,     \* fi->fh: the inode, and for a directory what has been used
    reply       \* the last answer

fuseVars == <<handle, reply>>

NoHandle == [open |-> FALSE]
NoReply == [req |-> "none"]
fuseInit == handle = [h \in Handles |-> NoHandle] /\ reply = NoReply

ToNid(ino) == IF ino = 1 THEN im.sb.root ELSE ino - 1
ToIno(nid) == IF nid = im.sb.root THEN 1 ELSE nid + 1
Inos == {ToIno(n) : n \in DOMAIN im.ino}

(* erofsfuse_fill_stat *)
FillStat(vi) ==
    [fmt |-> vi.fmt, perm |-> vi.perm, nlink |-> vi.nlink, size |-> vi.size, uid |-> vi.uid, mtime |-> vi.mtime,
     rdev |-> IF vi.fmt \in {"chr", "blk"} THEN vi.u ELSE DecodeDev(0)]

(* fuse_add_direntry and fuse_add_direntry_plus *)
EntSize(d, plus) == RoundUp((IF plus THEN 152 ELSE 24) + Len(d.name), 8)

Serving == pc = "fuse"
Answer(r) == reply' = r /\ UNCHANGED mkfsVars

(* erofsfuse_lookup with erofsfuse_lookup_dentry: the first match counts, *)
(* and the walk goes on to the end of the directory.                      *)
Matches(list, name) == {k \in DOMAIN list : list[k].name = name}
Lookup(parent, name) ==
    /\ Serving
    /\ \E dir \in {ReadInode(im, ToNid(parent))} :
       \E walk \in {IF dir.err # "" THEN [list |-> <<>>, err |-> dir.err] ELSE IterateDir(im, dir, ~cf.ndebug)} :
         LET hits == Matches(walk.list, name)
             vi == ReadInode(im, walk.list[Min(hits)].nid)
             e == IF hits # {} /\ vi.err # "" THEN vi.err ELSE walk.err
         IN  Answer([req |-> "lookup", parent |-> parent, name |-> name, err |-> e]
                    @@ (IF e # "" \/ hits = {} THEN [ino |-> 0] ELSE [ino |-> ToIno(vi.nid), stat |-> FillStat(vi)]))
    /\ UNCHANGED handle

(* erofsfuse_getattr.  The code sends a second answer behind an error; the *)
(* images served have no inode that cannot be read.                        *)
Getattr(ino) ==
    LET vi == ReadInode(im, ToNid(ino))
    IN  /\ Serving
        /\ Answer([req |-> "getattr", ino |-> ino, err |-> vi.err] @@ (IF vi.err # "" THEN <<>> ELSE [stat |-> FillStat(vi)]))
        /\ UNCHANGED handle

(* erofsfuse_readlink *)
Readlink(ino) ==
    LET vi == ReadInode(im, ToNid(ino))
        r == PRead(im, vi, vi.size, 0)
    IN  /\ Serving
        /\ vi.err = "" /\ vi.fmt = "symlink"
        /\ Answer([req |-> "readlink", ino |-> ino, err |-> r.err, data |-> r.data])
        /\ UNCHANGED handle

(* erofsfuse_opendir and erofsfuse_open *)
Opened(h, ino, e, vi) ==
    /\ Answer([req |-> "open", ino |-> ino, err |-> e])
    /\ handle' = IF e # "" THEN handle
                 ELSE [handle EXCEPT ![h] = [open |-> TRUE, ino |-> ino, vi |-> vi, off |-> 0, used |-> <<>>, eof |-> FALSE]]
Opendir(h, ino) ==
    LET vi == ReadInode(im, ToNid(ino))
    IN  /\ Serving /\ ~handle[h].open
        /\ Opened(h, ino, IF vi.err # "" THEN vi.err ELSE IF vi.fmt # "dir" THEN "ENOTDIR" ELSE "", vi)
Open(h, ino, write) ==
    LET vi == ReadInode(im, ToNid(ino))
    IN  /\ Serving /\ ~handle[h].open
        /\ Opened(h, ino, IF write THEN "EROFS" ELSE IF vi.err # "" THEN vi.err ELSE IF vi.fmt # "file" THEN "EISDIR" ELSE "", vi)

(* erofsfuse_release *)
Release(h) ==
    /\ Serving /\ handle[h].open
    /\ handle' = [handle EXCEPT ![h] = NoHandle]
    /\ Answer([req |-> "release", err |-> ""])

(* erofsfuse_add_dentry for the entries of the list from off: how many fit *)
(* and, in the place of 1 for a full buffer, "full".                       *)
Fitting(list, off, plus, size) ==
    LET Used(j) == MapThenSumSet(LAMBDA i : EntSize(list[i], plus), off + 1 .. j)
        Stops(j) == Used(j) > size \/ (plus /\ ReadInode(im, list[j].nid).err # "")
        stop == {j \in off + 1 .. Len(list) : Stops(j)}
    IN  IF stop = {} THEN [end |-> Len(list), ret |-> ""]
        ELSE [end |-> Min(stop) - 1, ret |-> IF Used(Min(stop)) > size THEN "full" ELSE ReadInode(im, list[Min(stop)].nid).err]

(* The offset an entry carries: where a walk goes on behind it. *)
NextOff_Same(index) == index
NextOff(index) == index + 1

(* erofsfuse_readdir_general; the kernel uses the first n entries. *)
Readdir(h, size, plus) ==
    /\ Serving /\ handle[h].open /\ handle[h].vi.fmt = "dir"
    /\ \E walk \in {IterateDir(im, handle[h].vi, ~cf.ndebug)} :
       \E fit \in {Fitting(walk.list, handle[h].off, plus, size)} :
         LET seen == {walk.list[j].name : j \in 1 .. Min({fit.end + 1, Len(walk.list)})}
             ret == IF fit.ret = "" THEN walk.err
                    ELSE IF ~cf.ndebug /\ ~({DotName, DotDot} \subseteq seen) THEN "EFSCORRUPTED" ELSE fit.ret
             got == SubSeq(walk.list, handle[h].off + 1, fit.end)
         IN  /\ Answer([req |-> "readdir", ino |-> handle[h].ino, err |-> IF ret = "full" THEN "" ELSE ret])
             /\ IF ret \notin {"", "full"} THEN handle' = handle
                ELSE IF got = <<>> THEN handle' = [handle EXCEPT ![h].eof = TRUE]
                ELSE \E n \in 1 .. Len(got) :
                        handle' = [handle EXCEPT ![h].used = @ \o [j \in 1 .. n |-> [name |-> got[j].name, ino |-> ToIno(got[j].nid)]],
                                                 ![h].off = NextOff(@ + n - 1)]

(* erofsfuse_read; what lies beyond the end of the file is cut off. *)
Read(h, size, off) ==
    LET vi == handle[h].vi
        r == PRead(im, vi, size, off)
        n == IF off >= vi.size THEN 0 ELSE Min({size, vi.size - off})
    IN  /\ Serving /\ handle[h].open /\ vi.fmt = "file"
        /\ Answer([req |-> "read", ino |-> handle[h].ino, off |-> off, size |-> size, err |-> r.err, n |-> n,
                   data |-> IF r.err # "" THEN <<>> ELSE SubSeq(r.data, 1, Blks(n))])
        /\ UNCHANGED handle

fuseNext ==
    \/ \E ino \in Inos : Getattr(ino) \/ Readlink(ino)
    \/ \E ino \in Inos, name \in cf.names : Lookup(ino, name)
    \/ \E h \in Handles, ino \in Inos, w \in BOOLEAN : Opendir(h, ino) \/ Open(h, ino, w)
    \/ \E h \in Handles, size \in Buffers, plus \in BOOLEAN : Readdir(h, size, plus)
    \/ \E h \in Handles, s \in Spans : Read(h, s[1], s[2])
    \/ \E h \in Handles : Release(h)
=============================================================================
