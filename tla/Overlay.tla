------------------------------ MODULE Overlay -------------------------------
(***************************************************************************)
(* Trees that come from tar archives and from other images: the headers of *)
(* lib/tar.c change an in-memory tree through erofs_rebuild_get_dentry     *)
(* (lib/rebuild.c), with the whiteouts and opaque marks of aufs; finished  *)
(* trees become layers, which are merged, upper layer first, or put on a   *)
(* base image; whiteouts may be stripped when the result is dumped.        *)
(*                                                                         *)
(* The order of the entries of a directory is left out: lookups go by name *)
(* and the directory is sorted when it is written.  The data of a file is  *)
(* the archive and the number of the header it came with.                  *)
(***************************************************************************)
EXTENDS Integers, Sequences, SequencesExt, FiniteSets, FiniteSetsExt, TLC

CONSTANTS
    Configs,     \* [plan, entries, max, strip, aufs] records
    Stripped,    \* names with AUFS_WH_PFX, mapped to the names without it
    OpqName      \* AUFS_WH_DIROPQ

VARIABLES
    cf, pc,
    layer,    \* number of the tree being made
    count,    \* headers read of the archive
    eh,       \* struct erofs_pax_header of this call
    global,   \* tar->global
    blank,    \* one empty block was met in this call
    mem,      \* in-memory inodes; 1 is the root
    src,      \* finished layers
    work,     \* directories and dirents still to be merged or dumped
    hash,     \* erofs_iget: inodes of source images already loaded
    ref       \* ghost: what each archive says

vars == <<cf, pc, layer, count, eh, global, blank, mem, src, work, hash, ref>>

NULL == 0
Root == 1
NoData == <<0, 0>>
None == <<>>
NoPax == [path |-> None, link |-> None]

NewInode(kind, parent, data) ==
    [kind |-> kind, nlink |-> 0, count |-> 1, parent |-> parent, data |-> data,
     sub |-> <<>>, dots |-> 0, opaque |-> FALSE, whiteouts |-> FALSE, base |-> NULL,
     linked |-> FALSE]   \* ghost: was hard-linked, or replaced what was

Dentry(type, i) == [type |-> type, ino |-> i, nid |-> NULL]

Grab(m, i) == [m EXCEPT ![i].count = @ + 1]
Iput(m, i) == [m EXCEPT ![i].count = @ - 1]
Link(m, dir, n, d) == [m EXCEPT ![dir].sub = (n :> d) @@ @]

(* erofs_init_empty_dir: "." and ".." hold a reference each. *)
InitEmptyDir(m, i) ==
    Grab(Grab([m EXCEPT ![i].dots = @ + 1, ![i].nlink = 2], i), m[i].parent)

(* erofs_rebuild_make_root *)
MakeRoot == InitEmptyDir(<<NewInode("dir", Root, NoData)>>, Root)

(* tarerofs_remove_inode.  Link counts are unsigned in the code: below 0   *)
(* they are not 0 there either.                                            *)
RECURSIVE RemoveInode(_, _)
RemoveInode(m, i) ==
    LET down == [m EXCEPT ![i].nlink = @ - 1]
        kids == {n \in DOMAIN m[i].sub : m[i].sub[n].ino # NULL}
        rest == FoldSet(LAMBDA n, a : Iput(RemoveInode(a, m[i].sub[n].ino), m[i].sub[n].ino),
                        down, kids)
        dots == [rest EXCEPT ![i].count = @ - m[i].dots]
    IN  IF m[i].kind # "dir" THEN down
        ELSE [[dots EXCEPT ![m[i].parent].count = @ - m[i].dots, ![i].sub = <<>>, ![i].dots = 0]
                 EXCEPT ![m[i].parent].nlink = @ - 1]

-----------------------------------------------------------------------------
(* erofs_rebuild_get_dentry: one component of a path.  at is <<dir, name>> *)
(* of the entry found or made last.                                        *)

WalkStep(w, c, slash, aufs) ==
    LET whout == aufs /\ ~slash /\ c \in DOMAIN Stripped
        n == IF whout THEN Stripped[c] ELSE c
        sub == w.m[w.pwd].sub
        i == Len(w.m) + 1
    IN  IF w.err \/ w.opq \/ c = "." THEN w
        ELSE IF c = ".." THEN [w EXCEPT !.pwd = w.m[w.pwd].parent]
        ELSE IF aufs /\ ~slash /\ c = OpqName THEN [w EXCEPT !.opq = TRUE]
        ELSE IF n \in DOMAIN sub /\ sub[n].type # "dir" /\ slash THEN [w EXCEPT !.err = TRUE]
        ELSE IF n \in DOMAIN sub /\ sub[n].ino # NULL
        THEN [w EXCEPT !.pwd = sub[n].ino, !.at = <<w.pwd, n>>, !.whout = whout]
        ELSE IF ~slash
        THEN [w EXCEPT !.m = Link(w.m, w.pwd, n, Dentry("unknown", w.pwd)),
                       !.at = <<w.pwd, n>>, !.whout = whout]
        ELSE [w EXCEPT !.m = Link(InitEmptyDir(Append(w.m, NewInode("dir", w.pwd, NoData)), i),
                                  w.pwd, n, Dentry("dir", i)),
                       !.at = <<w.pwd, n>>, !.pwd = i]

GetDentry(m, pwd, path, aufs) ==
    FoldLeft(LAMBDA w, k : WalkStep(w, path[k], k < Len(path), aufs),
             [m |-> m, pwd |-> pwd, at |-> None, whout |-> FALSE, opq |-> FALSE, err |-> FALSE],
             [k \in 1 .. Len(path) |-> k])

Found(w) == w.m[w.at[1]].sub[w.at[2]]
SetFound(w, m, d) == [m EXCEPT ![w.at[1]].sub[w.at[2]] = d]

-----------------------------------------------------------------------------
(* What an archive says: a function from paths to nodes. *)

Clean(path, aufs) ==
    LET drop == SelectSeq(path, LAMBDA c : c # ".")
        n == Len(drop)
    IN  IF n > 0 /\ aufs /\ drop[n] \in DOMAIN Stripped
        THEN [drop EXCEPT ![n] = Stripped[drop[n]]] ELSE drop

Below(p, q) == Len(q) > Len(p) /\ SubSeq(q, 1, Len(p)) = p
DirNode == [kind |-> "dir", data |-> NoData, opaque |-> FALSE]

AddPath(t, p, node) ==
    LET keep == {q \in DOMAIN t : ~Below(p, q)} \cup
                (IF node.kind = "dir" /\ p \in DOMAIN t /\ t[p].kind = "dir"
                 THEN DOMAIN t ELSE {})
        up == {SubSeq(p, 1, k) : k \in 1 .. Len(p) - 1} \ DOMAIN t
        same == p \in DOMAIN t /\ t[p].kind = "dir" /\ node.kind = "dir"
    IN  [q \in keep \cup up \cup {p} |->
            IF q = p THEN (IF same THEN t[p] ELSE node) ELSE IF q \in up THEN DirNode ELSE t[q]]

(* The tree in memory as such a function; entries of a base image (nid)    *)
(* stand for the tree below them.                                          *)
RECURSIVE PathsOf(_, _, _)
PathsOf(m, i, image) ==
    LET Node(x) == [kind |-> x.kind, data |-> x.data, opaque |-> x.opaque]
        Tree(n) ==
            LET d == m[i].sub[n]
                in == IF d.nid = NULL THEN m ELSE image
                j == IF d.nid = NULL THEN d.ino ELSE d.nid
                below == PathsOf(in, j, image)
            IN  (<<n>> :> Node(in[j])) @@
                [q \in {<<n>> \o p : p \in DOMAIN below} |-> below[Tail(q)]]
    IN  FoldSet(LAMBDA n, t : Tree(n) @@ t, <<>>, DOMAIN m[i].sub)

-----------------------------------------------------------------------------
(* tarerofs_parse_tar.  The call starts with the global pax header.        *)

Init ==
    /\ cf \in Configs /\ pc = "header" /\ layer = 1 /\ count = 0
    /\ eh = NoPax /\ global = NoPax /\ blank = FALSE
    /\ mem = MakeRoot /\ src = <<>> /\ work = <<>> /\ hash = <<>>
    /\ ref = <<<<>>>>

Header(h) == pc = "header" /\ count < cf.max /\ h \in cf.entries /\ count' = count + 1
Stamp == <<layer, count + 1>>
NextCall == eh' = global /\ blank' = FALSE
Path(h) == IF eh.path # None THEN eh.path ELSE h.path
Linkname(h) == IF eh.link # None THEN eh.link ELSE h.link

(* Extended headers, GNU long names and a volume label only change what    *)
(* the next header means.                                                  *)
PaxHeader(h) ==
    /\ Header(h) /\ h.type \in {"x", "L", "K"}
    /\ eh' = [path |-> IF h.path # None THEN h.path ELSE eh.path,
              link |-> IF h.link # None THEN h.link ELSE eh.link]
    /\ UNCHANGED <<cf, pc, layer, global, blank, mem, src, work, hash, ref>>

GlobalHeader(h) ==
    /\ Header(h) /\ h.type = "g"
    /\ global' = [path |-> IF h.path # None THEN h.path ELSE global.path,
                  link |-> IF h.link # None THEN h.link ELSE global.link]
    /\ eh' = [path |-> IF global'.path # None THEN global'.path ELSE eh.path,
              link |-> IF global'.link # None THEN global'.link ELSE eh.link]
    /\ UNCHANGED <<cf, pc, layer, blank, mem, src, work, hash, ref>>

(* An unknown type is skipped, and the pending names with it. *)
UnknownHeader(h) ==
    /\ Header(h) /\ h.type = "?"
    /\ NextCall
    /\ UNCHANGED <<cf, pc, layer, global, mem, src, work, hash, ref>>

Fail ==
    /\ pc' = "failed"
    /\ UNCHANGED <<cf, layer, eh, global, blank, mem, src, work, hash, ref>>

(* A checksum, a magic or a number that is wrong. *)
BadHeader(h) == Header(h) /\ h.type = "bad" /\ Fail

Entry(h) == Header(h) /\ h.type \in {"reg", "dir", "hard"}

(* The walk fails, or the entry stands for the root and is no directory,   *)
(* or a hard link has no file to go to.                                    *)
Unlinked(m, w) == IF Found(w).type = "unknown" THEN m
                  ELSE Iput(RemoveInode(m, Found(w).ino), Found(w).ino)
Target(h, w) ==
    GetDentry(SetFound(w, Unlinked(w.m, w), [Found(w) EXCEPT !.ino = NULL]), Root,
              Linkname(h), cf.aufs)
NoTarget(v) == (v.err \/ v.at = None) \/ Found(v).type \in {"unknown", "dir"}

EntryFails(h) ==
    /\ Entry(h)
    /\ \E w \in {GetDentry(mem, Root, Path(h), cf.aufs)} :
          \/ w.err
          \/ ~w.err /\ w.at = None /\ h.type # "dir"
          \/ /\ ~w.err /\ w.at # None /\ ~w.opq /\ h.type = "hard"
             /\ \E v \in {Target(h, w)} : NoTarget(v) = TRUE
    /\ Fail

After(m, h, t) ==
    /\ mem' = m /\ NextCall /\ ref' = [ref EXCEPT ![layer] = t]
    /\ UNCHANGED <<cf, pc, layer, global, src, work, hash>>

RootEntry(h) ==
    /\ Entry(h) /\ h.type = "dir"
    /\ \E w \in {GetDentry(mem, Root, Path(h), cf.aufs)} :
          /\ ~w.err /\ w.at = None
          /\ After(IF w.m[Root].nlink = 0 THEN InitEmptyDir(w.m, Root) ELSE w.m, h, ref[layer])

OpaqueEntry(h) ==
    /\ Entry(h)
    /\ \E w \in {GetDentry(mem, Root, Path(h), cf.aufs)} :
          /\ ~w.err /\ w.at # None /\ w.opq
          /\ \E p \in {Front(Clean(Path(h), FALSE))} :
             After([w.m EXCEPT ![Found(w).ino].opaque = TRUE], h,
                   [AddPath(ref[layer], p, DirNode) EXCEPT ![p].opaque = TRUE])

HardLink(h) ==
    /\ Entry(h) /\ h.type = "hard"
    /\ \E w \in {GetDentry(mem, Root, Path(h), cf.aufs)} :
          /\ ~w.err /\ w.at # None /\ ~w.opq
          /\ \E v \in {Target(h, w)} :
                /\ ~NoTarget(v)
                /\ After(Grab([SetFound(w, v.m, Found(v)) EXCEPT ![Found(v).ino].nlink = @ + 1,
                                                                ![Found(v).ino].linked = TRUE],
                              Found(v).ino), h,
                         AddPath(ref[layer], Clean(Path(h), cf.aufs),
                                 ref[layer][Clean(Linkname(h), cf.aufs)]))

(* A new inode, maybe in place of another.                                 *)
Kind(h, w) == IF w.whout THEN "wht" ELSE h.type
Replaces_Always(d, h) == TRUE
Replaces(d, h) == d.type # "dir" \/ h.type # "dir"
Replaced_Leaked(m, i) == RemoveInode(m, i)
Replaced(m, i) == Iput(RemoveInode(m, i), i)

(* The parent of the new inode; that of the old one if there is one.       *)
(* Fault: the old inode itself.                                            *)
ParentOf_Old(m, d) == d.ino
ParentOf(m, d) == IF d.type = "unknown" THEN d.ino ELSE m[d.ino].parent

NewEntry(h) ==
    /\ Entry(h) /\ h.type # "hard"
    /\ \E w \in {GetDentry(mem, Root, Path(h), cf.aufs)} :
          /\ ~w.err /\ w.at # None /\ ~w.opq
          /\ Replaces(Found(w), h)
          /\ \E old \in {Found(w)} : \E i \in {Len(w.m) + 1} :
             \E parent \in {ParentOf(w.m, old)} :
             \E m0 \in {Append(IF old.type = "unknown" THEN w.m ELSE Replaced(w.m, old.ino),
                               NewInode(Kind(h, w), parent, Stamp))} :
             \E m1 \in {[SetFound(w, m0, Dentry(Kind(h, w), i))
                            EXCEPT ![parent].whiteouts = @ \/ w.whout,
                                   ![i].linked = old.type # "unknown" /\ w.m[old.ino].linked]} :
                After(IF Kind(h, w) = "dir" THEN InitEmptyDir(m1, i)
                      ELSE [m1 EXCEPT ![i].nlink = @ + 1], h,
                      AddPath(ref[layer], Clean(Path(h), cf.aufs),
                              [kind |-> Kind(h, w), data |-> Stamp, opaque |-> FALSE]))

DirAgain(h) ==
    /\ Entry(h) /\ h.type = "dir"
    /\ \E w \in {GetDentry(mem, Root, Path(h), cf.aufs)} :
          /\ ~w.err /\ w.at # None /\ ~w.opq /\ ~w.whout /\ Found(w).type = "dir"
          /\ \E i \in {Found(w).ino} :
                After([(IF w.m[i].nlink = 0 THEN InitEmptyDir(w.m, i) ELSE w.m)
                          EXCEPT ![i].data = Stamp], h,
                      [AddPath(ref[layer], Clean(Path(h), cf.aufs), DirNode)
                          EXCEPT ![Clean(Path(h), cf.aufs)].data = Stamp])

(* Two empty blocks end the archive. *)
EmptyBlock ==
    /\ pc = "header" /\ ~blank /\ blank' = TRUE
    /\ UNCHANGED <<cf, pc, layer, count, eh, global, mem, src, work, hash, ref>>

-----------------------------------------------------------------------------
(* erofs_mkfs_dump_tree with rebuild: the names met in the directories     *)
(* that are live, with their inodes loaded.                                *)
Edges(m) == {<<i, n>> \in UNION {{i} \X DOMAIN m[i].sub : i \in DOMAIN m} :
                m[i].count > 0 /\ m[i].sub[n].nid = NULL}

(* erofs_rebuild_handle_directory: whiteouts go, if asked to and marked.   *)
Wht(m, d, image) == d.type = "wht" /\
                    (IF d.nid = NULL THEN m[d.ino] ELSE image[d.nid]).kind = "wht"
StripDir(m, i, image) ==
    LET gone == {n \in DOMAIN m[i].sub : Wht(m, m[i].sub[n], image)}
        keep == [n \in DOMAIN m[i].sub \ gone |-> m[i].sub[n]]
    IN  IF ~(cf.strip /\ m[i].whiteouts) THEN m
        ELSE [m EXCEPT ![i].sub = IF DOMAIN keep = {} THEN <<>> ELSE keep]
Dumped(m, image) ==
    LET s == FoldSet(LAMBDA i, a : StripDir(a, i, image), m,
                     {i \in DOMAIN m : m[i].kind = "dir" /\ m[i].count > 0})
    IN  [i \in DOMAIN s |-> IF cf.strip THEN [s[i] EXCEPT !.opaque = FALSE] ELSE s[i]]

(* The archive ends: the tree is a layer, and the next one is begun, or    *)
(* the layers are put together.                                            *)
More == layer < cf.layers
EndOfTar ==
    /\ pc = "header" /\ blank
    /\ eh' = NoPax /\ global' = NoPax /\ blank' = FALSE /\ count' = 0
    /\ IF More
       THEN /\ src' = Append(src, mem) /\ ref' = Append(ref, <<>>)
            /\ layer' = layer + 1 /\ mem' = MakeRoot /\ pc' = "header" /\ UNCHANGED work
       ELSE IF cf.plan = "merge"
       THEN /\ src' = Append(src, mem) /\ mem' = MakeRoot /\ UNCHANGED <<ref, layer>>
            /\ pc' = "merge" /\ work' = <<>>
       ELSE /\ pc' = IF cf.plan = "base" THEN "base" ELSE "dump"
            /\ mem' = IF cf.plan = "base" THEN [mem EXCEPT ![Root].base = Root] ELSE mem
            /\ work' = <<Root>> /\ UNCHANGED <<src, ref, layer>>
    /\ UNCHANGED <<cf, hash>>

-----------------------------------------------------------------------------
(* erofs_rebuild_load_tree for each source, the last one given first, and  *)
(* erofs_rebuild_dirent_iter for each of its entries.                      *)
Dirents(l, dir, mergedir) ==
    SetToSeq({[layer |-> l, dir |-> dir, name |-> n, into |-> mergedir] : n \in DOMAIN src[l][dir].sub})

LoadTree ==
    /\ pc = "merge" /\ work = <<>> /\ layer > 0
    /\ work' = Dirents(layer, Root, Root)
    /\ layer' = layer - 1
    /\ UNCHANGED <<cf, pc, count, eh, global, blank, mem, src, hash, ref>>

Dirent == work[1]
SrcIno == src[Dirent.layer][Dirent.dir].sub[Dirent.name].ino
Src == src[Dirent.layer][SrcIno]
Merging == pc = "merge" /\ work # <<>>
Present == Dirent.name \in DOMAIN mem[Dirent.into].sub
Merged == UNCHANGED <<cf, pc, layer, count, eh, global, blank, src, ref>>

Hides_Never(i) == i.kind # "dir"
Hides(i) == i.kind # "dir" \/ i.opaque

(* The name is there from an upper layer. *)
MergeHidden ==
    /\ Merging /\ Present
    /\ Hides(mem[mem[Dirent.into].sub[Dirent.name].ino]) \/ Src.kind # "dir"
    /\ work' = Tail(work) /\ UNCHANGED <<mem, hash>> /\ Merged

MergeDir ==
    /\ Merging /\ Present
    /\ \E i \in {mem[Dirent.into].sub[Dirent.name].ino} :
          /\ ~Hides(mem[i]) /\ Src.kind = "dir"
          /\ work' = Dirents(Dirent.layer, SrcIno, i) \o Tail(work)
    /\ UNCHANGED <<mem, hash>> /\ Merged

MergeHardLink ==
    LET key == <<Dirent.layer, SrcIno>>
    IN  /\ Merging /\ ~Present /\ Src.kind = "reg" /\ Src.nlink > 1 /\ key \in DOMAIN hash
        /\ mem' = Link(Grab([mem EXCEPT ![hash[key]].nlink = @ + 1, ![hash[key]].linked = TRUE], hash[key]),
                       Dirent.into, Dirent.name, Dentry("reg", hash[key]))
        /\ work' = Tail(work) /\ UNCHANGED hash /\ Merged

(* A new inode read from the source (erofs_rebuild_update_inode).          *)
NewNode == [NewInode(Src.kind, Dirent.into, Src.data) EXCEPT !.opaque = Src.opaque, !.nlink = 1]

MergeNew ==
    LET key == <<Dirent.layer, SrcIno>>
        i == Len(mem) + 1
        m == [Link(Append(mem, NewNode), Dirent.into, Dirent.name, Dentry(Src.kind, i))
                 EXCEPT ![Dirent.into].whiteouts = @ \/ Src.kind = "wht"]
    IN  /\ Merging /\ ~Present
        /\ ~(Src.kind = "reg" /\ Src.nlink > 1 /\ key \in DOMAIN hash)
        /\ mem' = IF Src.kind = "dir" THEN InitEmptyDir(m, i) ELSE m
        /\ hash' = (key :> i) @@ hash
        /\ work' = (IF Src.kind = "dir" THEN Dirents(Dirent.layer, SrcIno, i) ELSE <<>>) \o Tail(work)
        /\ Merged

MergeDone ==
    /\ pc = "merge" /\ work = <<>> /\ layer = 0
    /\ pc' = "dump"
    /\ UNCHANGED <<cf, layer, count, eh, global, blank, mem, src, work, hash, ref>>

-----------------------------------------------------------------------------
(* Incremental build: when a directory is handled, the entries of the same *)
(* directory of the base image join it (erofs_rebuild_load_basedir).       *)
BaseEntries(m, i) ==
    LET b == src[1][m[i].base].sub
        add == DOMAIN b \ DOMAIN m[i].sub
        m1 == [m EXCEPT ![i].sub = [n \in add |-> [type |-> b[n].type, ino |-> NULL, nid |-> b[n].ino]]
                                       @@ @,
                        ![i].whiteouts = @ \/ \E n \in add : b[n].type = "wht"]
    IN  FoldSet(LAMBDA n, a : IF a[m[i].sub[n].ino].kind = "dir"
                              THEN [a EXCEPT ![m[i].sub[n].ino].base = b[n].ino] ELSE a,
                m1, DOMAIN b \cap DOMAIN m[i].sub)

KidDirs(m, i) == SetToSeq({m[i].sub[n].ino : n \in {n \in DOMAIN m[i].sub : m[i].sub[n].type = "dir"
                                                                         /\ m[i].sub[n].nid = NULL}})

HandleDir ==
    /\ pc = "base" /\ work # <<>>
    /\ \E i \in {work[1]} :
          IF mem[i].base = NULL \/ mem[i].opaque
          THEN mem' = mem /\ work' = KidDirs(mem, i) \o Tail(work) /\ pc' = pc
          ELSE IF src[1][mem[i].base].kind # "dir"      \* -ENOTDIR of erofs_iterate_dir
          THEN pc' = "failed" /\ UNCHANGED <<mem, work>>
          ELSE /\ mem' = BaseEntries(mem, i) /\ pc' = pc
               /\ work' = KidDirs(mem, i) \o Tail(work)
    /\ UNCHANGED <<cf, layer, count, eh, global, blank, src, hash, ref>>

HandleDone ==
    /\ pc = "base" /\ work = <<>>
    /\ pc' = "dump"
    /\ UNCHANGED <<cf, layer, count, eh, global, blank, mem, src, work, hash, ref>>

DumpTree ==
    /\ pc = "dump"
    /\ mem' = Dumped(mem, IF src = <<>> THEN <<>> ELSE src[1])
    /\ pc' = "done"
    /\ UNCHANGED <<cf, layer, count, eh, global, blank, src, work, hash, ref>>

Next ==
    \/ \E h \in cf.entries :
          \/ PaxHeader(h) \/ GlobalHeader(h) \/ UnknownHeader(h) \/ BadHeader(h) \/ EntryFails(h)
          \/ RootEntry(h) \/ OpaqueEntry(h) \/ HardLink(h) \/ NewEntry(h) \/ DirAgain(h)
    \/ EmptyBlock \/ EndOfTar \/ LoadTree \/ MergeHidden \/ MergeDir \/ MergeHardLink
    \/ MergeNew \/ MergeDone \/ HandleDir \/ HandleDone \/ DumpTree

Spec == Init /\ [][Next]_vars

-----------------------------------------------------------------------------
(* While an archive is read, the tree in memory is the one its headers     *)
(* describe so far: the last header for a name wins, a directory that is   *)
(* named again keeps its entries, a hard link names the same file.         *)
TreeIsTar == pc = "header" => PathsOf(mem, Root, <<>>) = ref[layer]

(* No entry refers to an inode that was freed, i_count is the number of    *)
(* references, and a file has as many links as names: whatever was         *)
(* replaced, removed with a directory or loaded from another image.        *)
CountsExact ==
    pc \in {"header", "merge", "dump"} =>
        \A i \in DOMAIN mem :
            LET names == Cardinality({e \in Edges(mem) : mem[e[1]].sub[e[2]].ino = i})
                dots == FoldSet(LAMBDA j, a : a + mem[j].dots, 0,
                            {j \in DOMAIN mem : mem[j].count > 0 /\ mem[j].kind = "dir"
                                                /\ mem[j].parent = i})
            IN  /\ mem[i].count > 0 => mem[i].count = names + dots
                       + (IF mem[i].kind = "dir" THEN mem[i].dots ELSE 0)
                       + (IF i = Root THEN 1 ELSE 0)
                /\ names > 0 => mem[i].count > 0
                /\ (mem[i].count > 0 /\ mem[i].kind # "dir") => mem[i].nlink = names

(* What is dumped is the upper tree over the lower one: an entry hides the *)
(* lower one unless both are directories and the upper is not opaque; with *)
(* stripping no whiteout and no opaque mark is left, but in what stays in  *)
(* the base image.                                                         *)
Over(u, l) ==
    LET hidden(p) == \E k \in 1 .. Len(p) :
                        LET q == SubSeq(p, 1, k) IN
                        q \in DOMAIN u /\ (u[q].kind # "dir" \/ u[q].opaque \/
                                           (q \in DOMAIN l /\ l[q].kind # "dir"))
        shown == {p \in DOMAIN l : p \notin DOMAIN u /\ ~hidden(p)}
    IN  [p \in DOMAIN u \cup shown |-> IF p \in DOMAIN u THEN u[p] ELSE l[p]]

MergedIsOverlay ==
    (pc = "done" /\ cf.layers = 2) =>
        LET t == Over(ref[2], ref[1])
            mine(p) == cf.plan = "merge" \/ p = <<>> \/ p \in DOMAIN ref[2]
            gone == {p \in DOMAIN t : cf.strip /\ t[p].kind = "wht" /\ mine(Front(p))}
        IN  PathsOf(mem, Root, src[1]) =
                [p \in DOMAIN t \ gone |->
                    IF cf.strip /\ mine(p) THEN [t[p] EXCEPT !.opaque = FALSE] ELSE t[p]]

(* The assertion of erofs_mkfs_dump_tree for a tree from an archive or an  *)
(* image: the directory in which an inode with one name only is met is its *)
(* parent, however the name was replaced, removed and made again.  The     *)
(* exception is an inode that has or had a hard link, whose parent is the  *)
(* directory of its first name, and what replaced such an inode and took   *)
(* its parent over.                                                        *)
ParentsHold ==
    pc = "dump" =>
        \A e \in Edges(mem) :
            \E x \in {mem[mem[e[1]].sub[e[2]].ino]} :
                (x.nlink = 1 \/ x.kind = "dir") => x.parent = e[1] \/ x.linked

(* The links of the tree in memory are right in both directions: counted   *)
(* from the entries to their inodes, and followed back from an inode to    *)
(* the directory it is in, hard links excepted as in ParentsHold.          *)
LinksExact == CountsExact /\ ParentsHold
=============================================================================
