------------------------------- MODULE Xattr --------------------------------
(***************************************************************************)
(* Extended attributes (lib/xattr.c and the part of lib/tar.c that collects*)
(* them): items shared by reference count in a hash table, a counting pass *)
(* that decides which of them go to the shared area, the attribute body of *)
(* every inode, the reader of both, and a second run that rebuilds from    *)
(* the image of the first.                                                 *)
(*                                                                         *)
(* A key is a sequence of tokens of one byte each; the first one is the    *)
(* predefined prefix.  The image is a function from addresses to bytes.    *)
(***************************************************************************)
EXTENDS Integers, Sequences, SequencesExt, FiniteSets, FiniteSetsExt, TLC

CONSTANTS
    Configs,      \* [plan, attrs, dirs, second, global, tol, prefixes, label, target, strip, again] records
    Bs,           \* block size in bytes
    MaxShared,    \* UCHAR_MAX
    Bucket(_, _), \* hash bucket of a key and a value
    SharedAddr    \* where the buffer manager puts the shared area

ASSUME SizesAssumption == Bs % 4 = 0 /\ Bs >= 16 /\ MaxShared \in Nat

VARIABLES
    cf, pc, at,
    pass,      \* 1, or 2 when the image of pass 1 is rebuilt
    items,     \* struct xattr_item, in order of creation
    sharedlst, \* shared_xattrs_list
    list,      \* i_xattrs of each inode
    isize,     \* xattr_isize of each inode
    flags,     \* opaque and whiteouts of each inode
    table,     \* the long prefixes in the image
    disk,      \* the image of this pass
    source,    \* disk, isize and table of the image of the first pass
    want,      \* ghost: the attributes each inode should have
    repeated,  \* ghost: the keys an archive sets twice for an inode
    stale,     \* get_xattritem met an item that was freed
    over       \* the DBG_BUGON of erofs_export_xattr_ibody

vars == <<cf, pc, at, pass, items, sharedlst, list, isize, flags, table, disk, source, want, repeated,
          stale, over>>

Types == <<"user.", "acl_access", "acl_default", "trusted.", "", "security.">>
Selinux == <<"security.", "selinux">>
Opaque == <<"trusted.", "overlay.", "opaque">>
Origin == <<"trusted.", "overlay.", "origin">>
HeaderSize == 12
LongPrefix == 128
NoShared == -1
Off == 1000000      \* tolerance INT_MAX: no shared attributes

Inodes == 1 .. Len(cf.attrs)
Align(n) == ((n + 3) \div 4) * 4

(* erofs_xattr_prefix_matches: 0 when no predefined prefix fits. *)
BaseIndex(key) == Max({t \in {0} \cup DOMAIN Types : t > 0 => Types[t] = key[1]})

(* erofs_xattr_insert_name_prefix and the search in get_xattritem: the     *)
(* first long prefix of the same base that fits.                           *)
LongIndex(key) ==
    LET fits == {n \in DOMAIN cf.prefixes : IsPrefix(cf.prefixes[n], key)}
    IN  IF fits = {} THEN 0 ELSE Min(fits)
PrefixLen(key) == IF LongIndex(key) = 0 THEN 1 ELSE Len(cf.prefixes[LongIndex(key)])
PrefixIndex(key) == IF LongIndex(key) = 0 THEN BaseIndex(key) ELSE LongPrefix + LongIndex(key) - 1

(* erofs_next_xattr_align *)
NextAlign(pos, x) == Align(pos + 4 + Len(x.key) + Len(x.val) - PrefixLen(x.key))

-----------------------------------------------------------------------------
(* get_xattritem.  s is [items, stale, id]. *)
GetItem(s, kv) ==
    LET there == {n \in DOMAIN s.items : s.items[n].hashed
                     /\ Bucket(s.items[n].key, s.items[n].val) = Bucket(kv[1], kv[2])}
        same == {n \in there : s.items[n].key = kv[1] /\ s.items[n].val = kv[2]}
        old == Max(same)
    IN  IF \E n \in there : ~s.items[n].live THEN [s EXCEPT !.stale = TRUE]
        ELSE IF same # {} THEN [s EXCEPT !.items[old].count = @ + 1, !.id = old]
        ELSE [s EXCEPT !.items = Append(@, [key |-> kv[1], val |-> kv[2], count |-> 1,
                                            shared |-> NoShared, live |-> TRUE, hashed |-> TRUE]),
                       !.id = Len(s.items) + 1]

(* put_xattritem: the memory goes, the entry of the hash table stays. *)
PutItem_Last(t, n) == [t EXCEPT ![n].count = 0, ![n].live = FALSE]
PutItem(t, n) == IF t[n].count > 1 THEN [t EXCEPT ![n].count = @ - 1]
                 ELSE [t EXCEPT ![n].count = 0, ![n].live = FALSE]

Start(t) == [items |-> t, stale |-> stale, id |-> 0]

(* erofs_xattr_add to an inode puts the item first in its list.            *)
AddAll(s, l, kvs) ==
    FoldLeft(LAMBDA a, kv : LET g == GetItem(a.s, kv) IN
                            IF g.stale THEN [a EXCEPT !.s = g]
                            ELSE [s |-> g, l |-> <<g.id>> \o a.l],
             [s |-> s, l |-> l], kvs)

(* read_xattrs_from_file: unidentified keys are skipped, a label replaces  *)
(* the one of the file.                                                    *)
Identified(kv) == BaseIndex(kv[1]) # 0
Skipped(kv) == cf.label # <<>> /\ kv[1] = Selinux
Label == IF cf.label = <<>> THEN <<>> ELSE <<<<Selinux, cf.label>>>>
FromFile(i) == SelectSeq(cf.attrs[i], LAMBDA kv : Identified(kv) /\ ~Skipped(kv)) \o Label

AsMap(kvs) == [k \in {kvs[n][1] : n \in DOMAIN kvs} |->
                  kvs[Max({n \in DOMAIN kvs : kvs[n][1] = k})][2]]

-----------------------------------------------------------------------------
Init ==
    /\ cf \in Configs /\ pass = 1
    /\ pc = IF cf.plan # "path" THEN "apply"
            ELSE IF cf.tol < 0 \/ cf.tol = Off THEN "handle" ELSE "count"
    /\ at = IF pc = "count" THEN 2 ELSE 1
    /\ items = <<>> /\ sharedlst = <<>> /\ list = [i \in Inodes |-> <<>>]
    /\ isize = [i \in Inodes |-> IF i = 1 THEN cf.target ELSE 0]
    /\ flags = [i \in Inodes |-> {}] /\ table = <<>> /\ disk = <<>> /\ source = <<>>
    /\ want = [i \in Inodes |-> <<>>] /\ repeated = [i \in Inodes |-> {}]
    /\ stale = FALSE /\ over = FALSE

(* erofs_count_all_xattrs_from_path: every file below the root.  An item   *)
(* is shared when its count reaches one more than the tolerance.           *)
Counted(s, kv) ==
    LET g == GetItem(s.s, kv)
    IN  [s |-> g, l |-> IF g.items[g.id].count = cf.tol + 1 THEN <<g.id>> \o s.l ELSE s.l]

CountFile ==
    /\ pc = "count" /\ at <= Len(cf.attrs)
    /\ \E r \in {FoldLeft(Counted, [s |-> Start(items), l |-> sharedlst], FromFile(at))} :
          items' = r.s.items /\ sharedlst' = r.l
    /\ at' = at + 1
    /\ UNCHANGED <<cf, pc, pass, list, isize, flags, table, disk, source, want, repeated, stale, over>>

(* erofs_build_shared_xattrs_from_path: the shared items are written, in   *)
(* some order, and the others dropped.                                     *)
EntryCells(x) ==
    LET c == <<PrefixIndex(x.key), Len(x.key) - PrefixLen(x.key), Len(x.val), 0>>
             \o SubSeq(x.key, PrefixLen(x.key) + 1, Len(x.key)) \o x.val
    IN  c \o [k \in 1 .. Align(Len(c)) - Len(c) |-> 0]

Write(d, addr, cells) ==
    [a \in addr .. addr + Len(cells) - 1 |-> cells[a - addr + 1]] @@ d

CleanXattrs(t) == [n \in DOMAIN t |->
    IF t[n].shared # NoShared THEN t[n] ELSE [t[n] EXCEPT !.live = FALSE, !.hashed = FALSE]]

BuildShared ==
    /\ pc = "count" /\ at > Len(cf.attrs)
    /\ \E lay \in {FoldLeft(LAMBDA a, n :
                      [p |-> NextAlign(a.p, items[n]),
                       d |-> Write(a.d, SharedAddr + a.p, EntryCells(items[n])),
                       t |-> [a.t EXCEPT ![n].shared = ((SharedAddr % Bs) + a.p) \div 4]],
                   [p |-> 0, d |-> disk, t |-> items], SetToSeq(Range(sharedlst)))} :
          /\ disk' = lay.d /\ items' = CleanXattrs(lay.t)
    /\ pc' = "handle" /\ at' = 1
    /\ UNCHANGED <<cf, pass, sharedlst, list, isize, flags, table, source, want, repeated, stale, over>>

(* erofs_prepare_xattr_ibody: the size of the body, filled up to the room  *)
(* the inode of a base image has.                                          *)
BodySize(t, l) ==
    FoldLeft(LAMBDA a, n : IF t[n].shared # NoShared /\ a.c < MaxShared
                           THEN [c |-> a.c + 1, p |-> a.p + 4]
                           ELSE [a EXCEPT !.p = NextAlign(@, t[n])],
             [c |-> 0, p |-> HeaderSize], l).p

Padded(p, target) == IF p >= target THEN p ELSE Max({p + 4, Align(target)})
Prepared(t, l, target) == Padded(IF l = <<>> THEN 0 ELSE BodySize(t, l), target)

NoRoom(n) == cf.plan = "incremental" /\ at = 1 /\ isize[1] # 0 /\ n > isize[1]

Handled(r) ==
    LET n == Prepared(r.s.items, r.l, isize[at])
    IN  /\ items' = r.s.items /\ stale' = r.s.stale
        /\ list' = [list EXCEPT ![at] = r.l]
        /\ isize' = IF NoRoom(n) THEN isize ELSE [isize EXCEPT ![at] = n]
        /\ pc' = IF r.s.stale THEN "crashed" ELSE IF NoRoom(n) THEN "failed"
                 ELSE IF at = Len(cf.attrs) THEN "flush" ELSE pc
        /\ at' = IF at = Len(cf.attrs) THEN 1 ELSE at + 1

(* erofs_mkfs_handle_inode: erofs_scan_file_xattrs and the size.  The      *)
(* prefixes were written before.                                           *)
PrefixTable_Whole == [n \in DOMAIN cf.prefixes |-> [base |-> BaseIndex(cf.prefixes[n]),
                                                    infix |-> cf.prefixes[n]]]
PrefixTable == [n \in DOMAIN cf.prefixes |-> [base |-> BaseIndex(cf.prefixes[n]),
                                              infix |-> Tail(cf.prefixes[n])]]
HandleInode ==
    /\ pc = "handle" /\ table' = PrefixTable
    /\ \E kvs \in {IF cf.tol < 0 THEN <<>> ELSE FromFile(at)} :
          /\ Handled(AddAll(Start(items), <<>>, kvs))
          /\ want' = [want EXCEPT ![at] = AsMap(kvs)]
    /\ UNCHANGED <<cf, pass, sharedlst, flags, disk, source, repeated, over>>

-----------------------------------------------------------------------------
(* Attributes of an archive: the records of an extended header replace     *)
(* each other, those of the global header come behind them unless there    *)
(* (tarerofs_insert_xattr, tarerofs_merge_xattrs), and all are set         *)
(* (tarerofs_apply_xattrs).                                                *)
Insert(l, kv, skip) ==
    LET there == {n \in DOMAIN l : l[n][1] = kv[1]}
    IN  IF there = {} THEN Append(l, kv)
        ELSE IF skip THEN l ELSE [l EXCEPT ![Min(there)] = kv]
Pax(records) == FoldLeft(LAMBDA l, kv : Insert(l, kv, TRUE),
                         FoldLeft(LAMBDA l, kv : Insert(l, kv, FALSE), <<>>, records), cf.global)
Known(kvs) == SelectSeq(kvs, Identified)

(* The headers of one inode.  A directory whose header comes again keeps   *)
(* its inode, and what the second header has is set on top of the first;   *)
(* opaque marks, each an entry of its own, may follow.                     *)
FromHeaders(i) ==
    Known(Pax(cf.attrs[i])) \o (IF i \in DOMAIN cf.second THEN Known(Pax(cf.second[i])) ELSE <<>>)

ApplyXattrs ==
    /\ pc = "apply"
    /\ \E marks \in IF at \in cf.dirs THEN 0 .. 2 ELSE {0} :
       \E kvs \in {FromHeaders(at) \o [n \in 1 .. marks |-> <<Opaque, <<"y">>>>]} :
       \E r \in {AddAll(Start(items), <<>>, kvs)} :
          /\ items' = r.s.items /\ stale' = r.s.stale
          /\ list' = [list EXCEPT ![at] = r.l]
          /\ flags' = [flags EXCEPT ![at] = IF marks > 0 THEN {"opaque"} ELSE {}]
          /\ want' = [want EXCEPT ![at] = AsMap(kvs)]
          /\ repeated' = [repeated EXCEPT ![at] =
                {kvs[n][1] : n \in {m \in DOMAIN kvs : \E k \in 1 .. m - 1 : kvs[k][1] = kvs[m][1]}}]
    /\ pc' = IF at = Len(cf.attrs) THEN "dump" ELSE pc
    /\ at' = IF at = Len(cf.attrs) THEN 1 ELSE at + 1
    /\ UNCHANGED <<cf, pass, sharedlst, isize, table, disk, source, over>>

(* erofs_rebuild_handle_inode: overlay marks are stripped or added.        *)
Removed(t, l, key) ==
    LET gone == SelectSeq(l, LAMBDA n : t[n].key = key)
    IN  [items |-> FoldLeft(PutItem, t, gone), l |-> SelectSeq(l, LAMBDA n : t[n].key # key)]

DumpInode ==
    /\ pc = "dump"
    /\ IF cf.strip
       THEN \E r \in {Removed(items, list[at], Opaque)} :
               /\ Handled([s |-> Start(r.items), l |-> r.l])
               /\ want' = [want EXCEPT ![at] = Restrict(@, DOMAIN @ \ {Opaque})]
       ELSE \E kvs \in {IF "whiteouts" \in flags[at] THEN <<<<Origin, <<>>>>>> ELSE <<>>} :
               /\ Handled(AddAll(Start(items), list[at], kvs))
               /\ want' = [want EXCEPT ![at] = AsMap(kvs) @@ @]
    /\ UNCHANGED <<cf, pass, sharedlst, flags, table, disk, source, repeated, over>>

-----------------------------------------------------------------------------
(* erofs_export_xattr_ibody: the name filter, the shared ids in the order  *)
(* of the list, the others in the reverse order.                           *)
Loc(i) == i * 16 * Bs + 8
Rest(key) == <<BaseIndex(key), Tail(key)>>

Exported(t, l) ==
    FoldLeft(LAMBDA a, n : IF t[n].shared # NoShared /\ Len(a.ids) < MaxShared
                           THEN [a EXCEPT !.ids = Append(@, n)]
                           ELSE [a EXCEPT !.rest = <<n>> \o @],
             [ids |-> <<>>, rest |-> <<>>], l)

IdCells(t, ids) == FlattenSeq([k \in DOMAIN ids |-> <<t[ids[k]].shared, 0, 0, 0>>])
BodyCells(t, l, e, size) ==
    LET c == <<{Rest(t[l[k]].key) : k \in DOMAIN l}, 0, 0, 0, Len(e.ids), 0, 0, 0, 0, 0, 0, 0>>
             \o IdCells(t, e.ids) \o FlattenSeq([k \in DOMAIN e.rest |-> EntryCells(t[e.rest[k]])])
    IN  c \o [k \in 1 .. Max({size - Len(c), 0}) |-> 0]

ExportBody ==
    /\ pc = "flush"
    /\ IF isize[at] = 0 THEN UNCHANGED <<disk, items, list, over>>
       ELSE \E e \in {Exported(items, list[at])} :
            \E c \in {BodyCells(items, list[at], e, isize[at])} :
               /\ over' = (Len(c) > isize[at])
               /\ disk' = IF over' THEN disk ELSE Write(disk, Loc(at), c)
               /\ items' = FoldLeft(PutItem, items, e.ids \o e.rest)
               /\ list' = [list EXCEPT ![at] = <<>>]
    /\ pc' = IF over' THEN "failed" ELSE IF at = Len(cf.attrs) THEN "written" ELSE pc
    /\ at' = IF over' THEN at ELSE IF at = Len(cf.attrs) THEN 1 ELSE at + 1
    /\ UNCHANGED <<cf, pass, sharedlst, isize, flags, table, source, want, repeated, stale>>

-----------------------------------------------------------------------------
(* The reader.  im is an image [disk, isize, table]; it = [blk, ofs, pg],  *)
(* where pg is the block that was read into it->page.                      *)
Cell(im, it, k) == LET a == it.pg * Bs + it.ofs + k IN IF a \in DOMAIN im.disk THEN im.disk[a] ELSE 0
Iter(addr) == [blk |-> addr \div Bs, ofs |-> addr % Bs, pg |-> addr \div Bs]

(* xattr_iter_fixup *)
Fixup(it) == IF it.ofs < Bs THEN it
             ELSE LET b == it.blk + it.ofs \div Bs IN [blk |-> b, pg |-> b, ofs |-> it.ofs % Bs]

(* The slices of a name or a value, block by block. *)
RECURSIVE Bytes(_, _, _, _)
Bytes(im, it, n, got) ==
    IF n = 0 THEN [it |-> it, got |-> got]
    ELSE LET j == Fixup(it)
             s == Min({Bs - j.ofs, n})
         IN  Bytes(im, [j EXCEPT !.ofs = @ + s], n - s,
                   got \o [k \in 1 .. s |-> Cell(im, j, k - 1)])

(* xattr_foreach: one entry, its full name put together from the           *)
(* predefined prefix, the infix of a long prefix and what is stored.  The  *)
(* value is read when the name is the one looked for; the rest is skipped  *)
(* by adding to ofs, maybe over blocks.  With no name looked for (a list)  *)
(* the names are read and the values skipped.                              *)
Foreach(im, it0, key) ==
    LET it == Fixup(it0)
        x == Cell(im, it, 0)
        long == x >= LongPrefix
        n == x - LongPrefix + 1
        known == ~long \/ n <= Len(im.table)
        base == IF ~known THEN 0 ELSE IF long THEN im.table[n].base ELSE x
        infix == IF known /\ long THEN im.table[n].infix ELSE <<>>
        nlen == Cell(im, it, 1)
        vlen == Cell(im, it, 2)
        Entry(k, v, j) == [key |-> k, val |-> v, it |-> [j EXCEPT !.ofs = Align(@)],
                           size |-> Align(4 + nlen + vlen)]
        Skip == Entry(<<>>, <<>>, [it EXCEPT !.ofs = @ + 4 + nlen + vlen])
        Value(k, v) == Entry(k, v.got, v.it)
        Named(r) ==
            LET k == <<Types[base]>> \o infix \o r.got
            IN  IF key = <<>> THEN Entry(k, <<>>, [r.it EXCEPT !.ofs = @ + vlen])
                ELSE IF k = key THEN Value(k, Bytes(im, r.it, vlen, <<>>)) ELSE Skip
    IN  IF base = 0 THEN Skip ELSE Named(Bytes(im, [it EXCEPT !.ofs = @ + 4], nlen, <<>>))

(* inline_getxattr, inline_listxattr *)
RECURSIVE Inline(_, _, _, _, _)
Inline(im, it, remaining, key, got) ==
    IF remaining <= 0 THEN got
    ELSE LET Step(e) == Inline(im, e.it, remaining - e.size, key, Append(got, e))
         IN  Step(Foreach(im, it, key))

(* init_inode_xattrs: the shared ids behind the header. *)
SharedCount(im, i) == Cell(im, Iter(Loc(i)), 4)
SharedIds(im, i) == [k \in 1 .. SharedCount(im, i) |-> Cell(im, Iter(Loc(i) + HeaderSize + 4 * (k - 1)), 0)]

(* shared_getxattr, shared_listxattr *)
SharedIter(id) == Iter((SharedAddr \div Bs) * Bs + 4 * id)
SharedEntry(im, id, key) == Foreach(im, SharedIter(id), key)

(* The inode records the size of its body as a number of words             *)
(* (EROFS_INODE_XATTR_ICOUNT, 16 bits), from which the reader works it out *)
(* (erofs_xattr_ibody_size).                                               *)
Icount(size) == IF size = 0 THEN 0 ELSE ((size - HeaderSize) \div 4 + 1) % 65536
IbodySize(im, i) == LET c == Icount(im.isize[i]) IN IF c = 0 THEN 0 ELSE HeaderSize + 4 * (c - 1)

(* init_inode_xattrs refuses a body that is a header only (-EOPNOTSUPP);   *)
(* no recorded number of words stands for less than a header.              *)
Refused(im, i) == IbodySize(im, i) = HeaderSize

Entries(im, i, key) ==
    LET h == HeaderSize + 4 * SharedCount(im, i)
        all == IF IbodySize(im, i) = 0 THEN <<>>
               ELSE Inline(im, Iter(Loc(i) + h), IbodySize(im, i) - h, key, <<>>)
                    \o [k \in DOMAIN SharedIds(im, i) |-> SharedEntry(im, SharedIds(im, i)[k], key)]
    IN  SelectSeq(all, LAMBDA e : e.key # <<>>)

(* erofs_listxattr and erofs_getxattr *)
ListXattr(im, i) == LET l == Entries(im, i, <<>>) IN [n \in DOMAIN l |-> l[n].key]
GetXattr(im, i, key) == Entries(im, i, key)[1].val
ReadAll(im, i) == LET l == ListXattr(im, i) IN [n \in DOMAIN l |-> <<l[n], GetXattr(im, i, l[n])>>]

Image == [disk |-> disk, isize |-> isize, table |-> table]

-----------------------------------------------------------------------------
(* A second mkfs rebuilds from the image: erofs_rebuild_load_tree makes a  *)
(* new root, which has no attributes, and erofs_read_xattrs_from_disk      *)
(* loads the others.                                                       *)
Rebuild ==
    /\ pc = "written" /\ cf.again /\ pass = 1
    /\ pass' = 2 /\ pc' = "load" /\ at' = 2 /\ source' = Image
    /\ items' = <<>> /\ sharedlst' = <<>> /\ list' = [i \in Inodes |-> <<>>]
    /\ isize' = [i \in Inodes |-> 0] /\ flags' = [i \in Inodes |-> {}]
    /\ table' = <<>> /\ disk' = <<>>
    /\ UNCHANGED <<cf, want, repeated, stale, over>>

LoadXattrs ==
    /\ pc = "load"
    /\ \E kvs \in {ReadAll(source, at)} :
       \E opq \in {(\E n \in DOMAIN kvs : kvs[n][1] = Opaque)} :
       \E org \in {(at \in cf.dirs /\ \E n \in DOMAIN kvs : kvs[n] = <<Origin, <<>>>>)} :
          IF Refused(source, at) \/ (opq /\ at \notin cf.dirs)    \* -EOPNOTSUPP, -EINVAL
          THEN pc' = "failed" /\ UNCHANGED <<at, items, stale, list, flags, want>>
          ELSE \E r \in {AddAll(Start(items), <<>>,
                                 SelectSeq(kvs, LAMBDA kv : ~(org /\ kv = <<Origin, <<>>>>)))} :
               /\ items' = r.s.items /\ stale' = r.s.stale
               /\ list' = [list EXCEPT ![at] = r.l]
               /\ flags' = [flags EXCEPT ![at] = (IF opq THEN {"opaque"} ELSE {})
                                               \cup (IF org THEN {"whiteouts"} ELSE {})]
               /\ want' = IF org /\ cf.strip
                          THEN [want EXCEPT ![at] = Restrict(@, DOMAIN @ \ {Origin})] ELSE want
               /\ pc' = IF at = Len(cf.attrs) THEN "dump" ELSE pc
               /\ at' = IF at = Len(cf.attrs) THEN 1 ELSE at + 1
    /\ UNCHANGED <<cf, pass, sharedlst, isize, table, disk, source, repeated, over>>

Next == \/ CountFile \/ BuildShared \/ HandleInode \/ ApplyXattrs \/ DumpInode
        \/ ExportBody \/ Rebuild \/ LoadXattrs

Spec == Init /\ [][Next]_vars

-----------------------------------------------------------------------------
(* What the code loses.  A key behind a long prefix, in an image made from *)
(* an archive or from another image: the table of prefixes is written for  *)
(* a directory source only, and a reader passes over the entry.            *)
PrefixLost(key) == (cf.plan # "path" \/ pass = 2) /\ LongIndex(key) # 0

(* A root made anew by a rebuild; and a body reserved for no attributes    *)
(* that has no room for more than a header: mkfs fails for less than a     *)
(* header, and a reader refuses one that is a header only.                 *)
RootLost(i) == pass = 2 /\ i = 1
TooShort(i) == isize[i] \in 1 .. HeaderSize /\ DOMAIN want[i] = {}

(* Reading an image gives every inode the attributes its source has, each  *)
(* once: whether they are shared, behind a long prefix, over a block       *)
(* boundary or loaded from another image; no name of the inode is ruled    *)
(* out by its filter, and no body exceeded the size that was reserved (the *)
(* assertion of erofs_export_xattr_ibody).  Excepted are the key of a      *)
(* lost prefix, a key set by two headers of a directory or by two opaque   *)
(* marks (both are written, and the older one is found), the root of a     *)
(* rebuilt image and a body that is too short; the other keys of such an   *)
(* inode and the other inodes of such an image are not.                    *)
XattrsReadBack ==
    /\ over => TooShort(at)
    /\ pc = "written" =>
        \A i \in Inodes : RootLost(i) \/ TooShort(i) \/
            LET Sound(key) == key \notin repeated[i] /\ ~PrefixLost(key)
                wanted == {key \in DOMAIN want[i] : Sound(key)}
            IN  /\ ~Refused(Image, i)
                /\ \E kvs \in {SelectSeq(ReadAll(Image, i), LAMBDA kv : Sound(kv[1]))} :
                     /\ AsMap(kvs) = Restrict(want[i], wanted) /\ Len(kvs) = Cardinality(wanted)
                     /\ \A n \in DOMAIN kvs : Rest(kvs[n][1]) \in Cell(Image, Iter(Loc(i)), 0)

(* Whatever was counted, dropped, removed and written, an inode's list has *)
(* only items that are alive, each with a reference of its own; and the    *)
(* freed items that put_xattritem leaves in the hash table are never met   *)
(* by a lookup.                                                            *)
ItemsHeld ==
    /\ ~stale
    /\ \A n \in DOMAIN items :
        LET held == {<<i, k>> \in UNION {{i} \X DOMAIN list[i] : i \in Inodes} : list[i][k] = n}
        IN  /\ items[n].count >= Cardinality(held)
            /\ held # {} => items[n].live
            /\ items[n].shared # NoShared => items[n].live
=============================================================================
