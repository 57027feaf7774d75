------------------------------- MODULE BufMgr -------------------------------
(***************************************************************************)
(* The buffer manager of mkfs (lib/cache.c, include/erofs/cache.h), which  *)
(* decides where everything goes in the image.                             *)
(*                                                                         *)
(* A buffer block (bb) is a run of file system blocks holding buffer heads *)
(* (bh), one per inode, inline tail, data area or table.  A bb is linked   *)
(* on one list; it is mapped when it has a block address, and address      *)
(* assignment follows the list.  Mapped blocks with room left are found    *)
(* through buckets keyed by their fill level.                              *)
(*                                                                         *)
(* The functions of cache.c are operators from the state of a manager to   *)
(* its next state.  Sizes are in units of which a block has BlkSize; bug   *)
(* is set where a DBG_BUGON of the source fires.                           *)
(***************************************************************************)
EXTENDS Integers, SequencesExt

CONSTANTS
  BlkSize,   \* erofs_blksiz
  Islot,     \* sizeof(struct erofs_inode_compact)
  XattrSlot, \* sizeof(struct erofs_xattr_entry)
  DevtSlot   \* EROFS_DEVT_SLOT_SIZE

ASSUME BlkAssumption ==
  /\ BlkSize \in Nat /\ Islot \in Nat \ {0} /\ DevtSlot \in Nat \ {0}
  /\ XattrSlot \in Nat \ {0}
  /\ BlkSize > Islot /\ BlkSize % Islot = 0 /\ BlkSize % DevtSlot = 0
  /\ BlkSize % XattrSlot = 0

NULL_ADDR == -1
HEAD == 0          \* the list head blkh where a buffer block is expected

(* get_alignsize: the alignment of each type, and the type it is stored as. *)
AlignSize(type) ==
  CASE type \in {"DATA", "DIRA"} -> BlkSize
    [] type = "INODE"            -> Islot
    [] type = "DEVT"             -> DevtSlot
    [] type = "XATTR"            -> XattrSlot
    [] type = "META"             -> 1
StoredType(type) == IF type = "DATA" THEN "DATA" ELSE "META"

RoundUp(x, a) == ((x + a - 1) \div a) * a
BlkRoundUp(x) == RoundUp(x, BlkSize) \div BlkSize

(* ((x - 1) & blkmask) + 1: how much of its last block x occupies; a whole *)
(* block for 0.                                                            *)
InBlock(x) == ((x - 1) % BlkSize) + 1

(* erofs_buffer_init; metablkcnt comes from malloc. *)
BufferInit(startblk, meta) ==
  [list |-> << >>, bb |-> << >>, nr |-> 0,
   buckets |-> [t \in {"DATA", "META"} |-> [o \in 0..(BlkSize - 1) |-> << >>]],
   tail_blkaddr |-> startblk, last_mapped |-> HEAD, metablkcnt |-> meta,
   bug |-> FALSE]

Ids(m) == Range(m.list)
PosOf(m, id) == SelectInSeq(m.list, LAMBDA x : x = id)
Bug(m, cond) == [m EXCEPT !.bug = @ \/ cond]

(* list_next_entry(bb, list)->blkaddr *)
NextAddr(m, id) ==
  LET p == PosOf(m, id) IN
    IF p = Len(m.list) THEN NULL_ADDR ELSE m.bb[m.list[p + 1]].blkaddr

(* erofs_bupdate_mapped: a mapped bb goes to the end of its bucket.        *)
UpdateMapped(m, id) ==
  LET b == m.bb[id] IN
    IF b.blkaddr = NULL_ADDR THEN m
    ELSE [m EXCEPT !.buckets[b.type] =
            [o \in DOMAIN @ |->
               IF o = b.off % BlkSize THEN Append(RemoveFirst(@[o], id), id)
                                      ELSE RemoveFirst(@[o], id)]]
-----------------------------------------------------------------------------
(* __erofs_battach *)

EndBlk(m, id) == m.bb[id].blkaddr + BlkRoundUp(m.bb[id].off)

(* Whether what is attached ends past the block the bb ends in. *)
Oob(m, id, incr, align, extra) ==
  RoundUp(InBlock(m.bb[id].off), align) + incr + extra - BlkSize

(* A mapped bb grows by blocks only at the end of the image.               *)
(* Fault: the last mapped bb is taken to be at the end of the image.       *)
TailUpdate_Last(m, id) == id = m.last_mapped
TailUpdate(m, id) == m.tail_blkaddr = EndBlk(m, id)

Attachable(m, id, incr, align, extra) ==
  Oob(m, id, incr, align, extra) > 0 =>
    /\ NextAddr(m, id) = NULL_ADDR
    /\ m.bb[id].blkaddr # NULL_ADDR => TailUpdate(m, id)

AttachedOff(m, id, incr, align) == RoundUp(m.bb[id].off, align) + incr

(* The value a successful __erofs_battach returns. *)
Occupied(m, id, incr, align) == InBlock(AttachedOff(m, id, incr, align))

(* The new address of the end of the image.                                *)
NewTail(m, id, off) == m.bb[id].blkaddr + BlkRoundUp(off)

(* The bb with bhs added to its buffers. *)
Attach(m, id, bhs, incr, align, extra) ==
  LET off  == AttachedOff(m, id, incr, align)
      tail == /\ Oob(m, id, incr, align, extra) >= 0
              /\ m.bb[id].blkaddr # NULL_ADDR
              /\ TailUpdate(m, id)
      m1   == [m EXCEPT !.bb[id].off = off,
                        !.bb[id].bhs = @ \o bhs,
                        !.tail_blkaddr = IF tail THEN NewTail(m, id, off) ELSE @]
  IN UpdateMapped(m1, id)
-----------------------------------------------------------------------------
(* erofs_bfind_for_attach *)

(* The first bb of the fullest bucket that still has room.  The last       *)
(* mapped bb is left to the second search.                                 *)
FullestFit(size, inl, align) ==
  IF size + inl >= BlkSize THEN 0 ELSE ((BlkSize - (size + inl)) \div align) * align

FindMapped(m, type, size, inl, align) ==
  LET first(o) == Head(m.buckets[type][o])
      fit == {o \in 1..FullestFit(size, inl, align) :
                /\ m.buckets[type][o] # << >>
                /\ NextAddr(m, first(o)) # NULL_ADDR}
  IN IF fit = {} THEN HEAD ELSE first(Max(fit))

(* The DBG_BUGONs of that search: a bb passed over is the last mapped one, *)
(* and the bb found has the type, the address and the room expected.       *)
FindMappedBug(m, type, size, inl, align, id) ==
  LET level == IF id = HEAD THEN 0 ELSE m.bb[id].off % BlkSize IN
  \/ \E o \in (level + 1)..FullestFit(size, inl, align) :
       /\ m.buckets[type][o] # << >>
       /\ Head(m.buckets[type][o]) # m.last_mapped
  \/ /\ id # HEAD
     /\ \/ m.bb[id].type # type
        \/ m.bb[id].blkaddr = NULL_ADDR
        \/ id # Head(m.buckets[type][level])
        \/ ~Attachable(m, id, size, align, inl)
        \/ Occupied(m, id, size, align) + inl > BlkSize

(* From the last mapped bb on, the first bb that is used best.             *)
FindExpandable(m, type, size, inl, align, id0) ==
  LET used0     == (size % BlkSize) + inl
      from      == IF m.last_mapped = HEAD THEN 1 ELSE PosOf(m, m.last_mapped)
      before(p) == m.bb[m.list[p]].off % BlkSize
      used(p)   == (Occupied(m, m.list[p], size, align) % BlkSize) + inl
      max0      == IF id0 = HEAD THEN 0 ELSE Occupied(m, id0, size, align) + inl
      fit       == {p \in from..Len(m.list) :
                      /\ before(p) # 0
                      /\ m.bb[m.list[p]].type = type
                      /\ Attachable(m, m.list[p], size, align, inl)
                      /\ used(p) <= BlkSize
                      /\ used(p) >= before(p) \/ used(p) >= used0
                      /\ used(p) > max0}
  IN IF fit = {} THEN id0
     ELSE m.list[Min({p \in fit : \A q \in fit : used(q) <= used(p)})]
-----------------------------------------------------------------------------
(* erofs_balloc (required_ext is 0 in every call): the manager and whether *)
(* it succeeded.  The bh is called key.                                    *)

Fail(m, err) == [m |-> m, err |-> err]
Ok(m) == [m |-> m, err |-> "ok"]

(* Where the list takes a new bb: DATA, which is mapped right away, next   *)
(* to the last mapped bb.                                                  *)
NewPos(m, type) ==
  IF type # "DATA" THEN Len(m.list) + 1
  ELSE IF m.last_mapped = HEAD THEN 1 ELSE PosOf(m, m.last_mapped) + 1

NewBlock(m, type) ==
  [m EXCEPT !.nr = @ + 1,
            !.list = InsertAt(@, NewPos(m, type), m.nr + 1),
            !.bb = Append(@, [type |-> type, blkaddr |-> NULL_ADDR, off |-> 0,
                              bhs |-> << >>])]

(* "inline data should be in the same fs block"                            *)
InlineTooBig(size, inl) == (size % BlkSize) + inl > BlkSize

Bh(m, id, key, size, align) ==
  [key |-> key, off |-> RoundUp(m.bb[id].off, align), len |-> size, op |-> "skip"]

Balloc(m, what, size, inl, key) ==
  LET align == AlignSize(what)
      type  == StoredType(what)
      fresh == (size % BlkSize) + inl = 0 \/ align = BlkSize
      id1   == FindMapped(m, type, size, inl, align)
      m1    == IF fresh THEN m
               ELSE Bug(m, FindMappedBug(m, type, size, inl, align, id1))
      id2   == IF fresh THEN HEAD
               ELSE FindExpandable(m, type, size, inl, align, id1)
      m2    == IF id2 = HEAD THEN NewBlock(m1, type) ELSE m1
      id    == IF id2 = HEAD THEN m2.nr ELSE id2
  IN CASE InlineTooBig(size, inl) -> Fail(m, "ENOSPC")
       [] ~InlineTooBig(size, inl) /\ ~Attachable(m2, id, size, align, inl) ->
            Fail(m2, "EINVAL")
       [] OTHER ->
            Ok(Attach(m2, id, <<Bh(m2, id, key, size, align)>>, size, align, inl))

(* The bb of a bh, and the bh. *)
BlockOf(m, key) ==
  CHOOSE id \in Ids(m) : \E n \in DOMAIN m.bb[id].bhs : m.bb[id].bhs[n].key = key
BhNr(m, key) ==
  LET id == BlockOf(m, key) IN
    SelectInSeq(m.bb[id].bhs, LAMBDA h : h.key = key)
IsTailBh(m, key) == BhNr(m, key) = Len(m.bb[BlockOf(m, key)].bhs)

(* erofs_battach: another bh behind the last one of its bb. *)
Battach(m, key, what, size, newkey) ==
  LET id == BlockOf(m, key)
      align == AlignSize(what)
  IN IF IsTailBh(m, key) /\ Attachable(m, id, size, align, 0)
     THEN Ok(Attach(m, id, <<Bh(m, id, newkey, size, align)>>, size, align, 0))
     ELSE Fail(m, "EINVAL")

(* erofs_bh_balloon: the last bh of its bb grows. *)
Balloon(m, key, incr) ==
  LET id == BlockOf(m, key) IN
    IF IsTailBh(m, key) /\ Attachable(m, id, incr, 1, 0)
    THEN Ok(Attach([m EXCEPT !.bb[id].bhs[BhNr(m, key)].len = @ + incr],
                   id, << >>, incr, 1, 0))
    ELSE Fail(m, "EINVAL")
-----------------------------------------------------------------------------
(* __erofs_mapbh.                                                          *)
(* Fault: the end of the image does not move with the bb.                  *)
MapTail_Kept(m, id) == m.tail_blkaddr
MapTail(m, id) == Max({m.tail_blkaddr, EndBlk(m, id)})

(* Fault: a bb is given an address again.                                  *)
MapOne_Again(m, id) ==
  LET m1 == UpdateMapped([m EXCEPT !.bb[id].blkaddr = m.tail_blkaddr,
                                   !.last_mapped = id], id)
  IN [m1 EXCEPT !.tail_blkaddr = MapTail(m1, id)]
MapOne(m, id) ==
  LET m1 == IF m.bb[id].blkaddr # NULL_ADDR THEN m
            ELSE UpdateMapped([m EXCEPT !.bb[id].blkaddr = m.tail_blkaddr,
                                        !.last_mapped = id], id)
  IN [m1 EXCEPT !.tail_blkaddr = MapTail(m1, id)]

(* erofs_mapbh: everything between the last mapped bb and this one is      *)
(* mapped in list order, everything on the list for HEAD.                  *)
MapStep(m, id) == MapOne(Bug(m, m.bb[id].blkaddr # NULL_ADDR), id)

MapRun(m, from, to) ==
  LET run[p \in (from - 1)..to] ==
        IF p = from - 1 THEN m ELSE MapStep(run[p - 1], m.list[p])
  IN run[to]

MapBb(m, bb) ==
  LET from == IF m.last_mapped = HEAD THEN 1 ELSE PosOf(m, m.last_mapped) + 1
      to   == IF bb = HEAD \/ PosOf(m, bb) < from THEN Len(m.list) ELSE PosOf(m, bb)
  IN IF bb # HEAD /\ m.bb[bb].blkaddr # NULL_ADDR THEN m ELSE MapRun(m, from, to)

Map(m, key) == MapBb(m, BlockOf(m, key))

(* erofs_btell *)
Btell(m, key) ==
  LET id == BlockOf(m, key) IN
    m.bb[id].blkaddr * BlkSize + m.bb[id].bhs[BhNr(m, key)].off

(* erofs_bfree.                                                            *)
(* Fault: with its last bb gone, nothing counts as mapped.                 *)
LastAfterFree_Head(m, id) == IF id # m.last_mapped THEN m.last_mapped ELSE HEAD
LastAfterFree(m, id) ==
  IF id # m.last_mapped THEN m.last_mapped
  ELSE IF PosOf(m, id) = 1 THEN HEAD ELSE m.list[PosOf(m, id) - 1]

Bfree(m, id) ==
  LET type == m.bb[id].type IN
    Bug([m EXCEPT !.last_mapped = LastAfterFree(m, id),
                  !.list = RemoveFirst(@, id),
                  !.buckets[type] = [o \in DOMAIN @ |-> RemoveFirst(@[o], id)]],
        m.bb[id].bhs # << >>)

(* The blocks of a bb given up count as metadata, but for data.            *)
CountMeta(m, id) ==
  IF m.bb[id].type = "DATA" THEN m
  ELSE [m EXCEPT !.metablkcnt = @ + BlkRoundUp(m.bb[id].off)]

(* erofs_bdrop.  (A bb that is gone keeps its last address and size, which *)
(* nothing reads but the properties; a revoked one has no address.)        *)
Rollback(m, id, tryrevoke) ==
  /\ tryrevoke
  /\ m.bb[id].blkaddr # NULL_ADDR
  /\ m.tail_blkaddr = EndBlk(m, id)

Bdrop(m, key, tryrevoke) ==
  LET id   == BlockOf(m, key)
      back == Rollback(m, id, tryrevoke)
      m1   == [m EXCEPT !.bb[id].bhs = RemoveAt(@, BhNr(m, key))]
      m2   == IF back THEN Bfree(m1, id) ELSE Bfree(CountMeta(m1, id), id)
  IN IF m1.bb[id].bhs # << >> THEN m1
     ELSE IF back THEN [m2 EXCEPT !.tail_blkaddr = m.bb[id].blkaddr,
                                  !.bb[id].blkaddr = NULL_ADDR] ELSE m2

(* erofs_bflush: every bb is mapped, the bhs that may be written are       *)
(* written and removed, and a bb without others is given up.               *)
Skipped(bhs) ==
  LET left[n \in 0..Len(bhs)] ==
        IF n = 0 THEN << >>
        ELSE IF bhs[n].op = "skip" THEN Append(left[n - 1], bhs[n]) ELSE left[n - 1]
  IN left[Len(bhs)]

FlushOne(m, id) ==
  LET m1 == MapOne(m, id)
      m2 == [m1 EXCEPT !.bb[id].bhs = Skipped(@)]
  IN IF m2.bb[id].bhs # << >> THEN m2 ELSE Bfree(CountMeta(m2, id), id)

Bflush(m) ==
  LET run[p \in 0..Len(m.list)] ==
        IF p = 0 THEN m ELSE FlushOne(run[p - 1], m.list[p])
  IN run[Len(m.list)]
=============================================================================
