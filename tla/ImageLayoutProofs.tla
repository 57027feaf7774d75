------------------------- MODULE ImageLayoutProofs --------------------------
(***************************************************************************)
(* ListExact, BlocksTiled, NidsHold and WritesDisjoint hold in every state *)
(* of every build, whatever the sizes of files, directories and tables.    *)
(*                                                                         *)
(* The inductive invariant LayoutInv adds to the manager's which bhs there *)
(* are between two jobs (KeysInv: those of the inodes made so far, each to *)
(* be written, and no data) and that a nid given out is the address of its *)
(* inode's bh (NidsInv).  The operations of a job (data, inode, tail)      *)
(* change bhs of their own job only, so both carry over from one job to    *)
(* the next, and the two flushes turn them into what is written.           *)
(*                                                                         *)
(* SpaceInv is about the inside of the bbs.  What is written once belonged *)
(* to a bh that is gone since, and its units of the bb are Spent: no later *)
(* attach, growth or flush puts a bh over them (SpaceDone), and the blocks *)
(* of different bbs do not overlap (TileInv).  An inode and its inline     *)
(* data keep their places from erofs_prepare_inode_buffer to the flush.    *)
(***************************************************************************)
EXTENDS ImageLayout, BufMgrProofs
-----------------------------------------------------------------------------
(* Keys *)

(* The keys of the layout are distinct. *)
LEMMA KeysDiffer ==
  ASSUME NEW j \in Nat
  PROVE  /\ Sb \in KeySet /\ Devt \in KeySet /\ Xattr \in KeySet /\ Blob \in KeySet
         /\ Inode(j) \in KeySet /\ Inline(j) \in KeySet /\ Data(j) \in KeySet
         /\ Sb # Devt /\ Sb # Xattr /\ Sb # Blob /\ Devt # Xattr /\ Devt # Blob
         /\ \A k \in Nat :
              /\ {Inode(k), Inline(k), Data(k)} \cap {Sb, Devt, Xattr, Blob} = {}
              /\ Inode(j) # Inline(k) /\ Inode(j) # Data(k) /\ Inline(j) # Data(k)
              /\ j # k => Inode(j) # Inode(k) /\ Inline(j) # Inline(k) /\ Data(j) # Data(k)
<1>1. \A x \in KeyKinds, k \in Nat : <<x, k>> \in KeySet
  BY DEF KeySet
<1>2. \A x, y, k, l : x # y \/ k # l => <<x, k>> # <<y, l>>
  OBVIOUS
<1>3. /\ Sb \in KeySet /\ Devt \in KeySet /\ Xattr \in KeySet /\ Blob \in KeySet
      /\ Inode(j) \in KeySet /\ Inline(j) \in KeySet /\ Data(j) \in KeySet
  BY <1>1 DEF KeyKinds, Sb, Devt, Xattr, Blob, Inode, Inline, Data
<1>4. Sb # Devt /\ Sb # Xattr /\ Sb # Blob /\ Devt # Xattr /\ Devt # Blob
  BY <1>2 DEF Sb, Devt, Xattr, Blob
<1>5. ASSUME NEW k \in Nat
      PROVE  /\ {Inode(k), Inline(k), Data(k)} \cap {Sb, Devt, Xattr, Blob} = {}
             /\ Inode(j) # Inline(k) /\ Inode(j) # Data(k) /\ Inline(j) # Data(k)
             /\ j # k => Inode(j) # Inode(k) /\ Inline(j) # Inline(k) /\ Data(j) # Data(k)
  <2>1. \A x \in {"inode", "inline", "data"}, y \in {"sb", "devt", "xattr", "blob"} : x # y
    OBVIOUS
  <2>2. {Inode(k), Inline(k), Data(k)} \cap {Sb, Devt, Xattr, Blob} = {}
    BY <1>2, <2>1 DEF Sb, Devt, Xattr, Blob, Inode, Inline, Data
  <2>3. /\ Inode(j) # Inline(k) /\ Inode(j) # Data(k) /\ Inline(j) # Data(k)
        /\ j # k => Inode(j) # Inode(k) /\ Inline(j) # Inline(k) /\ Data(j) # Data(k)
    BY <1>2 DEF Inode, Inline, Data
  <2> QED
    BY <2>2, <2>3
<1> QED
  BY <1>3, <1>4, <1>5

(* The layout's test for a bh. *)
LEMMA HasBhIs ==
  ASSUME NEW s, TypeInv(s), NEW key
  PROVE  HasBh(s, key) <=> HasKey(s, key)
<1>1. s.list \in Seq(Nat)
  BY TypeUse
<1>2. \A i : i \in Ids(s) <=> On(s, i)
  BY <1>1 DEF Ids, On, Has, Range
<1>3. \A i : On(s, i) => i \in 1..s.nr /\ s.bb[i].bhs \in Seq(BhSet)
  BY TypeUse, BlockUse
<1>4. \A i : On(s, i) => DOMAIN s.bb[i].bhs = 1..Len(s.bb[i].bhs)
                         /\ Len(s.bb[i].bhs) \in Nat
  BY <1>3
<1> QED
  BY <1>2, <1>3, <1>4 DEF HasBh, HasKey, At

(* The op of a bh, and its address once it is mapped. *)
OpIs(s, key, op) ==
  \E i \in 1..s.nr, n \in Nat : At(s, key, i, n) /\ s.bb[i].bhs[n].op = op
PlacedAt(s, key, addr) ==
  \E i \in 1..s.nr, n \in Nat :
    /\ At(s, key, i, n) /\ Mapped(s, i)
    /\ addr = s.bb[i].blkaddr * BlkSize + s.bb[i].bhs[n].off
Placed(s, key) == \E i, n : At(s, key, i, n) /\ Mapped(s, i)

(* What a step that does not change a bh leaves of it. *)
LEMMA KeptUse ==
  ASSUME NEW s, NEW t, TypeInv(s), TypeInv(t), NEW K, Changed(s, t, K), NEW key, key \notin K
  PROVE  /\ HasKey(t, key) <=> HasKey(s, key)
         /\ \A op : OpIs(s, key, op) => OpIs(t, key, op)
         /\ \A addr : PlacedAt(s, key, addr) => PlacedAt(t, key, addr)
         /\ Placed(s, key) => Placed(t, key)
<1>1. HasKey(t, key) <=> HasKey(s, key)
  BY DEF Changed
<1>2. ASSUME NEW i, NEW n, At(s, key, i, n)
      PROVE  \E l \in Nat : /\ i \in 1..s.nr /\ i \in 1..t.nr
                            /\ At(t, key, i, l) /\ t.bb[i].bhs[l] = s.bb[i].bhs[n]
                            /\ Mapped(s, i) => t.bb[i].blkaddr = s.bb[i].blkaddr
  <2>1. i \in 1..s.nr /\ n \in Nat
    BY <1>2, KeyAt
  <2>2. Kept(s, t, key)
    BY DEF Changed
  <2>3. PICK l \in Nat : At(t, key, i, l) /\ t.bb[i].bhs[l] = s.bb[i].bhs[n]
    BY <1>2, <2>1, <2>2 DEF Kept
  <2>4. Mapped(s, i) => t.bb[i].blkaddr = s.bb[i].blkaddr
    BY <1>2, <2>1, <2>2 DEF Kept
  <2>5. i \in 1..t.nr
    BY <2>3, KeyAt
  <2> QED
    BY <2>1, <2>3, <2>4, <2>5
<1>3. \A op : OpIs(s, key, op) => OpIs(t, key, op)
  BY <1>2 DEF OpIs
<1>4. \A addr : PlacedAt(s, key, addr) => PlacedAt(t, key, addr)
  BY <1>2 DEF PlacedAt, Mapped
<1>5. Placed(s, key) => Placed(t, key)
  BY <1>2 DEF Placed, Mapped
<1> QED
  BY <1>1, <1>3, <1>4, <1>5

(* erofs_btell of a mapped bh. *)
LEMMA PlacedIs ==
  ASSUME NEW s, TypeInv(s), KeyInv(s), NEW key \in KeySet, Placed(s, key)
  PROVE  PlacedAt(s, key, Btell(s, key))
<1>1. PICK i, n : At(s, key, i, n) /\ Mapped(s, i)
  BY DEF Placed
<1>2. BlockOf(s, key) = i /\ BhNr(s, key) = n /\ i \in 1..s.nr /\ n \in Nat
  BY <1>1, BlockIs, KeyAt
<1> QED
  BY <1>1, <1>2 DEF PlacedAt, Btell
-----------------------------------------------------------------------------
(* The calls on the manager *)

(* A call that succeeds is no bug. *)
LEMMA MustIs ==
  ASSUME NEW r, TypeInv(r.m), r.err = "ok"
  PROVE  Must(r) = r.m
<1>1. (r.err # "ok") = FALSE
  OBVIOUS
<1> QED
  BY <1>1, BugIs DEF Must

(* Without inline data erofs_balloc has nothing to refuse. *)
LEMMA NoInlineFits ==
  ASSUME NEW size \in Nat
  PROVE  ~InlineTooBig(size, 0)
<1>1. size % BlkSize \in 0..(BlkSize - 1)
  BY BlkPos, DivBounds
<1> QED
  BY <1>1, BlkPos DEF InlineTooBig

(* Data and directory blocks get a bb of their own. *)
LEMMA AlignIsBlk ==
  ASSUME NEW what \in {"DATA", "DIRA"}, NEW size, NEW inl
  PROVE  what \in Whats /\ Fresh(what, size, inl)
BY DEF Whats, Fresh, AlignSize

(* An allocation mapped right away. *)
LEMMA AllocMapIs ==
  ASSUME NEW s, NEW what, NEW size, NEW key, NEW t \in AllocMap(s, what, size, key)
  PROVE  t = Map(Must(Balloc(s, what, size, 0, key)), key)
BY DEF AllocMap, Alloc

(* Data and directory blocks are allocated at the end of the image. *)
LEMMA BlocksInv ==
  ASSUME NEW s, NEW st, NEW jk, MgrInv(s, st, jk), NEW what \in {"DATA", "DIRA"},
         NEW size \in Nat, NEW key \in KeySet, ~HasKey(s, key),
         NEW t \in AllocMap(s, what, size, key)
  PROVE  /\ MgrInv(t, st, jk) /\ Changed(s, t, {key}) /\ AtEnd(t, key, size)
         /\ what = "DIRA" => PrefixAt(t, Len(t.list))
<1> DEFINE r == Balloc(s, what, size, 0, key)
<1>1. what \in Whats /\ Fresh(what, size, 0) /\ ~InlineTooBig(size, 0)
  BY AlignIsBlk, NoInlineFits
<1>2. r.err = "ok" /\ MgrInv(r.m, st, jk)
  BY <1>1, FreshInv
<1>3. Must(r) = r.m
  BY <1>2, MustIs DEF MgrInv
<1>4. t = Map(r.m, key)
  BY <1>3, AllocMapIs
<1>5. /\ MgrInv(t, st, jk) /\ Changed(s, t, {key}) /\ AtEnd(t, key, size)
      /\ StoredType(what) # "DATA" => PrefixAt(t, Len(t.list))
  BY <1>1, <1>4, FreshMapInv
<1> QED
  BY <1>5 DEF StoredType

(* A table is allocated and has an address. *)
LEMMA TableInv ==
  ASSUME NEW s, NEW st, NEW jk, MgrInv(s, st, jk), NEW what \in Whats,
         NEW size \in Nat, NEW key \in KeySet, ~HasKey(s, key),
         NEW t \in AllocMap(s, what, size, key)
  PROVE  MgrInv(t, st, jk) /\ Changed(s, t, {key}) /\ Placed(t, key)
<1> DEFINE r == Balloc(s, what, size, 0, key)
           u == r.m
<1>1. ~InlineTooBig(size, 0) /\ 0 \in Nat
  BY NoInlineFits
<1>2. /\ r.err = "ok" /\ MgrInv(u, st, jk)
      /\ \E i : AddDone(s, u, key, i, 0)
  BY <1>1, BallocInv
<1>3. Must(r) = u
  BY <1>2, MustIs DEF MgrInv
<1>4. t = Map(u, key)
  BY <1>3, AllocMapIs
<1> HIDE DEF u
<1>5. PICK i : AddDone(s, u, key, i, 0)
  BY <1>2
<1>6. Changed(s, u, {key}) /\ At(u, key, i, Len(u.bb[i].bhs))
  BY <1>5 DEF AddDone, LastOf
<1> DEFINE n == Len(u.bb[i].bhs)
<1> HIDE DEF n
<1>7. At(u, key, i, n)
  BY <1>6 DEF n
<1>8. MgrInv(t, st, jk) /\ Mapped(t, i) /\ Changed(u, t, {}) /\ At(t, key, i, n)
  BY <1>2, <1>4, <1>7, MapInv
<1>9. Changed(s, t, {key} \cup {})
  BY <1>2, <1>6, <1>8, ChangedTrans DEF MgrInv
<1>10. Changed(s, t, {key})
  BY <1>9, ChangedMore
<1> QED
  BY <1>8, <1>10 DEF Placed

(* The area at the end of the image grows. *)
LEMMA GrowInv ==
  ASSUME NEW s, NEW st, NEW jk, MgrInv(s, st, jk), NEW key \in KeySet, NEW off,
         AtEnd(s, key, off), NEW incr \in Nat, NEW t, t = Must(Balloon(s, key, incr))
  PROVE  MgrInv(t, st, jk) /\ Changed(s, t, {key}) /\ AtEnd(t, key, off + incr)
<1>1. PICK i : Growable(s, key, i, off) /\ Mapped(s, i)
  BY DEF AtEnd
<1> DEFINE r == Balloon(s, key, incr)
<1>2. /\ r.err = "ok" /\ MgrInv(r.m, st, jk)
      /\ GrowDone(s, r.m, key, i, off + incr)
  BY <1>1, BalloonInv
<1>3. t = r.m
  BY <1>2, MustIs DEF MgrInv
<1> HIDE DEF r
<1>4. Changed(s, t, {key}) /\ Growable(t, key, i, off + incr) /\ Mapped(t, i)
  BY <1>1, <1>2, <1>3 DEF GrowDone, Mapped
<1> QED
  BY <1>2, <1>3, <1>4 DEF AtEnd

(* What is at the end of the image has an address. *)
LEMMA EndPlaced ==
  ASSUME NEW s, NEW key, NEW off, AtEnd(s, key, off)
  PROVE  Placed(s, key)
BY DEF AtEnd, Placed, Growable

(* What has an address is on the list. *)
LEMMA PlacedHas ==
  ASSUME NEW s, TypeInv(s), NEW key, Placed(s, key)
  PROVE  HasKey(s, key)
BY KeyAt DEF Placed

(* What is written and dropped with erofs_bdrop is gone, and nothing else  *)
(* moves.                                                                  *)
LEMMA WriteAndDropInv ==
  ASSUME NEW s, NEW st, NEW jk, MgrInv(s, st, jk), NEW key \in KeySet, Placed(s, key),
         NEW w, NEW r, r = WriteAndDrop(s, w, key)
  PROVE  /\ MgrInv(r.m, st, jk) /\ Changed(s, r.m, {key}) /\ ~HasKey(r.m, key)
         /\ w \subseteq r.w
<1>1. PICK i, n : At(s, key, i, n) /\ Mapped(s, i)
  BY DEF Placed
<1>2. r.m = Bdrop(s, key, FALSE) /\ w \subseteq r.w
  BY DEF WriteAndDrop
<1>3. MgrInv(r.m, st, jk) /\ OthersKept(s, r.m, key) /\ ~HasKey(r.m, key)
  BY <1>1, <1>2, DropInv
<1> QED
  BY <1>2, <1>3, ChangedOne

(* Compressed data given up: the bb is revoked with erofs_bdrop and the    *)
(* file has no data, as before.                                            *)
LEMMA RevokedInv ==
  ASSUME NEW s, NEW st, NEW jk, MgrInv(s, st, jk), NEW j \in Nat, ~HasKey(s, Data(j)),
         NEW t \in Revoked(s, j)
  PROVE  MgrInv(t, st, jk) /\ Changed(s, t, {Data(j)}) /\ ~HasKey(t, Data(j))
<1> DEFINE key == Data(j)
<1>1. key \in KeySet /\ 0 \in Nat
  BY KeysDiffer
<1>2. PICK u \in AllocMap(s, "DATA", 0, key) : t = Bdrop(u, key, TRUE)
  BY DEF Revoked
<1> HIDE DEF key
<1>3. MgrInv(u, st, jk) /\ Changed(s, u, {key}) /\ AtEnd(u, key, 0)
  BY <1>1, BlocksInv DEF key
<1>4. PICK i : Growable(u, key, i, 0) /\ Mapped(u, i)
  BY <1>3 DEF AtEnd
<1>5. /\ At(u, key, i, 1) /\ Len(u.bb[i].bhs) = 1 /\ u.bb[i].off = 0
      /\ u.tail_blkaddr = EndBlk(u, i)
  BY <1>4 DEF Growable
<1>6. MgrInv(t, st, jk) /\ OthersKept(u, t, key) /\ ~HasKey(t, key)
  BY <1>1, <1>2, <1>3, <1>4, <1>5, RevokeInv
<1>7. Changed(s, t, {key} \cup {key})
  BY <1>3, <1>6, ChangedTrans, ChangedOne DEF MgrInv
<1> QED
  BY <1>6, <1>7, ChangedMore DEF key
-----------------------------------------------------------------------------
(* The data of an inode *)

(* Data that was placed is at the end of the image. *)
Ends(s, key) == HasKey(s, key) => \E off : AtEnd(s, key, off)

(* Blocks to units. *)
LEMMA SizeIs ==
  ASSUME NEW n \in Nat
  PROVE  n * BlkSize \in Nat
BY BlkPos

(* The data of a file ends at the end of the image, or there is none. *)
LEMMA AllocDataInv ==
  ASSUME NEW s, NEW st, NEW jk, MgrInv(s, st, jk), NEW j \in Nat, ~HasKey(s, Data(j)),
         NEW what \in {"DATA", "DIRA"}, NEW n \in Nat, NEW t \in AllocData(s, j, what, n)
  PROVE  /\ MgrInv(t, st, jk) /\ Changed(s, t, {Data(j)}) /\ Ends(t, Data(j))
         /\ n = 0 => t = s
         /\ n # 0 /\ what = "DIRA" => PrefixAt(t, Len(t.list))
<1>1. CASE n = 0
  <2>1. t = s
    BY <1>1 DEF AllocData
  <2>2. Changed(s, s, {Data(j)})
    BY ChangedSelf, ChangedMore
  <2> QED
    BY <1>1, <2>1, <2>2 DEF Ends
<1>2. CASE n # 0
  <2>1. t \in AllocMap(s, what, n * BlkSize, Data(j))
    BY <1>2 DEF AllocData
  <2>2. n * BlkSize \in Nat /\ Data(j) \in KeySet
    BY SizeIs, KeysDiffer
  <2> QED
    BY <1>2, <2>1, <2>2, BlocksInv DEF Ends
<1> QED
  BY <1>1, <1>2

(* So does compressed data, when it has grown to its size. *)
LEMMA CompressedInv ==
  ASSUME NEW s, NEW st, NEW jk, MgrInv(s, st, jk), NEW j \in Nat, ~HasKey(s, Data(j)),
         NEW n \in Nat, NEW idata, NEW d \in Compressed(s, j, n, idata)
  PROVE  MgrInv(d.m, st, jk) /\ Changed(s, d.m, {Data(j)}) /\ Ends(d.m, Data(j))
<1> DEFINE key == Data(j)
<1>1. key \in KeySet /\ 0 \in Nat /\ n * BlkSize \in Nat
  BY KeysDiffer, SizeIs
<1>2. PICK s1 \in AllocMap(s, "DATA", 0, key) :
        d \in {IF idata = 0 THEN WriteAndDrop(s2, {}, key) ELSE [m |-> s2, w |-> {}] :
                 s2 \in {IF n = 0 THEN s1 ELSE Must(Balloon(s1, key, n * BlkSize))}}
  BY DEF Compressed
<1> DEFINE u == IF n = 0 THEN s1 ELSE Must(Balloon(s1, key, n * BlkSize))
<1>3. d = IF idata = 0 THEN WriteAndDrop(u, {}, key) ELSE [m |-> u, w |-> {}]
  BY <1>2
<1> HIDE DEF key
<1>4. MgrInv(s1, st, jk) /\ Changed(s, s1, {key}) /\ AtEnd(s1, key, 0)
  BY <1>1, BlocksInv DEF key
<1>5. MgrInv(u, st, jk) /\ Changed(s, u, {key}) /\ \E off : AtEnd(u, key, off)
  <2>1. CASE n = 0
    BY <1>4, <2>1
  <2>2. CASE n # 0
    <3>1. u = Must(Balloon(s1, key, n * BlkSize))
      BY <2>2
    <3> HIDE DEF u
    <3>2. /\ MgrInv(u, st, jk) /\ Changed(s1, u, {key})
          /\ AtEnd(u, key, 0 + (n * BlkSize))
      BY <1>1, <1>4, <3>1, GrowInv, Zenon
    <3>3. Changed(s, u, {key} \cup {key})
      BY <1>4, <3>2, ChangedTrans DEF MgrInv
    <3> QED
      BY <3>2, <3>3, ChangedMore
  <2> QED
    BY <2>1, <2>2
<1> HIDE DEF u
<1>6. CASE idata = 0
  <2>1. d = WriteAndDrop(u, {}, key)
    BY <1>3, <1>6
  <2>2. Placed(u, key)
    BY <1>5, EndPlaced
  <2>3. MgrInv(d.m, st, jk) /\ Changed(u, d.m, {key}) /\ ~HasKey(d.m, key)
    BY <1>1, <1>5, <2>1, <2>2, WriteAndDropInv
  <2>4. Changed(s, d.m, {key} \cup {key})
    BY <1>5, <2>3, ChangedTrans DEF MgrInv
  <2> QED
    BY <2>3, <2>4, ChangedMore DEF Ends, key
<1>7. CASE idata # 0
  <2>1. d.m = u
    BY <1>3, <1>7
  <2> QED
    BY <1>5, <2>1 DEF Ends, key
<1> QED
  BY <1>6, <1>7

(* So does the data of a file, whichever way it was written. *)
LEMMA FileDataInv ==
  ASSUME NEW s, NEW st, NEW jk, MgrInv(s, st, jk), NEW j \in Nat, ~HasKey(s, Data(j)),
         NEW n \in Nat, NEW idata, NEW how \in {"plain", "compressed", "revoked"},
         NEW d \in FileData(s, j, n, idata, how)
  PROVE  MgrInv(d.m, st, jk) /\ Changed(s, d.m, {Data(j)}) /\ Ends(d.m, Data(j))
<1>1. CASE how = "plain"
  <2>1. PICK t \in AllocData(s, j, "DATA", n) : d = [m |-> t, w |-> {}]
    BY <1>1 DEF FileData
  <2>2. d.m = t
    BY <2>1
  <2> QED
    BY <2>2, AllocDataInv
<1>2. CASE how = "compressed"
  <2>1. d \in Compressed(s, j, n, idata)
    BY <1>2 DEF FileData
  <2> QED
    BY <2>1, CompressedInv
<1>3. CASE how = "revoked"
  <2>1. PICK u \in Revoked(s, j) :
          \E t \in AllocData(u, j, "DATA", n) : d = [m |-> t, w |-> {}]
    BY <1>3 DEF FileData
  <2>2. PICK t \in AllocData(u, j, "DATA", n) : d.m = t
    BY <2>1
  <2>3. MgrInv(u, st, jk) /\ Changed(s, u, {Data(j)}) /\ ~HasKey(u, Data(j))
    BY RevokedInv
  <2>4. MgrInv(t, st, jk) /\ Changed(u, t, {Data(j)}) /\ Ends(t, Data(j))
    BY <2>3, AllocDataInv
  <2>5. Changed(s, t, {Data(j)} \cup {Data(j)})
    BY <2>3, <2>4, ChangedTrans DEF MgrInv
  <2> QED
    BY <2>2, <2>4, <2>5, ChangedMore
<1> QED
  BY <1>1, <1>2, <1>3

(* Setting what a flush does with a bh moves nothing. *)
LEMMA SetOpInv ==
  ASSUME NEW s, NEW st, NEW jk, MgrInv(s, st, jk), NEW key \in KeySet, HasKey(s, key),
         NEW op \in {"skip", "write"}, NEW t, t = SetOp(s, key, op)
  PROVE  MgrInv(t, st, jk) /\ Changed(s, t, {key}) /\ OpIs(t, key, op)
<1>1. TypeInv(s) /\ KeyInv(s)
  BY DEF MgrInv
<1>2. PICK i \in 1..s.nr, n \in Nat : At(s, key, i, n)
  BY DEF HasKey
<1>3. BlockOf(s, key) = i /\ BhNr(s, key) = n
  BY <1>1, <1>2, BlockIs
<1> DEFINE h == [s.bb[i].bhs[n] EXCEPT !.op = op]
<1>4. t = WithBhs(s, i, [s.bb[i].bhs EXCEPT ![n] = h])
  BY <1>3 DEF SetOp, WithBhs
<1>5. s.bb[i].bhs[n] \in BhSet /\ s.bb[i].bhs[n].key = key
  <2>1. s.bb[i].bhs \in Seq(BhSet)
    BY <1>1, TypeUse, BlockUse
  <2> QED
    BY <1>2, <2>1 DEF At
<1>6. h \in BhSet /\ h.key = key /\ h.op = op
  <2>1. \A g \in BhSet : LET f == [g EXCEPT !.op = op] IN
                         f \in BhSet /\ f.key = g.key /\ f.op = op
    BY DEF BhSet
  <2> QED
    BY <1>5, <2>1
<1> HIDE DEF h
<1>7. /\ MgrInv(t, st, jk) /\ At(t, key, i, n) /\ t.bb[i].bhs[n] = h
      /\ OthersKept(s, t, key)
  BY <1>2, <1>4, <1>6, ChangeInv
<1>8. OpIs(t, key, op)
  BY <1>6, <1>7, KeyAt DEF OpIs, MgrInv
<1> QED
  BY <1>7, <1>8, ChangedOne
-----------------------------------------------------------------------------
(* An inode and its tail *)

InodeDone(s, p, j, idata) ==
  /\ Changed(s, p.m, {Inode(j), Inline(j), Data(j)})
  /\ HasKey(p.m, Inode(j))
  /\ HasKey(p.m, Inline(j)) => idata # 0
  /\ HasKey(p.m, Data(j)) =>
       HasKey(s, Data(j)) /\ Placed(p.m, Data(j)) /\ ~p.lazy

(* erofs_prepare_inode_buffer without inline data. *)
LEMMA NoInlineInv ==
  ASSUME NEW s, NEW st, NEW jk, MgrInv(s, st, jk), NEW j \in Nat, ~HasKey(s, Inode(j)),
         ~HasKey(s, Inline(j)), Ends(s, Data(j)), NEW isize \in Nat, NEW idata \in Nat,
         NEW p \in NoInline(s, j, isize, idata)
  PROVE  MgrInv(p.m, st, jk) /\ InodeDone(s, p, j, idata)
<1>1. /\ Inode(j) \in KeySet /\ Inline(j) \in KeySet /\ Data(j) \in KeySet
      /\ Inode(j) # Inline(j) /\ Inode(j) # Data(j) /\ Inline(j) # Data(j)
  BY KeysDiffer
<1>2. TypeInv(s)
  BY DEF MgrInv
<1> DEFINE tail == idata > 0 /\ HasKey(s, Data(j))
           s1 == IF tail THEN TailBlock(s, j) ELSE s
           r == Balloc(s1, "INODE", isize, 0, Inode(j))
<1>3. p = [m |-> Must(r), lazy |-> idata > 0 /\ ~tail]
  <2>1. (idata > 0 /\ HasBh(s, Data(j))) = tail
    BY <1>2, HasBhIs DEF HasBh, HasKey
  <2> QED
    BY <2>1 DEF NoInline, Alloc
<1>4. p.m = Must(r) /\ (p.lazy => idata > 0 /\ ~tail)
  BY <1>3
<1>5. /\ MgrInv(s1, st, jk) /\ Changed(s, s1, {Data(j)})
      /\ HasKey(s1, Data(j)) => HasKey(s, Data(j)) /\ Placed(s1, Data(j))
  <2>1. CASE tail
    <3>1. PICK off : AtEnd(s, Data(j), off)
      BY <2>1 DEF Ends
    <3>2. s1 = Must(Balloon(s, Data(j), BlkSize)) /\ BlkSize \in Nat
      BY <2>1, BlkPos DEF TailBlock
    <3> HIDE DEF s1
    <3>3. MgrInv(s1, st, jk) /\ Changed(s, s1, {Data(j)}) /\ AtEnd(s1, Data(j), off + BlkSize)
      BY <1>1, <3>1, <3>2, GrowInv
    <3> QED
      BY <2>1, <3>3, EndPlaced
  <2>2. CASE ~tail
    <3>1. s1 = s
      BY <2>2
    <3>2. Changed(s, s, {Data(j)})
      BY ChangedSelf, ChangedMore
    <3>3. HasKey(s, Data(j)) => Placed(s, Data(j))
      BY EndPlaced DEF Ends
    <3> QED
      BY <3>1, <3>2, <3>3
  <2> QED
    BY <2>1, <2>2
<1> HIDE DEF s1
<1>6. ~HasKey(s1, Inode(j)) /\ ~HasKey(s1, Inline(j))
  BY <1>1, <1>5 DEF Changed
<1>7. /\ r.err = "ok" /\ MgrInv(r.m, st, jk)
      /\ \E i : AddDone(s1, r.m, Inode(j), i, 0)
  <2>1. "INODE" \in Whats /\ 0 \in Nat /\ ~InlineTooBig(isize, 0)
    BY NoInlineFits DEF Whats
  <2> QED
    BY <1>1, <1>5, <1>6, <2>1, BallocInv
<1>8. p.m = r.m
  BY <1>4, <1>7, MustIs DEF MgrInv
<1> HIDE DEF r
<1>9. Changed(s1, p.m, {Inode(j)}) /\ HasKey(p.m, Inode(j))
  <2>1. PICK i : AddDone(s1, r.m, Inode(j), i, 0)
    BY <1>7
  <2> QED
    BY <1>7, <1>8, <2>1, KeyAt DEF AddDone, LastOf, MgrInv
<1>10. MgrInv(p.m, st, jk)
  BY <1>7, <1>8
<1>11. Changed(s, p.m, {Inode(j), Inline(j), Data(j)})
  <2>1. Changed(s, p.m, {Data(j)} \cup {Inode(j)})
    BY <1>5, <1>9, ChangedTrans DEF MgrInv
  <2> QED
    BY <2>1, ChangedMore
<1>12. ~HasKey(p.m, Inline(j))
  BY <1>1, <1>6, <1>9 DEF Changed
<1>13. HasKey(p.m, Data(j)) => HasKey(s, Data(j)) /\ Placed(p.m, Data(j)) /\ ~p.lazy
  <2>1. Data(j) \notin {Inode(j)} /\ TypeInv(s1) /\ TypeInv(p.m)
    BY <1>1, <1>5, <1>10 DEF MgrInv
  <2>2. /\ HasKey(p.m, Data(j)) <=> HasKey(s1, Data(j))
        /\ Placed(s1, Data(j)) => Placed(p.m, Data(j))
    BY <1>9, <2>1, KeptUse
  <2>3. HasKey(p.m, Data(j)) => HasKey(s, Data(j)) /\ Placed(p.m, Data(j))
    BY <1>5, <2>2
  <2> QED
    BY <1>4, <2>3
<1> QED
  BY <1>9, <1>10, <1>11, <1>12, <1>13 DEF InodeDone

(* erofs_prepare_inode_buffer with inline data: the room erofs_balloc left *)
(* behind the inode is there when erofs_battach asks for it.               *)
LEMMA WithInlineInv ==
  ASSUME NEW s, NEW st, NEW jk, MgrInv(s, st, jk), NEW j \in Nat, ~HasKey(s, Inode(j)),
         ~HasKey(s, Inline(j)), Ends(s, Data(j)), NEW isize \in Nat, NEW idata \in Nat,
         ~InlineTooBig(isize, idata),
         NEW r, r = Balloc(s, "INODE", isize, idata, Inode(j)),
         NEW p \in WithInline(Must(r), j, idata)
  PROVE  MgrInv(p.m, st, jk) /\ InodeDone(s, p, j, idata)
<1>1. /\ Inode(j) \in KeySet /\ Inline(j) \in KeySet /\ Data(j) \in KeySet
      /\ Inode(j) # Inline(j) /\ Inode(j) # Data(j) /\ Inline(j) # Data(j)
  BY KeysDiffer
<1>2. /\ r.err = "ok" /\ MgrInv(r.m, st, jk)
      /\ \E i : AddDone(s, r.m, Inode(j), i, idata)
  <2>1. "INODE" \in Whats
    BY DEF Whats
  <2> QED
    BY <1>1, <2>1, BallocInv
<1> DEFINE u == r.m
<1>3. Must(r) = u
  BY <1>2, MustIs DEF MgrInv
<1>4. PICK i : AddDone(s, u, Inode(j), i, idata)
  BY <1>2
<1> DEFINE a == Battach(u, Inode(j), "META", idata, Inline(j))
<1>5. p.m = (IF idata = 0 THEN u ELSE Must(a)) /\ ~p.lazy
  BY <1>3 DEF WithInline
<1> HIDE DEF u
<1>6. Changed(s, u, {Inode(j)}) /\ LastOf(u, Inode(j), i, idata) /\ TypeInv(u) /\ TypeInv(s)
  BY <1>2, <1>4 DEF AddDone, MgrInv, u
<1>7. HasKey(u, Inode(j)) /\ ~HasKey(u, Inline(j))
  BY <1>1, <1>6, KeyAt DEF LastOf, Changed
<1>8. /\ MgrInv(p.m, st, jk) /\ Changed(u, p.m, {Inline(j)})
      /\ HasKey(p.m, Inline(j)) => idata # 0
  <2>1. CASE idata = 0
    <3>1. p.m = u
      BY <1>5, <2>1
    <3>2. Changed(u, u, {Inline(j)})
      BY ChangedSelf, ChangedMore
    <3> QED
      BY <1>2, <1>7, <3>1, <3>2 DEF u
  <2>2. CASE idata # 0
    <3>1. MgrInv(u, st, jk)
      BY <1>2 DEF u
    <3>2. /\ a.err = "ok" /\ MgrInv(a.m, st, jk)
          /\ AddDone(u, a.m, Inline(j), i, 0)
      BY <1>1, <1>6, <1>7, <3>1, BattachInv
    <3>3. Must(a) = a.m
      BY <3>2, MustIs DEF MgrInv
    <3> HIDE DEF a
    <3>4. p.m = a.m
      BY <1>5, <2>2, <3>3
    <3> QED
      BY <2>2, <3>2, <3>4 DEF AddDone
  <2> QED
    BY <2>1, <2>2
<1> HIDE DEF a
<1>9. TypeInv(p.m)
  BY <1>8 DEF MgrInv
<1>10. HasKey(p.m, Inode(j))
  BY <1>1, <1>7, <1>8 DEF Changed
<1>11. Changed(s, p.m, {Inode(j)} \cup {Inline(j)})
  BY <1>6, <1>8, ChangedTrans
<1>12. Changed(s, p.m, {Inode(j), Inline(j), Data(j)})
  BY <1>11, ChangedMore
<1>13. HasKey(p.m, Data(j)) => HasKey(s, Data(j)) /\ Placed(p.m, Data(j))
  <2>1. Data(j) \notin {Inode(j)} \cup {Inline(j)}
    BY <1>1
  <2>2. /\ HasKey(p.m, Data(j)) <=> HasKey(s, Data(j))
        /\ Placed(s, Data(j)) => Placed(p.m, Data(j))
    BY <1>6, <1>9, <1>11, <2>1, KeptUse
  <2>3. HasKey(s, Data(j)) => Placed(s, Data(j))
    BY EndPlaced DEF Ends
  <2> QED
    BY <2>2, <2>3
<1> QED
  BY <1>5, <1>8, <1>10, <1>12, <1>13 DEF InodeDone

(* The two ways of preparing an inode, with the bh made writable. *)
LEMMA ShapeIs ==
  ASSUME NEW q, NEW s, NEW j, NEW isize, NEW idata,
         q \in NoInline(s, j, isize, idata) \/ q \in WithInline(s, j, idata), NEW op,
         NEW p, p = [q EXCEPT !.m = SetOp(@, Inode(j), op)]
  PROVE  p.m = SetOp(q.m, Inode(j), op) /\ p.lazy = q.lazy
<1>1. \E x, l : q = [m |-> x, lazy |-> l]
  BY DEF NoInline, WithInline
<1>2. PICK x, l : q = [m |-> x, lazy |-> l]
  BY <1>1
<1> QED
  BY <1>2

(* erofs_prepare_inode_buffer: the inode has a bh that may be written,     *)
(* inline data is behind it or pending, and nothing else moves.            *)
LEMMA PrepareInodeInv ==
  ASSUME NEW s, NEW st, NEW jk, MgrInv(s, st, jk), NEW j \in Nat, ~HasKey(s, Inode(j)),
         ~HasKey(s, Inline(j)), Ends(s, Data(j)), NEW isize \in Nat, NEW idata \in Nat,
         NEW inlinable, NEW p \in PrepareInode(s, j, isize, idata, inlinable)
  PROVE  /\ MgrInv(p.m, st, jk) /\ InodeDone(s, p, j, idata)
         /\ OpIs(p.m, Inode(j), "write")
<1>1. /\ Inode(j) \in KeySet /\ Inline(j) \in KeySet /\ Data(j) \in KeySet
      /\ Inode(j) # Inline(j) /\ Inode(j) # Data(j) /\ Inline(j) # Data(j)
  BY KeysDiffer
<1> DEFINE r == Balloc(s, "INODE", isize, idata, Inode(j))
<1>2. PICK q : /\ p = [q EXCEPT !.m = SetOp(@, Inode(j), "write")]
               /\ \/ q \in NoInline(s, j, isize, idata)
                  \/ r.err # "ENOSPC" /\ q \in WithInline(Must(r), j, idata)
  <2>1. PICK q : /\ p = [q EXCEPT !.m = SetOp(@, Inode(j), "write")]
                 /\ q \in IF ~inlinable \/ r.err = "ENOSPC"
                          THEN NoInline(s, j, isize, idata)
                          ELSE UNION {WithInline(s1, j, idata) : s1 \in {Must(r)}}
    BY Zenon DEF PrepareInode
  <2>2. CASE ~inlinable \/ r.err = "ENOSPC"
    BY <2>1, <2>2
  <2>3. CASE ~(~inlinable \/ r.err = "ENOSPC")
    BY <2>1, <2>3, Zenon
  <2> QED
    BY <2>2, <2>3
<1>3. MgrInv(q.m, st, jk) /\ InodeDone(s, q, j, idata)
  <2>1. CASE q \in NoInline(s, j, isize, idata)
    BY <2>1, NoInlineInv
  <2>2. CASE r.err # "ENOSPC" /\ q \in WithInline(Must(r), j, idata)
    <3>1. InlineTooBig(isize, idata) => r = Fail(s, "ENOSPC")
      BY DEF Balloc
    <3>2. ~InlineTooBig(isize, idata)
      BY <2>2, <3>1 DEF Fail
    <3> QED
      BY <2>2, <3>2, WithInlineInv
  <2> QED
    BY <1>2, <2>1, <2>2
<1>4. p.m = SetOp(q.m, Inode(j), "write") /\ p.lazy = q.lazy
  <2>1. CASE q \in NoInline(s, j, isize, idata)
    BY <1>2, <2>1, ShapeIs
  <2>2. CASE q \in WithInline(Must(r), j, idata)
    BY <1>2, <2>2, ShapeIs
  <2> QED
    BY <1>2, <2>1, <2>2
<1> HIDE DEF r
<1>5. /\ Changed(s, q.m, {Inode(j), Inline(j), Data(j)})
      /\ HasKey(q.m, Inode(j))
      /\ HasKey(q.m, Inline(j)) => idata # 0
      /\ HasKey(q.m, Data(j)) =>
           HasKey(s, Data(j)) /\ Placed(q.m, Data(j)) /\ ~q.lazy
  BY <1>3 DEF InodeDone
<1>6. /\ MgrInv(p.m, st, jk) /\ Changed(q.m, p.m, {Inode(j)})
      /\ OpIs(p.m, Inode(j), "write")
  BY <1>1, <1>3, <1>4, <1>5, SetOpInv
<1>7. TypeInv(q.m) /\ TypeInv(p.m)
  BY <1>3, <1>6 DEF MgrInv
<1>8. Changed(s, p.m, {Inode(j), Inline(j), Data(j)})
  <2>1. Changed(s, p.m, {Inode(j), Inline(j), Data(j)} \cup {Inode(j)})
    BY <1>5, <1>6, <1>7, ChangedTrans
  <2> QED
    BY <2>1, ChangedMore
<1>9. HasKey(p.m, Inode(j))
  BY <1>6 DEF OpIs, HasKey
<1>10. HasKey(p.m, Inline(j)) => idata # 0
  BY <1>1, <1>5, <1>6 DEF Changed
<1>11. HasKey(p.m, Data(j)) => HasKey(s, Data(j)) /\ Placed(p.m, Data(j)) /\ ~p.lazy
  <2>1. /\ HasKey(p.m, Data(j)) <=> HasKey(q.m, Data(j))
        /\ Placed(q.m, Data(j)) => Placed(p.m, Data(j))
    <3>1. Data(j) \notin {Inode(j)}
      BY <1>1
    <3> QED
      BY <1>6, <1>7, <3>1, KeptUse
  <2> QED
    BY <1>4, <1>5, <2>1
<1> QED
  BY <1>6, <1>8, <1>9, <1>10, <1>11 DEF InodeDone

(* erofs_write_tail_end: the tail goes inline, or behind the data of the   *)
(* file at the end of the image.                                           *)
LEMMA PlaceTailInv ==
  ASSUME NEW s, NEW st, NEW jk, MgrInv(s, st, jk), NEW j \in Nat, NEW idata \in Nat,
         NEW lazy, HasKey(s, Data(j)) => Placed(s, Data(j)),
         lazy => Ends(s, Data(j)), NEW t \in PlaceTail(s, j, idata, lazy)
  PROVE  /\ MgrInv(t, st, jk) /\ Changed(s, t, {Inline(j), Data(j)})
         /\ HasKey(t, Data(j)) => Placed(t, Data(j))
         /\ HasKey(t, Inline(j)) => HasKey(s, Inline(j))
         /\ HasKey(s, Inline(j)) /\ idata # 0 => OpIs(t, Inline(j), "write")
         /\ idata = 0 => t = s
<1>1. /\ Inline(j) \in KeySet /\ Data(j) \in KeySet /\ Inline(j) # Data(j)
  BY KeysDiffer
<1>2. TypeInv(s)
  BY DEF MgrInv
<1>3. /\ HasBh(s, Inline(j)) <=> HasKey(s, Inline(j))
      /\ HasBh(s, Data(j)) <=> HasKey(s, Data(j))
  BY <1>2, HasBhIs
<1>4. Changed(s, s, {Inline(j), Data(j)})
  BY ChangedSelf, ChangedMore
<1>5. CASE idata = 0
  <2>1. t = s
    BY <1>5 DEF PlaceTail
  <2> QED
    BY <1>4, <1>5, <2>1
<1>6. CASE idata > 0 /\ HasKey(s, Inline(j))
  <2>1. t = SetOp(s, Inline(j), "write")
    BY <1>3, <1>6 DEF PlaceTail
  <2>2. /\ MgrInv(t, st, jk) /\ Changed(s, t, {Inline(j)})
        /\ OpIs(t, Inline(j), "write")
    BY <1>1, <1>6, <2>1, SetOpInv
  <2>3. Changed(s, t, {Inline(j), Data(j)})
    BY <2>2, ChangedMore
  <2>4. HasKey(t, Data(j)) => Placed(t, Data(j))
    <3>1. Data(j) \notin {Inline(j)} /\ TypeInv(t)
      BY <1>1, <2>2 DEF MgrInv
    <3> QED
      BY <1>2, <2>2, <3>1, KeptUse
  <2> QED
    BY <1>6, <2>2, <2>3, <2>4
<1>7. CASE idata > 0 /\ ~HasKey(s, Inline(j)) /\ ~HasKey(s, Data(j))
  <2>1. t \in AllocMap(s, "DATA", BlkSize, Data(j))
    BY <1>3, <1>7 DEF PlaceTail
  <2>2. MgrInv(t, st, jk) /\ Changed(s, t, {Data(j)}) /\ AtEnd(t, Data(j), BlkSize)
    BY <1>1, <1>7, <2>1, BlkPos, BlocksInv
  <2>3. ~HasKey(t, Inline(j))
    BY <1>1, <1>7, <2>2 DEF Changed
  <2>4. Changed(s, t, {Inline(j), Data(j)})
    BY <2>2, ChangedMore
  <2> QED
    BY <1>7, <2>2, <2>3, <2>4, EndPlaced
<1>8. CASE idata > 0 /\ ~HasKey(s, Inline(j)) /\ HasKey(s, Data(j))
  <2>1. t = IF lazy THEN TailBlock(s, j) ELSE s
    BY <1>3, <1>8 DEF PlaceTail
  <2>2. CASE ~lazy
    BY <1>4, <1>8, <2>1, <2>2
  <2>3. CASE lazy
    <3>1. PICK off : AtEnd(s, Data(j), off)
      BY <1>8, <2>3 DEF Ends
    <3>2. t = Must(Balloon(s, Data(j), BlkSize)) /\ BlkSize \in Nat
      BY <2>1, <2>3, BlkPos DEF TailBlock
    <3>3. MgrInv(t, st, jk) /\ Changed(s, t, {Data(j)}) /\ AtEnd(t, Data(j), off + BlkSize)
      BY <1>1, <3>1, <3>2, GrowInv
    <3>4. ~HasKey(t, Inline(j))
      BY <1>1, <1>8, <3>3 DEF Changed
    <3>5. Changed(s, t, {Inline(j), Data(j)})
      BY <3>3, ChangedMore
    <3> QED
      BY <1>8, <3>3, <3>4, <3>5, EndPlaced
  <2> QED
    BY <2>2, <2>3
<1> QED
  BY <1>5, <1>6, <1>7, <1>8

(* The tail written, and the bh of the data dropped. *)
LEMMA WriteTailEndInv ==
  ASSUME NEW s, NEW st, NEW jk, MgrInv(s, st, jk), NEW j \in Nat, NEW idata \in Nat,
         NEW lazy, HasKey(s, Data(j)) => Placed(s, Data(j)),
         lazy => Ends(s, Data(j)), NEW w, NEW r \in WriteTailEnd(s, w, j, idata, lazy)
  PROVE  /\ MgrInv(r.m, st, jk) /\ Changed(s, r.m, {Inline(j), Data(j)})
         /\ ~HasKey(r.m, Data(j))
         /\ HasKey(r.m, Inline(j)) => HasKey(s, Inline(j))
         /\ HasKey(s, Inline(j)) /\ idata # 0 => OpIs(r.m, Inline(j), "write")
         /\ idata = 0 => Changed(s, r.m, {Data(j)})
<1>1. /\ Inline(j) \in KeySet /\ Data(j) \in KeySet /\ Inline(j) # Data(j)
  BY KeysDiffer
<1>2. PICK t \in PlaceTail(s, j, idata, lazy) :
        r = IF HasBh(t, Data(j)) THEN WriteAndDrop(t, w, Data(j)) ELSE [m |-> t, w |-> w]
  BY DEF WriteTailEnd
<1>3. /\ MgrInv(t, st, jk) /\ Changed(s, t, {Inline(j), Data(j)})
      /\ HasKey(t, Data(j)) => Placed(t, Data(j))
      /\ HasKey(t, Inline(j)) => HasKey(s, Inline(j))
      /\ HasKey(s, Inline(j)) /\ idata # 0 => OpIs(t, Inline(j), "write")
      /\ idata = 0 => t = s
  BY PlaceTailInv
<1>4. TypeInv(t)
  BY <1>3 DEF MgrInv
<1>5. HasBh(t, Data(j)) <=> HasKey(t, Data(j))
  BY <1>4, HasBhIs
<1>6. CASE HasKey(t, Data(j))
  <2>1. r = WriteAndDrop(t, w, Data(j))
    BY <1>2, <1>5, <1>6
  <2>2. MgrInv(r.m, st, jk) /\ Changed(t, r.m, {Data(j)}) /\ ~HasKey(r.m, Data(j))
    BY <1>1, <1>3, <1>6, <2>1, WriteAndDropInv
  <2>3. Changed(s, r.m, {Inline(j), Data(j)} \cup {Data(j)})
    BY <1>3, <1>4, <2>2, ChangedTrans
  <2>4. Changed(s, r.m, {Inline(j), Data(j)})
    BY <2>3, ChangedMore
  <2>5. /\ HasKey(r.m, Inline(j)) <=> HasKey(t, Inline(j))
        /\ OpIs(t, Inline(j), "write") => OpIs(r.m, Inline(j), "write")
    <3>1. Inline(j) \notin {Data(j)} /\ TypeInv(r.m)
      BY <1>1, <2>2 DEF MgrInv
    <3> QED
      BY <1>4, <2>2, <3>1, KeptUse
  <2> QED
    BY <1>3, <2>2, <2>4, <2>5
<1>7. CASE ~HasKey(t, Data(j))
  <2>1. r.m = t
    BY <1>2, <1>5, <1>7
  <2>2. Changed(s, s, {Data(j)})
    BY ChangedSelf, ChangedMore
  <2> QED
    BY <1>3, <1>7, <2>1, <2>2
<1> QED
  BY <1>6, <1>7
-----------------------------------------------------------------------------
(* What is in the manager while the image is built: n inodes were placed,  *)
(* the directories of pd are not written yet, nd are the nids given out.   *)

KeysInv(s, n, pd) ==
  /\ \A key : HasKey(s, key) =>
       key \in {Sb, Devt} \/ \E j \in 1..n : key \in {Inode(j), Inline(j)}
  /\ \A j \in 1..n : OpIs(s, Inode(j), "write")
  /\ \A j \in 1..n : HasKey(s, Inline(j)) =>
       OpIs(s, Inline(j), "write") \/ \E p \in pd : p.dir = j /\ p.idata # 0
NidsInv(s, n, nd) ==
  \A x \in nd : x.inode \in 1..n /\ PlacedAt(s, Inode(x.inode), x.addr)

(* What has no bh between two jobs. *)
LEMMA NoneElse ==
  ASSUME NEW s, NEW n \in Nat, NEW pd, KeysInv(s, n, pd)
  PROVE  /\ ~HasKey(s, Xattr) /\ ~HasKey(s, Blob)
         /\ \A j \in Nat : ~HasKey(s, Data(j))
         /\ ~HasKey(s, Inode(n + 1)) /\ ~HasKey(s, Inline(n + 1))
<1>1. \A key : HasKey(s, key) =>
        key \in {Sb, Devt} \/ \E j \in 1..n : key \in {Inode(j), Inline(j)}
  BY DEF KeysInv
<1>2. ~HasKey(s, Xattr) /\ ~HasKey(s, Blob)
  <2>1. \A k \in {Xattr, Blob} : k \notin {Sb, Devt} /\ \A j \in 1..n : k \notin {Inode(j), Inline(j)}
    <3>1. \A j \in 1..n : j \in Nat
      OBVIOUS
    <3>2. 0 \in Nat
      OBVIOUS
    <3>3. Sb # Xattr /\ Sb # Blob /\ Devt # Xattr /\ Devt # Blob
      BY <3>2, KeysDiffer
    <3>4. \A j \in Nat : {Inode(j), Inline(j), Data(j)} \cap {Sb, Devt, Xattr, Blob} = {}
      BY <3>2, KeysDiffer
    <3> QED
      BY <3>1, <3>3, <3>4
  <2> QED
    BY <1>1, <2>1
<1>3. ASSUME NEW j \in Nat
      PROVE  ~HasKey(s, Data(j))
  <2>1. Data(j) \notin {Sb, Devt}
    BY KeysDiffer
  <2>2. \A k \in 1..n : Data(j) # Inode(k) /\ Data(j) # Inline(k)
    <3> TAKE k \in 1..n
    <3>1. k \in Nat
      OBVIOUS
    <3> QED
      BY <3>1, KeysDiffer
  <2> QED
    BY <1>1, <2>1, <2>2
<1>4. ~HasKey(s, Inode(n + 1)) /\ ~HasKey(s, Inline(n + 1))
  <2>1. n + 1 \in Nat
    OBVIOUS
  <2>2. Inode(n + 1) \notin {Sb, Devt} /\ Inline(n + 1) \notin {Sb, Devt}
    BY <2>1, KeysDiffer
  <2>3. \A k \in 1..n : /\ Inode(n + 1) # Inode(k) /\ Inode(n + 1) # Inline(k)
                        /\ Inline(n + 1) # Inode(k) /\ Inline(n + 1) # Inline(k)
    <3> TAKE k \in 1..n
    <3>1. k \in Nat /\ k # n + 1
      OBVIOUS
    <3> QED
      BY <2>1, <3>1, KeysDiffer
  <2> QED
    BY <1>1, <2>2, <2>3
<1> QED
  BY <1>2, <1>3, <1>4

(* A step that leaves the bhs of the inodes alone. *)
LEMMA OtherStep ==
  ASSUME NEW s, NEW t, TypeInv(s), TypeInv(t), NEW K, Changed(s, t, K),
         K \subseteq {Sb, Devt, Xattr, Blob}, ~HasKey(t, Xattr), ~HasKey(t, Blob),
         NEW n \in Nat, NEW pd, NEW nd, KeysInv(s, n, pd), NidsInv(s, n, nd)
  PROVE  KeysInv(t, n, pd) /\ NidsInv(t, n, nd)
<1>1. \A j \in 1..n : Inode(j) \notin K /\ Inline(j) \notin K
  <2> TAKE j \in 1..n
  <2>1. j \in Nat
    OBVIOUS
  <2> QED
    BY <2>1, KeysDiffer
<1>2. \A key : HasKey(t, key) =>
        key \in {Sb, Devt} \/ \E j \in 1..n : key \in {Inode(j), Inline(j)}
  <2> SUFFICES ASSUME NEW key, HasKey(t, key), key \notin {Sb, Devt}
               PROVE  \E j \in 1..n : key \in {Inode(j), Inline(j)}
    OBVIOUS
  <2>1. key \notin K
    OBVIOUS
  <2>2. HasKey(s, key)
    BY <2>1 DEF Changed
  <2> QED
    BY <2>2 DEF KeysInv
<1>3. \A j \in 1..n : OpIs(t, Inode(j), "write")
  BY <1>1, KeptUse DEF KeysInv
<1>4. \A j \in 1..n : HasKey(t, Inline(j)) =>
        OpIs(t, Inline(j), "write") \/ \E p \in pd : p.dir = j /\ p.idata # 0
  <2> SUFFICES ASSUME NEW j \in 1..n, HasKey(t, Inline(j))
               PROVE  OpIs(t, Inline(j), "write") \/ \E p \in pd : p.dir = j /\ p.idata # 0
    OBVIOUS
  <2>1. /\ HasKey(t, Inline(j)) <=> HasKey(s, Inline(j))
        /\ OpIs(s, Inline(j), "write") => OpIs(t, Inline(j), "write")
    BY <1>1, KeptUse
  <2> QED
    BY <2>1 DEF KeysInv
<1>5. NidsInv(t, n, nd)
  BY <1>1, KeptUse DEF NidsInv
<1> QED
  BY <1>2, <1>3, <1>4, <1>5 DEF KeysInv

(* A job of inode j, new or a directory placed earlier. *)
OfJob(s, t, n, l, j) ==
  /\ j \in 1..l
  /\ \/ l = n + 1 /\ j = l
     \/ l = n /\ Changed(s, t, {Inline(j), Data(j)})

(* A step of a job that changes bhs of its own only. *)
LEMMA JobStep ==
  ASSUME NEW s, NEW t, TypeInv(s), TypeInv(t), NEW n \in Nat, NEW l \in Nat,
         NEW j, OfJob(s, t, n, l, j), Changed(s, t, {Inode(j), Inline(j), Data(j)}),
         ~HasKey(t, Data(j)), OpIs(t, Inode(j), "write"),
         NEW pd, NEW pe, NEW nd, KeysInv(s, n, pd), NidsInv(s, n, nd),
         HasKey(t, Inline(j)) =>
           OpIs(t, Inline(j), "write") \/ \E p \in pe : p.dir = j /\ p.idata # 0,
         \A p \in pd : p.dir # j => p \in pe
  PROVE  KeysInv(t, l, pe) /\ NidsInv(t, l, nd)
<1> USE DEF OfJob
<1> DEFINE K == {Inode(j), Inline(j), Data(j)}
<1>1. \A k \in 1..n : k # j => Inode(k) \notin K /\ Inline(k) \notin K
  <2> TAKE k \in 1..n
  <2>1. k \in Nat /\ j \in Nat
    OBVIOUS
  <2> QED
    BY <2>1, KeysDiffer
<1>2. \A k \in 1..l : k # j => k \in 1..n
  OBVIOUS
<1>3. \A k \in 1..n : k \in 1..l
  OBVIOUS
<1> HIDE DEF K
<1>4. Changed(s, t, K)
  BY DEF K
<1>5. \A key : HasKey(t, key) =>
        key \in {Sb, Devt} \/ \E k \in 1..l : key \in {Inode(k), Inline(k)}
  <2> SUFFICES ASSUME NEW key, HasKey(t, key)
               PROVE  key \in {Sb, Devt} \/ \E k \in 1..l : key \in {Inode(k), Inline(k)}
    OBVIOUS
  <2>1. CASE key \in K
    BY <2>1 DEF K
  <2>2. CASE key \notin K
    <3>1. HasKey(s, key)
      BY <1>4, <2>2 DEF Changed
    <3>2. key \in {Sb, Devt} \/ \E k \in 1..n : key \in {Inode(k), Inline(k)}
      BY <3>1 DEF KeysInv
    <3> QED
      BY <1>3, <3>2
  <2> QED
    BY <2>1, <2>2
<1>6. \A k \in 1..l : OpIs(t, Inode(k), "write")
  <2> SUFFICES ASSUME NEW k \in 1..l, k # j
               PROVE  OpIs(t, Inode(k), "write")
    OBVIOUS
  <2>1. k \in 1..n /\ Inode(k) \notin K
    BY <1>1, <1>2
  <2>2. OpIs(s, Inode(k), "write")
    BY <2>1 DEF KeysInv
  <2> QED
    BY <1>4, <2>1, <2>2, KeptUse
<1>7. \A k \in 1..l : HasKey(t, Inline(k)) =>
        OpIs(t, Inline(k), "write") \/ \E p \in pe : p.dir = k /\ p.idata # 0
  <2> SUFFICES ASSUME NEW k \in 1..l, k # j, HasKey(t, Inline(k))
               PROVE  OpIs(t, Inline(k), "write") \/ \E p \in pe : p.dir = k /\ p.idata # 0
    OBVIOUS
  <2>1. k \in 1..n /\ Inline(k) \notin K
    BY <1>1, <1>2
  <2>2. /\ HasKey(t, Inline(k)) <=> HasKey(s, Inline(k))
        /\ OpIs(s, Inline(k), "write") => OpIs(t, Inline(k), "write")
    BY <1>4, <2>1, KeptUse
  <2>3. OpIs(s, Inline(k), "write") \/ \E p \in pd : p.dir = k /\ p.idata # 0
    BY <2>1, <2>2 DEF KeysInv
  <2> QED
    BY <2>2, <2>3
<1>8. NidsInv(t, l, nd)
  <2> SUFFICES ASSUME NEW x \in nd
               PROVE  x.inode \in 1..l /\ PlacedAt(t, Inode(x.inode), x.addr)
    BY DEF NidsInv
  <2>1. x.inode \in 1..n /\ PlacedAt(s, Inode(x.inode), x.addr)
    BY DEF NidsInv
  <2>2. CASE x.inode # j
    <3>1. Inode(x.inode) \notin K
      BY <1>1, <2>1, <2>2
    <3> QED
      BY <1>3, <1>4, <2>1, <3>1, KeptUse
  <2>3. CASE x.inode = j
    <3>1. l = n /\ j \in Nat
      BY <2>1, <2>3
    <3>2. Changed(s, t, {Inline(j), Data(j)})
      BY <3>1
    <3>3. Inode(j) \notin {Inline(j), Data(j)}
      BY <3>1, KeysDiffer
    <3> QED
      BY <1>3, <2>1, <2>3, <3>2, <3>3, KeptUse
  <2> QED
    BY <2>2, <2>3
<1> QED
  BY <1>5, <1>6, <1>7, <1>8 DEF KeysInv

(* A job that makes its inode. *)
LEMMA NewJobStep ==
  ASSUME NEW s, NEW t, TypeInv(s), TypeInv(t), NEW n \in Nat, NEW j, j = n + 1,
         Changed(s, t, {Inode(j), Inline(j), Data(j)}),
         ~HasKey(t, Data(j)), OpIs(t, Inode(j), "write"),
         NEW pd, NEW pe, NEW nd, KeysInv(s, n, pd), NidsInv(s, n, nd),
         HasKey(t, Inline(j)) =>
           OpIs(t, Inline(j), "write") \/ \E p \in pe : p.dir = j /\ p.idata # 0,
         pd \subseteq pe
  PROVE  KeysInv(t, j, pe) /\ NidsInv(t, j, nd)
<1>1. j \in Nat
  OBVIOUS
<1>2. OfJob(s, t, n, j, j)
  BY DEF OfJob
<1>3. \A p \in pd : p.dir # j => p \in pe
  OBVIOUS
<1> QED
  BY <1>1, <1>2, <1>3, JobStep

(* A job that finishes an inode made earlier. *)
LEMMA OldJobStep ==
  ASSUME NEW s, NEW t, TypeInv(s), TypeInv(t), NEW n \in Nat, NEW j \in 1..n,
         Changed(s, t, {Inline(j), Data(j)}), ~HasKey(t, Data(j)),
         NEW pd, NEW pe, NEW nd, KeysInv(s, n, pd), NidsInv(s, n, nd),
         HasKey(t, Inline(j)) =>
           OpIs(t, Inline(j), "write") \/ \E p \in pe : p.dir = j /\ p.idata # 0,
         \A p \in pd : p.dir # j => p \in pe
  PROVE  KeysInv(t, n, pe) /\ NidsInv(t, n, nd)
<1>1. j \in Nat
  OBVIOUS
<1>2. Changed(s, t, {Inode(j), Inline(j), Data(j)})
  BY ChangedMore
<1>3. OpIs(t, Inode(j), "write")
  <2>1. OpIs(s, Inode(j), "write")
    BY DEF KeysInv
  <2>2. Inode(j) \notin {Inline(j), Data(j)}
    BY <1>1, KeysDiffer
  <2> QED
    BY <2>1, <2>2, KeptUse
<1>4. OfJob(s, t, n, n, j)
  BY DEF OfJob
<1> QED
  BY <1>1, <1>2, <1>3, <1>4, JobStep
-----------------------------------------------------------------------------
(* The first step *)

(* erofs_buffer_init establishes the invariant of the manager. *)
LEMMA BufferInitInv ==
  ASSUME NEW st \in Nat, NEW jk \in Nat, NEW s, s = BufferInit(st, jk)
  PROVE  /\ MgrInv(s, st, jk) /\ PrefixAt(s, 0)
         /\ s.list = << >> /\ s.nr = 0 /\ s.tail_blkaddr = st
         /\ \A key : ~HasKey(s, key)
<1>1. /\ s.list = << >> /\ s.bb = << >> /\ s.nr = 0 /\ s.tail_blkaddr = st
      /\ s.last_mapped = HEAD /\ s.metablkcnt = jk /\ s.bug = FALSE
      /\ s.buckets = [t \in Types |-> [o \in Levels |-> << >>]]
      /\ s = [list |-> s.list, bb |-> s.bb, nr |-> s.nr, buckets |-> s.buckets,
              tail_blkaddr |-> s.tail_blkaddr, last_mapped |-> s.last_mapped,
              metablkcnt |-> s.metablkcnt, bug |-> s.bug]
  BY DEF BufferInit, Types, Levels
<1>2. Len(s.list) = 0 /\ Len(s.bb) = 0 /\ s.list \in Seq(Nat) /\ s.bb \in Seq(BlockSet)
  BY <1>1
<1>3. /\ s.buckets \in [Types -> [Levels -> Seq(Nat)]]
      /\ \A t \in Types, o \in Levels : s.buckets[t][o] = << >>
  BY <1>1
<1>4. HEAD = 0 /\ HEAD \in Nat
  BY DEF HEAD
<1>5. s \in Managers
  BY <1>1, <1>2, <1>3, <1>4 DEF Managers
<1>6. TypeInv(s)
  BY <1>1, <1>2, <1>3, <1>5 DEF TypeInv, Once
<1>7. PrefixAt(s, 0)
  BY <1>1, <1>2 DEF PrefixAt
<1>8. \A y : ~On(s, y)
  BY <1>2 DEF On, Has
<1>9. BucketInv(s)
  BY <1>3, <1>8 DEF BucketInv, Has
<1>10. KeyInv(s) /\ \A key : ~HasKey(s, key)
  BY <1>8 DEF KeyInv, HasKey, At
<1>11. TileInv(s, st)
  BY <1>1 DEF TileInv
<1>12. MetaInv(s, jk)
  <2>1. Gone(s) = {}
    BY <1>1 DEF Gone
  <2> QED
    BY <1>1, <2>1, FS_EmptySet DEF MetaInv
<1>13. PrefixInv(s)
  BY <1>7 DEF PrefixInv
<1> QED
  BY <1>1, <1>6, <1>7, <1>9, <1>10, <1>11, <1>12, <1>13 DEF MgrInv

(* The super block is placed at the start of the image. *)
SbDone(t) ==
  /\ t.nr = 1 /\ Len(t.bb[1].bhs) = 1 /\ At(t, Sb, 1, 1) /\ t.bb[1].off = SbSize
  /\ t.bb[1].bhs[1].off = 0 /\ t.bb[1].bhs[1].len = SbSize

(* erofs_reserve_sb puts the super block at the start of the image. *)
LEMMA ReserveInv ==
  ASSUME NEW jk \in Nat, NEW s, s = BufferInit(0, jk),
         NEW s1 \in Alloc(s, "META", 0, 0, Sb),
         NEW s2, s2 = Map(Must(Balloon(s1, Sb, SbSize)), Sb),
         NEW t, t = Bug(s2, Btell(s2, Sb) # 0)
  PROVE  MgrInv(t, 0, jk) /\ Changed(s, t, {Sb}) /\ SbDone(t)
<1>1. /\ MgrInv(s, 0, jk) /\ PrefixAt(s, 0) /\ s.list = << >> /\ s.nr = 0
      /\ \A key : ~HasKey(s, key)
  BY BufferInitInv
<1>2. Sb \in KeySet /\ 0 \in Nat /\ SbSize \in Nat \ {0}
  BY KeysDiffer, LayoutAssumption
<1> DEFINE r == Balloc(s, "META", 0, 0, Sb)
           u == r.m
<1>3. "META" \in Whats /\ Fresh("META", 0, 0) /\ ~InlineTooBig(0, 0)
  <2>1. 0 % BlkSize = 0
    BY BlkPos
  <2> QED
    BY <1>2, <2>1, NoInlineFits DEF Whats, Fresh
<1>4. /\ r.err = "ok" /\ MgrInv(u, 0, jk)
      /\ FreshDone(s, u, Sb, u.nr, 0, StoredType("META"))
  BY <1>1, <1>2, <1>3, FreshInv
<1>5. s1 = u
  <2>1. s1 = Must(r)
    BY DEF Alloc
  <2> QED
    BY <1>4, <2>1, MustIs DEF MgrInv
<1> HIDE DEF u
<1>6. /\ Changed(s, u, {Sb}) /\ Growable(u, Sb, 1, 0) /\ ~Mapped(u, 1) /\ u.nr = 1
      /\ u.bb[1].bhs[1].off = 0
  BY <1>1, <1>4 DEF FreshDone
<1> DEFINE b == Balloon(u, Sb, SbSize)
           v == b.m
<1>7. /\ b.err = "ok" /\ MgrInv(v, 0, jk)
      /\ GrowDone(u, v, Sb, 1, 0 + SbSize)
  BY <1>2, <1>4, <1>6, BalloonInv
<1>8. s2 = Map(v, Sb)
  BY <1>5, <1>7, MustIs DEF MgrInv
<1> HIDE DEF v
<1>9. /\ Changed(u, v, {Sb}) /\ At(v, Sb, 1, 1) /\ v.bb[1].off = SbSize /\ v.nr = 1
      /\ v.bb[1].bhs[1].off = 0 /\ Len(v.bb[1].bhs) = 1
      /\ v.bb[1].bhs[1].off + v.bb[1].bhs[1].len = SbSize
  BY <1>2, <1>6, <1>7 DEF GrowDone, Growable
<1>10. /\ MgrInv(s2, 0, jk) /\ OnlyMapped(v, s2) /\ Mapped(s2, 1)
       /\ Changed(v, s2, {}) /\ At(s2, Sb, 1, 1)
  BY <1>2, <1>7, <1>8, <1>9, MapInv DEF v
<1>11. s2.nr = 1 /\ s2.bb[1].off = SbSize /\ s2.bb[1].bhs[1].off = 0
  BY <1>9, <1>10 DEF OnlyMapped
<1>12. TypeInv(s2) /\ KeyInv(s2) /\ TileInv(s2, 0)
  BY <1>10 DEF MgrInv
<1>13. s2.bb[1].blkaddr = 0
  <2>1. 1 \in 1..s2.nr
    BY <1>11
  <2>2. s2.bb[1].blkaddr \in Nat
    BY <1>10, <1>12, <2>1, EndUse
  <2>3. BlkRoundUp(SbSize) \in Nat /\ BlkRoundUp(SbSize) > 0
    <3>1. BlkRoundUp(SbSize) \in Nat /\ SbSize <= BlkRoundUp(SbSize) * BlkSize
      BY <1>2, BlkRoundUpIs
    <3>2. BlkRoundUp(SbSize) # 0
      <4> SUFFICES ASSUME BlkRoundUp(SbSize) = 0
                   PROVE  FALSE
        OBVIOUS
      <4>1. SbSize <= 0 * BlkSize /\ 0 * BlkSize = 0
        BY <3>1, BlkPos
      <4> QED
        BY <1>2, <4>1
    <3> QED
      BY <3>1, <3>2
  <2>4. EndBlk(s2, 1) = s2.bb[1].blkaddr + BlkRoundUp(SbSize)
    BY <1>11 DEF EndBlk
  <2>5. Holds(s2, 1, s2.bb[1].blkaddr)
    BY <1>10, <2>2, <2>3, <2>4 DEF Holds
  <2>6. s2.bb[1].blkaddr < s2.tail_blkaddr /\ s2.tail_blkaddr \in Nat
    <3>1. s2.tail_blkaddr \in Nat
      BY <1>12, TypeUse
    <3>2. \A c \in Nat : 0 <= c /\ c < s2.tail_blkaddr <=> \E i \in 1..s2.nr : Holds(s2, i, c)
      BY <1>12 DEF TileInv
    <3> QED
      BY <2>1, <2>2, <2>5, <3>1, <3>2
  <2>7. 0 < s2.tail_blkaddr
    BY <2>2, <2>6
  <2>8. \E i \in 1..s2.nr : Holds(s2, i, 0)
    BY <1>2, <1>12, <2>7 DEF TileInv
  <2>9. Holds(s2, 1, 0)
    BY <1>11, <2>8
  <2> QED
    BY <2>2, <2>9 DEF Holds
<1>14. Btell(s2, Sb) = 0
  <2>1. BlockOf(s2, Sb) = 1 /\ BhNr(s2, Sb) = 1
    BY <1>2, <1>10, <1>12, BlockIs
  <2>2. Btell(s2, Sb) = 0 * BlkSize + 0
    BY <1>11, <1>13, <2>1 DEF Btell
  <2> QED
    BY <2>2, BlkPos
<1>15. t = s2
  <2>1. (Btell(s2, Sb) # 0) = FALSE
    BY <1>14
  <2> QED
    BY <1>12, <2>1, BugIs
<1>16. Changed(s, t, {Sb})
  <2>1. Changed(s, v, {Sb} \cup {Sb})
    BY <1>4, <1>6, <1>9, ChangedTrans DEF MgrInv, u
  <2>2. Changed(s, s2, ({Sb} \cup {Sb}) \cup {})
    BY <1>7, <1>10, <2>1, ChangedTrans DEF MgrInv, v
  <2> QED
    BY <1>15, <2>2, ChangedMore
<1>17. SbDone(t)
  <2>1. 1 \in 1..s2.nr
    BY <1>11
  <2>2. s2.bb[1].bhs \in Seq(BhSet)
    BY <1>12, <2>1, TypeUse, BlockUse
  <2>3. s2.bb[1].bhs = v.bb[1].bhs
    BY <1>9, <1>10 DEF OnlyMapped
  <2>4. s2.bb[1].bhs[1] \in BhSet
    BY <1>9, <2>2, <2>3
  <2>5. s2.bb[1].bhs[1].len \in Nat
    BY <2>4 DEF BhSet
  <2>6. s2.bb[1].bhs[1].len = SbSize
    BY <1>2, <1>9, <2>3, <2>5
  <2> QED
    BY <1>9, <1>10, <1>11, <1>15, <2>3, <2>6 DEF SbDone
<1> QED
  BY <1>10, <1>15, <1>16, <1>17
-----------------------------------------------------------------------------
(* The flush *)

(* A flush leaves no bh that may be written, and without bhs no bb. *)
LEMMA FlushLeaves ==
  ASSUME NEW s, NEW st, NEW jk, MgrInv(s, st, jk), NEW t, t = Bflush(s)
  PROVE  /\ MgrInv(t, st, jk)
         /\ \A key : HasKey(t, key) => HasKey(s, key) /\ ~OpIs(s, key, "write")
         /\ (\A key : ~HasKey(s, key)) => t.list = << >>
<1>1. MgrInv(t, st, jk) /\ FlushDone(s, t)
  BY BflushInv
<1>2. TypeInv(s) /\ KeyInv(s) /\ TypeInv(t)
  BY <1>1 DEF MgrInv
<1>3. \A y : On(t, y) => On(s, y) /\ t.bb[y].bhs # << >> /\ LeftOver(s, t, y)
  BY <1>1 DEF FlushDone
<1>4. ASSUME NEW key, HasKey(t, key)
      PROVE  HasKey(s, key) /\ ~OpIs(s, key, "write")
  <2>1. PICK i \in 1..t.nr, n \in Nat : At(t, key, i, n)
    BY <1>4 DEF HasKey
  <2>2. On(s, i) /\ LeftOver(s, t, i) /\ n \in 1..Len(t.bb[i].bhs) /\ t.bb[i].bhs[n].key = key
    BY <1>3, <2>1 DEF At
  <2>3. PICK l \in 1..Len(s.bb[i].bhs) : /\ t.bb[i].bhs[n].op = "skip"
                                         /\ t.bb[i].bhs[n] = s.bb[i].bhs[l]
    BY <2>2 DEF LeftOver
  <2>4. At(s, key, i, l)
    BY <2>2, <2>3 DEF At
  <2>5. HasKey(s, key) /\ i \in 1..s.nr /\ l \in Nat
    BY <1>2, <2>4, KeyAt
  <2>6. key \in KeySet
    <3>1. s.bb[i].bhs \in Seq(BhSet)
      BY <1>2, <2>5, TypeUse, BlockUse
    <3>2. s.bb[i].bhs[l] \in BhSet
      BY <3>1
    <3> QED
      BY <2>4, <3>2 DEF At, BhSet
  <2>7. ~OpIs(s, key, "write")
    <3> SUFFICES ASSUME NEW k \in 1..s.nr, NEW c \in Nat, At(s, key, k, c),
                        s.bb[k].bhs[c].op = "write"
                 PROVE  FALSE
      BY DEF OpIs
    <3>1. k = i /\ c = l
      BY <1>2, <2>4, <2>5, <2>6 DEF KeyInv
    <3> QED
      BY <2>3, <3>1
  <2> QED
    BY <2>5, <2>7
<1>5. ASSUME \A key : ~HasKey(s, key)
      PROVE  t.list = << >>
  <2>1. ASSUME NEW y, On(t, y)
        PROVE  FALSE
    <3>1. t.bb[y].bhs \in Seq(BhSet) /\ t.bb[y].bhs # << >>
      BY <1>2, <1>3, <2>1, TypeUse, BlockUse
    <3>2. 1 \in 1..Len(t.bb[y].bhs)
      BY <3>1
    <3>3. At(t, t.bb[y].bhs[1].key, y, 1)
      BY <2>1, <3>2 DEF At
    <3> QED
      BY <1>2, <1>4, <1>5, <3>3, KeyAt
  <2>2. t.list \in Seq(Nat) /\ \A p \in 1..Len(t.list) : FALSE
    BY <1>2, <2>1, TypeUse, ListUse
  <2>3. Len(t.list) = 0
    BY <2>2
  <2> QED
    BY <2>2, <2>3
<1> QED
  BY <1>1, <1>4, <1>5

(* A flush writes every bh that may be written, where its address said     *)
(* before.                                                                 *)
LEMMA FlushWrites ==
  ASSUME NEW s, NEW st, NEW jk, MgrInv(s, st, jk), NEW t, t = Bflush(s),
         NEW key \in KeySet, OpIs(s, key, "write")
  PROVE  /\ \E x \in Flushed(s, t) : x.key = key
         /\ \A addr : PlacedAt(s, key, addr) =>
              \E x \in Flushed(s, t) : x.key = key /\ x.lo = addr
<1>1. FlushDone(s, t)
  BY BflushInv
<1>2. TypeInv(s) /\ KeyInv(s)
  BY DEF MgrInv
<1>3. PICK i \in 1..s.nr, n \in Nat : At(s, key, i, n) /\ s.bb[i].bhs[n].op = "write"
  BY DEF OpIs
<1> DEFINE h == s.bb[i].bhs[n]
           x == [key |-> h.key, lo |-> t.bb[i].blkaddr * BlkSize + h.off,
                 hi |-> t.bb[i].blkaddr * BlkSize + h.off + h.len]
<1>4. i \in Ids(s)
  <2>1. s.list \in Seq(Nat) /\ On(s, i)
    BY <1>2, <1>3, TypeUse DEF At
  <2> QED
    BY <2>1 DEF Ids, On, Has, Range
<1>5. h \in Range(s.bb[i].bhs) /\ h.op = "write" /\ h.key = key
  <2>1. s.bb[i].bhs \in Seq(BhSet)
    BY <1>2, TypeUse, BlockUse
  <2> QED
    BY <1>3, <2>1 DEF Range, At
<1> HIDE DEF h
<1>6. x \in Flushed(s, t)
  BY <1>4, <1>5 DEF Flushed
<1>7. x.key = key /\ x.lo = t.bb[i].blkaddr * BlkSize + h.off
  BY <1>5
<1> HIDE DEF x
<1>8. ASSUME NEW addr, PlacedAt(s, key, addr)
      PROVE  x.lo = addr
  <2>1. PICK k \in 1..s.nr, l \in Nat :
          /\ At(s, key, k, l) /\ Mapped(s, k)
          /\ addr = s.bb[k].blkaddr * BlkSize + s.bb[k].bhs[l].off
    BY <1>8 DEF PlacedAt
  <2>2. k = i /\ l = n
    BY <1>2, <1>3, <2>1 DEF KeyInv
  <2>3. t.bb[i].blkaddr = s.bb[i].blkaddr
    BY <1>1, <2>1, <2>2 DEF FlushDone, SameSizes
  <2> QED
    BY <1>7, <2>1, <2>2, <2>3 DEF h
<1> QED
  BY <1>6, <1>7, <1>8
-----------------------------------------------------------------------------
(* The inductive invariant *)

(* The phases in which jobs may still add to the image. *)
Building == {"sb", "devt", "xattr", "build", "blobs", "flush"}

(* Every inode is written, and where each nid taken of it says. *)
AllWritten ==
  /\ \A j \in 1..jobs : \E x \in written : x.key = Inode(j)
  /\ \A n \in nids : \E x \in written : x.key = Inode(n.inode) /\ x.lo = n.addr

(* The manager's invariant; which bhs there are between two jobs; and what *)
(* the flushes have written once they ran.                                 *)
LayoutInv ==
  /\ plan \in Plans /\ junk \in MallocJunk /\ jobs \in Nat /\ phase \in Phases
  /\ MgrInv(m, plan.start, junk)
  /\ \A p \in pend : p.dir \in 1..jobs /\ p.idata \in Nat
  /\ phase = "sb" => plan.start = 0 /\ m = BufferInit(0, junk)
  /\ phase \in {"blobs", "flush"} => pend = {}
  /\ phase \in Building => KeysInv(m, jobs, pend) /\ NidsInv(m, jobs, nids)
  /\ phase \in {"devt", "flush"} => ~HasKey(m, Devt)
  /\ phase = "writesb" => \A key : HasKey(m, key) => key = Sb
  /\ phase \in {"writesb", "done"} => AllWritten
  /\ phase = "done" => m.list = << >>

(* The numbers of a plan. *)
LEMMA PlanUse ==
  ASSUME NEW x \in Plans
  PROVE  /\ x.start \in Nat /\ x.nblocks \subseteq Nat /\ x.isizes \subseteq Nat
         /\ x.idata \subseteq Nat /\ x.xsizes \subseteq Nat /\ x.blobs \subseteq Nat
<1>1. x \in [start : Nat, jobs : Nat, nblocks : SUBSET Nat,
             isizes : SUBSET (Nat \ {0}), idata : SUBSET (0..(BlkSize - 1)),
             xsizes : SUBSET Nat, blobs : SUBSET Nat]
  BY LayoutAssumption
<1>2. x.idata \subseteq 0..(BlkSize - 1) /\ x.isizes \subseteq Nat \ {0}
  BY <1>1
<1> QED
  BY <1>1, <1>2, BlkPos

(* Between two jobs, for an empty manager. *)
LEMMA NoKeys ==
  ASSUME NEW s, \A key : ~HasKey(s, key)
  PROVE  KeysInv(s, 0, {}) /\ NidsInv(s, 0, {})
BY DEF KeysInv, NidsInv

(* The inductive invariant holds initially. *)
LEMMA InitLayout == Init => LayoutInv
<1> SUFFICES ASSUME Init
             PROVE  LayoutInv
  OBVIOUS
<1>1. plan.start \in Nat /\ junk \in Nat
  BY PlanUse, LayoutAssumption DEF Init
<1>2. m = BufferInit(plan.start, junk)
  BY DEF Init
<1>3. MgrInv(m, plan.start, junk) /\ \A key : ~HasKey(m, key)
  BY <1>1, <1>2, BufferInitInv
<1>4. KeysInv(m, 0, {}) /\ NidsInv(m, 0, {})
  BY <1>3, NoKeys
<1>5. /\ jobs = 0 /\ pend = {} /\ nids = {} /\ plan \in Plans /\ junk \in MallocJunk
      /\ phase = IF plan.start = 0 THEN "sb" ELSE "devt"
  BY DEF Init
<1> QED
  BY <1>2, <1>3, <1>4, <1>5 DEF LayoutInv, Phases

(* What every step before the end starts from. *)
LEMMA InvUse ==
  ASSUME LayoutInv
  PROVE  /\ plan \in Plans /\ junk \in MallocJunk /\ jobs \in Nat /\ junk \in Nat
         /\ plan.start \in Nat /\ plan.nblocks \subseteq Nat /\ plan.isizes \subseteq Nat
         /\ plan.idata \subseteq Nat /\ plan.xsizes \subseteq Nat /\ plan.blobs \subseteq Nat
         /\ MgrInv(m, plan.start, junk) /\ TypeInv(m) /\ KeyInv(m)
         /\ \A p \in pend : p.dir \in 1..jobs /\ p.idata \in Nat
         /\ phase \in Building => KeysInv(m, jobs, pend) /\ NidsInv(m, jobs, nids)
<1>1. junk \in Nat
  BY LayoutAssumption DEF LayoutInv
<1> QED
  BY <1>1, PlanUse DEF LayoutInv, MgrInv

(* Reserving the super block preserves the invariant. *)
LEMMA StepReserveSb ==
  ASSUME LayoutInv, ReserveSb
  PROVE  LayoutInv'
<1>1. phase = "sb" /\ phase \in Building /\ plan.start = 0 /\ m = BufferInit(0, junk)
  BY DEF ReserveSb, LayoutInv, Building
<1>2. PICK s1 \in Alloc(m, "META", 0, 0, Sb) :
        \E s2 \in {Map(Must(Balloon(s1, Sb, SbSize)), Sb)} :
          m' = Bug(s2, Btell(s2, Sb) # 0)
  BY DEF ReserveSb
<1>3. MgrInv(m', 0, junk) /\ Changed(m, m', {Sb})
  BY <1>1, <1>2, InvUse, ReserveInv
<1>4. /\ phase' = "devt" /\ plan' = plan /\ junk' = junk /\ jobs' = jobs /\ pend' = pend
      /\ nids' = nids
  BY DEF ReserveSb
<1>5. KeysInv(m, jobs, pend) /\ NidsInv(m, jobs, nids) /\ jobs \in Nat
  BY <1>1, InvUse
<1>6. \A key : key # Sb => ~HasKey(m', key)
  <2>1. \A key : ~HasKey(m, key)
    BY <1>1, InvUse, BufferInitInv
  <2> QED
    BY <1>3, <2>1 DEF Changed
<1>7. ~HasKey(m', Xattr) /\ ~HasKey(m', Blob) /\ ~HasKey(m', Devt)
  BY <1>6, KeysDiffer
<1>8. KeysInv(m', jobs, pend) /\ NidsInv(m', jobs, nids)
  <2>1. TypeInv(m) /\ TypeInv(m')
    BY <1>3, InvUse DEF MgrInv
  <2>2. {Sb} \subseteq {Sb, Devt, Xattr, Blob}
    OBVIOUS
  <2> QED
    BY <1>3, <1>5, <1>7, <2>1, <2>2, OtherStep
<1> QED
  BY <1>1, <1>3, <1>4, <1>7, <1>8, InvUse DEF LayoutInv, Phases

(* Reserving the device table preserves the invariant. *)
LEMMA StepInitDevices ==
  ASSUME LayoutInv, InitDevices
  PROVE  LayoutInv'
<1>1. phase = "devt" /\ phase \in Building /\ ~HasKey(m, Devt)
  BY DEF InitDevices, LayoutInv, Building
<1>2. /\ phase' = "xattr" /\ plan' = plan /\ junk' = junk /\ jobs' = jobs /\ pend' = pend
      /\ nids' = nids
  BY DEF InitDevices
<1>3. KeysInv(m, jobs, pend) /\ NidsInv(m, jobs, nids) /\ jobs \in Nat
  BY <1>1, InvUse
<1>4. /\ MgrInv(m', plan.start, junk)
      /\ KeysInv(m', jobs, pend) /\ NidsInv(m', jobs, nids)
  <2>1. CASE UNCHANGED m
    BY <1>3, <2>1, InvUse
  <2>2. CASE m' \in AllocMap(m, "DEVT", DevtSlot, Devt)
    <3>1. "DEVT" \in Whats /\ DevtSlot \in Nat /\ Devt \in KeySet
      BY BlkAssumption, KeysDiffer DEF Whats
    <3>2. MgrInv(m', plan.start, junk) /\ Changed(m, m', {Devt})
      BY <1>1, <2>2, <3>1, InvUse, TableInv
    <3>3. ~HasKey(m, Xattr) /\ ~HasKey(m, Blob) /\ Devt # Xattr /\ Devt # Blob
      BY <1>3, NoneElse, KeysDiffer
    <3>4. ~HasKey(m', Xattr) /\ ~HasKey(m', Blob)
      BY <3>2, <3>3 DEF Changed
    <3>5. TypeInv(m) /\ TypeInv(m')
      BY <3>2, InvUse DEF MgrInv
    <3>6. {Devt} \subseteq {Sb, Devt, Xattr, Blob}
      OBVIOUS
    <3> QED
      BY <1>3, <3>2, <3>4, <3>5, <3>6, OtherStep
  <2> QED
    BY <2>1, <2>2 DEF InitDevices
<1> QED
  BY <1>2, <1>4, InvUse DEF LayoutInv, Phases

(* A table or a blob is placed, written and dropped again. *)
LEMMA TableStep ==
  ASSUME NEW st, NEW jk, NEW s, MgrInv(s, st, jk), NEW n \in Nat, NEW pd, NEW nd,
         KeysInv(s, n, pd), NidsInv(s, n, nd), NEW what \in Whats, NEW size \in Nat,
         NEW key \in {Xattr, Blob}, NEW u \in AllocMap(s, what, size, key), NEW w,
         NEW r, r = WriteAndDrop(u, w, key)
  PROVE  /\ MgrInv(r.m, st, jk) /\ KeysInv(r.m, n, pd) /\ NidsInv(r.m, n, nd)
         /\ HasKey(r.m, Devt) => HasKey(s, Devt)
<1>1. key \in KeySet /\ Devt # key
  BY KeysDiffer
<1>2. ~HasKey(s, Xattr) /\ ~HasKey(s, Blob)
  BY NoneElse
<1>3. MgrInv(u, st, jk) /\ Changed(s, u, {key}) /\ Placed(u, key)
  BY <1>1, <1>2, TableInv
<1>4. MgrInv(r.m, st, jk) /\ Changed(u, r.m, {key}) /\ ~HasKey(r.m, key)
  BY <1>1, <1>3, WriteAndDropInv
<1>5. Changed(s, r.m, {key} \cup {key})
  BY <1>3, <1>4, ChangedTrans DEF MgrInv
<1>6. ~HasKey(r.m, Xattr) /\ ~HasKey(r.m, Blob)
  BY <1>2, <1>4, <1>5 DEF Changed
<1>7. TypeInv(s) /\ TypeInv(r.m) /\ {key} \cup {key} \subseteq {Sb, Devt, Xattr, Blob}
  BY <1>4 DEF MgrInv
<1>8. KeysInv(r.m, n, pd) /\ NidsInv(r.m, n, nd)
  BY <1>5, <1>6, <1>7, OtherStep
<1> QED
  BY <1>1, <1>4, <1>5, <1>8 DEF Changed

(* Writing the shared xattrs preserves the invariant. *)
LEMMA StepSharedXattrs ==
  ASSUME LayoutInv, SharedXattrs
  PROVE  LayoutInv'
<1>1. phase = "xattr" /\ phase \in Building
  BY DEF SharedXattrs, Building
<1>2. /\ phase' = "build" /\ plan' = plan /\ junk' = junk /\ jobs' = jobs /\ pend' = pend
      /\ nids' = nids
  BY DEF SharedXattrs
<1>3. KeysInv(m, jobs, pend) /\ NidsInv(m, jobs, nids) /\ jobs \in Nat
  BY <1>1, InvUse
<1>4. PICK size \in plan.xsizes :
        IF size = 0 THEN UNCHANGED <<m, written>>
        ELSE \E s \in AllocMap(m, "XATTR", size, Xattr) :
             \E r \in {WriteAndDrop(s, {}, Xattr)} : m' = r.m /\ written' = r.w
  BY DEF SharedXattrs
<1>5. /\ MgrInv(m', plan.start, junk)
      /\ KeysInv(m', jobs, pend) /\ NidsInv(m', jobs, nids)
  <2>1. CASE size = 0
    BY <1>3, <1>4, <2>1, InvUse
  <2>2. CASE size # 0
    <3>1. PICK s \in AllocMap(m, "XATTR", size, Xattr) : m' = WriteAndDrop(s, {}, Xattr).m
      BY <1>4, <2>2
    <3>2. "XATTR" \in Whats /\ size \in Nat /\ MgrInv(m, plan.start, junk)
      BY InvUse DEF Whats
    <3> QED
      BY <1>3, <3>1, <3>2, TableStep
  <2> QED
    BY <2>1, <2>2
<1> QED
  BY <1>2, <1>5, InvUse DEF LayoutInv, Phases

(* A file job preserves the invariant. *)
LEMMA StepFileJob ==
  ASSUME LayoutInv, FileJob
  PROVE  LayoutInv'
<1>1. phase = "build" /\ phase \in Building
  BY DEF FileJob, Building
<1>2. /\ phase' = "build" /\ plan' = plan /\ junk' = junk /\ jobs' = jobs + 1 /\ pend' = pend
      /\ nids' = nids
  BY <1>1 DEF FileJob
<1>3. /\ KeysInv(m, jobs, pend) /\ NidsInv(m, jobs, nids) /\ jobs \in Nat
      /\ MgrInv(m, plan.start, junk) /\ TypeInv(m)
      /\ \A p \in pend : p.dir \in 1..jobs /\ p.idata \in Nat
  BY <1>1, InvUse
<1> DEFINE j == jobs + 1
<1>4. PICK n \in plan.nblocks, isize \in plan.isizes, idata \in plan.idata,
           inlinable \in BOOLEAN, how \in {"plain", "compressed", "revoked"} :
        \E d \in FileData(m, j, n, idata, how) :
        \E p \in PrepareInode(d.m, j, isize, idata, inlinable) :
        \E t \in WriteTailEnd(p.m, d.w, j, idata, p.lazy) : m' = t.m
  BY DEF FileJob
<1>5. PICK d \in FileData(m, j, n, idata, how) :
        \E p \in PrepareInode(d.m, j, isize, idata, inlinable) :
        \E t \in WriteTailEnd(p.m, d.w, j, idata, p.lazy) : m' = t.m
  BY <1>4
<1>6. PICK p \in PrepareInode(d.m, j, isize, idata, inlinable) :
        \E t \in WriteTailEnd(p.m, d.w, j, idata, p.lazy) : m' = t.m
  BY <1>5
<1>7. PICK t \in WriteTailEnd(p.m, d.w, j, idata, p.lazy) : m' = t.m
  BY <1>6
<1>8. n \in Nat /\ isize \in Nat /\ idata \in Nat /\ j \in Nat
  BY <1>3, InvUse
<1>9. ~HasKey(m, Data(j)) /\ ~HasKey(m, Inode(j)) /\ ~HasKey(m, Inline(j))
  BY <1>3, <1>8, NoneElse
<1> HIDE DEF j
<1>10. Inode(j) # Inline(j) /\ Inode(j) # Data(j) /\ Inline(j) # Data(j)
  BY <1>8, KeysDiffer
<1>11. /\ MgrInv(d.m, plan.start, junk) /\ Changed(m, d.m, {Data(j)}) /\ Ends(d.m, Data(j))
  BY <1>3, <1>8, <1>9, FileDataInv
<1>12. ~HasKey(d.m, Inode(j)) /\ ~HasKey(d.m, Inline(j))
  BY <1>9, <1>10, <1>11 DEF Changed
<1>13. /\ MgrInv(p.m, plan.start, junk) /\ InodeDone(d.m, p, j, idata)
       /\ OpIs(p.m, Inode(j), "write")
  BY <1>8, <1>11, <1>12, PrepareInodeInv
<1>14. /\ Changed(d.m, p.m, {Inode(j), Inline(j), Data(j)})
       /\ HasKey(p.m, Inline(j)) => idata # 0
       /\ HasKey(p.m, Data(j)) => Placed(p.m, Data(j)) /\ ~p.lazy
  BY <1>13 DEF InodeDone
<1>15. p.lazy => Ends(p.m, Data(j))
  BY <1>14 DEF Ends
<1>16. /\ MgrInv(m', plan.start, junk) /\ Changed(p.m, m', {Inline(j), Data(j)})
       /\ ~HasKey(m', Data(j))
       /\ HasKey(m', Inline(j)) => HasKey(p.m, Inline(j))
       /\ HasKey(p.m, Inline(j)) /\ idata # 0 => OpIs(m', Inline(j), "write")
  BY <1>7, <1>8, <1>13, <1>14, <1>15, WriteTailEndInv
<1>17. TypeInv(d.m) /\ TypeInv(p.m) /\ TypeInv(m')
  BY <1>11, <1>13, <1>16 DEF MgrInv
<1>18. OpIs(m', Inode(j), "write")
  <2>1. Inode(j) \notin {Inline(j), Data(j)}
    BY <1>10
  <2> QED
    BY <1>13, <1>16, <1>17, <2>1, KeptUse
<1>19. HasKey(m', Inline(j)) => OpIs(m', Inline(j), "write")
  BY <1>14, <1>16
<1>20. Changed(m, m', {Inode(j), Inline(j), Data(j)})
  <2>1. Changed(m, p.m, {Data(j)} \cup {Inode(j), Inline(j), Data(j)})
    BY <1>11, <1>14, <1>17, ChangedTrans
  <2>2. Changed(m, m', ({Data(j)} \cup {Inode(j), Inline(j), Data(j)}) \cup {Inline(j), Data(j)})
    BY <1>16, <1>17, <2>1, ChangedTrans
  <2> QED
    BY <2>2, ChangedMore
<1>21. KeysInv(m', j, pend) /\ NidsInv(m', j, nids)
  <2>1. j = jobs + 1 /\ pend \subseteq pend
    BY DEF j
  <2> QED
    BY <1>3, <1>16, <1>17, <1>18, <1>19, <1>20, <2>1, NewJobStep
<1>22. \A q \in pend : q.dir \in 1..(jobs + 1) /\ q.idata \in Nat
  BY <1>3
<1>23. jobs + 1 \in Nat
  BY <1>3
<1> QED
  BY <1>2, <1>16, <1>21, <1>22, <1>23, InvUse DEF LayoutInv, Phases, j

(* A directory job preserves the invariant. *)
LEMMA StepDirJob ==
  ASSUME LayoutInv, DirJob
  PROVE  LayoutInv'
<1>1. phase = "build" /\ phase \in Building
  BY DEF DirJob, Building
<1>2. /\ phase' = "build" /\ plan' = plan /\ junk' = junk /\ jobs' = jobs + 1
  BY <1>1 DEF DirJob
<1>3. /\ KeysInv(m, jobs, pend) /\ NidsInv(m, jobs, nids) /\ jobs \in Nat
      /\ MgrInv(m, plan.start, junk) /\ TypeInv(m)
      /\ \A p \in pend : p.dir \in 1..jobs /\ p.idata \in Nat
  BY <1>1, InvUse
<1> DEFINE j == jobs + 1
<1>4. PICK isize \in plan.isizes, idata \in plan.idata, inlinable \in BOOLEAN :
        \E p \in PrepareInode(m, j, isize, idata, inlinable) :
          /\ IF jobs = 0 /\ HasBh(m, Sb)
             THEN m' = Map(p.m, Inode(1)) /\ nids' = nids \cup {Nid(m', 1)}
             ELSE m' = p.m /\ UNCHANGED nids
          /\ pend' = pend \cup {[dir |-> j, idata |-> idata, lazy |-> p.lazy]}
  BY DEF DirJob
<1>5. PICK p \in PrepareInode(m, j, isize, idata, inlinable) :
          /\ IF jobs = 0 /\ HasBh(m, Sb)
             THEN m' = Map(p.m, Inode(1)) /\ nids' = nids \cup {Nid(m', 1)}
             ELSE m' = p.m /\ UNCHANGED nids
          /\ pend' = pend \cup {[dir |-> j, idata |-> idata, lazy |-> p.lazy]}
  BY <1>4
<1>6. isize \in Nat /\ idata \in Nat /\ j \in Nat
  BY <1>3, InvUse
<1>7. ~HasKey(m, Data(j)) /\ ~HasKey(m, Inode(j)) /\ ~HasKey(m, Inline(j))
  BY <1>3, <1>6, NoneElse
<1> HIDE DEF j
<1>8. /\ Inode(j) # Inline(j) /\ Inode(j) # Data(j) /\ Inline(j) # Data(j)
      /\ Inode(j) \in KeySet
  BY <1>6, KeysDiffer
<1>9. Ends(m, Data(j))
  BY <1>7 DEF Ends
<1>10. /\ MgrInv(p.m, plan.start, junk) /\ InodeDone(m, p, j, idata)
       /\ OpIs(p.m, Inode(j), "write")
  BY <1>3, <1>6, <1>7, <1>9, PrepareInodeInv
<1>11. /\ Changed(m, p.m, {Inode(j), Inline(j), Data(j)})
       /\ HasKey(p.m, Inode(j))
       /\ HasKey(p.m, Inline(j)) => idata # 0
  BY <1>10 DEF InodeDone
<1>12. /\ MgrInv(m', plan.start, junk) /\ Changed(p.m, m', {})
       /\ \/ nids' = nids
          \/ j = 1 /\ Placed(m', Inode(1)) /\ nids' = nids \cup {Nid(m', 1)}
  <2>1. CASE jobs = 0 /\ HasBh(m, Sb)
    <3>1. j = 1 /\ m' = Map(p.m, Inode(j)) /\ nids' = nids \cup {Nid(m', 1)}
      BY <1>5, <2>1 DEF j
    <3>2. PICK i \in 1..p.m.nr, n \in Nat : At(p.m, Inode(j), i, n)
      BY <1>11 DEF HasKey
    <3>3. /\ MgrInv(m', plan.start, junk) /\ Changed(p.m, m', {})
          /\ Mapped(m', i) /\ At(m', Inode(j), i, n)
      BY <1>8, <1>10, <3>1, <3>2, MapInv
    <3> QED
      BY <3>1, <3>3 DEF Placed
  <2>2. CASE ~(jobs = 0 /\ HasBh(m, Sb))
    <3>1. m' = p.m /\ nids' = nids
      BY <1>5, <2>2
    <3> QED
      BY <1>10, <3>1, ChangedSelf
  <2> QED
    BY <2>1, <2>2
<1>13. TypeInv(p.m) /\ TypeInv(m') /\ KeyInv(m')
  BY <1>10, <1>12 DEF MgrInv
<1>14. OpIs(m', Inode(j), "write")
  BY <1>10, <1>12, <1>13, KeptUse
<1>15. ~HasKey(p.m, Data(j)) /\ ~HasKey(m', Data(j))
  <2>1. ~HasKey(p.m, Data(j))
    BY <1>7, <1>10 DEF InodeDone
  <2> QED
    BY <1>12, <2>1 DEF Changed
<1> DEFINE new == [dir |-> j, idata |-> idata, lazy |-> p.lazy]
<1>16. /\ new.dir = j /\ new.idata = idata /\ pend' = pend \cup {new}
  BY <1>5
<1> HIDE DEF new
<1>17. HasKey(m', Inline(j)) =>
         OpIs(m', Inline(j), "write") \/ \E q \in pend' : q.dir = j /\ q.idata # 0
  BY <1>11, <1>12, <1>16 DEF Changed
<1>18. Changed(m, m', {Inode(j), Inline(j), Data(j)})
  <2>1. Changed(m, m', {Inode(j), Inline(j), Data(j)} \cup {})
    BY <1>11, <1>12, <1>13, ChangedTrans
  <2> QED
    BY <2>1, ChangedMore
<1>19. KeysInv(m', j, pend') /\ NidsInv(m', j, nids)
  <2>1. j = jobs + 1
    BY DEF j
  <2>2. pend \subseteq pend'
    BY <1>16
  <2> QED
    BY <1>3, <1>13, <1>14, <1>15, <1>17, <1>18, <2>1, <2>2, NewJobStep
<1>20. NidsInv(m', j, nids')
  <2>1. CASE nids' = nids
    BY <1>19, <2>1
  <2>2. CASE j = 1 /\ Placed(m', Inode(1)) /\ nids' = nids \cup {Nid(m', 1)}
    <3>1. PlacedAt(m', Inode(1), Btell(m', Inode(1)))
      BY <1>8, <1>13, <2>2, PlacedIs
    <3>2. /\ Nid(m', 1).inode = 1 /\ Nid(m', 1).addr = Btell(m', Inode(1))
          /\ 1 \in 1..j
      BY <2>2 DEF Nid
    <3> QED
      BY <1>19, <2>2, <3>1, <3>2 DEF NidsInv
  <2> QED
    BY <1>12, <2>1, <2>2
<1>21. \A q \in pend' : q.dir \in 1..(jobs + 1) /\ q.idata \in Nat
  BY <1>3, <1>6, <1>16 DEF j
<1>22. jobs + 1 \in Nat
  BY <1>3
<1> QED
  BY <1>2, <1>12, <1>19, <1>20, <1>21, <1>22, InvUse DEF LayoutInv, Phases, j

(* The data of directory j is placed, and the nids it needs are final. *)
DirMapped(s, t, j, c) ==
  /\ Changed(s, t, {Data(j)}) /\ Ends(t, Data(j))
  /\ Placed(t, Inode(j)) /\ Placed(t, Inode(c))

(* Writing a directory maps its inode and the child's, and changes no bh   *)
(* but the directory's data.                                               *)
LEMMA DirMappedInv ==
  ASSUME NEW s, NEW st, NEW jk, MgrInv(s, st, jk), NEW j \in Nat, NEW c \in Nat,
         ~HasKey(s, Data(j)), HasKey(s, Inode(j)), HasKey(s, Inode(c)),
         NEW n \in Nat, NEW s1 \in AllocData(s, j, "DIRA", n),
         NEW s2, s2 = Map(s1, Inode(j)), NEW s3, s3 = Map(s2, Inode(c))
  PROVE  MgrInv(s3, st, jk) /\ DirMapped(s, s3, j, c)
<1>1. /\ Inode(j) \in KeySet /\ Inode(c) \in KeySet /\ Data(j) \in KeySet
      /\ Inode(j) # Data(j) /\ Inode(c) # Data(j)
  BY KeysDiffer
<1>2. /\ MgrInv(s1, st, jk) /\ Changed(s, s1, {Data(j)}) /\ Ends(s1, Data(j))
      /\ n = 0 => s1 = s
      /\ n # 0 => PrefixAt(s1, Len(s1.list))
  BY AllocDataInv
<1>3. HasKey(s1, Inode(j)) /\ HasKey(s1, Inode(c))
  BY <1>1, <1>2 DEF Changed
<1>4. PICK i, l : At(s1, Inode(j), i, l)
  BY <1>3 DEF HasKey
<1>5. /\ MgrInv(s2, st, jk) /\ Changed(s1, s2, {}) /\ Mapped(s2, i) /\ At(s2, Inode(j), i, l)
      /\ PrefixAt(s1, Len(s1.list)) => s2 = s1
  BY <1>1, <1>2, <1>4, MapInv
<1>6. HasKey(s2, Inode(c)) /\ Placed(s2, Inode(j))
  BY <1>3, <1>5 DEF Changed, Placed
<1>7. PICK k, h : At(s2, Inode(c), k, h)
  BY <1>6 DEF HasKey
<1>8. /\ MgrInv(s3, st, jk) /\ Changed(s2, s3, {}) /\ Mapped(s3, k) /\ At(s3, Inode(c), k, h)
      /\ PrefixAt(s2, Len(s2.list)) => s3 = s2
  BY <1>1, <1>5, <1>7, MapInv
<1>9. TypeInv(s1) /\ TypeInv(s2) /\ TypeInv(s3)
  BY <1>2, <1>5, <1>8 DEF MgrInv
<1>10. Placed(s3, Inode(c))
  BY <1>8 DEF Placed
<1>11. Placed(s3, Inode(j))
  BY <1>6, <1>8, <1>9, KeptUse
<1>12. Changed(s, s3, {Data(j)})
  <2>1. Changed(s, s2, {Data(j)} \cup {})
    BY <1>2, <1>5, <1>9, ChangedTrans
  <2>2. Changed(s, s3, ({Data(j)} \cup {}) \cup {})
    BY <1>8, <1>9, <2>1, ChangedTrans
  <2> QED
    BY <2>2, ChangedMore
<1>13. Ends(s3, Data(j))
  <2>1. CASE n = 0
    BY <1>2, <1>5, <1>8, <2>1 DEF Changed, Ends
  <2>2. CASE n # 0
    BY <1>2, <1>5, <1>8, <2>2
  <2> QED
    BY <2>1, <2>2
<1> QED
  BY <1>8, <1>10, <1>11, <1>12, <1>13 DEF DirMapped

(* A nid taken now is the inode's address after the job's other writes. *)
LEMMA NidPlaced ==
  ASSUME NEW s, NEW t, TypeInv(s), KeyInv(s), TypeInv(t), NEW j \in Nat, NEW k \in Nat,
         Placed(s, Inode(j)), Changed(s, t, {Inline(k), Data(k)})
  PROVE  Nid(s, j).inode = j /\ PlacedAt(t, Inode(Nid(s, j).inode), Nid(s, j).addr)
<1>1. PlacedAt(s, Inode(j), Btell(s, Inode(j)))
  BY KeysDiffer, PlacedIs
<1>2. Inode(j) \notin {Inline(k), Data(k)}
  BY KeysDiffer
<1>3. PlacedAt(t, Inode(j), Btell(s, Inode(j)))
  BY <1>1, <1>2, KeptUse
<1> QED
  BY <1>3 DEF Nid

(* Writing a directory preserves the invariant: its nids are those of      *)
(* inodes with an address.                                                 *)
LEMMA StepDirBhJob ==
  ASSUME LayoutInv, DirBhJob
  PROVE  LayoutInv'
<1>1. phase = "build" /\ phase \in Building
  BY DEF DirBhJob, Building
<1>2. /\ phase' = "build" /\ plan' = plan /\ junk' = junk /\ jobs' = jobs
  BY <1>1 DEF DirBhJob
<1>3. /\ KeysInv(m, jobs, pend) /\ NidsInv(m, jobs, nids) /\ jobs \in Nat
      /\ MgrInv(m, plan.start, junk) /\ TypeInv(m) /\ plan.nblocks \subseteq Nat
      /\ \A p \in pend : p.dir \in 1..jobs /\ p.idata \in Nat
  BY <1>1, InvUse
<1>4. PICK p \in pend, n \in plan.nblocks, c \in 1..jobs :
        \E s1 \in AllocData(m, p.dir, "DIRA", n) :
        \E s2 \in {Map(s1, Inode(p.dir))} :
        \E s3 \in {Map(s2, Inode(c))} :
        \E t \in WriteTailEnd(s3, {}, p.dir, p.idata, p.lazy) :
          /\ m' = t.m /\ nids' = nids \cup {Nid(s3, p.dir), Nid(s3, c)}
          /\ pend' = pend \ {p}
  BY DEF DirBhJob
<1> DEFINE j == p.dir
<1>5. PICK s1 \in AllocData(m, j, "DIRA", n) :
        \E s2 \in {Map(s1, Inode(j))} :
        \E s3 \in {Map(s2, Inode(c))} :
        \E t \in WriteTailEnd(s3, {}, j, p.idata, p.lazy) :
          /\ m' = t.m /\ nids' = nids \cup {Nid(s3, j), Nid(s3, c)}
          /\ pend' = pend \ {p}
  BY <1>4
<1> DEFINE s2 == Map(s1, Inode(j))
           s3 == Map(s2, Inode(c))
<1>6. PICK t \in WriteTailEnd(s3, {}, j, p.idata, p.lazy) :
          /\ m' = t.m /\ nids' = nids \cup {Nid(s3, j), Nid(s3, c)}
          /\ pend' = pend \ {p}
  BY <1>5
<1>7. j \in 1..jobs /\ j \in Nat /\ c \in Nat /\ p.idata \in Nat /\ n \in Nat
  BY <1>3
<1> HIDE DEF j
<1>8. /\ Inode(j) # Inline(j) /\ Inode(j) # Data(j) /\ Inline(j) # Data(j)
  BY <1>7, KeysDiffer
<1>9. ~HasKey(m, Data(j)) /\ HasKey(m, Inode(j)) /\ HasKey(m, Inode(c))
  <2>1. OpIs(m, Inode(j), "write") /\ OpIs(m, Inode(c), "write")
    BY <1>3, <1>7 DEF KeysInv
  <2> QED
    BY <1>3, <1>7, <2>1, NoneElse DEF OpIs, HasKey
<1>10. MgrInv(s3, plan.start, junk) /\ DirMapped(m, s3, j, c)
  BY <1>3, <1>7, <1>9, DirMappedInv
<1> HIDE DEF s2, s3
<1>11. /\ Changed(m, s3, {Data(j)}) /\ Ends(s3, Data(j))
       /\ Placed(s3, Inode(j)) /\ Placed(s3, Inode(c))
  BY <1>10 DEF DirMapped
<1>12. /\ MgrInv(m', plan.start, junk) /\ Changed(s3, m', {Inline(j), Data(j)})
       /\ ~HasKey(m', Data(j))
       /\ HasKey(m', Inline(j)) => HasKey(s3, Inline(j))
       /\ HasKey(s3, Inline(j)) /\ p.idata # 0 => OpIs(m', Inline(j), "write")
       /\ p.idata = 0 => Changed(s3, m', {Data(j)})
  <2>1. HasKey(s3, Data(j)) => Placed(s3, Data(j))
    BY <1>11, EndPlaced DEF Ends
  <2> QED
    BY <1>6, <1>7, <1>10, <1>11, <2>1, WriteTailEndInv
<1>13. TypeInv(s3) /\ KeyInv(s3) /\ TypeInv(m')
  BY <1>10, <1>12 DEF MgrInv
<1>14. Changed(m, m', {Inline(j), Data(j)})
  <2>1. Changed(m, m', {Data(j)} \cup {Inline(j), Data(j)})
    BY <1>11, <1>12, <1>13, ChangedTrans
  <2> QED
    BY <2>1, ChangedMore
<1>15. HasKey(m', Inline(j)) =>
         OpIs(m', Inline(j), "write") \/ \E q \in pend' : q.dir = j /\ q.idata # 0
  <2> SUFFICES ASSUME HasKey(m', Inline(j)), ~OpIs(m', Inline(j), "write")
               PROVE  \E q \in pend' : q.dir = j /\ q.idata # 0
    OBVIOUS
  <2>1. p.idata = 0
    BY <1>12
  <2>2. Changed(m, m', {Data(j)})
    <3>1. Changed(m, m', {Data(j)} \cup {Data(j)})
      BY <1>11, <1>12, <1>13, <2>1, ChangedTrans
    <3> QED
      BY <3>1, ChangedMore
  <2>3. Inline(j) \notin {Data(j)}
    BY <1>8
  <2>4. HasKey(m, Inline(j)) /\ ~OpIs(m, Inline(j), "write")
    BY <1>3, <1>13, <2>2, <2>3, KeptUse
  <2>5. PICK q \in pend : q.dir = j /\ q.idata # 0
    BY <1>3, <1>7, <2>4 DEF KeysInv
  <2> QED
    BY <1>6, <2>1, <2>5
<1>16. KeysInv(m', jobs, pend') /\ NidsInv(m', jobs, nids)
  <2>1. \A q \in pend : q.dir # j => q \in pend'
    BY <1>6 DEF j
  <2> QED
    BY <1>3, <1>7, <1>12, <1>13, <1>14, <1>15, <2>1, OldJobStep
<1>17. NidsInv(m', jobs, nids')
  <2>1. Nid(s3, j).inode = j /\ PlacedAt(m', Inode(Nid(s3, j).inode), Nid(s3, j).addr)
    BY <1>7, <1>11, <1>12, <1>13, NidPlaced
  <2>2. Nid(s3, c).inode = c /\ PlacedAt(m', Inode(Nid(s3, c).inode), Nid(s3, c).addr)
    BY <1>7, <1>11, <1>12, <1>13, NidPlaced
  <2> QED
    BY <1>6, <1>7, <1>16, <2>1, <2>2 DEF NidsInv
<1>18. \A q \in pend' : q.dir \in 1..jobs /\ q.idata \in Nat
  BY <1>3, <1>6
<1> QED
  BY <1>2, <1>12, <1>16, <1>17, <1>18, InvUse DEF LayoutInv, Phases

(* The end of the build preserves the invariant. *)
LEMMA StepBuildDone ==
  ASSUME LayoutInv, BuildDone
  PROVE  LayoutInv'
<1>1. /\ phase = "build" /\ phase' = "blobs" /\ pend = {} /\ plan' = plan /\ junk' = junk
      /\ m' = m /\ jobs' = jobs /\ pend' = pend /\ nids' = nids
  BY DEF BuildDone
<1>2. phase \in Building
  BY <1>1 DEF Building
<1> QED
  BY <1>1, <1>2 DEF LayoutInv, Phases, Building

(* Everything is mapped, and a bh written and dropped. *)
LEMMA DropMapped ==
  ASSUME NEW s, NEW st, NEW jk, MgrInv(s, st, jk), NEW t, t = MapBb(s, HEAD),
         NEW key \in KeySet, HasKey(s, key), NEW w, NEW r, r = WriteAndDrop(t, w, key)
  PROVE  /\ MgrInv(r.m, st, jk) /\ Changed(s, r.m, {key}) /\ ~HasKey(r.m, key)
         /\ w \subseteq r.w
<1>1. MgrInv(t, st, jk) /\ OnlyMapped(s, t) /\ PrefixAt(t, Len(t.list))
  BY MapAllInv
<1>2. TypeInv(t)
  BY <1>1 DEF MgrInv
<1>3. Changed(s, t, {})
  BY <1>1, ChangedNone DEF OnlyMapped
<1>4. PICK i, n : At(t, key, i, n)
  BY <1>3 DEF Changed, HasKey
<1>5. Placed(t, key)
  <2>1. On(t, i)
    BY <1>4 DEF At
  <2>2. PICK p \in 1..Len(t.list) : t.list[p] = i
    BY <1>2, <2>1, ListUse
  <2>3. p <= Len(t.list)
    BY <1>2, ListUse
  <2>4. Mapped(t, i)
    BY <1>1, <2>2, <2>3 DEF PrefixAt
  <2> QED
    BY <1>4, <2>4 DEF Placed
<1>6. /\ MgrInv(r.m, st, jk) /\ Changed(t, r.m, {key}) /\ ~HasKey(r.m, key)
      /\ w \subseteq r.w
  BY <1>1, <1>5, WriteAndDropInv
<1>7. Changed(s, r.m, {} \cup {key})
  BY <1>2, <1>3, <1>6, ChangedTrans
<1> QED
  BY <1>6, <1>7, ChangedMore

(* Writing the device table or the blobs preserves the invariant. *)
LEMMA StepDumpBlobs ==
  ASSUME LayoutInv, DumpBlobs
  PROVE  LayoutInv'
<1>1. phase = "blobs" /\ phase \in Building /\ pend = {}
  BY DEF DumpBlobs, Building, LayoutInv
<1>2. /\ phase' = "flush" /\ plan' = plan /\ junk' = junk /\ jobs' = jobs /\ pend' = pend
      /\ nids' = nids
  BY DEF DumpBlobs
<1>3. /\ KeysInv(m, jobs, pend) /\ NidsInv(m, jobs, nids) /\ jobs \in Nat
      /\ MgrInv(m, plan.start, junk) /\ TypeInv(m) /\ plan.blobs \subseteq Nat
  BY <1>1, InvUse
<1>4. HasBh(m, Devt) <=> HasKey(m, Devt)
  BY <1>3, HasBhIs
<1>5. /\ MgrInv(m', plan.start, junk) /\ ~HasKey(m', Devt)
      /\ KeysInv(m', jobs, pend) /\ NidsInv(m', jobs, nids)
  <2>1. CASE HasKey(m, Devt)
    <3> DEFINE s == MapBb(m, HEAD)
               r == WriteAndDrop(s, written, Devt)
    <3>1. m' = r.m
      BY <1>4, <2>1 DEF DumpBlobs
    <3>2. Devt \in KeySet /\ Devt # Xattr /\ Devt # Blob
      BY KeysDiffer
    <3>3. MgrInv(r.m, plan.start, junk) /\ Changed(m, r.m, {Devt}) /\ ~HasKey(r.m, Devt)
      BY <1>3, <2>1, <3>2, DropMapped
    <3> HIDE DEF r
    <3>4. ~HasKey(m', Xattr) /\ ~HasKey(m', Blob)
      BY <1>3, <3>1, <3>2, <3>3, NoneElse DEF Changed
    <3>5. TypeInv(m') /\ {Devt} \subseteq {Sb, Devt, Xattr, Blob}
      BY <3>1, <3>3 DEF MgrInv
    <3>6. KeysInv(m', jobs, pend) /\ NidsInv(m', jobs, nids)
      BY <1>3, <3>1, <3>3, <3>4, <3>5, OtherStep
    <3> QED
      BY <3>1, <3>3, <3>6
  <2>2. CASE ~HasKey(m, Devt)
    <3>1. PICK size \in plan.blobs :
            IF size = 0 THEN UNCHANGED <<m, written>>
            ELSE \E s \in AllocMap(m, "DATA", size, Blob) :
                 \E r \in {WriteAndDrop(s, written, Blob)} : m' = r.m /\ written' = r.w
      BY <1>4, <2>2 DEF DumpBlobs
    <3>2. CASE size = 0
      BY <1>3, <2>2, <3>1, <3>2
    <3>3. CASE size # 0
      <4>1. PICK s \in AllocMap(m, "DATA", size, Blob) : m' = WriteAndDrop(s, written, Blob).m
        BY <3>1, <3>3
      <4>2. "DATA" \in Whats /\ size \in Nat
        BY <1>3 DEF Whats
      <4> QED
        BY <1>3, <2>2, <4>1, <4>2, TableStep
    <3> QED
      BY <3>2, <3>3
  <2> QED
    BY <2>1, <2>2
<1> QED
  BY <1>1, <1>2, <1>5, InvUse DEF LayoutInv, Phases

(* The flush before the super block preserves the invariant and writes     *)
(* every inode, those with a nid where it says.                            *)
LEMMA StepFlushAll ==
  ASSUME LayoutInv, FlushAll
  PROVE  LayoutInv'
<1>1. phase = "flush" /\ phase \in Building /\ pend = {} /\ ~HasKey(m, Devt)
  BY DEF FlushAll, Building, LayoutInv
<1>2. /\ phase' = "writesb" /\ plan' = plan /\ junk' = junk /\ jobs' = jobs /\ pend' = pend
      /\ nids' = nids /\ m' = Bflush(m) /\ written' = written \cup Flushed(m, m')
  BY DEF FlushAll
<1>3. /\ KeysInv(m, jobs, pend) /\ NidsInv(m, jobs, nids) /\ jobs \in Nat
      /\ MgrInv(m, plan.start, junk) /\ TypeInv(m)
  BY <1>1, InvUse
<1>4. /\ MgrInv(m', plan.start, junk)
      /\ \A key : HasKey(m', key) => HasKey(m, key) /\ ~OpIs(m, key, "write")
  BY <1>2, <1>3, FlushLeaves
<1>5. \A key : HasKey(m', key) => key = Sb
  <2> SUFFICES ASSUME NEW key, HasKey(m', key), key # Sb
               PROVE  FALSE
    OBVIOUS
  <2>1. HasKey(m, key) /\ ~OpIs(m, key, "write")
    BY <1>4
  <2>2. key # Devt
    BY <1>1, <2>1
  <2>3. PICK j \in 1..jobs : key \in {Inode(j), Inline(j)}
    BY <1>3, <2>1, <2>2 DEF KeysInv
  <2>4. CASE key = Inode(j)
    BY <1>3, <2>1, <2>4 DEF KeysInv
  <2>5. CASE key = Inline(j)
    BY <1>1, <1>3, <2>1, <2>5 DEF KeysInv
  <2> QED
    BY <2>3, <2>4, <2>5
<1>6. \A j \in 1..jobs : /\ \E x \in written' : x.key = Inode(j)
                         /\ \A addr : PlacedAt(m, Inode(j), addr) =>
                              \E x \in written' : x.key = Inode(j) /\ x.lo = addr
  <2> TAKE j \in 1..jobs
  <2>1. j \in Nat
    BY <1>3
  <2>2. Inode(j) \in KeySet
    BY <2>1, KeysDiffer
  <2>3. OpIs(m, Inode(j), "write")
    BY <1>3 DEF KeysInv
  <2>4. /\ \E x \in Flushed(m, m') : x.key = Inode(j)
        /\ \A addr : PlacedAt(m, Inode(j), addr) =>
              \E x \in Flushed(m, m') : x.key = Inode(j) /\ x.lo = addr
    BY <1>2, <1>3, <2>2, <2>3, FlushWrites
  <2> QED
    BY <1>2, <2>4
<1>7. AllWritten'
  BY <1>2, <1>3, <1>6 DEF AllWritten, NidsInv
<1> QED
  BY <1>1, <1>2, <1>4, <1>5, <1>7, InvUse DEF LayoutInv, Phases, Building

(* Writing the super block preserves the invariant and leaves nothing on   *)
(* the list.                                                               *)
LEMMA StepWriteSb ==
  ASSUME LayoutInv, WriteSb
  PROVE  LayoutInv'
<1>1. /\ phase = "writesb" /\ AllWritten /\ \A key : HasKey(m, key) => key = Sb
  BY DEF WriteSb, LayoutInv
<1>2. /\ phase' = "done" /\ plan' = plan /\ junk' = junk /\ jobs' = jobs /\ pend' = pend
      /\ nids' = nids
  BY DEF WriteSb
<1>3. MgrInv(m, plan.start, junk)
  BY InvUse
<1> DEFINE s == MapBb(m, HEAD)
           r == IF HasBh(s, Sb) THEN WriteAndDrop(s, written, Sb)
                ELSE [m |-> s, w |-> written]
<1>4. m' = Bflush(r.m) /\ written' = r.w \cup Flushed(r.m, m')
  BY DEF WriteSb
<1>5. MgrInv(s, plan.start, junk) /\ Changed(m, s, {}) /\ TypeInv(s)
  BY <1>3, MapAllInv, ChangedNone DEF OnlyMapped, MgrInv
<1>6. HasBh(s, Sb) <=> HasKey(m, Sb)
  BY <1>5, HasBhIs DEF Changed
<1>7. /\ MgrInv(r.m, plan.start, junk) /\ written \subseteq r.w
      /\ \A key : ~HasKey(r.m, key)
  <2>1. CASE HasKey(m, Sb)
    <3>1. r = WriteAndDrop(s, written, Sb)
      BY <1>6, <2>1
    <3>2. Sb \in KeySet
      BY KeysDiffer
    <3> HIDE DEF r
    <3>3. /\ MgrInv(r.m, plan.start, junk) /\ Changed(m, r.m, {Sb}) /\ ~HasKey(r.m, Sb)
          /\ written \subseteq r.w
      BY <1>3, <2>1, <3>1, <3>2, DropMapped
    <3> QED
      BY <1>1, <3>3 DEF Changed
  <2>2. CASE ~HasKey(m, Sb)
    <3>1. r.m = s /\ r.w = written
      BY <1>6, <2>2
    <3>2. \A key : ~HasKey(s, key)
      BY <1>1, <1>5, <2>2 DEF Changed
    <3> QED
      BY <1>5, <3>1, <3>2
  <2> QED
    BY <2>1, <2>2
<1> HIDE DEF s, r
<1>8. MgrInv(m', plan.start, junk) /\ m'.list = << >>
  BY <1>4, <1>7, FlushLeaves
<1>9. AllWritten'
  <2>1. written \subseteq written'
    BY <1>4, <1>7
  <2> QED
    BY <1>1, <1>2, <2>1 DEF AllWritten
<1> QED
  BY <1>2, <1>8, <1>9, InvUse DEF LayoutInv, Phases, Building

(* Every step preserves the inductive invariant. *)
LEMMA NextLayout ==
  ASSUME LayoutInv, [Next]_vars
  PROVE  LayoutInv'
<1>1. CASE UNCHANGED vars
  BY <1>1 DEF LayoutInv, AllWritten, vars
<1>2. CASE Next
  BY <1>2, StepReserveSb, StepInitDevices, StepSharedXattrs, StepFileJob, StepDirJob,
     StepDirBhJob, StepBuildDone, StepDumpBlobs, StepFlushAll, StepWriteSb DEF Next
<1> QED
  BY <1>1, <1>2

(* The inductive invariant holds in every state of a build of an image. *)
THEOREM LayoutInvariant == Spec => []LayoutInv
<1>1. Init => LayoutInv
  BY InitLayout
<1>2. LayoutInv /\ [Next]_vars => LayoutInv'
  BY NextLayout
<1> QED
  BY <1>1, <1>2, PTL DEF Spec
-----------------------------------------------------------------------------
(* The properties *)

(* The list order of the invariant is the property's. *)
LEMMA PrefixMapped ==
  ASSUME TypeInv(m), PrefixInv(m)
  PROVE  MappedPrefix
<1>1. PICK k \in Nat : PrefixAt(m, k)
  BY DEF PrefixInv
<1>2. m.list \in Seq(Nat) /\ k \in 0..Len(m.list)
  BY <1>1, TypeUse DEF PrefixAt
<1> DEFINE last == IF m.last_mapped = HEAD THEN 0 ELSE PosOf(m, m.last_mapped)
<1>3. last = k
  <2>1. CASE k = 0
    BY <1>1, <2>1 DEF PrefixAt
  <2>2. CASE k # 0
    <3>1. k \in 1..Len(m.list)
      BY <1>2, <2>2
    <3>2. m.last_mapped = m.list[k] /\ m.list[k] \in 1..m.nr
      BY <1>1, <2>2, <3>1 DEF PrefixAt, TypeInv
    <3>3. m.last_mapped # HEAD
      BY <3>2 DEF HEAD
    <3>4. PosOf(m, m.list[k]) = k
      BY <3>1, PosIs
    <3> QED
      BY <3>2, <3>3, <3>4
  <2> QED
    BY <2>1, <2>2
<1> HIDE DEF last
<1>4. ASSUME NEW p \in 1..Len(m.list)
      PROVE  /\ (m.bb[m.list[p]].blkaddr # NULL_ADDR) <=> (p <= last)
             /\ p > 1 /\ m.bb[m.list[p]].blkaddr # NULL_ADDR =>
                  EndBlk(m, m.list[p - 1]) <= m.bb[m.list[p]].blkaddr
  <2>1. /\ Mapped(m, m.list[p]) <=> p <= k
        /\ 1 < p /\ p <= k => EndBlk(m, m.list[p - 1]) <= m.bb[m.list[p]].blkaddr
    BY <1>1 DEF PrefixAt
  <2> QED
    BY <1>2, <1>3, <2>1 DEF Mapped
<1> QED
  BY <1>4 DEF MappedPrefix, last

(* The buckets of the invariant are the property's. *)
LEMMA BucketsAre ==
  ASSUME TypeInv(m), BucketInv(m)
  PROVE  BucketsExact
<1> SUFFICES ASSUME NEW t \in {"DATA", "META"}, NEW o \in 0..(BlkSize - 1)
             PROVE  /\ IsInjective(m.buckets[t][o])
                    /\ Range(m.buckets[t][o]) =
                         {id \in Ids(m) : /\ m.bb[id].type = t /\ m.bb[id].blkaddr # NULL_ADDR
                                          /\ m.bb[id].off % BlkSize = o}
  BY DEF BucketsExact
<1>1. t \in Types /\ o \in Levels
  BY DEF Types, Levels
<1> DEFINE q == m.buckets[t][o]
<1>2. q \in Seq(Nat) /\ Once(q) /\ m.list \in Seq(Nat)
  <2>1. m.buckets \in [Types -> [Levels -> Seq(Nat)]] /\ m.list \in Seq(Nat)
    BY TypeUse
  <2>2. m.buckets[t] \in [Levels -> Seq(Nat)]
    BY <1>1, <2>1
  <2> QED
    BY <1>1, <2>1, <2>2 DEF TypeInv
<1>3. \A y : Has(q, y) <=> /\ On(m, y) /\ Mapped(m, y)
                           /\ m.bb[y].type = t /\ m.bb[y].off % BlkSize = o
  BY <1>1 DEF BucketInv
<1> HIDE DEF q
<1>4. IsInjective(q)
  BY <1>2 DEF IsInjective, Once
<1>5. \A y : y \in Range(q) <=> Has(q, y)
  BY <1>2 DEF Range, Has
<1>6. \A y : y \in Ids(m) <=> On(m, y)
  BY <1>2 DEF Range, Has, Ids, On
<1>7. Range(q) = {id \in Ids(m) : /\ m.bb[id].type = t /\ m.bb[id].blkaddr # NULL_ADDR
                                  /\ m.bb[id].off % BlkSize = o}
  BY <1>3, <1>5, <1>6 DEF Mapped
<1> QED
  BY <1>4, <1>7 DEF q

(* The blocks of a bb. *)
LEMMA BlocksAre ==
  ASSUME TypeInv(m), NEW i \in 1..m.nr
  PROVE  BlocksOf(i) = {b \in Nat : Holds(m, i, b)}
<1>1. /\ Mapped(m, i) => m.bb[i].blkaddr \in Nat /\ EndBlk(m, i) \in Nat
  BY EndUse
<1>2. CASE Mapped(m, i)
  <2> DEFINE a == m.bb[i].blkaddr  e == EndBlk(m, i)
  <2>1. a \in Nat /\ e \in Nat
    BY <1>1, <1>2
  <2>2. BlocksOf(i) = a..(e - 1)
    BY <1>2 DEF BlocksOf, Mapped
  <2>3. \A b \in Nat : Holds(m, i, b) <=> a <= b /\ b < e
    BY <1>2 DEF Holds
  <2> HIDE DEF a, e
  <2> QED
    BY <2>1, <2>2, <2>3
<1>3. CASE ~Mapped(m, i)
  <2>1. BlocksOf(i) = {}
    BY <1>3 DEF BlocksOf, Mapped
  <2> QED
    BY <1>3, <2>1 DEF Holds
<1> QED
  BY <1>2, <1>3

(* The tiling of the invariant is the property's. *)
LEMMA TilingIs ==
  ASSUME TypeInv(m), TileInv(m, plan.start), MetaInv(m, junk),
         phase = "done" => m.list = << >>
  PROVE  BlocksTiled
<1>1. \A i \in 1..m.nr : BlocksOf(i) = {b \in Nat : Holds(m, i, b)}
  BY BlocksAre
<1>2. /\ m.nr \in Nat /\ plan.start \in Nat /\ m.tail_blkaddr \in Nat
      /\ m.metablkcnt \in Nat
  BY TypeUse DEF TileInv
<1>3. \A i, k \in 1..m.nr : i # k => BlocksOf(i) \cap BlocksOf(k) = {}
  BY <1>1 DEF TileInv
<1>4. UNION {BlocksOf(id) : id \in 1..m.nr} = plan.start..(m.tail_blkaddr - 1)
  <2> DEFINE all == UNION {BlocksOf(id) : id \in 1..m.nr}
  <2>1. \A b : b \in all <=> \E i \in 1..m.nr : b \in BlocksOf(i)
    OBVIOUS
  <2>2. \A b : b \in all <=> b \in Nat /\ \E i \in 1..m.nr : Holds(m, i, b)
    BY <1>1, <2>1
  <2>3. \A b : b \in plan.start..(m.tail_blkaddr - 1) <=>
               b \in Nat /\ plan.start <= b /\ b < m.tail_blkaddr
    BY <1>2
  <2> HIDE DEF all
  <2>4. \A b : b \in all <=> b \in plan.start..(m.tail_blkaddr - 1)
    BY <2>2, <2>3 DEF TileInv
  <2> QED
    BY <2>4 DEF all
<1>5. ASSUME phase = "done"
      PROVE  m.metablkcnt - junk =
               Cardinality(UNION {BlocksOf(id) : id \in {i \in 1..m.nr : m.bb[i].type = "META"}})
  <2> DEFINE meta == UNION {BlocksOf(id) : id \in {i \in 1..m.nr : m.bb[i].type = "META"}}
  <2>1. \A b : b \in meta <=> \E i \in 1..m.nr : m.bb[i].type = "META" /\ b \in BlocksOf(i)
    OBVIOUS
  <2>2. \A i : ~On(m, i)
    BY <1>5 DEF On, Has
  <2>3. \A b : b \in meta <=> b \in Gone(m)
    BY <1>1, <2>1, <2>2 DEF Gone
  <2>4. meta = Gone(m)
    BY <2>3
  <2> HIDE DEF meta
  <2>5. m.metablkcnt = junk + Cardinality(meta) /\ junk \in Nat
    BY <2>4 DEF MetaInv
  <2>6. Cardinality(meta) \in Nat
    <3> DEFINE a == plan.start  e == m.tail_blkaddr - 1
    <3>0. a \in Int /\ e \in Int
      BY <1>2
    <3>1. IsFiniteSet(a..e)
      <4> HIDE DEF a, e
      <4> QED
        BY <3>0, FS_Interval
    <3>2. meta \subseteq plan.start..(m.tail_blkaddr - 1)
      BY <1>4, <2>1 DEF meta
    <3> QED
      BY <3>1, <3>2, FS_Subset, FS_CardinalityType
  <2> QED
    BY <1>2, <2>5, <2>6 DEF meta
<1> QED
  BY <1>3, <1>4, <1>5 DEF BlocksTiled

(* The inductive invariant implies the three properties. *)
LEMMA InvImplies == LayoutInv => ListExact /\ BlocksTiled /\ NidsHold
<1> SUFFICES ASSUME LayoutInv
             PROVE  ListExact /\ BlocksTiled /\ NidsHold
  OBVIOUS
<1>1. MgrInv(m, plan.start, junk) /\ (phase = "done" => m.list = << >>)
  BY DEF LayoutInv
<1>2. /\ TypeInv(m) /\ PrefixInv(m) /\ BucketInv(m)
      /\ TileInv(m, plan.start) /\ MetaInv(m, junk) /\ ~m.bug
  BY <1>1 DEF MgrInv
<1>3. ListExact
  BY <1>2, PrefixMapped, BucketsAre DEF ListExact
<1>4. BlocksTiled
  BY <1>1, <1>2, TilingIs
<1>5. NidsHold
  BY DEF LayoutInv, NidsHold, AllWritten
<1> QED
  BY <1>3, <1>4, <1>5

(* For every plan, block size and slot size: the mapped bbs are the first  *)
(* of the list with ascending addresses and last_mapped the last of them,  *)
(* the buckets hold exactly the mapped bbs under their type and fill       *)
(* level, no DBG_BUGON of lib/cache.c fires, and every call the callers    *)
(* rely on succeeds.                                                       *)
THEOREM ListStaysExact == Spec => []ListExact
BY LayoutInvariant, InvImplies, PTL

(* For every plan: no block of the image is in two bbs and none is lost,   *)
(* when a bb grows, is dropped or is revoked, and erofs_total_metablocks   *)
(* is what malloc left in the counter plus the blocks without data.        *)
THEOREM TilingHolds == Spec => []BlocksTiled
BY LayoutInvariant, InvImplies, PTL

(* For every plan: at the end every inode is written, where each nid taken *)
(* of it says, and no bb is left on the list.                              *)
THEOREM NidsStayValid == Spec => []NidsHold
BY LayoutInvariant, InvImplies, PTL
-----------------------------------------------------------------------------
(* What is written *)

(* Extent x is in what was spent of bb i; and everything in w is somewhere *)
(* like that, no two of them over each other.                              *)
Base(s, i) == s.bb[i].blkaddr * BlkSize
Beside(x, y) == x.hi <= y.lo \/ y.hi <= x.lo
WroteIn(s, x, i) == Mapped(s, i) /\ Spent(s, i, x.lo - Base(s, i), x.hi - Base(s, i))
                    /\ x.lo \in Nat /\ x.hi \in Nat
WroteInv(s, w) ==
  /\ \A x \in w : \E i \in 1..s.nr : WroteIn(s, x, i)
  /\ \A x, y \in w : x # y => Beside(x, y)

(* Where a mapped bb starts. *)
LEMMA BaseIs ==
  ASSUME NEW s, TypeInv(s), NEW i \in 1..s.nr, Mapped(s, i)
  PROVE  Base(s, i) \in Nat
<1>1. s.bb[i].blkaddr \in Nat /\ BlkSize \in Nat
  BY EndUse, BlkPos
<1> QED
  BY <1>1 DEF Base

(* What was written stays where it is, clear of the bhs. *)
LEMMA WroteKept ==
  ASSUME NEW s, NEW t, TypeInv(s), TypeInv(t), SpaceDone(s, t), NEW w, WroteInv(s, w)
  PROVE  /\ WroteInv(t, w)
         /\ \A x \in w, i \in 1..s.nr : WroteIn(s, x, i) => WroteIn(t, x, i)
<1>1. s.nr \in Nat /\ t.nr \in Nat /\ s.nr <= t.nr
  BY TypeUse DEF SpaceDone, SpentKept
<1>2. ASSUME NEW x \in w, NEW i \in 1..s.nr, WroteIn(s, x, i)
      PROVE  WroteIn(t, x, i) /\ i \in 1..t.nr
  <2>1. SpentStays(s, t, i)
    BY <1>2 DEF SpaceDone, SpentKept, WroteIn
  <2>2. /\ Mapped(t, i) /\ t.bb[i].blkaddr = s.bb[i].blkaddr
        /\ Spent(t, i, x.lo - Base(s, i), x.hi - Base(s, i))
    BY <1>2, <2>1 DEF SpentStays, WroteIn
  <2>3. Base(t, i) = Base(s, i)
    BY <2>2 DEF Base
  <2> QED
    BY <1>1, <1>2, <2>2, <2>3 DEF WroteIn
<1>3. \A x \in w : \E i \in 1..t.nr : WroteIn(t, x, i)
  BY <1>2 DEF WroteInv
<1> QED
  BY <1>2, <1>3 DEF WroteInv

(* The units lo to hi of bb i are in blocks it holds. *)
LEMMA InBlocks ==
  ASSUME NEW s, TypeInv(s), NEW i \in 1..s.nr, Mapped(s, i), NEW lo, NEW hi, Spent(s, i, lo, hi)
  PROVE  /\ s.bb[i].blkaddr \in Nat /\ EndBlk(s, i) \in Nat
         /\ s.bb[i].blkaddr < EndBlk(s, i)
         /\ Base(s, i) + hi <= EndBlk(s, i) * BlkSize
<1> DEFINE a == s.bb[i].blkaddr
           o == s.bb[i].off
           R == BlkRoundUp(o)
<1>1. a \in Nat /\ EndBlk(s, i) \in Nat /\ o \in Nat /\ BlkSize \in Nat \ {0}
  BY EndUse, BlkPos
<1>2. lo \in Nat /\ hi \in Nat /\ lo < hi /\ hi <= o
  BY DEF Spent
<1>3. R \in Nat /\ o <= R * BlkSize /\ EndBlk(s, i) = a + R
  <2>1. EndBlk(s, i) = a + R
    BY DEF EndBlk
  <2> HIDE DEF o
  <2> QED
    BY <1>1, <2>1, BlkRoundUpIs
<1> HIDE DEF a, o, R
<1>4. R # 0
  <2>1. R = 0 => R * BlkSize = 0
    BY <1>1
  <2> QED
    BY <1>1, <1>2, <1>3, <2>1
<1>5. (a + R) * BlkSize = a * BlkSize + R * BlkSize /\ a * BlkSize \in Nat /\ R * BlkSize \in Nat
  BY <1>1, <1>3
<1>6. a * BlkSize + hi <= (a + R) * BlkSize
  BY <1>1, <1>2, <1>3, <1>5
<1>7. a < a + R
  BY <1>1, <1>3, <1>4
<1> QED
  BY <1>1, <1>3, <1>6, <1>7 DEF a, Base

(* What is in different bbs does not overlap. *)
LEMMA BbsBeside ==
  ASSUME NEW s, TypeInv(s), NEW st, TileInv(s, st), NEW x, NEW y,
         NEW i \in 1..s.nr, NEW k \in 1..s.nr, i # k, WroteIn(s, x, i), WroteIn(s, y, k)
  PROVE  Beside(x, y)
<1> DEFINE a == s.bb[i].blkaddr
           c == s.bb[k].blkaddr
           e == EndBlk(s, i)
           f == EndBlk(s, k)
<1>1. /\ Mapped(s, i) /\ Spent(s, i, x.lo - Base(s, i), x.hi - Base(s, i))
      /\ Mapped(s, k) /\ Spent(s, k, y.lo - Base(s, k), y.hi - Base(s, k))
      /\ x.lo \in Nat /\ x.hi \in Nat /\ y.lo \in Nat /\ y.hi \in Nat
  BY DEF WroteIn
<1>2. /\ a \in Nat /\ e \in Nat /\ a < e
      /\ Base(s, i) + (x.hi - Base(s, i)) <= e * BlkSize
  BY <1>1, InBlocks
<1>3. /\ c \in Nat /\ f \in Nat /\ c < f
      /\ Base(s, k) + (y.hi - Base(s, k)) <= f * BlkSize
  BY <1>1, InBlocks
<1>4. /\ Base(s, i) \in Nat /\ Base(s, k) \in Nat /\ BlkSize \in Nat
      /\ Base(s, i) = a * BlkSize /\ Base(s, k) = c * BlkSize
  BY <1>1, BaseIs, BlkPos DEF Base
<1>5. x.lo - Base(s, i) \in Nat /\ y.lo - Base(s, k) \in Nat
  BY <1>1 DEF Spent
<1>6. ~(c < e /\ a < f)
  <2> SUFFICES ASSUME c < e, a < f PROVE FALSE
    OBVIOUS
  <2>1. CASE a <= c
    <3>1. Holds(s, i, c) /\ Holds(s, k, c)
      BY <1>1, <1>2, <1>3, <2>1 DEF Holds
    <3> QED
      BY <1>3, <3>1 DEF TileInv
  <2>2. CASE ~(a <= c)
    <3>1. Holds(s, i, a) /\ Holds(s, k, a)
      BY <1>1, <1>2, <1>3, <2>2 DEF Holds
    <3> QED
      BY <1>2, <3>1 DEF TileInv
  <2> QED
    BY <2>1, <2>2
<1> HIDE DEF a, c, e, f
<1>7. CASE e <= c
  <2>1. e * BlkSize <= c * BlkSize /\ e * BlkSize \in Nat
    BY <1>2, <1>3, <1>4, <1>7
  <2> QED
    BY <1>1, <1>2, <1>4, <1>5, <2>1 DEF Beside
<1>8. CASE f <= a
  <2>1. f * BlkSize <= a * BlkSize /\ f * BlkSize \in Nat
    BY <1>2, <1>3, <1>4, <1>8
  <2> QED
    BY <1>1, <1>3, <1>4, <1>5, <2>1 DEF Beside
<1> QED
  BY <1>2, <1>3, <1>6, <1>7, <1>8

(* Everything written is in the image. *)
LEMMA WroteInImage ==
  ASSUME NEW s, TypeInv(s), NEW st, TileInv(s, st), NEW w, WroteInv(s, w), NEW x \in w
  PROVE  x.hi <= s.tail_blkaddr * BlkSize
<1>1. PICK i \in 1..s.nr : WroteIn(s, x, i)
  BY DEF WroteInv
<1> DEFINE a == s.bb[i].blkaddr
           e == EndBlk(s, i)
<1>2. /\ Mapped(s, i) /\ Spent(s, i, x.lo - Base(s, i), x.hi - Base(s, i))
      /\ x.lo \in Nat /\ x.hi \in Nat
  BY <1>1 DEF WroteIn
<1>3. /\ a \in Nat /\ e \in Nat /\ a < e
      /\ Base(s, i) + (x.hi - Base(s, i)) <= e * BlkSize
  BY <1>2, InBlocks
<1>4. Base(s, i) \in Nat /\ BlkSize \in Nat /\ s.tail_blkaddr \in Nat
  BY <1>2, BaseIs, BlkPos, TypeUse
<1>5. Holds(s, i, e - 1) /\ e - 1 \in Nat
  BY <1>2, <1>3 DEF Holds
<1>6. e - 1 < s.tail_blkaddr
  BY <1>5 DEF TileInv
<1> HIDE DEF e
<1>7. e * BlkSize <= s.tail_blkaddr * BlkSize /\ e * BlkSize \in Nat
      /\ s.tail_blkaddr * BlkSize \in Nat
  <2>1. e <= s.tail_blkaddr
    BY <1>3, <1>4, <1>6
  <2> QED
    BY <1>3, <1>4, <2>1
<1> QED
  BY <1>2, <1>3, <1>4, <1>7

(* Extent x is that of bh n of bb i of s, at the address the bb has in t,  *)
(* where the bh is gone.                                                   *)
FromBh(s, t, x, i, n) ==
  /\ On(s, i) /\ n \in 1..Len(s.bb[i].bhs) /\ s.bb[i].bhs[n].len # 0
  /\ Mapped(t, i)
  /\ Spent(t, i, s.bb[i].bhs[n].off, s.bb[i].bhs[n].off + s.bb[i].bhs[n].len)
  /\ x = [key |-> s.bb[i].bhs[n].key,
          lo |-> Base(t, i) + s.bb[i].bhs[n].off,
          hi |-> Base(t, i) + s.bb[i].bhs[n].off + s.bb[i].bhs[n].len]

(* The extent of a bh that is gone lies in its bb. *)
LEMMA FromBhIn ==
  ASSUME NEW s, NEW t, TypeInv(s), TypeInv(t), s.nr <= t.nr, NEW x, NEW i, NEW n,
         FromBh(s, t, x, i, n)
  PROVE  /\ i \in 1..s.nr /\ i \in 1..t.nr /\ WroteIn(t, x, i) /\ Base(t, i) \in Nat
         /\ s.bb[i].bhs[n] \in BhSet
         /\ x.lo = Base(t, i) + s.bb[i].bhs[n].off
         /\ x.hi = Base(t, i) + s.bb[i].bhs[n].off + s.bb[i].bhs[n].len
<1> DEFINE h == s.bb[i].bhs[n]
           b == Base(t, i)
<1>1. i \in 1..s.nr /\ s.nr \in Nat /\ t.nr \in Nat /\ h \in BhSet
  <2>1. i \in 1..s.nr
    BY TypeUse DEF FromBh
  <2>2. s.bb[i].bhs \in Seq(BhSet)
    BY <2>1, TypeUse, BlockUse
  <2> QED
    BY <2>1, <2>2, TypeUse DEF FromBh
<1>2. h.off \in Nat /\ h.len \in Nat
  BY <1>1 DEF BhSet
<1>3. i \in 1..t.nr
  BY <1>1
<1>4. Mapped(t, i) /\ b \in Nat
  BY <1>3, BaseIs DEF FromBh
<1>5. Spent(t, i, h.off, h.off + h.len) /\ x = [key |-> h.key, lo |-> b + h.off, hi |-> b + h.off + h.len]
  BY DEF FromBh
<1> HIDE DEF h, b
<1>6. x.lo = b + h.off /\ x.hi = b + h.off + h.len
  BY <1>5
<1>7. x.lo \in Nat /\ x.hi \in Nat /\ x.lo - b = h.off /\ x.hi - b = h.off + h.len
  BY <1>2, <1>4, <1>6
<1>8. WroteIn(t, x, i)
  BY <1>4, <1>5, <1>7 DEF WroteIn, b
<1> QED
  BY <1>1, <1>3, <1>4, <1>6, <1>8 DEF h, b

(* What the bhs that are gone held is beside everything written before: in *)
(* another bb, or in the same bb clear of it.                              *)
LEMMA AddWrites ==
  ASSUME NEW s, NEW t, TypeInv(s), TypeInv(t), NEW st, TileInv(t, st), FitInv(s),
         SpaceDone(s, t), NEW w, WroteInv(s, w),
         NEW e, \A x \in e : \E i, n : FromBh(s, t, x, i, n)
  PROVE  WroteInv(t, w \cup e)
<1>1. WroteInv(t, w) /\ \A x \in w, i \in 1..s.nr : WroteIn(s, x, i) => WroteIn(t, x, i)
  BY WroteKept
<1>2. s.nr <= t.nr /\ s.nr \in Nat /\ t.nr \in Nat
  BY TypeUse DEF SpaceDone, SpentKept
<1>3. ASSUME NEW x \in e, NEW y \in w
      PROVE  Beside(x, y) /\ Beside(y, x)
  <2>1. PICK i, n : FromBh(s, t, x, i, n)
    OBVIOUS
  <2>2. PICK k \in 1..s.nr : WroteIn(s, y, k)
    BY DEF WroteInv
  <2>3. WroteIn(t, y, k) /\ k \in 1..t.nr
    BY <1>1, <1>2, <2>2
  <2> DEFINE h == s.bb[i].bhs[n]
             b == Base(t, i)
  <2>4. /\ i \in 1..s.nr /\ i \in 1..t.nr /\ WroteIn(t, x, i) /\ b \in Nat
        /\ h \in BhSet
        /\ x.lo = b + h.off /\ x.hi = b + h.off + h.len
    BY <1>2, <2>1, FromBhIn
  <2>5. CASE i # k
    BY <2>3, <2>4, <2>5, BbsBeside DEF Beside
  <2>6. CASE i = k
    <3>1. On(s, i) /\ n \in 1..Len(s.bb[i].bhs)
      BY <2>1 DEF FromBh
    <3>2. Mapped(s, i) /\ Spent(s, i, y.lo - Base(s, i), y.hi - Base(s, i))
      BY <2>2, <2>6 DEF WroteIn
    <3>3. SpentStays(s, t, i)
      BY <2>4, <3>2 DEF SpaceDone, SpentKept
    <3>4. t.bb[i].blkaddr = s.bb[i].blkaddr
      BY <3>2, <3>3 DEF SpentStays
    <3>5. Base(s, i) = b
      BY <3>4 DEF Base
    <3>6. Clear(s.bb[i].bhs, y.lo - b, y.hi - b)
      BY <3>1, <3>2, <3>5 DEF Spent
    <3>7. y.hi - b <= h.off \/ h.off + h.len <= y.lo - b
      BY <3>1, <3>6 DEF Clear
    <3>8. h.off \in Nat /\ h.len \in Nat /\ y.lo \in Nat /\ y.hi \in Nat
      BY <2>2, <2>4 DEF BhSet, WroteIn
    <3> HIDE DEF h, b
    <3> QED
      BY <2>4, <3>7, <3>8 DEF Beside
  <2> QED
    BY <2>5, <2>6
<1>4. ASSUME NEW x \in e, NEW y \in e, x # y
      PROVE  Beside(x, y)
  <2>1. PICK i, n : FromBh(s, t, x, i, n)
    OBVIOUS
  <2>2. PICK k, l : FromBh(s, t, y, k, l)
    OBVIOUS
  <2> DEFINE h == s.bb[i].bhs[n]
             g == s.bb[k].bhs[l]
             b == Base(t, i)
  <2>3. /\ i \in 1..s.nr /\ i \in 1..t.nr /\ WroteIn(t, x, i) /\ b \in Nat
        /\ h \in BhSet
        /\ x.lo = b + h.off /\ x.hi = b + h.off + h.len
    BY <1>2, <2>1, FromBhIn
  <2>4. /\ k \in 1..t.nr /\ WroteIn(t, y, k) /\ g \in BhSet
        /\ y.lo = Base(t, k) + g.off /\ y.hi = Base(t, k) + g.off + g.len
    BY <1>2, <2>2, FromBhIn
  <2>5. CASE i # k
    BY <2>3, <2>4, <2>5, BbsBeside
  <2>6. CASE i = k
    <3>1. n # l
      BY <1>4, <2>1, <2>2, <2>6 DEF FromBh
    <3>2. On(s, i) /\ n \in 1..Len(s.bb[i].bhs) /\ l \in 1..Len(s.bb[i].bhs)
      BY <2>1, <2>2, <2>6 DEF FromBh
    <3>3. FitsIn(s.bb[i].bhs, s.bb[i].off)
      BY <3>2 DEF FitInv
    <3>4. Apart(h, g)
      BY <2>6, <3>1, <3>2, <3>3 DEF FitsIn
    <3>5. h.off \in Nat /\ h.len \in Nat /\ g.off \in Nat /\ g.len \in Nat
      BY <2>3, <2>4 DEF BhSet
    <3>6. y.lo = b + g.off /\ y.hi = b + g.off + g.len
      BY <2>4, <2>6
    <3> HIDE DEF h, g, b
    <3> QED
      BY <2>3, <3>4, <3>5, <3>6 DEF Beside, Apart
  <2> QED
    BY <2>5, <2>6
<1>5. ASSUME NEW x \in e
      PROVE  \E i \in 1..t.nr : WroteIn(t, x, i)
  BY <1>2, FromBhIn
<1>6. \A x \in w \cup e : \E i \in 1..t.nr : WroteIn(t, x, i)
  BY <1>1, <1>5 DEF WroteInv
<1>7. \A x, y \in w \cup e : x # y => Beside(x, y)
  BY <1>1, <1>3, <1>4 DEF WroteInv
<1> QED
  BY <1>6, <1>7 DEF WroteInv

(* From s to t, e is written; none of it is an inode or inline data. *)
Tails == {"inode", "inline"}
Writes(s, t, e) ==
  /\ SpaceDone(s, t)
  /\ \A w : WroteInv(s, w) => WroteInv(t, w \cup e)
  /\ \A x \in e : x.key[1] \notin Tails

(* What is in r.w, and was not in w, is written from s to r.m. *)
AddsTo(s, w, r) == \E e : r.w = w \cup e /\ Writes(s, r.m, e)

(* A step that writes nothing. *)
LEMMA WritesNone ==
  ASSUME NEW s, NEW t, TypeInv(s), TypeInv(t), SpaceDone(s, t)
  PROVE  Writes(s, t, {})
<1>1. ASSUME NEW w, WroteInv(s, w)
      PROVE  WroteInv(t, w \cup {})
  <2>1. w \cup {} = w
    OBVIOUS
  <2>2. WroteInv(t, w)
    BY <1>1, WroteKept
  <2> QED
    BY <2>1, <2>2
<1> QED
  BY <1>1 DEF Writes

(* Composing writes. *)
LEMMA WritesTrans ==
  ASSUME NEW s, NEW t, NEW u, TypeInv(s), TypeInv(t), TypeInv(u), NEW e, NEW f,
         Writes(s, t, e), Writes(t, u, f)
  PROVE  Writes(s, u, e \cup f) /\ FitInv(u)
<1>1. SpaceDone(s, u) /\ FitInv(u)
  <2>1. SpaceDone(s, t) /\ SpaceDone(t, u)
    BY DEF Writes
  <2> QED
    BY <2>1, SpaceTrans DEF SpaceDone
<1>2. ASSUME NEW w, WroteInv(s, w)
      PROVE  WroteInv(u, w \cup (e \cup f))
  <2>1. WroteInv(t, w \cup e)
    BY <1>2 DEF Writes
  <2>2. WroteInv(u, (w \cup e) \cup f)
    BY <2>1 DEF Writes
  <2>3. (w \cup e) \cup f = w \cup (e \cup f)
    OBVIOUS
  <2> QED
    BY <2>2, <2>3
<1>3. \A x \in e \cup f : x.key[1] \notin Tails
  BY DEF Writes
<1> QED
  BY <1>1, <1>2, <1>3 DEF Writes

(* The extent of a bh that is dropped. *)
LEMMA ExtentFrom ==
  ASSUME NEW s, NEW t, TypeInv(s), TypeInv(t), KeyInv(s), KeyInv(t), FitInv(s),
         NEW key \in KeySet, NEW i, NEW n, At(s, key, i, n), Mapped(s, i),
         DropDone(s, t, i, n), NEW x, x = Extent(s, key), x.lo < x.hi
  PROVE  FromBh(s, t, x, i, n) /\ x.key = key
<1>1. BlockOf(s, key) = i /\ BhNr(s, key) = n
  BY BlockIs
<1> DEFINE h == s.bb[i].bhs[n]
           b == Base(s, i)
<1>2. i \in 1..s.nr /\ On(s, i) /\ n \in 1..Len(s.bb[i].bhs) /\ h.key = key
  BY TypeUse DEF At
<1>3. h \in BhSet /\ b \in Nat
  <2>1. s.bb[i].bhs \in Seq(BhSet)
    BY <1>2, TypeUse, BlockUse
  <2> QED
    BY <1>2, <2>1, BaseIs
<1>4. h.off \in Nat /\ h.len \in Nat
  BY <1>3 DEF BhSet
<1>5. Btell(s, key) = b + h.off
  BY <1>1 DEF Btell, Base
<1>6. x = [key |-> key, lo |-> b + h.off, hi |-> b + h.off + h.len]
  BY <1>1, <1>5 DEF Extent
<1>7. h.len # 0
  <2> HIDE DEF b, h
  <2>1. x.lo = b + h.off /\ x.hi = b + h.off + h.len
    BY <1>6
  <2> QED
    BY <1>3, <1>4, <2>1
<1>8. Spent(t, i, h.off, h.off + h.len)
  BY <1>2, <1>7, DropSpace
<1>9. t.bb[i].blkaddr = s.bb[i].blkaddr
  BY <1>2 DEF DropDone
<1>10. Mapped(t, i) /\ Base(t, i) = b
  BY <1>9 DEF Mapped, Base
<1> HIDE DEF b
<1> QED
  BY <1>2, <1>6, <1>7, <1>8, <1>10 DEF FromBh

(* Data written and dropped with erofs_bdrop is added to what is written,  *)
(* beside the rest.                                                        *)
LEMMA WriteAndDropSpace ==
  ASSUME NEW s, NEW st, NEW jk, MgrInv(s, st, jk), FitInv(s), NEW key \in KeySet,
         key[1] \notin Tails, Placed(s, key), NEW w, NEW r, r = WriteAndDrop(s, w, key)
  PROVE  AddsTo(s, w, r)
<1> DEFINE e == {x \in {Extent(s, key)} : x.lo < x.hi}
           t == r.m
<1>1. PICK i, n : At(s, key, i, n) /\ Mapped(s, i)
  BY DEF Placed
<1>2. r.m = Bdrop(s, key, FALSE) /\ r.w = w \cup e
  BY DEF WriteAndDrop
<1> HIDE DEF t
<1>3. MgrInv(t, st, jk) /\ DropDone(s, t, i, n)
  BY <1>1, <1>2, DropInv DEF t
<1>4. TypeInv(s) /\ TypeInv(t) /\ KeyInv(s) /\ KeyInv(t) /\ TileInv(t, st)
  BY <1>3 DEF MgrInv
<1>5. \A x \in e : FromBh(s, t, x, i, n) /\ x.key = key
  BY <1>1, <1>3, <1>4, ExtentFrom
<1> HIDE DEF e
<1>6. SpaceDone(s, t)
  <2>1. On(s, i) /\ n \in 1..Len(s.bb[i].bhs)
    BY <1>1 DEF At
  <2> QED
    BY <1>3, <1>4, <2>1, DropThins
<1>7. ASSUME NEW v, WroteInv(s, v)
      PROVE  WroteInv(t, v \cup e)
  <2>1. \A x \in e : \E k, l : FromBh(s, t, x, k, l)
    BY <1>5
  <2> QED
    BY <1>4, <1>6, <1>7, <2>1, AddWrites
<1>8. Writes(s, t, e)
  BY <1>5, <1>6, <1>7 DEF Writes
<1> QED
  BY <1>2, <1>8 DEF t, AddsTo
-----------------------------------------------------------------------------
(* Inodes and their inline data *)

(* The bh called key, if there is one, is the same part of the same bb. *)
SpotIn(s, t, key) ==
  \A i, n : At(s, key, i, n) => \E l : At(t, key, i, l) /\ SameSpot(t.bb[i].bhs[l], s.bb[i].bhs[n])
SpotStays(s, t, key) == SpotIn(s, t, key) /\ SpotIn(t, s, key)

(* It is not empty; and inline data is right behind its inode, in the      *)
(* block the inode ends in.                                                *)
Sized(s, key) == \A i, n : At(s, key, i, n) => s.bb[i].bhs[n].len # 0
Behind(h, g) == /\ h.off = g.off + g.len
                /\ (h.off % BlkSize) + h.len <= BlkSize
InlineOk(s, j) ==
  \A i, n : At(s, Inline(j), i, n) =>
    \E l : At(s, Inode(j), i, l) /\ Behind(s.bb[i].bhs[n], s.bb[i].bhs[l])

(* A bh stays when nothing happens. *)
LEMMA StaysSelf ==
  ASSUME NEW s, NEW key
  PROVE  SpotStays(s, s, key)
BY DEF SpotStays, SpotIn, SameSpot

(* Staying in place is transitive. *)
LEMMA SpotTrans ==
  ASSUME NEW s, NEW t, NEW u, NEW key, SpotIn(s, t, key), SpotIn(t, u, key)
  PROVE  SpotIn(s, u, key)
<1> SUFFICES ASSUME NEW i, NEW n, At(s, key, i, n)
             PROVE  \E l : At(u, key, i, l) /\ SameSpot(u.bb[i].bhs[l], s.bb[i].bhs[n])
  BY DEF SpotIn
<1>1. PICK k : At(t, key, i, k) /\ SameSpot(t.bb[i].bhs[k], s.bb[i].bhs[n])
  BY DEF SpotIn
<1>2. PICK l : At(u, key, i, l) /\ SameSpot(u.bb[i].bhs[l], t.bb[i].bhs[k])
  BY <1>1 DEF SpotIn
<1> QED
  BY <1>1, <1>2 DEF SameSpot

(* Staying in place, both ways, is transitive. *)
LEMMA StaysTrans ==
  ASSUME NEW s, NEW t, NEW u, NEW key, SpotStays(s, t, key), SpotStays(t, u, key)
  PROVE  SpotStays(s, u, key)
BY SpotTrans DEF SpotStays

(* What an operation on other bhs leaves alone. *)
LEMMA ChangedStays ==
  ASSUME NEW s, NEW t, TypeInv(s), TypeInv(t), KeyInv(t), NEW K, Changed(s, t, K),
         NEW key \in KeySet, key \notin K
  PROVE  SpotStays(s, t, key)
<1>1. Kept(s, t, key) /\ (HasKey(t, key) <=> HasKey(s, key))
  BY DEF Changed
<1>2. ASSUME NEW i, NEW n, At(s, key, i, n)
      PROVE  \E l \in Nat : At(t, key, i, l) /\ t.bb[i].bhs[l] = s.bb[i].bhs[n]
  <2>1. i \in 1..s.nr /\ n \in Nat
    BY <1>2, KeyAt
  <2> QED
    BY <1>1, <1>2, <2>1 DEF Kept
<1>3. SpotIn(s, t, key)
  BY <1>2 DEF SpotIn, SameSpot
<1>4. ASSUME NEW i, NEW n, At(t, key, i, n)
      PROVE  \E l : At(s, key, i, l) /\ SameSpot(s.bb[i].bhs[l], t.bb[i].bhs[n])
  <2>1. HasKey(t, key) /\ i \in 1..t.nr /\ n \in Nat
    BY <1>4, KeyAt
  <2>2. PICK k \in 1..s.nr, c \in Nat : At(s, key, k, c)
    BY <1>1, <2>1 DEF HasKey
  <2>3. PICK l \in Nat : At(t, key, k, l) /\ t.bb[k].bhs[l] = s.bb[k].bhs[c]
    BY <1>2, <2>2
  <2>4. k \in 1..t.nr
    BY <2>3, KeyAt
  <2>5. k = i /\ l = n
    BY <1>4, <2>1, <2>3, <2>4 DEF KeyInv
  <2> QED
    BY <2>2, <2>3, <2>5 DEF SameSpot
<1>5. SpotIn(t, s, key)
  BY <1>4 DEF SpotIn
<1> QED
  BY <1>3, <1>5 DEF SpotStays

(* A bh that stays in place is not empty if it was not. *)
LEMMA SizedKept ==
  ASSUME NEW s, NEW t, NEW key, SpotStays(s, t, key), Sized(s, key)
  PROVE  Sized(t, key)
BY DEF SpotStays, SpotIn, SameSpot, Sized

(* Inline data that stays in place is still behind its inode. *)
LEMMA InlineKept ==
  ASSUME NEW s, NEW t, NEW j, SpotStays(s, t, Inode(j)), SpotStays(s, t, Inline(j)),
         InlineOk(s, j)
  PROVE  InlineOk(t, j)
<1> SUFFICES ASSUME NEW i, NEW n, At(t, Inline(j), i, n)
             PROVE  \E l : At(t, Inode(j), i, l) /\ Behind(t.bb[i].bhs[n], t.bb[i].bhs[l])
  BY DEF InlineOk
<1>1. PICK c : At(s, Inline(j), i, c) /\ SameSpot(s.bb[i].bhs[c], t.bb[i].bhs[n])
  BY DEF SpotStays, SpotIn
<1>2. PICK k : At(s, Inode(j), i, k) /\ Behind(s.bb[i].bhs[c], s.bb[i].bhs[k])
  BY <1>1 DEF InlineOk
<1>3. PICK l : At(t, Inode(j), i, l) /\ SameSpot(t.bb[i].bhs[l], s.bb[i].bhs[k])
  BY <1>2 DEF SpotStays, SpotIn
<1> QED
  BY <1>1, <1>2, <1>3 DEF SameSpot, Behind

(* What is not there is not empty. *)
LEMMA SizedNone ==
  ASSUME NEW s, TypeInv(s), NEW key, ~HasKey(s, key)
  PROVE  Sized(s, key)
BY KeyAt DEF Sized

(* A key names one bh. *)
LEMMA SizedAt ==
  ASSUME NEW s, TypeInv(s), KeyInv(s), NEW key \in KeySet, NEW i, NEW n, At(s, key, i, n),
         s.bb[i].bhs[n].len # 0
  PROVE  Sized(s, key)
<1> SUFFICES ASSUME NEW k, NEW l, At(s, key, k, l)
             PROVE  s.bb[k].bhs[l].len # 0
  BY DEF Sized
<1>1. i \in 1..s.nr /\ n \in Nat /\ k \in 1..s.nr /\ l \in Nat
  BY KeyAt
<1>2. k = i /\ l = n
  BY <1>1 DEF KeyInv
<1> QED
  BY <1>2
-----------------------------------------------------------------------------
(* The calls on the manager, and the space they use *)

(* A successful erofs_balloc uses nothing again. *)
LEMMA AllocSpace ==
  ASSUME NEW s, NEW st, NEW jk, MgrInv(s, st, jk), FitInv(s), NEW what \in Whats,
         NEW size \in Nat, NEW key \in KeySet, ~HasKey(s, key),
         NEW t, t = Must(Balloc(s, what, size, 0, key))
  PROVE  /\ SpaceDone(s, t) /\ MgrInv(t, st, jk)
         /\ \E i : EndsBb(t, key, i, size)
<1> DEFINE r == Balloc(s, what, size, 0, key)
<1>1. ~InlineTooBig(size, 0) /\ 0 \in Nat
  BY NoInlineFits
<1>2. r.err = "ok" /\ MgrInv(r.m, st, jk)
  BY <1>1, BallocInv
<1>3. t = r.m
  BY <1>2, MustIs DEF MgrInv
<1>4. \E i : BallocSpaced(s, r.m, key, i, size, 0)
  BY <1>1, BallocSpace
<1> HIDE DEF r
<1> QED
  BY <1>2, <1>3, <1>4 DEF BallocSpaced

(* Nor does an allocation mapped right away. *)
LEMMA AllocMapSpace ==
  ASSUME NEW s, NEW st, NEW jk, MgrInv(s, st, jk), FitInv(s), NEW what \in Whats,
         NEW size \in Nat, NEW key \in KeySet, ~HasKey(s, key),
         NEW t \in AllocMap(s, what, size, key)
  PROVE  SpaceDone(s, t) /\ FitInv(t) /\ (size # 0 => Sized(t, key))
<1> DEFINE u == Must(Balloc(s, what, size, 0, key))
<1>1. t = Map(u, key)
  BY AllocMapIs
<1>2. SpaceDone(s, u) /\ MgrInv(u, st, jk) /\ \E i : EndsBb(u, key, i, size)
  BY AllocSpace
<1> HIDE DEF u
<1>3. PICK i : EndsBb(u, key, i, size)
  BY <1>2
<1> DEFINE n == Len(u.bb[i].bhs)
<1>4. At(u, key, i, n) /\ u.bb[i].bhs[n].len = size
  BY <1>3 DEF EndsBb, LastBh
<1> HIDE DEF n
<1>5. FitInv(u)
  BY <1>2 DEF SpaceDone
<1>6. SpaceDone(u, t) /\ OnlyMapped(u, t)
  BY <1>1, <1>2, <1>4, <1>5, MapBhSpace
<1>7. MgrInv(t, st, jk) /\ At(t, key, i, n)
  BY <1>1, <1>2, <1>4, MapInv
<1>8. TypeInv(s) /\ TypeInv(u) /\ TypeInv(t) /\ KeyInv(t)
  BY <1>2, <1>7 DEF MgrInv
<1>9. SpaceDone(s, t)
  BY <1>2, <1>6, <1>8, SpaceTrans
<1>10. i \in 1..u.nr
  BY <1>4, <1>8, KeyAt
<1>11. t.bb[i].bhs = u.bb[i].bhs
  BY <1>6, <1>10 DEF OnlyMapped
<1>12. size # 0 => Sized(t, key)
  BY <1>4, <1>7, <1>8, <1>11, SizedAt
<1> QED
  BY <1>9, <1>12 DEF SpaceDone

(* Nor does growing the area at the end of the image. *)
LEMMA BalloonSpaceDone ==
  ASSUME NEW s, NEW st, NEW jk, MgrInv(s, st, jk), FitInv(s), NEW key \in KeySet, NEW off,
         AtEnd(s, key, off), NEW incr \in Nat, NEW t, t = Must(Balloon(s, key, incr))
  PROVE  SpaceDone(s, t)
<1>1. PICK i : Growable(s, key, i, off) /\ Mapped(s, i)
  BY DEF AtEnd
<1> DEFINE r == Balloon(s, key, incr)
<1>2. r.err = "ok" /\ MgrInv(r.m, st, jk)
  BY <1>1, BalloonInv
<1>3. t = r.m
  BY <1>2, MustIs DEF MgrInv
<1>4. SpaceDone(s, r.m)
  BY <1>1, BalloonSpace
<1> QED
  BY <1>3, <1>4

(* Nor does giving up compressed data: nothing was in its bb. *)
LEMMA RevokedSpace ==
  ASSUME NEW s, NEW st, NEW jk, MgrInv(s, st, jk), FitInv(s), NEW j \in Nat,
         ~HasKey(s, Data(j)), NEW t \in Revoked(s, j)
  PROVE  SpaceDone(s, t)
<1> DEFINE key == Data(j)
<1>1. key \in KeySet /\ 0 \in Nat /\ "DATA" \in Whats
  BY KeysDiffer DEF Whats
<1>2. PICK u \in AllocMap(s, "DATA", 0, key) : t = Bdrop(u, key, TRUE)
  BY DEF Revoked
<1> HIDE DEF key
<1>3. MgrInv(u, st, jk) /\ AtEnd(u, key, 0)
  BY <1>1, BlocksInv DEF key
<1>4. SpaceDone(s, u) /\ FitInv(u)
  BY <1>1, AllocMapSpace DEF key
<1>5. PICK i : Growable(u, key, i, 0) /\ Mapped(u, i)
  BY <1>3 DEF AtEnd
<1>6. /\ At(u, key, i, 1) /\ Len(u.bb[i].bhs) = 1 /\ u.bb[i].off = 0
      /\ u.tail_blkaddr = EndBlk(u, i)
  BY <1>5 DEF Growable
<1>7. MgrInv(t, st, jk) /\ RevokeDone(u, t, i)
  BY <1>1, <1>2, <1>3, <1>5, <1>6, RevokeInv
<1>8. TypeInv(s) /\ TypeInv(u) /\ TypeInv(t)
  BY <1>3, <1>7 DEF MgrInv
<1>9. i \in 1..u.nr
  BY <1>6, <1>8, KeyAt
<1>10. SpaceDone(u, t)
  BY <1>4, <1>6, <1>7, <1>8, <1>9, RevokeSpace
<1> QED
  BY <1>4, <1>8, <1>10, SpaceTrans

(* Nor does allocating the data of a file. *)
LEMMA AllocDataSpace ==
  ASSUME NEW s, NEW st, NEW jk, MgrInv(s, st, jk), FitInv(s), NEW j \in Nat,
         ~HasKey(s, Data(j)), NEW what \in {"DATA", "DIRA"}, NEW n \in Nat,
         NEW t \in AllocData(s, j, what, n)
  PROVE  SpaceDone(s, t)
<1>1. CASE n = 0
  <2>1. t = s
    BY <1>1 DEF AllocData
  <2> QED
    BY <2>1, SpaceSelf DEF MgrInv
<1>2. CASE n # 0
  <2>1. t \in AllocMap(s, what, n * BlkSize, Data(j))
    BY <1>2 DEF AllocData
  <2>2. n * BlkSize \in Nat /\ Data(j) \in KeySet /\ what \in Whats
    BY SizeIs, KeysDiffer, AlignIsBlk
  <2> QED
    BY <2>1, <2>2, AllocMapSpace
<1> QED
  BY <1>1, <1>2

(* Setting what a flush does with a bh uses nothing. *)
LEMMA SetOpSpace ==
  ASSUME NEW s, NEW st, NEW jk, MgrInv(s, st, jk), FitInv(s), NEW key \in KeySet,
         HasKey(s, key), NEW op \in {"skip", "write"}, NEW t, t = SetOp(s, key, op)
  PROVE  SpaceDone(s, t) /\ SpotStays(s, t, key)
<1>1. TypeInv(s) /\ KeyInv(s)
  BY DEF MgrInv
<1>2. PICK i \in 1..s.nr, n \in Nat : At(s, key, i, n)
  BY DEF HasKey
<1>3. BlockOf(s, key) = i /\ BhNr(s, key) = n
  BY <1>1, <1>2, BlockIs
<1> DEFINE h == [s.bb[i].bhs[n] EXCEPT !.op = op]
<1>4. t = WithBhs(s, i, [s.bb[i].bhs EXCEPT ![n] = h])
  BY <1>3 DEF SetOp, WithBhs
<1>5. s.bb[i].bhs[n] \in BhSet /\ n \in 1..Len(s.bb[i].bhs) /\ s.bb[i].bhs[n].key = key
  <2>1. s.bb[i].bhs \in Seq(BhSet)
    BY <1>1, TypeUse, BlockUse
  <2> QED
    BY <1>2, <2>1 DEF At
<1>6. h \in BhSet /\ h.key = key /\ SameSpot(h, s.bb[i].bhs[n])
  <2>1. \A g \in BhSet : LET f == [g EXCEPT !.op = op] IN
                         f \in BhSet /\ f.key = g.key /\ f.off = g.off /\ f.len = g.len
    BY DEF BhSet
  <2> QED
    BY <1>5, <2>1 DEF SameSpot
<1> HIDE DEF h
<1>7. /\ MgrInv(t, st, jk) /\ BhsDone(s, t, i, [s.bb[i].bhs EXCEPT ![n] = h])
      /\ At(t, key, i, n) /\ t.bb[i].bhs[n] = h
  BY <1>2, <1>4, <1>6, ChangeInv
<1>8. TypeInv(t) /\ KeyInv(t)
  BY <1>7 DEF MgrInv
<1>9. SpaceDone(s, t)
  BY <1>1, <1>5, <1>6, <1>7, <1>8, MarkSpace
<1>10. SameSpot(t.bb[i].bhs[n], s.bb[i].bhs[n]) /\ SameSpot(s.bb[i].bhs[n], t.bb[i].bhs[n])
  BY <1>6, <1>7 DEF SameSpot
<1>11. \A k, l : At(s, key, k, l) => k = i /\ l = n
  BY <1>1, <1>2, KeyAt DEF KeyInv
<1>12. \A k, l : At(t, key, k, l) => k = i /\ l = n
  BY <1>7, <1>8, KeyAt DEF KeyInv
<1>13. SpotIn(s, t, key) /\ SpotIn(t, s, key)
  BY <1>2, <1>7, <1>10, <1>11, <1>12 DEF SpotIn
<1> QED
  BY <1>9, <1>13 DEF SpotStays

(* Which keys are those of inodes and of inline data. *)
LEMMA KindsDiffer ==
  ASSUME NEW j \in Nat
  PROVE  /\ Data(j)[1] \notin Tails /\ Inode(j)[1] = "inode" /\ Inline(j)[1] = "inline"
         /\ Sb[1] \notin Tails /\ Devt[1] \notin Tails /\ Xattr[1] \notin Tails /\ Blob[1] \notin Tails
BY DEF Data, Inode, Inline, Sb, Devt, Xattr, Blob, Tails

(* Compressed data is written where nothing was written before. *)
LEMMA CompressedWrites ==
  ASSUME NEW s, NEW st, NEW jk, MgrInv(s, st, jk), FitInv(s), NEW j \in Nat,
         ~HasKey(s, Data(j)), NEW n \in Nat, NEW idata, NEW d \in Compressed(s, j, n, idata)
  PROVE  Writes(s, d.m, d.w)
<1> DEFINE key == Data(j)
<1>1. key \in KeySet /\ 0 \in Nat /\ n * BlkSize \in Nat /\ key[1] \notin Tails /\ "DATA" \in Whats
  BY KeysDiffer, SizeIs, KindsDiffer DEF Whats
<1>2. PICK s1 \in AllocMap(s, "DATA", 0, key) :
        d \in {IF idata = 0 THEN WriteAndDrop(s2, {}, key) ELSE [m |-> s2, w |-> {}] :
                 s2 \in {IF n = 0 THEN s1 ELSE Must(Balloon(s1, key, n * BlkSize))}}
  BY DEF Compressed
<1> DEFINE u == IF n = 0 THEN s1 ELSE Must(Balloon(s1, key, n * BlkSize))
<1>3. d = IF idata = 0 THEN WriteAndDrop(u, {}, key) ELSE [m |-> u, w |-> {}]
  BY <1>2
<1> HIDE DEF key
<1>4. /\ MgrInv(s1, st, jk) /\ AtEnd(s1, key, 0)
      /\ SpaceDone(s, s1) /\ FitInv(s1)
  BY <1>1, BlocksInv, AllocMapSpace DEF key
<1>5. MgrInv(u, st, jk) /\ SpaceDone(s, u) /\ \E off : AtEnd(u, key, off)
  <2>1. CASE n = 0
    BY <1>4, <2>1
  <2>2. CASE n # 0
    <3>1. u = Must(Balloon(s1, key, n * BlkSize))
      BY <2>2
    <3> HIDE DEF u
    <3>2. MgrInv(u, st, jk) /\ AtEnd(u, key, 0 + (n * BlkSize))
      BY <1>1, <1>4, <3>1, GrowInv, Zenon
    <3>3. SpaceDone(s1, u)
      BY <1>1, <1>4, <3>1, BalloonSpaceDone, Zenon
    <3>4. SpaceDone(s, u)
      BY <1>4, <3>2, <3>3, SpaceTrans DEF MgrInv
    <3> QED
      BY <3>2, <3>4
  <2> QED
    BY <2>1, <2>2
<1> HIDE DEF u
<1>6. Writes(s, u, {}) /\ FitInv(u) /\ TypeInv(s) /\ TypeInv(u)
  BY <1>5, WritesNone DEF MgrInv, SpaceDone
<1>7. CASE idata = 0
  <2>1. d = WriteAndDrop(u, {}, key)
    BY <1>3, <1>7
  <2>2. Placed(u, key)
    BY <1>5, EndPlaced
  <2>3. MgrInv(d.m, st, jk)
    BY <1>1, <1>5, <2>1, <2>2, WriteAndDropInv
  <2>4. PICK e : d.w = {} \cup e /\ Writes(u, d.m, e)
    BY <1>1, <1>5, <1>6, <2>1, <2>2, WriteAndDropSpace DEF AddsTo
  <2>5. Writes(s, d.m, {} \cup e)
    BY <1>6, <2>3, <2>4, WritesTrans DEF MgrInv
  <2> QED
    BY <2>4, <2>5
<1>8. CASE idata # 0
  <2>1. d.m = u /\ d.w = {}
    BY <1>3, <1>8
  <2> QED
    BY <1>6, <2>1
<1> QED
  BY <1>7, <1>8

(* So is the data of a file, whichever way it is written. *)
LEMMA FileDataWrites ==
  ASSUME NEW s, NEW st, NEW jk, MgrInv(s, st, jk), FitInv(s), NEW j \in Nat,
         ~HasKey(s, Data(j)), NEW n \in Nat, NEW idata,
         NEW how \in {"plain", "compressed", "revoked"},
         NEW d \in FileData(s, j, n, idata, how)
  PROVE  Writes(s, d.m, d.w)
<1>1. CASE how = "plain"
  <2>1. PICK t \in AllocData(s, j, "DATA", n) : d = [m |-> t, w |-> {}]
    BY <1>1 DEF FileData
  <2>2. d.m = t /\ d.w = {}
    BY <2>1
  <2>3. MgrInv(t, st, jk) /\ SpaceDone(s, t)
    BY AllocDataInv, AllocDataSpace
  <2> QED
    BY <2>2, <2>3, WritesNone DEF MgrInv
<1>2. CASE how = "compressed"
  <2>1. d \in Compressed(s, j, n, idata)
    BY <1>2 DEF FileData
  <2> QED
    BY <2>1, CompressedWrites
<1>3. CASE how = "revoked"
  <2>1. PICK u \in Revoked(s, j) :
          \E t \in AllocData(u, j, "DATA", n) : d = [m |-> t, w |-> {}]
    BY <1>3 DEF FileData
  <2>2. PICK t \in AllocData(u, j, "DATA", n) : d.m = t /\ d.w = {}
    BY <2>1
  <2>3. MgrInv(u, st, jk) /\ ~HasKey(u, Data(j)) /\ SpaceDone(s, u)
    BY RevokedInv, RevokedSpace
  <2>4. MgrInv(t, st, jk)
    BY <2>3, AllocDataInv
  <2>5. SpaceDone(u, t)
    BY <2>3, AllocDataSpace DEF SpaceDone
  <2>6. TypeInv(s) /\ TypeInv(u) /\ TypeInv(t)
    BY <2>3, <2>4 DEF MgrInv
  <2>7. SpaceDone(s, t)
    BY <2>3, <2>5, <2>6, SpaceTrans
  <2> QED
    BY <2>2, <2>6, <2>7, WritesNone
<1> QED
  BY <1>1, <1>2, <1>3

(* The bhs of an inode are where they should be. *)
InodeSpots(s, j) == Sized(s, Inode(j)) /\ Sized(s, Inline(j)) /\ InlineOk(s, j)

(* An inode without inline data. *)
LEMMA NoInlineSpots ==
  ASSUME NEW s, TypeInv(s), NEW j, Sized(s, Inode(j)), ~HasKey(s, Inline(j))
  PROVE  InodeSpots(s, j)
BY SizedNone, KeyAt DEF InodeSpots, InlineOk

(* erofs_prepare_inode_buffer without inline data uses nothing again. *)
LEMMA NoInlineSpace ==
  ASSUME NEW s, NEW st, NEW jk, MgrInv(s, st, jk), FitInv(s), NEW j \in Nat,
         ~HasKey(s, Inode(j)), ~HasKey(s, Inline(j)), Ends(s, Data(j)),
         NEW isize \in Nat, isize # 0, NEW idata \in Nat,
         NEW p \in NoInline(s, j, isize, idata)
  PROVE  SpaceDone(s, p.m) /\ InodeSpots(p.m, j)
<1>1. /\ Inode(j) \in KeySet /\ Inline(j) \in KeySet /\ Data(j) \in KeySet
      /\ Inode(j) # Inline(j) /\ Inode(j) # Data(j) /\ Inline(j) # Data(j)
  BY KeysDiffer
<1>2. TypeInv(s)
  BY DEF MgrInv
<1> DEFINE tail == idata > 0 /\ HasBh(s, Data(j))
           s1 == IF tail THEN TailBlock(s, j) ELSE s
           t == Must(Balloc(s1, "INODE", isize, 0, Inode(j)))
<1>3. p.m = t
  <2>1. p = [m |-> t, lazy |-> idata > 0 /\ ~tail]
    BY DEF NoInline, Alloc
  <2> QED
    BY <2>1
<1>4. MgrInv(s1, st, jk) /\ Changed(s, s1, {Data(j)}) /\ SpaceDone(s, s1)
  <2>1. CASE tail
    <3>1. PICK off : AtEnd(s, Data(j), off)
      BY <1>2, <2>1, HasBhIs DEF Ends
    <3>2. s1 = Must(Balloon(s, Data(j), BlkSize)) /\ BlkSize \in Nat
      BY <2>1, BlkPos DEF TailBlock
    <3> HIDE DEF s1
    <3>3. MgrInv(s1, st, jk) /\ Changed(s, s1, {Data(j)})
      BY <1>1, <3>1, <3>2, GrowInv
    <3>4. SpaceDone(s, s1)
      BY <1>1, <3>1, <3>2, BalloonSpaceDone
    <3> QED
      BY <3>3, <3>4
  <2>2. CASE ~tail
    <3>1. s1 = s
      BY <2>2
    <3>2. Changed(s, s, {Data(j)}) /\ SpaceDone(s, s)
      BY <1>2, ChangedSelf, ChangedMore, SpaceSelf
    <3> QED
      BY <3>1, <3>2
  <2> QED
    BY <2>1, <2>2
<1> HIDE DEF s1
<1>5. ~HasKey(s1, Inode(j)) /\ FitInv(s1) /\ "INODE" \in Whats
  BY <1>1, <1>4 DEF Changed, SpaceDone, Whats
<1>6. SpaceDone(s1, t) /\ MgrInv(t, st, jk) /\ \E i : EndsBb(t, Inode(j), i, isize)
  BY <1>1, <1>4, <1>5, AllocSpace
<1>7. TypeInv(s1) /\ TypeInv(t) /\ KeyInv(t)
  BY <1>4, <1>6 DEF MgrInv
<1> HIDE DEF t
<1>8. Sized(t, Inode(j))
  BY <1>1, <1>6, <1>7, SizedAt DEF EndsBb, LastBh
<1>9. ~HasKey(t, Inline(j))
  <2>1. "INODE" \in Whats /\ 0 \in Nat /\ ~InlineTooBig(isize, 0)
    BY NoInlineFits DEF Whats
  <2> DEFINE r == Balloc(s1, "INODE", isize, 0, Inode(j))
  <2>2. /\ r.err = "ok" /\ MgrInv(r.m, st, jk)
        /\ \E i : AddDone(s1, r.m, Inode(j), i, 0)
    BY <1>1, <1>4, <1>5, <2>1, BallocInv
  <2>3. t = r.m
    BY <2>2, MustIs DEF MgrInv, t
  <2> HIDE DEF r
  <2>4. Changed(s1, t, {Inode(j)})
    BY <2>2, <2>3 DEF AddDone
  <2> QED
    BY <1>1, <1>4, <2>4 DEF Changed
<1>10. SpaceDone(s, t)
  BY <1>2, <1>4, <1>6, <1>7, SpaceTrans
<1> QED
  BY <1>3, <1>7, <1>8, <1>9, <1>10, NoInlineSpots

(* With inline data, it is right behind the inode and in the block the     *)
(* inode ends in.                                                          *)
LEMMA WithInlineSpace ==
  ASSUME NEW s, NEW st, NEW jk, MgrInv(s, st, jk), FitInv(s), NEW j \in Nat,
         ~HasKey(s, Inode(j)), ~HasKey(s, Inline(j)),
         NEW isize \in Nat, isize # 0, NEW idata \in Nat, ~InlineTooBig(isize, idata),
         NEW r, r = Balloc(s, "INODE", isize, idata, Inode(j)),
         NEW p \in WithInline(Must(r), j, idata)
  PROVE  SpaceDone(s, p.m) /\ InodeSpots(p.m, j)
<1>1. /\ Inode(j) \in KeySet /\ Inline(j) \in KeySet /\ "INODE" \in Whats
      /\ Inode(j) # Inline(j)
  BY KeysDiffer DEF Whats
<1>2. /\ r.err = "ok" /\ MgrInv(r.m, st, jk)
      /\ \E i : AddDone(s, r.m, Inode(j), i, idata)
  BY <1>1, BallocInv
<1>3. \E i : BallocSpaced(s, r.m, Inode(j), i, isize, idata)
  BY <1>1, BallocSpace
<1> DEFINE u == r.m
<1>4. Must(r) = u
  BY <1>2, MustIs DEF MgrInv
<1> DEFINE a == Battach(u, Inode(j), "META", idata, Inline(j))
<1>5. p.m = IF idata = 0 THEN u ELSE Must(a)
  BY <1>4 DEF WithInline
<1>6. MgrInv(u, st, jk) /\ TypeInv(s) /\ TypeInv(u) /\ KeyInv(u)
  BY <1>2 DEF MgrInv
<1> HIDE DEF u
<1>7. PICK i : AddDone(s, u, Inode(j), i, idata)
  BY <1>2 DEF u
<1>8. PICK k : BallocSpaced(s, u, Inode(j), k, isize, idata)
  BY <1>3 DEF u
<1> DEFINE n == Len(u.bb[i].bhs)
<1>9. Changed(s, u, {Inode(j)}) /\ LastOf(u, Inode(j), i, idata) /\ At(u, Inode(j), i, n)
  BY <1>7 DEF AddDone, LastOf
<1>10. SpaceDone(s, u) /\ FitInv(u) /\ EndsBb(u, Inode(j), k, isize)
       /\ (u.bb[k].off % BlkSize) + idata <= BlkSize
  BY <1>8 DEF BallocSpaced, SpaceDone
<1>11. k = i
  <2>1. At(u, Inode(j), k, Len(u.bb[k].bhs))
    BY <1>10 DEF EndsBb
  <2>2. k \in 1..u.nr /\ Len(u.bb[k].bhs) \in Nat /\ i \in 1..u.nr /\ n \in Nat
    BY <1>6, <1>9, <2>1, KeyAt
  <2> QED
    BY <1>1, <1>6, <1>9, <2>1, <2>2 DEF KeyInv
<1>12. /\ u.bb[i].bhs[n].len = isize /\ u.bb[i].bhs[n].off + isize = u.bb[i].off
       /\ (u.bb[i].off % BlkSize) + idata <= BlkSize
  BY <1>10, <1>11 DEF EndsBb, LastBh
<1> HIDE DEF n
<1>13. Sized(u, Inode(j)) /\ ~HasKey(u, Inline(j))
  BY <1>1, <1>6, <1>9, <1>12, SizedAt DEF Changed
<1>14. CASE idata = 0
  <2>1. p.m = u
    BY <1>5, <1>14
  <2> QED
    BY <1>6, <1>10, <1>13, <2>1, NoInlineSpots
<1>15. CASE idata # 0
  <2> DEFINE t == a.m
             c == Len(t.bb[i].bhs)
  <2>1. /\ a.err = "ok" /\ MgrInv(a.m, st, jk) /\ AddDone(u, a.m, Inline(j), i, 0)
    BY <1>1, <1>6, <1>9, <1>13, BattachInv
  <2>2. /\ SpaceDone(u, a.m) /\ EndsBb(a.m, Inline(j), i, idata)
        /\ LastBh(a.m, i).off = u.bb[i].off
    BY <1>1, <1>6, <1>9, <1>10, <1>13, BattachSpace
  <2>3. p.m = t
    BY <1>5, <1>15, <2>1, MustIs DEF MgrInv
  <2> HIDE DEF a
  <2>4. /\ At(t, Inline(j), i, c) /\ t.bb[i].bhs[c].len = idata
        /\ t.bb[i].bhs[c].off = u.bb[i].off
    BY <2>2 DEF EndsBb, LastBh
  <2>5. Changed(u, t, {Inline(j)})
    BY <2>1 DEF AddDone
  <2>6. TypeInv(t) /\ KeyInv(t)
    BY <2>1 DEF MgrInv
  <2>7. SpaceDone(s, t)
    BY <1>6, <1>10, <2>2, <2>6, SpaceTrans
  <2> HIDE DEF t, c
  <2>8. SpotStays(u, t, Inode(j))
    BY <1>1, <1>6, <2>5, <2>6, ChangedStays
  <2>9. Sized(t, Inode(j)) /\ Sized(t, Inline(j))
    BY <1>1, <1>13, <1>15, <2>4, <2>6, <2>8, SizedKept, SizedAt
  <2>10. PICK l : At(t, Inode(j), i, l) /\ SameSpot(t.bb[i].bhs[l], u.bb[i].bhs[n])
    BY <1>9, <2>8 DEF SpotStays, SpotIn
  <2>11. Behind(t.bb[i].bhs[c], t.bb[i].bhs[l])
    BY <1>12, <2>4, <2>10 DEF SameSpot, Behind
  <2>12. InlineOk(t, j)
    <3> SUFFICES ASSUME NEW y, NEW z, At(t, Inline(j), y, z)
                 PROVE  \E x : At(t, Inode(j), y, x) /\ Behind(t.bb[y].bhs[z], t.bb[y].bhs[x])
      BY DEF InlineOk
    <3>1. y \in 1..t.nr /\ z \in Nat /\ i \in 1..t.nr /\ c \in Nat
      BY <2>4, <2>6, KeyAt
    <3>2. y = i /\ z = c
      BY <1>1, <2>4, <2>6, <3>1 DEF KeyInv
    <3> QED
      BY <2>10, <2>11, <3>2
  <2> QED
    BY <2>3, <2>7, <2>9, <2>12 DEF InodeSpots
<1> QED
  BY <1>14, <1>15

(* An inode and its inline data that stay in place. *)
LEMMA SpotsKept ==
  ASSUME NEW s, NEW t, NEW j, SpotStays(s, t, Inode(j)), SpotStays(s, t, Inline(j)),
         InodeSpots(s, j)
  PROVE  InodeSpots(t, j)
BY SizedKept, InlineKept DEF InodeSpots

(* erofs_prepare_inode_buffer uses nothing again, and puts inline data     *)
(* where its inode expects it.                                             *)
LEMMA PrepareInodeSpace ==
  ASSUME NEW s, NEW st, NEW jk, MgrInv(s, st, jk), FitInv(s), NEW j \in Nat,
         ~HasKey(s, Inode(j)), ~HasKey(s, Inline(j)), Ends(s, Data(j)),
         NEW isize \in Nat, isize # 0, NEW idata \in Nat, NEW inlinable,
         NEW p \in PrepareInode(s, j, isize, idata, inlinable)
  PROVE  SpaceDone(s, p.m) /\ FitInv(p.m) /\ InodeSpots(p.m, j)
<1>1. Inode(j) \in KeySet /\ Inline(j) \in KeySet /\ Inode(j) # Inline(j)
  BY KeysDiffer
<1> DEFINE r == Balloc(s, "INODE", isize, idata, Inode(j))
<1>2. PICK q : /\ p = [q EXCEPT !.m = SetOp(@, Inode(j), "write")]
               /\ \/ q \in NoInline(s, j, isize, idata)
                  \/ r.err # "ENOSPC" /\ q \in WithInline(Must(r), j, idata)
  <2>1. PICK q : /\ p = [q EXCEPT !.m = SetOp(@, Inode(j), "write")]
                 /\ q \in IF ~inlinable \/ r.err = "ENOSPC"
                          THEN NoInline(s, j, isize, idata)
                          ELSE UNION {WithInline(s1, j, idata) : s1 \in {Must(r)}}
    BY Zenon DEF PrepareInode
  <2>2. CASE ~inlinable \/ r.err = "ENOSPC"
    BY <2>1, <2>2
  <2>3. CASE ~(~inlinable \/ r.err = "ENOSPC")
    BY <2>1, <2>3, Zenon
  <2> QED
    BY <2>2, <2>3
<1>3. /\ MgrInv(q.m, st, jk) /\ InodeDone(s, q, j, idata)
      /\ SpaceDone(s, q.m) /\ InodeSpots(q.m, j)
  <2>1. CASE q \in NoInline(s, j, isize, idata)
    BY <2>1, NoInlineInv, NoInlineSpace
  <2>2. CASE r.err # "ENOSPC" /\ q \in WithInline(Must(r), j, idata)
    <3>1. InlineTooBig(isize, idata) => r = Fail(s, "ENOSPC")
      BY DEF Balloc
    <3>2. ~InlineTooBig(isize, idata)
      BY <2>2, <3>1 DEF Fail
    <3> HIDE DEF r
    <3>3. r = Balloc(s, "INODE", isize, idata, Inode(j))
      BY DEF r
    <3> QED
      BY <2>2, <3>2, <3>3, WithInlineInv, WithInlineSpace
  <2> QED
    BY <1>2, <2>1, <2>2
<1>4. p.m = SetOp(q.m, Inode(j), "write")
  <2>1. CASE q \in NoInline(s, j, isize, idata)
    BY <1>2, <2>1, ShapeIs
  <2>2. CASE q \in WithInline(Must(r), j, idata)
    BY <1>2, <2>2, ShapeIs
  <2> QED
    BY <1>2, <2>1, <2>2
<1> HIDE DEF r
<1>5. HasKey(q.m, Inode(j)) /\ FitInv(q.m)
  BY <1>3 DEF InodeDone, SpaceDone
<1>6. MgrInv(p.m, st, jk) /\ Changed(q.m, p.m, {Inode(j)})
  BY <1>1, <1>3, <1>4, <1>5, SetOpInv
<1>7. SpaceDone(q.m, p.m) /\ SpotStays(q.m, p.m, Inode(j))
  BY <1>1, <1>3, <1>4, <1>5, SetOpSpace
<1>8. TypeInv(s) /\ TypeInv(q.m) /\ TypeInv(p.m) /\ KeyInv(p.m)
  BY <1>3, <1>6 DEF MgrInv
<1>9. SpaceDone(s, p.m)
  BY <1>3, <1>7, <1>8, SpaceTrans
<1>10. Inline(j) \notin {Inode(j)}
  BY <1>1
<1>11. SpotStays(q.m, p.m, Inline(j))
  BY <1>1, <1>6, <1>8, <1>10, ChangedStays
<1>12. InodeSpots(p.m, j)
  BY <1>3, <1>7, <1>11, SpotsKept
<1> QED
  BY <1>9, <1>12 DEF SpaceDone

(* erofs_write_tail_end puts the tail where nothing was written. *)
LEMMA PlaceTailSpace ==
  ASSUME NEW s, NEW st, NEW jk, MgrInv(s, st, jk), FitInv(s), NEW j \in Nat,
         NEW idata \in Nat, NEW lazy, lazy => Ends(s, Data(j)),
         NEW t \in PlaceTail(s, j, idata, lazy), MgrInv(t, st, jk)
  PROVE  SpaceDone(s, t) /\ SpotStays(s, t, Inline(j))
<1>1. /\ Inline(j) \in KeySet /\ Data(j) \in KeySet /\ Inline(j) # Data(j)
      /\ Inline(j) \notin {Data(j)}
  BY KeysDiffer
<1>2. TypeInv(s) /\ TypeInv(t) /\ KeyInv(t) /\ BlkSize \in Nat /\ "DATA" \in Whats
  BY BlkPos DEF MgrInv, Whats
<1>3. /\ HasBh(s, Inline(j)) <=> HasKey(s, Inline(j))
      /\ HasBh(s, Data(j)) <=> HasKey(s, Data(j))
  BY <1>2, HasBhIs
<1>4. SpaceDone(s, s) /\ SpotStays(s, s, Inline(j))
  BY <1>2, SpaceSelf, StaysSelf
<1>5. CASE idata = 0
  <2>1. t = s
    BY <1>5 DEF PlaceTail
  <2> QED
    BY <1>4, <2>1
<1>6. CASE idata > 0 /\ HasKey(s, Inline(j))
  <2>1. t = SetOp(s, Inline(j), "write")
    BY <1>3, <1>6 DEF PlaceTail
  <2> QED
    BY <1>1, <1>6, <2>1, SetOpSpace
<1>7. CASE idata > 0 /\ ~HasKey(s, Inline(j)) /\ ~HasKey(s, Data(j))
  <2>1. t \in AllocMap(s, "DATA", BlkSize, Data(j))
    BY <1>3, <1>7 DEF PlaceTail
  <2>2. Changed(s, t, {Data(j)})
    BY <1>1, <1>2, <1>7, <2>1, BlocksInv
  <2>3. SpaceDone(s, t)
    BY <1>1, <1>2, <1>7, <2>1, AllocMapSpace
  <2> QED
    BY <1>1, <1>2, <2>2, <2>3, ChangedStays
<1>8. CASE idata > 0 /\ ~HasKey(s, Inline(j)) /\ HasKey(s, Data(j))
  <2>1. t = IF lazy THEN TailBlock(s, j) ELSE s
    BY <1>3, <1>8 DEF PlaceTail
  <2>2. CASE ~lazy
    BY <1>4, <2>1, <2>2
  <2>3. CASE lazy
    <3>1. PICK off : AtEnd(s, Data(j), off)
      BY <1>8, <2>3 DEF Ends
    <3>2. t = Must(Balloon(s, Data(j), BlkSize))
      BY <2>1, <2>3 DEF TailBlock
    <3>3. Changed(s, t, {Data(j)})
      BY <1>1, <1>2, <3>1, <3>2, GrowInv
    <3>4. SpaceDone(s, t)
      BY <1>1, <1>2, <3>1, <3>2, BalloonSpaceDone
    <3> QED
      BY <1>1, <1>2, <3>3, <3>4, ChangedStays
  <2> QED
    BY <2>2, <2>3
<1> QED
  BY <1>5, <1>6, <1>7, <1>8

(* Writing the tail, and dropping the data, writes nothing twice and       *)
(* leaves the inode where it is.                                           *)
LEMMA WriteTailEndWrites ==
  ASSUME NEW s, NEW st, NEW jk, MgrInv(s, st, jk), FitInv(s), NEW j \in Nat,
         NEW idata \in Nat, NEW lazy, HasKey(s, Data(j)) => Placed(s, Data(j)),
         lazy => Ends(s, Data(j)), NEW w, NEW r \in WriteTailEnd(s, w, j, idata, lazy)
  PROVE  /\ AddsTo(s, w, r)
         /\ SpotStays(s, r.m, Inode(j)) /\ SpotStays(s, r.m, Inline(j))
<1>1. /\ Inline(j) \in KeySet /\ Data(j) \in KeySet /\ Inline(j) # Data(j)
      /\ Inode(j) \in KeySet /\ Inode(j) \notin {Inline(j), Data(j)}
      /\ Data(j)[1] \notin Tails /\ Inline(j) \notin {Data(j)}
  BY KeysDiffer, KindsDiffer
<1>2. PICK t \in PlaceTail(s, j, idata, lazy) :
        r = IF HasBh(t, Data(j)) THEN WriteAndDrop(t, w, Data(j)) ELSE [m |-> t, w |-> w]
  BY DEF WriteTailEnd
<1>3. MgrInv(t, st, jk) /\ (HasKey(t, Data(j)) => Placed(t, Data(j)))
  BY PlaceTailInv
<1>4. MgrInv(r.m, st, jk) /\ Changed(s, r.m, {Inline(j), Data(j)})
  BY WriteTailEndInv
<1>5. SpaceDone(s, t) /\ FitInv(t) /\ SpotStays(s, t, Inline(j))
  BY <1>3, PlaceTailSpace DEF SpaceDone
<1>6. TypeInv(s) /\ TypeInv(t) /\ TypeInv(r.m) /\ KeyInv(r.m)
  BY <1>3, <1>4 DEF MgrInv
<1>7. HasBh(t, Data(j)) <=> HasKey(t, Data(j))
  BY <1>6, HasBhIs
<1>8. Writes(s, t, {})
  BY <1>5, <1>6, WritesNone
<1>9. SpotStays(s, r.m, Inode(j))
  BY <1>1, <1>4, <1>6, ChangedStays
<1>10. CASE HasKey(t, Data(j))
  <2>1. r = WriteAndDrop(t, w, Data(j))
    BY <1>2, <1>7, <1>10
  <2>2. Changed(t, r.m, {Data(j)})
    BY <1>1, <1>3, <1>10, <2>1, WriteAndDropInv
  <2>3. PICK e : r.w = w \cup e /\ Writes(t, r.m, e)
    BY <1>1, <1>3, <1>5, <1>10, <2>1, WriteAndDropSpace DEF AddsTo
  <2>4. Writes(s, r.m, {} \cup e)
    BY <1>6, <1>8, <2>3, WritesTrans
  <2>5. {} \cup e = e
    OBVIOUS
  <2>6. SpotStays(t, r.m, Inline(j))
    BY <1>1, <1>6, <2>2, ChangedStays
  <2>7. SpotStays(s, r.m, Inline(j))
    BY <1>5, <2>6, StaysTrans
  <2> QED
    BY <1>9, <2>3, <2>4, <2>5, <2>7 DEF AddsTo
<1>11. CASE ~HasKey(t, Data(j))
  <2>1. r.m = t /\ r.w = w
    BY <1>2, <1>7, <1>11
  <2>2. r.w = w \cup {}
    BY <2>1
  <2> QED
    BY <1>5, <1>8, <1>9, <2>1, <2>2 DEF AddsTo
<1> QED
  BY <1>10, <1>11

(* The data of a directory, and the nids in it. *)
LEMMA DirMappedSpace ==
  ASSUME NEW s, NEW st, NEW jk, MgrInv(s, st, jk), FitInv(s), NEW j \in Nat, NEW c \in Nat,
         ~HasKey(s, Data(j)), HasKey(s, Inode(j)), HasKey(s, Inode(c)),
         NEW n \in Nat, NEW s1 \in AllocData(s, j, "DIRA", n),
         NEW s2, s2 = Map(s1, Inode(j)), NEW s3, s3 = Map(s2, Inode(c))
  PROVE  SpaceDone(s, s3) /\ FitInv(s3)
<1>1. /\ Inode(j) \in KeySet /\ Inode(c) \in KeySet
      /\ Inode(j) \notin {Data(j)} /\ Inode(c) \notin {Data(j)} /\ Inode(c) \notin {}
  BY KeysDiffer
<1>2. MgrInv(s1, st, jk) /\ Changed(s, s1, {Data(j)}) /\ SpaceDone(s, s1)
  BY AllocDataInv, AllocDataSpace
<1>3. HasKey(s1, Inode(j)) /\ HasKey(s1, Inode(c)) /\ FitInv(s1)
  BY <1>1, <1>2 DEF Changed, SpaceDone
<1>4. PICK i, l : At(s1, Inode(j), i, l)
  BY <1>3 DEF HasKey
<1>5. MgrInv(s2, st, jk) /\ Changed(s1, s2, {}) /\ SpaceDone(s1, s2)
  BY <1>1, <1>2, <1>3, <1>4, MapInv, MapBhSpace
<1>6. HasKey(s2, Inode(c)) /\ FitInv(s2)
  BY <1>1, <1>3, <1>5 DEF Changed, SpaceDone
<1>7. PICK k, z : At(s2, Inode(c), k, z)
  BY <1>6 DEF HasKey
<1>8. MgrInv(s3, st, jk) /\ SpaceDone(s2, s3)
  BY <1>1, <1>5, <1>6, <1>7, MapInv, MapBhSpace
<1>9. TypeInv(s) /\ TypeInv(s1) /\ TypeInv(s2) /\ TypeInv(s3)
  BY <1>2, <1>5, <1>8 DEF MgrInv
<1>10. SpaceDone(s, s2)
  BY <1>2, <1>5, <1>9, SpaceTrans
<1>11. SpaceDone(s, s3)
  BY <1>8, <1>9, <1>10, SpaceTrans
<1> QED
  BY <1>11 DEF SpaceDone

(* The super block alone in the image. *)
LEMMA SbSpace ==
  ASSUME NEW t, TypeInv(t), KeyInv(t), SbDone(t)
  PROVE  FitInv(t) /\ Sized(t, Sb)
<1>1. /\ t.nr = 1 /\ Len(t.bb[1].bhs) = 1 /\ At(t, Sb, 1, 1) /\ t.bb[1].off = SbSize
      /\ t.bb[1].bhs[1].off = 0 /\ t.bb[1].bhs[1].len = SbSize
  BY DEF SbDone
<1>2. SbSize \in Nat \ {0} /\ Sb \in KeySet
  BY LayoutAssumption, KeysDiffer
<1>3. ASSUME NEW i, On(t, i)
      PROVE  FitsIn(t.bb[i].bhs, t.bb[i].off)
  <2>1. i = 1
    <3>1. i \in 1..1
      BY <1>1, <1>3, TypeUse
    <3> QED
      BY <3>1
  <2> QED
    BY <1>1, <1>2, <2>1 DEF FitsIn
<1>4. Sized(t, Sb)
  BY <1>1, <1>2, SizedAt
<1> QED
  BY <1>3, <1>4 DEF FitInv
-----------------------------------------------------------------------------
(* What the flush writes *)

(* Each extent is that of a bh that is ready, which is gone then. *)
LEMMA FlushedFrom ==
  ASSUME NEW s, NEW t, TypeInv(s), KeyInv(s), TypeInv(t), FitInv(s), FlushDone(s, t),
         \A key : Sized(s, key), NEW x \in Flushed(s, t)
  PROVE  \E i, n : FromBh(s, t, x, i, n)
<1>1. PICK i \in Ids(s) :
        \E h \in {g \in Range(s.bb[i].bhs) : g.op = "write"} :
          x = [key |-> h.key, lo |-> t.bb[i].blkaddr * BlkSize + h.off,
               hi |-> t.bb[i].blkaddr * BlkSize + h.off + h.len]
  BY DEF Flushed
<1>2. On(s, i)
  <2>1. s.list \in Seq(Nat)
    BY TypeUse
  <2> QED
    BY <1>1, <2>1 DEF Ids, On, Has, Range
<1>3. i \in 1..s.nr /\ s.bb[i].bhs \in Seq(BhSet)
  BY <1>2, TypeUse, BlockUse
<1>4. PICK n \in 1..Len(s.bb[i].bhs) :
        /\ s.bb[i].bhs[n].op = "write"
        /\ x = [key |-> s.bb[i].bhs[n].key,
                lo |-> t.bb[i].blkaddr * BlkSize + s.bb[i].bhs[n].off,
                hi |-> t.bb[i].blkaddr * BlkSize + s.bb[i].bhs[n].off + s.bb[i].bhs[n].len]
  <2>1. PICK h \in Range(s.bb[i].bhs) :
          /\ h.op = "write"
          /\ x = [key |-> h.key, lo |-> t.bb[i].blkaddr * BlkSize + h.off,
                  hi |-> t.bb[i].blkaddr * BlkSize + h.off + h.len]
    BY <1>1
  <2>2. \E n \in 1..Len(s.bb[i].bhs) : h = s.bb[i].bhs[n]
    BY <1>3, <2>1 DEF Range
  <2> QED
    BY <2>1, <2>2
<1> DEFINE h == s.bb[i].bhs[n]
<1>5. h \in BhSet
  BY <1>3
<1>6. h.off \in Nat /\ h.len \in Nat
  BY <1>5 DEF BhSet
<1>7. h.len # 0
  BY <1>2 DEF Sized, At
<1>8. FitsIn(s.bb[i].bhs, s.bb[i].off)
  BY <1>2 DEF FitInv
<1>9. t.bb[i].off = s.bb[i].off /\ Mapped(t, i)
  BY <1>2, <1>3 DEF FlushDone, SameSizes
<1>10. ASSUME On(t, i)
       PROVE  Clear(t.bb[i].bhs, h.off, h.off + h.len)
  <2> SUFFICES ASSUME NEW c \in 1..Len(t.bb[i].bhs)
               PROVE  \/ h.off + h.len <= t.bb[i].bhs[c].off
                      \/ t.bb[i].bhs[c].off + t.bb[i].bhs[c].len <= h.off
    BY DEF Clear
  <2>1. LeftOver(s, t, i)
    BY <1>10 DEF FlushDone
  <2>2. PICK l \in 1..Len(s.bb[i].bhs) : /\ t.bb[i].bhs[c].op = "skip"
                                         /\ t.bb[i].bhs[c] = s.bb[i].bhs[l]
    BY <2>1 DEF LeftOver
  <2>3. l # n
    BY <1>4, <2>2
  <2>4. Apart(h, s.bb[i].bhs[l])
    BY <1>8, <2>3 DEF FitsIn
  <2> QED
    BY <2>2, <2>4 DEF Apart
<1>11. h.off + h.len <= s.bb[i].off
  BY <1>8 DEF FitsIn
<1>12. Spent(t, i, h.off, h.off + h.len)
  <2>1. h.off + h.len \in Nat /\ h.off < h.off + h.len
    <3> HIDE DEF h
    <3> QED
      BY <1>6, <1>7
  <2> QED
    BY <1>6, <1>9, <1>10, <1>11, <2>1 DEF Spent
<1>13. FromBh(s, t, x, i, n)
  BY <1>2, <1>4, <1>7, <1>9, <1>12 DEF FromBh, Base
<1> QED
  BY <1>13

(* Inline data of b units at o of a bb that starts at block a. *)
LEMMA SameBlock ==
  ASSUME NEW a \in Nat, NEW o \in Nat, NEW b \in Nat, b # 0,
         (o % BlkSize) + b <= BlkSize, NEW lo, lo = a * BlkSize + o,
         NEW hi, hi = a * BlkSize + o + b
  PROVE  lo \div BlkSize = (hi - 1) \div BlkSize
<1> DEFINE q == o \div BlkSize
           k == a + q
<1>1. BlkSize \in Nat \ {0}
  BY BlkPos
<1>2. q \in Int /\ q * BlkSize <= o /\ o % BlkSize = o - q * BlkSize
  BY <1>1, DivBounds
<1> HIDE DEF q
<1>3. a * BlkSize \in Int /\ q * BlkSize \in Int /\ k \in Int
      /\ k * BlkSize = a * BlkSize + q * BlkSize
  BY <1>1, <1>2
<1> HIDE DEF k
<1> DEFINE A == a * BlkSize
           Q == q * BlkSize
           X == k * BlkSize
<1>4. A \in Int /\ Q \in Int /\ X = A + Q /\ Q <= o /\ o - Q + b <= BlkSize
  <2>1. A \in Int /\ Q \in Int /\ X = A + Q /\ Q <= o
    BY <1>2, <1>3
  <2>2. o % BlkSize = o - Q /\ (o % BlkSize) + b <= BlkSize
    BY <1>2
  <2> HIDE DEF A, Q, X
  <2> QED
    BY <1>1, <2>1, <2>2
<1>5. lo = A + o /\ hi = A + o + b
  OBVIOUS
<1> HIDE DEF A, Q, X
<1>6. X <= lo /\ lo < X + BlkSize /\ lo \in Int
  BY <1>1, <1>4, <1>5
<1>7. X <= hi - 1 /\ hi - 1 < X + BlkSize /\ hi - 1 \in Int
  BY <1>1, <1>4, <1>5
<1>8. lo \div BlkSize = k
  BY <1>1, <1>3, <1>6, DivUnique DEF X
<1>9. (hi - 1) \div BlkSize = k
  BY <1>1, <1>3, <1>7, DivUnique DEF X
<1> QED
  BY <1>8, <1>9

(* The inline data a flush writes. *)
LEMMA FlushedInline ==
  ASSUME NEW s, NEW t, TypeInv(s), KeyInv(s), TypeInv(t), FitInv(s), FlushDone(s, t),
         \A key : Sized(s, key), \A j \in Nat : InlineOk(s, j),
         NEW x \in Flushed(s, t), NEW y \in Flushed(s, t),
         x.key[1] = "inode", y.key = Inline(x.key[2])
  PROVE  y.lo = x.hi /\ y.lo \div BlkSize = (y.hi - 1) \div BlkSize
<1>1. PICK i, n : FromBh(s, t, x, i, n)
  BY FlushedFrom
<1>2. PICK k, l : FromBh(s, t, y, k, l)
  BY FlushedFrom
<1> DEFINE h == s.bb[i].bhs[n]
           g == s.bb[k].bhs[l]
           j == x.key[2]
           a == t.bb[i].blkaddr
<1>3. s.nr <= t.nr
  BY TypeUse DEF FlushDone, SameSizes
<1>4. /\ i \in 1..s.nr /\ i \in 1..t.nr /\ h \in BhSet
      /\ x.hi = Base(t, i) + h.off + h.len
  BY <1>1, <1>3, FromBhIn
<1>5. /\ g \in BhSet /\ y.lo = Base(t, k) + g.off /\ y.hi = Base(t, k) + g.off + g.len
  BY <1>2, <1>3, FromBhIn
<1>6. x.key = h.key /\ y.key = g.key /\ At(s, h.key, i, n) /\ At(s, g.key, k, l) /\ Mapped(t, i)
  BY <1>1, <1>2 DEF FromBh, At
<1>7. h.key \in KeySet /\ g.key \in KeySet
  BY <1>4, <1>5 DEF BhSet
<1>8. j \in Nat /\ h.key = Inode(j) /\ g.key = Inline(j)
  <2>1. \A c \in KeySet : c[2] \in Nat /\ (c[1] = "inode" => c = Inode(c[2]))
    BY DEF KeySet, Inode
  <2> QED
    BY <1>6, <1>7, <2>1
<1> HIDE DEF j
<1>9. PICK c : At(s, Inode(j), k, c) /\ Behind(g, s.bb[k].bhs[c])
  BY <1>6, <1>8 DEF InlineOk
<1>10. k = i /\ c = n
  <2>1. k \in 1..s.nr /\ c \in Nat /\ n \in Nat
    BY <1>6, <1>9, KeyAt
  <2> QED
    BY <1>4, <1>6, <1>7, <1>8, <1>9, <2>1 DEF KeyInv
<1>11. g.off = h.off + h.len /\ (g.off % BlkSize) + g.len <= BlkSize
  BY <1>9, <1>10 DEF Behind
<1>12. g.len # 0
  BY <1>2 DEF FromBh
<1>13. a \in Nat /\ Base(t, i) = a * BlkSize /\ BlkSize \in Nat
  BY <1>4, <1>6, EndUse, BlkPos DEF Base
<1>14. /\ h.off \in Nat /\ h.len \in Nat /\ g.off \in Nat /\ g.len \in Nat
  BY <1>4, <1>5 DEF BhSet
<1>15. /\ y.lo = a * BlkSize + g.off /\ y.hi = a * BlkSize + g.off + g.len
       /\ x.hi = a * BlkSize + h.off + h.len
  BY <1>4, <1>5, <1>10, <1>13
<1> HIDE DEF h, g, a
<1>16. a * BlkSize \in Nat
  BY <1>13
<1>17. y.lo = x.hi
  BY <1>11, <1>14, <1>15, <1>16
<1>18. y.lo \div BlkSize = (y.hi - 1) \div BlkSize
  BY <1>11, <1>12, <1>13, <1>14, <1>15, SameBlock
<1> QED
  BY <1>17, <1>18

(* A flush of nothing. *)
LEMMA FlushNone ==
  ASSUME NEW s, TypeInv(s), s.list = << >>, NEW t, t = Bflush(s)
  PROVE  t = s /\ Flushed(s, t) = {}
<1>1. Len(s.list) = 0 /\ 0 \in Nat
  OBVIOUS
<1>2. PICK f : FlushesBy(s, 0, f)
  BY <1>1, FlushRunIs
<1>3. t = s
  BY <1>2 DEF FlushesBy
<1>4. Ids(s) = {}
  BY DEF Ids, Range
<1> QED
  BY <1>3, <1>4 DEF Flushed

(* No bhs, and no bb without one: no bbs. *)
NoneBare(s) == \A i : On(s, i) => s.bb[i].bhs # << >>

(* When every bb has a bh and there is none, the list is empty. *)
LEMMA NothingLeft ==
  ASSUME NEW s, TypeInv(s), NoneBare(s), \A key : ~HasKey(s, key)
  PROVE  s.list = << >>
<1>1. ASSUME NEW y, On(s, y)
      PROVE  FALSE
  <2>1. s.bb[y].bhs \in Seq(BhSet) /\ s.bb[y].bhs # << >>
    BY <1>1, TypeUse, BlockUse DEF NoneBare
  <2>2. 1 \in 1..Len(s.bb[y].bhs)
    BY <2>1
  <2>3. At(s, s.bb[y].bhs[1].key, y, 1)
    BY <1>1, <2>2 DEF At
  <2> QED
    BY <2>3, KeyAt
<1>2. s.list \in Seq(Nat) /\ \A p \in 1..Len(s.list) : FALSE
  BY <1>1, TypeUse, ListUse
<1>3. Len(s.list) = 0
  BY <1>2
<1> QED
  BY <1>2, <1>3

(* Everything is mapped, and the super block, if there is one, written and *)
(* dropped.                                                                *)
LEMMA MapAllSpace ==
  ASSUME NEW s, NEW st, NEW jk, MgrInv(s, st, jk), FitInv(s), NEW t, t = MapBb(s, HEAD)
  PROVE  /\ SpaceDone(s, t) /\ FitInv(t) /\ Writes(s, t, {})
         /\ \A i : On(t, i) => Mapped(t, i)
<1>1. MgrInv(t, st, jk) /\ OnlyMapped(s, t) /\ PrefixAt(t, Len(t.list))
  BY MapAllInv
<1>2. TypeInv(s) /\ TypeInv(t) /\ KeyInv(t)
  BY <1>1 DEF MgrInv
<1>3. SpaceDone(s, t)
  BY <1>1, <1>2, MapSpace
<1>4. ASSUME NEW i, On(t, i)
      PROVE  Mapped(t, i)
  <2>1. PICK p \in 1..Len(t.list) : t.list[p] = i
    BY <1>2, <1>4, ListUse
  <2>2. p <= Len(t.list)
    BY <1>2, ListUse
  <2> QED
    BY <1>1, <2>1, <2>2 DEF PrefixAt
<1> QED
  BY <1>2, <1>3, <1>4, WritesNone DEF SpaceDone

(* What is dropped after erofs_mapbh(NULL) keeps the end of the image and  *)
(* leaves no bb without a bh, if there was none.                           *)
LEMMA DropMappedWrites ==
  ASSUME NEW s, NEW st, NEW jk, MgrInv(s, st, jk), FitInv(s), NEW t, t = MapBb(s, HEAD),
         NEW key \in KeySet, key[1] \notin Tails, HasKey(s, key),
         NEW w, NEW r, r = WriteAndDrop(t, w, key)
  PROVE  /\ AddsTo(s, w, r)
         /\ r.m.tail_blkaddr = t.tail_blkaddr
         /\ NoneBare(s) => NoneBare(r.m)
<1>1. MgrInv(t, st, jk) /\ OnlyMapped(s, t)
  BY MapAllInv
<1>2. FitInv(t) /\ Writes(s, t, {}) /\ \A i : On(t, i) => Mapped(t, i)
  BY MapAllSpace
<1>3. Changed(s, t, {})
  BY <1>1, ChangedNone DEF OnlyMapped
<1>4. PICK i, n : At(t, key, i, n)
  BY <1>3 DEF Changed, HasKey
<1>5. On(t, i) /\ Mapped(t, i) /\ Placed(t, key)
  BY <1>2, <1>4 DEF At, Placed
<1>6. r.m = Bdrop(t, key, FALSE)
  BY DEF WriteAndDrop
<1>7. MgrInv(r.m, st, jk) /\ DropDone(t, r.m, i, n)
  BY <1>1, <1>4, <1>5, <1>6, DropInv
<1>8. TypeInv(s) /\ TypeInv(t) /\ TypeInv(r.m)
  BY <1>1, <1>7 DEF MgrInv
<1>9. PICK e : r.w = w \cup e /\ Writes(t, r.m, e)
  BY <1>1, <1>2, <1>5, WriteAndDropSpace DEF AddsTo
<1>10. Writes(s, r.m, {} \cup e)
  BY <1>2, <1>8, <1>9, WritesTrans
<1>11. {} \cup e = e
  OBVIOUS
<1>12. ASSUME NoneBare(s), NEW y, On(r.m, y)
       PROVE  r.m.bb[y].bhs # << >>
  <2>1. On(t, y) /\ y \in 1..t.nr
    BY <1>7, <1>8, <1>12, TypeUse DEF DropDone
  <2>2. On(s, y) /\ y \in 1..s.nr /\ t.bb[y].bhs = s.bb[y].bhs
    BY <1>1, <2>1 DEF OnlyMapped, On
  <2>3. CASE y = i
    BY <1>7, <1>12, <2>3 DEF DropDone
  <2>4. CASE y # i
    <3>1. r.m.bb[y] = t.bb[y]
      BY <1>7, <2>1, <2>4 DEF DropDone
    <3> QED
      BY <1>12, <2>2, <3>1 DEF NoneBare
  <2> QED
    BY <2>3, <2>4
<1>13. r.m.tail_blkaddr = t.tail_blkaddr
  BY <1>7 DEF DropDone
<1> QED
  BY <1>9, <1>10, <1>11, <1>12, <1>13 DEF NoneBare, AddsTo
-----------------------------------------------------------------------------
(* The layout of what is written *)

(* The bhs between two jobs. *)
SpotsInv(s) == /\ Sized(s, Sb) /\ Sized(s, Devt)
               /\ \A j \in Nat : InodeSpots(s, j)

(* The bhs of a bb lie in it one beside the other; what was written is in  *)
(* the bbs, clear of what they hold; inodes and inline data are written by *)
(* the flush, after which no bb without a bh is left on the list.          *)
SpaceInv ==
  /\ FitInv(m) /\ WroteInv(m, written)
  /\ phase \in Building => SpotsInv(m) /\ \A x \in written : x.key[1] \notin Tails
  /\ phase \in {"writesb", "done"} => InlineInBlock
  /\ phase = "writesb" => NoneBare(m)
  /\ phase = "done" => m.tail_blkaddr = nblocks

(* A step that changes the bhs in K only. *)
LEMMA SpotsStep ==
  ASSUME NEW s, NEW t, TypeInv(s), TypeInv(t), KeyInv(t), NEW K, Changed(s, t, K), SpotsInv(s),
         Sb \in K => Sized(t, Sb), Devt \in K => Sized(t, Devt),
         \A j \in Nat : Inode(j) \in K \/ Inline(j) \in K => InodeSpots(t, j)
  PROVE  SpotsInv(t)
<1>1. Sb \in KeySet /\ Devt \in KeySet
  BY KeysDiffer
<1>2. Sized(t, Sb) /\ Sized(t, Devt)
  BY <1>1, ChangedStays, SizedKept DEF SpotsInv
<1>3. ASSUME NEW j \in Nat
      PROVE  InodeSpots(t, j)
  <2>1. Inode(j) \in KeySet /\ Inline(j) \in KeySet
    BY KeysDiffer
  <2>2. CASE Inode(j) \in K \/ Inline(j) \in K
    BY <2>2
  <2>3. CASE Inode(j) \notin K /\ Inline(j) \notin K
    <3>1. SpotStays(s, t, Inode(j)) /\ SpotStays(s, t, Inline(j))
      BY <2>1, <2>3, ChangedStays
    <3> QED
      BY <3>1, SpotsKept DEF SpotsInv
  <2> QED
    BY <2>2, <2>3
<1> QED
  BY <1>2, <1>3 DEF SpotsInv

(* A step that changes the bhs of inode j only, or of a table. *)
LEMMA SpotsJob ==
  ASSUME NEW s, NEW t, TypeInv(s), TypeInv(t), KeyInv(t), NEW j \in Nat,
         Changed(s, t, {Inode(j), Inline(j), Data(j)}), SpotsInv(s), InodeSpots(t, j)
  PROVE  SpotsInv(t)
<1> DEFINE K == {Inode(j), Inline(j), Data(j)}
<1>1. Sb \notin K /\ Devt \notin K
  BY KeysDiffer
<1>2. ASSUME NEW k \in Nat, Inode(k) \in K \/ Inline(k) \in K
      PROVE  InodeSpots(t, k)
  <2>1. k = j
    BY <1>2, KeysDiffer
  <2> QED
    BY <2>1
<1> HIDE DEF K
<1>3. Changed(s, t, K)
  BY DEF K
<1> QED
  BY <1>1, <1>2, <1>3, SpotsStep

(* A step that changes the bh of a table only. *)
LEMMA SpotsTable ==
  ASSUME NEW s, NEW t, TypeInv(s), TypeInv(t), KeyInv(t), NEW key \in {Devt, Xattr, Blob},
         Changed(s, t, {key}), SpotsInv(s), key = Devt => Sized(t, Devt)
  PROVE  SpotsInv(t)
<1>1. Sb \notin {key} /\ (Devt \in {key} => Sized(t, Devt))
  BY KeysDiffer
<1>2. \A j \in Nat : Inode(j) \notin {key} /\ Inline(j) \notin {key}
  BY KeysDiffer
<1> QED
  BY <1>1, <1>2, SpotsStep

(* A part of what is written. *)
LEMMA WroteSome ==
  ASSUME NEW s, NEW w, WroteInv(s, w), NEW v, v \subseteq w
  PROVE  WroteInv(s, v)
BY DEF WroteInv

(* A step that writes e. *)
LEMMA WritingStep ==
  ASSUME SpaceInv, phase \in Building, phase' \in Building, NEW e, Writes(m, m', e),
         written' \subseteq written \cup e, SpotsInv(m')
  PROVE  SpaceInv'
<1>1. FitInv(m') /\ WroteInv(m', written \cup e) /\ \A x \in e : x.key[1] \notin Tails
  BY DEF SpaceInv, Writes, SpaceDone
<1>2. WroteInv(m', written')
  BY <1>1, WroteSome
<1>3. \A x \in written' : x.key[1] \notin Tails
  BY <1>1 DEF SpaceInv
<1>4. phase' \notin {"writesb", "done"}
  BY DEF Building
<1> QED
  BY <1>1, <1>2, <1>3, <1>4 DEF SpaceInv

(* SpaceInv holds initially. *)
LEMMA SpaceInit == Init => SpaceInv
<1> SUFFICES ASSUME Init PROVE SpaceInv
  OBVIOUS
<1>1. plan.start \in Nat /\ junk \in Nat /\ m = BufferInit(plan.start, junk) /\ written = {}
  BY PlanUse, LayoutAssumption DEF Init
<1>2. /\ MgrInv(m, plan.start, junk) /\ m.list = << >> /\ m.nr = 0
      /\ \A key : ~HasKey(m, key)
  BY <1>1, BufferInitInv
<1>3. TypeInv(m)
  BY <1>2 DEF MgrInv
<1>4. FitInv(m)
  BY <1>2 DEF FitInv, On, Has
<1>5. WroteInv(m, written)
  BY <1>1 DEF WroteInv
<1>6. \A key : Sized(m, key)
  BY <1>2, <1>3, SizedNone
<1>7. SpotsInv(m)
  BY <1>2, <1>3, <1>6, NoInlineSpots DEF SpotsInv
<1>8. phase \in {"sb", "devt"}
  BY DEF Init
<1> QED
  BY <1>1, <1>4, <1>5, <1>7, <1>8 DEF SpaceInv

(* Reserving the super block preserves SpaceInv. *)
LEMMA SpaceReserveSb ==
  ASSUME LayoutInv, SpaceInv, ReserveSb
  PROVE  SpaceInv'
<1>1. /\ phase = "sb" /\ phase \in Building /\ plan.start = 0 /\ m = BufferInit(0, junk)
      /\ phase' = "devt" /\ written' = written /\ junk \in Nat
  BY InvUse DEF ReserveSb, LayoutInv, Building
<1>2. PICK s1 \in Alloc(m, "META", 0, 0, Sb) :
        \E s2 \in {Map(Must(Balloon(s1, Sb, SbSize)), Sb)} :
          m' = Bug(s2, Btell(s2, Sb) # 0)
  BY DEF ReserveSb
<1>3. MgrInv(m', 0, junk) /\ Changed(m, m', {Sb}) /\ SbDone(m')
  BY <1>1, <1>2, ReserveInv
<1>4. TypeInv(m) /\ TypeInv(m') /\ KeyInv(m')
  BY <1>3, InvUse DEF MgrInv
<1>5. FitInv(m') /\ Sized(m', Sb)
  BY <1>3, <1>4, SbSpace
<1>6. written' = {}
  <2>1. m.nr = 0
    BY <1>1, BufferInitInv
  <2> QED
    BY <1>1, <2>1 DEF SpaceInv, WroteInv
<1>7. WroteInv(m', written')
  BY <1>6 DEF WroteInv
<1>8. SpotsInv(m')
  <2>1. Devt \notin {Sb} /\ \A j \in Nat : Inode(j) \notin {Sb} /\ Inline(j) \notin {Sb}
    BY KeysDiffer
  <2>2. SpotsInv(m)
    BY <1>1 DEF SpaceInv
  <2> QED
    BY <1>3, <1>4, <1>5, <2>1, <2>2, SpotsStep
<1> QED
  BY <1>1, <1>5, <1>6, <1>7, <1>8 DEF SpaceInv

(* Reserving the device table preserves SpaceInv. *)
LEMMA SpaceInitDevices ==
  ASSUME LayoutInv, SpaceInv, InitDevices
  PROVE  SpaceInv'
<1>1. /\ phase = "devt" /\ phase \in Building /\ ~HasKey(m, Devt) /\ phase' = "xattr"
      /\ phase' \in Building /\ written' = written
  BY DEF InitDevices, LayoutInv, Building
<1>2. CASE UNCHANGED m
  BY <1>1, <1>2 DEF SpaceInv
<1>3. CASE m' \in AllocMap(m, "DEVT", DevtSlot, Devt)
  <2>1. "DEVT" \in Whats /\ DevtSlot \in Nat /\ DevtSlot # 0 /\ Devt \in KeySet
    BY BlkAssumption, KeysDiffer DEF Whats
  <2>2. MgrInv(m', plan.start, junk) /\ Changed(m, m', {Devt})
    BY <1>1, <1>3, <2>1, InvUse, TableInv
  <2>3. FitInv(m) /\ SpotsInv(m)
    BY <1>1 DEF SpaceInv
  <2>4. SpaceDone(m, m') /\ Sized(m', Devt)
    BY <1>1, <1>3, <2>1, <2>3, InvUse, AllocMapSpace
  <2>5. TypeInv(m) /\ TypeInv(m') /\ KeyInv(m')
    BY <2>2, InvUse DEF MgrInv
  <2>6. SpotsInv(m')
    BY <2>2, <2>3, <2>4, <2>5, SpotsTable
  <2>7. Writes(m, m', {})
    BY <2>4, <2>5, WritesNone
  <2> QED
    BY <1>1, <2>6, <2>7, WritingStep
<1> QED
  BY <1>2, <1>3 DEF InitDevices

(* A table or a blob is placed, written and dropped again. *)
LEMMA TableWrites ==
  ASSUME NEW st, NEW jk, NEW s, MgrInv(s, st, jk), FitInv(s), SpotsInv(s),
         NEW what \in Whats, NEW size \in Nat, NEW key \in {Xattr, Blob}, ~HasKey(s, key),
         NEW u \in AllocMap(s, what, size, key), NEW w, NEW r, r = WriteAndDrop(u, w, key)
  PROVE  SpotsInv(r.m) /\ AddsTo(s, w, r)
<1>1. key \in KeySet /\ key # Devt /\ key[1] \notin Tails
  BY KeysDiffer, KindsDiffer
<1>2. MgrInv(u, st, jk) /\ Changed(s, u, {key}) /\ Placed(u, key)
  BY <1>1, TableInv
<1>3. SpaceDone(s, u) /\ FitInv(u)
  BY <1>1, AllocMapSpace
<1>4. MgrInv(r.m, st, jk) /\ Changed(u, r.m, {key})
  BY <1>1, <1>2, WriteAndDropInv
<1>5. TypeInv(s) /\ TypeInv(u) /\ TypeInv(r.m) /\ KeyInv(r.m)
  BY <1>2, <1>4 DEF MgrInv
<1>6. Changed(s, r.m, {key})
  <2>1. Changed(s, r.m, {key} \cup {key})
    BY <1>2, <1>4, <1>5, ChangedTrans
  <2> QED
    BY <2>1, ChangedMore
<1>7. PICK e : r.w = w \cup e /\ Writes(u, r.m, e)
  BY <1>1, <1>2, <1>3, WriteAndDropSpace DEF AddsTo
<1>8. Writes(s, u, {})
  BY <1>3, <1>5, WritesNone
<1>9. Writes(s, r.m, {} \cup e)
  BY <1>5, <1>7, <1>8, WritesTrans
<1>10. {} \cup e = e
  OBVIOUS
<1>11. SpotsInv(r.m)
  BY <1>1, <1>5, <1>6, SpotsTable
<1> QED
  BY <1>7, <1>9, <1>10, <1>11 DEF AddsTo

(* Writing the shared xattrs preserves SpaceInv. *)
LEMMA SpaceSharedXattrs ==
  ASSUME LayoutInv, SpaceInv, SharedXattrs
  PROVE  SpaceInv'
<1>1. phase = "xattr" /\ phase \in Building /\ phase' = "build" /\ phase' \in Building
  BY DEF SharedXattrs, Building
<1>2. PICK size \in plan.xsizes :
        IF size = 0 THEN UNCHANGED <<m, written>>
        ELSE \E s \in AllocMap(m, "XATTR", size, Xattr) :
             \E r \in {WriteAndDrop(s, {}, Xattr)} : m' = r.m /\ written' = r.w
  BY DEF SharedXattrs
<1>3. CASE size = 0
  <2>1. m' = m /\ written' = written
    BY <1>2, <1>3
  <2> QED
    BY <1>1, <2>1 DEF SpaceInv
<1>4. CASE size # 0
  <2>1. PICK s \in AllocMap(m, "XATTR", size, Xattr) :
          /\ m' = WriteAndDrop(s, {}, Xattr).m /\ written' = WriteAndDrop(s, {}, Xattr).w
    BY <1>2, <1>4
  <2>2. /\ "XATTR" \in Whats /\ size \in Nat /\ MgrInv(m, plan.start, junk)
        /\ KeysInv(m, jobs, pend) /\ jobs \in Nat
    BY <1>1, InvUse DEF Whats
  <2>3. ~HasKey(m, Xattr) /\ FitInv(m) /\ SpotsInv(m)
    BY <1>1, <2>2, NoneElse DEF SpaceInv
  <2> DEFINE r == WriteAndDrop(s, {}, Xattr)
  <2>4. m' = r.m /\ written' = r.w /\ r = WriteAndDrop(s, {}, Xattr)
    BY <2>1
  <2> HIDE DEF r
  <2>5. SpotsInv(r.m) /\ AddsTo(m, {}, r)
    BY <2>2, <2>3, <2>4, TableWrites
  <2>6. PICK e : r.w = {} \cup e /\ Writes(m, r.m, e)
    BY <2>5 DEF AddsTo
  <2>7. written' \subseteq written \cup e
    BY <2>4, <2>6
  <2> QED
    BY <1>1, <2>4, <2>5, <2>6, <2>7, WritingStep
<1> QED
  BY <1>3, <1>4

(* A file job preserves SpaceInv: its data, tail and inode get room that   *)
(* nothing written before has.                                             *)
LEMMA SpaceFileJob ==
  ASSUME LayoutInv, SpaceInv, FileJob
  PROVE  SpaceInv'
<1>1. phase = "build" /\ phase \in Building /\ phase' \in Building
  BY DEF FileJob, Building
<1>2. /\ KeysInv(m, jobs, pend) /\ jobs \in Nat
      /\ MgrInv(m, plan.start, junk) /\ TypeInv(m)
      /\ FitInv(m) /\ SpotsInv(m)
  BY <1>1, InvUse DEF SpaceInv
<1> DEFINE j == jobs + 1
<1>3. PICK n \in plan.nblocks, isize \in plan.isizes, idata \in plan.idata,
           inlinable \in BOOLEAN, how \in {"plain", "compressed", "revoked"} :
        \E d \in FileData(m, j, n, idata, how) :
        \E p \in PrepareInode(d.m, j, isize, idata, inlinable) :
        \E t \in WriteTailEnd(p.m, d.w, j, idata, p.lazy) :
          m' = t.m /\ written' = written \cup t.w
  BY DEF FileJob
<1>4. PICK d \in FileData(m, j, n, idata, how) :
        \E p \in PrepareInode(d.m, j, isize, idata, inlinable) :
        \E t \in WriteTailEnd(p.m, d.w, j, idata, p.lazy) :
          m' = t.m /\ written' = written \cup t.w
  BY <1>3
<1>5. PICK p \in PrepareInode(d.m, j, isize, idata, inlinable) :
        \E t \in WriteTailEnd(p.m, d.w, j, idata, p.lazy) :
          m' = t.m /\ written' = written \cup t.w
  BY <1>4
<1>6. PICK t \in WriteTailEnd(p.m, d.w, j, idata, p.lazy) :
          m' = t.m /\ written' = written \cup t.w
  BY <1>5
<1>7. n \in Nat /\ isize \in Nat /\ isize # 0 /\ idata \in Nat /\ j \in Nat
  BY <1>2, InvUse, LayoutAssumption
<1>8. ~HasKey(m, Data(j)) /\ ~HasKey(m, Inode(j)) /\ ~HasKey(m, Inline(j))
  BY <1>2, <1>7, NoneElse
<1> HIDE DEF j
<1>9. Inode(j) # Inline(j) /\ Inode(j) # Data(j) /\ Inline(j) # Data(j)
  BY <1>7, KeysDiffer
<1>10. /\ MgrInv(d.m, plan.start, junk) /\ Changed(m, d.m, {Data(j)}) /\ Ends(d.m, Data(j))
       /\ Writes(m, d.m, d.w)
  BY <1>2, <1>7, <1>8, FileDataInv, FileDataWrites
<1>11. ~HasKey(d.m, Inode(j)) /\ ~HasKey(d.m, Inline(j)) /\ FitInv(d.m)
  BY <1>8, <1>9, <1>10 DEF Changed, Writes, SpaceDone
<1>12. /\ MgrInv(p.m, plan.start, junk) /\ InodeDone(d.m, p, j, idata)
  BY <1>7, <1>10, <1>11, PrepareInodeInv
<1>13. SpaceDone(d.m, p.m) /\ FitInv(p.m) /\ InodeSpots(p.m, j)
  BY <1>7, <1>10, <1>11, PrepareInodeSpace
<1>14. /\ Changed(d.m, p.m, {Inode(j), Inline(j), Data(j)})
       /\ HasKey(p.m, Data(j)) => Placed(p.m, Data(j)) /\ ~p.lazy
  BY <1>12 DEF InodeDone
<1>15. p.lazy => Ends(p.m, Data(j))
  BY <1>14 DEF Ends
<1>16. MgrInv(m', plan.start, junk) /\ Changed(p.m, m', {Inline(j), Data(j)})
  BY <1>6, <1>7, <1>12, <1>14, <1>15, WriteTailEndInv
<1>17. /\ AddsTo(p.m, d.w, t)
       /\ SpotStays(p.m, m', Inode(j)) /\ SpotStays(p.m, m', Inline(j))
  BY <1>6, <1>7, <1>12, <1>13, <1>14, <1>15, WriteTailEndWrites
<1>18. TypeInv(d.m) /\ TypeInv(p.m) /\ TypeInv(m') /\ KeyInv(m')
  BY <1>10, <1>12, <1>16 DEF MgrInv
<1>19. Changed(m, m', {Inode(j), Inline(j), Data(j)})
  <2>1. Changed(m, p.m, {Data(j)} \cup {Inode(j), Inline(j), Data(j)})
    BY <1>10, <1>14, <1>18, ChangedTrans
  <2>2. Changed(m, m', ({Data(j)} \cup {Inode(j), Inline(j), Data(j)}) \cup {Inline(j), Data(j)})
    BY <1>16, <1>18, <2>1, ChangedTrans
  <2> QED
    BY <2>2, ChangedMore
<1>20. SpotsInv(m')
  <2>1. InodeSpots(m', j)
    BY <1>13, <1>17, SpotsKept
  <2> QED
    BY <1>2, <1>7, <1>18, <1>19, <2>1, SpotsJob
<1>21. PICK e : t.w = d.w \cup e /\ Writes(p.m, m', e)
  BY <1>6, <1>17 DEF AddsTo
<1>22. Writes(m, m', d.w \cup e)
  <2>1. Writes(d.m, p.m, {})
    BY <1>13, <1>18, WritesNone
  <2>2. Writes(m, p.m, d.w \cup {})
    BY <1>2, <1>10, <1>18, <2>1, WritesTrans
  <2>3. Writes(m, m', (d.w \cup {}) \cup e)
    BY <1>2, <1>18, <1>21, <2>2, WritesTrans
  <2>4. (d.w \cup {}) \cup e = d.w \cup e
    OBVIOUS
  <2> QED
    BY <2>3, <2>4
<1>23. written' \subseteq written \cup (d.w \cup e)
  BY <1>6, <1>21
<1> QED
  BY <1>1, <1>20, <1>22, <1>23, WritingStep

(* A directory job preserves SpaceInv. *)
LEMMA SpaceDirJob ==
  ASSUME LayoutInv, SpaceInv, DirJob
  PROVE  SpaceInv'
<1>1. phase = "build" /\ phase \in Building /\ phase' \in Building /\ written' = written
  BY DEF DirJob, Building
<1>2. /\ KeysInv(m, jobs, pend) /\ jobs \in Nat
      /\ MgrInv(m, plan.start, junk) /\ TypeInv(m)
      /\ FitInv(m) /\ SpotsInv(m)
  BY <1>1, InvUse DEF SpaceInv
<1> DEFINE j == jobs + 1
<1>3. PICK isize \in plan.isizes, idata \in plan.idata, inlinable \in BOOLEAN :
        \E p \in PrepareInode(m, j, isize, idata, inlinable) :
          IF jobs = 0 /\ HasBh(m, Sb) THEN m' = Map(p.m, Inode(1)) ELSE m' = p.m
  BY DEF DirJob
<1>4. PICK p \in PrepareInode(m, j, isize, idata, inlinable) :
          IF jobs = 0 /\ HasBh(m, Sb) THEN m' = Map(p.m, Inode(1)) ELSE m' = p.m
  BY <1>3
<1>5. isize \in Nat /\ isize # 0 /\ idata \in Nat /\ j \in Nat
  BY <1>2, InvUse, LayoutAssumption
<1>6. ~HasKey(m, Data(j)) /\ ~HasKey(m, Inode(j)) /\ ~HasKey(m, Inline(j))
  BY <1>2, <1>5, NoneElse
<1>7. m' = Map(p.m, Inode(j)) \/ m' = p.m
  BY <1>4
<1> HIDE DEF j
<1>8. Inode(j) \in KeySet /\ Inline(j) \in KeySet
  BY <1>5, KeysDiffer
<1>9. Ends(m, Data(j))
  BY <1>6 DEF Ends
<1>10. MgrInv(p.m, plan.start, junk) /\ InodeDone(m, p, j, idata)
  BY <1>2, <1>5, <1>6, <1>9, PrepareInodeInv
<1>11. SpaceDone(m, p.m) /\ FitInv(p.m) /\ InodeSpots(p.m, j)
  BY <1>2, <1>5, <1>6, <1>9, PrepareInodeSpace
<1>12. Changed(m, p.m, {Inode(j), Inline(j), Data(j)}) /\ HasKey(p.m, Inode(j))
  BY <1>10 DEF InodeDone
<1>13. MgrInv(m', plan.start, junk) /\ Changed(p.m, m', {}) /\ SpaceDone(p.m, m')
  <2>1. CASE m' = Map(p.m, Inode(j))
    <3>1. PICK i \in 1..p.m.nr, n \in Nat : At(p.m, Inode(j), i, n)
      BY <1>12 DEF HasKey
    <3>2. MgrInv(m', plan.start, junk) /\ Changed(p.m, m', {})
      BY <1>8, <1>10, <2>1, <3>1, MapInv
    <3>3. SpaceDone(p.m, m')
      BY <1>8, <1>10, <1>11, <2>1, <3>1, MapBhSpace
    <3> QED
      BY <3>2, <3>3
  <2>2. CASE m' = p.m
    BY <1>10, <1>11, <2>2, ChangedSelf, SpaceSelf DEF MgrInv
  <2> QED
    BY <1>7, <2>1, <2>2
<1>14. TypeInv(p.m) /\ TypeInv(m') /\ KeyInv(m')
  BY <1>10, <1>13 DEF MgrInv
<1>15. Changed(m, m', {Inode(j), Inline(j), Data(j)})
  <2>1. Changed(m, m', {Inode(j), Inline(j), Data(j)} \cup {})
    BY <1>12, <1>13, <1>14, ChangedTrans
  <2> QED
    BY <2>1, ChangedMore
<1>16. SpotsInv(m')
  <2>1. Inode(j) \notin {} /\ Inline(j) \notin {}
    OBVIOUS
  <2>2. SpotStays(p.m, m', Inode(j)) /\ SpotStays(p.m, m', Inline(j))
    BY <1>8, <1>13, <1>14, <2>1, ChangedStays
  <2>3. InodeSpots(m', j)
    BY <1>11, <2>2, SpotsKept
  <2> QED
    BY <1>2, <1>5, <1>14, <1>15, <2>3, SpotsJob
<1>17. SpaceDone(m, m')
  BY <1>2, <1>11, <1>13, <1>14, SpaceTrans
<1>18. Writes(m, m', {})
  BY <1>2, <1>14, <1>17, WritesNone
<1> QED
  BY <1>1, <1>16, <1>18, WritingStep

(* Writing a directory preserves SpaceInv. *)
LEMMA SpaceDirBhJob ==
  ASSUME LayoutInv, SpaceInv, DirBhJob
  PROVE  SpaceInv'
<1>1. phase = "build" /\ phase \in Building /\ phase' \in Building
  BY DEF DirBhJob, Building
<1>2. /\ KeysInv(m, jobs, pend) /\ jobs \in Nat
      /\ MgrInv(m, plan.start, junk) /\ TypeInv(m) /\ plan.nblocks \subseteq Nat
      /\ \A p \in pend : p.dir \in 1..jobs /\ p.idata \in Nat
      /\ FitInv(m) /\ SpotsInv(m)
  BY <1>1, InvUse DEF SpaceInv
<1>3. PICK p \in pend, n \in plan.nblocks, c \in 1..jobs :
        \E s1 \in AllocData(m, p.dir, "DIRA", n) :
        \E s2 \in {Map(s1, Inode(p.dir))} :
        \E s3 \in {Map(s2, Inode(c))} :
        \E t \in WriteTailEnd(s3, {}, p.dir, p.idata, p.lazy) :
          m' = t.m /\ written' = written \cup t.w
  BY DEF DirBhJob
<1> DEFINE j == p.dir
<1>4. PICK s1 \in AllocData(m, j, "DIRA", n) :
        \E s2 \in {Map(s1, Inode(j))} :
        \E s3 \in {Map(s2, Inode(c))} :
        \E t \in WriteTailEnd(s3, {}, j, p.idata, p.lazy) :
          m' = t.m /\ written' = written \cup t.w
  BY <1>3
<1> DEFINE s2 == Map(s1, Inode(j))
           s3 == Map(s2, Inode(c))
<1>5. PICK t \in WriteTailEnd(s3, {}, j, p.idata, p.lazy) :
          m' = t.m /\ written' = written \cup t.w
  BY <1>4
<1>6. j \in 1..jobs /\ j \in Nat /\ c \in Nat /\ p.idata \in Nat /\ n \in Nat
  BY <1>2
<1> HIDE DEF j
<1>7. Inode(j) \in KeySet /\ Inline(j) \in KeySet /\ Inode(j) \notin {Data(j)} /\ Inline(j) \notin {Data(j)}
  BY <1>6, KeysDiffer
<1>8. ~HasKey(m, Data(j)) /\ HasKey(m, Inode(j)) /\ HasKey(m, Inode(c))
  <2>1. OpIs(m, Inode(j), "write") /\ OpIs(m, Inode(c), "write")
    BY <1>2, <1>6 DEF KeysInv
  <2> QED
    BY <1>2, <1>6, <2>1, NoneElse DEF OpIs, HasKey
<1>9. MgrInv(s3, plan.start, junk) /\ DirMapped(m, s3, j, c)
  BY <1>2, <1>6, <1>8, DirMappedInv
<1>10. SpaceDone(m, s3) /\ FitInv(s3)
  BY <1>2, <1>6, <1>8, DirMappedSpace
<1> HIDE DEF s2, s3
<1>11. Changed(m, s3, {Data(j)}) /\ Ends(s3, Data(j))
  BY <1>9 DEF DirMapped
<1>12. HasKey(s3, Data(j)) => Placed(s3, Data(j))
  BY <1>11, EndPlaced DEF Ends
<1>13. MgrInv(m', plan.start, junk) /\ Changed(s3, m', {Inline(j), Data(j)})
  BY <1>5, <1>6, <1>9, <1>11, <1>12, WriteTailEndInv
<1>14. /\ AddsTo(s3, {}, t)
       /\ SpotStays(s3, m', Inode(j)) /\ SpotStays(s3, m', Inline(j))
  BY <1>5, <1>6, <1>9, <1>10, <1>11, <1>12, WriteTailEndWrites
<1>15. TypeInv(s3) /\ KeyInv(s3) /\ TypeInv(m') /\ KeyInv(m')
  BY <1>9, <1>13 DEF MgrInv
<1>16. Changed(m, m', {Inode(j), Inline(j), Data(j)})
  <2>1. Changed(m, m', {Data(j)} \cup {Inline(j), Data(j)})
    BY <1>11, <1>13, <1>15, ChangedTrans
  <2> QED
    BY <2>1, ChangedMore
<1>17. SpotsInv(m')
  <2>1. SpotStays(m, s3, Inode(j)) /\ SpotStays(m, s3, Inline(j))
    BY <1>2, <1>7, <1>11, <1>15, ChangedStays
  <2>2. InodeSpots(s3, j)
    BY <1>2, <1>6, <2>1, SpotsKept DEF SpotsInv
  <2>3. InodeSpots(m', j)
    BY <1>14, <2>2, SpotsKept
  <2> QED
    BY <1>2, <1>6, <1>15, <1>16, <2>3, SpotsJob
<1>18. PICK e : t.w = {} \cup e /\ Writes(s3, m', e)
  BY <1>5, <1>14 DEF AddsTo
<1>19. Writes(m, s3, {})
  BY <1>2, <1>10, <1>15, WritesNone
<1>20. Writes(m, m', {} \cup e)
  BY <1>2, <1>15, <1>18, <1>19, WritesTrans
<1>21. written' \subseteq written \cup ({} \cup e)
  BY <1>5, <1>18
<1> QED
  BY <1>1, <1>17, <1>20, <1>21, WritingStep

(* The end of the build preserves SpaceInv. *)
LEMMA SpaceBuildDone ==
  ASSUME SpaceInv, BuildDone
  PROVE  SpaceInv'
<1>1. phase = "build" /\ phase' = "blobs" /\ m' = m /\ written' = written
  BY DEF BuildDone
<1> QED
  BY <1>1 DEF SpaceInv, Building

(* Writing the device table or the blobs preserves SpaceInv. *)
LEMMA SpaceDumpBlobs ==
  ASSUME LayoutInv, SpaceInv, DumpBlobs
  PROVE  SpaceInv'
<1>1. phase = "blobs" /\ phase \in Building /\ phase' = "flush" /\ phase' \in Building
  BY DEF DumpBlobs, Building
<1>2. /\ KeysInv(m, jobs, pend) /\ jobs \in Nat /\ plan.blobs \subseteq Nat
      /\ MgrInv(m, plan.start, junk) /\ TypeInv(m) /\ FitInv(m) /\ SpotsInv(m)
  BY <1>1, InvUse DEF SpaceInv
<1>3. HasBh(m, Devt) <=> HasKey(m, Devt)
  BY <1>2, HasBhIs
<1>4. SUFFICES ASSUME NEW r, m' = r.m, written' = r.w, SpotsInv(r.m), AddsTo(m, written, r)
               PROVE  SpaceInv'
  <2>1. CASE HasKey(m, Devt)
    <3> DEFINE s == MapBb(m, HEAD)
               r == WriteAndDrop(s, written, Devt)
    <3>1. m' = r.m /\ written' = r.w
      BY <1>3, <2>1 DEF DumpBlobs
    <3>2. Devt \in KeySet /\ Devt[1] \notin Tails
      BY KeysDiffer, KindsDiffer
    <3>3. MgrInv(r.m, plan.start, junk) /\ Changed(m, r.m, {Devt}) /\ ~HasKey(r.m, Devt)
      BY <1>2, <2>1, <3>2, DropMapped
    <3>4. AddsTo(m, written, r)
      BY <1>2, <2>1, <3>2, DropMappedWrites
    <3> HIDE DEF r
    <3>5. TypeInv(r.m) /\ KeyInv(r.m)
      BY <3>3 DEF MgrInv
    <3>6. SpotsInv(r.m)
      BY <1>2, <3>3, <3>5, SizedNone, SpotsTable
    <3> QED
      BY <1>4, <3>1, <3>4, <3>6
  <2>2. CASE ~HasKey(m, Devt)
    <3>1. PICK size \in plan.blobs :
            IF size = 0 THEN UNCHANGED <<m, written>>
            ELSE \E s \in AllocMap(m, "DATA", size, Blob) :
                 \E r \in {WriteAndDrop(s, written, Blob)} : m' = r.m /\ written' = r.w
      BY <1>3, <2>2 DEF DumpBlobs
    <3>2. CASE size = 0
      <4>1. m' = m /\ written' = written
        BY <3>1, <3>2
      <4> QED
        BY <1>1, <4>1 DEF SpaceInv
    <3>3. CASE size # 0
      <4>1. PICK s \in AllocMap(m, "DATA", size, Blob) :
              \E r \in {WriteAndDrop(s, written, Blob)} : m' = r.m /\ written' = r.w
        BY <3>1, <3>3
      <4> DEFINE r == WriteAndDrop(s, written, Blob)
      <4>2. m' = r.m /\ written' = r.w /\ r = WriteAndDrop(s, written, Blob)
        BY <4>1
      <4> HIDE DEF r
      <4>3. "DATA" \in Whats /\ size \in Nat /\ ~HasKey(m, Blob)
        BY <1>2, NoneElse DEF Whats
      <4>4. SpotsInv(r.m) /\ AddsTo(m, written, r)
        BY <1>2, <4>2, <4>3, TableWrites
      <4> QED
        BY <1>4, <4>2, <4>4
    <3> QED
      BY <3>2, <3>3
  <2> QED
    BY <2>1, <2>2
<1>5. PICK e : r.w = written \cup e /\ Writes(m, r.m, e)
  BY <1>4 DEF AddsTo
<1>6. written' \subseteq written \cup e
  BY <1>4, <1>5
<1> QED
  BY <1>1, <1>4, <1>5, <1>6, WritingStep

(* Between two jobs no bh is empty. *)
LEMMA NoneEmpty ==
  ASSUME NEW s, TypeInv(s), NEW n \in Nat, NEW pd, KeysInv(s, n, pd), SpotsInv(s)
  PROVE  \A key : Sized(s, key)
<1> TAKE key
<1>1. CASE ~HasKey(s, key)
  BY <1>1, SizedNone
<1>2. CASE HasKey(s, key)
  <2>1. CASE key \in {Sb, Devt}
    BY <2>1 DEF SpotsInv
  <2>2. CASE \E j \in 1..n : key \in {Inode(j), Inline(j)}
    <3>1. PICK j \in 1..n : key \in {Inode(j), Inline(j)}
      BY <2>2
    <3>2. j \in Nat
      OBVIOUS
    <3>3. InodeSpots(s, j)
      BY <3>2 DEF SpotsInv
    <3> QED
      BY <3>1, <3>3 DEF InodeSpots
  <2> QED
    BY <1>2, <2>1, <2>2 DEF KeysInv
<1> QED
  BY <1>1, <1>2

(* The flush writes inodes and inline data where nothing was written, and  *)
(* inline data in the block its inode ends in.                             *)
LEMMA SpaceFlushAll ==
  ASSUME LayoutInv, SpaceInv, FlushAll
  PROVE  SpaceInv'
<1>1. /\ phase = "flush" /\ phase \in Building /\ phase' = "writesb"
      /\ m' = Bflush(m) /\ written' = written \cup Flushed(m, m')
  BY DEF FlushAll, Building
<1>2. /\ KeysInv(m, jobs, pend) /\ jobs \in Nat
      /\ MgrInv(m, plan.start, junk) /\ TypeInv(m) /\ KeyInv(m)
      /\ FitInv(m) /\ SpotsInv(m) /\ WroteInv(m, written)
      /\ \A x \in written : x.key[1] \notin Tails
  BY <1>1, InvUse DEF SpaceInv
<1>3. MgrInv(m', plan.start, junk) /\ FlushDone(m, m')
  BY <1>1, <1>2, BflushInv
<1>4. TypeInv(m') /\ KeyInv(m') /\ TileInv(m', plan.start)
  BY <1>3 DEF MgrInv
<1>5. \A key : Sized(m, key)
  BY <1>2, NoneEmpty
<1>6. SpaceDone(m, m')
  BY <1>2, <1>3, <1>4, FlushSpace
<1>7. \A x \in Flushed(m, m') : \E i, n : FromBh(m, m', x, i, n)
  BY <1>2, <1>3, <1>4, <1>5, FlushedFrom
<1>8. WroteInv(m', written')
  BY <1>1, <1>2, <1>4, <1>6, <1>7, AddWrites
<1>9. FitInv(m') /\ NoneBare(m')
  BY <1>3, <1>6 DEF SpaceDone, FlushDone, NoneBare
<1>10. ASSUME NEW x \in written', NEW y \in written', x.key[1] = "inode",
              y.key = Inline(x.key[2])
       PROVE  y.lo = x.hi /\ y.lo \div BlkSize = (y.hi - 1) \div BlkSize
  <2>1. y.key[1] = "inline"
    BY <1>10 DEF Inline
  <2>2. x \in Flushed(m, m') /\ y \in Flushed(m, m')
    BY <1>1, <1>2, <1>10, <2>1 DEF Tails
  <2>3. \A j \in Nat : InlineOk(m, j)
    BY <1>2 DEF SpotsInv, InodeSpots
  <2> QED
    BY <1>2, <1>3, <1>4, <1>5, <1>10, <2>2, <2>3, FlushedInline
<1>11. InlineInBlock'
  BY <1>10 DEF InlineInBlock
<1> QED
  BY <1>1, <1>8, <1>9, <1>11 DEF SpaceInv, Building

(* Writing the super block preserves SpaceInv; the end of the image is the *)
(* number of blocks the super block records.                               *)
LEMMA SpaceWriteSb ==
  ASSUME LayoutInv, SpaceInv, WriteSb
  PROVE  SpaceInv'
<1>1. /\ phase = "writesb" /\ \A key : HasKey(m, key) => key = Sb
  BY DEF WriteSb, LayoutInv
<1>2. /\ MgrInv(m, plan.start, junk) /\ TypeInv(m) /\ FitInv(m) /\ WroteInv(m, written)
      /\ NoneBare(m) /\ InlineInBlock /\ phase' = "done"
  BY <1>1, InvUse DEF SpaceInv, WriteSb
<1> DEFINE s == MapBb(m, HEAD)
           r == IF HasBh(s, Sb) THEN WriteAndDrop(s, written, Sb)
                ELSE [m |-> s, w |-> written]
<1>3. /\ m' = Bflush(r.m) /\ written' = r.w \cup Flushed(r.m, m')
      /\ nblocks' = s.tail_blkaddr
  BY DEF WriteSb
<1>4. MgrInv(s, plan.start, junk) /\ OnlyMapped(m, s) /\ Changed(m, s, {}) /\ TypeInv(s)
  <2>1. MgrInv(s, plan.start, junk) /\ OnlyMapped(m, s)
    BY <1>2, MapAllInv
  <2> HIDE DEF s
  <2>2. Changed(m, s, {})
    BY <2>1, ChangedNone DEF OnlyMapped
  <2> QED
    BY <2>1, <2>2 DEF MgrInv
<1>5. HasBh(s, Sb) <=> HasKey(m, Sb)
  BY <1>4, HasBhIs DEF Changed
<1>6. /\ MgrInv(r.m, plan.start, junk) /\ AddsTo(m, written, r)
      /\ \A key : ~HasKey(r.m, key)
      /\ r.m.tail_blkaddr = s.tail_blkaddr /\ NoneBare(r.m)
  <2>1. CASE HasKey(m, Sb)
    <3>1. r = WriteAndDrop(s, written, Sb)
      BY <1>5, <2>1
    <3>2. Sb \in KeySet /\ Sb[1] \notin Tails
      BY KeysDiffer, KindsDiffer
    <3> HIDE DEF r
    <3>3. /\ MgrInv(r.m, plan.start, junk) /\ Changed(m, r.m, {Sb}) /\ ~HasKey(r.m, Sb)
      BY <1>2, <2>1, <3>1, <3>2, DropMapped
    <3>4. /\ AddsTo(m, written, r) /\ r.m.tail_blkaddr = s.tail_blkaddr /\ NoneBare(r.m)
      BY <1>2, <2>1, <3>1, <3>2, DropMappedWrites
    <3> QED
      BY <1>1, <3>3, <3>4 DEF Changed
  <2>2. CASE ~HasKey(m, Sb)
    <3>1. r.m = s /\ r.w = written
      BY <1>5, <2>2
    <3>2. \A key : ~HasKey(s, key)
      BY <1>1, <1>4, <2>2 DEF Changed
    <3>3. Writes(m, s, {})
      BY <1>2, MapAllSpace
    <3>4. NoneBare(s)
      BY <1>2, <1>4, TypeUse DEF NoneBare, OnlyMapped, On
    <3>5. written = written \cup {}
      OBVIOUS
    <3> HIDE DEF s, r
    <3> QED
      BY <1>4, <3>1, <3>2, <3>3, <3>4, <3>5 DEF AddsTo
  <2> QED
    BY <2>1, <2>2
<1> HIDE DEF s, r
<1>7. PICK e : r.w = written \cup e /\ Writes(m, r.m, e)
  BY <1>6 DEF AddsTo
<1>8. TypeInv(r.m)
  BY <1>6 DEF MgrInv
<1>9. r.m.list = << >>
  BY <1>6, <1>8, NothingLeft
<1>10. m' = r.m /\ Flushed(r.m, m') = {}
  BY <1>3, <1>8, <1>9, FlushNone
<1>11. written' = written \cup e /\ m'.tail_blkaddr = nblocks'
  BY <1>3, <1>6, <1>7, <1>10
<1>12. /\ FitInv(m') /\ WroteInv(m', written')
       /\ \A x \in e : x.key[1] \notin Tails
  BY <1>2, <1>7, <1>10, <1>11 DEF Writes, SpaceDone
<1>13. ASSUME NEW x \in written', NEW y \in written', x.key[1] = "inode",
              y.key = Inline(x.key[2])
       PROVE  y.lo = x.hi /\ y.lo \div BlkSize = (y.hi - 1) \div BlkSize
  <2>1. y.key[1] = "inline"
    BY <1>13 DEF Inline
  <2>2. x \in written /\ y \in written
    BY <1>11, <1>12, <1>13, <2>1 DEF Tails
  <2> QED
    BY <1>2, <1>13, <2>2 DEF InlineInBlock
<1>14. InlineInBlock'
  BY <1>13 DEF InlineInBlock
<1> QED
  BY <1>2, <1>11, <1>12, <1>14 DEF SpaceInv, Building

(* Every step preserves SpaceInv. *)
LEMMA NextSpace ==
  ASSUME LayoutInv, SpaceInv, [Next]_vars
  PROVE  SpaceInv'
<1>1. CASE UNCHANGED vars
  BY <1>1 DEF SpaceInv, InlineInBlock, vars
<1>2. CASE Next
  BY <1>2, SpaceReserveSb, SpaceInitDevices, SpaceSharedXattrs, SpaceFileJob, SpaceDirJob,
     SpaceDirBhJob, SpaceBuildDone, SpaceDumpBlobs, SpaceFlushAll, SpaceWriteSb DEF Next
<1> QED
  BY <1>1, <1>2

(* SpaceInv holds in every state of a build of an image. *)
LEMMA SpaceInvariant == Spec => []SpaceInv
<1>1. Init => SpaceInv
  BY SpaceInit
<1>2. LayoutInv /\ SpaceInv /\ [Next]_vars => SpaceInv'
  BY NextSpace
<1> QED
  BY <1>1, <1>2, LayoutInvariant, PTL DEF Spec

(* What SpaceInv says of the extents is what the property says. *)
LEMMA SpaceImplies == LayoutInv /\ SpaceInv => WritesDisjoint
<1> SUFFICES ASSUME LayoutInv, SpaceInv PROVE WritesDisjoint
  OBVIOUS
<1>1. WroteInv(m, written) /\ TypeInv(m) /\ TileInv(m, plan.start) /\ phase \in Phases
  BY DEF SpaceInv, LayoutInv, MgrInv
<1>2. \A x, y \in written : x # y => x.hi <= y.lo \/ y.hi <= x.lo
  BY <1>1 DEF WroteInv, Beside
<1>3. \A x \in written : x.hi <= m.tail_blkaddr * BlkSize
  BY <1>1, WroteInImage
<1>4. phase = "done" => /\ m.tail_blkaddr = nblocks
                        /\ \A x \in written : x.hi <= nblocks * BlkSize
  BY <1>3 DEF SpaceInv
<1>5. InlineInBlock
  <2>1. CASE phase \in Building
    <3>1. \A x \in written : x.key[1] \notin Tails
      BY <2>1 DEF SpaceInv
    <3> QED
      BY <3>1 DEF InlineInBlock, Tails
  <2>2. CASE phase \in {"writesb", "done"}
    BY <2>2 DEF SpaceInv
  <2> QED
    BY <1>1, <2>1, <2>2 DEF Phases, Building
<1> QED
  BY <1>2, <1>4, <1>5 DEF WritesDisjoint

(* For every plan, block size and slot size: no two extents the build      *)
(* writes overlap - not when a bb is attached to after a part of it was    *)
(* written and dropped, nor when it grows, nor at the flush; inline data   *)
(* is written right behind its inode and does not cross a block; and when  *)
(* the super block is written, everything lies within the blocks it        *)
(* records.                                                                *)
THEOREM WritesStayDisjoint == Spec => []WritesDisjoint
BY LayoutInvariant, SpaceInvariant, SpaceImplies, PTL
=============================================================================
