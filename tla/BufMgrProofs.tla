---------------------------- MODULE BufMgrProofs ----------------------------
(***************************************************************************)
(* Every function of the buffer manager preserves MgrInv, for every block  *)
(* and slot size: the mapped bbs are a prefix of the list in address       *)
(* order, the buckets are exact, the blocks of the bbs tile the image, the *)
(* metadata blocks are counted, every bh is found by its key, and no       *)
(* DBG_BUGON has fired.                                                    *)
(*                                                                         *)
(* The functions are operators from manager to manager, and each has a     *)
(* lemma XIs that says what it changes (XDone) and a lemma XInv that says  *)
(* it preserves MgrInv.  What its callers rely on beyond that is that the  *)
(* bhs they did not name stay where they are (Kept, Changed), and that     *)
(* what a dropped bh occupied is not given to another (XSpace, SpaceDone). *)
(*                                                                         *)
(* The loops of erofs_mapbh and erofs_bflush are recursive functions over  *)
(* an interval.  That such a function exists, and what its last value is,  *)
(* is shown by a least counterexample (NatMin).                            *)
(***************************************************************************)
EXTENDS BufMgr, FiniteSetTheorems, WellFoundedInduction, TLAPS
-----------------------------------------------------------------------------
(* Arithmetic *)

(* A quotient is known by its bounds. *)
LEMMA DivUnique ==
  ASSUME NEW a \in Nat \ {0}, NEW x \in Int, NEW q \in Int, q * a <= x, x < q * a + a
  PROVE  x \div a = q /\ x % a = x - q * a
OBVIOUS

(* What \div and % are for any divisor. *)
LEMMA DivBounds ==
  ASSUME NEW a \in Nat \ {0}, NEW x \in Int
  PROVE  /\ x \div a \in Int
         /\ (x \div a) * a <= x
         /\ x < (x \div a) * a + a
         /\ x % a = x - (x \div a) * a
         /\ x % a \in 0..(a - 1)
OBVIOUS

(* Rounding up reaches the next multiple of the alignment. *)
LEMMA RoundUpIs ==
  ASSUME NEW a \in Nat \ {0}, NEW x \in Nat
  PROVE  \E q \in Nat : /\ RoundUp(x, a) = q * a
                        /\ x <= q * a
                        /\ q * a < x + a
<1> DEFINE q == (x + a - 1) \div a
<1>1. q \in Int /\ q * a <= x + a - 1 /\ x + a - 1 < q * a + a
  BY DivBounds
<1>2. q \in Nat
  BY <1>1
<1> QED
  BY <1>1, <1>2 DEF RoundUp

(* Rounding up moves by less than the alignment. *)
LEMMA RoundUpBounds ==
  ASSUME NEW a \in Nat \ {0}, NEW x \in Nat
  PROVE  RoundUp(x, a) \in Nat /\ x <= RoundUp(x, a) /\ RoundUp(x, a) < x + a
<1>1. PICK q \in Nat : RoundUp(x, a) = q * a /\ x <= q * a /\ q * a < x + a
  BY RoundUpIs
<1>2. q * a \in Nat
  BY <1>1
<1> QED
  BY <1>1, <1>2

(* A multiple of the alignment within reach is the one rounded up to. *)
LEMMA RoundUpUnique ==
  ASSUME NEW a \in Nat \ {0}, NEW x \in Nat, NEW q \in Int, x <= q * a, q * a < x + a
  PROVE  RoundUp(x, a) = q * a
<1>1. q * a <= x + a - 1 /\ x + a - 1 < q * a + a
  OBVIOUS
<1>2. (x + a - 1) \div a = q
  BY <1>1, DivUnique
<1> QED
  BY <1>2 DEF RoundUp

(* A multiple of the alignment is not passed over. *)
LEMMA RoundUpLeast ==
  ASSUME NEW a \in Nat \ {0}, NEW x \in Nat, NEW k \in Int, x <= k * a
  PROVE  RoundUp(x, a) <= k * a
<1>1. PICK q \in Nat : RoundUp(x, a) = q * a /\ q * a < x + a
  BY RoundUpIs
<1>2. q * a < (k + 1) * a
  BY <1>1
<1>3. q < k + 1
  BY <1>2
<1>4. q * a <= k * a
  BY <1>3
<1> QED
  BY <1>1, <1>4

(* Rounding up commutes with moving by multiples of the alignment. *)
LEMMA RoundUpShift ==
  ASSUME NEW a \in Nat \ {0}, NEW x \in Nat, NEW k \in Int, x + k * a \in Nat
  PROVE  RoundUp(x + k * a, a) = RoundUp(x, a) + k * a
<1>1. PICK q \in Nat : RoundUp(x, a) = q * a /\ x <= q * a /\ q * a < x + a
  BY RoundUpIs
<1>2. (q + k) * a = q * a + k * a
  BY <1>1
<1>3. RoundUp(x + k * a, a) = (q + k) * a
  BY <1>1, <1>2, RoundUpUnique
<1> QED
  BY <1>1, <1>2, <1>3

(* The alignments of the buffer manager. *)
Divisor(a) == a \in Nat \ {0} /\ \E c \in Nat : BlkSize = c * a

(* A block is not empty. *)
LEMMA BlkPos == BlkSize \in Nat \ {0}
BY BlkAssumption

(* Every alignment get_alignsize returns divides the block size. *)
LEMMA AlignDivides ==
  ASSUME NEW what \in {"DATA", "DIRA", "INODE", "DEVT", "XATTR", "META"}
  PROVE  Divisor(AlignSize(what))
<1>1. \A a \in Nat \ {0} : BlkSize % a = 0 => Divisor(a)
  <2> TAKE a \in Nat \ {0}
  <2> HAVE BlkSize % a = 0
  <2>1. BlkSize = (BlkSize \div a) * a /\ BlkSize \div a \in Int
    BY BlkPos, DivBounds
  <2>2. BlkSize \div a \in Nat
    BY <2>1, BlkPos
  <2> QED
    BY <2>1, <2>2 DEF Divisor
<1>2. Divisor(BlkSize) /\ Divisor(1)
  BY BlkPos DEF Divisor
<1>3. Divisor(Islot) /\ Divisor(DevtSlot) /\ Divisor(XattrSlot)
  BY <1>1, BlkAssumption
<1> QED
  BY <1>2, <1>3 DEF AlignSize

(* The number of blocks of x units. *)
LEMMA BlkRoundUpIs ==
  ASSUME NEW x \in Nat
  PROVE  /\ BlkRoundUp(x) \in Nat
         /\ x <= BlkRoundUp(x) * BlkSize
         /\ BlkRoundUp(x) * BlkSize < x + BlkSize
<1>1. PICK q \in Nat : RoundUp(x, BlkSize) = q * BlkSize
                       /\ x <= q * BlkSize /\ q * BlkSize < x + BlkSize
  BY BlkPos, RoundUpIs
<1>2. (q * BlkSize) \div BlkSize = q
  BY BlkPos, DivUnique
<1> QED
  BY <1>1, <1>2 DEF BlkRoundUp

(* A number of blocks is known by its bounds. *)
LEMMA BlkRoundUpUnique ==
  ASSUME NEW x \in Nat, NEW n \in Int, x <= n * BlkSize, n * BlkSize < x + BlkSize
  PROVE  BlkRoundUp(x) = n
<1>1. RoundUp(x, BlkSize) = n * BlkSize
  BY BlkPos, RoundUpUnique
<1>2. (n * BlkSize) \div BlkSize = n
  BY BlkPos, DivUnique
<1> QED
  BY <1>1, <1>2 DEF BlkRoundUp

(* x takes no more blocks than any run of blocks that holds it. *)
LEMMA BlkRoundUpLeast ==
  ASSUME NEW x \in Nat, NEW n \in Int, x <= n * BlkSize
  PROVE  BlkRoundUp(x) <= n
<1> DEFINE r == BlkRoundUp(x)
<1>1. r \in Nat /\ r * BlkSize < x + BlkSize
  BY BlkRoundUpIs
<1> HIDE DEF r
<1>2. r * BlkSize < (n + 1) * BlkSize
  BY <1>1, BlkPos
<1>3. r < n + 1
  BY <1>1, <1>2, BlkPos
<1> QED
  BY <1>1, <1>3 DEF r

(* What is longer takes at least as many blocks. *)
LEMMA BlkRoundUpMono ==
  ASSUME NEW x \in Nat, NEW y \in Nat, x <= y
  PROVE  BlkRoundUp(x) <= BlkRoundUp(y)
BY BlkRoundUpLeast, BlkRoundUpIs, BlkPos

(* Nothing takes no block. *)
LEMMA BlkRoundUpZero == BlkRoundUp(0) = 0
BY BlkRoundUpUnique, BlkPos

(* What x occupies of its last block. *)
LEMMA InBlockIs ==
  ASSUME NEW x \in Nat
  PROVE  /\ InBlock(x) = x - (BlkRoundUp(x) - 1) * BlkSize
         /\ InBlock(x) \in 1..BlkSize
<1> DEFINE r == BlkRoundUp(x)
<1>1. r \in Nat /\ x <= r * BlkSize /\ r * BlkSize < x + BlkSize
  BY BlkRoundUpIs
<1> HIDE DEF r
<1>2. (r - 1) * BlkSize = r * BlkSize - BlkSize
  BY <1>1, BlkPos
<1>3. (r - 1) * BlkSize <= x - 1 /\ x - 1 < (r - 1) * BlkSize + BlkSize
  BY <1>1, <1>2, BlkPos
<1>4. (x - 1) % BlkSize = (x - 1) - (r - 1) * BlkSize
  <2> DEFINE y == x - 1  q == r - 1
  <2>1. y \in Int /\ q \in Int /\ q * BlkSize <= y /\ y < q * BlkSize + BlkSize
    BY <1>1, <1>3
  <2> HIDE DEF y, q
  <2>2. y % BlkSize = y - q * BlkSize
    BY <2>1, BlkPos, DivUnique
  <2> QED
    BY <2>2 DEF y, q
<1>5. InBlock(x) = x - (r - 1) * BlkSize
  BY <1>1, <1>2, <1>4, BlkPos DEF InBlock
<1> QED
  BY <1>1, <1>2, <1>3, <1>5, BlkPos DEF r

(* What is attached behind off ends past the last block of off or not.     *)
LEMMA OobIs ==
  ASSUME NEW off \in Nat, NEW a, Divisor(a)
  PROVE  /\ RoundUp(InBlock(off), a) = RoundUp(off, a) - (BlkRoundUp(off) - 1) * BlkSize
         /\ RoundUp(off, a) <= BlkRoundUp(off) * BlkSize
         /\ off <= RoundUp(off, a)
         /\ RoundUp(off, a) \in Nat
<1> DEFINE r == BlkRoundUp(off)
<1>1. r \in Nat /\ off <= r * BlkSize
  BY BlkRoundUpIs
<1>2. a \in Nat \ {0}
  BY DEF Divisor
<1>3. PICK c \in Nat : BlkSize = c * a
  BY DEF Divisor
<1>4. InBlock(off) = off - (r - 1) * BlkSize /\ InBlock(off) \in Nat
  BY InBlockIs, BlkPos
<1> HIDE DEF r
<1> DEFINE k == (1 - r) * c
<1>5. k \in Int /\ k * a = (1 - r) * BlkSize /\ (1 - r) * BlkSize = 0 - (r - 1) * BlkSize
  BY <1>1, <1>2, <1>3, BlkPos
<1> HIDE DEF k
<1>6. off + k * a \in Nat /\ InBlock(off) = off + k * a
  BY <1>1, <1>4, <1>5, BlkPos
<1>7. RoundUp(off + k * a, a) = RoundUp(off, a) + k * a
  BY <1>2, <1>5, <1>6, RoundUpShift
<1>8. RoundUp(off, a) \in Nat /\ off <= RoundUp(off, a)
  BY <1>2, RoundUpBounds
<1>9. RoundUp(off, a) <= (r * c) * a
  <2>1. (r * c) * a = r * BlkSize /\ r * c \in Int
    BY <1>1, <1>2, <1>3
  <2> QED
    BY <1>1, <1>2, <2>1, RoundUpLeast
<1>10. (r * c) * a = r * BlkSize
  BY <1>1, <1>2, <1>3
<1>11. (r - 1) * BlkSize \in Int
  BY <1>1, BlkPos
<1> QED
  BY <1>5, <1>6, <1>7, <1>8, <1>9, <1>10, <1>11 DEF r
-----------------------------------------------------------------------------
(* Sequences without repetition *)

Once(q) == \A p, r \in 1..Len(q) : q[p] = q[r] => p = r
Has(q, x) == \E p \in 1..Len(q) : q[p] = x

(* The minimum of one number. *)
LEMMA MinOfOne ==
  ASSUME NEW p \in Int
  PROVE  Min({p}) = p
BY DEF Min

(* The elements of a concatenation. *)
LEMMA ConcatIs ==
  ASSUME NEW S, NEW c \in Seq(S), NEW d \in Seq(S)
  PROVE  /\ c \o d \in Seq(S)
         /\ Len(c \o d) = Len(c) + Len(d)
         /\ \A n \in 1..(Len(c) + Len(d)) :
              (c \o d)[n] = IF n <= Len(c) THEN c[n] ELSE d[n - Len(c)]
OBVIOUS

(* The elements of a part of a sequence. *)
LEMMA SubSeqIs ==
  ASSUME NEW S, NEW q \in Seq(S), NEW a \in 1..(Len(q) + 1), NEW z \in 0..Len(q), a <= z + 1
  PROVE  /\ SubSeq(q, a, z) \in Seq(S)
         /\ Len(SubSeq(q, a, z)) = z - a + 1
         /\ \A n \in 1..(z - a + 1) : SubSeq(q, a, z)[n] = q[n + a - 1]
OBVIOUS

(* r is q without its element at p. *)
Removed(q, r, p) ==
  /\ Len(r) = Len(q) - 1
  /\ \A n \in 1..(p - 1) : r[n] = q[n]
  /\ \A n \in p..(Len(q) - 1) : r[n] = q[n + 1]

(* The elements left when one of them is removed. *)
LEMMA RemoveAtIs ==
  ASSUME NEW S, NEW q \in Seq(S), NEW p \in 1..Len(q), NEW r, r = RemoveAt(q, p)
  PROVE  r \in Seq(S) /\ Removed(q, r, p)
<1> DEFINE c == SubSeq(q, 1, p - 1)  d == SubSeq(q, p + 1, Len(q))
<1>1. c \in Seq(S) /\ Len(c) = p - 1 /\ \A n \in 1..(p - 1) : c[n] = q[n]
  <2>1. /\ c \in Seq(S) /\ Len(c) = (p - 1) - 1 + 1
        /\ \A n \in 1..((p - 1) - 1 + 1) : c[n] = q[n + 1 - 1]
    BY SubSeqIs
  <2> HIDE DEF c
  <2> QED
    BY <2>1
<1>2. /\ d \in Seq(S) /\ Len(d) = Len(q) - p
      /\ \A n \in 1..(Len(q) - p) : d[n] = q[n + p]
  <2>1. /\ d \in Seq(S) /\ Len(d) = Len(q) - (p + 1) + 1
        /\ \A n \in 1..(Len(q) - (p + 1) + 1) : d[n] = q[n + (p + 1) - 1]
    BY SubSeqIs
  <2> HIDE DEF d
  <2>2. \A n \in Int : n + (p + 1) - 1 = n + p
    OBVIOUS
  <2> QED
    BY <2>1, <2>2
<1>3. r = c \o d
  BY DEF RemoveAt
<1> HIDE DEF c, d
<1>4. /\ c \o d \in Seq(S)
      /\ Len(c \o d) = Len(c) + Len(d)
      /\ \A n \in 1..(Len(c) + Len(d)) :
           (c \o d)[n] = IF n <= Len(c) THEN c[n] ELSE d[n - Len(c)]
  BY <1>1, <1>2, ConcatIs
<1>5. Len(q) \in Nat /\ p \in Nat
  OBVIOUS
<1>6. /\ r \in Seq(S) /\ Len(r) = Len(q) - 1
      /\ \A n \in 1..(Len(q) - 1) : r[n] = IF n <= p - 1 THEN c[n] ELSE d[n - (p - 1)]
  BY <1>1, <1>2, <1>3, <1>4, <1>5
<1>7. ASSUME NEW n \in 1..(p - 1)
      PROVE  r[n] = q[n]
  <2>0. p \in 1..Len(q)
    OBVIOUS
  <2>1. n \in 1..(Len(q) - 1) /\ n <= p - 1
    BY <1>5, <2>0
  <2>2. r[n] = c[n]
    BY <1>6, <2>1
  <2> QED
    BY <1>1, <2>2
<1>8. ASSUME NEW n \in p..(Len(q) - 1)
      PROVE  r[n] = q[n + 1]
  <2>1. n - (p - 1) \in 1..(Len(q) - p) /\ (n - (p - 1)) + p = n + 1
    BY <1>5
  <2>2. d[n - (p - 1)] = q[n + 1]
    BY <1>2, <2>1
  <2>3. p \in 1..Len(q)
    OBVIOUS
  <2>4. n \in 1..(Len(q) - 1) /\ ~(n <= p - 1)
    BY <1>5, <2>3
  <2>5. r[n] = d[n - (p - 1)]
    BY <1>6, <2>4
  <2> QED
    BY <2>2, <2>5
<1> QED
  BY <1>6, <1>7, <1>8 DEF Removed

(* In a sequence without repetition, the first x is the x. *)
LEMMA RemoveFirstAt ==
  ASSUME NEW S, NEW q \in Seq(S), NEW p \in 1..Len(q), Once(q)
  PROVE  RemoveFirst(q, q[p]) = RemoveAt(q, p)
<1>1. {r \in 1..Len(q) : q[r] = q[p]} = {p}
  BY DEF Once
<1>2. \E i \in 1..Len(q) : q[i] = q[p]
  OBVIOUS
<1>3. Min({p}) = p
  BY MinOfOne
<1> QED
  BY <1>1, <1>2, <1>3 DEF RemoveFirst, SelectInSeq

(* What is not there is not removed. *)
LEMMA RemoveFirstNone ==
  ASSUME NEW q, NEW x, ~Has(q, x)
  PROVE  RemoveFirst(q, x) = q
BY DEF RemoveFirst, Has

(* list_del: the element is gone, the others stay, each once. *)
LEMMA RemoveFirstIs ==
  ASSUME NEW S, NEW q \in Seq(S), NEW x, Once(q)
  PROVE  /\ RemoveFirst(q, x) \in Seq(S)
         /\ Once(RemoveFirst(q, x))
         /\ \A y : Has(RemoveFirst(q, x), y) <=> Has(q, y) /\ y # x
<1>1. CASE ~Has(q, x)
  <2>1. RemoveFirst(q, x) = q
    BY <1>1, RemoveFirstNone
  <2> QED
    BY <1>1, <2>1 DEF Has
<1>2. CASE Has(q, x)
  <2>1. PICK p \in 1..Len(q) : q[p] = x
    BY <1>2 DEF Has
  <2> DEFINE r == RemoveFirst(q, x)
  <2>2. r = RemoveAt(q, p)
    BY <2>1, RemoveFirstAt
  <2>3. /\ r \in Seq(S) /\ Len(r) = Len(q) - 1
        /\ \A n \in 1..(Len(q) - 1) : r[n] = IF n < p THEN q[n] ELSE q[n + 1]
    <3>1. r \in Seq(S) /\ Removed(q, r, p)
      BY <2>2, RemoveAtIs
    <3>2. Len(q) \in Nat
      OBVIOUS
    <3> HIDE DEF r
    <3> QED
      BY <3>1, <3>2 DEF Removed
  <2> HIDE DEF r
  <2>4. Once(r)
    BY <2>3 DEF Once
  <2>5. ASSUME NEW y, Has(r, y) PROVE Has(q, y) /\ y # x
    <3>1. PICK n \in 1..Len(r) : r[n] = y
      BY <2>5 DEF Has
    <3> QED
      BY <2>1, <2>3, <3>1 DEF Has, Once
  <2>6. ASSUME NEW y, Has(q, y), y # x PROVE Has(r, y)
    <3>1. PICK n \in 1..Len(q) : q[n] = y
      BY <2>6 DEF Has
    <3>2. CASE n < p
      <4>1. n \in 1..Len(r) /\ r[n] = y
        BY <2>1, <2>3, <3>1, <3>2
      <4> QED
        BY <4>1 DEF Has
    <3>3. CASE n > p
      <4>1. n - 1 \in 1..Len(r) /\ r[n - 1] = y
        BY <2>1, <2>3, <3>1, <3>3
      <4> QED
        BY <4>1 DEF Has
    <3> QED
      BY <2>1, <2>6, <3>1, <3>2, <3>3
  <2> QED
    BY <2>3, <2>4, <2>5, <2>6 DEF r
<1> QED
  BY <1>1, <1>2

(* list_add_tail of a new element keeps the elements distinct. *)
LEMMA AppendIs ==
  ASSUME NEW S, NEW q \in Seq(S), NEW x \in S, Once(q), ~Has(q, x)
  PROVE  /\ Append(q, x) \in Seq(S)
         /\ Once(Append(q, x))
         /\ \A y : Has(Append(q, x), y) <=> Has(q, y) \/ y = x
<1> DEFINE r == Append(q, x)
<1>1. /\ r \in Seq(S) /\ Len(r) = Len(q) + 1 /\ r[Len(r)] = x
      /\ \A n \in 1..Len(q) : r[n] = q[n]
  OBVIOUS
<1> HIDE DEF r
<1>2. Once(r)
  BY <1>1 DEF Once, Has
<1>3. ASSUME NEW y PROVE Has(r, y) <=> Has(q, y) \/ y = x
  BY <1>1 DEF Has
<1> QED
  BY <1>1, <1>2, <1>3 DEF r

(* r is q with x inserted at p. *)
Inserted(q, r, p, x) ==
  /\ Len(r) = Len(q) + 1
  /\ r[p] = x
  /\ \A n \in 1..(p - 1) : r[n] = q[n]
  /\ \A n \in (p + 1)..(Len(q) + 1) : r[n] = q[n - 1]

(* list_add puts the new element where it should. *)
LEMMA InsertedIs ==
  ASSUME NEW S, NEW q \in Seq(S), NEW p \in 1..(Len(q) + 1), NEW x \in S,
         NEW r, r = InsertAt(q, p, x)
  PROVE  r \in Seq(S) /\ Inserted(q, r, p, x)
<1> DEFINE a == SubSeq(q, 1, p - 1)  c == SubSeq(q, p, Len(q))
<1>1. a \in Seq(S) /\ Len(a) = p - 1 /\ \A n \in 1..(p - 1) : a[n] = q[n]
  OBVIOUS
<1>2. c \in Seq(S) /\ Len(c) = Len(q) - p + 1
      /\ \A n \in 1..(Len(q) - p + 1) : c[n] = q[n + p - 1]
  OBVIOUS
<1>3. r = (a \o <<x>>) \o c
  BY DEF InsertAt
<1> HIDE DEF a, c
<1> DEFINE d == a \o <<x>>
<1>4. d \in Seq(S) /\ Len(d) = p /\ d[p] = x /\ \A n \in 1..(p - 1) : d[n] = q[n]
  BY <1>1
<1>5. r = d \o c
  BY <1>3
<1> HIDE DEF d
<1>6. /\ d \o c \in Seq(S)
      /\ Len(d \o c) = Len(d) + Len(c)
      /\ \A n \in 1..(Len(d) + Len(c)) :
           (d \o c)[n] = IF n <= Len(d) THEN d[n] ELSE c[n - Len(d)]
  BY <1>2, <1>4, ConcatIs
<1>7. Len(q) \in Nat /\ p \in Nat
  OBVIOUS
<1>8. /\ r \in Seq(S) /\ Len(r) = Len(q) + 1
      /\ \A n \in 1..(Len(q) + 1) : r[n] = IF n <= p THEN d[n] ELSE c[n - p]
  BY <1>2, <1>4, <1>5, <1>6, <1>7
<1>9. r[p] = x /\ \A n \in 1..(p - 1) : r[n] = q[n]
  BY <1>4, <1>7, <1>8
<1>10. ASSUME NEW n \in (p + 1)..(Len(q) + 1)
       PROVE  r[n] = q[n - 1]
  <2>1. n - p \in 1..(Len(q) - p + 1) /\ (n - p) + p - 1 = n - 1
    BY <1>7
  <2>2. c[n - p] = q[n - 1]
    BY <1>2, <2>1
  <2> QED
    BY <1>7, <1>8, <2>2
<1> QED
  BY <1>8, <1>9, <1>10 DEF Inserted
-----------------------------------------------------------------------------
(* Managers *)

(* The types of bbs, the fill levels of a block and the values a manager   *)
(* can have.                                                               *)
Types == {"DATA", "META"}
Levels == 0..(BlkSize - 1)
KeyKinds == {"sb", "devt", "xattr", "blob", "inode", "inline", "data"}
KeySet == KeyKinds \X Nat
BhSet == [key : KeySet, off : Nat, len : Nat, op : {"skip", "write"}]
BlockSet == [type : Types, blkaddr : Nat \cup {NULL_ADDR}, off : Nat, bhs : Seq(BhSet)]
Managers ==
  [list : Seq(Nat), bb : Seq(BlockSet), nr : Nat,
   buckets : [Types -> [Levels -> Seq(Nat)]], tail_blkaddr : Nat,
   last_mapped : Nat, metablkcnt : Nat, bug : BOOLEAN]

(* Bb i is on the list, and has an address. *)
On(s, i) == Has(s.list, i)
Mapped(s, i) == s.bb[i].blkaddr # NULL_ADDR

(* A manager in which the list and every bucket hold a bb at most once. *)
TypeInv(s) ==
  /\ s \in Managers /\ Len(s.bb) = s.nr
  /\ Once(s.list)
  /\ \A p \in 1..Len(s.list) : s.list[p] \in 1..s.nr
  /\ \A t \in Types, o \in Levels : Once(s.buckets[t][o])

(* The first k bbs of the list are mapped. *)
PrefixAt(s, k) ==
  /\ k \in 0..Len(s.list)
  /\ s.last_mapped = IF k = 0 THEN HEAD ELSE s.list[k]
  /\ \A p \in 1..Len(s.list) :
       /\ Mapped(s, s.list[p]) <=> p <= k
       /\ p <= k => EndBlk(s, s.list[p]) <= s.tail_blkaddr
       /\ 1 < p /\ p <= k => EndBlk(s, s.list[p - 1]) <= s.bb[s.list[p]].blkaddr
PrefixInv(s) == \E k \in Nat : PrefixAt(s, k)

(* A bucket holds exactly the mapped bbs of its type and fill level. *)
BucketInv(s) ==
  \A t \in Types, o \in Levels : \A y :
    Has(s.buckets[t][o], y) <=> /\ On(s, y) /\ Mapped(s, y)
                                /\ s.bb[y].type = t /\ s.bb[y].off % BlkSize = o

(* Every block from start to the end of the image is in exactly one bb, on *)
(* the list or gone.                                                       *)
Holds(s, i, b) == /\ Mapped(s, i)
                  /\ s.bb[i].blkaddr <= b /\ b < EndBlk(s, i)
TileInv(s, start) ==
  /\ start \in Nat /\ start <= s.tail_blkaddr
  /\ \A b \in Nat : start <= b /\ b < s.tail_blkaddr <=> \E i \in 1..s.nr : Holds(s, i, b)
  /\ \A i, k \in 1..s.nr : \A b \in Nat : Holds(s, i, b) /\ Holds(s, k, b) => i = k

(* metablkcnt counts the metadata blocks given up, on top of what it held. *)
Gone(s) == {b \in Nat : \E i \in 1..s.nr : ~On(s, i) /\ s.bb[i].type = "META" /\ Holds(s, i, b)}
MetaInv(s, junk) == junk \in Nat /\ s.metablkcnt = junk + Cardinality(Gone(s))

(* The bh called key is the n-th of bb i; a key names one bh. *)
At(s, key, i, n) == On(s, i) /\ n \in 1..Len(s.bb[i].bhs) /\ s.bb[i].bhs[n].key = key
HasKey(s, key) == \E i \in 1..s.nr, n \in Nat : At(s, key, i, n)
KeyInv(s) ==
  \A key \in KeySet : \A i, k \in 1..s.nr : \A n, l \in Nat :
    At(s, key, i, n) /\ At(s, key, k, l) => i = k /\ n = l

(* The invariant of the manager. *)
MgrInv(s, start, junk) ==
  /\ TypeInv(s) /\ PrefixInv(s) /\ BucketInv(s)
  /\ TileInv(s, start) /\ MetaInv(s, junk) /\ KeyInv(s)
  /\ ~s.bug

(* The typing facts the proofs cite. *)
LEMMA TypeUse ==
  ASSUME NEW s, TypeInv(s)
  PROVE  /\ s.list \in Seq(Nat) /\ s.bb \in Seq(BlockSet) /\ s.nr \in Nat
         /\ s.buckets \in [Types -> [Levels -> Seq(Nat)]]
         /\ s.tail_blkaddr \in Nat /\ s.last_mapped \in Nat /\ s.metablkcnt \in Nat
         /\ s.bug \in BOOLEAN
         /\ Len(s.bb) = s.nr
         /\ \A i \in 1..s.nr : s.bb[i] \in BlockSet
         /\ \A i : On(s, i) => i \in 1..s.nr
BY DEF TypeInv, Managers, On, Has

(* The fields of a bb. *)
LEMMA BlockUse ==
  ASSUME NEW b \in BlockSet
  PROVE  /\ b.type \in Types /\ b.off \in Nat /\ b.bhs \in Seq(BhSet)
         /\ b.blkaddr \in Nat \cup {-1} /\ NULL_ADDR = -1
BY DEF BlockSet, NULL_ADDR

(* A bb ends at or behind its address. *)
LEMMA EndUse ==
  ASSUME NEW s, TypeInv(s), NEW i \in 1..s.nr
  PROVE  /\ EndBlk(s, i) \in Int
         /\ EndBlk(s, i) >= s.bb[i].blkaddr
         /\ Mapped(s, i) => s.bb[i].blkaddr \in Nat /\ EndBlk(s, i) \in Nat
         /\ s.bb[i].off \in Nat
<1>1. s.bb[i] \in BlockSet
  BY TypeUse
<1>2. BlkRoundUp(s.bb[i].off) \in Nat
  BY <1>1, BlockUse, BlkRoundUpIs
<1> QED
  BY <1>1, <1>2, BlockUse DEF EndBlk, Mapped

(* The position of a bb on the list. *)
LEMMA PosIs ==
  ASSUME NEW s, TypeInv(s), NEW p \in 1..Len(s.list)
  PROVE  PosOf(s, s.list[p]) = p
<1>1. s.list \in Seq(Nat) /\ Once(s.list)
  BY DEF TypeInv, Managers
<1>2. {r \in 1..Len(s.list) : s.list[r] = s.list[p]} = {p}
  BY <1>1 DEF Once
<1>3. Min({p}) = p
  BY <1>1, MinOfOne
<1> QED
  BY <1>2, <1>3 DEF PosOf, SelectInSeq

(* In the buckets of type ty0, bb i is at level lvl and nowhere else. *)
Rebucketed(old, new, ty0, i, lvl) ==
  \A ty \in Types, o \in Levels : \A y :
    Has(new[ty][o], y) <=> IF ty = ty0
                           THEN \/ Has(old[ty][o], y) /\ y # i
                                \/ y = i /\ lvl = o
                           ELSE Has(old[ty][o], y)

(* Buckets after erofs_bupdate_mapped. *)
UpdateDone(s, t, i) ==
  /\ TypeInv(t)
  /\ t.list = s.list /\ t.bb = s.bb /\ t.nr = s.nr
  /\ t.tail_blkaddr = s.tail_blkaddr /\ t.last_mapped = s.last_mapped
  /\ t.metablkcnt = s.metablkcnt /\ t.bug = s.bug
  /\ ~Mapped(s, i) => t.buckets = s.buckets
  /\ Mapped(s, i) =>
       Rebucketed(s.buckets, t.buckets, s.bb[i].type, i, s.bb[i].off % BlkSize)

(* erofs_bupdate_mapped moves the bb to its bucket and changes nothing else. *)
LEMMA UpdateMappedIs ==
  ASSUME NEW s, TypeInv(s), NEW i \in 1..s.nr, NEW t, t = UpdateMapped(s, i)
  PROVE  UpdateDone(s, t, i)
<1> SUFFICES /\ TypeInv(t)
             /\ t.list = s.list /\ t.bb = s.bb /\ t.nr = s.nr
             /\ t.tail_blkaddr = s.tail_blkaddr /\ t.last_mapped = s.last_mapped
             /\ t.metablkcnt = s.metablkcnt /\ t.bug = s.bug
             /\ ~Mapped(s, i) => t.buckets = s.buckets
             /\ Mapped(s, i) =>
                  Rebucketed(s.buckets, t.buckets, s.bb[i].type, i, s.bb[i].off % BlkSize)
  BY DEF UpdateDone
<1> DEFINE bt == s.bb[i].type
           new == [o \in Levels |->
               IF o = s.bb[i].off % BlkSize THEN Append(RemoveFirst(s.buckets[bt][o], i), i)
                                            ELSE RemoveFirst(s.buckets[bt][o], i)]
<1>1. CASE ~Mapped(s, i)
  <2>1. t = s
    BY <1>1 DEF UpdateMapped, Mapped
  <2> QED
    BY <1>1, <2>1
<1>2. CASE Mapped(s, i)
  <2>1. s.bb[i] \in BlockSet /\ bt \in Types /\ i \in Nat
    BY TypeUse, BlockUse
  <2>2. s.buckets \in [Types -> [Levels -> Seq(Nat)]]
    BY TypeUse
  <2>3. \A o \in Levels : s.buckets[bt][o] \in Seq(Nat) /\ Once(s.buckets[bt][o])
    BY <2>1, <2>2 DEF TypeInv
  <2>4. DOMAIN s.buckets[bt] = Levels
    BY <2>1, <2>2
  <2>5. t = [s EXCEPT !.buckets[bt] = new]
    BY <1>2, <2>4 DEF UpdateMapped, Mapped
  <2>6. ASSUME NEW o \in Levels
        PROVE  /\ new[o] \in Seq(Nat) /\ Once(new[o])
               /\ \A y : Has(new[o], y) <=>
                    \/ Has(s.buckets[bt][o], y) /\ y # i
                    \/ y = i /\ s.bb[i].off % BlkSize = o
    <3> DEFINE r == RemoveFirst(s.buckets[bt][o], i)
    <3>1. /\ r \in Seq(Nat) /\ Once(r)
          /\ \A y : Has(r, y) <=> Has(s.buckets[bt][o], y) /\ y # i
      BY <2>3, RemoveFirstIs
    <3>2. ~Has(r, i)
      BY <3>1
    <3>3. /\ Append(r, i) \in Seq(Nat) /\ Once(Append(r, i))
          /\ \A y : Has(Append(r, i), y) <=> Has(r, y) \/ y = i
      <4> HIDE DEF r
      <4> QED
        BY <2>1, <3>1, <3>2, AppendIs
    <3>4. new[o] = IF o = s.bb[i].off % BlkSize THEN Append(r, i) ELSE r
      OBVIOUS
    <3> HIDE DEF r, new
    <3> QED
      BY <3>1, <3>3, <3>4
  <2>7. new \in [Levels -> Seq(Nat)]
    <3>1. \A o \in Levels : new[o] \in Seq(Nat)
      BY <2>6
    <3> QED
      BY <3>1
  <2> HIDE DEF new
  <2> DEFINE bk == [s.buckets EXCEPT ![bt] = new]
  <2>8. bk \in [Types -> [Levels -> Seq(Nat)]]
    BY <2>2, <2>7
  <2>9. /\ bk[bt] = new
        /\ \A ty \in Types : ty # bt => bk[ty] = s.buckets[ty]
    BY <2>1, <2>2
  <2> HIDE DEF bt
  <2>10. t = [s EXCEPT !.buckets = bk] /\ s \in Managers
    BY <2>5 DEF TypeInv, Managers
  <2> HIDE DEF bk
  <2>11. /\ t.list = s.list /\ t.bb = s.bb /\ t.nr = s.nr
         /\ t.tail_blkaddr = s.tail_blkaddr /\ t.last_mapped = s.last_mapped
         /\ t.metablkcnt = s.metablkcnt /\ t.bug = s.bug
         /\ t.buckets = bk
         /\ t \in Managers
    BY <2>8, <2>10 DEF Managers
  <2>12. \A ty \in Types, o \in Levels : Once(bk[ty][o])
    BY <2>6, <2>9 DEF TypeInv
  <2>13. TypeInv(t)
    BY <2>11, <2>12 DEF TypeInv
  <2>14. ASSUME NEW ty \in Types, NEW o \in Levels, NEW y
         PROVE  Has(bk[ty][o], y) <=>
                IF ty = bt
                THEN \/ Has(s.buckets[ty][o], y) /\ y # i
                     \/ y = i /\ s.bb[i].off % BlkSize = o
                ELSE Has(s.buckets[ty][o], y)
    BY <2>6, <2>9
  <2>15. Rebucketed(s.buckets, bk, bt, i, s.bb[i].off % BlkSize)
    BY <2>14 DEF Rebucketed
  <2> QED
    BY <1>2, <2>11, <2>13, <2>15 DEF bt
<1> QED
  BY <1>1, <1>2

(* A manager with another bb i and another end of the image. *)
Put(s, i, b, tail) == [s EXCEPT !.bb[i] = b, !.tail_blkaddr = tail]

(* What replacing one bb and the end of the image changes. *)
LEMMA PutIs ==
  ASSUME NEW s, TypeInv(s), NEW i \in 1..s.nr, NEW b \in BlockSet, NEW tail \in Nat
  PROVE  LET t == Put(s, i, b, tail) IN
         /\ TypeInv(t)
         /\ t.list = s.list /\ t.nr = s.nr /\ t.buckets = s.buckets
         /\ t.tail_blkaddr = tail /\ t.last_mapped = s.last_mapped
         /\ t.metablkcnt = s.metablkcnt /\ t.bug = s.bug
         /\ t.bb[i] = b
         /\ \A k \in 1..s.nr : k # i => t.bb[k] = s.bb[k]
<1> DEFINE t == Put(s, i, b, tail)
           bb == [s.bb EXCEPT ![i] = b]
<1>1. s \in Managers /\ Len(s.bb) = s.nr /\ s.bb \in Seq(BlockSet)
  BY TypeUse DEF TypeInv
<1>2. /\ bb \in Seq(BlockSet) /\ Len(bb) = s.nr /\ bb[i] = b
      /\ \A k \in 1..s.nr : k # i => bb[k] = s.bb[k]
  BY <1>1
<1>3. t = [s EXCEPT !.bb = bb, !.tail_blkaddr = tail]
  BY <1>1 DEF Put, Managers
<1> HIDE DEF bb, t
<1>4. /\ t.list = s.list /\ t.nr = s.nr /\ t.buckets = s.buckets
      /\ t.tail_blkaddr = tail /\ t.last_mapped = s.last_mapped
      /\ t.metablkcnt = s.metablkcnt /\ t.bug = s.bug
      /\ t.bb = bb
      /\ t \in Managers
  BY <1>1, <1>2, <1>3 DEF Managers
<1>5. TypeInv(t)
  BY <1>2, <1>4 DEF TypeInv
<1> QED
  BY <1>2, <1>4, <1>5 DEF t

(* A bb replaced, and the end of the image. *)
PutDone(v, t, i, b, a) ==
  /\ TypeInv(t)
  /\ t.list = v.list /\ t.nr = v.nr /\ t.buckets = v.buckets
  /\ t.tail_blkaddr = a /\ t.last_mapped = v.last_mapped
  /\ t.metablkcnt = v.metablkcnt /\ t.bug = v.bug
  /\ t.bb[i] = b
  /\ \A k \in 1..v.nr : k # i => t.bb[k] = v.bb[k]

(* PutIs with its conclusion named. *)
LEMMA PutUse ==
  ASSUME NEW v, TypeInv(v), NEW i \in 1..v.nr, NEW b \in BlockSet, NEW a \in Nat,
         NEW t, t = Put(v, i, b, a)
  PROVE  PutDone(v, t, i, b, a)
BY PutIs DEF PutDone

(* A DBG_BUGON that does not fire changes nothing. *)
LEMMA BugIs ==
  ASSUME NEW s, TypeInv(s), NEW c \in BOOLEAN
  PROVE  LET t == Bug(s, c) IN
         /\ TypeInv(t)
         /\ t.list = s.list /\ t.bb = s.bb /\ t.nr = s.nr /\ t.buckets = s.buckets
         /\ t.tail_blkaddr = s.tail_blkaddr /\ t.last_mapped = s.last_mapped
         /\ t.metablkcnt = s.metablkcnt
         /\ t.bug = (s.bug \/ c)
         /\ ~c => t = s
<1> DEFINE t == Bug(s, c)
<1>1. s \in Managers /\ s.bug \in BOOLEAN
  BY DEF TypeInv, Managers
<1>2. t = [s EXCEPT !.bug = s.bug \/ c]
  BY <1>1 DEF Bug, Managers
<1>3. s.bug \/ c \in BOOLEAN
  OBVIOUS
<1>4. ~c => (s.bug \/ c) = s.bug
  BY <1>1
<1> HIDE DEF t
<1>5. /\ t.list = s.list /\ t.bb = s.bb /\ t.nr = s.nr /\ t.buckets = s.buckets
      /\ t.tail_blkaddr = s.tail_blkaddr /\ t.last_mapped = s.last_mapped
      /\ t.metablkcnt = s.metablkcnt
      /\ t.bug = (s.bug \/ c)
  BY <1>1, <1>2 DEF Managers
<1>6. t \in Managers
  BY <1>1, <1>2, <1>3 DEF Managers
<1>7. ~c => t = s
  BY <1>1, <1>2, <1>4 DEF Managers
<1>8. TypeInv(t)
  BY <1>5, <1>6 DEF TypeInv
<1> QED
  BY <1>5, <1>7, <1>8 DEF t

Extended(s, i, incr, align, extra) ==
  /\ Oob(s, i, incr, align, extra) >= 0 /\ Mapped(s, i) /\ TailUpdate(s, i)

AttachDone(s, t, i, q, off, ext) ==
  /\ TypeInv(t)
  /\ t.list = s.list /\ t.nr = s.nr /\ t.last_mapped = s.last_mapped
  /\ t.metablkcnt = s.metablkcnt /\ t.bug = s.bug
  /\ \A k \in 1..s.nr : k # i => t.bb[k] = s.bb[k]
  /\ t.bb[i].type = s.bb[i].type /\ t.bb[i].blkaddr = s.bb[i].blkaddr
  /\ t.bb[i].off = off /\ t.bb[i].bhs = s.bb[i].bhs \o q
  /\ t.tail_blkaddr = IF ext THEN NewTail(s, i, off) ELSE s.tail_blkaddr
  /\ ~Mapped(s, i) => t.buckets = s.buckets
  /\ Mapped(s, i) => Rebucketed(s.buckets, t.buckets, s.bb[i].type, i, off % BlkSize)

(* What __erofs_battach changes. *)
LEMMA AttachIs ==
  ASSUME NEW s, TypeInv(s), NEW i \in 1..s.nr, NEW q \in Seq(BhSet), NEW incr \in Nat,
         NEW align, Divisor(align), NEW extra \in Nat,
         NEW t, t = Attach(s, i, q, incr, align, extra)
  PROVE  AttachDone(s, t, i, q, AttachedOff(s, i, incr, align),
                    Extended(s, i, incr, align, extra))
<1> DEFINE off == AttachedOff(s, i, incr, align)
           b == [s.bb[i] EXCEPT !.off = off, !.bhs = @ \o q]
           tail == IF Extended(s, i, incr, align, extra)
                   THEN NewTail(s, i, off) ELSE s.tail_blkaddr
           u == Put(s, i, b, tail)
<1>1. s.bb[i] \in BlockSet /\ s.tail_blkaddr \in Nat /\ s \in Managers /\ s.bb \in Seq(BlockSet)
      /\ i \in 1..Len(s.bb)
  BY TypeUse DEF TypeInv
<1>2. off \in Nat
  <2>1. s.bb[i].off \in Nat
    BY <1>1, BlockUse
  <2>2. RoundUp(s.bb[i].off, align) \in Nat
    BY <2>1, OobIs
  <2> QED
    BY <2>2 DEF AttachedOff
<1>3. tail \in Nat
  <2>1. BlkRoundUp(off) \in Nat
    BY <1>2, BlkRoundUpIs
  <2>2. Mapped(s, i) => s.bb[i].blkaddr \in Nat
    BY EndUse
  <2> QED
    BY <1>1, <2>1, <2>2 DEF NewTail, Extended
<1>4. /\ b \in BlockSet /\ b.type = s.bb[i].type /\ b.blkaddr = s.bb[i].blkaddr
      /\ b.off = off /\ b.bhs = s.bb[i].bhs \o q
  <2>1. s.bb[i].bhs \o q \in Seq(BhSet)
    BY <1>1, BlockUse, ConcatIs
  <2> HIDE DEF off
  <2> QED
    BY <1>1, <1>2, <2>1 DEF BlockSet
<1>5. t = UpdateMapped(u, i)
  <2>1. u = [s EXCEPT !.bb[i].off = off, !.bb[i].bhs = @ \o q, !.tail_blkaddr = tail]
    <3> HIDE DEF off, tail
    <3> QED
      BY <1>1 DEF Put, Managers, BlockSet
  <2>2. tail = IF /\ Oob(s, i, incr, align, extra) >= 0
                  /\ s.bb[i].blkaddr # NULL_ADDR
                  /\ TailUpdate(s, i)
               THEN NewTail(s, i, off) ELSE s.tail_blkaddr
    BY DEF Extended, Mapped
  <2>3. t = UpdateMapped([s EXCEPT !.bb[i].off = off, !.bb[i].bhs = @ \o q,
                                   !.tail_blkaddr =
                             IF /\ Oob(s, i, incr, align, extra) >= 0
                                /\ s.bb[i].blkaddr # NULL_ADDR
                                /\ TailUpdate(s, i)
                             THEN NewTail(s, i, off) ELSE @], i)
    BY DEF Attach
  <2> HIDE DEF off, tail, u
  <2> QED
    BY <1>1, <2>1, <2>2, <2>3 DEF Managers
<1> HIDE DEF b, tail
<1>6. /\ TypeInv(u)
      /\ u.list = s.list /\ u.nr = s.nr /\ u.buckets = s.buckets
      /\ u.tail_blkaddr = tail /\ u.last_mapped = s.last_mapped
      /\ u.metablkcnt = s.metablkcnt /\ u.bug = s.bug
      /\ u.bb[i] = b
      /\ \A k \in 1..s.nr : k # i => u.bb[k] = s.bb[k]
  BY <1>3, <1>4, PutIs
<1> HIDE DEF u, off
<1>7. /\ TypeInv(t)
      /\ t.list = u.list /\ t.bb = u.bb /\ t.nr = u.nr
      /\ t.tail_blkaddr = u.tail_blkaddr /\ t.last_mapped = u.last_mapped
      /\ t.metablkcnt = u.metablkcnt /\ t.bug = u.bug
      /\ ~Mapped(u, i) => t.buckets = u.buckets
      /\ Mapped(u, i) =>
           Rebucketed(u.buckets, t.buckets, u.bb[i].type, i, u.bb[i].off % BlkSize)
  <2>1. i \in 1..u.nr
    BY <1>6
  <2> QED
    BY <1>5, <1>6, <2>1, UpdateMappedIs DEF UpdateDone
<1>8. Mapped(u, i) <=> Mapped(s, i)
  BY <1>4, <1>6 DEF Mapped
<1>9. /\ ~Mapped(s, i) => t.buckets = s.buckets
      /\ Mapped(s, i) => Rebucketed(s.buckets, t.buckets, s.bb[i].type, i, off % BlkSize)
  BY <1>4, <1>6, <1>7, <1>8
<1>10. t.tail_blkaddr = IF Extended(s, i, incr, align, extra)
                        THEN NewTail(s, i, off) ELSE s.tail_blkaddr
  BY <1>6, <1>7 DEF tail
<1>11. /\ TypeInv(t)
       /\ t.list = s.list /\ t.nr = s.nr /\ t.last_mapped = s.last_mapped
       /\ t.metablkcnt = s.metablkcnt /\ t.bug = s.bug
       /\ \A k \in 1..s.nr : k # i => t.bb[k] = s.bb[k]
       /\ t.bb[i].type = s.bb[i].type /\ t.bb[i].blkaddr = s.bb[i].blkaddr
       /\ t.bb[i].off = off /\ t.bb[i].bhs = s.bb[i].bhs \o q
  BY <1>4, <1>6, <1>7
<1> QED
  BY <1>9, <1>10, <1>11 DEF off, AttachDone
-----------------------------------------------------------------------------
(* What __erofs_battach does to the blocks *)

(* The list holds each bb once. *)
LEMMA ListUse ==
  ASSUME NEW s, TypeInv(s)
  PROVE  /\ Len(s.list) \in Nat
         /\ \A p \in 1..Len(s.list) : s.list[p] \in 1..s.nr /\ On(s, s.list[p])
         /\ \A p, r \in 1..Len(s.list) : s.list[p] = s.list[r] => p = r
         /\ \A i : On(s, i) => \E p \in 1..Len(s.list) : s.list[p] = i
<1>1. s.list \in Seq(Nat)
  BY TypeUse
<1> QED
  BY <1>1 DEF TypeInv, Once, On, Has

(* Only the last mapped bb and those behind it have no mapped bb next. *)
LEMMA NextIs ==
  ASSUME NEW s, TypeInv(s), NEW k, PrefixAt(s, k), NEW p \in 1..Len(s.list)
  PROVE  NextAddr(s, s.list[p]) = NULL_ADDR <=> p >= k
<1>1. PosOf(s, s.list[p]) = p
  BY PosIs
<1>2. Len(s.list) \in Nat /\ k \in 0..Len(s.list)
  BY ListUse DEF PrefixAt
<1>3. CASE p = Len(s.list)
  <2>1. NextAddr(s, s.list[p]) = NULL_ADDR
    BY <1>1, <1>3 DEF NextAddr
  <2> QED
    BY <1>2, <1>3, <2>1
<1>4. CASE p # Len(s.list)
  <2>1. NextAddr(s, s.list[p]) = s.bb[s.list[p + 1]].blkaddr
    BY <1>1, <1>4 DEF NextAddr
  <2>2. p + 1 \in 1..Len(s.list)
    BY <1>2, <1>4
  <2>3. Mapped(s, s.list[p + 1]) <=> p + 1 <= k
    BY <2>2 DEF PrefixAt
  <2> QED
    BY <1>2, <2>1, <2>3 DEF Mapped
<1> QED
  BY <1>3, <1>4

(* __erofs_battach's oob is how far the attached area, with extra, ends    *)
(* past the last block of the bb; when it is not positive, the bb keeps    *)
(* its blocks.                                                             *)
LEMMA OobUse ==
  ASSUME NEW s, TypeInv(s), NEW i \in 1..s.nr, NEW incr \in Nat,
         NEW align, Divisor(align), NEW extra \in Nat
  PROVE  /\ s.bb[i].off \in Nat
         /\ AttachedOff(s, i, incr, align) \in Nat
         /\ s.bb[i].off <= AttachedOff(s, i, incr, align)
         /\ Oob(s, i, incr, align, extra) =
              AttachedOff(s, i, incr, align) + extra - BlkRoundUp(s.bb[i].off) * BlkSize
         /\ Oob(s, i, incr, align, extra) \in Int
         /\ Oob(s, i, incr, align, extra) <= 0 =>
              BlkRoundUp(AttachedOff(s, i, incr, align)) = BlkRoundUp(s.bb[i].off)
         /\ AttachedOff(s, i, incr, align) = RoundUp(s.bb[i].off, align) + incr
         /\ RoundUp(s.bb[i].off, align) \in Nat /\ s.bb[i].off <= RoundUp(s.bb[i].off, align)
<1> DEFINE off == s.bb[i].off
           new == AttachedOff(s, i, incr, align)
           r == BlkRoundUp(off)
<1>1. off \in Nat
  BY EndUse
<1>2. /\ RoundUp(InBlock(off), align) = RoundUp(off, align) - (r - 1) * BlkSize
      /\ off <= RoundUp(off, align) /\ RoundUp(off, align) \in Nat
  BY <1>1, OobIs
<1>3. new = RoundUp(off, align) + incr
  BY DEF AttachedOff
<1>4. Oob(s, i, incr, align, extra) = RoundUp(InBlock(off), align) + incr + extra - BlkSize
  BY DEF Oob
<1> HIDE DEF off, new
<1>5. r \in Nat
  BY <1>1, BlkRoundUpIs
<1> HIDE DEF r
<1>6. (r - 1) * BlkSize = r * BlkSize - BlkSize /\ r * BlkSize \in Int
  BY <1>5, BlkPos
<1>7. Oob(s, i, incr, align, extra) = new + extra - r * BlkSize
  BY <1>2, <1>3, <1>4, <1>6, BlkPos
<1>8. new \in Nat /\ off <= new
  BY <1>1, <1>2, <1>3
<1>9. Oob(s, i, incr, align, extra) <= 0 => BlkRoundUp(new) = r
  <2> HAVE Oob(s, i, incr, align, extra) <= 0
  <2>1. new <= r * BlkSize
    BY <1>6, <1>7, <1>8
  <2>2. BlkRoundUp(new) <= r
    BY <1>5, <1>8, <2>1, BlkRoundUpLeast
  <2>3. r <= BlkRoundUp(new)
    BY <1>1, <1>8, BlkRoundUpMono DEF r
  <2> QED
    BY <1>5, <1>8, <2>2, <2>3, BlkRoundUpIs
<1> QED
  BY <1>1, <1>2, <1>3, <1>6, <1>7, <1>8, <1>9 DEF off, new, r

(* The part of OobUse that the block count depends on. *)
LEMMA OobFits ==
  ASSUME NEW s, TypeInv(s), NEW i \in 1..s.nr, NEW incr \in Nat,
         NEW align, Divisor(align), NEW extra \in Nat
  PROVE  /\ s.bb[i].off \in Nat
         /\ AttachedOff(s, i, incr, align) \in Nat
         /\ s.bb[i].off <= AttachedOff(s, i, incr, align)
         /\ Oob(s, i, incr, align, extra) \in Int
         /\ Oob(s, i, incr, align, extra) <= 0 =>
              BlkRoundUp(AttachedOff(s, i, incr, align)) = BlkRoundUp(s.bb[i].off)
BY OobUse

(* The blocks of no bb move. *)
SameBlocks(s, t) ==
  /\ t.list = s.list /\ t.nr = s.nr /\ t.last_mapped = s.last_mapped
  /\ t.tail_blkaddr = s.tail_blkaddr /\ t.metablkcnt = s.metablkcnt
  /\ \A k \in 1..s.nr : /\ t.bb[k].blkaddr = s.bb[k].blkaddr
                        /\ t.bb[k].type = s.bb[k].type
                        /\ Mapped(s, k) => EndBlk(t, k) = EndBlk(s, k)

(* The last mapped bb i grows at the end of the image. *)
LastGrows(s, t, i) ==
  /\ t.list = s.list /\ t.nr = s.nr /\ t.last_mapped = s.last_mapped
  /\ t.metablkcnt = s.metablkcnt
  /\ Mapped(s, i) /\ i = s.last_mapped
  /\ s.tail_blkaddr = EndBlk(s, i) /\ t.tail_blkaddr = EndBlk(t, i)
  /\ EndBlk(s, i) <= EndBlk(t, i)
  /\ \A k \in 1..s.nr : /\ t.bb[k].blkaddr = s.bb[k].blkaddr
                        /\ t.bb[k].type = s.bb[k].type
                        /\ k # i => EndBlk(t, k) = EndBlk(s, k)

(* An attach that the checks of __erofs_battach let pass either keeps the  *)
(* blocks of every bb and the end of the image, or grows the bb at the end *)
(* of the image.                                                           *)
LEMMA AttachBlocks ==
  ASSUME NEW s, TypeInv(s), PrefixInv(s), NEW i, On(s, i), NEW q \in Seq(BhSet),
         NEW incr \in Nat, NEW align, Divisor(align), NEW extra \in Nat,
         Attachable(s, i, incr, align, extra),
         NEW t, t = Attach(s, i, q, incr, align, extra)
  PROVE  SameBlocks(s, t) \/ LastGrows(s, t, i)
<1> DEFINE off == AttachedOff(s, i, incr, align)
           ext == Extended(s, i, incr, align, extra)
<1>1. i \in 1..s.nr
  BY TypeUse
<1>2. /\ TypeInv(t)
      /\ t.list = s.list /\ t.nr = s.nr /\ t.last_mapped = s.last_mapped
      /\ t.metablkcnt = s.metablkcnt /\ t.bug = s.bug
      /\ \A k \in 1..s.nr : k # i => t.bb[k] = s.bb[k]
      /\ t.bb[i].type = s.bb[i].type /\ t.bb[i].blkaddr = s.bb[i].blkaddr
      /\ t.bb[i].off = off
      /\ t.tail_blkaddr = IF ext THEN NewTail(s, i, off) ELSE s.tail_blkaddr
  <2>1. AttachDone(s, t, i, q, off, ext)
    BY <1>1, AttachIs
  <2> QED
    BY <2>1 DEF AttachDone
<1>3. /\ s.bb[i].off \in Nat /\ off \in Nat /\ s.bb[i].off <= off
      /\ Oob(s, i, incr, align, extra) \in Int
      /\ Oob(s, i, incr, align, extra) <= 0 => BlkRoundUp(off) = BlkRoundUp(s.bb[i].off)
  BY <1>1, OobFits
<1> HIDE DEF off
<1>4. \A k \in 1..s.nr : k # i => EndBlk(t, k) = EndBlk(s, k)
  BY <1>2 DEF EndBlk
<1>5. EndBlk(t, i) = NewTail(s, i, off)
  BY <1>2 DEF EndBlk, NewTail
<1>6. CASE Oob(s, i, incr, align, extra) <= 0
  <2>1. EndBlk(t, i) = EndBlk(s, i)
    BY <1>2, <1>3, <1>6 DEF EndBlk
  <2>2. t.tail_blkaddr = s.tail_blkaddr
    BY <1>2, <1>5, <2>1 DEF Extended, TailUpdate
  <2>3. SameBlocks(s, t)
    BY <1>1, <1>2, <1>4, <2>1, <2>2 DEF SameBlocks
  <2> QED
    BY <2>3
<1>7. CASE Oob(s, i, incr, align, extra) > 0 /\ Mapped(s, i)
  <2>1. NextAddr(s, i) = NULL_ADDR /\ TailUpdate(s, i)
    BY <1>7 DEF Attachable, Mapped
  <2>2. ext
    BY <1>3, <1>7, <2>1 DEF Extended
  <2>3. PICK k \in Nat : PrefixAt(s, k)
    BY DEF PrefixInv
  <2>4. PICK p \in 1..Len(s.list) : s.list[p] = i
    BY ListUse
  <2>5. p >= k
    BY <2>1, <2>3, <2>4, NextIs
  <2>6. p <= k
    BY <1>7, <2>3, <2>4 DEF PrefixAt
  <2>7. s.last_mapped = i
    BY <2>3, <2>4, <2>5, <2>6 DEF PrefixAt
  <2>8. EndBlk(s, i) <= EndBlk(t, i)
    <3>1. BlkRoundUp(s.bb[i].off) <= BlkRoundUp(off)
      BY <1>3, BlkRoundUpMono
    <3>2. BlkRoundUp(s.bb[i].off) \in Nat /\ BlkRoundUp(off) \in Nat
      BY <1>3, BlkRoundUpIs
    <3>3. s.bb[i].blkaddr \in Nat
      BY <1>1, <1>7, EndUse
    <3> QED
      BY <1>2, <3>1, <3>2, <3>3 DEF EndBlk
  <2>9. LastGrows(s, t, i)
    BY <1>1, <1>2, <1>4, <1>5, <1>7, <2>1, <2>2, <2>7, <2>8 DEF LastGrows, TailUpdate
  <2> QED
    BY <2>9
<1>8. CASE Oob(s, i, incr, align, extra) > 0 /\ ~Mapped(s, i)
  <2>1. SameBlocks(s, t)
    BY <1>1, <1>2, <1>4, <1>8 DEF SameBlocks, Extended
  <2> QED
    BY <2>1
<1> QED
  BY <1>3, <1>6, <1>7, <1>8

(* A step that keeps every block keeps the list order, the tiling and the  *)
(* count of metadata blocks.                                               *)
LEMMA SameBlocksInv ==
  ASSUME NEW s, NEW t, TypeInv(s), TypeInv(t), SameBlocks(s, t), NEW start, NEW junk
  PROVE  /\ \A k : PrefixAt(s, k) => PrefixAt(t, k)
         /\ TileInv(s, start) => TileInv(t, start)
         /\ MetaInv(s, junk) => MetaInv(t, junk)
<1>1. /\ t.list = s.list /\ t.nr = s.nr /\ t.last_mapped = s.last_mapped
      /\ t.tail_blkaddr = s.tail_blkaddr /\ t.metablkcnt = s.metablkcnt
      /\ \A k \in 1..s.nr : /\ Mapped(t, k) <=> Mapped(s, k)
                            /\ t.bb[k].blkaddr = s.bb[k].blkaddr
                            /\ t.bb[k].type = s.bb[k].type
                            /\ Mapped(s, k) => EndBlk(t, k) = EndBlk(s, k)
  BY DEF SameBlocks, Mapped
<1>2. \A p \in 1..Len(s.list) : s.list[p] \in 1..s.nr
  BY ListUse
<1>3. ASSUME NEW k, PrefixAt(s, k)
      PROVE  PrefixAt(t, k)
  <2>1. ASSUME NEW p \in 1..Len(s.list)
        PROVE  /\ Mapped(t, s.list[p]) <=> p <= k
               /\ p <= k => EndBlk(t, s.list[p]) <= t.tail_blkaddr
               /\ 1 < p /\ p <= k => EndBlk(t, s.list[p - 1]) <= t.bb[s.list[p]].blkaddr
    <3>1. s.list[p] \in 1..s.nr /\ k \in Nat /\ p \in Nat
      BY <1>2, <1>3, ListUse DEF PrefixAt
    <3>2. /\ Mapped(s, s.list[p]) <=> p <= k
          /\ p <= k => EndBlk(s, s.list[p]) <= s.tail_blkaddr
          /\ 1 < p /\ p <= k => EndBlk(s, s.list[p - 1]) <= s.bb[s.list[p]].blkaddr
      BY <1>3 DEF PrefixAt
    <3>3. 1 < p /\ p <= k => EndBlk(t, s.list[p - 1]) = EndBlk(s, s.list[p - 1])
      <4> HAVE 1 < p /\ p <= k
      <4>1. p - 1 \in 1..Len(s.list) /\ p - 1 <= k
        BY <3>1, ListUse
      <4>2. Mapped(s, s.list[p - 1])
        BY <1>3, <4>1 DEF PrefixAt
      <4> QED
        BY <1>1, <1>2, <4>1, <4>2
    <3> QED
      BY <1>1, <3>1, <3>2, <3>3
  <2>2. k \in 0..Len(t.list) /\ t.last_mapped = IF k = 0 THEN HEAD ELSE t.list[k]
    BY <1>1, <1>3 DEF PrefixAt
  <2> QED
    BY <1>1, <2>1, <2>2 DEF PrefixAt
<1>4. \A k \in 1..s.nr, b \in Nat : Holds(t, k, b) <=> Holds(s, k, b)
  BY <1>1 DEF Holds
<1>5. TileInv(s, start) => TileInv(t, start)
  BY <1>1, <1>4 DEF TileInv
<1>6. Gone(t) = Gone(s)
  BY <1>1, <1>4 DEF Gone, On
<1> QED
  BY <1>1, <1>3, <1>5, <1>6 DEF MetaInv

(* So does a step that grows the bb at the end of the image. *)
LEMMA LastGrowsInv ==
  ASSUME NEW s, NEW t, NEW i \in 1..s.nr, TypeInv(s), TypeInv(t), LastGrows(s, t, i),
         On(s, i), NEW start, NEW junk, TileInv(s, start), MetaInv(s, junk)
  PROVE  /\ \A k : PrefixAt(s, k) => PrefixAt(t, k)
         /\ TileInv(t, start)
         /\ MetaInv(t, junk)
<1>1. /\ t.list = s.list /\ t.nr = s.nr /\ t.last_mapped = s.last_mapped
      /\ t.metablkcnt = s.metablkcnt
      /\ Mapped(s, i) /\ i = s.last_mapped
      /\ s.tail_blkaddr = EndBlk(s, i) /\ t.tail_blkaddr = EndBlk(t, i)
      /\ EndBlk(s, i) <= EndBlk(t, i)
      /\ \A k \in 1..s.nr : /\ Mapped(t, k) <=> Mapped(s, k)
                            /\ t.bb[k].blkaddr = s.bb[k].blkaddr
                            /\ t.bb[k].type = s.bb[k].type
                            /\ k # i => EndBlk(t, k) = EndBlk(s, k)
  BY DEF LastGrows, Mapped
<1>2. \A p \in 1..Len(s.list) : s.list[p] \in 1..s.nr
  BY ListUse
<1>3. s.tail_blkaddr \in Nat /\ t.tail_blkaddr \in Nat
  BY TypeUse
<1>4. ASSUME NEW k, PrefixAt(s, k)
      PROVE  PrefixAt(t, k)
  <2>0. k \in Nat /\ k \in 0..Len(s.list) /\ Len(s.list) \in Nat
    BY <1>4, ListUse DEF PrefixAt
  <2>1. k # 0 /\ s.list[k] = i
    <3>1. i # HEAD
      BY DEF HEAD
    <3> QED
      BY <1>1, <1>4, <3>1 DEF PrefixAt
  <2>2. ASSUME NEW p \in 1..Len(s.list)
        PROVE  /\ Mapped(t, s.list[p]) <=> p <= k
               /\ p <= k => EndBlk(t, s.list[p]) <= t.tail_blkaddr
               /\ 1 < p /\ p <= k => EndBlk(t, s.list[p - 1]) <= t.bb[s.list[p]].blkaddr
    <3>1. s.list[p] \in 1..s.nr /\ p \in Nat
      BY <1>2, <2>0
    <3>2. /\ Mapped(s, s.list[p]) <=> p <= k
          /\ p <= k => EndBlk(s, s.list[p]) <= s.tail_blkaddr
          /\ 1 < p /\ p <= k => EndBlk(s, s.list[p - 1]) <= s.bb[s.list[p]].blkaddr
      BY <1>4 DEF PrefixAt
    <3>3. 1 < p /\ p <= k => EndBlk(t, s.list[p - 1]) = EndBlk(s, s.list[p - 1])
      <4> HAVE 1 < p /\ p <= k
      <4>1. p - 1 \in 1..Len(s.list) /\ p - 1 # k /\ k \in 1..Len(s.list)
        BY <2>0, <3>1
      <4>2. s.list[p - 1] # i
        BY <2>1, <4>1, ListUse
      <4> QED
        BY <1>1, <1>2, <4>1, <4>2
    <3>4. p <= k => EndBlk(t, s.list[p]) <= t.tail_blkaddr
      <4>1. CASE s.list[p] = i
        BY <1>1, <1>3, <4>1
      <4>2. CASE s.list[p] # i
        <5>1. EndBlk(t, s.list[p]) = EndBlk(s, s.list[p]) /\ EndBlk(s, s.list[p]) \in Int
          BY <1>1, <3>1, <4>2, EndUse
        <5> QED
          BY <1>1, <1>3, <3>2, <5>1
      <4> QED
        BY <4>1, <4>2
    <3> QED
      BY <1>1, <3>1, <3>2, <3>3, <3>4
  <2>3. k \in 0..Len(t.list) /\ t.last_mapped = IF k = 0 THEN HEAD ELSE t.list[k]
    BY <1>1, <1>4 DEF PrefixAt
  <2> QED
    BY <1>1, <2>2, <2>3 DEF PrefixAt
<1>5. \A k \in 1..s.nr, b \in Nat : k # i => (Holds(t, k, b) <=> Holds(s, k, b))
  BY <1>1 DEF Holds
<1>6. \A b \in Nat : Holds(t, i, b) <=> Holds(s, i, b) \/ (s.tail_blkaddr <= b /\ b < t.tail_blkaddr)
  <2>1. s.bb[i].blkaddr \in Nat /\ EndBlk(s, i) >= s.bb[i].blkaddr
    BY <1>1, EndUse
  <2> QED
    BY <1>1, <1>3, <2>1 DEF Holds
<1>7. TileInv(t, start)
  <2>1. /\ start \in Nat /\ start <= s.tail_blkaddr
        /\ \A b \in Nat : start <= b /\ b < s.tail_blkaddr <=> \E k \in 1..s.nr : Holds(s, k, b)
        /\ \A k, l \in 1..s.nr : \A b \in Nat : Holds(s, k, b) /\ Holds(s, l, b) => k = l
    BY DEF TileInv
  <2>2. ASSUME NEW b \in Nat
        PROVE  start <= b /\ b < t.tail_blkaddr <=> \E k \in 1..s.nr : Holds(t, k, b)
    <3>1. (\E k \in 1..s.nr : Holds(t, k, b)) <=>
            (\E k \in 1..s.nr : Holds(s, k, b)) \/ (s.tail_blkaddr <= b /\ b < t.tail_blkaddr)
      BY <1>5, <1>6
    <3> QED
      BY <1>1, <1>3, <2>1, <3>1
  <2>3. ASSUME NEW k \in 1..s.nr, NEW l \in 1..s.nr, NEW b \in Nat, Holds(t, k, b), Holds(t, l, b)
        PROVE  k = l
    <3>1. \A n \in 1..s.nr : Holds(s, n, b) => b < s.tail_blkaddr
      BY <2>1
    <3> QED
      BY <1>3, <1>5, <1>6, <2>1, <2>3, <3>1
  <2> QED
    BY <1>1, <1>3, <2>1, <2>2, <2>3 DEF TileInv
<1>8. Gone(t) = Gone(s)
  BY <1>1, <1>5 DEF Gone, On
<1> QED
  BY <1>1, <1>4, <1>7, <1>8 DEF MetaInv
-----------------------------------------------------------------------------
(* __erofs_battach keeps the invariant *)

(* The bh called key is as it was, and where it was if it had an address.  *)
Kept(s, t, key) ==
  \A i \in 1..s.nr, n \in Nat : At(s, key, i, n) =>
    /\ \E l \in Nat : At(t, key, i, l) /\ t.bb[i].bhs[l] = s.bb[i].bhs[n]
    /\ Mapped(s, i) => t.bb[i].blkaddr = s.bb[i].blkaddr

(* A bh to add, or none. *)
Addable(s, q) == q = << >> \/ \E h \in BhSet : q = <<h>> /\ ~HasKey(s, h.key)

(* The bhs after q was attached to bb i. *)
AttachedAt(s, t, i, q) ==
  /\ \A key, k, n : k # i /\ k \in 1..s.nr => (At(t, key, k, n) <=> At(s, key, k, n))
  /\ \A key, n : At(s, key, i, n) => At(t, key, i, n) /\ t.bb[i].bhs[n] = s.bb[i].bhs[n]
  /\ \A key : \A n \in Nat :
       At(t, key, i, n) <=> \/ At(s, key, i, n)
                            \/ /\ n - Len(s.bb[i].bhs) \in 1..Len(q)
                               /\ q[n - Len(s.bb[i].bhs)].key = key

(* The keys of q were added. *)
KeysAdded(s, t, q) ==
  \A key : HasKey(t, key) <=> HasKey(s, key) \/ \E n \in 1..Len(q) : q[n].key = key
AllKept(s, t) == \A key : Kept(s, t, key)

(* The bhs of an attached bb: the old ones in place, the new behind them. *)
LEMMA AttachAt ==
  ASSUME NEW s, NEW t, NEW i \in 1..s.nr, NEW q \in Seq(BhSet), NEW off, NEW ext,
         TypeInv(s), On(s, i), AttachDone(s, t, i, q, off, ext)
  PROVE  AttachedAt(s, t, i, q)
<1> DEFINE c == s.bb[i].bhs
           d == t.bb[i].bhs
<1>1. /\ t.list = s.list
      /\ \A k \in 1..s.nr : k # i => t.bb[k] = s.bb[k]
      /\ d = c \o q
  BY DEF AttachDone
<1>2. c \in Seq(BhSet)
  BY TypeUse, BlockUse
<1>3. /\ Len(d) = Len(c) + Len(q) /\ Len(c) \in Nat /\ Len(q) \in Nat
      /\ \A n \in 1..(Len(c) + Len(q)) : d[n] = IF n <= Len(c) THEN c[n] ELSE q[n - Len(c)]
  BY <1>1, <1>2, ConcatIs
<1> HIDE DEF c, d
<1>4. ASSUME NEW key, NEW n, At(s, key, i, n)
      PROVE  At(t, key, i, n) /\ d[n] = c[n]
  <2>1. n \in 1..Len(c) /\ c[n].key = key
    BY <1>4 DEF At, c
  <2>2. n \in 1..Len(d) /\ d[n] = c[n]
    BY <1>3, <2>1
  <2> QED
    BY <1>1, <2>1, <2>2 DEF At, On, d
<1>5. ASSUME NEW key, NEW n \in Nat
      PROVE  At(t, key, i, n) <=> \/ At(s, key, i, n)
                                  \/ n - Len(c) \in 1..Len(q) /\ q[n - Len(c)].key = key
  <2>1. At(t, key, i, n) <=> n \in 1..Len(d) /\ d[n].key = key
    BY <1>1 DEF At, On, d
  <2>2. At(s, key, i, n) <=> n \in 1..Len(c) /\ c[n].key = key
    BY DEF At, On, c
  <2>3. CASE n <= Len(c)
    BY <1>3, <2>1, <2>2, <2>3
  <2>4. CASE n > Len(c)
    <3>1. n \in 1..Len(d) <=> n - Len(c) \in 1..Len(q)
      BY <1>3, <2>4
    <3>2. n \in 1..Len(d) => d[n] = q[n - Len(c)]
      BY <1>3, <2>4
    <3>3. ~(n \in 1..Len(c))
      BY <1>3, <2>4
    <3> QED
      BY <2>1, <2>2, <3>1, <3>2, <3>3
  <2> QED
    BY <1>3, <2>3, <2>4
<1>6. \A key, k, n : k # i /\ k \in 1..s.nr => (At(t, key, k, n) <=> At(s, key, k, n))
  BY <1>1 DEF At, On
<1> QED
  BY <1>4, <1>5, <1>6 DEF c, d, AttachedAt

(* Attaching a bh with a new key keeps the keys distinct and every other   *)
(* bh where it was.                                                        *)
LEMMA AttachKeys ==
  ASSUME NEW s, NEW t, NEW i \in 1..s.nr, NEW q \in Seq(BhSet), NEW off, NEW ext,
         TypeInv(s), On(s, i), KeyInv(s), AttachDone(s, t, i, q, off, ext), Addable(s, q)
  PROVE  /\ KeyInv(t)
         /\ AllKept(s, t) /\ KeysAdded(s, t, q)
<1>1. /\ \A key, k, n : k # i /\ k \in 1..s.nr => (At(t, key, k, n) <=> At(s, key, k, n))
      /\ \A key, n : At(s, key, i, n) => At(t, key, i, n) /\ t.bb[i].bhs[n] = s.bb[i].bhs[n]
      /\ \A key : \A n \in Nat :
           At(t, key, i, n) <=> \/ At(s, key, i, n)
                                \/ /\ n - Len(s.bb[i].bhs) \in 1..Len(q)
                                   /\ q[n - Len(s.bb[i].bhs)].key = key
  <2>1. AttachedAt(s, t, i, q)
    BY AttachAt
  <2> QED
    BY <2>1 DEF AttachedAt
<1> DEFINE z == Len(s.bb[i].bhs)
<1>2. z \in Nat
  BY TypeUse, BlockUse
<1>3. /\ t.nr = s.nr /\ t.bb[i].blkaddr = s.bb[i].blkaddr
      /\ \A k \in 1..s.nr : k # i => t.bb[k] = s.bb[k]
  BY DEF AttachDone
<1>4. \/ q = << >> /\ Len(q) = 0
      \/ q # << >> /\ Len(q) = 1 /\ ~HasKey(s, q[1].key)
  BY DEF Addable
<1> HIDE DEF z
<1>5. \A key : \A n \in Nat :
        At(t, key, i, n) <=> \/ At(s, key, i, n)
                             \/ q # << >> /\ n = z + 1 /\ key = q[1].key
  <2> SUFFICES ASSUME NEW key, NEW n \in Nat
               PROVE  (n - z \in 1..Len(q) /\ q[n - z].key = key) <=>
                        (q # << >> /\ n = z + 1 /\ key = q[1].key)
    BY <1>1 DEF z
  <2>1. CASE q = << >>
    BY <1>2, <2>1
  <2>2. CASE q # << >> /\ Len(q) = 1
    <3>1. n - z \in 1..Len(q) <=> n = z + 1
      BY <1>2, <2>2
    <3>2. n = z + 1 => n - z = 1
      BY <1>2
    <3> QED
      BY <2>2, <3>1, <3>2
  <2> QED
    BY <1>4, <2>1, <2>2
<1>6. q # << >> => \A k \in 1..s.nr, n \in Nat : ~At(s, q[1].key, k, n)
  BY <1>4 DEF HasKey
<1>7. KeyInv(t)
  <2> SUFFICES ASSUME NEW key \in KeySet, NEW k \in 1..s.nr, NEW l \in 1..s.nr,
                      NEW n \in Nat, NEW r \in Nat, At(t, key, k, n), At(t, key, l, r)
               PROVE  k = l /\ n = r
    BY <1>3 DEF KeyInv
  <2>1. At(s, key, k, n) /\ At(s, key, l, r) => k = l /\ n = r
    BY DEF KeyInv
  <2>2. At(s, key, k, n) \/ (q # << >> /\ k = i /\ n = z + 1 /\ key = q[1].key)
    BY <1>1, <1>5
  <2>3. At(s, key, l, r) \/ (q # << >> /\ l = i /\ r = z + 1 /\ key = q[1].key)
    BY <1>1, <1>5
  <2> QED
    BY <1>6, <2>1, <2>2, <2>3
<1>8. \A key : Kept(s, t, key)
  <2> SUFFICES ASSUME NEW key, NEW k \in 1..s.nr, NEW n \in Nat, At(s, key, k, n)
               PROVE  /\ At(t, key, k, n) /\ t.bb[k].bhs[n] = s.bb[k].bhs[n]
                      /\ t.bb[k].blkaddr = s.bb[k].blkaddr
    BY DEF Kept
  <2> QED
    BY <1>1, <1>3
<1>9. ASSUME NEW key
      PROVE  HasKey(t, key) <=> HasKey(s, key) \/ \E n \in 1..Len(q) : q[n].key = key
  <2>1. (\E n \in 1..Len(q) : q[n].key = key) <=> q # << >> /\ key = q[1].key
    <3>1. CASE q = << >>
      BY <3>1
    <3>2. CASE q # << >> /\ Len(q) = 1
      BY <3>2
    <3> QED
      BY <1>4, <3>1, <3>2
  <2>2. HasKey(s, key) => HasKey(t, key)
    BY <1>1, <1>3 DEF HasKey
  <2>3. q # << >> /\ key = q[1].key => HasKey(t, key)
    <3> HAVE q # << >> /\ key = q[1].key
    <3>1. z + 1 \in Nat
      BY <1>2
    <3>2. At(t, key, i, z + 1)
      BY <1>5, <3>1
    <3> QED
      BY <1>3, <3>1, <3>2 DEF HasKey
  <2>4. HasKey(t, key) => HasKey(s, key) \/ (q # << >> /\ key = q[1].key)
    <3> HAVE HasKey(t, key)
    <3>1. PICK k \in 1..s.nr, n \in Nat : At(t, key, k, n)
      BY <1>3 DEF HasKey
    <3>2. At(s, key, k, n) \/ (q # << >> /\ key = q[1].key)
      BY <1>1, <1>5, <3>1
    <3> QED
      BY <3>2 DEF HasKey
  <2> QED
    BY <2>1, <2>2, <2>3, <2>4
<1> QED
  BY <1>7, <1>8, <1>9 DEF AllKept, KeysAdded

(* __erofs_battach preserves the invariant of the manager. *)
LEMMA AttachInv ==
  ASSUME NEW s, NEW start, NEW junk, MgrInv(s, start, junk), NEW i, On(s, i),
         NEW q \in Seq(BhSet), Addable(s, q), NEW incr \in Nat,
         NEW align, Divisor(align), NEW extra \in Nat,
         Attachable(s, i, incr, align, extra),
         NEW t, t = Attach(s, i, q, incr, align, extra)
  PROVE  /\ MgrInv(t, start, junk)
         /\ AllKept(s, t) /\ KeysAdded(s, t, q)
         /\ \A k : PrefixAt(s, k) => PrefixAt(t, k)
<1>1. /\ TypeInv(s) /\ PrefixInv(s) /\ BucketInv(s)
      /\ TileInv(s, start) /\ MetaInv(s, junk) /\ KeyInv(s) /\ ~s.bug
  BY DEF MgrInv
<1>2. i \in 1..s.nr
  BY <1>1, TypeUse
<1> DEFINE off == AttachedOff(s, i, incr, align)
           ext == Extended(s, i, incr, align, extra)
<1>3. AttachDone(s, t, i, q, off, ext)
  BY <1>1, <1>2, AttachIs
<1> HIDE DEF off, ext
<1>4. TypeInv(t) /\ ~t.bug
  BY <1>1, <1>3 DEF AttachDone
<1>5. SameBlocks(s, t) \/ LastGrows(s, t, i)
  BY <1>1, AttachBlocks
<1>6. /\ \A k : PrefixAt(s, k) => PrefixAt(t, k)
      /\ TileInv(t, start) /\ MetaInv(t, junk)
  <2>1. CASE SameBlocks(s, t)
    BY <1>1, <1>4, <2>1, SameBlocksInv
  <2>2. CASE LastGrows(s, t, i)
    BY <1>1, <1>2, <1>4, <2>2, LastGrowsInv
  <2> QED
    BY <1>5, <2>1, <2>2
<1>7. PrefixInv(t)
  BY <1>1, <1>6 DEF PrefixInv
<1>8. KeyInv(t) /\ AllKept(s, t) /\ KeysAdded(s, t, q)
  BY <1>1, <1>2, <1>3, AttachKeys
<1>9. BucketInv(t)
  <2>1. /\ t.list = s.list /\ t.nr = s.nr
        /\ \A k \in 1..s.nr : k # i => t.bb[k] = s.bb[k]
        /\ t.bb[i].type = s.bb[i].type /\ t.bb[i].blkaddr = s.bb[i].blkaddr
        /\ t.bb[i].off = off
        /\ ~Mapped(s, i) => t.buckets = s.buckets
        /\ Mapped(s, i) => Rebucketed(s.buckets, t.buckets, s.bb[i].type, i, off % BlkSize)
    BY <1>3 DEF AttachDone
  <2>2. \A y : On(s, y) => y \in 1..s.nr
    BY <1>1, TypeUse
  <2> SUFFICES ASSUME NEW ty \in Types, NEW o \in Levels, NEW y
               PROVE  Has(t.buckets[ty][o], y) <=>
                        /\ On(t, y) /\ Mapped(t, y)
                        /\ t.bb[y].type = ty /\ t.bb[y].off % BlkSize = o
    BY DEF BucketInv
  <2>3. Has(s.buckets[ty][o], y) <=>
          /\ On(s, y) /\ Mapped(s, y)
          /\ s.bb[y].type = ty /\ s.bb[y].off % BlkSize = o
    BY <1>1 DEF BucketInv
  <2>4. On(t, y) <=> On(s, y)
    BY <2>1 DEF On
  <2>5. CASE y # i
    <3>1. On(s, y) => t.bb[y] = s.bb[y]
      BY <2>1, <2>2, <2>5
    <3>2. Has(t.buckets[ty][o], y) <=> Has(s.buckets[ty][o], y)
      BY <2>1, <2>5 DEF Rebucketed
    <3> QED
      BY <2>3, <2>4, <3>1, <3>2 DEF Mapped
  <2>6. CASE y = i /\ ~Mapped(s, i)
    BY <2>1, <2>3, <2>6 DEF Mapped
  <2>7. CASE y = i /\ Mapped(s, i)
    <3>1. Has(t.buckets[ty][o], i) <=> ty = s.bb[i].type /\ off % BlkSize = o
      <4>1. Has(t.buckets[ty][o], i) <=>
              IF ty = s.bb[i].type
              THEN \/ Has(s.buckets[ty][o], i) /\ i # i
                   \/ i = i /\ off % BlkSize = o
              ELSE Has(s.buckets[ty][o], i)
        BY <2>1, <2>7 DEF Rebucketed
      <4> QED
        BY <2>3, <2>7, <4>1
    <3> QED
      BY <2>1, <2>4, <2>7, <3>1 DEF Mapped
  <2> QED
    BY <2>5, <2>6, <2>7
<1> QED
  BY <1>1, <1>4, <1>6, <1>7, <1>8, <1>9 DEF MgrInv
-----------------------------------------------------------------------------
(* A new bb of erofs_balloc *)

NewDone(s, t, ty, pos) ==
  /\ TypeInv(t)
  /\ t.nr = s.nr + 1 /\ t.last_mapped = s.last_mapped /\ t.buckets = s.buckets
  /\ t.tail_blkaddr = s.tail_blkaddr /\ t.metablkcnt = s.metablkcnt /\ t.bug = s.bug
  /\ \A k \in 1..s.nr : t.bb[k] = s.bb[k]
  /\ t.bb[t.nr].type = ty /\ t.bb[t.nr].blkaddr = NULL_ADDR
  /\ t.bb[t.nr].off = 0 /\ t.bb[t.nr].bhs = << >>
  /\ Inserted(s.list, t.list, pos, t.nr)

(* What linking a new bb changes. *)
LEMMA NewIs ==
  ASSUME NEW s, TypeInv(s), NEW ty \in Types, NEW pos \in 1..(Len(s.list) + 1),
         pos = NewPos(s, ty), NEW t, t = NewBlock(s, ty)
  PROVE  NewDone(s, t, ty, pos)
<1> DEFINE b == [type |-> ty, blkaddr |-> NULL_ADDR, off |-> 0, bhs |-> << >>]
           n1 == s.nr + 1
           bb == Append(s.bb, b)
           l == InsertAt(s.list, pos, n1)
<1>1. s \in Managers /\ Len(s.bb) = s.nr /\ s.nr \in Nat /\ s.bb \in Seq(BlockSet)
      /\ s.list \in Seq(Nat)
  BY TypeUse DEF TypeInv
<1>2. b \in BlockSet /\ b.type = ty /\ b.blkaddr = NULL_ADDR /\ b.off = 0 /\ b.bhs = << >>
  BY DEF BlockSet
<1>3. t = [s EXCEPT !.nr = n1, !.list = l, !.bb = bb]
  BY <1>1 DEF NewBlock, Managers
<1>4. n1 \in Nat /\ n1 = s.nr + 1
  BY <1>1
<1> HIDE DEF b, n1
<1>5. /\ bb \in Seq(BlockSet) /\ Len(bb) = n1 /\ bb[n1] = b
      /\ \A k \in 1..s.nr : bb[k] = s.bb[k]
  BY <1>1, <1>2, <1>4
<1>6. l \in Seq(Nat) /\ Inserted(s.list, l, pos, n1)
  BY <1>1, <1>4, InsertedIs
<1> HIDE DEF bb, l
<1>7. /\ t.nr = n1 /\ t.last_mapped = s.last_mapped /\ t.buckets = s.buckets
      /\ t.tail_blkaddr = s.tail_blkaddr /\ t.metablkcnt = s.metablkcnt /\ t.bug = s.bug
      /\ t.bb = bb /\ t.list = l
  BY <1>1, <1>3 DEF Managers
<1>8. t \in Managers
  <2>1. l \in Seq(Nat) /\ bb \in Seq(BlockSet)
    BY <1>5, <1>6
  <2> QED
    BY <1>1, <1>3, <1>4, <2>1 DEF Managers
<1>9. /\ Len(s.list) \in Nat
      /\ \A p \in 1..Len(s.list) : s.list[p] \in 1..s.nr
      /\ \A p, r \in 1..Len(s.list) : s.list[p] = s.list[r] => p = r
  BY ListUse
<1>10. /\ Len(l) = Len(s.list) + 1 /\ l[pos] = n1
       /\ \A n \in 1..(pos - 1) : l[n] = s.list[n] /\ n \in 1..Len(s.list)
       /\ \A n \in (pos + 1)..(Len(s.list) + 1) : l[n] = s.list[n - 1] /\ n - 1 \in 1..Len(s.list)
  BY <1>6, <1>9 DEF Inserted
<1>11. \A n \in 1..Len(l) : n = pos \/ n \in 1..(pos - 1) \/ n \in (pos + 1)..(Len(s.list) + 1)
  BY <1>9, <1>10
<1>12. \A p \in 1..Len(l) : p # pos => l[p] \in 1..s.nr
  BY <1>9, <1>10, <1>11
<1>13. \A p \in 1..Len(l) : l[p] \in 1..n1
  BY <1>1, <1>4, <1>10, <1>12
<1>14. Once(l)
  <2> SUFFICES ASSUME NEW p \in 1..Len(l), NEW r \in 1..Len(l), l[p] = l[r]
               PROVE  p = r
    BY DEF Once
  <2>1. p = pos <=> r = pos
    <3>1. ~(n1 \in 1..s.nr)
      BY <1>1, <1>4
    <3> QED
      BY <1>10, <1>12, <3>1
  <2>2. CASE p \in 1..(pos - 1)
    <3>1. CASE r \in 1..(pos - 1)
      BY <1>9, <1>10, <2>2, <3>1
    <3>2. CASE r \in (pos + 1)..(Len(s.list) + 1)
      <4>1. p = r - 1
        BY <1>9, <1>10, <2>2, <3>2
      <4> QED
        BY <1>9, <2>2, <3>2, <4>1
    <3> QED
      BY <1>11, <2>1, <3>1, <3>2
  <2>3. CASE p \in (pos + 1)..(Len(s.list) + 1)
    <3>1. CASE r \in 1..(pos - 1)
      <4>1. p - 1 = r
        BY <1>9, <1>10, <2>3, <3>1
      <4> QED
        BY <1>9, <2>3, <3>1, <4>1
    <3>2. CASE r \in (pos + 1)..(Len(s.list) + 1)
      <4> DEFINE p1 == p - 1  r1 == r - 1
      <4>2. p1 \in 1..Len(s.list) /\ r1 \in 1..Len(s.list) /\ s.list[p1] = s.list[r1]
        BY <1>10, <2>3, <3>2
      <4> HIDE DEF p1, r1
      <4>3. p1 = r1
        BY <1>9, <4>2
      <4>1. p - 1 = r - 1
        BY <4>3 DEF p1, r1
      <4> QED
        BY <1>9, <2>3, <3>2, <4>1
    <3> QED
      BY <1>11, <2>1, <3>1, <3>2
  <2> QED
    BY <1>11, <2>1, <2>2, <2>3
<1>15. TypeInv(t)
  <2>1. \A ty1 \in Types, o \in Levels : Once(t.buckets[ty1][o])
    BY <1>7 DEF TypeInv
  <2> QED
    BY <1>5, <1>7, <1>8, <1>13, <1>14, <2>1 DEF TypeInv
<1> QED
  BY <1>2, <1>4, <1>5, <1>6, <1>7, <1>15 DEF NewDone

(* A new bb is linked behind the mapped ones; a DATA bb right behind. *)
LEMMA NewPosIs ==
  ASSUME NEW s, TypeInv(s), NEW k, PrefixAt(s, k), NEW ty \in Types
  PROVE  /\ NewPos(s, ty) \in 1..(Len(s.list) + 1)
         /\ NewPos(s, ty) > k
         /\ ty = "DATA" => NewPos(s, ty) = k + 1
         /\ ty # "DATA" => NewPos(s, ty) = Len(s.list) + 1
<1>1. k \in 0..Len(s.list) /\ Len(s.list) \in Nat
  BY ListUse DEF PrefixAt
<1>2. CASE ty # "DATA"
  BY <1>1, <1>2 DEF NewPos
<1>3. CASE ty = "DATA" /\ k = 0
  BY <1>1, <1>3 DEF NewPos, PrefixAt
<1>4. CASE ty = "DATA" /\ k # 0
  <2>1. s.last_mapped = s.list[k] /\ k \in 1..Len(s.list)
    BY <1>1, <1>4 DEF PrefixAt
  <2>2. s.last_mapped # HEAD
    BY <2>1, ListUse DEF HEAD
  <2>3. PosOf(s, s.last_mapped) = k
    BY <2>1, PosIs
  <2> QED
    BY <1>1, <1>4, <2>2, <2>3 DEF NewPos
<1> QED
  BY <1>2, <1>3, <1>4

(* Linking a new bb preserves the invariant. *)
LEMMA NewInv ==
  ASSUME NEW s, NEW start, NEW junk, MgrInv(s, start, junk), NEW ty \in Types,
         NEW k, PrefixAt(s, k), NEW t, t = NewBlock(s, ty)
  PROVE  /\ MgrInv(t, start, junk)
         /\ NewDone(s, t, ty, NewPos(s, ty))
         /\ PrefixAt(t, k)
         /\ On(t, t.nr) /\ t.nr \in 1..t.nr
         /\ AllKept(s, t)
         /\ \A key : HasKey(t, key) <=> HasKey(s, key)
<1> DEFINE pos == NewPos(s, ty)
<1>1. /\ TypeInv(s) /\ PrefixInv(s) /\ BucketInv(s)
      /\ TileInv(s, start) /\ MetaInv(s, junk) /\ KeyInv(s) /\ ~s.bug
  BY DEF MgrInv
<1>2. pos \in 1..(Len(s.list) + 1) /\ pos > k
  BY <1>1, NewPosIs
<1>3. NewDone(s, t, ty, pos)
  BY <1>1, <1>2, NewIs
<1> HIDE DEF pos
<1>4. /\ TypeInv(t)
      /\ t.nr = s.nr + 1 /\ t.last_mapped = s.last_mapped /\ t.buckets = s.buckets
      /\ t.tail_blkaddr = s.tail_blkaddr /\ t.metablkcnt = s.metablkcnt /\ t.bug = s.bug
      /\ \A n \in 1..s.nr : t.bb[n] = s.bb[n]
      /\ t.bb[t.nr].blkaddr = NULL_ADDR /\ t.bb[t.nr].bhs = << >>
      /\ Len(t.list) = Len(s.list) + 1
      /\ t.list[pos] = t.nr
      /\ \A n \in 1..(pos - 1) : t.list[n] = s.list[n]
      /\ \A n \in (pos + 1)..(Len(s.list) + 1) : t.list[n] = s.list[n - 1]
  BY <1>3 DEF NewDone, Inserted
<1>5. s.nr \in Nat /\ Len(s.list) \in Nat /\ k \in 0..Len(s.list)
  BY <1>1, TypeUse, ListUse DEF PrefixAt
<1>6. \A p \in 1..Len(s.list) : s.list[p] \in 1..s.nr
  BY <1>1, ListUse
<1>7. \A y : On(t, y) <=> On(s, y) \/ y = t.nr
  <2>1. ASSUME NEW y, On(t, y) PROVE On(s, y) \/ y = t.nr
    <3>1. PICK n \in 1..Len(t.list) : t.list[n] = y
      BY <2>1 DEF On, Has
    <3>2. CASE n < pos
      <4>1. n \in 1..Len(s.list) /\ s.list[n] = y
        BY <1>2, <1>4, <1>5, <3>1, <3>2
      <4> QED
        BY <4>1 DEF On, Has
    <3>3. CASE n > pos
      <4>1. n - 1 \in 1..Len(s.list) /\ s.list[n - 1] = y
        BY <1>2, <1>4, <1>5, <3>1, <3>3
      <4> QED
        BY <4>1 DEF On, Has
    <3> QED
      BY <1>2, <1>4, <1>5, <3>1, <3>2, <3>3
  <2>2. ASSUME NEW y, On(s, y) PROVE On(t, y)
    <3>1. PICK n \in 1..Len(s.list) : s.list[n] = y
      BY <2>2 DEF On, Has
    <3>2. CASE n < pos
      <4>1. n \in 1..Len(t.list) /\ t.list[n] = y
        BY <1>2, <1>4, <1>5, <3>1, <3>2
      <4> QED
        BY <4>1 DEF On, Has
    <3>3. CASE n >= pos
      <4>1. n + 1 \in 1..Len(t.list) /\ t.list[n + 1] = y
        BY <1>2, <1>4, <1>5, <3>1, <3>3
      <4> QED
        BY <4>1 DEF On, Has
    <3> QED
      BY <1>2, <1>5, <3>2, <3>3
  <2>3. pos \in 1..Len(t.list) /\ t.list[pos] = t.nr
    BY <1>2, <1>4
  <2>4. On(t, t.nr)
    BY <2>3 DEF On, Has
  <2> QED
    BY <2>1, <2>2, <2>4
<1>8. t.nr \in 1..t.nr /\ ~(t.nr \in 1..s.nr) /\ \A n \in 1..t.nr : n # t.nr => n \in 1..s.nr
  BY <1>4, <1>5
<1>9. ~On(s, t.nr)
  BY <1>1, <1>8, TypeUse
<1>10. \A n \in 1..s.nr : /\ Mapped(t, n) <=> Mapped(s, n)
                          /\ EndBlk(t, n) = EndBlk(s, n)
  BY <1>4 DEF Mapped, EndBlk
<1>11. ~Mapped(t, t.nr)
  BY <1>4 DEF Mapped
<1>12. PrefixAt(t, k)
  <2>1. \A p \in 1..k : t.list[p] = s.list[p] /\ s.list[p] \in 1..s.nr
    BY <1>2, <1>4, <1>5, <1>6
  <2>2. ASSUME NEW p \in 1..Len(t.list)
        PROVE  /\ Mapped(t, t.list[p]) <=> p <= k
               /\ p <= k => EndBlk(t, t.list[p]) <= t.tail_blkaddr
               /\ 1 < p /\ p <= k => EndBlk(t, t.list[p - 1]) <= t.bb[t.list[p]].blkaddr
    <3>1. CASE p <= k
      <4>1. p \in 1..k /\ p \in 1..Len(s.list)
        BY <1>5, <3>1
      <4>2. 1 < p => p - 1 \in 1..k
        BY <1>5, <4>1
      <4>3. /\ Mapped(s, s.list[p])
            /\ EndBlk(s, s.list[p]) <= s.tail_blkaddr
            /\ 1 < p => EndBlk(s, s.list[p - 1]) <= s.bb[s.list[p]].blkaddr
        BY <3>1, <4>1 DEF PrefixAt
      <4>4. 1 < p => EndBlk(t, t.list[p - 1]) = EndBlk(s, s.list[p - 1])
        BY <1>10, <2>1, <4>2
      <4> QED
        BY <1>4, <1>10, <2>1, <3>1, <4>1, <4>3, <4>4
    <3>2. CASE p > k
      <4>1. ~Mapped(t, t.list[p])
        <5>1. CASE p = pos
          BY <1>2, <1>4, <1>11, <5>1
        <5>2. CASE p < pos
          <6>1. p \in 1..Len(s.list) /\ t.list[p] = s.list[p] /\ ~(p <= k)
            BY <1>2, <1>4, <1>5, <3>2, <5>2
          <6>2. ~Mapped(s, s.list[p])
            BY <6>1 DEF PrefixAt
          <6> QED
            BY <1>6, <1>10, <6>1, <6>2
        <5>3. CASE p > pos
          <6>1. p - 1 \in 1..Len(s.list) /\ t.list[p] = s.list[p - 1] /\ ~(p - 1 <= k)
            BY <1>2, <1>4, <1>5, <3>2, <5>3
          <6>2. ~Mapped(s, s.list[p - 1])
            BY <6>1 DEF PrefixAt
          <6> QED
            BY <1>6, <1>10, <6>1, <6>2
        <5> QED
          BY <1>2, <1>4, <1>5, <5>1, <5>2, <5>3
      <4> QED
        BY <1>4, <1>5, <3>2, <4>1
    <3> QED
      BY <1>4, <1>5, <3>1, <3>2
  <2>3. k \in 0..Len(t.list)
    BY <1>4, <1>5
  <2>4. t.last_mapped = IF k = 0 THEN HEAD ELSE t.list[k]
    <3>1. s.last_mapped = IF k = 0 THEN HEAD ELSE s.list[k]
      BY DEF PrefixAt
    <3>2. k # 0 => k \in 1..k
      BY <1>5
    <3> QED
      BY <1>4, <2>1, <3>1, <3>2
  <2> QED
    BY <2>2, <2>3, <2>4 DEF PrefixAt
<1>13. k \in Nat
  BY <1>5
<1>14. BucketInv(t)
  <2> SUFFICES ASSUME NEW o1 \in Types, NEW o \in Levels, NEW y
               PROVE  Has(t.buckets[o1][o], y) <=>
                        /\ On(t, y) /\ Mapped(t, y)
                        /\ t.bb[y].type = o1 /\ t.bb[y].off % BlkSize = o
    BY DEF BucketInv
  <2>1. Has(s.buckets[o1][o], y) <=>
          /\ On(s, y) /\ Mapped(s, y)
          /\ s.bb[y].type = o1 /\ s.bb[y].off % BlkSize = o
    BY <1>1 DEF BucketInv
  <2>2. CASE y = t.nr
    BY <1>4, <1>9, <1>11, <2>1, <2>2
  <2>3. CASE y # t.nr
    <3>1. On(s, y) => y \in 1..s.nr
      BY <1>1, TypeUse
    <3> QED
      BY <1>4, <1>7, <1>10, <2>1, <2>3, <3>1
  <2> QED
    BY <2>2, <2>3
<1>15. \A b \in Nat : /\ \A n \in 1..s.nr : Holds(t, n, b) <=> Holds(s, n, b)
                      /\ ~Holds(t, t.nr, b)
  BY <1>4, <1>10, <1>11 DEF Holds
<1>16. \A n \in 1..s.nr : n \in 1..t.nr
  BY <1>4, <1>5
<1>17. TileInv(t, start)
  <2>1. /\ start \in Nat /\ start <= s.tail_blkaddr
        /\ \A b \in Nat : start <= b /\ b < s.tail_blkaddr <=> \E n \in 1..s.nr : Holds(s, n, b)
        /\ \A n, l \in 1..s.nr : \A b \in Nat : Holds(s, n, b) /\ Holds(s, l, b) => n = l
    BY <1>1 DEF TileInv
  <2>2. \A b \in Nat : (\E n \in 1..t.nr : Holds(t, n, b)) <=> (\E n \in 1..s.nr : Holds(s, n, b))
    BY <1>8, <1>15, <1>16
  <2>3. \A b \in Nat, n \in 1..t.nr : Holds(t, n, b) => n \in 1..s.nr /\ Holds(s, n, b)
    BY <1>8, <1>15
  <2>4. \A n, l \in 1..t.nr : \A b \in Nat : Holds(t, n, b) /\ Holds(t, l, b) => n = l
    BY <2>1, <2>3
  <2>5. t.tail_blkaddr = s.tail_blkaddr
    BY <1>4
  <2> QED
    BY <2>1, <2>2, <2>4, <2>5 DEF TileInv
<1>18. Gone(t) = Gone(s)
  <2>1. \A b \in Nat, n \in 1..t.nr : Holds(t, n, b) => n \in 1..s.nr /\ Holds(s, n, b)
    BY <1>8, <1>15
  <2>2. \A n \in 1..s.nr : On(t, n) <=> On(s, n)
    BY <1>7, <1>8
  <2>3. \A n \in 1..s.nr : t.bb[n].type = s.bb[n].type
    BY <1>4
  <2>4. ASSUME NEW b \in Nat
        PROVE  b \in Gone(t) <=> b \in Gone(s)
    BY <1>15, <1>16, <2>1, <2>2, <2>3 DEF Gone
  <2> QED
    BY <2>4 DEF Gone
<1>19. \A key, n : ~At(t, key, t.nr, n)
  <2>1. Len(<< >>) = 0
    OBVIOUS
  <2> QED
    BY <1>4, <2>1 DEF At
<1>20. \A key, n : \A i \in 1..s.nr : At(t, key, i, n) <=> At(s, key, i, n)
  <2>1. \A i \in 1..s.nr : On(t, i) <=> On(s, i)
    BY <1>7, <1>8
  <2> QED
    BY <1>4, <2>1 DEF At
<1>21. KeyInv(t)
  BY <1>1, <1>8, <1>19, <1>20 DEF KeyInv
<1>22. AllKept(s, t)
  BY <1>4, <1>20 DEF AllKept, Kept
<1>23. \A key : HasKey(t, key) <=> HasKey(s, key)
  BY <1>8, <1>16, <1>19, <1>20 DEF HasKey
<1>24. MgrInv(t, start, junk)
  BY <1>1, <1>4, <1>12, <1>13, <1>14, <1>17, <1>18, <1>21 DEF MgrInv, PrefixInv, MetaInv
<1> QED
  BY <1>3, <1>7, <1>8, <1>12, <1>22, <1>23, <1>24 DEF pos
-----------------------------------------------------------------------------
(* Mapping *)

SameKeys(s, t) == \A key : HasKey(t, key) <=> HasKey(s, key)

(* Keeping a bh in place is transitive. *)
LEMMA KeptTrans ==
  ASSUME NEW s, NEW t, NEW u, TypeInv(t), NEW key, Kept(s, t, key), Kept(t, u, key)
  PROVE  Kept(s, u, key)
<1> SUFFICES ASSUME NEW i \in 1..s.nr, NEW n \in Nat, At(s, key, i, n)
             PROVE  /\ \E l \in Nat : At(u, key, i, l) /\ u.bb[i].bhs[l] = s.bb[i].bhs[n]
                    /\ Mapped(s, i) => u.bb[i].blkaddr = s.bb[i].blkaddr
  BY DEF Kept
<1>1. PICK l \in Nat : At(t, key, i, l) /\ t.bb[i].bhs[l] = s.bb[i].bhs[n]
  BY DEF Kept
<1>2. Mapped(s, i) => t.bb[i].blkaddr = s.bb[i].blkaddr
  BY DEF Kept
<1>3. i \in 1..t.nr
  BY <1>1, TypeUse DEF At
<1>4. /\ \E r \in Nat : At(u, key, i, r) /\ u.bb[i].bhs[r] = t.bb[i].bhs[l]
      /\ Mapped(t, i) => u.bb[i].blkaddr = t.bb[i].blkaddr
  BY <1>1, <1>3 DEF Kept
<1> QED
  BY <1>1, <1>2, <1>4 DEF Mapped

(* Keeping all bhs in place is transitive. *)
LEMMA AllKeptTrans ==
  ASSUME NEW s, NEW t, NEW u, TypeInv(t), AllKept(s, t), AllKept(t, u)
  PROVE  AllKept(s, u)
BY KeptTrans DEF AllKept

(* Nothing moves when nothing happens. *)
LEMMA AllKeptSelf ==
  ASSUME NEW s
  PROVE  AllKept(s, s) /\ SameKeys(s, s)
BY DEF AllKept, Kept, SameKeys

MapDone(s, t, i) ==
  /\ TypeInv(t)
  /\ t.list = s.list /\ t.nr = s.nr /\ t.metablkcnt = s.metablkcnt /\ t.bug = s.bug
  /\ t.last_mapped = i
  /\ \A k \in 1..s.nr : k # i => t.bb[k] = s.bb[k]
  /\ t.bb[i].type = s.bb[i].type /\ t.bb[i].off = s.bb[i].off /\ t.bb[i].bhs = s.bb[i].bhs
  /\ t.bb[i].blkaddr = s.tail_blkaddr
  /\ t.tail_blkaddr = s.tail_blkaddr + BlkRoundUp(s.bb[i].off)
  /\ t.tail_blkaddr = EndBlk(t, i)
  /\ Rebucketed(s.buckets, t.buckets, s.bb[i].type, i, s.bb[i].off % BlkSize)

(* The maximum of two numbers. *)
LEMMA MaxOfTwo ==
  ASSUME NEW a \in Int, NEW b \in Int
  PROVE  Max({a, b}) = IF a <= b THEN b ELSE a
<1> DEFINE c == IF a <= b THEN b ELSE a
<1>1. c \in {a, b} /\ \A y \in {a, b} : c >= y
  OBVIOUS
<1>2. \A x \in {a, b} : (\A y \in {a, b} : x >= y) => x = c
  OBVIOUS
<1> QED
  BY <1>1, <1>2 DEF Max

(* What __erofs_mapbh does to a bb without an address. *)
LEMMA MapOneIs ==
  ASSUME NEW s, TypeInv(s), NEW i \in 1..s.nr, ~Mapped(s, i), NEW t, t = MapOne(s, i)
  PROVE  MapDone(s, t, i)
<1> DEFINE b == [s.bb[i] EXCEPT !.blkaddr = s.tail_blkaddr]
           bb == [s.bb EXCEPT ![i] = b]
           u == [s EXCEPT !.bb = bb, !.last_mapped = i]
           v == UpdateMapped(u, i)
           tail == s.tail_blkaddr + BlkRoundUp(s.bb[i].off)
<1>1. s \in Managers /\ Len(s.bb) = s.nr /\ s.bb \in Seq(BlockSet) /\ s.bb[i] \in BlockSet
      /\ s.tail_blkaddr \in Nat /\ i \in Nat /\ s.bb[i].off \in Nat
  BY TypeUse, EndUse DEF TypeInv
<1>2. /\ b \in BlockSet /\ b.type = s.bb[i].type /\ b.off = s.bb[i].off /\ b.bhs = s.bb[i].bhs
      /\ b.blkaddr = s.tail_blkaddr
  BY <1>1 DEF BlockSet
<1>3. t = [v EXCEPT !.tail_blkaddr = MapTail(v, i)]
  <2>1. u = [s EXCEPT !.bb[i].blkaddr = s.tail_blkaddr, !.last_mapped = i]
    BY <1>1 DEF Managers, BlockSet
  <2>2. v = UpdateMapped([s EXCEPT !.bb[i].blkaddr = s.tail_blkaddr, !.last_mapped = i], i)
    BY <2>1
  <2> HIDE DEF u, v
  <2> QED
    BY <2>2 DEF MapOne, Mapped
<1> HIDE DEF b
<1>4. /\ bb \in Seq(BlockSet) /\ Len(bb) = s.nr /\ bb[i] = b
      /\ \A k \in 1..s.nr : k # i => bb[k] = s.bb[k]
  BY <1>1, <1>2
<1> HIDE DEF bb
<1>5. /\ u.list = s.list /\ u.nr = s.nr /\ u.buckets = s.buckets /\ u.last_mapped = i
      /\ u.tail_blkaddr = s.tail_blkaddr /\ u.metablkcnt = s.metablkcnt /\ u.bug = s.bug
      /\ u.bb = bb /\ u \in Managers
  BY <1>1, <1>4 DEF Managers
<1> HIDE DEF u
<1>6. TypeInv(u)
  BY <1>4, <1>5 DEF TypeInv
<1>7. UpdateDone(u, v, i)
  BY <1>5, <1>6, UpdateMappedIs
<1>8. Mapped(u, i)
  BY <1>1, <1>2, <1>4, <1>5 DEF Mapped, NULL_ADDR
<1> HIDE DEF v
<1>9. /\ TypeInv(v) /\ v.list = s.list /\ v.nr = s.nr /\ v.last_mapped = i
      /\ v.tail_blkaddr = s.tail_blkaddr /\ v.metablkcnt = s.metablkcnt /\ v.bug = s.bug
      /\ v.bb = bb
      /\ Rebucketed(s.buckets, v.buckets, s.bb[i].type, i, s.bb[i].off % BlkSize)
  BY <1>2, <1>4, <1>5, <1>7, <1>8 DEF UpdateDone
<1>10. BlkRoundUp(s.bb[i].off) \in Nat
  BY <1>1, BlkRoundUpIs
<1>11. EndBlk(v, i) = tail
  BY <1>2, <1>4, <1>9 DEF EndBlk
<1>12. tail \in Nat /\ s.tail_blkaddr <= tail
  BY <1>1, <1>10
<1> HIDE DEF tail
<1>13. MapTail(v, i) = tail
  BY <1>1, <1>9, <1>11, <1>12, MaxOfTwo DEF MapTail
<1>14. v \in Managers
  BY <1>9 DEF TypeInv
<1>15. /\ t.list = v.list /\ t.nr = v.nr /\ t.buckets = v.buckets /\ t.last_mapped = v.last_mapped
       /\ t.tail_blkaddr = tail /\ t.metablkcnt = v.metablkcnt /\ t.bug = v.bug
       /\ t.bb = v.bb /\ t \in Managers
  BY <1>3, <1>12, <1>13, <1>14 DEF Managers
<1>16. TypeInv(t)
  BY <1>9, <1>15 DEF TypeInv
<1>17. EndBlk(t, i) = tail
  BY <1>11, <1>15 DEF EndBlk
<1>18. /\ \A k \in 1..s.nr : k # i => t.bb[k] = s.bb[k]
       /\ t.bb[i] = b
  BY <1>4, <1>9, <1>15
<1>19. Rebucketed(s.buckets, t.buckets, s.bb[i].type, i, s.bb[i].off % BlkSize)
  BY <1>9, <1>15
<1> QED
  BY <1>2, <1>9, <1>15, <1>16, <1>17, <1>18, <1>19 DEF MapDone, tail

(* A bb that has an address keeps it, and the image its end. *)
LEMMA MapOneSame ==
  ASSUME NEW s, TypeInv(s), NEW i \in 1..s.nr, Mapped(s, i), EndBlk(s, i) <= s.tail_blkaddr
  PROVE  MapOne(s, i) = s
<1>1. s.tail_blkaddr \in Nat /\ EndBlk(s, i) \in Int /\ s \in Managers
  BY TypeUse, EndUse DEF TypeInv
<1>2. MapTail(s, i) = s.tail_blkaddr
  BY <1>1, MaxOfTwo DEF MapTail
<1>3. MapOne(s, i) = [s EXCEPT !.tail_blkaddr = MapTail(s, i)]
  BY DEF MapOne, Mapped
<1> QED
  BY <1>1, <1>2, <1>3 DEF Managers

(* Mapping the first unmapped bb of the list preserves the invariant. *)
LEMMA MapOneInv ==
  ASSUME NEW s, NEW start, NEW junk, MgrInv(s, start, junk), NEW k, PrefixAt(s, k),
         k < Len(s.list), NEW t, t = MapOne(s, s.list[k + 1])
  PROVE  /\ MgrInv(t, start, junk) /\ PrefixAt(t, k + 1)
         /\ MapDone(s, t, s.list[k + 1])
         /\ AllKept(s, t) /\ SameKeys(s, t)
<1> DEFINE i == s.list[k + 1]
<1>1. /\ TypeInv(s) /\ PrefixInv(s) /\ BucketInv(s)
      /\ TileInv(s, start) /\ MetaInv(s, junk) /\ KeyInv(s) /\ ~s.bug
  BY DEF MgrInv
<1>2. k \in 0..Len(s.list) /\ Len(s.list) \in Nat /\ k + 1 \in 1..Len(s.list) /\ k \in Nat
  BY <1>1, ListUse DEF PrefixAt
<1>3. i \in 1..s.nr /\ On(s, i)
  BY <1>1, <1>2, ListUse
<1>4. ~Mapped(s, i)
  BY <1>2 DEF PrefixAt
<1>5. MapDone(s, t, i)
  BY <1>1, <1>3, <1>4, MapOneIs
<1>6. s.list[k + 1] = i
  OBVIOUS
<1> HIDE DEF i
<1>7. /\ TypeInv(t)
      /\ t.list = s.list /\ t.nr = s.nr /\ t.metablkcnt = s.metablkcnt /\ t.bug = s.bug
      /\ t.last_mapped = i
      /\ \A n \in 1..s.nr : n # i => t.bb[n] = s.bb[n]
      /\ t.bb[i].type = s.bb[i].type /\ t.bb[i].off = s.bb[i].off /\ t.bb[i].bhs = s.bb[i].bhs
      /\ t.bb[i].blkaddr = s.tail_blkaddr
      /\ t.tail_blkaddr = EndBlk(t, i)
      /\ Rebucketed(s.buckets, t.buckets, s.bb[i].type, i, s.bb[i].off % BlkSize)
  BY <1>5 DEF MapDone
<1>8. s.tail_blkaddr \in Nat /\ t.tail_blkaddr \in Nat /\ s.tail_blkaddr <= t.tail_blkaddr
  <2>1. i \in 1..t.nr
    BY <1>3, <1>7
  <2>2. EndBlk(t, i) >= t.bb[i].blkaddr
    BY <1>7, <2>1, EndUse
  <2>3. s.tail_blkaddr \in Nat /\ t.tail_blkaddr \in Nat
    BY <1>1, <1>7, TypeUse
  <2> QED
    BY <1>7, <2>2, <2>3
<1>9. Mapped(t, i)
  BY <1>7, <1>8 DEF Mapped, NULL_ADDR
<1>10. \A n \in 1..s.nr : n # i => (Mapped(t, n) <=> Mapped(s, n)) /\ EndBlk(t, n) = EndBlk(s, n)
  BY <1>7 DEF Mapped, EndBlk
<1>11. \A p \in 1..Len(s.list) : s.list[p] \in 1..s.nr /\ (p # k + 1 => s.list[p] # i)
  BY <1>1, <1>2, <1>6, ListUse
<1>12. PrefixAt(t, k + 1)
  <2>1. ASSUME NEW p \in 1..Len(s.list)
        PROVE  /\ Mapped(t, s.list[p]) <=> p <= k + 1
               /\ p <= k + 1 => EndBlk(t, s.list[p]) <= t.tail_blkaddr
               /\ 1 < p /\ p <= k + 1 => EndBlk(t, s.list[p - 1]) <= t.bb[s.list[p]].blkaddr
    <3>1. /\ Mapped(s, s.list[p]) <=> p <= k
          /\ p <= k => EndBlk(s, s.list[p]) <= s.tail_blkaddr
          /\ 1 < p /\ p <= k => EndBlk(s, s.list[p - 1]) <= s.bb[s.list[p]].blkaddr
      BY DEF PrefixAt
    <3>2. CASE p # k + 1
      <4>1. p <= k + 1 <=> p <= k
        BY <1>2, <3>2
      <4>2. EndBlk(s, s.list[p]) \in Int
        BY <1>1, <1>11, EndUse
      <4>3. 1 < p /\ p <= k => EndBlk(t, s.list[p - 1]) = EndBlk(s, s.list[p - 1])
        <5> HAVE 1 < p /\ p <= k
        <5>1. p - 1 \in 1..Len(s.list) /\ p - 1 # k + 1
          BY <1>2
        <5> QED
          BY <1>10, <1>11, <5>1
      <4> QED
        BY <1>7, <1>8, <1>10, <1>11, <3>1, <3>2, <4>1, <4>2, <4>3
    <3>3. CASE p = k + 1
      <4>1. s.list[p] = i
        BY <1>6, <3>3
      <4>2. 1 < p => EndBlk(t, s.list[p - 1]) <= s.tail_blkaddr
        <5> HAVE 1 < p
        <5>1. p - 1 = k /\ k \in 1..Len(s.list) /\ k # k + 1 /\ k <= k
          BY <1>2, <3>3
        <5>2. EndBlk(s, s.list[k]) <= s.tail_blkaddr
          BY <5>1 DEF PrefixAt
        <5> QED
          BY <1>10, <1>11, <5>1, <5>2
      <4>3. t.tail_blkaddr <= t.tail_blkaddr /\ p <= k + 1
        BY <1>2, <1>8, <3>3
      <4> QED
        BY <1>7, <1>9, <4>1, <4>2, <4>3
    <3> QED
      BY <3>2, <3>3
  <2>2. t.last_mapped = IF k + 1 = 0 THEN HEAD ELSE t.list[k + 1]
    BY <1>2, <1>6, <1>7
  <2>3. k + 1 \in 0..Len(t.list)
    BY <1>2, <1>7
  <2> QED
    BY <1>7, <2>1, <2>2, <2>3 DEF PrefixAt
<1>13. \A n \in 1..s.nr, b \in Nat : n # i => (Holds(t, n, b) <=> Holds(s, n, b))
  BY <1>7, <1>10 DEF Holds
<1>14. \A b \in Nat : Holds(t, i, b) <=> s.tail_blkaddr <= b /\ b < t.tail_blkaddr
  BY <1>7, <1>9 DEF Holds
<1>15. \A b \in Nat : ~Holds(s, i, b)
  BY <1>4 DEF Holds
<1>16. TileInv(t, start)
  <2>1. /\ start \in Nat /\ start <= s.tail_blkaddr
        /\ \A b \in Nat : start <= b /\ b < s.tail_blkaddr <=> \E n \in 1..s.nr : Holds(s, n, b)
        /\ \A n, l \in 1..s.nr : \A b \in Nat : Holds(s, n, b) /\ Holds(s, l, b) => n = l
    BY <1>1 DEF TileInv
  <2>2. ASSUME NEW b \in Nat
        PROVE  start <= b /\ b < t.tail_blkaddr <=> \E n \in 1..s.nr : Holds(t, n, b)
    <3>1. (\E n \in 1..s.nr : Holds(t, n, b)) <=>
            (\E n \in 1..s.nr : Holds(s, n, b)) \/ (s.tail_blkaddr <= b /\ b < t.tail_blkaddr)
      BY <1>3, <1>13, <1>14, <1>15
    <3> QED
      BY <1>8, <2>1, <3>1
  <2>3. ASSUME NEW n \in 1..s.nr, NEW l \in 1..s.nr, NEW b \in Nat, Holds(t, n, b), Holds(t, l, b)
        PROVE  n = l
    <3>1. \A r \in 1..s.nr : Holds(s, r, b) => b < s.tail_blkaddr
      BY <2>1
    <3> QED
      BY <1>8, <1>13, <1>14, <2>1, <2>3, <3>1
  <2> QED
    BY <1>7, <1>8, <2>1, <2>2, <2>3 DEF TileInv
<1>17. Gone(t) = Gone(s)
  BY <1>3, <1>7, <1>13 DEF Gone, On
<1>18. \A key, n : \A l \in 1..s.nr : At(t, key, l, n) <=> At(s, key, l, n)
  BY <1>7 DEF At, On
<1>19. \A l \in 1..s.nr : t.bb[l].bhs = s.bb[l].bhs
  BY <1>7
<1>20. KeyInv(t)
  BY <1>1, <1>7, <1>18 DEF KeyInv
<1>21. AllKept(s, t)
  <2>1. \A l \in 1..s.nr : Mapped(s, l) => t.bb[l].blkaddr = s.bb[l].blkaddr
    BY <1>4, <1>7
  <2> QED
    BY <1>18, <1>19, <2>1 DEF AllKept, Kept
<1>22. SameKeys(s, t)
  BY <1>7, <1>18 DEF SameKeys, HasKey
<1>23. BucketInv(t)
  <2> SUFFICES ASSUME NEW ty \in Types, NEW o \in Levels, NEW y
               PROVE  Has(t.buckets[ty][o], y) <=>
                        /\ On(t, y) /\ Mapped(t, y)
                        /\ t.bb[y].type = ty /\ t.bb[y].off % BlkSize = o
    BY DEF BucketInv
  <2>1. Has(s.buckets[ty][o], y) <=>
          /\ On(s, y) /\ Mapped(s, y)
          /\ s.bb[y].type = ty /\ s.bb[y].off % BlkSize = o
    BY <1>1 DEF BucketInv
  <2>2. Has(t.buckets[ty][o], y) <=>
          IF ty = s.bb[i].type
          THEN \/ Has(s.buckets[ty][o], y) /\ y # i
               \/ y = i /\ s.bb[i].off % BlkSize = o
          ELSE Has(s.buckets[ty][o], y)
    BY <1>7 DEF Rebucketed
  <2>3. On(t, y) <=> On(s, y)
    BY <1>7 DEF On
  <2>4. CASE y = i
    BY <1>3, <1>4, <1>7, <1>9, <2>1, <2>2, <2>3, <2>4
  <2>5. CASE y # i
    <3>1. On(s, y) => y \in 1..s.nr
      BY <1>1, TypeUse
    <3>2. Has(t.buckets[ty][o], y) <=> Has(s.buckets[ty][o], y)
      BY <2>2, <2>5
    <3> QED
      BY <1>7, <1>10, <2>1, <2>3, <2>5, <3>1, <3>2
  <2> QED
    BY <2>4, <2>5
<1>24. k + 1 \in Nat
  BY <1>2
<1>25. MgrInv(t, start, junk)
  BY <1>1, <1>7, <1>12, <1>16, <1>17, <1>20, <1>23, <1>24 DEF MgrInv, PrefixInv, MetaInv
<1> QED
  BY <1>5, <1>6, <1>12, <1>21, <1>22, <1>25

(* A set of naturals has a least element. *)
LEMMA NatMin ==
  ASSUME NEW T, T \subseteq Nat, T # {}
  PROVE  \E x \in T : \A y \in T : x <= y
<1>1. IsWellFoundedOn(OpToRel(<, Nat), Nat)
  BY NatLessThanWellFounded
<1>2. \E x \in T : \A y \in T : ~ (<<y, x>> \in OpToRel(<, Nat))
  BY <1>1, WFMin
<1>3. \A x, y \in Nat : x < y => <<x, y>> \in OpToRel(<, Nat)
  BY DEF OpToRel
<1>4. \A x \in T : x \in Nat
  OBVIOUS
<1>5. \E x \in T : \A y \in T : ~(y < x)
  BY <1>2, <1>3, <1>4, Zenon
<1> QED
  BY <1>4, <1>5

(* Steps from the states of f, one for each bb of the list from a on. *)
IsMapRun(f, s, a, z) ==
  f = [p \in a..z |-> IF p = a THEN s ELSE MapStep(f[p - 1], s.list[p])]

(* The recursion of erofs_mapbh's loop defines a function. *)
LEMMA MapRunExists ==
  ASSUME NEW s, NEW a \in Nat, NEW z \in Nat, a <= z
  PROVE  \E f : IsMapRun(f, s, a, z)
<1> DEFINE T == {n \in Nat : a <= n /\ ~\E f : IsMapRun(f, s, a, n)}
<1>1. CASE T = {}
  BY <1>1
<1>2. CASE T # {}
  <2>1. T \subseteq Nat
    OBVIOUS
  <2>2. PICK n \in T : \A y \in T : n <= y
    <3> HIDE DEF T
    <3> QED
      BY <1>2, <2>1, NatMin
  <2>3. n \in Nat /\ a <= n /\ ~\E f : IsMapRun(f, s, a, n)
    BY <2>2
  <2>4. CASE n = a
    <3> DEFINE f == [p \in a..n |-> s]
    <3>1. f = [p \in a..n |-> IF p = a THEN s ELSE MapStep(f[p - 1], s.list[p])]
      <4>1. \A p \in a..n : p = a
        BY <2>4
      <4> QED
        BY <4>1
    <3> QED
      BY <2>3, <3>1 DEF IsMapRun
  <2>5. CASE n # a
    <3>1. n - 1 \in Nat /\ a <= n - 1 /\ ~(n <= n - 1)
      BY <2>3, <2>5
    <3>2. n - 1 \notin T
      BY <2>2, <3>1
    <3>3. PICK g : IsMapRun(g, s, a, n - 1)
      BY <3>1, <3>2
    <3> DEFINE f == [p \in a..n |-> IF p = n THEN MapStep(g[n - 1], s.list[n]) ELSE g[p]]
    <3>4. ASSUME NEW p \in a..n
          PROVE  f[p] = IF p = a THEN s ELSE MapStep(f[p - 1], s.list[p])
      <4>1. \A r \in a..(n - 1) : g[r] = IF r = a THEN s ELSE MapStep(g[r - 1], s.list[r])
        BY <3>3 DEF IsMapRun
      <4>2. CASE p = n
        <5>1. n - 1 \in a..n /\ n - 1 # n
          BY <2>3, <3>1
        <5>2. f[n - 1] = g[n - 1]
          BY <5>1
        <5>3. f[n] = MapStep(g[n - 1], s.list[n])
          BY <4>2
        <5> QED
          BY <2>5, <4>2, <5>2, <5>3
      <4>3. CASE p # n
        <5>1. p \in a..(n - 1)
          BY <2>3, <4>3
        <5>2. f[p] = g[p]
          BY <4>3
        <5>3. CASE p = a
          BY <4>1, <5>1, <5>2, <5>3
        <5>4. CASE p # a
          <6>1. p - 1 \in a..n /\ p - 1 # n
            BY <2>3, <5>1, <5>4
          <6>2. f[p - 1] = g[p - 1]
            BY <6>1
          <6> QED
            BY <4>1, <5>1, <5>2, <5>4, <6>2
        <5> QED
          BY <5>3, <5>4
      <4> QED
        BY <4>2, <4>3
    <3>5. f = [p \in a..n |-> IF p = a THEN s ELSE MapStep(f[p - 1], s.list[p])]
      <4> DEFINE h == [p \in a..n |-> IF p = a THEN s ELSE MapStep(f[p - 1], s.list[p])]
      <4>1. \A p \in a..n : f[p] = h[p]
        BY <3>4
      <4>2. DOMAIN f = a..n /\ DOMAIN h = a..n
        OBVIOUS
      <4>3. f = [p \in a..n |-> f[p]] /\ h = [p \in a..n |-> h[p]]
        OBVIOUS
      <4> HIDE DEF f, h
      <4> QED
        BY <4>1, <4>3 DEF h
    <3> QED
      BY <2>3, <3>5 DEF IsMapRun
  <2> QED
    BY <2>4, <2>5
<1> QED
  BY <1>1, <1>2

MapsBy(s, from, z, f) ==
  /\ MapRun(s, from, z) = f[z]
  /\ f[from - 1] = s
  /\ \A p \in from..z : f[p] = MapStep(f[p - 1], s.list[p])

(* The managers the loop of erofs_mapbh goes through. *)
LEMMA MapRunIs ==
  ASSUME NEW s, NEW from \in Nat \ {0}, NEW z \in Nat, from - 1 <= z
  PROVE  \E f : MapsBy(s, from, z, f)
<1> DEFINE a == from - 1
           f == CHOOSE g : g = [p \in (from - 1)..z |->
                                  IF p = from - 1 THEN s ELSE MapStep(g[p - 1], s.list[p])]
<1>1. MapRun(s, from, z) = f[z]
  BY DEF MapRun
<1>2. a \in Nat /\ a <= z
  OBVIOUS
<1>3. \E g : IsMapRun(g, s, a, z)
  <2> HIDE DEF a
  <2> QED
    BY <1>2, MapRunExists
<1>4. f = [p \in (from - 1)..z |-> IF p = from - 1 THEN s ELSE MapStep(f[p - 1], s.list[p])]
  BY <1>3 DEF IsMapRun
<1> HIDE DEF f
<1>5. \A p \in (from - 1)..z : f[p] = IF p = from - 1 THEN s ELSE MapStep(f[p - 1], s.list[p])
  BY <1>4
<1>6. f[from - 1] = s
  BY <1>2, <1>5
<1>7. \A p \in from..z : f[p] = MapStep(f[p - 1], s.list[p])
  BY <1>5
<1> QED
  BY <1>1, <1>6, <1>7 DEF MapsBy

(* The DBG_BUGON of the loop does not fire for a bb without an address. *)
LEMMA MapStepIs ==
  ASSUME NEW s, TypeInv(s), NEW i, ~Mapped(s, i)
  PROVE  MapStep(s, i) = MapOne(s, i)
BY BugIs DEF MapStep, Mapped

(* The loop of erofs_mapbh preserves the invariant and maps the list up to *)
(* z; the end of the image is then that of the last bb mapped.             *)
LEMMA MapRunInv ==
  ASSUME NEW s, NEW start, NEW junk, MgrInv(s, start, junk), NEW k, PrefixAt(s, k),
         NEW z \in k..Len(s.list), NEW t, t = MapRun(s, k + 1, z)
  PROVE  /\ MgrInv(t, start, junk) /\ PrefixAt(t, z) /\ t.list = s.list /\ t.nr = s.nr
         /\ AllKept(s, t) /\ SameKeys(s, t)
         /\ \A i \in 1..s.nr : /\ t.bb[i].bhs = s.bb[i].bhs
                               /\ t.bb[i].off = s.bb[i].off
                               /\ t.bb[i].type = s.bb[i].type
                               /\ Mapped(s, i) => t.bb[i].blkaddr = s.bb[i].blkaddr
         /\ z > k => t.tail_blkaddr = EndBlk(t, t.last_mapped)
<1>1. k \in Nat /\ z \in Nat /\ Len(s.list) \in Nat /\ k <= z /\ k + 1 \in Nat \ {0}
      /\ k + 1 - 1 = k /\ z <= Len(s.list)
  BY ListUse DEF PrefixAt, MgrInv
<1> DEFINE Q(u, p) ==
             /\ MgrInv(u, start, junk) /\ PrefixAt(u, p) /\ u.list = s.list /\ u.nr = s.nr
             /\ AllKept(s, u) /\ SameKeys(s, u)
             /\ \A i \in 1..s.nr : /\ u.bb[i].bhs = s.bb[i].bhs
                                   /\ u.bb[i].off = s.bb[i].off
                                   /\ u.bb[i].type = s.bb[i].type
                                   /\ Mapped(s, i) => u.bb[i].blkaddr = s.bb[i].blkaddr
             /\ p > k => u.tail_blkaddr = EndBlk(u, u.last_mapped)
<1>2. PICK f : /\ MapRun(s, k + 1, z) = f[z]
               /\ f[k] = s
               /\ \A p \in (k + 1)..z : f[p] = MapStep(f[p - 1], s.list[p])
  <2> DEFINE from == k + 1
  <2>1. from \in Nat \ {0} /\ from - 1 <= z /\ from - 1 = k
    BY <1>1
  <2> HIDE DEF from
  <2>2. PICK f : MapsBy(s, from, z, f)
    BY <1>1, <2>1, MapRunIs
  <2>3. MapRun(s, k + 1, z) = f[z]
    BY <2>2 DEF MapsBy, from
  <2>4. f[k] = s
    BY <2>1, <2>2 DEF MapsBy
  <2>5. \A p \in (k + 1)..z : f[p] = MapStep(f[p - 1], s.list[p])
    BY <2>2 DEF MapsBy, from
  <2> QED
    BY <2>3, <2>4, <2>5, Zenon
<1>3. Q(s, k)
  <2>1. ~(k > k)
    BY <1>1
  <2> QED
    BY <2>1, AllKeptSelf
<1>4. ASSUME NEW p \in k..z, p < z, Q(f[p], p)
      PROVE  Q(f[p + 1], p + 1)
  <2> DEFINE u == f[p]
             v == f[p + 1]
             i == s.list[p + 1]
  <2>1. p + 1 \in (k + 1)..z /\ p + 1 - 1 = p /\ p < Len(s.list)
    BY <1>1, <1>4
  <2>2. v = MapStep(u, i)
    BY <1>2, <2>1
  <2>3. /\ MgrInv(u, start, junk) /\ PrefixAt(u, p) /\ u.list = s.list /\ u.nr = s.nr
        /\ AllKept(s, u) /\ SameKeys(s, u)
        /\ \A n \in 1..s.nr : /\ u.bb[n].bhs = s.bb[n].bhs
                              /\ u.bb[n].off = s.bb[n].off
                              /\ u.bb[n].type = s.bb[n].type
                              /\ Mapped(s, n) => u.bb[n].blkaddr = s.bb[n].blkaddr
    BY <1>4
  <2> HIDE DEF u, v
  <2>4. TypeInv(u)
    BY <2>3 DEF MgrInv
  <2>5. p + 1 \in 1..Len(s.list)
    BY <1>1, <2>1
  <2>6. ~Mapped(u, i)
    <3>1. Mapped(u, u.list[p + 1]) <=> p + 1 <= p
      BY <2>3, <2>5 DEF PrefixAt
    <3>2. ~(p + 1 <= p)
      BY <1>1
    <3> QED
      BY <2>3, <3>1, <3>2
  <2>7. v = MapOne(u, u.list[p + 1])
    BY <2>2, <2>3, <2>4, <2>6, MapStepIs
  <2>8. p < Len(u.list)
    BY <2>1, <2>3
  <2>9. /\ MgrInv(v, start, junk) /\ PrefixAt(v, p + 1)
        /\ MapDone(u, v, u.list[p + 1])
        /\ AllKept(u, v) /\ SameKeys(u, v)
    BY <2>3, <2>7, <2>8, MapOneInv
  <2>10. AllKept(s, v)
    BY <2>3, <2>4, <2>9, AllKeptTrans
  <2>11. SameKeys(s, v)
    BY <2>3, <2>9 DEF SameKeys
  <2>12. /\ v.list = s.list /\ v.nr = s.nr
         /\ \A n \in 1..s.nr : n # i => v.bb[n] = u.bb[n]
         /\ v.bb[i].type = u.bb[i].type /\ v.bb[i].off = u.bb[i].off /\ v.bb[i].bhs = u.bb[i].bhs
         /\ v.tail_blkaddr = EndBlk(v, v.last_mapped)
    BY <2>3, <2>9 DEF MapDone
  <2>121. Mapped(s, i) => Mapped(u, i)
    <3>1. i \in 1..s.nr
      BY <2>3, <2>4, <2>5, ListUse
    <3> QED
      BY <2>3, <3>1 DEF Mapped
  <2>13. \A n \in 1..s.nr : /\ v.bb[n].bhs = s.bb[n].bhs
                            /\ v.bb[n].off = s.bb[n].off
                            /\ v.bb[n].type = s.bb[n].type
                            /\ Mapped(s, n) => v.bb[n].blkaddr = s.bb[n].blkaddr
    BY <2>3, <2>6, <2>12, <2>121
  <2> QED
    BY <2>9, <2>10, <2>11, <2>12, <2>13 DEF v
<1> HIDE DEF Q
<1>5. ASSUME NEW n \in k..z, ~Q(f[n], n)
      PROVE  FALSE
  <2> DEFINE T == {p \in k..z : ~Q(f[p], p)}
  <2>1. T \subseteq Nat /\ T # {}
    BY <1>1, <1>5
  <2>2. PICK p \in T : \A y \in T : p <= y
    <3> HIDE DEF T
    <3> QED
      BY <2>1, NatMin
  <2>3. p \in k..z /\ ~Q(f[p], p)
    BY <2>2
  <2>4. p # k
    BY <1>1, <1>2, <1>3, <2>3
  <2>5. p - 1 \in k..z /\ p - 1 < z /\ ~(p <= p - 1) /\ p - 1 + 1 = p
    BY <1>1, <2>3, <2>4
  <2>6. Q(f[p - 1], p - 1)
    BY <2>2, <2>5
  <2>7. Q(f[p - 1 + 1], p - 1 + 1)
    BY <1>4, <2>5, <2>6
  <2> QED
    BY <2>3, <2>5, <2>7
<1>6. z \in k..z
  BY <1>1
<1>7. Q(t, z)
  BY <1>2, <1>5, <1>6
<1> QED
  BY <1>7 DEF Q

(* Keys are distinct, so a bh is found by its key. *)
LEMMA BlockIs ==
  ASSUME NEW s, TypeInv(s), KeyInv(s), NEW key \in KeySet, NEW i, NEW n, At(s, key, i, n)
  PROVE  BlockOf(s, key) = i /\ BhNr(s, key) = n
<1>1. i \in 1..s.nr /\ n \in Nat /\ n \in 1..Len(s.bb[i].bhs)
  <2>1. i \in 1..s.nr
    BY TypeUse DEF At
  <2>2. Len(s.bb[i].bhs) \in Nat
    BY <2>1, TypeUse, BlockUse
  <2> QED
    BY <2>1, <2>2 DEF At
<1>2. \A l \in 1..s.nr : DOMAIN s.bb[l].bhs = 1..Len(s.bb[l].bhs) /\ Len(s.bb[l].bhs) \in Nat
  BY TypeUse, BlockUse
<1>3. \A l : l \in Ids(s) <=> On(s, l)
  <2>1. DOMAIN s.list = 1..Len(s.list)
    BY TypeUse
  <2> QED
    BY <2>1 DEF Ids, Range, On, Has
<1>4. \A l : On(s, l) => l \in 1..s.nr
  BY TypeUse
<1>5. \A l \in Ids(s) : (\E r \in DOMAIN s.bb[l].bhs : s.bb[l].bhs[r].key = key) <=> l = i
  <2> SUFFICES ASSUME NEW l \in Ids(s)
               PROVE  (\E r \in DOMAIN s.bb[l].bhs : s.bb[l].bhs[r].key = key) <=> l = i
    OBVIOUS
  <2>1. On(s, l) /\ l \in 1..s.nr
    BY <1>3, <1>4
  <2>2. ASSUME NEW r \in DOMAIN s.bb[l].bhs, s.bb[l].bhs[r].key = key PROVE l = i
    <3>1. r \in 1..Len(s.bb[l].bhs) /\ r \in Nat
      BY <1>2, <2>1
    <3>2. At(s, key, l, r)
      BY <2>1, <2>2, <3>1 DEF At
    <3> QED
      BY <1>1, <2>1, <3>1, <3>2 DEF KeyInv
  <2>3. l = i => n \in DOMAIN s.bb[l].bhs /\ s.bb[l].bhs[n].key = key
    BY <1>1, <1>2 DEF At
  <2> QED
    BY <2>2, <2>3
<1>6. i \in Ids(s)
  BY <1>3 DEF At
<1>7. BlockOf(s, key) = i
  BY <1>5, <1>6 DEF BlockOf
<1>8. {r \in 1..Len(s.bb[i].bhs) : s.bb[i].bhs[r].key = key} = {n}
  <2>1. ASSUME NEW r \in 1..Len(s.bb[i].bhs), s.bb[i].bhs[r].key = key PROVE r = n
    <3>1. At(s, key, i, r) /\ r \in Nat
      BY <1>1, <1>2, <2>1 DEF At
    <3> QED
      BY <1>1, <3>1 DEF KeyInv
  <2>2. s.bb[i].bhs[n].key = key
    BY DEF At
  <2> QED
    BY <1>1, <2>1, <2>2
<1>9. Min({n}) = n
  BY <1>1, MinOfOne
<1>10. BhNr(s, key) = n
  BY <1>7, <1>8, <1>9 DEF BhNr, SelectInSeq
<1> QED
  BY <1>7, <1>10

(* Nothing but addresses changes. *)
OnlyMapped(s, t) ==
  /\ t.list = s.list /\ t.nr = s.nr
  /\ AllKept(s, t) /\ SameKeys(s, t)
  /\ \A i \in 1..s.nr : /\ t.bb[i].bhs = s.bb[i].bhs
                        /\ t.bb[i].off = s.bb[i].off
                        /\ t.bb[i].type = s.bb[i].type
                        /\ Mapped(s, i) => t.bb[i].blkaddr = s.bb[i].blkaddr

(* The loop of erofs_mapbh starts at the first unmapped bb. *)
LEMMA FromIs ==
  ASSUME NEW s, TypeInv(s), NEW k, PrefixAt(s, k)
  PROVE  (IF s.last_mapped = HEAD THEN 1 ELSE PosOf(s, s.last_mapped) + 1) = k + 1
<1>1. k \in 0..Len(s.list) /\ Len(s.list) \in Nat
  BY ListUse DEF PrefixAt
<1>2. CASE k = 0
  BY <1>2 DEF PrefixAt
<1>3. CASE k # 0
  <2>1. k \in 1..Len(s.list) /\ s.last_mapped = s.list[k]
    BY <1>1, <1>3 DEF PrefixAt
  <2>2. s.last_mapped # HEAD /\ PosOf(s, s.last_mapped) = k
    BY <2>1, ListUse, PosIs DEF HEAD
  <2> QED
    BY <2>2
<1> QED
  BY <1>2, <1>3

(* erofs_mapbh gives the bb an address and preserves the invariant: no     *)
(* DBG_BUGON fires, no bb gets a second address, and no bh moves.          *)
THEOREM MapBbInv ==
  ASSUME NEW s, NEW start, NEW junk, MgrInv(s, start, junk), NEW k, PrefixAt(s, k),
         NEW p \in 1..Len(s.list), NEW t, t = MapBb(s, s.list[p])
  PROVE  /\ MgrInv(t, start, junk) /\ OnlyMapped(s, t)
         /\ Mapped(t, s.list[p])
         /\ p <= k => t = s
         /\ p > k => PrefixAt(t, p) /\ t.tail_blkaddr = EndBlk(t, s.list[p])
<1> DEFINE i == s.list[p]
<1>1. TypeInv(s)
  BY DEF MgrInv
<1>2. i \in 1..s.nr /\ On(s, i) /\ i # HEAD /\ PosOf(s, i) = p
  BY <1>1, ListUse, PosIs DEF HEAD
<1>3. Mapped(s, i) <=> p <= k
  BY DEF PrefixAt
<1>4. k \in Nat /\ p \in Nat /\ Len(s.list) \in Nat /\ k <= Len(s.list)
  BY <1>1, ListUse DEF PrefixAt
<1>5. CASE p <= k
  <2>1. t = s
    BY <1>2, <1>3, <1>5 DEF MapBb, Mapped
  <2> QED
    BY <1>3, <1>4, <1>5, <2>1, AllKeptSelf DEF OnlyMapped
<1>6. CASE p > k
  <2>1. ~(p < k + 1) /\ p \in k..Len(s.list)
    BY <1>4, <1>6
  <2>2. t = MapRun(s, k + 1, p)
    <3>1. s.bb[i].blkaddr = NULL_ADDR
      BY <1>3, <1>4, <1>6 DEF Mapped
    <3> QED
      BY <1>1, <1>2, <2>1, <3>1, FromIs DEF MapBb
  <2>3. /\ MgrInv(t, start, junk) /\ PrefixAt(t, p) /\ t.list = s.list /\ t.nr = s.nr
        /\ AllKept(s, t) /\ SameKeys(s, t)
        /\ \A n \in 1..s.nr : /\ t.bb[n].bhs = s.bb[n].bhs
                              /\ t.bb[n].off = s.bb[n].off
                              /\ t.bb[n].type = s.bb[n].type
                              /\ Mapped(s, n) => t.bb[n].blkaddr = s.bb[n].blkaddr
        /\ p > k => t.tail_blkaddr = EndBlk(t, t.last_mapped)
    BY <2>1, <2>2, MapRunInv
  <2>4. t.last_mapped = i /\ Mapped(t, i)
    <3>1. p # 0 /\ p <= p
      BY <1>4
    <3> QED
      BY <2>3, <3>1 DEF PrefixAt
  <2>5. ~(p <= k)
    BY <1>4, <1>6
  <2> QED
    BY <1>6, <2>3, <2>4, <2>5 DEF OnlyMapped
<1> QED
  BY <1>4, <1>5, <1>6

(* erofs_mapbh(NULL) maps the whole list. *)
LEMMA MapAllInv ==
  ASSUME NEW s, NEW start, NEW junk, MgrInv(s, start, junk), NEW t, t = MapBb(s, HEAD)
  PROVE  MgrInv(t, start, junk) /\ OnlyMapped(s, t) /\ PrefixAt(t, Len(t.list))
<1>1. TypeInv(s)
  BY DEF MgrInv
<1>2. PICK k : PrefixAt(s, k)
  BY DEF MgrInv, PrefixInv
<1>3. Len(s.list) \in k..Len(s.list)
  BY <1>1, <1>2, ListUse DEF PrefixAt
<1>4. t = MapRun(s, k + 1, Len(s.list))
  BY <1>1, <1>2, FromIs DEF MapBb
<1> DEFINE z == Len(s.list)
<1>5. z \in k..Len(s.list) /\ t = MapRun(s, k + 1, z)
  BY <1>3, <1>4
<1> HIDE DEF z
<1>6. /\ MgrInv(t, start, junk) /\ PrefixAt(t, z) /\ t.list = s.list /\ t.nr = s.nr
      /\ AllKept(s, t) /\ SameKeys(s, t)
      /\ \A n \in 1..s.nr : /\ t.bb[n].bhs = s.bb[n].bhs
                            /\ t.bb[n].off = s.bb[n].off
                            /\ t.bb[n].type = s.bb[n].type
                            /\ Mapped(s, n) => t.bb[n].blkaddr = s.bb[n].blkaddr
  BY <1>2, <1>5, MapRunInv
<1> QED
  BY <1>6 DEF OnlyMapped, z
-----------------------------------------------------------------------------
(* The bhs of a bb are replaced by some of them *)

(* A manager in which bb i has other bhs. *)
WithBhs(s, i, q) == [s EXCEPT !.bb[i].bhs = q]

(* Only the bhs of bb i differ. *)
BhsDone(s, t, i, q) ==
  /\ TypeInv(t) /\ SameBlocks(s, t)
  /\ t.bb[i].bhs = q
  /\ t.bug = s.bug /\ t.buckets = s.buckets
  /\ \A k \in 1..s.nr : /\ t.bb[k].off = s.bb[k].off
                        /\ k # i => t.bb[k] = s.bb[k]

(* What replacing the bhs of a bb changes. *)
LEMMA WithBhsIs ==
  ASSUME NEW s, TypeInv(s), NEW i \in 1..s.nr, NEW q \in Seq(BhSet), NEW t,
         t = WithBhs(s, i, q)
  PROVE  BhsDone(s, t, i, q)
<1> DEFINE b == [s.bb[i] EXCEPT !.bhs = q]
<1>1. s.bb[i] \in BlockSet /\ s.tail_blkaddr \in Nat /\ s \in Managers /\ s.bb \in Seq(BlockSet)
      /\ i \in 1..Len(s.bb)
  BY TypeUse DEF TypeInv
<1>2. /\ b \in BlockSet /\ b.type = s.bb[i].type /\ b.blkaddr = s.bb[i].blkaddr
      /\ b.off = s.bb[i].off /\ b.bhs = q
  BY <1>1 DEF BlockSet
<1>3. t = Put(s, i, b, s.tail_blkaddr)
  BY <1>1 DEF WithBhs, Put, Managers, BlockSet
<1> HIDE DEF b
<1>4. /\ TypeInv(t)
      /\ t.list = s.list /\ t.nr = s.nr /\ t.buckets = s.buckets
      /\ t.tail_blkaddr = s.tail_blkaddr /\ t.last_mapped = s.last_mapped
      /\ t.metablkcnt = s.metablkcnt /\ t.bug = s.bug
      /\ t.bb[i] = b
      /\ \A k \in 1..s.nr : k # i => t.bb[k] = s.bb[k]
  <2>1. PutDone(s, t, i, b, s.tail_blkaddr)
    BY <1>1, <1>2, <1>3, PutUse
  <2> QED
    BY <2>1 DEF PutDone
<1>5. \A k \in 1..s.nr : /\ t.bb[k].blkaddr = s.bb[k].blkaddr
                         /\ t.bb[k].type = s.bb[k].type
                         /\ t.bb[k].off = s.bb[k].off
  BY <1>2, <1>4
<1>6. SameBlocks(s, t)
  BY <1>4, <1>5 DEF SameBlocks, EndBlk
<1> QED
  BY <1>2, <1>4, <1>5, <1>6 DEF BhsDone

(* e says where the bhs of q come from. *)
Embeds(q, c, e) ==
  /\ \A n \in 1..Len(q) : e[n] \in 1..Len(c) /\ q[n].key = c[e[n]].key
  /\ \A n, l \in 1..Len(q) : e[n] = e[l] => n = l

(* Keeping some of the bhs of a bb, in order, preserves the invariant. *)
LEMMA EmbedInv ==
  ASSUME NEW s, NEW start, NEW junk, MgrInv(s, start, junk), NEW i \in 1..s.nr,
         NEW q \in Seq(BhSet), NEW e, Embeds(q, s.bb[i].bhs, e),
         NEW t, t = WithBhs(s, i, q)
  PROVE  /\ MgrInv(t, start, junk) /\ BhsDone(s, t, i, q)
         /\ \A key : HasKey(t, key) => HasKey(s, key)
         /\ \A k : PrefixAt(s, k) => PrefixAt(t, k)
<1>1. /\ TypeInv(s) /\ PrefixInv(s) /\ BucketInv(s)
      /\ TileInv(s, start) /\ MetaInv(s, junk) /\ KeyInv(s) /\ ~s.bug
  BY DEF MgrInv
<1>2. BhsDone(s, t, i, q)
  BY <1>1, WithBhsIs
<1>3. /\ TypeInv(t) /\ SameBlocks(s, t)
      /\ t.list = s.list /\ t.nr = s.nr
      /\ t.bb[i].bhs = q
      /\ t.bug = s.bug /\ t.buckets = s.buckets
      /\ \A k \in 1..s.nr : /\ t.bb[k].off = s.bb[k].off
                            /\ t.bb[k].type = s.bb[k].type
                            /\ t.bb[k].blkaddr = s.bb[k].blkaddr
                            /\ k # i => t.bb[k] = s.bb[k]
  BY <1>2 DEF BhsDone, SameBlocks
<1>4. /\ \A k : PrefixAt(s, k) => PrefixAt(t, k)
      /\ TileInv(t, start) /\ MetaInv(t, junk)
  BY <1>1, <1>3, SameBlocksInv
<1>5. PrefixInv(t)
  BY <1>1, <1>4 DEF PrefixInv
<1>6. BucketInv(t)
  <2>1. \A y : On(s, y) => y \in 1..s.nr
    BY <1>1, TypeUse
  <2>2. \A y : On(t, y) <=> On(s, y)
    BY <1>3 DEF On
  <2> QED
    BY <1>1, <1>3, <2>1, <2>2 DEF BucketInv, Mapped
<1> DEFINE c == s.bb[i].bhs
<1>7. Len(c) \in Nat /\ Len(q) \in Nat
  BY <1>1, TypeUse, BlockUse
<1>8. ASSUME NEW key, NEW k \in 1..s.nr, NEW n \in Nat, At(t, key, k, n)
      PROVE  /\ k # i => At(s, key, k, n)
             /\ k = i => At(s, key, i, e[n]) /\ e[n] \in Nat /\ n \in 1..Len(q)
  <2>1. k # i => At(s, key, k, n)
    BY <1>3, <1>8 DEF At, On
  <2>2. k = i => n \in 1..Len(q) /\ q[n].key = key /\ On(s, i)
    BY <1>3, <1>8 DEF At, On
  <2>3. n \in 1..Len(q) => e[n] \in 1..Len(c) /\ q[n].key = c[e[n]].key
    BY DEF Embeds
  <2> HIDE DEF c
  <2>4. k = i => At(s, key, i, e[n]) /\ e[n] \in Nat
    BY <1>7, <2>2, <2>3 DEF At, c
  <2> QED
    BY <2>1, <2>2, <2>4
<1>9. KeyInv(t)
  <2> SUFFICES ASSUME NEW key \in KeySet, NEW k \in 1..s.nr, NEW l \in 1..s.nr,
                      NEW n \in Nat, NEW r \in Nat, At(t, key, k, n), At(t, key, l, r)
               PROVE  k = l /\ n = r
    BY <1>3 DEF KeyInv
  <2>1. \A x, y \in Nat : At(s, key, k, x) /\ At(s, key, l, y) => k = l /\ x = y
    BY <1>1 DEF KeyInv
  <2>2. k = l
    BY <1>8, <2>1
  <2>3. CASE k = i
    <3>1. e[n] = e[r] /\ n \in 1..Len(q) /\ r \in 1..Len(q)
      BY <1>8, <2>1, <2>2, <2>3
    <3> QED
      BY <2>2, <3>1 DEF Embeds
  <2>4. CASE k # i
    BY <1>8, <2>1, <2>2, <2>4
  <2> QED
    BY <2>3, <2>4
<1>10. \A key : HasKey(t, key) => HasKey(s, key)
  BY <1>3, <1>8 DEF HasKey
<1>11. MgrInv(t, start, junk)
  BY <1>1, <1>3, <1>4, <1>5, <1>6, <1>9 DEF MgrInv
<1> QED
  BY <1>2, <1>4, <1>10, <1>11

(* Every other bh is kept. *)
OthersKept(s, t, key) ==
  \A k : k # key => Kept(s, t, k) /\ (HasKey(t, k) <=> HasKey(s, k))

(* A bh is changed in place. *)
LEMMA ChangeInv ==
  ASSUME NEW s, NEW start, NEW junk, MgrInv(s, start, junk), NEW key \in KeySet,
         NEW i, NEW n, At(s, key, i, n), NEW h \in BhSet, h.key = key,
         NEW t, t = WithBhs(s, i, [s.bb[i].bhs EXCEPT ![n] = h])
  PROVE  /\ MgrInv(t, start, junk)
         /\ BhsDone(s, t, i, [s.bb[i].bhs EXCEPT ![n] = h])
         /\ At(t, key, i, n) /\ t.bb[i].bhs[n] = h /\ Len(t.bb[i].bhs) = Len(s.bb[i].bhs)
         /\ OthersKept(s, t, key) /\ SameKeys(s, t)
         /\ \A k : PrefixAt(s, k) => PrefixAt(t, k)
<1> DEFINE c == s.bb[i].bhs
           q == [c EXCEPT ![n] = h]
           e == [l \in 1..Len(q) |-> l]
<1>1. TypeInv(s) /\ KeyInv(s) /\ i \in 1..s.nr /\ On(s, i)
  BY TypeUse DEF MgrInv, At
<1>2. c \in Seq(BhSet) /\ Len(c) \in Nat /\ n \in 1..Len(c) /\ c[n].key = key
  BY <1>1, TypeUse, BlockUse DEF At
<1> HIDE DEF c
<1>3. /\ q \in Seq(BhSet) /\ Len(q) = Len(c) /\ q[n] = h
      /\ \A l \in 1..Len(c) : l # n => q[l] = c[l]
  BY <1>2
<1> HIDE DEF q
<1>4. Embeds(q, c, e)
  BY <1>2, <1>3 DEF Embeds
<1>5. t = WithBhs(s, i, q) /\ Embeds(q, s.bb[i].bhs, e)
  BY <1>4 DEF c, q
<1> HIDE DEF e
<1>6. /\ MgrInv(t, start, junk) /\ BhsDone(s, t, i, q)
      /\ \A k : HasKey(t, k) => HasKey(s, k)
      /\ \A k : PrefixAt(s, k) => PrefixAt(t, k)
  BY <1>1, <1>3, <1>5, EmbedInv
<1>7. /\ t.list = s.list /\ t.nr = s.nr /\ t.bb[i].bhs = q
      /\ \A k \in 1..s.nr : /\ k # i => t.bb[k] = s.bb[k]
                            /\ t.bb[k].blkaddr = s.bb[k].blkaddr
  BY <1>6 DEF BhsDone, SameBlocks
<1>8. At(t, key, i, n) /\ n \in Nat
  BY <1>1, <1>2, <1>3, <1>7 DEF At, On
<1>9. ASSUME NEW y, y # key, NEW k \in 1..s.nr, NEW l \in Nat, At(s, y, k, l)
      PROVE  At(t, y, k, l) /\ t.bb[k].bhs[l] = s.bb[k].bhs[l]
  <2>1. CASE k # i
    BY <1>7, <1>9, <2>1 DEF At, On
  <2>2. CASE k = i
    <3>1. l \in 1..Len(c) /\ c[l].key = y /\ l # n
      BY <1>2, <1>9, <2>2 DEF At, c
    <3>2. q[l] = c[l] /\ l \in 1..Len(q)
      BY <1>3, <3>1
    <3> QED
      BY <1>1, <1>7, <2>2, <3>1, <3>2 DEF At, On, c
  <2> QED
    BY <2>1, <2>2
<1>10. OthersKept(s, t, key)
  <2> SUFFICES ASSUME NEW y, y # key
               PROVE  Kept(s, t, y) /\ (HasKey(t, y) <=> HasKey(s, y))
    BY DEF OthersKept
  <2>1. Kept(s, t, y)
    BY <1>7, <1>9 DEF Kept
  <2>2. HasKey(s, y) => HasKey(t, y)
    BY <1>7, <1>9 DEF HasKey
  <2> QED
    BY <1>6, <2>1, <2>2
<1>11. SameKeys(s, t)
  <2>1. HasKey(t, key) /\ HasKey(s, key)
    BY <1>1, <1>7, <1>8 DEF HasKey
  <2> QED
    BY <1>10, <2>1 DEF SameKeys, OthersKept
<1> QED
  BY <1>3, <1>6, <1>7, <1>8, <1>10, <1>11 DEF c, q

(* A bh is removed. *)
LEMMA RemoveInv ==
  ASSUME NEW s, NEW start, NEW junk, MgrInv(s, start, junk), NEW key \in KeySet,
         NEW i, NEW n, At(s, key, i, n),
         NEW t, t = WithBhs(s, i, RemoveAt(s.bb[i].bhs, n))
  PROVE  /\ MgrInv(t, start, junk)
         /\ BhsDone(s, t, i, RemoveAt(s.bb[i].bhs, n))
         /\ OthersKept(s, t, key) /\ ~HasKey(t, key)
         /\ \A k : PrefixAt(s, k) => PrefixAt(t, k)
<1> DEFINE c == s.bb[i].bhs
           q == RemoveAt(c, n)
           e == [l \in 1..Len(q) |-> IF l < n THEN l ELSE l + 1]
<1>1. TypeInv(s) /\ KeyInv(s) /\ i \in 1..s.nr /\ On(s, i)
  BY TypeUse DEF MgrInv, At
<1>2. c \in Seq(BhSet) /\ Len(c) \in Nat /\ n \in 1..Len(c) /\ c[n].key = key
  BY <1>1, TypeUse, BlockUse DEF At
<1> HIDE DEF c
<1>3. /\ q \in Seq(BhSet) /\ Len(q) = Len(c) - 1
      /\ \A l \in 1..(Len(c) - 1) : q[l] = IF l < n THEN c[l] ELSE c[l + 1]
  <2>1. q \in Seq(BhSet) /\ Removed(c, q, n)
    BY <1>2, RemoveAtIs
  <2> HIDE DEF q
  <2> QED
    BY <1>2, <2>1 DEF Removed
<1> HIDE DEF q
<1>4. \A l \in 1..Len(q) : /\ e[l] = IF l < n THEN l ELSE l + 1
                           /\ q[l] = c[e[l]] /\ e[l] \in 1..Len(c) /\ e[l] # n
  BY <1>2, <1>3
<1> HIDE DEF e
<1>5. Embeds(q, c, e)
  BY <1>2, <1>3, <1>4 DEF Embeds
<1>6. t = WithBhs(s, i, q) /\ Embeds(q, s.bb[i].bhs, e)
  BY <1>5 DEF c, q
<1>7. /\ MgrInv(t, start, junk) /\ BhsDone(s, t, i, q)
      /\ \A k : HasKey(t, k) => HasKey(s, k)
      /\ \A k : PrefixAt(s, k) => PrefixAt(t, k)
  BY <1>1, <1>3, <1>6, EmbedInv
<1>8. /\ t.list = s.list /\ t.nr = s.nr /\ t.bb[i].bhs = q
      /\ \A k \in 1..s.nr : /\ k # i => t.bb[k] = s.bb[k]
                            /\ t.bb[k].blkaddr = s.bb[k].blkaddr
  BY <1>7 DEF BhsDone, SameBlocks
<1>9. ~HasKey(t, key)
  <2> SUFFICES ASSUME NEW k \in 1..s.nr, NEW l \in Nat, At(t, key, k, l)
               PROVE  FALSE
    BY <1>8 DEF HasKey
  <2>1. \A x \in 1..s.nr, y \in Nat : At(s, key, x, y) => x = i /\ y = n
    <3>1. n \in Nat
      BY <1>2
    <3> QED
      BY <1>1, <3>1 DEF KeyInv
  <2>2. CASE k # i
    <3>1. At(s, key, k, l)
      BY <1>8, <2>2 DEF At, On
    <3> QED
      BY <2>1, <2>2, <3>1
  <2>3. CASE k = i
    <3>1. l \in 1..Len(q) /\ q[l].key = key
      BY <1>8, <2>3 DEF At
    <3>2. e[l] \in 1..Len(c) /\ e[l] # n /\ c[e[l]].key = key
      BY <1>4, <3>1
    <3>3. At(s, key, i, e[l]) /\ e[l] \in Nat
      BY <1>1, <1>2, <3>2 DEF At, c
    <3> QED
      BY <1>1, <2>1, <3>2, <3>3
  <2> QED
    BY <2>2, <2>3
<1>10. ASSUME NEW y, y # key, NEW k \in 1..s.nr, NEW l \in Nat, At(s, y, k, l)
       PROVE  \E r \in Nat : At(t, y, k, r) /\ t.bb[k].bhs[r] = s.bb[k].bhs[l]
  <2>1. CASE k # i
    BY <1>8, <1>10, <2>1 DEF At, On
  <2>2. CASE k = i
    <3>1. l \in 1..Len(c) /\ c[l].key = y /\ l # n
      BY <1>2, <1>10, <2>2 DEF At, c
    <3> DEFINE r == IF l < n THEN l ELSE l - 1
    <3>2. q[r] = c[l] /\ r \in 1..Len(q) /\ r \in Nat
      BY <1>2, <1>3, <3>1
    <3> HIDE DEF r
    <3>3. At(t, y, k, r) /\ t.bb[k].bhs[r] = s.bb[k].bhs[l]
      BY <1>1, <1>8, <2>2, <3>1, <3>2 DEF At, On, c
    <3> QED
      BY <3>2, <3>3
  <2> QED
    BY <2>1, <2>2
<1>11. OthersKept(s, t, key)
  <2> SUFFICES ASSUME NEW y, y # key
               PROVE  Kept(s, t, y) /\ (HasKey(t, y) <=> HasKey(s, y))
    BY DEF OthersKept
  <2>1. Kept(s, t, y)
    BY <1>8, <1>10 DEF Kept
  <2>2. HasKey(s, y) => HasKey(t, y)
    BY <1>8, <1>10 DEF HasKey
  <2> QED
    BY <1>7, <2>1, <2>2
<1> QED
  BY <1>7, <1>9, <1>11 DEF c, q
-----------------------------------------------------------------------------
(* erofs_bfree *)

(* What list_del leaves, position by position. *)
LEMMA RemovedIs ==
  ASSUME NEW S, NEW q \in Seq(S), NEW p \in 1..Len(q), Once(q), NEW r, r = RemoveFirst(q, q[p])
  PROVE  r \in Seq(S) /\ Removed(q, r, p) /\ Once(r)
<1>1. r = RemoveAt(q, p)
  BY RemoveFirstAt
<1>2. r \in Seq(S) /\ Removed(q, r, p)
  BY <1>1, RemoveAtIs
<1>3. Once(r)
  BY RemoveFirstIs
<1> QED
  BY <1>2, <1>3

(* The bbs on a list one was removed from. *)
LEMMA RemovedOn ==
  ASSUME NEW S, NEW q \in Seq(S), NEW r \in Seq(S), NEW p \in 1..Len(q), Removed(q, r, p),
         Once(q)
  PROVE  \A y : Has(r, y) <=> Has(q, y) /\ y # q[p]
<1>1. Len(q) \in Nat /\ Len(r) = Len(q) - 1 /\ Len(r) \in Nat
  BY DEF Removed
<1> SUFFICES ASSUME NEW y PROVE Has(r, y) <=> Has(q, y) /\ y # q[p]
  OBVIOUS
<1>2. ASSUME NEW n \in 1..Len(r), r[n] = y PROVE Has(q, y) /\ y # q[p]
  <2>1. CASE n < p
    <3>1. r[n] = q[n] /\ n \in 1..Len(q) /\ n # p
      BY <1>1, <2>1 DEF Removed
    <3> QED
      BY <1>2, <3>1 DEF Has, Once
  <2>2. CASE n >= p
    <3>1. r[n] = q[n + 1] /\ n + 1 \in 1..Len(q) /\ n + 1 # p
      BY <1>1, <2>2 DEF Removed
    <3> QED
      BY <1>2, <3>1 DEF Has, Once
  <2> QED
    BY <1>1, <2>1, <2>2
<1>3. ASSUME NEW n \in 1..Len(q), q[n] = y, y # q[p] PROVE Has(r, y)
  <2>1. CASE n < p
    <3>1. r[n] = q[n] /\ n \in 1..Len(r)
      BY <1>1, <2>1 DEF Removed
    <3> QED
      BY <1>3, <3>1 DEF Has
  <2>2. CASE n > p
    <3>1. n - 1 \in p..(Len(q) - 1) /\ n - 1 \in 1..Len(r) /\ (n - 1) + 1 = n
      BY <1>1, <2>2
    <3>2. r[n - 1] = q[n]
      BY <3>1 DEF Removed
    <3> QED
      BY <1>3, <3>1, <3>2 DEF Has
  <2> QED
    BY <1>1, <1>3, <2>1, <2>2
<1> QED
  BY <1>2, <1>3 DEF Has

FreeDone(s, t, p) ==
  /\ TypeInv(t)
  /\ t.bb = s.bb /\ t.nr = s.nr /\ t.tail_blkaddr = s.tail_blkaddr
  /\ t.metablkcnt = s.metablkcnt
  /\ t.last_mapped = LastAfterFree(s, s.list[p])
  /\ Removed(s.list, t.list, p)
  /\ s.bb[s.list[p]].bhs = << >> => t.bug = s.bug
  /\ \A ty \in Types, o \in Levels : \A y :
       Has(t.buckets[ty][o], y) <=>
         Has(s.buckets[ty][o], y) /\ ~(ty = s.bb[s.list[p]].type /\ y = s.list[p])

(* What erofs_bfree takes as the last mapped bb is a bb or the head. *)
LEMMA LastFreeIs ==
  ASSUME NEW s, TypeInv(s), NEW p \in 1..Len(s.list)
  PROVE  LastAfterFree(s, s.list[p]) \in Nat
<1>1. PosOf(s, s.list[p]) = p /\ s.last_mapped \in Nat /\ Len(s.list) \in Nat
  BY PosIs, TypeUse, ListUse
<1>2. p # 1 => p - 1 \in 1..Len(s.list) /\ s.list[p - 1] \in Nat
  <2>1. s.list \in Seq(Nat)
    BY TypeUse
  <2> QED
    BY <1>1, <2>1
<1> QED
  BY <1>1, <1>2 DEF LastAfterFree, HEAD

(* What erofs_bfree changes. *)
LEMMA FreeIs ==
  ASSUME NEW s, TypeInv(s), NEW p \in 1..Len(s.list), NEW t, t = Bfree(s, s.list[p])
  PROVE  FreeDone(s, t, p)
<1> DEFINE i == s.list[p]
           bt == s.bb[i].type
           new == [o \in Levels |-> RemoveFirst(s.buckets[bt][o], i)]
           bk == [s.buckets EXCEPT ![bt] = new]
           l == RemoveFirst(s.list, i)
           last == LastAfterFree(s, i)
           u == [s EXCEPT !.last_mapped = last, !.list = l, !.buckets = bk]
           bug == s.bb[i].bhs # << >>
<1>1. s \in Managers /\ s.list \in Seq(Nat) /\ Once(s.list)
  BY TypeUse DEF TypeInv
<1>2. i \in 1..s.nr /\ i \in Nat /\ s.bb[i] \in BlockSet /\ bt \in Types
  <2>1. i \in 1..s.nr /\ s.nr \in Nat
    BY ListUse, TypeUse
  <2> HIDE DEF i
  <2> QED
    BY <2>1, TypeUse, BlockUse
<1>3. s.buckets \in [Types -> [Levels -> Seq(Nat)]]
  BY TypeUse
<1>4. \A o \in Levels : s.buckets[bt][o] \in Seq(Nat) /\ Once(s.buckets[bt][o])
  BY <1>2, <1>3 DEF TypeInv
<1>5. DOMAIN s.buckets[bt] = Levels
  BY <1>2, <1>3
<1>6. last \in Nat
  BY LastFreeIs
<1>7. l \in Seq(Nat) /\ Removed(s.list, l, p) /\ Once(l)
  BY <1>1, RemovedIs
<1>8. ASSUME NEW o \in Levels
      PROVE  /\ new[o] \in Seq(Nat) /\ Once(new[o])
             /\ \A y : Has(new[o], y) <=> Has(s.buckets[bt][o], y) /\ y # i
  <2>1. new[o] = RemoveFirst(s.buckets[bt][o], i)
    OBVIOUS
  <2> HIDE DEF new, bt, i
  <2> QED
    BY <1>4, <2>1, RemoveFirstIs
<1>9. new \in [Levels -> Seq(Nat)]
  <2>1. \A o \in Levels : new[o] \in Seq(Nat)
    BY <1>8
  <2> QED
    BY <2>1
<1>10. t = Bug([s EXCEPT !.last_mapped = last, !.list = l, !.buckets[bt] = new], bug)
  BY <1>1, <1>5 DEF Bfree, Managers
<1> HIDE DEF new, l, last
<1>11. /\ bk \in [Types -> [Levels -> Seq(Nat)]] /\ bk[bt] = new
       /\ \A ty \in Types : ty # bt => bk[ty] = s.buckets[ty]
  BY <1>2, <1>3, <1>9
<1>12. t = Bug(u, bug)
  <2> HIDE DEF bt
  <2>1. [s EXCEPT !.last_mapped = last, !.list = l, !.buckets[bt] = new] = u
    BY <1>1 DEF Managers
  <2> QED
    BY <1>10, <2>1
<1> HIDE DEF bk
<1>13. /\ u \in Managers
       /\ u.bb = s.bb /\ u.nr = s.nr /\ u.tail_blkaddr = s.tail_blkaddr
       /\ u.metablkcnt = s.metablkcnt /\ u.bug = s.bug
       /\ u.last_mapped = last /\ u.list = l /\ u.buckets = bk
  BY <1>1, <1>6, <1>7, <1>11 DEF Managers
<1> HIDE DEF u
<1>14. \A ty \in Types, o \in Levels : Once(bk[ty][o])
  BY <1>8, <1>11 DEF TypeInv
<1>15. \A n \in 1..Len(l) : l[n] \in 1..s.nr
  <2>1. \A y : Has(l, y) <=> Has(s.list, y) /\ y # s.list[p]
    BY <1>1, <1>7, RemovedOn
  <2>2. \A n \in 1..Len(l) : Has(l, l[n])
    BY DEF Has
  <2>3. \A y : Has(s.list, y) => y \in 1..s.nr
    BY TypeUse DEF On
  <2> QED
    BY <2>1, <2>2, <2>3
<1>16. TypeInv(u)
  BY <1>7, <1>13, <1>14, <1>15 DEF TypeInv
<1>17. bug \in BOOLEAN
  OBVIOUS
<1>18. /\ TypeInv(t)
       /\ t.list = u.list /\ t.bb = u.bb /\ t.nr = u.nr /\ t.buckets = u.buckets
       /\ t.tail_blkaddr = u.tail_blkaddr /\ t.last_mapped = u.last_mapped
       /\ t.metablkcnt = u.metablkcnt
       /\ ~bug => t = u
  <2> HIDE DEF bug
  <2> QED
    BY <1>12, <1>16, <1>17, BugIs
<1>19. s.bb[i].bhs = << >> => t.bug = s.bug
  BY <1>13, <1>18
<1>20. ASSUME NEW ty \in Types, NEW o \in Levels, NEW y
       PROVE  Has(bk[ty][o], y) <=> Has(s.buckets[ty][o], y) /\ ~(ty = bt /\ y = i)
  <2>1. CASE ty = bt
    BY <1>8, <1>11, <2>1
  <2>2. CASE ty # bt
    BY <1>11, <2>2
  <2> QED
    BY <2>1, <2>2
<1> HIDE DEF bug
<1> QED
  BY <1>7, <1>13, <1>18, <1>19, <1>20 DEF FreeDone, last

(* With a mapped bb freed, the mapped ones are still the first of the list *)
(* and last_mapped the last of them.                                       *)
LEMMA FreePrefix ==
  ASSUME NEW s, TypeInv(s), NEW k, PrefixAt(s, k), NEW p \in 1..Len(s.list), p <= k,
         NEW t, FreeDone(s, t, p)
  PROVE  PrefixAt(t, k - 1)
<1>1. /\ Len(s.list) \in Nat /\ k \in 1..Len(s.list) /\ Len(t.list) = Len(s.list) - 1
      /\ p \in Nat /\ k \in Nat
  BY ListUse DEF PrefixAt, FreeDone, Removed
<1>2. /\ \A n \in 1..(p - 1) : t.list[n] = s.list[n]
      /\ \A n \in p..(Len(s.list) - 1) : t.list[n] = s.list[n + 1]
      /\ t.bb = s.bb /\ t.tail_blkaddr = s.tail_blkaddr
      /\ t.last_mapped = LastAfterFree(s, s.list[p])
  BY DEF FreeDone, Removed
<1>3. k - 1 \in 0..Len(t.list)
  BY <1>1
<1>4. s.last_mapped = s.list[k]
  BY <1>1 DEF PrefixAt
<1>5. PosOf(s, s.list[p]) = p /\ (s.list[p] = s.list[k] <=> p = k)
  BY <1>1, PosIs, ListUse
<1>6. t.last_mapped = IF k - 1 = 0 THEN HEAD ELSE t.list[k - 1]
  <2>1. CASE p = k
    <3>1. t.last_mapped = IF p = 1 THEN HEAD ELSE s.list[p - 1]
      BY <1>2, <1>4, <1>5, <2>1 DEF LastAfterFree
    <3>2. p # 1 => p - 1 \in 1..(p - 1)
      BY <1>1
    <3> QED
      BY <1>1, <1>2, <2>1, <3>1, <3>2
  <2>2. CASE p # k
    <3>1. t.last_mapped = s.list[k]
      BY <1>2, <1>4, <1>5, <2>2 DEF LastAfterFree
    <3>2. k - 1 \in p..(Len(s.list) - 1) /\ (k - 1) + 1 = k /\ k - 1 # 0
      BY <1>1, <2>2
    <3> QED
      BY <1>2, <3>1, <3>2
  <2> QED
    BY <2>1, <2>2
<1>7. /\ \A n \in 1..Len(s.list) :
           /\ Mapped(s, s.list[n]) <=> n <= k
           /\ n <= k => EndBlk(s, s.list[n]) <= s.tail_blkaddr
           /\ 1 < n /\ n <= k => EndBlk(s, s.list[n - 1]) <= s.bb[s.list[n]].blkaddr
  BY DEF PrefixAt
<1>8. \A y : (Mapped(t, y) <=> Mapped(s, y)) /\ EndBlk(t, y) = EndBlk(s, y)
  BY <1>2 DEF Mapped, EndBlk
<1>9. \A n \in 1..Len(s.list) :
        /\ EndBlk(s, s.list[n]) \in Int /\ EndBlk(s, s.list[n]) >= s.bb[s.list[n]].blkaddr
        /\ n <= k => s.bb[s.list[n]].blkaddr \in Nat
  BY <1>7, ListUse, EndUse
<1>10. ASSUME NEW n \in 1..Len(t.list)
       PROVE  /\ Mapped(t, t.list[n]) <=> n <= k - 1
              /\ n <= k - 1 => EndBlk(t, t.list[n]) <= t.tail_blkaddr
              /\ 1 < n /\ n <= k - 1 => EndBlk(t, t.list[n - 1]) <= t.bb[t.list[n]].blkaddr
  <2>1. CASE n < p
    <3>1. t.list[n] = s.list[n] /\ n \in 1..Len(s.list) /\ n <= k - 1
      BY <1>1, <1>2, <2>1
    <3>2. 1 < n => t.list[n - 1] = s.list[n - 1]
      BY <1>1, <1>2, <2>1
    <3> QED
      BY <1>1, <1>2, <1>7, <1>8, <3>1, <3>2
  <2>2. CASE n > p
    <3>0. n \in p..(Len(s.list) - 1)
      BY <1>1, <2>2
    <3>1. t.list[n] = s.list[n + 1] /\ n + 1 \in 1..Len(s.list) /\ (n <= k - 1 <=> n + 1 <= k)
          /\ 1 < n + 1 /\ (n + 1) - 1 = n
      BY <1>1, <1>2, <3>0
    <3>2. n - 1 \in p..(Len(s.list) - 1) /\ (n - 1) + 1 = n
      BY <1>1, <2>2
    <3>3. t.list[n - 1] = s.list[n]
      BY <1>2, <3>2
    <3>4. /\ Mapped(s, s.list[n + 1]) <=> n + 1 <= k
          /\ n + 1 <= k => EndBlk(s, s.list[n + 1]) <= s.tail_blkaddr
          /\ 1 < n + 1 /\ n + 1 <= k => EndBlk(s, s.list[(n + 1) - 1]) <= s.bb[s.list[n + 1]].blkaddr
      BY <1>7, <3>1
    <3> QED
      BY <1>2, <1>8, <3>1, <3>3, <3>4
  <2>3. CASE n = p
    <3>1. t.list[n] = s.list[n + 1] /\ n + 1 \in 1..Len(s.list) /\ (n <= k - 1 <=> n + 1 <= k)
          /\ 1 < n + 1 /\ (n + 1) - 1 = n
      BY <1>1, <1>2, <2>3
    <3>2. /\ Mapped(s, s.list[n + 1]) <=> n + 1 <= k
          /\ n + 1 <= k => EndBlk(s, s.list[n + 1]) <= s.tail_blkaddr
          /\ 1 < n + 1 /\ n + 1 <= k => EndBlk(s, s.list[(n + 1) - 1]) <= s.bb[s.list[n + 1]].blkaddr
      BY <1>7, <3>1
    <3>3. 1 < n /\ n <= k - 1 => EndBlk(s, s.list[n - 1]) <= s.bb[s.list[n + 1]].blkaddr
      <4> HAVE 1 < n /\ n <= k - 1
      <4>1. n \in 1..Len(s.list) /\ n - 1 \in 1..Len(s.list) /\ n <= k /\ n - 1 <= k /\ n + 1 <= k
        BY <1>1, <2>3
      <4>2. EndBlk(s, s.list[n - 1]) <= s.bb[s.list[n]].blkaddr
        BY <1>7, <4>1
      <4>3. EndBlk(s, s.list[n]) <= s.bb[s.list[n + 1]].blkaddr
        BY <3>1, <3>2, <4>1
      <4> QED
        <5>1. /\ EndBlk(s, s.list[n - 1]) \in Int /\ EndBlk(s, s.list[n]) \in Int
              /\ s.bb[s.list[n]].blkaddr \in Nat /\ s.bb[s.list[n + 1]].blkaddr \in Nat
              /\ EndBlk(s, s.list[n]) >= s.bb[s.list[n]].blkaddr
          BY <1>9, <3>1, <4>1
        <5> QED
          BY <4>2, <4>3, <5>1
    <3>4. 1 < n => t.list[n - 1] = s.list[n - 1]
      BY <1>1, <1>2, <2>3
    <3> QED
      BY <1>2, <1>8, <3>1, <3>2, <3>3, <3>4
  <2> QED
    BY <1>1, <2>1, <2>2, <2>3
<1> QED
  BY <1>3, <1>6, <1>10 DEF PrefixAt

(* Freeing an empty bb keeps the buckets exact and every bh in place. *)
LEMMA FreeRest ==
  ASSUME NEW s, TypeInv(s), BucketInv(s), KeyInv(s), NEW p \in 1..Len(s.list),
         s.bb[s.list[p]].bhs = << >>, NEW t, FreeDone(s, t, p)
  PROVE  /\ BucketInv(t) /\ KeyInv(t)
         /\ AllKept(s, t) /\ SameKeys(s, t)
         /\ \A y : On(t, y) <=> On(s, y) /\ y # s.list[p]
<1> DEFINE i == s.list[p]
<1>1. s.list \in Seq(Nat) /\ t.list \in Seq(Nat) /\ Once(s.list)
  BY TypeUse DEF TypeInv, FreeDone
<1>2. \A y : On(t, y) <=> On(s, y) /\ y # i
  BY <1>1, RemovedOn DEF On, FreeDone
<1>3. /\ t.bb = s.bb /\ t.nr = s.nr
      /\ \A ty \in Types, o \in Levels : \A y :
           Has(t.buckets[ty][o], y) <=>
             Has(s.buckets[ty][o], y) /\ ~(ty = s.bb[i].type /\ y = i)
  BY DEF FreeDone
<1> HIDE DEF i
<1>4. BucketInv(t)
  <2> SUFFICES ASSUME NEW ty \in Types, NEW o \in Levels, NEW y
               PROVE  Has(t.buckets[ty][o], y) <=>
                        /\ On(t, y) /\ Mapped(t, y)
                        /\ t.bb[y].type = ty /\ t.bb[y].off % BlkSize = o
    BY DEF BucketInv
  <2>1. Has(s.buckets[ty][o], y) <=>
          /\ On(s, y) /\ Mapped(s, y)
          /\ s.bb[y].type = ty /\ s.bb[y].off % BlkSize = o
    BY DEF BucketInv
  <2>2. Has(t.buckets[ty][o], y) <=>
          Has(s.buckets[ty][o], y) /\ ~(ty = s.bb[i].type /\ y = i)
    BY <1>3
  <2>3. (Mapped(t, y) <=> Mapped(s, y)) /\ t.bb[y] = s.bb[y]
    BY <1>3 DEF Mapped
  <2> QED
    BY <1>2, <2>1, <2>2, <2>3
<1>5. \A key, k, n : At(t, key, k, n) <=> At(s, key, k, n)
  <2> SUFFICES ASSUME NEW key, NEW k, NEW n
               PROVE  At(t, key, k, n) <=> At(s, key, k, n)
    OBVIOUS
  <2>1. ~At(s, key, i, n)
    <3>1. Len(s.bb[i].bhs) = 0
      BY DEF i
    <3> QED
      BY <3>1 DEF At
  <2>2. CASE k = i
    BY <1>2, <2>1, <2>2 DEF At
  <2>3. CASE k # i
    BY <1>2, <1>3, <2>3 DEF At
  <2> QED
    BY <2>2, <2>3
<1>6. KeyInv(t)
  BY <1>3, <1>5 DEF KeyInv
<1>7. AllKept(s, t)
  <2> SUFFICES ASSUME NEW key, NEW k \in 1..s.nr, NEW n \in Nat, At(s, key, k, n)
               PROVE  /\ At(t, key, k, n) /\ t.bb[k].bhs[n] = s.bb[k].bhs[n]
                      /\ t.bb[k].blkaddr = s.bb[k].blkaddr
    BY DEF AllKept, Kept
  <2> QED
    BY <1>3, <1>5
<1>8. SameKeys(s, t)
  BY <1>3, <1>5 DEF SameKeys, HasKey
<1> QED
  BY <1>2, <1>4, <1>6, <1>7, <1>8 DEF i

(* What counting the blocks of a bb given up changes. *)
LEMMA CountIs ==
  ASSUME NEW s, TypeInv(s), NEW i \in 1..s.nr, NEW u, u = CountMeta(s, i)
  PROVE  /\ TypeInv(u)
         /\ u.list = s.list /\ u.bb = s.bb /\ u.nr = s.nr /\ u.buckets = s.buckets
         /\ u.tail_blkaddr = s.tail_blkaddr /\ u.last_mapped = s.last_mapped
         /\ u.bug = s.bug
         /\ u.metablkcnt = s.metablkcnt + IF s.bb[i].type = "DATA" THEN 0
                                          ELSE BlkRoundUp(s.bb[i].off)
<1>1. s \in Managers /\ s.metablkcnt \in Nat /\ s.bb[i].off \in Nat
  BY TypeUse, EndUse DEF TypeInv
<1>2. CASE s.bb[i].type = "DATA"
  <2>1. u = s
    BY <1>2 DEF CountMeta
  <2> QED
    BY <1>1, <1>2, <2>1
<1>3. CASE s.bb[i].type # "DATA"
  <2> DEFINE c == s.metablkcnt + BlkRoundUp(s.bb[i].off)
  <2>1. c \in Nat
    BY <1>1, BlkRoundUpIs
  <2>2. u = [s EXCEPT !.metablkcnt = c]
    BY <1>1, <1>3 DEF CountMeta, Managers
  <2> HIDE DEF c
  <2>3. /\ u.list = s.list /\ u.bb = s.bb /\ u.nr = s.nr /\ u.buckets = s.buckets
        /\ u.tail_blkaddr = s.tail_blkaddr /\ u.last_mapped = s.last_mapped
        /\ u.bug = s.bug /\ u.metablkcnt = c /\ u \in Managers
    BY <1>1, <2>1, <2>2 DEF Managers
  <2>4. TypeInv(u)
    BY <2>3 DEF TypeInv
  <2> QED
    BY <1>3, <2>3, <2>4 DEF c
<1> QED
  BY <1>2, <1>3

(* The blocks given up are finitely many. *)
LEMMA GoneFinite ==
  ASSUME NEW s, TypeInv(s), NEW start, TileInv(s, start)
  PROVE  IsFiniteSet(Gone(s))
<1>1. Gone(s) \subseteq 0..s.tail_blkaddr
  BY TypeUse DEF Gone, TileInv
<1>2. IsFiniteSet(0..s.tail_blkaddr)
  BY TypeUse, FS_Interval
<1> QED
  BY <1>1, <1>2, FS_Subset

(* A bb that leaves the list adds its blocks, unless they hold data, to    *)
(* the metadata blocks given up: they were not among them, since blocks    *)
(* are not shared.                                                         *)
LEMMA GoneGrows ==
  ASSUME NEW s, TypeInv(s), NEW start, TileInv(s, start), NEW i, On(s, i), Mapped(s, i),
         NEW t, t.bb = s.bb, t.nr = s.nr, \A y : On(t, y) <=> On(s, y) /\ y # i
  PROVE  Cardinality(Gone(t)) = Cardinality(Gone(s)) + IF s.bb[i].type = "DATA" THEN 0
                                                       ELSE BlkRoundUp(s.bb[i].off)
<1>1. i \in 1..s.nr /\ s.bb[i] \in BlockSet
  BY TypeUse
<1>2. \A k, b : Holds(t, k, b) <=> Holds(s, k, b)
  BY DEF Holds, Mapped, EndBlk
<1>3. CASE s.bb[i].type = "DATA"
  <2>1. Gone(t) = Gone(s)
    BY <1>1, <1>2, <1>3 DEF Gone
  <2>2. Cardinality(Gone(s)) \in Nat
    BY GoneFinite, FS_CardinalityType
  <2> QED
    BY <1>3, <2>1, <2>2
<1>4. CASE s.bb[i].type # "DATA"
  <2> DEFINE a == s.bb[i].blkaddr
             r == BlkRoundUp(s.bb[i].off)
             N == a..(a + r - 1)
  <2>1. s.bb[i].type = "META"
    BY <1>1, <1>4, BlockUse DEF Types
  <2>2. a \in Nat /\ r \in Nat /\ EndBlk(s, i) = a + r
    BY <1>1, EndUse, BlkRoundUpIs DEF EndBlk
  <2> HIDE DEF a, r
  <2>3. \A b \in Nat : Holds(s, i, b) <=> b \in N
    BY <2>2 DEF Holds, a
  <2>4. N \subseteq Nat
    BY <2>2
  <2>5. Gone(t) = Gone(s) \cup N
    <3>1. ASSUME NEW b \in Nat
          PROVE  b \in Gone(t) <=> b \in Gone(s) \/ b \in N
      <4>1. b \in Gone(t) <=>
              \E k \in 1..s.nr : ~(On(s, k) /\ k # i) /\ s.bb[k].type = "META" /\ Holds(s, k, b)
        BY <1>2 DEF Gone
      <4>2. b \in Gone(s) <=>
              \E k \in 1..s.nr : ~On(s, k) /\ s.bb[k].type = "META" /\ Holds(s, k, b)
        BY DEF Gone
      <4> QED
        BY <1>1, <2>1, <2>3, <4>1, <4>2
    <3>2. Gone(t) \subseteq Nat /\ Gone(s) \subseteq Nat
      BY DEF Gone
    <3> QED
      BY <2>4, <3>1, <3>2
  <2>6. Gone(s) \cap N = {}
    <3> SUFFICES ASSUME NEW b, b \in Gone(s), b \in N PROVE FALSE
      OBVIOUS
    <3>1. b \in Nat
      BY <2>4
    <3>2. PICK k \in 1..s.nr : ~On(s, k) /\ Holds(s, k, b)
      BY DEF Gone
    <3>3. Holds(s, i, b)
      BY <2>3, <3>1
    <3>4. k = i
      BY <1>1, <3>1, <3>2, <3>3 DEF TileInv
    <3> QED
      BY <3>2, <3>4
  <2>7. IsFiniteSet(N) /\ Cardinality(N) = r
    <3>1. a \in Int /\ a + r - 1 \in Int
      BY <2>2
    <3>2. IsFiniteSet(N) /\ Cardinality(N) = IF a > a + r - 1 THEN 0 ELSE (a + r - 1) - a + 1
      BY <3>1, FS_Interval
    <3> QED
      BY <2>2, <3>2
  <2>8. IsFiniteSet(Gone(s)) /\ Cardinality(Gone(s)) \in Nat
    BY GoneFinite, FS_CardinalityType
  <2> HIDE DEF N
  <2>9. Cardinality(Gone(t)) = Cardinality(Gone(s)) + r - Cardinality(Gone(s) \cap N)
    BY <2>5, <2>7, <2>8, FS_Union
  <2>10. Cardinality(Gone(s) \cap N) = 0
    BY <2>6, FS_EmptySet
  <2> QED
    BY <1>4, <2>2, <2>8, <2>9, <2>10 DEF r
<1> QED
  BY <1>3, <1>4

(* No bb is different. *)
SameBbs(s, t) == t.bb = s.bb /\ t.nr = s.nr /\ t.tail_blkaddr = s.tail_blkaddr

(* A mapped bb without bhs is given up. *)
LEMMA GiveUpInv ==
  ASSUME NEW s, NEW start, NEW junk, MgrInv(s, start, junk), NEW p \in 1..Len(s.list),
         Mapped(s, s.list[p]), s.bb[s.list[p]].bhs = << >>,
         NEW t, t = Bfree(CountMeta(s, s.list[p]), s.list[p])
  PROVE  /\ MgrInv(t, start, junk)
         /\ AllKept(s, t) /\ SameKeys(s, t)
         /\ Removed(s.list, t.list, p)
         /\ t.bb = s.bb /\ t.nr = s.nr /\ t.tail_blkaddr = s.tail_blkaddr
         /\ SameBbs(s, t)
         /\ \A k : PrefixAt(s, k) => PrefixAt(t, k - 1)
<1> DEFINE i == s.list[p]
           u == CountMeta(s, i)
<1>1. /\ TypeInv(s) /\ PrefixInv(s) /\ BucketInv(s)
      /\ TileInv(s, start) /\ MetaInv(s, junk) /\ KeyInv(s) /\ ~s.bug
  BY DEF MgrInv
<1>2. i \in 1..s.nr /\ On(s, i)
  BY <1>1, ListUse
<1>3. /\ TypeInv(u)
      /\ u.list = s.list /\ u.bb = s.bb /\ u.nr = s.nr /\ u.buckets = s.buckets
      /\ u.tail_blkaddr = s.tail_blkaddr /\ u.last_mapped = s.last_mapped
      /\ u.bug = s.bug
      /\ u.metablkcnt = s.metablkcnt + IF s.bb[i].type = "DATA" THEN 0
                                       ELSE BlkRoundUp(s.bb[i].off)
  BY <1>1, <1>2, CountIs
<1>4. p \in 1..Len(u.list) /\ u.list[p] = i /\ t = Bfree(u, u.list[p])
  BY <1>3
<1> HIDE DEF u
<1>5. FreeDone(u, t, p)
  BY <1>3, <1>4, FreeIs
<1>6. BucketInv(u) /\ KeyInv(u)
  BY <1>1, <1>3 DEF BucketInv, KeyInv, On, Mapped, At
<1>7. /\ BucketInv(t) /\ KeyInv(t)
      /\ AllKept(u, t) /\ SameKeys(u, t)
      /\ \A y : On(t, y) <=> On(u, y) /\ y # u.list[p]
  <2>1. u.bb[u.list[p]].bhs = << >>
    BY <1>3, <1>4
  <2> QED
    BY <1>3, <1>4, <1>5, <1>6, <2>1, FreeRest
<1>8. AllKept(s, t) /\ SameKeys(s, t)
  <2>1. \A key, k, n : At(u, key, k, n) <=> At(s, key, k, n)
    BY <1>3 DEF At, On
  <2>2. \A k : Mapped(u, k) <=> Mapped(s, k)
    BY <1>3 DEF Mapped
  <2>3. AllKept(s, t)
    BY <1>3, <1>7, <2>1, <2>2 DEF AllKept, Kept
  <2> QED
    BY <1>3, <1>7, <2>1, <2>3 DEF SameKeys, HasKey
<1>9. \A y : On(t, y) <=> On(s, y) /\ y # i
  BY <1>3, <1>4, <1>7 DEF On
<1>10. /\ TypeInv(t) /\ t.bb = s.bb /\ t.nr = s.nr /\ t.tail_blkaddr = s.tail_blkaddr
       /\ t.metablkcnt = u.metablkcnt /\ t.bug = s.bug
       /\ Removed(s.list, t.list, p)
  BY <1>3, <1>4, <1>5 DEF FreeDone
<1>11. ASSUME NEW k, PrefixAt(s, k) PROVE PrefixAt(t, k - 1)
  <2>1. PrefixAt(u, k)
    BY <1>3, <1>11 DEF PrefixAt, Mapped, EndBlk
  <2>2. p <= k
    BY <1>11 DEF PrefixAt
  <2> QED
    BY <1>3, <1>4, <1>5, <2>1, <2>2, FreePrefix
<1>12. PrefixInv(t)
  <2>1. PICK k \in Nat : PrefixAt(s, k)
    BY <1>1 DEF PrefixInv
  <2>2. PrefixAt(t, k - 1)
    BY <1>11, <2>1
  <2>3. k - 1 \in Nat
    BY <1>10, <2>2, ListUse DEF PrefixAt
  <2> QED
    BY <2>2, <2>3 DEF PrefixInv
<1>13. TileInv(t, start)
  <2>1. \A k, b : Holds(t, k, b) <=> Holds(s, k, b)
    BY <1>10 DEF Holds, Mapped, EndBlk
  <2> QED
    BY <1>1, <1>10, <2>1 DEF TileInv
<1>14. MetaInv(t, junk)
  <2>1. Cardinality(Gone(t)) = Cardinality(Gone(s)) + IF s.bb[i].type = "DATA" THEN 0
                                                      ELSE BlkRoundUp(s.bb[i].off)
    BY <1>1, <1>2, <1>9, <1>10, GoneGrows
  <2>2. Cardinality(Gone(s)) \in Nat
    BY <1>1, GoneFinite, FS_CardinalityType
  <2>3. BlkRoundUp(s.bb[i].off) \in Nat
    BY <1>1, <1>2, EndUse, BlkRoundUpIs
  <2>4. /\ junk \in Nat /\ s.metablkcnt = junk + Cardinality(Gone(s))
    BY <1>1 DEF MetaInv
  <2> QED
    BY <1>3, <1>10, <2>1, <2>2, <2>3, <2>4 DEF MetaInv
<1> QED
  BY <1>1, <1>7, <1>8, <1>10, <1>11, <1>12, <1>13, <1>14 DEF MgrInv, SameBbs
-----------------------------------------------------------------------------
(* erofs_bdrop *)

(* Composing a step on one bh with one that moves none. *)
LEMMA OthersTrans ==
  ASSUME NEW s, NEW u, NEW t, NEW key, TypeInv(u), OthersKept(s, u, key),
         AllKept(u, t), SameKeys(u, t)
  PROVE  OthersKept(s, t, key)
<1> SUFFICES ASSUME NEW y, y # key
             PROVE  Kept(s, t, y) /\ (HasKey(t, y) <=> HasKey(s, y))
  BY DEF OthersKept
<1>1. Kept(s, u, y) /\ (HasKey(u, y) <=> HasKey(s, y))
  BY DEF OthersKept
<1>2. Kept(u, t, y) /\ (HasKey(t, y) <=> HasKey(u, y))
  BY DEF AllKept, SameKeys
<1> QED
  BY <1>1, <1>2, KeptTrans

(* Nothing is different on the list. *)
LEMMA ListSame ==
  ASSUME NEW v, NEW t, t.list = v.list, t.buckets = v.buckets, t.nr = v.nr,
         \A y : On(v, y) => t.bb[y] = v.bb[y]
  PROVE  /\ BucketInv(v) => BucketInv(t)
         /\ \A y, k, n : At(t, y, k, n) <=> At(v, y, k, n)
<1>1. \A y : On(t, y) <=> On(v, y)
  BY DEF On
<1>2. \A y : On(v, y) => (Mapped(t, y) <=> Mapped(v, y))
  BY DEF Mapped
<1>3. ASSUME BucketInv(v), NEW ty \in Types, NEW o \in Levels, NEW y
      PROVE  Has(t.buckets[ty][o], y) <=>
               /\ On(t, y) /\ Mapped(t, y)
               /\ t.bb[y].type = ty /\ t.bb[y].off % BlkSize = o
  <2>1. Has(v.buckets[ty][o], y) <=>
          /\ On(v, y) /\ Mapped(v, y)
          /\ v.bb[y].type = ty /\ v.bb[y].off % BlkSize = o
    BY <1>3 DEF BucketInv
  <2> QED
    BY <1>1, <1>2, <2>1
<1>4. BucketInv(v) => BucketInv(t)
  BY <1>3 DEF BucketInv
<1>5. ASSUME NEW y, NEW k, NEW n PROVE At(t, y, k, n) <=> At(v, y, k, n)
  BY <1>1 DEF At
<1> QED
  BY <1>4, <1>5

(* Keys stay distinct when no bh moves. *)
LEMMA SameAt ==
  ASSUME NEW v, NEW t, t.nr = v.nr, \A y, k, n : At(t, y, k, n) <=> At(v, y, k, n), KeyInv(v)
  PROVE  KeyInv(t)
BY DEF KeyInv

(* The n-th bh of bb i is gone, and the bb with its last one. *)
DropDone(s, t, i, n) ==
  /\ t.nr = s.nr /\ t.tail_blkaddr = s.tail_blkaddr
  /\ \A k \in 1..s.nr : /\ t.bb[k].blkaddr = s.bb[k].blkaddr
                        /\ t.bb[k].off = s.bb[k].off
                        /\ k # i => t.bb[k] = s.bb[k]
  /\ t.bb[i].bhs = RemoveAt(s.bb[i].bhs, n)
  /\ \A y : On(t, y) => On(s, y)
  /\ On(t, i) => t.bb[i].bhs # << >>

(* What is dropped had an address. *)
THEOREM DropInv ==
  ASSUME NEW s, NEW start, NEW junk, MgrInv(s, start, junk), NEW key \in KeySet,
         NEW i, NEW n, At(s, key, i, n), Mapped(s, i), NEW t, t = Bdrop(s, key, FALSE)
  PROVE  /\ MgrInv(t, start, junk)
         /\ OthersKept(s, t, key) /\ ~HasKey(t, key)
         /\ DropDone(s, t, i, n)
<1> DEFINE q == RemoveAt(s.bb[i].bhs, n)
           u == WithBhs(s, i, q)
<1>1. TypeInv(s) /\ KeyInv(s)
  BY DEF MgrInv
<1>2. BlockOf(s, key) = i /\ BhNr(s, key) = n
  BY <1>1, BlockIs
<1>3. t = IF u.bb[i].bhs # << >> THEN u ELSE Bfree(CountMeta(u, i), i)
  BY <1>2 DEF Bdrop, Rollback, WithBhs
<1> HIDE DEF u
<1>4. /\ MgrInv(u, start, junk) /\ BhsDone(s, u, i, q)
      /\ OthersKept(s, u, key) /\ ~HasKey(u, key)
  BY RemoveInv DEF u
<1>41. /\ u.nr = s.nr /\ u.tail_blkaddr = s.tail_blkaddr /\ u.list = s.list
       /\ \A k \in 1..s.nr : /\ u.bb[k].blkaddr = s.bb[k].blkaddr
                             /\ u.bb[k].off = s.bb[k].off
                             /\ k # i => u.bb[k] = s.bb[k]
       /\ u.bb[i].bhs = RemoveAt(s.bb[i].bhs, n)
  BY <1>4 DEF BhsDone, SameBlocks
<1>5. CASE u.bb[i].bhs # << >>
  <2>1. DropDone(s, u, i, n)
    BY <1>41, <1>5 DEF DropDone, On
  <2> QED
    BY <1>3, <1>4, <1>5, <2>1
<1>6. CASE u.bb[i].bhs = << >>
  <2>1. PICK p \in 1..Len(s.list) : s.list[p] = i
    BY <1>1, ListUse DEF At
  <2>2. i \in 1..s.nr
    BY <1>1, TypeUse DEF At
  <2>3. /\ p \in 1..Len(u.list) /\ u.list[p] = i /\ Mapped(u, u.list[p])
        /\ u.bb[u.list[p]].bhs = << >>
    BY <1>4, <1>6, <2>1, <2>2 DEF BhsDone, SameBlocks, Mapped
  <2>4. t = Bfree(CountMeta(u, u.list[p]), u.list[p])
    BY <1>3, <1>6, <2>3
  <2>41. MgrInv(u, start, junk)
    BY <1>4
  <2>42. MgrInv(t, start, junk) /\ AllKept(u, t) /\ SameKeys(u, t)
    BY <2>3, <2>4, <2>41, GiveUpInv
  <2>43. Removed(u.list, t.list, p)
    BY <2>3, <2>4, <2>41, GiveUpInv
  <2>44. SameBbs(u, t)
    BY <2>3, <2>4, <2>41, GiveUpInv
  <2>5. /\ MgrInv(t, start, junk) /\ AllKept(u, t) /\ SameKeys(u, t)
        /\ Removed(u.list, t.list, p)
        /\ t.bb = u.bb /\ t.nr = u.nr /\ t.tail_blkaddr = u.tail_blkaddr
    BY <2>42, <2>43, <2>44 DEF SameBbs
  <2>6. TypeInv(u)
    BY <1>4 DEF MgrInv
  <2>7. OthersKept(s, t, key)
    BY <1>4, <2>5, <2>6, OthersTrans
  <2>8. \A y : On(t, y) <=> On(u, y) /\ y # i
    <3>1. u.list \in Seq(Nat) /\ Once(u.list) /\ t.list \in Seq(Nat)
      BY <2>5, <2>6 DEF MgrInv, TypeInv, Managers
    <3>2. \A y : Has(t.list, y) <=> Has(u.list, y) /\ y # u.list[p]
      BY <2>3, <2>5, <3>1, RemovedOn
    <3> QED
      BY <2>3, <3>2 DEF On
  <2>9. DropDone(s, t, i, n)
    BY <1>41, <2>5, <2>8 DEF DropDone, On
  <2> QED
    BY <1>4, <2>5, <2>7, <2>9 DEF SameKeys
<1> QED
  BY <1>5, <1>6

(* Bb i is revoked, and all others stay. *)
RevokeDone(s, t, i) ==
  /\ t.nr = s.nr
  /\ \A k \in 1..s.nr : k # i => t.bb[k] = s.bb[k]
  /\ \A y : On(t, y) <=> On(s, y) /\ y # i

(* An empty bb at the end of the image is revoked. *)
THEOREM RevokeInv ==
  ASSUME NEW s, NEW start, NEW junk, MgrInv(s, start, junk), NEW key \in KeySet,
         NEW i, At(s, key, i, 1), Len(s.bb[i].bhs) = 1, Mapped(s, i), s.bb[i].off = 0,
         s.tail_blkaddr = EndBlk(s, i), NEW t, t = Bdrop(s, key, TRUE)
  PROVE  /\ MgrInv(t, start, junk)
         /\ OthersKept(s, t, key) /\ ~HasKey(t, key)
         /\ RevokeDone(s, t, i)
<1> DEFINE q == RemoveAt(s.bb[i].bhs, 1)
           u == WithBhs(s, i, q)
           v == Bfree(u, i)
           a == s.bb[i].blkaddr
           b == [v.bb[i] EXCEPT !.blkaddr = NULL_ADDR]
<1>1. TypeInv(s) /\ KeyInv(s) /\ i \in 1..s.nr
  BY TypeUse DEF MgrInv, At
<1>2. BlockOf(s, key) = i /\ BhNr(s, key) = 1
  BY <1>1, BlockIs
<1>3. Rollback(s, i, TRUE)
  BY DEF Rollback, Mapped
<1>4. t = IF u.bb[i].bhs # << >> THEN u
          ELSE [v EXCEPT !.tail_blkaddr = a, !.bb[i].blkaddr = NULL_ADDR]
  BY <1>2, <1>3 DEF Bdrop, WithBhs
<1>5. /\ MgrInv(u, start, junk) /\ BhsDone(s, u, i, q)
      /\ OthersKept(s, u, key) /\ ~HasKey(u, key)
  BY RemoveInv
<1> HIDE DEF u
<1>6. u.bb[i].bhs = << >>
  <2>1. s.bb[i].bhs \in Seq(BhSet)
    BY <1>1, TypeUse, BlockUse
  <2>2. q \in Seq(BhSet) /\ Len(q) = 0
    <3>1. 1 \in 1..Len(s.bb[i].bhs) /\ Len(s.bb[i].bhs) - 1 = 0
      OBVIOUS
    <3>2. q \in Seq(BhSet) /\ Len(q) = Len(s.bb[i].bhs) - 1
      <4>1. q \in Seq(BhSet) /\ Removed(s.bb[i].bhs, q, 1)
        BY <2>1, <3>1, RemoveAtIs
      <4> HIDE DEF q
      <4> QED
        BY <4>1 DEF Removed
    <3> QED
      BY <3>1, <3>2
  <2>3. q = << >>
    <3> HIDE DEF q
    <3> QED
      BY <2>2
  <2> QED
    BY <1>5, <2>3 DEF BhsDone
<1>7. PICK p \in 1..Len(s.list) : s.list[p] = i
  BY <1>1, ListUse DEF At
<1>8. /\ TypeInv(u) /\ PrefixInv(u) /\ BucketInv(u)
      /\ TileInv(u, start) /\ MetaInv(u, junk) /\ KeyInv(u) /\ ~u.bug
  BY <1>5 DEF MgrInv
<1>9. /\ p \in 1..Len(u.list) /\ u.list[p] = i /\ u.nr = s.nr
      /\ u.bb[i].blkaddr = a /\ u.tail_blkaddr = s.tail_blkaddr /\ u.bb[i].off = 0
  BY <1>1, <1>5, <1>7 DEF BhsDone, SameBlocks
<1>10. a \in Nat /\ EndBlk(u, i) = a /\ u.tail_blkaddr = a /\ Mapped(u, i)
  <2>1. a \in Nat /\ a # NULL_ADDR
    BY <1>1, EndUse DEF NULL_ADDR
  <2>2. BlkRoundUp(0) = 0
    BY BlkRoundUpZero
  <2>3. EndBlk(u, i) = a /\ EndBlk(s, i) = a
    BY <1>9, <2>1, <2>2 DEF EndBlk
  <2> QED
    BY <1>9, <2>1, <2>3 DEF Mapped
<1> HIDE DEF a
<1>11. FreeDone(u, v, p)
  BY <1>8, <1>9, FreeIs
<1>12. /\ BucketInv(v) /\ KeyInv(v)
       /\ AllKept(u, v) /\ SameKeys(u, v)
       /\ \A y : On(v, y) <=> On(u, y) /\ y # i
  BY <1>6, <1>8, <1>9, <1>11, FreeRest
<1>13. /\ TypeInv(v) /\ v.bb = u.bb /\ v.nr = u.nr /\ v.tail_blkaddr = a
       /\ v.metablkcnt = u.metablkcnt /\ v.bug = u.bug
  BY <1>6, <1>9, <1>10, <1>11 DEF FreeDone
<1> HIDE DEF v
<1>14. /\ b \in BlockSet /\ b.blkaddr = NULL_ADDR
       /\ i \in 1..v.nr
  <2>1. i \in 1..v.nr
    BY <1>1, <1>9, <1>13
  <2>2. v.bb[i] \in BlockSet
    BY <1>13, <2>1, TypeUse
  <2> QED
    BY <2>1, <2>2 DEF BlockSet
<1>15. t = Put(v, i, b, a)
  <2>1. v.bb \in Seq(BlockSet) /\ i \in 1..Len(v.bb) /\ v \in Managers
    BY <1>13, <1>14, TypeUse DEF TypeInv
  <2>2. t = [v EXCEPT !.tail_blkaddr = a, !.bb[i].blkaddr = NULL_ADDR]
    BY <1>4, <1>6
  <2> QED
    BY <2>1, <2>2 DEF Put, Managers
<1> HIDE DEF b
<1>16. /\ TypeInv(t)
       /\ t.list = v.list /\ t.nr = v.nr /\ t.buckets = v.buckets
       /\ t.tail_blkaddr = a /\ t.last_mapped = v.last_mapped
       /\ t.metablkcnt = v.metablkcnt /\ t.bug = v.bug
       /\ t.bb[i] = b
       /\ \A k \in 1..v.nr : k # i => t.bb[k] = v.bb[k]
  <2>1. TypeInv(v) /\ i \in 1..v.nr /\ b \in BlockSet /\ a \in Nat
    BY <1>10, <1>13, <1>14
  <2>2. PutDone(v, t, i, b, a)
    BY <1>15, <2>1, PutUse
  <2> QED
    BY <2>2 DEF PutDone
<1>17. \A y : On(t, y) <=> On(v, y)
  BY <1>16 DEF On
<1>18. \A y : On(v, y) => y \in 1..v.nr /\ y # i /\ t.bb[y] = v.bb[y]
  BY <1>12, <1>13, <1>16, TypeUse
<1>19. PrefixInv(t)
  <2>1. PICK k \in Nat : PrefixAt(u, k)
    BY <1>8 DEF PrefixInv
  <2>2. p <= k
    BY <1>9, <1>10, <2>1 DEF PrefixAt
  <2>3. PrefixAt(v, k - 1)
    BY <1>8, <1>9, <1>11, <2>1, <2>2, FreePrefix
  <2>4. k - 1 \in Nat /\ Len(v.list) \in Nat
    BY <1>13, <2>3, ListUse DEF PrefixAt
  <2>5. PrefixAt(t, k - 1)
    <3>1. \A r \in 1..Len(v.list) : t.bb[v.list[r]] = v.bb[v.list[r]]
      BY <1>13, <1>18, ListUse
    <3>2. \A r \in 1..Len(v.list) :
            /\ Mapped(t, v.list[r]) <=> Mapped(v, v.list[r])
            /\ EndBlk(t, v.list[r]) = EndBlk(v, v.list[r])
      BY <3>1 DEF Mapped, EndBlk
    <3>3. \A r \in 1..Len(v.list) : 1 < r => r - 1 \in 1..Len(v.list)
      BY <2>4
    <3>4. ASSUME NEW r \in 1..Len(v.list)
          PROVE  /\ Mapped(t, v.list[r]) <=> r <= k - 1
                 /\ r <= k - 1 => EndBlk(t, v.list[r]) <= t.tail_blkaddr
                 /\ 1 < r /\ r <= k - 1 => EndBlk(t, v.list[r - 1]) <= t.bb[v.list[r]].blkaddr
      <4>1. /\ Mapped(v, v.list[r]) <=> r <= k - 1
            /\ r <= k - 1 => EndBlk(v, v.list[r]) <= v.tail_blkaddr
            /\ 1 < r /\ r <= k - 1 => EndBlk(v, v.list[r - 1]) <= v.bb[v.list[r]].blkaddr
        BY <2>3 DEF PrefixAt
      <4>2. 1 < r => EndBlk(t, v.list[r - 1]) = EndBlk(v, v.list[r - 1])
        BY <3>2, <3>3
      <4> QED
        BY <1>13, <1>16, <3>1, <3>2, <4>1, <4>2
    <3>5. k - 1 \in 0..Len(t.list) /\ t.last_mapped = IF k - 1 = 0 THEN HEAD ELSE t.list[k - 1]
      BY <1>16, <2>3 DEF PrefixAt
    <3> QED
      BY <1>16, <3>4, <3>5 DEF PrefixAt
  <2> QED
    BY <2>4, <2>5 DEF PrefixInv
<1>20. BucketInv(t)
  BY <1>12, <1>16, <1>18, ListSame
<1>21. \A k \in 1..s.nr, c \in Nat : Holds(t, k, c) <=> Holds(u, k, c)
  <2> SUFFICES ASSUME NEW k \in 1..s.nr, NEW c \in Nat
               PROVE  Holds(t, k, c) <=> Holds(u, k, c)
    OBVIOUS
  <2>1. CASE k = i
    <3>1. ~Holds(t, i, c)
      BY <1>14, <1>16 DEF Holds, Mapped
    <3>2. ~Holds(u, i, c)
      BY <1>9, <1>10 DEF Holds
    <3> QED
      BY <2>1, <3>1, <3>2
  <2>2. CASE k # i
    BY <1>9, <1>13, <1>16, <2>2 DEF Holds, Mapped, EndBlk
  <2> QED
    BY <2>1, <2>2
<1>22. TileInv(t, start)
  BY <1>8, <1>9, <1>10, <1>13, <1>16, <1>21 DEF TileInv
<1>23. MetaInv(t, junk)
  <2>1. Gone(t) = Gone(u)
    <3>1. ASSUME NEW c \in Nat PROVE c \in Gone(t) <=> c \in Gone(u)
      <4>1. ASSUME NEW k \in 1..s.nr, Holds(u, k, c)
            PROVE  k # i /\ t.bb[k].type = u.bb[k].type /\ (On(t, k) <=> On(u, k))
        <5>1. k # i
          BY <1>9, <1>10, <4>1 DEF Holds
        <5> QED
          BY <1>9, <1>12, <1>13, <1>16, <1>17, <5>1
      <4>2. t.nr = s.nr /\ u.nr = s.nr
        BY <1>9, <1>13, <1>16
      <4>3. c \in Gone(t) <=>
              \E k \in 1..s.nr : ~On(t, k) /\ t.bb[k].type = "META" /\ Holds(t, k, c)
        BY <4>2 DEF Gone
      <4>4. c \in Gone(u) <=>
              \E k \in 1..s.nr : ~On(u, k) /\ u.bb[k].type = "META" /\ Holds(u, k, c)
        BY <4>2 DEF Gone
      <4> QED
        BY <1>21, <4>1, <4>3, <4>4
    <3>2. Gone(t) \subseteq Nat /\ Gone(u) \subseteq Nat
      BY DEF Gone
    <3> QED
      BY <3>1, <3>2
  <2> QED
    BY <1>8, <1>13, <1>16, <2>1 DEF MetaInv
<1>24. \A y, k, n : At(t, y, k, n) <=> At(v, y, k, n)
  BY <1>16, <1>18, ListSame
<1>25. KeyInv(t)
  BY <1>12, <1>16, <1>24, SameAt
<1>26. AllKept(v, t) /\ SameKeys(v, t)
  <2>1. ASSUME NEW y, NEW k \in 1..v.nr, NEW n \in Nat, At(v, y, k, n)
        PROVE  /\ At(t, y, k, n) /\ t.bb[k] = v.bb[k]
    BY <1>18, <1>24, <2>1 DEF At
  <2> QED
    BY <1>16, <1>24, <2>1 DEF AllKept, Kept, SameKeys, HasKey
<1>27. OthersKept(s, t, key)
  <2>1. OthersKept(s, v, key)
    BY <1>5, <1>8, <1>12, OthersTrans
  <2> QED
    BY <1>13, <1>26, <2>1, OthersTrans
<1>28. ~HasKey(t, key)
  BY <1>5, <1>12, <1>26 DEF SameKeys
<1>29. MgrInv(t, start, junk)
  BY <1>8, <1>13, <1>16, <1>19, <1>20, <1>22, <1>23, <1>25 DEF MgrInv
<1>30. RevokeDone(s, t, i)
  <2>1. u.list = s.list /\ \A k \in 1..s.nr : k # i => u.bb[k] = s.bb[k]
    BY <1>5 DEF BhsDone, SameBlocks
  <2> QED
    BY <1>9, <1>12, <1>13, <1>16, <1>17, <2>1 DEF RevokeDone, On
<1> QED
  BY <1>27, <1>28, <1>29, <1>30
-----------------------------------------------------------------------------
(* erofs_bflush *)

(* The bhs left over of the first ones. *)
SkipStep(c, n, l) == IF c[n].op = "skip" THEN Append(l, c[n]) ELSE l
IsSkipRun(f, c, z) == f = [n \in 0..z |-> IF n = 0 THEN << >> ELSE SkipStep(c, n, f[n - 1])]

(* The recursion of erofs_bflush's inner loop defines a function. *)
LEMMA SkipRunExists ==
  ASSUME NEW c, NEW z \in Nat
  PROVE  \E f : IsSkipRun(f, c, z)
<1> DEFINE T == {n \in Nat : ~\E f : IsSkipRun(f, c, n)}
<1>1. CASE T = {}
  BY <1>1
<1>2. CASE T # {}
  <2>1. T \subseteq Nat
    OBVIOUS
  <2>2. PICK n \in T : \A y \in T : n <= y
    <3> HIDE DEF T
    <3> QED
      BY <1>2, <2>1, NatMin
  <2>3. n \in Nat /\ ~\E f : IsSkipRun(f, c, n)
    BY <2>2
  <2>4. CASE n = 0
    <3> DEFINE f == [p \in 0..n |-> << >>]
    <3>1. f = [p \in 0..n |-> IF p = 0 THEN << >> ELSE SkipStep(c, p, f[p - 1])]
      <4>1. \A p \in 0..n : p = 0
        BY <2>4
      <4> QED
        BY <4>1
    <3> QED
      BY <2>3, <3>1 DEF IsSkipRun
  <2>5. CASE n # 0
    <3>1. n - 1 \in Nat /\ ~(n <= n - 1)
      BY <2>3, <2>5
    <3>2. n - 1 \notin T
      BY <2>2, <3>1
    <3>3. PICK g : IsSkipRun(g, c, n - 1)
      BY <3>1, <3>2
    <3> DEFINE f == [p \in 0..n |-> IF p = n THEN SkipStep(c, n, g[n - 1]) ELSE g[p]]
    <3>4. ASSUME NEW p \in 0..n
          PROVE  f[p] = IF p = 0 THEN << >> ELSE SkipStep(c, p, f[p - 1])
      <4>1. \A r \in 0..(n - 1) : g[r] = IF r = 0 THEN << >> ELSE SkipStep(c, r, g[r - 1])
        BY <3>3 DEF IsSkipRun
      <4>2. CASE p = n
        <5>1. n - 1 \in 0..n /\ n - 1 # n
          BY <2>3, <3>1
        <5>2. f[n - 1] = g[n - 1]
          BY <5>1
        <5>3. f[n] = SkipStep(c, n, g[n - 1])
          BY <4>2
        <5> QED
          BY <2>5, <4>2, <5>2, <5>3
      <4>3. CASE p # n
        <5>1. p \in 0..(n - 1)
          BY <2>3, <4>3
        <5>2. f[p] = g[p]
          BY <4>3
        <5>3. CASE p = 0
          BY <4>1, <5>1, <5>2, <5>3
        <5>4. CASE p # 0
          <6>1. p - 1 \in 0..n /\ p - 1 # n
            BY <2>3, <5>1, <5>4
          <6>2. f[p - 1] = g[p - 1]
            BY <6>1
          <6> QED
            BY <4>1, <5>1, <5>2, <5>4, <6>2
        <5> QED
          BY <5>3, <5>4
      <4> QED
        BY <4>2, <4>3
    <3>5. f = [p \in 0..n |-> IF p = 0 THEN << >> ELSE SkipStep(c, p, f[p - 1])]
      <4> DEFINE h == [p \in 0..n |-> IF p = 0 THEN << >> ELSE SkipStep(c, p, f[p - 1])]
      <4>1. \A p \in 0..n : f[p] = h[p]
        BY <3>4
      <4>3. f = [p \in 0..n |-> f[p]] /\ h = [p \in 0..n |-> h[p]]
        OBVIOUS
      <4> HIDE DEF f, h
      <4> QED
        BY <4>1, <4>3 DEF h
    <3> QED
      BY <2>3, <3>5 DEF IsSkipRun
  <2> QED
    BY <2>4, <2>5
<1> QED
  BY <1>1, <1>2

(* q consists of bhs of c that may not be written yet; e says which. *)
SkipsBy(q, c, e) ==
  /\ \A x \in 1..Len(q) : e[x] \in 1..Len(c) /\ q[x] = c[e[x]] /\ q[x].op = "skip"
  /\ \A x, y \in 1..Len(q) : e[x] = e[y] => x = y

(* What erofs_bflush leaves of the bhs of a bb: those that may not be      *)
(* written yet, all of them, in order.                                     *)
LEMMA SkippedIs ==
  ASSUME NEW c \in Seq(BhSet)
  PROVE  Skipped(c) \in Seq(BhSet) /\ \E e : SkipsBy(Skipped(c), c, e)
<1> DEFINE z == Len(c)
           f == CHOOSE g : g = [n \in 0..Len(c) |->
                                  IF n = 0 THEN << >>
                                  ELSE IF c[n].op = "skip" THEN Append(g[n - 1], c[n])
                                  ELSE g[n - 1]]
<1>1. Skipped(c) = f[Len(c)]
  BY DEF Skipped
<1>2. z \in Nat
  OBVIOUS
<1>3. \E g : IsSkipRun(g, c, z)
  <2> HIDE DEF z
  <2> QED
    BY <1>2, SkipRunExists
<1>4. f = [n \in 0..Len(c) |-> IF n = 0 THEN << >>
                               ELSE IF c[n].op = "skip" THEN Append(f[n - 1], c[n])
                               ELSE f[n - 1]]
  BY <1>3 DEF IsSkipRun, SkipStep
<1> HIDE DEF f
<1>5. /\ f[0] = << >>
      /\ \A n \in 1..z : /\ c[n].op = "skip" => f[n] = Append(f[n - 1], c[n])
                         /\ c[n].op # "skip" => f[n] = f[n - 1]
  <2>1. \A n \in 0..z : f[n] = IF n = 0 THEN << >>
                               ELSE IF c[n].op = "skip" THEN Append(f[n - 1], c[n])
                               ELSE f[n - 1]
    BY <1>4
  <2>2. f[0] = << >>
    BY <1>2, <2>1
  <2>3. ASSUME NEW n \in 1..z
        PROVE  /\ c[n].op = "skip" => f[n] = Append(f[n - 1], c[n])
               /\ c[n].op # "skip" => f[n] = f[n - 1]
    <3>1. n \in 0..z /\ n # 0
      BY <1>2
    <3>2. f[n] = IF c[n].op = "skip" THEN Append(f[n - 1], c[n]) ELSE f[n - 1]
      BY <2>1, <3>1
    <3> QED
      BY <3>2
  <2> QED
    BY <2>2, <2>3
<1> HIDE DEF z
<1> DEFINE E(l, n, e) ==
             /\ \A x \in 1..Len(l) : e[x] \in 1..n /\ l[x] = c[e[x]] /\ l[x].op = "skip"
             /\ \A x, y \in 1..Len(l) : e[x] = e[y] => x = y
           Q(l, n) == l \in Seq(BhSet) /\ \E e : E(l, n, e)
<1>6. Q(f[0], 0)
  <2>1. f[0] \in Seq(BhSet) /\ Len(f[0]) = 0
    BY <1>5
  <2>2. E(f[0], 0, << >>)
    BY <2>1
  <2> QED
    BY <2>1, <2>2
<1>7. ASSUME NEW n \in 1..z, Q(f[n - 1], n - 1)
      PROVE  Q(f[n], n)
  <2> DEFINE l == f[n - 1]
             r == f[n]
  <2>1. l \in Seq(BhSet) /\ n \in Nat /\ Len(l) \in Nat
    BY <1>2, <1>7
  <2>2. PICK e : E(l, n - 1, e)
    BY <1>7
  <2>3. c[n] \in BhSet
    BY <1>2 DEF z
  <2>4. c[n].op = "skip" => r = Append(l, c[n])
    BY <1>5
  <2>5. c[n].op # "skip" => r = l
    BY <1>5
  <2>6. /\ \A x \in 1..Len(l) : e[x] \in 1..(n - 1) /\ l[x] = c[e[x]] /\ l[x].op = "skip"
        /\ \A x, y \in 1..Len(l) : e[x] = e[y] => x = y
    BY <2>2
  <2> HIDE DEF l, r
  <2>7. CASE c[n].op = "skip"
    <3> DEFINE d == [x \in 1..(Len(l) + 1) |-> IF x = Len(l) + 1 THEN n ELSE e[x]]
    <3>1. /\ r \in Seq(BhSet) /\ Len(r) = Len(l) + 1 /\ r[Len(l) + 1] = c[n]
          /\ \A x \in 1..Len(l) : r[x] = l[x]
      BY <2>1, <2>3, <2>4, <2>7
    <3>2. d[Len(l) + 1] = n /\ \A x \in 1..Len(l) : d[x] = e[x]
      BY <2>1
    <3> HIDE DEF d
    <3>3. \A x \in 1..Len(r) : d[x] \in 1..n /\ r[x] = c[d[x]] /\ r[x].op = "skip"
      <4> SUFFICES ASSUME NEW x \in 1..Len(r)
                   PROVE  d[x] \in 1..n /\ r[x] = c[d[x]] /\ r[x].op = "skip"
        OBVIOUS
      <4>1. CASE x = Len(l) + 1
        BY <2>1, <2>7, <3>1, <3>2, <4>1
      <4>2. CASE x # Len(l) + 1
        <5>1. x \in 1..Len(l)
          BY <2>1, <3>1, <4>2
        <5>2. e[x] \in 1..(n - 1) /\ l[x] = c[e[x]] /\ l[x].op = "skip"
          BY <2>6, <5>1
        <5>3. d[x] = e[x] /\ r[x] = l[x]
          BY <3>1, <3>2, <5>1
        <5> QED
          BY <2>1, <5>2, <5>3
      <4> QED
        BY <4>1, <4>2
    <3>4. ASSUME NEW x \in 1..Len(r), NEW y \in 1..Len(r), d[x] = d[y]
          PROVE  x = y
      <4>1. \A w \in 1..Len(r) : w = Len(l) + 1 \/ (w \in 1..Len(l) /\ d[w] # n)
        <5> SUFFICES ASSUME NEW w \in 1..Len(r), w # Len(l) + 1
                     PROVE  w \in 1..Len(l) /\ d[w] # n
          OBVIOUS
        <5>1. w \in 1..Len(l)
          BY <2>1, <3>1
        <5>2. d[w] = e[w] /\ e[w] \in 1..(n - 1)
          BY <2>6, <3>2, <5>1
        <5> QED
          BY <2>1, <5>1, <5>2
      <4>2. CASE x = Len(l) + 1
        BY <3>2, <3>4, <4>1, <4>2
      <4>3. CASE y = Len(l) + 1
        BY <3>2, <3>4, <4>1, <4>3
      <4>4. CASE x \in 1..Len(l) /\ y \in 1..Len(l)
        BY <2>6, <3>2, <3>4, <4>4
      <4> QED
        BY <4>1, <4>2, <4>3, <4>4
    <3>5. E(r, n, d)
      BY <3>3, <3>4
    <3> QED
      BY <3>1, <3>5 DEF r
  <2>8. CASE c[n].op # "skip"
    <3>1. E(r, n, e)
      <4>1. r = l
        BY <2>5, <2>8
      <4>2. \A x : x \in 1..(n - 1) => x \in 1..n
        BY <2>1
      <4> QED
        BY <2>6, <4>1, <4>2
    <3> QED
      BY <2>1, <2>5, <2>8, <3>1 DEF r
  <2> QED
    BY <2>7, <2>8
<1> HIDE DEF Q
<1>8. ASSUME NEW n \in 0..z, ~Q(f[n], n)
      PROVE  FALSE
  <2> DEFINE T == {p \in 0..z : ~Q(f[p], p)}
  <2>1. T \subseteq Nat /\ T # {}
    BY <1>2, <1>8
  <2>2. PICK p \in T : \A y \in T : p <= y
    <3> HIDE DEF T
    <3> QED
      BY <2>1, NatMin
  <2>3. p \in 0..z /\ ~Q(f[p], p)
    BY <2>2
  <2>4. p # 0
    BY <1>6, <2>3
  <2>5. p - 1 \in 0..z /\ ~(p <= p - 1) /\ p \in 1..z
    BY <1>2, <2>3, <2>4
  <2>6. Q(f[p - 1], p - 1)
    BY <2>2, <2>5
  <2> QED
    BY <1>7, <2>3, <2>5, <2>6
<1>9. Q(f[z], z)
  <2>1. z \in 0..z
    BY <1>2
  <2> QED
    BY <1>8, <2>1
<1>10. f[z] \in Seq(BhSet) /\ \E e : E(f[z], z, e)
  BY <1>9 DEF Q
<1>11. PICK e : E(f[z], z, e)
  BY <1>10
<1>12. SkipsBy(f[z], c, e)
  BY <1>11 DEF SkipsBy, z
<1>13. Skipped(c) = f[z]
  BY <1>1 DEF z
<1> HIDE DEF E
<1> QED
  BY <1>10, <1>12, <1>13

(* What is left of the bhs of bb i. *)
LeftOver(s, t, i) ==
  \A n \in 1..Len(t.bb[i].bhs) :
    /\ t.bb[i].bhs[n].op = "skip"
    /\ \E l \in 1..Len(s.bb[i].bhs) : t.bb[i].bhs[n] = s.bb[i].bhs[l]

(* What does not change when things are written: sizes, and addresses.     *)
SameSizes(s, t) ==
  /\ t.nr = s.nr
  /\ \A y \in 1..s.nr : /\ t.bb[y].off = s.bb[y].off /\ t.bb[y].type = s.bb[y].type
                        /\ Mapped(s, y) => t.bb[y].blkaddr = s.bb[y].blkaddr

FlushOneDone(s, t, p) ==
  /\ SameSizes(s, t) /\ Mapped(t, s.list[p])
  /\ \A y \in 1..s.nr : y # s.list[p] => t.bb[y] = s.bb[y]
  /\ LeftOver(s, t, s.list[p])
  /\ \/ t.list = s.list /\ t.bb[s.list[p]].bhs # << >>
     \/ Removed(s.list, t.list, p)

(* erofs_bflush maps a bb it reaches; it is mapped or the next to be. *)
LEMMA MapNextInv ==
  ASSUME NEW s, NEW start, NEW junk, MgrInv(s, start, junk), NEW k, PrefixAt(s, k),
         NEW p \in 1..Len(s.list), p <= k + 1, NEW t, t = MapOne(s, s.list[p])
  PROVE  /\ MgrInv(t, start, junk) /\ t.list = s.list
         /\ SameSizes(s, t) /\ Mapped(t, s.list[p])
         /\ t.bb[s.list[p]].bhs = s.bb[s.list[p]].bhs
         /\ \A y \in 1..s.nr : y # s.list[p] => t.bb[y] = s.bb[y]
<1> DEFINE i == s.list[p]
<1>1. TypeInv(s) /\ i \in 1..s.nr
  BY ListUse DEF MgrInv
<1>2. k \in Nat /\ Len(s.list) \in Nat /\ p \in Nat
  BY <1>1, ListUse DEF PrefixAt
<1>3. CASE p <= k
  <2>1. Mapped(s, i) /\ EndBlk(s, i) <= s.tail_blkaddr
    BY <1>3 DEF PrefixAt
  <2>2. t = s
    BY <1>1, <2>1, MapOneSame
  <2> QED
    BY <2>1, <2>2 DEF SameSizes
<1>4. CASE p = k + 1
  <2>1. k < Len(s.list) /\ s.list[k + 1] = i /\ t = MapOne(s, s.list[k + 1])
    BY <1>2, <1>4
  <2>2. MgrInv(t, start, junk) /\ MapDone(s, t, s.list[k + 1])
    BY <2>1, MapOneInv
  <2>3. /\ t.list = s.list /\ t.nr = s.nr
        /\ \A y \in 1..s.nr : y # i => t.bb[y] = s.bb[y]
        /\ t.bb[i].type = s.bb[i].type /\ t.bb[i].off = s.bb[i].off /\ t.bb[i].bhs = s.bb[i].bhs
        /\ t.bb[i].blkaddr = s.tail_blkaddr
    BY <2>1, <2>2 DEF MapDone
  <2>4. ~Mapped(s, i)
    <3>1. ~(p <= k)
      BY <1>2, <1>4
    <3> QED
      BY <3>1 DEF PrefixAt
  <2>5. Mapped(t, i)
    <3>1. s.tail_blkaddr \in Nat
      BY <1>1, TypeUse
    <3> QED
      BY <2>3, <3>1 DEF Mapped, NULL_ADDR
  <2>6. SameSizes(s, t)
    BY <2>3, <2>4 DEF SameSizes
  <2> QED
    BY <2>2, <2>3, <2>5, <2>6
<1> QED
  BY <1>2, <1>3, <1>4

(* One turn of erofs_bflush's loop preserves the invariant. *)
LEMMA FlushOneInv ==
  ASSUME NEW s, NEW start, NEW junk, MgrInv(s, start, junk), NEW k, PrefixAt(s, k),
         NEW p \in 1..Len(s.list), p <= k + 1, NEW t, t = FlushOne(s, s.list[p])
  PROVE  MgrInv(t, start, junk) /\ FlushOneDone(s, t, p)
<1> DEFINE i == s.list[p]
           u == MapOne(s, i)
           c == u.bb[i].bhs
           q == Skipped(c)
           w == WithBhs(u, i, q)
<1>1. TypeInv(s) /\ i \in 1..s.nr
  BY ListUse DEF MgrInv
<1>2. t = IF w.bb[i].bhs # << >> THEN w ELSE Bfree(CountMeta(w, i), i)
  BY DEF FlushOne, WithBhs
<1>3. /\ MgrInv(u, start, junk) /\ u.list = s.list
      /\ SameSizes(s, u) /\ Mapped(u, i)
      /\ c = s.bb[i].bhs
      /\ \A y \in 1..s.nr : y # i => u.bb[y] = s.bb[y]
  BY MapNextInv
<1> HIDE DEF u
<1>4. TypeInv(u) /\ i \in 1..u.nr
  BY <1>1, <1>3 DEF MgrInv, SameSizes
<1>5. c \in Seq(BhSet)
  BY <1>4, TypeUse, BlockUse
<1>6. q \in Seq(BhSet) /\ \E e : SkipsBy(q, c, e)
  BY <1>5, SkippedIs
<1>7. PICK e : SkipsBy(q, c, e)
  BY <1>6
<1> HIDE DEF q
<1>8. Embeds(q, c, e)
  BY <1>7 DEF SkipsBy, Embeds
<1>9. MgrInv(w, start, junk) /\ BhsDone(u, w, i, q)
  <2>1. Embeds(q, u.bb[i].bhs, e) /\ q \in Seq(BhSet) /\ i \in 1..u.nr
    BY <1>4, <1>6, <1>8
  <2>2. w = WithBhs(u, i, q) /\ MgrInv(u, start, junk)
    BY <1>3
  <2> HIDE DEF i, w
  <2> QED
    BY <2>1, <2>2, EmbedInv
<1> HIDE DEF w
<1>10. /\ TypeInv(w) /\ w.list = s.list /\ w.nr = s.nr /\ w.bb[i].bhs = q
       /\ \A y \in 1..s.nr : /\ w.bb[y].off = u.bb[y].off
                             /\ w.bb[y].type = u.bb[y].type
                             /\ w.bb[y].blkaddr = u.bb[y].blkaddr
                             /\ y # i => w.bb[y] = u.bb[y]
  BY <1>3, <1>9 DEF BhsDone, SameBlocks, SameSizes
<1>11. SameSizes(s, w) /\ Mapped(w, i) /\ \A y \in 1..s.nr : y # i => w.bb[y] = s.bb[y]
  <2>1. u.nr = s.nr
    BY <1>3 DEF SameSizes
  <2>2. Mapped(w, i)
    BY <1>1, <1>3, <1>10 DEF Mapped
  <2>3. SameSizes(s, w)
    BY <1>3, <1>10 DEF SameSizes
  <2> QED
    BY <1>3, <1>10, <2>2, <2>3
<1>12. LeftOver(s, w, i)
  <2>1. w.bb[i].bhs = q /\ s.bb[i].bhs = c
    BY <1>3, <1>10
  <2> HIDE DEF i, c
  <2>2. ASSUME NEW n \in 1..Len(q)
        PROVE  q[n].op = "skip" /\ \E l \in 1..Len(c) : q[n] = c[l]
    BY <1>7 DEF SkipsBy
  <2> QED
    BY <2>1, <2>2 DEF LeftOver
<1>13. CASE w.bb[i].bhs # << >>
  BY <1>2, <1>9, <1>10, <1>11, <1>12, <1>13 DEF FlushOneDone
<1>14. CASE w.bb[i].bhs = << >>
  <2>1. p \in 1..Len(w.list) /\ w.list[p] = i
    BY <1>10
  <2>2. t = Bfree(CountMeta(w, w.list[p]), w.list[p])
    BY <1>2, <1>14, <2>1
  <2>3. /\ MgrInv(t, start, junk)
        /\ Removed(w.list, t.list, p)
        /\ t.bb = w.bb /\ t.nr = w.nr
    BY <1>9, <1>11, <1>14, <2>1, <2>2, GiveUpInv
  <2>4. SameSizes(s, t)
    BY <1>10, <1>11, <2>3 DEF SameSizes
  <2>5. Mapped(t, i) /\ LeftOver(s, t, i) /\ \A y \in 1..s.nr : y # i => t.bb[y] = s.bb[y]
    BY <1>11, <1>12, <2>3 DEF Mapped, LeftOver
  <2> QED
    BY <1>10, <2>3, <2>4, <2>5 DEF FlushOneDone
<1> QED
  BY <1>13, <1>14

IsFlushRun(f, s, z) ==
  f = [p \in 0..z |-> IF p = 0 THEN s ELSE FlushOne(f[p - 1], s.list[p])]

(* The recursion of erofs_bflush's loop defines a function. *)
LEMMA FlushRunExists ==
  ASSUME NEW s, NEW z \in Nat
  PROVE  \E f : IsFlushRun(f, s, z)
<1> DEFINE T == {n \in Nat : ~\E f : IsFlushRun(f, s, n)}
<1>1. CASE T = {}
  BY <1>1
<1>2. CASE T # {}
  <2>1. T \subseteq Nat
    OBVIOUS
  <2>2. PICK n \in T : \A y \in T : n <= y
    <3> HIDE DEF T
    <3> QED
      BY <1>2, <2>1, NatMin
  <2>3. n \in Nat /\ ~\E f : IsFlushRun(f, s, n)
    BY <2>2
  <2>4. CASE n = 0
    <3> DEFINE f == [p \in 0..n |-> s]
    <3>1. f = [p \in 0..n |-> IF p = 0 THEN s ELSE FlushOne(f[p - 1], s.list[p])]
      <4>1. \A p \in 0..n : p = 0
        BY <2>4
      <4> QED
        BY <4>1
    <3> QED
      BY <2>3, <3>1 DEF IsFlushRun
  <2>5. CASE n # 0
    <3>1. n - 1 \in Nat /\ ~(n <= n - 1)
      BY <2>3, <2>5
    <3>2. n - 1 \notin T
      BY <2>2, <3>1
    <3>3. PICK g : IsFlushRun(g, s, n - 1)
      BY <3>1, <3>2
    <3> DEFINE f == [p \in 0..n |-> IF p = n THEN FlushOne(g[n - 1], s.list[n]) ELSE g[p]]
    <3>4. ASSUME NEW p \in 0..n
          PROVE  f[p] = IF p = 0 THEN s ELSE FlushOne(f[p - 1], s.list[p])
      <4>1. \A r \in 0..(n - 1) : g[r] = IF r = 0 THEN s ELSE FlushOne(g[r - 1], s.list[r])
        BY <3>3 DEF IsFlushRun
      <4>2. CASE p = n
        <5>1. n - 1 \in 0..n /\ n - 1 # n
          BY <2>3, <3>1
        <5>2. f[n - 1] = g[n - 1]
          BY <5>1
        <5>3. f[n] = FlushOne(g[n - 1], s.list[n])
          BY <4>2
        <5> QED
          BY <2>5, <4>2, <5>2, <5>3
      <4>3. CASE p # n
        <5>1. p \in 0..(n - 1)
          BY <2>3, <4>3
        <5>2. f[p] = g[p]
          BY <4>3
        <5>3. CASE p = 0
          BY <4>1, <5>1, <5>2, <5>3
        <5>4. CASE p # 0
          <6>1. p - 1 \in 0..n /\ p - 1 # n
            BY <2>3, <5>1, <5>4
          <6>2. f[p - 1] = g[p - 1]
            BY <6>1
          <6> QED
            BY <4>1, <5>1, <5>2, <5>4, <6>2
        <5> QED
          BY <5>3, <5>4
      <4> QED
        BY <4>2, <4>3
    <3>5. f = [p \in 0..n |-> IF p = 0 THEN s ELSE FlushOne(f[p - 1], s.list[p])]
      <4> DEFINE h == [p \in 0..n |-> IF p = 0 THEN s ELSE FlushOne(f[p - 1], s.list[p])]
      <4>1. \A p \in 0..n : f[p] = h[p]
        BY <3>4
      <4>3. f = [p \in 0..n |-> f[p]] /\ h = [p \in 0..n |-> h[p]]
        OBVIOUS
      <4> HIDE DEF f, h
      <4> QED
        BY <4>1, <4>3 DEF h
    <3> QED
      BY <2>3, <3>5 DEF IsFlushRun
  <2> QED
    BY <2>4, <2>5
<1> QED
  BY <1>1, <1>2

FlushesBy(s, z, f) ==
  /\ Bflush(s) = f[z]
  /\ f[0] = s
  /\ \A p \in 1..z : f[p] = FlushOne(f[p - 1], s.list[p])

(* The managers the loop of erofs_bflush goes through. *)
LEMMA FlushRunIs ==
  ASSUME NEW s, NEW z \in Nat, z = Len(s.list)
  PROVE  \E f : FlushesBy(s, z, f)
<1> DEFINE f == CHOOSE g : g = [p \in 0..Len(s.list) |->
                                  IF p = 0 THEN s ELSE FlushOne(g[p - 1], s.list[p])]
<1>1. Bflush(s) = f[z]
  BY DEF Bflush
<1>2. \E g : IsFlushRun(g, s, z)
  BY FlushRunExists
<1>3. f = [p \in 0..z |-> IF p = 0 THEN s ELSE FlushOne(f[p - 1], s.list[p])]
  BY <1>2 DEF IsFlushRun
<1> HIDE DEF f
<1>4. \A p \in 0..z : f[p] = IF p = 0 THEN s ELSE FlushOne(f[p - 1], s.list[p])
  BY <1>3
<1>5. f[0] = s
  BY <1>4
<1>6. \A p \in 1..z : f[p] = FlushOne(f[p - 1], s.list[p])
  BY <1>4
<1> QED
  BY <1>1, <1>5, <1>6 DEF FlushesBy

(* What bflush leaves: everything mapped, and the bbs with bhs that may    *)
(* not be written yet.                                                     *)
FlushDone(s, t) ==
  /\ SameSizes(s, t)
  /\ \A y : On(s, y) => Mapped(t, y)
  /\ \A y : On(t, y) => On(s, y) /\ t.bb[y].bhs # << >> /\ LeftOver(s, t, y)

(* After p bbs of the list of s: c of them are left. *)
FlushedUpTo(s, u, p, c) ==
  /\ Len(u.list) = c + (Len(s.list) - p)
  /\ \A q \in (p + 1)..Len(s.list) : /\ u.list[c + q - p] = s.list[q]
                                     /\ u.bb[s.list[q]].bhs = s.bb[s.list[q]].bhs
  /\ \A x \in 1..c : /\ Mapped(u, u.list[x]) /\ On(s, u.list[x])
                     /\ u.bb[u.list[x]].bhs # << >> /\ LeftOver(s, u, u.list[x])
  /\ \A q \in 1..p : Mapped(u, s.list[q])

(* Whether the bb is given up or kept, erofs_bflush's loop goes on at the  *)
(* next.                                                                   *)
LEMMA FlushStep ==
  ASSUME NEW s, NEW start, NEW junk, TypeInv(s), NEW u, MgrInv(u, start, junk), SameSizes(s, u),
         NEW p \in Nat, p < Len(s.list), NEW c \in Nat, FlushedUpTo(s, u, p, c),
         NEW v, v = FlushOne(u, s.list[p + 1])
  PROVE  /\ MgrInv(v, start, junk) /\ SameSizes(s, v)
         /\ FlushedUpTo(s, v, p + 1, c + 1) \/ FlushedUpTo(s, v, p + 1, c)
<1> DEFINE i == s.list[p + 1]
           z == Len(s.list)
           l == u.list
<1>1. /\ Len(l) = c + (z - p)
      /\ \A q \in (p + 1)..z : l[c + q - p] = s.list[q] /\ u.bb[s.list[q]].bhs = s.bb[s.list[q]].bhs
      /\ \A x \in 1..c : /\ Mapped(u, l[x]) /\ On(s, l[x])
                         /\ u.bb[l[x]].bhs # << >> /\ LeftOver(s, u, l[x])
      /\ \A q \in 1..p : Mapped(u, s.list[q])
  BY DEF FlushedUpTo
<1>2. z \in Nat /\ TypeInv(u) /\ PrefixInv(u)
  BY ListUse DEF MgrInv
<1>3. c + 1 \in 1..Len(l) /\ l[c + 1] = i
  <2>1. p + 1 \in (p + 1)..z /\ c + (p + 1) - p = c + 1
    BY <1>2
  <2> QED
    BY <1>1, <1>2, <2>1
<1>4. PICK k \in Nat : PrefixAt(u, k)
  BY <1>2 DEF PrefixInv
<1>5. c + 1 <= k + 1
  <2>1. CASE c = 0
    BY <1>4, <2>1
  <2>2. CASE c # 0
    <3>1. c \in 1..c /\ c \in 1..Len(l)
      BY <1>3, <2>2
    <3>2. c <= k
      BY <1>1, <1>4, <3>1 DEF PrefixAt
    <3> QED
      BY <1>4, <3>2
  <2> QED
    BY <2>1, <2>2
<1>6. MgrInv(v, start, junk) /\ FlushOneDone(u, v, c + 1)
  <2> DEFINE n == c + 1
  <2>1. n \in 1..Len(u.list) /\ n <= k + 1 /\ v = FlushOne(u, u.list[n])
    BY <1>3, <1>5
  <2> HIDE DEF n
  <2>2. MgrInv(v, start, junk) /\ FlushOneDone(u, v, n)
    BY <1>4, <2>1, FlushOneInv
  <2> QED
    BY <2>2 DEF n
<1>7. /\ SameSizes(u, v) /\ Mapped(v, i)
      /\ \A y \in 1..u.nr : y # i => v.bb[y] = u.bb[y]
      /\ LeftOver(u, v, i)
      /\ \/ v.list = l /\ v.bb[i].bhs # << >>
         \/ Removed(l, v.list, c + 1)
  BY <1>3, <1>6 DEF FlushOneDone
<1>8. /\ u.nr = s.nr
      /\ \A q \in 1..z : s.list[q] \in 1..s.nr /\ On(s, s.list[q])
      /\ \A q, r \in 1..z : s.list[q] = s.list[r] => q = r
      /\ \A q, r \in 1..Len(l) : l[q] = l[r] => q = r
      /\ \A q \in 1..Len(l) : l[q] \in 1..s.nr
  <2>1. u.nr = s.nr
    BY DEF SameSizes
  <2> QED
    BY <1>2, <2>1, ListUse
<1>9. SameSizes(s, v)
  <2> SUFFICES ASSUME NEW y \in 1..s.nr
               PROVE  /\ v.bb[y].off = s.bb[y].off /\ v.bb[y].type = s.bb[y].type
                      /\ Mapped(s, y) => v.bb[y].blkaddr = s.bb[y].blkaddr
    BY <1>7, <1>8 DEF SameSizes
  <2>1. /\ u.bb[y].off = s.bb[y].off /\ u.bb[y].type = s.bb[y].type
        /\ Mapped(s, y) => u.bb[y].blkaddr = s.bb[y].blkaddr
    BY DEF SameSizes
  <2>2. /\ v.bb[y].off = u.bb[y].off /\ v.bb[y].type = u.bb[y].type
        /\ Mapped(u, y) => v.bb[y].blkaddr = u.bb[y].blkaddr
    BY <1>7, <1>8 DEF SameSizes
  <2> QED
    BY <2>1, <2>2 DEF Mapped
<1>10. \A y \in 1..s.nr : Mapped(u, y) => Mapped(v, y)
  BY <1>7, <1>8 DEF SameSizes, Mapped
<1>11. \A q \in 1..(p + 1) : Mapped(v, s.list[q])
  <2> SUFFICES ASSUME NEW q \in 1..(p + 1) PROVE Mapped(v, s.list[q])
    OBVIOUS
  <2>1. CASE q = p + 1
    BY <1>7, <2>1
  <2>2. CASE q # p + 1
    <3>1. q \in 1..p /\ q \in 1..z
      BY <1>2, <2>2
    <3> QED
      BY <1>1, <1>8, <1>10, <3>1
  <2> QED
    BY <2>1, <2>2
<1>12. LeftOver(s, v, i)
  <2>1. u.bb[i].bhs = s.bb[i].bhs
    <3>1. p + 1 \in (p + 1)..z
      BY <1>2
    <3> QED
      BY <1>1, <3>1
  <2> HIDE DEF i
  <2> QED
    BY <1>7, <2>1 DEF LeftOver
<1>13. ASSUME NEW x \in 1..c
       PROVE  /\ Mapped(v, l[x]) /\ On(s, l[x])
              /\ v.bb[l[x]].bhs # << >> /\ LeftOver(s, v, l[x])
  <2>1. x \in 1..Len(l) /\ x # c + 1
    BY <1>3
  <2>2. l[x] # i /\ l[x] \in 1..s.nr
    BY <1>3, <1>8, <2>1
  <2>3. v.bb[l[x]] = u.bb[l[x]]
    BY <1>7, <1>8, <2>2
  <2> QED
    BY <1>1, <1>10, <2>2, <2>3 DEF LeftOver
<1>14. ASSUME NEW q \in (p + 2)..z
       PROVE  v.bb[s.list[q]].bhs = s.bb[s.list[q]].bhs /\ l[c + q - p] = s.list[q]
  <2>1. q \in (p + 1)..z /\ q \in 1..z /\ q # p + 1 /\ p + 1 \in 1..z
    BY <1>2
  <2>2. s.list[q] # i /\ s.list[q] \in 1..u.nr
    BY <1>8, <2>1
  <2>3. v.bb[s.list[q]] = u.bb[s.list[q]]
    BY <1>7, <2>2
  <2> QED
    BY <1>1, <2>1, <2>3
<1> HIDE DEF i, z, l
<1>15. CASE v.list = l /\ v.bb[i].bhs # << >>
  <2> DEFINE p1 == p + 1
             c1 == c + 1
  <2>1. Len(v.list) = c1 + (z - p1)
    <3>1. Len(v.list) = c + (z - p)
      BY <1>1, <1>15
    <3> QED
      BY <1>2, <3>1
  <2>2. ASSUME NEW q \in (p1 + 1)..z
        PROVE  v.list[c1 + q - p1] = s.list[q] /\ v.bb[s.list[q]].bhs = s.bb[s.list[q]].bhs
    <3>1. q \in (p + 2)..z /\ c1 + q - p1 = c + q - p
      BY <1>2
    <3> QED
      BY <1>14, <1>15, <3>1
  <2>3. ASSUME NEW x \in 1..c1
        PROVE  /\ Mapped(v, v.list[x]) /\ On(s, v.list[x])
               /\ v.bb[v.list[x]].bhs # << >> /\ LeftOver(s, v, v.list[x])
    <3>1. CASE x = c + 1
      <4>1. v.list[x] = i
        BY <1>3, <1>15, <3>1
      <4>2. On(s, i)
        <5>1. p + 1 \in 1..z
          BY <1>2 DEF z
        <5> QED
          BY <1>8, <5>1 DEF i
      <4> QED
        BY <1>7, <1>12, <1>15, <4>1, <4>2
    <3>2. CASE x # c + 1
      <4>1. x \in 1..c
        BY <3>2
      <4> QED
        BY <1>13, <1>15, <4>1
    <3> QED
      BY <3>1, <3>2
  <2>4. \A q \in 1..p1 : Mapped(v, s.list[q])
    BY <1>11
  <2> HIDE DEF p1, c1
  <2>5. FlushedUpTo(s, v, p1, c1)
    BY <2>1, <2>2, <2>3, <2>4 DEF FlushedUpTo, z
  <2> QED
    BY <1>6, <1>9, <2>5 DEF p1, c1
<1>16. CASE Removed(l, v.list, c + 1)
  <2> DEFINE p1 == p + 1
  <2>0. /\ Len(v.list) = Len(l) - 1
        /\ \A n \in 1..(c + 1 - 1) : v.list[n] = l[n]
        /\ \A n \in (c + 1)..(Len(l) - 1) : v.list[n] = l[n + 1]
    BY <1>16 DEF Removed
  <2>1. Len(v.list) = c + (z - p1)
    BY <1>1, <1>2, <2>0
  <2>2. ASSUME NEW q \in (p1 + 1)..z
        PROVE  v.list[c + q - p1] = s.list[q] /\ v.bb[s.list[q]].bhs = s.bb[s.list[q]].bhs
    <3>1. /\ q \in (p + 2)..z /\ c + q - p1 + 1 = c + q - p
          /\ c + q - p1 \in (c + 1)..(Len(l) - 1)
      BY <1>1, <1>2
    <3>2. v.list[c + q - p1] = l[c + q - p1 + 1]
      BY <2>0, <3>1
    <3> QED
      BY <1>14, <3>1, <3>2
  <2>3. ASSUME NEW x \in 1..c
        PROVE  /\ Mapped(v, v.list[x]) /\ On(s, v.list[x])
               /\ v.bb[v.list[x]].bhs # << >> /\ LeftOver(s, v, v.list[x])
    <3>1. v.list[x] = l[x]
      BY <2>0
    <3> QED
      BY <1>13, <3>1
  <2>4. \A q \in 1..p1 : Mapped(v, s.list[q])
    BY <1>11
  <2> HIDE DEF p1
  <2>5. FlushedUpTo(s, v, p1, c)
    BY <2>1, <2>2, <2>3, <2>4 DEF FlushedUpTo, z
  <2> QED
    BY <1>6, <1>9, <2>5 DEF p1
<1> QED
  BY <1>7, <1>15, <1>16

(* erofs_bflush preserves the invariant, and what is left on the list are  *)
(* exactly the bbs with a bh that may not be written yet, with those bhs.  *)
THEOREM BflushInv ==
  ASSUME NEW s, NEW start, NEW junk, MgrInv(s, start, junk), NEW t, t = Bflush(s)
  PROVE  MgrInv(t, start, junk) /\ FlushDone(s, t)
<1> DEFINE z == Len(s.list)
<1>1. TypeInv(s) /\ z \in Nat
  BY ListUse DEF MgrInv
<1>2. PICK f : FlushesBy(s, z, f)
  <2>1. z = Len(s.list)
    OBVIOUS
  <2> HIDE DEF z
  <2> QED
    BY <1>1, <2>1, FlushRunIs
<1>3. /\ t = f[z] /\ f[0] = s
      /\ \A p \in 1..z : f[p] = FlushOne(f[p - 1], s.list[p])
  BY <1>2 DEF FlushesBy
<1> DEFINE Q(u, p) == /\ MgrInv(u, start, junk) /\ SameSizes(s, u)
                      /\ \E c \in Nat : FlushedUpTo(s, u, p, c)
<1>4. Q(s, 0)
  <2>1. FlushedUpTo(s, s, 0, 0)
    <3>1. \A q \in 1..z : 0 + q - 0 = q
      OBVIOUS
    <3> QED
      BY <1>1, <3>1 DEF FlushedUpTo
  <2>2. SameSizes(s, s)
    BY DEF SameSizes
  <2> QED
    BY <2>1, <2>2
<1>5. ASSUME NEW p \in 1..z, Q(f[p - 1], p - 1)
      PROVE  Q(f[p], p)
  <2> DEFINE r == p - 1
             u == f[r]
             v == f[p]
  <2>1. r \in Nat /\ r < Len(s.list) /\ r + 1 = p
    BY <1>1
  <2>2. v = FlushOne(u, s.list[r + 1])
    BY <1>3, <2>1
  <2>3. PICK c \in Nat : FlushedUpTo(s, u, r, c)
    BY <1>5
  <2>4. MgrInv(u, start, junk) /\ SameSizes(s, u)
    BY <1>5
  <2> HIDE DEF u, v, r
  <2>5. /\ MgrInv(v, start, junk) /\ SameSizes(s, v)
        /\ FlushedUpTo(s, v, r + 1, c + 1) \/ FlushedUpTo(s, v, r + 1, c)
    BY <1>1, <2>1, <2>2, <2>3, <2>4, FlushStep
  <2>6. c + 1 \in Nat
    BY <2>3
  <2>7. \E d \in Nat : FlushedUpTo(s, v, p, d)
    BY <2>1, <2>3, <2>5, <2>6
  <2> QED
    BY <2>5, <2>7 DEF v
<1> HIDE DEF Q, z
<1>6. ASSUME NEW n \in 0..z, ~Q(f[n], n)
      PROVE  FALSE
  <2> DEFINE T == {p \in 0..z : ~Q(f[p], p)}
  <2>1. T \subseteq Nat /\ T # {}
    BY <1>1, <1>6
  <2>2. PICK p \in T : \A y \in T : p <= y
    <3> HIDE DEF T
    <3> QED
      BY <2>1, NatMin
  <2>3. p \in 0..z /\ ~Q(f[p], p)
    BY <2>2
  <2>4. p # 0
    BY <1>3, <1>4, <2>3
  <2>5. p - 1 \in 0..z /\ ~(p <= p - 1) /\ p \in 1..z
    BY <1>1, <2>3, <2>4
  <2>6. Q(f[p - 1], p - 1)
    BY <2>2, <2>5
  <2> QED
    BY <1>5, <2>3, <2>5, <2>6
<1>7. Q(t, z)
  <2>1. z \in 0..z
    BY <1>1
  <2> QED
    BY <1>3, <1>6, <2>1
<1>8. MgrInv(t, start, junk) /\ SameSizes(s, t)
  BY <1>7 DEF Q
<1>9. PICK c \in Nat : FlushedUpTo(s, t, z, c)
  BY <1>7 DEF Q
<1>10. TypeInv(t)
  BY <1>8 DEF MgrInv
<1>11. Len(t.list) = c
  BY <1>1, <1>9 DEF FlushedUpTo, z
<1>12. ASSUME NEW y, On(t, y) PROVE On(s, y) /\ t.bb[y].bhs # << >> /\ LeftOver(s, t, y)
  <2>1. PICK x \in 1..c : t.list[x] = y
    BY <1>10, <1>11, <1>12, ListUse
  <2> QED
    BY <1>9, <2>1 DEF FlushedUpTo
<1>13. ASSUME NEW y, On(s, y) PROVE Mapped(t, y)
  <2>1. PICK x \in 1..z : s.list[x] = y
    BY <1>1, <1>13, ListUse DEF z
  <2> QED
    BY <1>9, <2>1 DEF FlushedUpTo
<1> QED
  BY <1>8, <1>12, <1>13 DEF FlushDone
-----------------------------------------------------------------------------
(* erofs_bfind_for_attach *)

(* A bounded set of numbers has a largest one. *)
LEMMA NatMax ==
  ASSUME NEW z \in Nat, NEW T, T \subseteq 0..z, T # {}
  PROVE  \E x \in T : \A y \in T : y <= x
<1> DEFINE U == {z - x : x \in T}
<1>1. U \subseteq Nat /\ U # {}
  <2>1. \A x \in T : z - x \in Nat
    OBVIOUS
  <2>2. U # {}
    OBVIOUS
  <2> QED
    BY <2>1, <2>2
<1>2. PICK u \in U : \A y \in U : u <= y
  <2> HIDE DEF U
  <2> QED
    BY <1>1, NatMin
<1>3. PICK x \in T : u = z - x
  BY <1>2
<1>4. \A y \in T : z - y \in U /\ y \in Int
  OBVIOUS
<1>5. \A y \in T : u <= z - y
  BY <1>2, <1>4
<1>6. \A y \in T : y <= x
  BY <1>3, <1>4, <1>5
<1> QED
  BY <1>6

(* The maximum of a bounded set. *)
LEMMA MaxIs ==
  ASSUME NEW z \in Nat, NEW T, T \subseteq 0..z, T # {}
  PROVE  Max(T) \in T /\ \A y \in T : y <= Max(T)
<1>1. PICK x \in T : \A y \in T : y <= x
  BY NatMax
<1>2. \A y \in T : x >= y
  BY <1>1
<1>3. Max(T) \in T /\ \A y \in T : Max(T) >= y
  BY <1>2 DEF Max
<1>4. \A y \in T : y \in Int
  OBVIOUS
<1> QED
  BY <1>3, <1>4

(* The minimum of a set of numbers. *)
LEMMA MinIs ==
  ASSUME NEW T, T \subseteq Nat, T # {}
  PROVE  Min(T) \in T
<1>1. \E x \in T : \A y \in T : x <= y
  BY NatMin
<1> QED
  BY <1>1 DEF Min

(* What the fullest bucket searched leaves room for. *)
LEMMA FitRoom ==
  ASSUME NEW a, Divisor(a), NEW size \in Nat, NEW inl \in Nat, size + inl # 0,
         NEW o \in 1..FullestFit(size, inl, a)
  PROVE  /\ FullestFit(size, inl, a) \in Nat
         /\ o \in Levels /\ o # 0
         /\ RoundUp(o, a) + size + inl <= BlkSize
<1>1. BlkSize \in Nat /\ BlkSize # 0 /\ a \in Nat \ {0}
  BY BlkPos DEF Divisor
<1>2. CASE size + inl >= BlkSize
  <2>1. FullestFit(size, inl, a) = 0
    BY <1>2 DEF FullestFit
  <2> QED
    BY <2>1
<1>3. CASE ~(size + inl >= BlkSize)
  <2> DEFINE x == BlkSize - (size + inl)
             q == x \div a
  <2>1. x \in Nat /\ x < BlkSize
    BY <1>1, <1>3
  <2>2. FullestFit(size, inl, a) = q * a
    BY <1>3 DEF FullestFit
  <2> HIDE DEF x
  <2>3. q \in Int /\ q * a <= x /\ q * a \in Int
    BY <1>1, <2>1, DivBounds
  <2> HIDE DEF q
  <2>4. o \in Nat /\ o <= q * a
    BY <2>2, <2>3
  <2>5. RoundUp(o, a) <= q * a /\ RoundUp(o, a) \in Nat
    BY <1>1, <2>3, <2>4, RoundUpLeast, RoundUpBounds
  <2>6. o < BlkSize /\ o # 0 /\ q * a \in Nat
    BY <1>1, <2>1, <2>3, <2>4
  <2> QED
    BY <1>1, <2>1, <2>2, <2>3, <2>4, <2>5, <2>6 DEF x, Levels
<1> QED
  BY <1>2, <1>3

(* The level of a bb is how much of its last block it occupies. *)
LEMMA LevelIs ==
  ASSUME NEW off \in Nat, off % BlkSize # 0
  PROVE  InBlock(off) = off % BlkSize
<1> DEFINE q == off \div BlkSize
           o == off % BlkSize
<1>1. q \in Int /\ q * BlkSize <= off /\ off < q * BlkSize + BlkSize /\ o = off - q * BlkSize
      /\ q * BlkSize \in Int /\ BlkSize \in Nat /\ o \in 0..(BlkSize - 1)
  BY BlkPos, DivBounds
<1> HIDE DEF q, o
<1>2. (q + 1) * BlkSize = q * BlkSize + BlkSize /\ q + 1 \in Int
  BY <1>1
<1>3. o # 0
  BY DEF o
<1>4. BlkRoundUp(off) = q + 1
  <2>1. off <= (q + 1) * BlkSize /\ (q + 1) * BlkSize < off + BlkSize
    BY <1>1, <1>2, <1>3
  <2> QED
    BY <1>2, <2>1, BlkRoundUpUnique
<1>5. InBlock(off) = off - q * BlkSize
  <2>1. InBlock(off) = off - (BlkRoundUp(off) - 1) * BlkSize
    BY InBlockIs
  <2>2. BlkRoundUp(off) - 1 = q
    BY <1>1, <1>4
  <2> QED
    BY <2>1, <2>2
<1> QED
  BY <1>1, <1>5 DEF o

(* A bb found in a bucket. *)
LEMMA HeadIs ==
  ASSUME NEW s, NEW start, NEW junk, MgrInv(s, start, junk), NEW ty \in Types,
         NEW o \in Levels, s.buckets[ty][o] # << >>,
         NEW h, h = Head(s.buckets[ty][o])
  PROVE  /\ On(s, h) /\ h \in 1..s.nr /\ h # HEAD /\ Mapped(s, h)
         /\ s.bb[h].type = ty /\ s.bb[h].off % BlkSize = o
         /\ NextAddr(s, h) = NULL_ADDR => h = s.last_mapped
<1>1. TypeInv(s) /\ BucketInv(s) /\ PrefixInv(s)
  BY DEF MgrInv
<1>2. s.buckets[ty][o] \in Seq(Nat)
  BY <1>1, TypeUse
<1>3. Has(s.buckets[ty][o], h)
  <2> DEFINE q == s.buckets[ty][o]
  <2>1. 1 \in 1..Len(q) /\ q[1] = h
    <3>1. q \in Seq(Nat) /\ q # << >> /\ h = Head(q)
      BY <1>2
    <3> HIDE DEF q
    <3> QED
      BY <3>1
  <2> QED
    BY <2>1 DEF Has
<1>4. On(s, h) /\ Mapped(s, h) /\ s.bb[h].type = ty /\ s.bb[h].off % BlkSize = o
  BY <1>1, <1>3 DEF BucketInv
<1>5. h \in 1..s.nr /\ h # HEAD
  BY <1>1, <1>4, TypeUse DEF HEAD
<1>6. NextAddr(s, h) = NULL_ADDR => h = s.last_mapped
  <2> HAVE NextAddr(s, h) = NULL_ADDR
  <2>1. PICK k \in Nat : PrefixAt(s, k)
    BY <1>1 DEF PrefixInv
  <2>2. PICK p \in 1..Len(s.list) : s.list[p] = h
    BY <1>1, <1>4, ListUse
  <2>3. p >= k /\ p <= k
    BY <1>1, <1>4, <2>1, <2>2, NextIs DEF PrefixAt
  <2>4. p = k /\ k # 0
    BY <2>1, <2>2, <2>3
  <2> QED
    BY <2>1, <2>2, <2>4 DEF PrefixAt
<1> QED
  BY <1>4, <1>5, <1>6

(* What a successful attach returns is a part of a block. *)
LEMMA OccupiedIs ==
  ASSUME NEW s, TypeInv(s), NEW i \in 1..s.nr, NEW size \in Nat, NEW a, Divisor(a)
  PROVE  Occupied(s, i, size, a) \in 1..BlkSize
<1>1. AttachedOff(s, i, size, a) \in Nat
  BY OobUse
<1> QED
  BY <1>1, InBlockIs DEF Occupied

(* A bb to attach to, whose last block holds inl more then. *)
Usable(s, i, size, align, inl) ==
  /\ On(s, i) /\ Attachable(s, i, size, align, inl)
  /\ (AttachedOff(s, i, size, align) % BlkSize) + inl <= BlkSize

(* The used part of the last block, modulo the block. *)
LEMMA InBlockMod ==
  ASSUME NEW x \in Nat
  PROVE  /\ x % BlkSize = InBlock(x) % BlkSize
         /\ x % BlkSize <= InBlock(x) /\ x % BlkSize \in Nat
<1> DEFINE R == BlkRoundUp(x) - 1
           y == InBlock(x)
           q == y \div BlkSize
<1>1. R \in Int /\ y = x - R * BlkSize /\ y \in 1..BlkSize /\ BlkSize \in Nat \ {0}
  BY BlkRoundUpIs, InBlockIs, BlkPos
<1>2. y \in Int
  BY <1>1
<1> HIDE DEF R, y
<1>3. /\ q \in Int /\ q * BlkSize <= y /\ y < q * BlkSize + BlkSize
      /\ y % BlkSize = y - q * BlkSize /\ y % BlkSize \in 0..(BlkSize - 1)
  BY <1>1, <1>2, DivBounds
<1> HIDE DEF q
<1>4. (q + R) * BlkSize = q * BlkSize + R * BlkSize /\ q + R \in Int
      /\ q * BlkSize \in Int /\ R * BlkSize \in Int
  BY <1>1, <1>3
<1>5. (q + R) * BlkSize <= x /\ x < (q + R) * BlkSize + BlkSize
  BY <1>1, <1>2, <1>3, <1>4
<1>6. x % BlkSize = x - (q + R) * BlkSize
  BY <1>1, <1>4, <1>5, DivUnique
<1>7. x % BlkSize = y % BlkSize
  BY <1>1, <1>2, <1>3, <1>4, <1>6
<1>8. y % BlkSize <= y
  <2>1. y < BlkSize => y % BlkSize = y
    BY <1>1
  <2>2. y = BlkSize => y % BlkSize = 0
    BY <1>1
  <2> QED
    BY <1>1, <1>2, <2>1, <2>2
<1> QED
  BY <1>1, <1>3, <1>7, <1>8 DEF y

(* What is used of a block decides on the room left in it. *)
LEMMA RoomIs ==
  ASSUME NEW s, TypeInv(s), NEW i \in 1..s.nr, NEW size \in Nat, NEW a, Divisor(a),
         NEW inl \in Nat,
         \/ Occupied(s, i, size, a) + inl <= BlkSize
         \/ (Occupied(s, i, size, a) % BlkSize) + inl <= BlkSize
  PROVE  (AttachedOff(s, i, size, a) % BlkSize) + inl <= BlkSize
<1> DEFINE x == AttachedOff(s, i, size, a)
           y == InBlock(x)
           z == x % BlkSize
<1>1. x \in Nat
  <2>1. 0 \in Nat
    OBVIOUS
  <2> QED
    BY <2>1, OobFits
<1>2. z = y % BlkSize /\ z <= y /\ z \in Nat /\ y \in Nat /\ BlkSize \in Nat
  <2> HIDE DEF x
  <2> QED
    BY <1>1, InBlockMod, InBlockIs, BlkPos
<1>3. y + inl <= BlkSize \/ z + inl <= BlkSize
  BY <1>2 DEF Occupied
<1> HIDE DEF x, y, z
<1>4. z + inl <= BlkSize
  BY <1>2, <1>3
<1> QED
  BY <1>4 DEF x, z

(* A bb of a bucket that fits has room for what is attached in its last    *)
(* block.                                                                  *)
LEMMA BucketUsable ==
  ASSUME NEW s, TypeInv(s), NEW i \in 1..s.nr, NEW a, Divisor(a),
         NEW size \in Nat, NEW inl \in Nat, size + inl # 0,
         NEW o \in 1..FullestFit(size, inl, a), s.bb[i].off % BlkSize = o
  PROVE  /\ Attachable(s, i, size, a, inl)
         /\ Occupied(s, i, size, a) + inl <= BlkSize
<1> DEFINE off == s.bb[i].off
           new == AttachedOff(s, i, size, a)
           R == BlkRoundUp(off)
<1>1. /\ off \in Nat /\ new \in Nat
      /\ Oob(s, i, size, a, inl) = new + inl - R * BlkSize
      /\ Oob(s, i, size, a, inl) <= 0 => BlkRoundUp(new) = R
  BY OobUse
<1>2. o # 0 /\ RoundUp(o, a) + size + inl <= BlkSize /\ o \in Nat
  BY FitRoom DEF Levels
<1>3. InBlock(off) = o
  BY <1>1, <1>2, LevelIs
<1>4. RoundUp(o, a) \in Nat
  BY <1>2, RoundUpBounds DEF Divisor
<1>5. Oob(s, i, size, a, inl) <= 0
  BY <1>2, <1>3, <1>4, BlkPos DEF Oob
<1>6. Attachable(s, i, size, a, inl)
  <2>1. ~(Oob(s, i, size, a, inl) > 0)
    <3>1. Oob(s, i, size, a, inl) \in Int
      BY OobUse
    <3> QED
      BY <1>5, <3>1
  <2> QED
    BY <2>1 DEF Attachable
<1> HIDE DEF off, new
<1>7. InBlock(new) = new - (R - 1) * BlkSize
  BY <1>1, <1>5, InBlockIs
<1>8. R \in Nat /\ R * BlkSize \in Int /\ (R - 1) * BlkSize = R * BlkSize - BlkSize
  BY <1>1, BlkRoundUpIs, BlkPos
<1> HIDE DEF R
<1>9. InBlock(new) + inl <= BlkSize
  BY <1>1, <1>5, <1>7, <1>8, BlkPos
<1> QED
  BY <1>6, <1>9 DEF Occupied, new

(* The bucket search of erofs_bfind_for_attach finds nothing or a bb that  *)
(* can be attached to, and none of its DBG_BUGONs fires.                   *)
LEMMA FindMappedIs ==
  ASSUME NEW s, NEW start, NEW junk, MgrInv(s, start, junk), NEW ty \in Types,
         NEW a, Divisor(a), NEW size \in Nat, NEW inl \in Nat, size + inl # 0,
         NEW i, i = FindMapped(s, ty, size, inl, a)
  PROVE  /\ i = HEAD \/ Usable(s, i, size, a, inl)
         /\ ~FindMappedBug(s, ty, size, inl, a, i)
<1> DEFINE F == FullestFit(size, inl, a)
           first(o) == Head(s.buckets[ty][o])
           fit == {o \in 1..F : /\ s.buckets[ty][o] # << >>
                                /\ NextAddr(s, first(o)) # NULL_ADDR}
<1>1. i = IF fit = {} THEN HEAD ELSE first(Max(fit))
  BY DEF FindMapped
<1>2. TypeInv(s) /\ BlkSize \in Nat
  BY BlkPos DEF MgrInv
<1>3. ASSUME NEW o \in 1..F, s.buckets[ty][o] # << >>
      PROVE  /\ On(s, first(o)) /\ first(o) \in 1..s.nr /\ first(o) # HEAD /\ Mapped(s, first(o))
             /\ s.bb[first(o)].type = ty /\ s.bb[first(o)].off % BlkSize = o
             /\ NextAddr(s, first(o)) = NULL_ADDR => first(o) = s.last_mapped
  <2>1. o \in Levels
    BY FitRoom
  <2> QED
    BY <1>3, <2>1, HeadIs
<1> HIDE DEF fit
<1>4. CASE fit = {}
  <2>1. i = HEAD
    BY <1>1, <1>4
  <2>2. \A o \in 1..F : s.buckets[ty][o] = << >> \/ first(o) = s.last_mapped
    BY <1>3, <1>4 DEF fit
  <2>3. ~FindMappedBug(s, ty, size, inl, a, i)
    BY <2>1, <2>2 DEF FindMappedBug
  <2> QED
    BY <2>1, <2>3
<1>5. CASE fit # {}
  <2> DEFINE x == Max(fit)
  <2>1. F \in Nat
    <3>1. PICK o \in 1..F : TRUE
      BY <1>5 DEF fit
    <3> QED
      BY <3>1, FitRoom
  <2>2. x \in fit /\ \A y \in fit : y <= x
    <3>1. fit \subseteq 0..F
      BY <2>1 DEF fit
    <3> HIDE DEF F
    <3> QED
      BY <1>5, <2>1, <3>1, MaxIs
  <2>3. x \in 1..F /\ s.buckets[ty][x] # << >>
    BY <2>2 DEF fit
  <2> HIDE DEF x
  <2>4. i = first(x)
    BY <1>1, <1>5 DEF x
  <2>5. /\ On(s, i) /\ i \in 1..s.nr /\ i # HEAD /\ Mapped(s, i)
        /\ s.bb[i].type = ty /\ s.bb[i].off % BlkSize = x
    BY <1>3, <2>3, <2>4
  <2>6. Attachable(s, i, size, a, inl) /\ Occupied(s, i, size, a) + inl <= BlkSize
    BY <1>2, <2>3, <2>5, BucketUsable
  <2>7. ~(Occupied(s, i, size, a) + inl > BlkSize)
    <3>1. Occupied(s, i, size, a) \in Int
      BY <1>2, <2>5, OccupiedIs
    <3> QED
      BY <1>2, <2>6, <3>1
  <2>8. ASSUME NEW o \in (x + 1)..F
        PROVE  ~(s.buckets[ty][o] # << >> /\ first(o) # s.last_mapped)
    <3>1. o \in 1..F /\ ~(o <= x)
      BY <2>1, <2>3
    <3>2. o \notin fit
      BY <2>2, <3>1
    <3> QED
      BY <1>3, <3>1, <3>2 DEF fit
  <2>9. ~FindMappedBug(s, ty, size, inl, a, i)
    <3>1. (IF i = HEAD THEN 0 ELSE s.bb[i].off % BlkSize) = x
      BY <2>5
    <3>2. s.bb[i].blkaddr # NULL_ADDR
      BY <2>5 DEF Mapped
    <3>3. FindMappedBug(s, ty, size, inl, a, i) <=>
            \/ \E o \in (x + 1)..F : s.buckets[ty][o] # << >> /\ first(o) # s.last_mapped
            \/ /\ i # HEAD
               /\ \/ s.bb[i].type # ty
                  \/ s.bb[i].blkaddr = NULL_ADDR
                  \/ i # first(x)
                  \/ ~Attachable(s, i, size, a, inl)
                  \/ Occupied(s, i, size, a) + inl > BlkSize
      BY <3>1, Zenon DEF FindMappedBug
    <3> QED
      BY <2>4, <2>5, <2>6, <2>7, <2>8, <3>2, <3>3
  <2>10. (AttachedOff(s, i, size, a) % BlkSize) + inl <= BlkSize
    BY <1>2, <2>5, <2>6, RoomIs
  <2> QED
    BY <2>5, <2>6, <2>9, <2>10 DEF Usable
<1> QED
  BY <1>4, <1>5

(* The list search finds nothing or a bb that can be attached to. *)
LEMMA FindExpandableIs ==
  ASSUME NEW s, NEW start, NEW junk, MgrInv(s, start, junk), NEW ty \in Types,
         NEW a, Divisor(a), NEW size \in Nat, NEW inl \in Nat,
         NEW id0, id0 = HEAD \/ Usable(s, id0, size, a, inl),
         NEW i, i = FindExpandable(s, ty, size, inl, a, id0)
  PROVE  i = HEAD \/ Usable(s, i, size, a, inl)
<1> DEFINE used0     == (size % BlkSize) + inl
           from      == IF s.last_mapped = HEAD THEN 1 ELSE PosOf(s, s.last_mapped)
           before(p) == s.bb[s.list[p]].off % BlkSize
           used(p)   == (Occupied(s, s.list[p], size, a) % BlkSize) + inl
           max0      == IF id0 = HEAD THEN 0 ELSE Occupied(s, id0, size, a) + inl
           fit       == {p \in from..Len(s.list) :
                           /\ before(p) # 0
                           /\ s.bb[s.list[p]].type = ty
                           /\ Attachable(s, s.list[p], size, a, inl)
                           /\ used(p) <= BlkSize
                           /\ used(p) >= before(p) \/ used(p) >= used0
                           /\ used(p) > max0}
           best == {p \in fit : \A q \in fit : used(q) <= used(p)}
<1>1. i = IF fit = {} THEN id0 ELSE s.list[Min(best)]
  BY DEF FindExpandable
<1>2. TypeInv(s) /\ Len(s.list) \in Nat /\ BlkSize \in Nat \ {0}
  BY ListUse, BlkPos DEF MgrInv
<1>3. from \in Nat \ {0}
  <2>1. PICK k : PrefixAt(s, k)
    BY DEF MgrInv, PrefixInv
  <2>2. k \in 0..Len(s.list)
    BY <2>1 DEF PrefixAt
  <2>3. CASE k = 0
    BY <2>1, <2>3 DEF PrefixAt
  <2>4. CASE k # 0
    <3>1. k \in 1..Len(s.list) /\ s.last_mapped = s.list[k]
      BY <1>2, <2>1, <2>2, <2>4 DEF PrefixAt
    <3>2. PosOf(s, s.last_mapped) = k
      BY <1>2, <3>1, PosIs
    <3> QED
      BY <1>2, <3>1, <3>2
  <2> QED
    BY <2>3, <2>4
<1> HIDE DEF from
<1>4. /\ fit \subseteq 1..Len(s.list)
      /\ \A p \in fit : /\ Attachable(s, s.list[p], size, a, inl)
                        /\ (Occupied(s, s.list[p], size, a) % BlkSize) + inl <= BlkSize
  BY <1>2, <1>3
<1>5. \A p \in fit : used(p) \in 0..BlkSize
  <2> SUFFICES ASSUME NEW p \in fit PROVE used(p) \in 0..BlkSize
    OBVIOUS
  <2>1. p \in 1..Len(s.list) /\ used(p) <= BlkSize
    BY <1>4
  <2>2. s.list[p] \in 1..s.nr
    BY <1>2, <2>1, ListUse
  <2> DEFINE x == Occupied(s, s.list[p], size, a)
  <2>3. x \in 1..BlkSize
    BY <1>2, <2>2, OccupiedIs
  <2> HIDE DEF x
  <2>4. x % BlkSize \in 0..(BlkSize - 1)
    <3>1. x \in Int
      BY <2>3
    <3> QED
      BY <1>2, <3>1, DivBounds
  <2>5. (x % BlkSize) + inl \in Nat
    BY <1>2, <2>4
  <2> QED
    BY <1>2, <2>1, <2>5 DEF x
<1> HIDE DEF fit, used
<1>6. CASE fit = {}
  BY <1>1, <1>6
<1>7. CASE fit # {}
  <2> DEFINE V == {used(p) : p \in fit}
  <2>1. V \subseteq 0..BlkSize /\ V # {}
    BY <1>5, <1>7
  <2>2. PICK v \in V : \A y \in V : y <= v
    <3> HIDE DEF V
    <3> QED
      BY <1>2, <2>1, NatMax
  <2>3. PICK p \in fit : used(p) = v
    BY <2>2
  <2>4. p \in best
    BY <2>2, <2>3
  <2>5. best \subseteq Nat /\ best \subseteq fit
    <3>1. best \subseteq fit
      OBVIOUS
    <3>2. fit \subseteq Nat
      BY <1>2, <1>4
    <3> QED
      BY <3>1, <3>2
  <2> HIDE DEF best
  <2>6. Min(best) \in fit
    BY <2>4, <2>5, MinIs
  <2>7. i = s.list[Min(best)]
    BY <1>1, <1>7
  <2>8. On(s, i) /\ Attachable(s, i, size, a, inl)
    <3>1. Min(best) \in 1..Len(s.list) /\ Attachable(s, s.list[Min(best)], size, a, inl)
      BY <1>4, <2>6
    <3> QED
      BY <1>2, <2>7, <3>1, ListUse
  <2>9. (AttachedOff(s, i, size, a) % BlkSize) + inl <= BlkSize
    <3>1. (Occupied(s, i, size, a) % BlkSize) + inl <= BlkSize
      BY <1>4, <2>6, <2>7
    <3>2. i \in 1..s.nr
      BY <1>2, <2>8, TypeUse
    <3> QED
      BY <1>2, <3>1, <3>2, RoomIs
  <2> QED
    BY <2>8, <2>9 DEF Usable
<1> QED
  BY <1>6, <1>7
-----------------------------------------------------------------------------
(* erofs_balloc *)

Whats == {"DATA", "DIRA", "INODE", "DEVT", "XATTR", "META"}
Fresh(what, size, inl) == (size % BlkSize) + inl = 0 \/ AlignSize(what) = BlkSize

(* The type get_alignsize stores. *)
LEMMA StoredIs ==
  ASSUME NEW what
  PROVE  StoredType(what) \in Types
BY DEF StoredType, Types

(* 0 is a multiple of every alignment. *)
LEMMA RoundUpNone ==
  ASSUME NEW a \in Nat \ {0}
  PROVE  RoundUp(0, a) = 0
<1>1. 0 <= 0 * a /\ 0 * a < 0 + a
  OBVIOUS
<1>2. RoundUp(0, a) = 0 * a
  BY <1>1, RoundUpUnique
<1> QED
  BY <1>2

(* A new bb can be attached to. *)
LEMMA NewUsable ==
  ASSUME NEW s, NEW start, NEW junk, MgrInv(s, start, junk), NEW ty \in Types,
         NEW t, t = NewBlock(s, ty), NEW size \in Nat, NEW a, Divisor(a),
         NEW inl \in Nat, ~InlineTooBig(size, inl)
  PROVE  MgrInv(t, start, junk) /\ Usable(t, t.nr, size, a, inl)
<1>1. PICK k : PrefixAt(s, k)
  BY DEF MgrInv, PrefixInv
<1>2. /\ MgrInv(t, start, junk) /\ PrefixAt(t, k)
      /\ NewDone(s, t, ty, NewPos(s, ty))
      /\ On(t, t.nr)
  BY <1>1, NewInv
<1>3. TypeInv(t) /\ ~Mapped(t, t.nr)
  BY <1>2 DEF MgrInv, NewDone, Mapped
<1>4. PICK p \in 1..Len(t.list) : t.list[p] = t.nr
  BY <1>2, <1>3, ListUse
<1>5. ~(p <= k)
  BY <1>2, <1>3, <1>4 DEF PrefixAt
<1>6. p >= k
  BY <1>2, <1>3, <1>5, ListUse DEF PrefixAt
<1>7. NextAddr(t, t.nr) = NULL_ADDR
  BY <1>2, <1>3, <1>4, <1>6, NextIs
<1>8. (AttachedOff(t, t.nr, size, a) % BlkSize) + inl <= BlkSize
  <2>1. RoundUp(0, a) = 0 /\ t.bb[t.nr].off = 0
    BY <1>2, RoundUpNone DEF Divisor, NewDone
  <2>2. AttachedOff(t, t.nr, size, a) = size
    BY <2>1 DEF AttachedOff
  <2>3. size % BlkSize \in Nat /\ BlkSize \in Nat
    BY BlkPos, DivBounds
  <2> QED
    BY <2>2, <2>3 DEF InlineTooBig
<1> QED
  BY <1>2, <1>3, <1>7, <1>8 DEF Usable, Attachable, Mapped

BallocTo(s, u, i, what, size, inl, key, r) ==
  /\ \/ u = s /\ ~Fresh(what, size, inl)
     \/ u = NewBlock(s, StoredType(what)) /\ i = u.nr
  /\ Usable(u, i, size, AlignSize(what), inl)
  /\ r = Ok(Attach(u, i, <<Bh(u, i, key, size, AlignSize(what))>>, size,
                   AlignSize(what), inl))

(* erofs_balloc attaches to a bb that can be attached to. *)
LEMMA BallocIs ==
  ASSUME NEW s, NEW start, NEW junk, MgrInv(s, start, junk), NEW what \in Whats,
         NEW size \in Nat, NEW inl \in Nat, ~InlineTooBig(size, inl), NEW key,
         NEW r, r = Balloc(s, what, size, inl, key)
  PROVE  \E u, i : MgrInv(u, start, junk) /\ BallocTo(s, u, i, what, size, inl, key, r)
<1> DEFINE align == AlignSize(what)
           type  == StoredType(what)
           fresh == Fresh(what, size, inl)
           id1   == FindMapped(s, type, size, inl, align)
           m1    == IF fresh THEN s
                    ELSE Bug(s, FindMappedBug(s, type, size, inl, align, id1))
           id2   == IF fresh THEN HEAD
                    ELSE FindExpandable(s, type, size, inl, align, id1)
           m2    == IF id2 = HEAD THEN NewBlock(m1, type) ELSE m1
           id    == IF id2 = HEAD THEN m2.nr ELSE id2
<1>1. r = IF Attachable(m2, id, size, align, inl)
          THEN Ok(Attach(m2, id, <<Bh(m2, id, key, size, align)>>, size, align, inl))
          ELSE Fail(m2, "EINVAL")
  BY DEF Balloc, Fresh
<1>2. Divisor(align) /\ type \in Types
  BY AlignDivides, StoredIs DEF Whats
<1>3. TypeInv(s)
  BY DEF MgrInv
<1> HIDE DEF align, type, fresh
<1>4. ~fresh => size + inl # 0
  <2>1. ~fresh => (size % BlkSize) + inl # 0
    BY DEF fresh, Fresh
  <2>2. size + inl = 0 => size = 0 /\ inl = 0
    OBVIOUS
  <2>3. 0 % BlkSize = 0
    BY BlkPos
  <2> QED
    BY <2>1, <2>2, <2>3
<1>5. /\ m1 = s
      /\ id2 = HEAD \/ Usable(s, id2, size, align, inl)
      /\ fresh => id2 = HEAD
  <2>1. CASE fresh
    BY <2>1
  <2>2. CASE ~fresh
    <3>1. /\ id1 = HEAD \/ Usable(s, id1, size, align, inl)
          /\ ~FindMappedBug(s, type, size, inl, align, id1)
      BY <1>2, <1>4, <2>2, FindMappedIs
    <3> HIDE DEF id1
    <3>2. Bug(s, FALSE) = s
      BY <1>3, BugIs
    <3>3. FindMappedBug(s, type, size, inl, align, id1) = FALSE
      <4>1. FindMappedBug(s, type, size, inl, align, id1) \in BOOLEAN
        BY Zenon DEF FindMappedBug
      <4> QED
        BY <3>1, <4>1
    <3>4. m1 = s
      BY <2>2, <3>2, <3>3
    <3>5. id2 = FindExpandable(s, type, size, inl, align, id1)
      BY <2>2
    <3>6. id2 = HEAD \/ Usable(s, id2, size, align, inl)
      <4> HIDE DEF id2
      <4> QED
        BY <1>2, <3>1, <3>5, FindExpandableIs
    <3> QED
      BY <2>2, <3>4, <3>6
  <2> QED
    BY <2>1, <2>2
<1> HIDE DEF m1, id2
<1>6. CASE id2 = HEAD
  <2>1. m2 = NewBlock(s, type) /\ id = m2.nr
    BY <1>5, <1>6
  <2> HIDE DEF m2, id
  <2>2. MgrInv(m2, start, junk) /\ Usable(m2, id, size, align, inl)
    BY <1>2, <2>1, NewUsable
  <2>3. r = Ok(Attach(m2, id, <<Bh(m2, id, key, size, align)>>, size, align, inl))
    BY <1>1, <2>2 DEF Usable
  <2>4. BallocTo(s, m2, id, what, size, inl, key, r)
    BY <2>1, <2>2, <2>3 DEF BallocTo, align, type
  <2> QED
    BY <2>2, <2>4
<1>7. CASE id2 # HEAD
  <2>1. m2 = s /\ id = id2
    BY <1>5, <1>7
  <2> HIDE DEF m2, id
  <2>2. Usable(m2, id, size, align, inl) /\ ~fresh
    BY <1>5, <1>7, <2>1
  <2>3. r = Ok(Attach(m2, id, <<Bh(m2, id, key, size, align)>>, size, align, inl))
    BY <1>1, <2>2 DEF Usable
  <2>4. BallocTo(s, m2, id, what, size, inl, key, r)
    BY <2>1, <2>2, <2>3 DEF BallocTo, align, type, fresh
  <2> QED
    BY <2>1, <2>4
<1> QED
  BY <1>6, <1>7
-----------------------------------------------------------------------------
(* What the users of the manager see of a step: only the bhs of K change. *)

Changed(s, t, K) ==
  \A k : k \notin K => Kept(s, t, k) /\ (HasKey(t, k) <=> HasKey(s, k))

(* Composing steps. *)
LEMMA ChangedTrans ==
  ASSUME NEW s, NEW t, NEW u, NEW K, NEW L, TypeInv(t), Changed(s, t, K), Changed(t, u, L)
  PROVE  Changed(s, u, K \cup L)
BY KeptTrans DEF Changed

(* A step that changes less. *)
LEMMA ChangedMore ==
  ASSUME NEW s, NEW t, NEW K, NEW L, Changed(s, t, K), K \subseteq L
  PROVE  Changed(s, t, L)
BY DEF Changed

(* No step changes nothing. *)
LEMMA ChangedSelf ==
  ASSUME NEW s
  PROVE  Changed(s, s, {})
BY DEF Changed, Kept

(* A step that keeps every bh changes none. *)
LEMMA ChangedNone ==
  ASSUME NEW s, NEW t, AllKept(s, t), SameKeys(s, t)
  PROVE  Changed(s, t, {})
BY DEF Changed, AllKept, SameKeys

(* A step that keeps every other bh changes one. *)
LEMMA ChangedOne ==
  ASSUME NEW s, NEW t, NEW key, OthersKept(s, t, key)
  PROVE  Changed(s, t, {key})
BY DEF Changed, OthersKept

(* A bh is the last one of its bb, and extra more fit behind it. *)
LastOf(t, key, i, extra) ==
  /\ At(t, key, i, Len(t.bb[i].bhs))
  /\ Attachable(t, i, extra, 1, 0)

(* Nothing is rounded for an alignment of 1. *)
LEMMA RoundUpOne ==
  ASSUME NEW x \in Nat
  PROVE  RoundUp(x, 1) = x
BY RoundUpUnique

(* 1 is an alignment. *)
LEMMA OneDivides == Divisor(1)
BY BlkPos DEF Divisor

(* What was left room for can be attached. *)
LEMMA RoomLeft ==
  ASSUME NEW s, TypeInv(s), NEW k, PrefixAt(s, k), NEW i, On(s, i), NEW q \in Seq(BhSet),
         NEW incr \in Nat, NEW align, Divisor(align), NEW extra \in Nat,
         Attachable(s, i, incr, align, extra),
         NEW t, AttachDone(s, t, i, q, AttachedOff(s, i, incr, align),
                           Extended(s, i, incr, align, extra)),
         PrefixAt(t, k)
  PROVE  Attachable(t, i, extra, 1, 0)
<1>1. i \in 1..s.nr
  BY TypeUse
<1> DEFINE A == AttachedOff(s, i, incr, align)
           X == Oob(s, i, incr, align, extra)
<1>2. /\ A \in Nat /\ X \in Int
      /\ X = A + extra - BlkRoundUp(s.bb[i].off) * BlkSize
      /\ X <= 0 => BlkRoundUp(A) = BlkRoundUp(s.bb[i].off)
  BY <1>1, OobUse
<1>3. /\ TypeInv(t) /\ t.list = s.list /\ t.nr = s.nr
      /\ t.bb[i].blkaddr = s.bb[i].blkaddr /\ t.bb[i].off = A
      /\ t.tail_blkaddr = IF Extended(s, i, incr, align, extra) THEN NewTail(s, i, A)
                          ELSE s.tail_blkaddr
  BY DEF AttachDone
<1>4. X > 0 => NextAddr(s, i) = NULL_ADDR /\ (Mapped(s, i) => TailUpdate(s, i))
  BY DEF Attachable, Mapped
<1>5. X >= 0 /\ Mapped(s, i) /\ TailUpdate(s, i) => Extended(s, i, incr, align, extra)
  BY DEF Extended
<1> HIDE DEF X, A
<1>6. Oob(t, i, extra, 1, 0) = A + extra - BlkRoundUp(A) * BlkSize
  <2>1. Oob(t, i, extra, 1, 0) =
          AttachedOff(t, i, extra, 1) + 0 - BlkRoundUp(t.bb[i].off) * BlkSize
    <3>1. TypeInv(t) /\ i \in 1..t.nr /\ 0 \in Nat
      BY <1>1, <1>3
    <3> QED
      BY <3>1, OobUse, OneDivides
  <2>2. AttachedOff(t, i, extra, 1) = A + extra
    BY <1>2, <1>3, RoundUpOne DEF AttachedOff
  <2> DEFINE y == BlkRoundUp(A) * BlkSize
  <2>3. y \in Int /\ A \in Nat
    BY <1>2, BlkRoundUpIs, BlkPos
  <2>4. t.bb[i].off = A
    BY <1>3
  <2>5. Oob(t, i, extra, 1, 0) = (A + extra) + 0 - y
    BY <2>1, <2>2, <2>4, Zenon
  <2> HIDE DEF y
  <2>6. Oob(t, i, extra, 1, 0) = A + extra - y
    BY <2>3, <2>5
  <2> QED
    BY <2>6 DEF y
<1>7. CASE X <= 0
  BY <1>2, <1>6, <1>7 DEF Attachable
<1>8. CASE X > 0
  <2>1. PICK p \in 1..Len(s.list) : s.list[p] = i
    BY ListUse
  <2>2. NextAddr(t, i) = NULL_ADDR
    BY <1>3, <1>4, <1>8, <2>1, NextIs
  <2>3. t.bb[i].blkaddr # NULL_ADDR => TailUpdate(t, i)
    BY <1>2, <1>3, <1>4, <1>5, <1>8 DEF Mapped, TailUpdate, EndBlk, NewTail
  <2> QED
    BY <2>2, <2>3 DEF Attachable
<1> QED
  BY <1>2, <1>7, <1>8
-----------------------------------------------------------------------------
(* A new bh *)

(* The bh of a new area. *)
LEMMA BhIs ==
  ASSUME NEW s, TypeInv(s), NEW i \in 1..s.nr, NEW key \in KeySet, NEW size \in Nat,
         NEW align, Divisor(align), NEW h, h = Bh(s, i, key, size, align)
  PROVE  /\ h \in BhSet /\ h.key = key /\ h.op = "skip"
         /\ <<h>> \in Seq(BhSet) /\ Len(<<h>>) = 1 /\ <<h>>[1] = h
<1>1. RoundUp(s.bb[i].off, align) \in Nat
  <2>1. s.bb[i].off \in Nat
    BY EndUse
  <2> QED
    BY <2>1, RoundUpBounds DEF Divisor
<1>2. h \in BhSet /\ h.key = key /\ h.op = "skip"
  BY <1>1 DEF Bh, BhSet
<1> QED
  BY <1>2

(* The last element of an extended sequence. *)
LEMMA AddedIs ==
  ASSUME NEW S, NEW c \in Seq(S), NEW h \in S, NEW d, d = c \o <<h>>
  PROVE  /\ Len(d) = Len(c) + 1 /\ Len(d) \in 1..Len(d)
         /\ d[Len(d)] = h
OBVIOUS

AddDone(s, t, key, i, extra) ==
  /\ Changed(s, t, {key})
  /\ i \in 1..t.nr /\ LastOf(t, key, i, extra)
  /\ t.bb[i].bhs[Len(t.bb[i].bhs)].op = "skip"

(* Attaching one new bh: it is the last of its bb, with room for extra. *)
LEMMA AddInv ==
  ASSUME NEW s, NEW start, NEW junk, MgrInv(s, start, junk), NEW i, On(s, i),
         NEW key \in KeySet, ~HasKey(s, key), NEW size \in Nat,
         NEW align, Divisor(align), NEW extra \in Nat,
         Attachable(s, i, size, align, extra),
         NEW t, t = Attach(s, i, <<Bh(s, i, key, size, align)>>, size, align, extra)
  PROVE  /\ MgrInv(t, start, junk)
         /\ AddDone(s, t, key, i, extra)
         /\ \A k : PrefixAt(s, k) => PrefixAt(t, k)
         /\ AttachDone(s, t, i, <<Bh(s, i, key, size, align)>>,
                       AttachedOff(s, i, size, align), Extended(s, i, size, align, extra))
<1>1. TypeInv(s) /\ i \in 1..s.nr
  BY TypeUse DEF MgrInv
<1> DEFINE h == Bh(s, i, key, size, align)
           q == <<h>>
<1>2. /\ h \in BhSet /\ h.key = key /\ h.op = "skip"
      /\ q \in Seq(BhSet) /\ Len(q) = 1 /\ q[1] = h
  BY <1>1, BhIs
<1> DEFINE off == AttachedOff(s, i, size, align)
           ext == Extended(s, i, size, align, extra)
<1>3. t = Attach(s, i, q, size, align, extra)
  OBVIOUS
<1> HIDE DEF h
<1>4. Addable(s, q)
  BY <1>2 DEF Addable
<1> HIDE DEF q
<1>5. /\ MgrInv(t, start, junk)
      /\ AllKept(s, t) /\ KeysAdded(s, t, q)
      /\ \A k : PrefixAt(s, k) => PrefixAt(t, k)
  BY <1>2, <1>3, <1>4, AttachInv
<1>6. AttachDone(s, t, i, q, off, ext)
  BY <1>1, <1>2, <1>3, AttachIs
<1>7. PICK k : PrefixAt(s, k)
  BY DEF MgrInv, PrefixInv
<1>8. Attachable(t, i, extra, 1, 0)
  BY <1>1, <1>2, <1>5, <1>6, <1>7, RoomLeft
<1> HIDE DEF off, ext
<1>9. /\ t.list = s.list /\ t.nr = s.nr /\ t.bb[i].bhs = s.bb[i].bhs \o q
  BY <1>6 DEF AttachDone
<1>10. /\ Len(t.bb[i].bhs) = Len(s.bb[i].bhs) + 1
       /\ Len(t.bb[i].bhs) \in 1..Len(t.bb[i].bhs)
       /\ t.bb[i].bhs[Len(t.bb[i].bhs)] = h
  <2>1. s.bb[i].bhs \in Seq(BhSet)
    BY <1>1, TypeUse, BlockUse
  <2>2. t.bb[i].bhs = s.bb[i].bhs \o <<h>>
    BY <1>9 DEF q
  <2>3. h \in BhSet
    BY <1>2
  <2> DEFINE c == s.bb[i].bhs
             d == t.bb[i].bhs
  <2>4. c \in Seq(BhSet) /\ d = c \o <<h>>
    BY <2>1, <2>2
  <2> HIDE DEF c, d
  <2>5. Len(d) = Len(c) + 1 /\ Len(d) \in 1..Len(d) /\ d[Len(d)] = h
    BY <2>3, <2>4, AddedIs
  <2> QED
    BY <2>5 DEF c, d
<1>11. At(t, key, i, Len(t.bb[i].bhs))
  BY <1>2, <1>9, <1>10 DEF At, On
<1>12. Changed(s, t, {key})
  <2> SUFFICES ASSUME NEW y, y # key
               PROVE  Kept(s, t, y) /\ (HasKey(t, y) <=> HasKey(s, y))
    BY DEF Changed
  <2>1. HasKey(t, y) <=> HasKey(s, y) \/ \E n \in 1..Len(q) : q[n].key = y
    BY <1>5 DEF KeysAdded
  <2>2. ~ \E n \in 1..Len(q) : q[n].key = y
    BY <1>2
  <2> QED
    BY <1>5, <2>1, <2>2 DEF AllKept
<1>13. AddDone(s, t, key, i, extra)
  BY <1>1, <1>2, <1>8, <1>9, <1>10, <1>11, <1>12 DEF AddDone, LastOf
<1> QED
  BY <1>5, <1>6, <1>13 DEF off, ext, q, h

(* erofs_balloc succeeds whenever the inline data can share a block with   *)
(* what is allocated; it preserves the invariant, changes no other bh, and *)
(* leaves room for the inline data behind the new bh.                      *)
THEOREM BallocInv ==
  ASSUME NEW s, NEW start, NEW junk, MgrInv(s, start, junk), NEW what \in Whats,
         NEW size \in Nat, NEW inl \in Nat, ~InlineTooBig(size, inl),
         NEW key \in KeySet, ~HasKey(s, key),
         NEW r, r = Balloc(s, what, size, inl, key)
  PROVE  /\ r.err = "ok" /\ MgrInv(r.m, start, junk)
         /\ \E i : AddDone(s, r.m, key, i, inl)
<1>1. PICK u, i : MgrInv(u, start, junk) /\ BallocTo(s, u, i, what, size, inl, key, r)
  BY BallocIs
<1>2. Divisor(AlignSize(what))
  BY AlignDivides DEF Whats
<1> DEFINE t == Attach(u, i, <<Bh(u, i, key, size, AlignSize(what))>>, size,
                       AlignSize(what), inl)
<1>3. /\ r.m = t /\ r.err = "ok"
      /\ On(u, i) /\ Attachable(u, i, size, AlignSize(what), inl)
      /\ u = s \/ u = NewBlock(s, StoredType(what))
  BY <1>1 DEF BallocTo, Usable, Ok
<1> HIDE DEF t
<1>4. Changed(s, u, {})
  <2>1. CASE u = s
    BY <2>1, ChangedSelf
  <2>2. CASE u = NewBlock(s, StoredType(what))
    <3>1. PICK k : PrefixAt(s, k)
      BY DEF MgrInv, PrefixInv
    <3>2. StoredType(what) \in Types
      BY StoredIs
    <3>3. AllKept(s, u) /\ \A y : HasKey(u, y) <=> HasKey(s, y)
      BY <2>2, <3>1, <3>2, NewInv
    <3> QED
      BY <3>3, ChangedNone DEF SameKeys
  <2> QED
    BY <1>3, <2>1, <2>2
<1>5. ~HasKey(u, key)
  BY <1>4 DEF Changed
<1>6. MgrInv(t, start, junk) /\ AddDone(u, t, key, i, inl)
  BY <1>1, <1>2, <1>3, <1>5, AddInv DEF t
<1>7. Changed(s, t, {key})
  <2>1. Changed(u, t, {key})
    BY <1>6 DEF AddDone
  <2>2. TypeInv(u)
    BY <1>1 DEF MgrInv
  <2>3. Changed(s, t, {} \cup {key})
    BY <1>4, <2>1, <2>2, ChangedTrans
  <2> QED
    BY <2>3, ChangedMore
<1>8. AddDone(s, t, key, i, inl)
  BY <1>6, <1>7 DEF AddDone
<1> QED
  BY <1>3, <1>6, <1>8
-----------------------------------------------------------------------------
(* erofs_battach and erofs_bh_balloon *)

(* erofs_battach behind a bh with room left for it succeeds and preserves  *)
(* the invariant.                                                          *)
LEMMA BattachInv ==
  ASSUME NEW s, NEW start, NEW junk, MgrInv(s, start, junk), NEW key \in KeySet,
         NEW i, NEW size \in Nat, LastOf(s, key, i, size),
         NEW newkey \in KeySet, ~HasKey(s, newkey),
         NEW r, r = Battach(s, key, "META", size, newkey)
  PROVE  /\ r.err = "ok" /\ MgrInv(r.m, start, junk)
         /\ AddDone(s, r.m, newkey, i, 0)
<1>1. TypeInv(s) /\ KeyInv(s)
  BY DEF MgrInv
<1>2. At(s, key, i, Len(s.bb[i].bhs)) /\ Attachable(s, i, size, 1, 0) /\ On(s, i)
  BY DEF LastOf, At
<1>3. BlockOf(s, key) = i /\ BhNr(s, key) = Len(s.bb[i].bhs)
  BY <1>1, <1>2, BlockIs
<1>4. AlignSize("META") = 1
  BY DEF AlignSize
<1> DEFINE t == Attach(s, i, <<Bh(s, i, newkey, size, 1)>>, size, 1, 0)
<1>5. r = Ok(t)
  BY <1>2, <1>3, <1>4 DEF Battach, IsTailBh
<1> HIDE DEF t
<1>6. MgrInv(t, start, junk) /\ AddDone(s, t, newkey, i, 0)
  BY <1>2, OneDivides, AddInv DEF t
<1> QED
  BY <1>5, <1>6 DEF Ok

(* The only bh of a bb that may grow by blocks, and ends where the bb does. *)
Growable(s, key, i, off) ==
  /\ At(s, key, i, 1) /\ Len(s.bb[i].bhs) = 1 /\ s.bb[i].off = off
  /\ s.bb[i].bhs[1].off + s.bb[i].bhs[1].len = off
  /\ NextAddr(s, i) = NULL_ADDR
  /\ Mapped(s, i) => s.tail_blkaddr = EndBlk(s, i)

(* Which bb has an unmapped one next depends on the list only. *)
LEMMA SameNext ==
  ASSUME NEW s, NEW t, TypeInv(s), TypeInv(t), NEW k, PrefixAt(s, k), PrefixAt(t, k),
         t.list = s.list, NEW i, On(s, i)
  PROVE  NextAddr(t, i) = NULL_ADDR <=> NextAddr(s, i) = NULL_ADDR
<1>1. PICK p \in 1..Len(s.list) : s.list[p] = i
  BY ListUse
<1> QED
  BY <1>1, NextIs

GrowDone(s, t, key, i, off) ==
  /\ Changed(s, t, {key}) /\ Growable(t, key, i, off)
  /\ t.list = s.list /\ t.nr = s.nr /\ t.bb[i].blkaddr = s.bb[i].blkaddr
  /\ ~Mapped(s, i) => t.tail_blkaddr = s.tail_blkaddr
  /\ t.bb[i].bhs[1].off = s.bb[i].bhs[1].off
  /\ t.bb[i].bhs[1].op = s.bb[i].bhs[1].op
  /\ \A k \in 1..s.nr : k # i => t.bb[k] = s.bb[k]

(* The bh with its length grown. *)
LEMMA LongerIs ==
  ASSUME NEW h \in BhSet, NEW incr \in Nat, NEW g, g = [h EXCEPT !.len = @ + incr]
  PROVE  /\ g \in BhSet /\ g.key = h.key /\ g.off = h.off /\ g.op = h.op
         /\ g.len = h.len + incr /\ h.off \in Nat /\ h.len \in Nat
BY DEF BhSet

(* Growing a bb without a new bh moves no bh. *)
LEMMA AttachNone ==
  ASSUME NEW s, NEW start, NEW junk, MgrInv(s, start, junk), NEW i, On(s, i),
         NEW incr \in Nat, NEW align, Divisor(align), NEW extra \in Nat,
         Attachable(s, i, incr, align, extra),
         NEW t, t = Attach(s, i, << >>, incr, align, extra)
  PROVE  /\ MgrInv(t, start, junk)
         /\ AllKept(s, t) /\ SameKeys(s, t)
         /\ \A k : PrefixAt(s, k) => PrefixAt(t, k)
<1> DEFINE q == << >>
<1>1. q \in Seq(BhSet) /\ Addable(s, q) /\ t = Attach(s, i, q, incr, align, extra)
  BY DEF Addable
<1>2. ~ \E n \in 1..Len(q) : TRUE
  OBVIOUS
<1> HIDE DEF q
<1>3. /\ MgrInv(t, start, junk)
      /\ AllKept(s, t) /\ KeysAdded(s, t, q)
      /\ \A k : PrefixAt(s, k) => PrefixAt(t, k)
  BY <1>1, AttachInv
<1> QED
  BY <1>2, <1>3 DEF KeysAdded, SameKeys

(* erofs_bh_balloon of a bh at the end of the image succeeds and preserves *)
(* the invariant.                                                          *)
THEOREM BalloonInv ==
  ASSUME NEW s, NEW start, NEW junk, MgrInv(s, start, junk), NEW key \in KeySet,
         NEW i, NEW off, Growable(s, key, i, off), NEW incr \in Nat,
         NEW r, r = Balloon(s, key, incr)
  PROVE  /\ r.err = "ok" /\ MgrInv(r.m, start, junk)
         /\ GrowDone(s, r.m, key, i, off + incr)
         /\ \A k : PrefixAt(s, k) => PrefixAt(r.m, k)
<1>1. TypeInv(s) /\ KeyInv(s)
  BY DEF MgrInv
<1>2. /\ At(s, key, i, 1) /\ Len(s.bb[i].bhs) = 1 /\ s.bb[i].off = off
      /\ s.bb[i].bhs[1].off + s.bb[i].bhs[1].len = off
      /\ NextAddr(s, i) = NULL_ADDR
      /\ Mapped(s, i) => s.tail_blkaddr = EndBlk(s, i)
  BY DEF Growable
<1>3. /\ i \in 1..s.nr /\ On(s, i) /\ s.bb[i].bhs \in Seq(BhSet) /\ 1 \in 1..Len(s.bb[i].bhs)
      /\ off \in Nat
  BY <1>1, <1>2, TypeUse, BlockUse DEF At
<1>4. BlockOf(s, key) = i /\ BhNr(s, key) = 1
  BY <1>1, <1>2, BlockIs
<1>5. Attachable(s, i, incr, 1, 0)
  BY <1>2 DEF Attachable, Mapped, TailUpdate
<1> DEFINE h == [s.bb[i].bhs[1] EXCEPT !.len = @ + incr]
           q == [s.bb[i].bhs EXCEPT ![1] = h]
           u == WithBhs(s, i, q)
           t == Attach(u, i, << >>, incr, 1, 0)
<1>6. [s EXCEPT !.bb[i].bhs[1].len = @ + incr] = u
  BY DEF WithBhs
<1>7. r = Ok(t)
  BY <1>2, <1>4, <1>5, <1>6 DEF Balloon, IsTailBh
<1>8. /\ h \in BhSet /\ h.key = key /\ h.off = s.bb[i].bhs[1].off
      /\ h.op = s.bb[i].bhs[1].op
      /\ h.off + h.len = off + incr
  <2>1. s.bb[i].bhs[1] \in BhSet /\ s.bb[i].bhs[1].key = key
    BY <1>2, <1>3 DEF At
  <2> DEFINE g == s.bb[i].bhs[1]
  <2>11. h = [g EXCEPT !.len = @ + incr]
    OBVIOUS
  <2> HIDE DEF h, g
  <2>12. g \in BhSet /\ g.key = key
    BY <2>1 DEF g
  <2>13. /\ h \in BhSet /\ h.key = g.key /\ h.off = g.off
         /\ h.op = g.op /\ h.len = g.len + incr
         /\ g.off \in Nat /\ g.len \in Nat
    BY <2>11, <2>12, LongerIs
  <2>2. /\ h \in BhSet /\ h.key = key /\ h.off = s.bb[i].bhs[1].off
        /\ h.op = s.bb[i].bhs[1].op /\ h.len = s.bb[i].bhs[1].len + incr
        /\ s.bb[i].bhs[1].off \in Nat /\ s.bb[i].bhs[1].len \in Nat
    BY <2>12, <2>13 DEF g
  <2> QED
    BY <1>2, <2>2
<1> HIDE DEF h
<1>9. /\ MgrInv(u, start, junk)
      /\ BhsDone(s, u, i, q)
      /\ At(u, key, i, 1) /\ u.bb[i].bhs[1] = h /\ Len(u.bb[i].bhs) = Len(s.bb[i].bhs)
      /\ OthersKept(s, u, key)
      /\ \A k : PrefixAt(s, k) => PrefixAt(u, k)
  BY <1>2, <1>8, ChangeInv
<1> HIDE DEF q, u
<1>10. /\ TypeInv(u) /\ u.list = s.list /\ u.nr = s.nr
       /\ u.tail_blkaddr = s.tail_blkaddr
       /\ u.bb[i].off = off /\ u.bb[i].blkaddr = s.bb[i].blkaddr
       /\ On(u, i) /\ i \in 1..u.nr
       /\ Mapped(s, i) => EndBlk(u, i) = EndBlk(s, i)
  BY <1>2, <1>3, <1>9 DEF BhsDone, SameBlocks, On
<1>11. PICK k : PrefixAt(s, k)
  BY DEF MgrInv, PrefixInv
<1>12. NextAddr(u, i) = NULL_ADDR
  BY <1>1, <1>2, <1>3, <1>9, <1>10, <1>11, SameNext
<1>13. Attachable(u, i, incr, 1, 0) /\ (Mapped(u, i) => TailUpdate(u, i))
  BY <1>2, <1>10, <1>12 DEF Attachable, Mapped, TailUpdate
<1>14. << >> \in Seq(BhSet) /\ Addable(u, << >>) /\ 0 \in Nat
  BY DEF Addable
<1>141. t = Attach(u, i, << >>, incr, 1, 0)
  OBVIOUS
<1> HIDE DEF t
<1>15. /\ MgrInv(t, start, junk)
       /\ AllKept(u, t) /\ SameKeys(u, t)
       /\ \A l : PrefixAt(u, l) => PrefixAt(t, l)
  BY <1>9, <1>10, <1>13, <1>14, <1>141, OneDivides, AttachNone
<1> DEFINE A == AttachedOff(u, i, incr, 1)
           X == Extended(u, i, incr, 1, 0)
<1>16. AttachDone(u, t, i, << >>, A, X)
  BY <1>10, <1>14, OneDivides, AttachIs DEF t
<1>17. A = off + incr
  BY <1>3, <1>10, RoundUpOne DEF AttachedOff
<1>18. /\ A \in Nat /\ Oob(u, i, incr, 1, 0) \in Int
       /\ Oob(u, i, incr, 1, 0) <= 0 => BlkRoundUp(A) = BlkRoundUp(off)
  <2>1. /\ A \in Nat /\ Oob(u, i, incr, 1, 0) \in Int
        /\ Oob(u, i, incr, 1, 0) <= 0 => BlkRoundUp(A) = BlkRoundUp(u.bb[i].off)
    BY <1>10, <1>14, OneDivides, OobFits
  <2> HIDE DEF A
  <2> QED
    BY <1>10, <2>1
<1>19. X <=> Oob(u, i, incr, 1, 0) >= 0 /\ Mapped(u, i) /\ TailUpdate(u, i)
  BY DEF Extended
<1> HIDE DEF A, X
<1>20. /\ TypeInv(t) /\ t.list = u.list /\ t.nr = u.nr
       /\ t.bb[i].blkaddr = u.bb[i].blkaddr /\ t.bb[i].off = A
       /\ t.bb[i].bhs = u.bb[i].bhs \o << >>
       /\ t.tail_blkaddr = IF X THEN NewTail(u, i, A) ELSE u.tail_blkaddr
  BY <1>16 DEF AttachDone
<1>21. t.bb[i].bhs = u.bb[i].bhs
  <2>1. u.bb[i].bhs \in Seq(BhSet)
    BY <1>10, TypeUse, BlockUse
  <2>2. \A c \in Seq(BhSet) : c \o << >> = c
    OBVIOUS
  <2> QED
    BY <1>20, <2>1, <2>2
<1>22. Mapped(t, i) => t.tail_blkaddr = EndBlk(t, i)
  <2>1. CASE X
    BY <1>20, <2>1 DEF EndBlk, NewTail
  <2>2. CASE ~X /\ Mapped(t, i)
    <3>1. Mapped(u, i) /\ TailUpdate(u, i)
      BY <1>13, <1>20, <2>2 DEF Mapped
    <3>2. Oob(u, i, incr, 1, 0) <= 0
      BY <1>18, <1>19, <2>2, <3>1
    <3>3. BlkRoundUp(A) = BlkRoundUp(off)
      BY <1>18, <3>2
    <3> QED
      BY <1>10, <1>20, <2>2, <3>1, <3>3 DEF EndBlk, TailUpdate
  <2> QED
    BY <2>1, <2>2
<1>23. NextAddr(t, i) = NULL_ADDR
  BY <1>9, <1>10, <1>11, <1>12, <1>15, <1>20, SameNext
<1>24. Growable(t, key, i, off + incr)
  <2>1. At(t, key, i, 1) /\ Len(t.bb[i].bhs) = 1 /\ t.bb[i].bhs[1] = h
    BY <1>2, <1>9, <1>20, <1>21 DEF At, On
  <2> QED
    BY <1>8, <1>17, <1>20, <1>22, <1>23, <2>1 DEF Growable
<1>25. Changed(s, t, {key})
  <2>1. SameKeys(u, t)
    BY <1>15
  <2>2. OthersKept(s, t, key)
    BY <1>9, <1>10, <1>15, <2>1, OthersTrans
  <2> QED
    BY <2>2, ChangedOne
<1>26. ~Mapped(s, i) => t.tail_blkaddr = s.tail_blkaddr
  BY <1>10, <1>19, <1>20 DEF Mapped
<1>261. \A x \in 1..s.nr : x # i => t.bb[x] = s.bb[x]
  BY <1>9, <1>10, <1>16 DEF AttachDone, BhsDone
<1>27. GrowDone(s, t, key, i, off + incr)
  BY <1>8, <1>261, <1>9, <1>10, <1>20, <1>21, <1>24, <1>25, <1>26 DEF GrowDone
<1> QED
  BY <1>7, <1>9, <1>15, <1>27 DEF Ok
-----------------------------------------------------------------------------
(* A bh with a bb of its own, and erofs_mapbh of a bh *)

FreshDone(s, t, key, i, size, ty) ==
  /\ Changed(s, t, {key}) /\ Growable(t, key, i, size) /\ ~Mapped(t, i)
  /\ i = t.nr /\ t.nr = s.nr + 1
  /\ Len(t.list) = Len(s.list) + 1 /\ t.list[NewPos(s, ty)] = i
  /\ t.tail_blkaddr = s.tail_blkaddr
  /\ t.bb[i].bhs[1].off = 0

(* erofs_balloc of whole blocks, or of nothing, makes a bb of its own. *)
LEMMA FreshInv ==
  ASSUME NEW s, NEW start, NEW junk, MgrInv(s, start, junk), NEW what \in Whats,
         NEW size \in Nat, Fresh(what, size, 0), ~InlineTooBig(size, 0),
         NEW key \in KeySet, ~HasKey(s, key),
         NEW r, r = Balloc(s, what, size, 0, key)
  PROVE  /\ r.err = "ok" /\ MgrInv(r.m, start, junk)
         /\ FreshDone(s, r.m, key, r.m.nr, size, StoredType(what))
         /\ \A k : PrefixAt(s, k) => PrefixAt(r.m, k)
<1>1. 0 \in Nat
  OBVIOUS
<1>2. PICK u, i : MgrInv(u, start, junk) /\ BallocTo(s, u, i, what, size, 0, key, r)
  BY <1>1, BallocIs
<1> DEFINE a == AlignSize(what)
           ty == StoredType(what)
           h == Bh(u, i, key, size, a)
           t == Attach(u, i, <<h>>, size, a, 0)
<1>3. /\ r.m = t /\ r.err = "ok"
      /\ On(u, i) /\ Attachable(u, i, size, a, 0)
      /\ u = NewBlock(s, ty) /\ i = u.nr
  BY <1>2 DEF BallocTo, Usable, Ok
<1>4. Divisor(a) /\ ty \in Types
  BY AlignDivides, StoredIs DEF Whats
<1>5. t = Attach(u, i, <<Bh(u, i, key, size, a)>>, size, a, 0)
  OBVIOUS
<1> HIDE DEF a, ty, t
<1>6. TypeInv(s) /\ TypeInv(u)
  BY <1>2 DEF MgrInv
<1>7. PICK k : PrefixAt(s, k)
  BY DEF MgrInv, PrefixInv
<1>8. /\ NewDone(s, u, ty, NewPos(s, ty))
      /\ \A l : PrefixAt(s, l) => PrefixAt(u, l)
      /\ AllKept(s, u) /\ SameKeys(s, u)
  BY <1>3, <1>4, <1>7, NewInv DEF SameKeys
<1>9. ~HasKey(u, key)
  BY <1>8 DEF SameKeys
<1>10. /\ MgrInv(t, start, junk)
       /\ AddDone(u, t, key, i, 0)
       /\ \A l : PrefixAt(u, l) => PrefixAt(t, l)
       /\ AttachDone(u, t, i, <<Bh(u, i, key, size, a)>>, AttachedOff(u, i, size, a),
                     Extended(u, i, size, a, 0))
  BY <1>1, <1>2, <1>3, <1>4, <1>5, <1>9, AddInv
<1>11. /\ u.nr = s.nr + 1 /\ u.tail_blkaddr = s.tail_blkaddr
       /\ u.bb[i].blkaddr = NULL_ADDR /\ u.bb[i].off = 0 /\ u.bb[i].bhs = << >>
       /\ Len(u.list) = Len(s.list) + 1 /\ u.list[NewPos(s, ty)] = i
  BY <1>3, <1>8 DEF NewDone, Inserted
<1>12. RoundUp(0, a) = 0
  BY <1>4, RoundUpNone DEF Divisor
<1>13. h.off = 0 /\ AttachedOff(u, i, size, a) = size
  BY <1>11, <1>12 DEF Bh, AttachedOff
<1>14. ~Extended(u, i, size, a, 0)
  BY <1>11 DEF Extended, Mapped
<1>15. /\ TypeInv(t) /\ t.list = u.list /\ t.nr = u.nr
       /\ t.bb[i].blkaddr = NULL_ADDR
       /\ t.bb[i].off = size
       /\ t.bb[i].bhs = << >> \o <<h>>
       /\ t.tail_blkaddr = s.tail_blkaddr
  BY <1>10, <1>11, <1>13, <1>14 DEF AttachDone
<1> HIDE DEF h
<1>16. t.bb[i].bhs = <<h>>
  BY <1>15
<1>17. Len(t.bb[i].bhs) = 1 /\ t.bb[i].bhs[1] = h
  BY <1>16
<1>18. At(t, key, i, 1)
  BY <1>10, <1>17 DEF AddDone, LastOf
<1>19. NextAddr(t, i) = NULL_ADDR
  <2>1. NewPos(s, ty) \in 1..(Len(s.list) + 1) /\ NewPos(s, ty) > k
    BY <1>4, <1>6, <1>7, NewPosIs
  <2> DEFINE p == NewPos(s, ty)
  <2>2. p \in 1..Len(t.list) /\ t.list[p] = i
    BY <1>11, <1>15, <2>1
  <2>3. PrefixAt(t, k)
    BY <1>7, <1>8, <1>10
  <2>4. k \in Int /\ p \in Int
    BY <1>6, <1>7, <2>1, ListUse DEF PrefixAt
  <2> HIDE DEF p
  <2>5. p >= k
    BY <2>1, <2>4 DEF p
  <2> QED
    BY <1>15, <2>2, <2>3, <2>5, NextIs
<1>191. h.off + h.len = size
  BY <1>13 DEF h, Bh
<1>20. Growable(t, key, i, size) /\ ~Mapped(t, i)
  BY <1>15, <1>17, <1>18, <1>19, <1>191 DEF Growable, Mapped
<1>21. Changed(s, t, {key})
  <2>1. Changed(s, u, {}) /\ Changed(u, t, {key})
    BY <1>8, <1>10, ChangedNone DEF AddDone
  <2>2. Changed(s, t, {} \cup {key})
    BY <1>6, <2>1, ChangedTrans
  <2> QED
    BY <2>2, ChangedMore
<1>22. FreshDone(s, t, key, t.nr, size, ty)
  BY <1>3, <1>11, <1>13, <1>15, <1>17, <1>20, <1>21 DEF FreshDone
<1> QED
  BY <1>3, <1>8, <1>10, <1>22 DEF ty

(* Where a key is. *)
LEMMA KeyAt ==
  ASSUME NEW s, TypeInv(s), NEW key
  PROVE  /\ HasKey(s, key) => \E i \in 1..s.nr, n \in Nat : At(s, key, i, n)
         /\ \A i, n : At(s, key, i, n) => /\ HasKey(s, key) /\ i \in 1..s.nr /\ n \in Nat
                                          /\ On(s, i)
<1>1. ASSUME NEW i, NEW n, At(s, key, i, n)
      PROVE  /\ HasKey(s, key) /\ i \in 1..s.nr /\ n \in Nat /\ On(s, i)
  <2>1. On(s, i) /\ i \in 1..s.nr
    BY <1>1, TypeUse DEF At
  <2>2. n \in Nat
    <3>1. s.bb[i].bhs \in Seq(BhSet)
      BY <2>1, TypeUse, BlockUse
    <3> QED
      BY <1>1, <3>1 DEF At
  <2> QED
    BY <1>1, <2>1, <2>2 DEF HasKey
<1> QED
  BY <1>1 DEF HasKey

(* erofs_mapbh of a bh; nothing moves. *)
LEMMA MapInv ==
  ASSUME NEW s, NEW start, NEW junk, MgrInv(s, start, junk), NEW key \in KeySet,
         NEW i, NEW n, At(s, key, i, n), NEW t, t = Map(s, key)
  PROVE  /\ MgrInv(t, start, junk) /\ OnlyMapped(s, t) /\ Mapped(t, i)
         /\ Changed(s, t, {}) /\ At(t, key, i, n)
         /\ PrefixAt(s, Len(s.list)) => t = s
<1>1. TypeInv(s) /\ KeyInv(s)
  BY DEF MgrInv
<1>2. BlockOf(s, key) = i /\ i \in 1..s.nr /\ On(s, i)
  BY <1>1, BlockIs, KeyAt
<1>3. PICK p \in 1..Len(s.list) : s.list[p] = i
  BY <1>1, <1>2, ListUse
<1>4. PICK k : PrefixAt(s, k)
  BY DEF MgrInv, PrefixInv
<1>5. t = MapBb(s, s.list[p])
  BY <1>2, <1>3 DEF Map
<1>6. MgrInv(t, start, junk) /\ OnlyMapped(s, t) /\ Mapped(t, i)
  BY <1>3, <1>4, <1>5, MapBbInv
<1>7. PrefixAt(s, Len(s.list)) => t = s
  <2>1. p <= Len(s.list)
    BY <1>1, ListUse
  <2> QED
    BY <1>5, <2>1, MapBbInv
<1>8. Changed(s, t, {})
  BY <1>6, ChangedNone DEF OnlyMapped
<1>9. At(t, key, i, n)
  BY <1>2, <1>6 DEF OnlyMapped, At, On
<1> QED
  BY <1>6, <1>7, <1>8, <1>9

(* A bh with a bb of its own at the end of the image. *)
AtEnd(s, key, off) ==
  \E i : Growable(s, key, i, off) /\ Mapped(s, i)

(* erofs_balloc and erofs_mapbh of blocks *)
LEMMA FreshMapInv ==
  ASSUME NEW s, NEW start, NEW junk, MgrInv(s, start, junk), NEW what \in Whats,
         NEW size \in Nat, Fresh(what, size, 0), ~InlineTooBig(size, 0),
         NEW key \in KeySet, ~HasKey(s, key),
         NEW r, r = Balloc(s, what, size, 0, key), NEW t, t = Map(r.m, key)
  PROVE  /\ r.err = "ok" /\ MgrInv(t, start, junk)
         /\ Changed(s, t, {key}) /\ AtEnd(t, key, size)
         /\ StoredType(what) # "DATA" => PrefixAt(t, Len(t.list))
<1> DEFINE u == r.m
           i == u.nr
           p == NewPos(s, StoredType(what))
<1>1. /\ r.err = "ok" /\ MgrInv(u, start, junk)
      /\ FreshDone(s, u, key, i, size, StoredType(what))
      /\ \A k : PrefixAt(s, k) => PrefixAt(u, k)
  BY FreshInv
<1>2. StoredType(what) \in Types
  BY StoredIs
<1>3. PICK k : PrefixAt(s, k)
  BY DEF MgrInv, PrefixInv
<1>4. TypeInv(s) /\ TypeInv(u) /\ KeyInv(u)
  BY <1>1 DEF MgrInv
<1>5. /\ p \in 1..(Len(s.list) + 1) /\ p > k
      /\ StoredType(what) # "DATA" => p = Len(s.list) + 1
  BY <1>2, <1>3, <1>4, NewPosIs
<1> HIDE DEF u, i, p
<1>6. /\ Changed(s, u, {key}) /\ Growable(u, key, i, size)
      /\ Len(u.list) = Len(s.list) + 1 /\ u.list[p] = i
  BY <1>1 DEF FreshDone, p
<1>7. /\ At(u, key, i, 1) /\ Len(u.bb[i].bhs) = 1 /\ u.bb[i].off = size
      /\ u.bb[i].bhs[1].off + u.bb[i].bhs[1].len = size
  BY <1>6 DEF Growable
<1>8. BlockOf(u, key) = i
  BY <1>4, <1>7, BlockIs
<1>9. p \in 1..Len(u.list) /\ t = MapBb(u, u.list[p]) /\ PrefixAt(u, k)
  BY <1>1, <1>3, <1>5, <1>6, <1>8 DEF Map, u
<1>10. /\ MgrInv(t, start, junk) /\ OnlyMapped(u, t)
       /\ Mapped(t, i) /\ PrefixAt(t, p) /\ t.tail_blkaddr = EndBlk(t, i)
  BY <1>1, <1>5, <1>6, <1>9, MapBbInv
<1>11. /\ t.list = u.list /\ i \in 1..u.nr
       /\ t.bb[i].bhs = u.bb[i].bhs /\ t.bb[i].off = u.bb[i].off
  BY <1>4, <1>7, <1>10, KeyAt DEF OnlyMapped
<1>12. NextAddr(t, i) = NULL_ADDR
  <2>1. TypeInv(t) /\ p \in 1..Len(t.list) /\ t.list[p] = i
    BY <1>6, <1>9, <1>10, <1>11 DEF MgrInv
  <2>2. p >= p
    BY <1>5
  <2> QED
    BY <1>10, <2>1, <2>2, NextIs
<1>13. At(t, key, i, 1)
  BY <1>7, <1>11 DEF At, On
<1>14. Growable(t, key, i, size)
  BY <1>7, <1>10, <1>11, <1>12, <1>13 DEF Growable
<1>15. Changed(s, t, {key})
  <2>1. Changed(u, t, {})
    BY <1>10, ChangedNone DEF OnlyMapped
  <2>2. Changed(s, t, {key} \cup {})
    BY <1>4, <1>6, <2>1, ChangedTrans
  <2> QED
    BY <2>2, ChangedMore
<1> QED
  BY <1>1, <1>5, <1>6, <1>10, <1>11, <1>14, <1>15 DEF AtEnd
-----------------------------------------------------------------------------
(* Where the bhs of a bb lie in it *)

(* Two bhs do not overlap; the bhs q lie in the first off units of their   *)
(* bb, none over another.                                                  *)
Apart(h, g) == h.off + h.len <= g.off \/ g.off + g.len <= h.off
FitsIn(q, off) ==
  /\ \A n \in 1..Len(q) : q[n].off + q[n].len <= off
  /\ \A n, l \in 1..Len(q) : n # l => Apart(q[n], q[l])
FitInv(s) == \A i : On(s, i) => FitsIn(s.bb[i].bhs, s.bb[i].off)

(* The units lo to hi of bb i belonged to a bh that is gone: they are part *)
(* of the bb, and of no bh of it.                                          *)
Clear(q, lo, hi) == \A n \in 1..Len(q) : hi <= q[n].off \/ q[n].off + q[n].len <= lo
Spent(s, i, lo, hi) ==
  /\ lo \in Nat /\ hi \in Nat /\ lo < hi /\ hi <= s.bb[i].off
  /\ On(s, i) => Clear(s.bb[i].bhs, lo, hi)

(* What was spent is where it was, and is not used again. *)
SpentStays(s, t, i) ==
  \A lo, hi : Spent(s, i, lo, hi) =>
    Mapped(t, i) /\ t.bb[i].blkaddr = s.bb[i].blkaddr /\ Spent(t, i, lo, hi)
SpentKept(s, t) ==
  /\ s.nr <= t.nr
  /\ \A i \in 1..s.nr : Mapped(s, i) => SpentStays(s, t, i)
SpaceDone(s, t) == FitInv(t) /\ SpentKept(s, t)

(* Nothing is used again when nothing happens. *)
LEMMA SpaceSelf ==
  ASSUME NEW s, TypeInv(s), FitInv(s)
  PROVE  SpaceDone(s, s)
<1>1. s.nr \in Nat
  BY TypeUse
<1> QED
  BY <1>1 DEF SpaceDone, SpentKept, SpentStays

(* Steps that use nothing again compose. *)
LEMMA SpaceTrans ==
  ASSUME NEW s, NEW t, NEW u, TypeInv(s), TypeInv(t), TypeInv(u),
         SpaceDone(s, t), SpaceDone(t, u)
  PROVE  SpaceDone(s, u)
<1>1. s.nr \in Nat /\ t.nr \in Nat /\ u.nr \in Nat /\ s.nr <= t.nr /\ t.nr <= u.nr
  BY TypeUse DEF SpaceDone, SpentKept
<1>2. ASSUME NEW i \in 1..s.nr, Mapped(s, i), NEW lo, NEW hi, Spent(s, i, lo, hi)
      PROVE  Mapped(u, i) /\ u.bb[i].blkaddr = s.bb[i].blkaddr /\ Spent(u, i, lo, hi)
  <2>1. i \in 1..t.nr
    BY <1>1
  <2>2. Mapped(t, i) /\ t.bb[i].blkaddr = s.bb[i].blkaddr /\ Spent(t, i, lo, hi)
    BY <1>2 DEF SpaceDone, SpentKept, SpentStays
  <2>3. Mapped(u, i) /\ u.bb[i].blkaddr = t.bb[i].blkaddr /\ Spent(u, i, lo, hi)
    BY <2>1, <2>2 DEF SpaceDone, SpentKept, SpentStays
  <2> QED
    BY <2>2, <2>3
<1>3. SpentKept(s, u)
  <2>1. s.nr <= u.nr
    BY <1>1
  <2> QED
    BY <1>2, <2>1 DEF SpentKept, SpentStays
<1> QED
  BY <1>3 DEF SpaceDone

(* Bhs are taken away or marked, and bbs mapped or given up.               *)
SameSpot(h, g) == h.key = g.key /\ h.off = g.off /\ h.len = g.len
DrawnFrom(q, c) == \A n \in 1..Len(q) : \E l \in 1..Len(c) : SameSpot(q[n], c[l])
Thins(s, t) ==
  /\ t.nr = s.nr
  /\ \A i \in 1..s.nr : /\ t.bb[i].off = s.bb[i].off
                        /\ Mapped(s, i) => t.bb[i].blkaddr = s.bb[i].blkaddr
                        /\ On(t, i) => On(s, i) /\ DrawnFrom(t.bb[i].bhs, s.bb[i].bhs)

(* Taking bhs away uses nothing again. *)
LEMMA ThinsSpace ==
  ASSUME NEW s, NEW t, TypeInv(s), TypeInv(t), KeyInv(t), FitInv(s), Thins(s, t)
  PROVE  SpaceDone(s, t)
<1>1. t.nr = s.nr /\ s.nr \in Nat
  BY TypeUse DEF Thins
<1>2. ASSUME NEW i, On(t, i)
      PROVE  FitsIn(t.bb[i].bhs, t.bb[i].off)
  <2> DEFINE q == t.bb[i].bhs
             c == s.bb[i].bhs
  <2>1. i \in 1..s.nr
    BY <1>1, <1>2, TypeUse
  <2>2. t.bb[i].off = s.bb[i].off /\ On(s, i) /\ DrawnFrom(q, c)
    BY <1>2, <2>1 DEF Thins
  <2>3. FitsIn(c, s.bb[i].off)
    BY <2>2 DEF FitInv
  <2>4. q \in Seq(BhSet)
    BY <1>1, <2>1, TypeUse, BlockUse
  <2>5. ASSUME NEW n \in 1..Len(q), NEW l \in 1..Len(q), q[n].key = q[l].key
        PROVE  n = l
    <3>1. At(t, q[n].key, i, n) /\ At(t, q[n].key, i, l)
      BY <1>2, <2>5 DEF At
    <3>2. q[n].key \in KeySet /\ n \in Nat /\ l \in Nat
      <4>1. q[n] \in BhSet
        BY <2>4
      <4> QED
        BY <2>4, <4>1 DEF BhSet
    <3> QED
      BY <1>1, <2>1, <3>1, <3>2 DEF KeyInv
  <2> HIDE DEF q, c
  <2>6. ASSUME NEW n \in 1..Len(q)
        PROVE  q[n].off + q[n].len <= s.bb[i].off
    <3>1. PICK l \in 1..Len(c) : SameSpot(q[n], c[l])
      BY <2>2 DEF DrawnFrom
    <3> QED
      BY <2>3, <3>1 DEF FitsIn, SameSpot
  <2>7. ASSUME NEW n \in 1..Len(q), NEW l \in 1..Len(q), n # l
        PROVE  Apart(q[n], q[l])
    <3>1. PICK x \in 1..Len(c) : SameSpot(q[n], c[x])
      BY <2>2 DEF DrawnFrom
    <3>2. PICK y \in 1..Len(c) : SameSpot(q[l], c[y])
      BY <2>2 DEF DrawnFrom
    <3>3. x # y
      BY <2>5, <2>7, <3>1, <3>2 DEF SameSpot
    <3>4. Apart(c[x], c[y])
      BY <2>3, <3>3 DEF FitsIn
    <3> QED
      BY <3>1, <3>2, <3>4 DEF Apart, SameSpot
  <2>8. FitsIn(q, s.bb[i].off)
    BY <2>6, <2>7 DEF FitsIn
  <2> QED
    BY <2>2, <2>8 DEF q
<1>3. ASSUME NEW i \in 1..s.nr, Mapped(s, i), NEW lo, NEW hi, Spent(s, i, lo, hi)
      PROVE  Mapped(t, i) /\ t.bb[i].blkaddr = s.bb[i].blkaddr /\ Spent(t, i, lo, hi)
  <2>1. t.bb[i].off = s.bb[i].off /\ t.bb[i].blkaddr = s.bb[i].blkaddr
    BY <1>3 DEF Thins
  <2>2. ASSUME On(t, i)
        PROVE  Clear(t.bb[i].bhs, lo, hi)
    <3> DEFINE q == t.bb[i].bhs
               c == s.bb[i].bhs
    <3>1. DrawnFrom(q, c) /\ Clear(c, lo, hi)
      BY <1>3, <2>2 DEF Thins, Spent
    <3> HIDE DEF q, c
    <3>2. ASSUME NEW n \in 1..Len(q)
          PROVE  hi <= q[n].off \/ q[n].off + q[n].len <= lo
      <4>1. PICK l \in 1..Len(c) : SameSpot(q[n], c[l])
        BY <3>1 DEF DrawnFrom
      <4> QED
        BY <3>1, <4>1 DEF Clear, SameSpot
    <3>3. Clear(q, lo, hi)
      BY <3>2 DEF Clear
    <3> QED
      BY <3>3 DEF q
  <2> QED
    BY <1>3, <2>1, <2>2 DEF Spent, Mapped
<1>4. SpentKept(s, t)
  BY <1>1, <1>3 DEF SpentKept, SpentStays
<1> QED
  BY <1>2, <1>4 DEF SpaceDone, FitInv

(* Every bh of a bb is one of its bhs. *)
LEMMA DrawnSelf ==
  ASSUME NEW q
  PROVE  DrawnFrom(q, q)
BY DEF DrawnFrom, SameSpot

(* Mapping. *)
LEMMA MapSpace ==
  ASSUME NEW s, NEW t, TypeInv(s), TypeInv(t), KeyInv(t), FitInv(s), OnlyMapped(s, t)
  PROVE  SpaceDone(s, t)
<1>1. Thins(s, t)
  <2>1. /\ t.nr = s.nr /\ t.list = s.list
        /\ \A i \in 1..s.nr : /\ t.bb[i].off = s.bb[i].off /\ t.bb[i].bhs = s.bb[i].bhs
                              /\ Mapped(s, i) => t.bb[i].blkaddr = s.bb[i].blkaddr
    BY DEF OnlyMapped
  <2>2. \A i : On(t, i) <=> On(s, i)
    BY <2>1 DEF On
  <2>3. \A i \in 1..s.nr : DrawnFrom(t.bb[i].bhs, s.bb[i].bhs)
    BY <2>1, DrawnSelf
  <2> QED
    BY <2>1, <2>2, <2>3 DEF Thins
<1> QED
  BY <1>1, ThinsSpace

(* A flush. *)
LEMMA FlushSpace ==
  ASSUME NEW s, NEW t, TypeInv(s), TypeInv(t), KeyInv(t), FitInv(s), FlushDone(s, t)
  PROVE  SpaceDone(s, t)
<1>1. Thins(s, t)
  <2>1. /\ t.nr = s.nr
        /\ \A i \in 1..s.nr : /\ t.bb[i].off = s.bb[i].off
                              /\ Mapped(s, i) => t.bb[i].blkaddr = s.bb[i].blkaddr
    BY DEF FlushDone, SameSizes
  <2>2. ASSUME NEW i \in 1..s.nr, On(t, i)
        PROVE  On(s, i) /\ DrawnFrom(t.bb[i].bhs, s.bb[i].bhs)
    <3>1. On(s, i) /\ LeftOver(s, t, i)
      BY <2>2 DEF FlushDone
    <3>2. \A n \in 1..Len(t.bb[i].bhs) :
            \E l \in 1..Len(s.bb[i].bhs) : t.bb[i].bhs[n] = s.bb[i].bhs[l]
      BY <3>1 DEF LeftOver
    <3>3. DrawnFrom(t.bb[i].bhs, s.bb[i].bhs)
      BY <3>2 DEF DrawnFrom, SameSpot
    <3> QED
      BY <3>1, <3>3
  <2> QED
    BY <2>1, <2>2 DEF Thins
<1> QED
  BY <1>1, ThinsSpace

(* A bh is marked. *)
LEMMA MarkSpace ==
  ASSUME NEW s, NEW t, TypeInv(s), TypeInv(t), KeyInv(t), FitInv(s), NEW i \in 1..s.nr,
         NEW n \in 1..Len(s.bb[i].bhs), NEW h, SameSpot(h, s.bb[i].bhs[n]),
         BhsDone(s, t, i, [s.bb[i].bhs EXCEPT ![n] = h])
  PROVE  SpaceDone(s, t)
<1> DEFINE c == s.bb[i].bhs
           q == [c EXCEPT ![n] = h]
<1>1. /\ t.nr = s.nr /\ t.list = s.list /\ t.bb[i].bhs = q
      /\ \A k \in 1..s.nr : /\ t.bb[k].off = s.bb[k].off
                            /\ t.bb[k].blkaddr = s.bb[k].blkaddr
                            /\ k # i => t.bb[k] = s.bb[k]
  BY DEF BhsDone, SameBlocks
<1>2. c \in Seq(BhSet) /\ n \in 1..Len(c)
  BY TypeUse, BlockUse
<1>3. Len(q) = Len(c) /\ \A l \in 1..Len(c) : q[l] = IF l = n THEN h ELSE c[l]
  <2> HIDE DEF c
  <2> QED
    BY <1>2
<1>4. SameSpot(h, c[n])
  OBVIOUS
<1> HIDE DEF q, c
<1>5. DrawnFrom(q, c)
  BY <1>2, <1>3, <1>4 DEF DrawnFrom, SameSpot
<1>6. \A k \in 1..s.nr : DrawnFrom(t.bb[k].bhs, s.bb[k].bhs)
  <2>1. \A k \in 1..s.nr : k # i => DrawnFrom(t.bb[k].bhs, s.bb[k].bhs)
    BY <1>1, DrawnSelf
  <2>2. DrawnFrom(t.bb[i].bhs, s.bb[i].bhs)
    BY <1>1, <1>5 DEF c
  <2> QED
    BY <2>1, <2>2
<1>7. \A k : On(t, k) <=> On(s, k)
  BY <1>1 DEF On
<1>8. Thins(s, t)
  BY <1>1, <1>6, <1>7 DEF Thins
<1> QED
  BY <1>8, ThinsSpace

(* A bh is dropped; if it held something, its units are spent then. *)
LEMMA DropSpace ==
  ASSUME NEW s, NEW t, TypeInv(s), TypeInv(t), KeyInv(t), FitInv(s), NEW i, On(s, i),
         NEW n \in 1..Len(s.bb[i].bhs), DropDone(s, t, i, n), s.bb[i].bhs[n].len # 0
  PROVE  Spent(t, i, s.bb[i].bhs[n].off, s.bb[i].bhs[n].off + s.bb[i].bhs[n].len)
<1> DEFINE c == s.bb[i].bhs
           h == c[n]
           q == t.bb[i].bhs
<1>1. i \in 1..s.nr /\ c \in Seq(BhSet) /\ n \in 1..Len(c) /\ h \in BhSet
  BY TypeUse, BlockUse
<1>2. t.bb[i].off = s.bb[i].off /\ q = RemoveAt(c, n)
  BY <1>1 DEF DropDone
<1>3. FitsIn(c, s.bb[i].off)
  BY DEF FitInv
<1>4. h.off \in Nat /\ h.len \in Nat /\ h.len # 0
  BY <1>1 DEF BhSet
<1> HIDE DEF c, q
<1>5. Len(q) = Len(c) - 1 /\ \A l \in 1..Len(q) : q[l] = IF l < n THEN c[l] ELSE c[l + 1]
  <2>1. Removed(c, q, n) /\ q \in Seq(BhSet) /\ Len(c) \in Nat
    BY <1>1, <1>2, RemoveAtIs
  <2> QED
    BY <1>1, <2>1 DEF Removed
<1>6. ASSUME NEW l \in 1..Len(q)
      PROVE  h.off + h.len <= q[l].off \/ q[l].off + q[l].len <= h.off
  <2>1. PICK x \in 1..Len(c) : x # n /\ q[l] = c[x]
    <3>1. CASE l < n
      BY <1>1, <1>5, <3>1
    <3>2. CASE ~(l < n)
      <4>1. l + 1 \in 1..Len(c) /\ l + 1 # n
        BY <1>1, <1>5, <3>2
      <4> QED
        BY <1>5, <3>2, <4>1
    <3> QED
      BY <3>1, <3>2
  <2>2. Apart(h, c[x])
    BY <1>1, <1>3, <2>1 DEF FitsIn
  <2> QED
    BY <2>1, <2>2 DEF Apart
<1>7. h.off + h.len <= t.bb[i].off
  BY <1>1, <1>2, <1>3 DEF FitsIn
<1>8. Clear(q, h.off, h.off + h.len)
  BY <1>6 DEF Clear
<1> HIDE DEF h
<1>9. h.off \in Nat /\ h.off + h.len \in Nat /\ h.off < h.off + h.len
  BY <1>4
<1>10. Spent(t, i, h.off, h.off + h.len)
  BY <1>7, <1>8, <1>9 DEF Spent, q
<1> QED
  BY <1>10 DEF h, c

(* erofs_bdrop takes one bh away. *)
LEMMA DropThins ==
  ASSUME NEW s, NEW t, TypeInv(s), TypeInv(t), KeyInv(t), FitInv(s), NEW i, On(s, i),
         NEW n \in 1..Len(s.bb[i].bhs), DropDone(s, t, i, n)
  PROVE  SpaceDone(s, t)
<1> DEFINE c == s.bb[i].bhs
           q == t.bb[i].bhs
<1>1. i \in 1..s.nr /\ c \in Seq(BhSet) /\ n \in 1..Len(c)
  BY TypeUse, BlockUse
<1>2. /\ t.nr = s.nr /\ q = RemoveAt(c, n)
      /\ \A k \in 1..s.nr : /\ t.bb[k].blkaddr = s.bb[k].blkaddr
                            /\ t.bb[k].off = s.bb[k].off
                            /\ k # i => t.bb[k] = s.bb[k]
      /\ \A y : On(t, y) => On(s, y)
  BY <1>1 DEF DropDone
<1> HIDE DEF c, q
<1>3. DrawnFrom(q, c)
  <2>1. Removed(c, q, n) /\ q \in Seq(BhSet) /\ Len(c) \in Nat
    BY <1>1, <1>2, RemoveAtIs
  <2>2. \A l \in 1..Len(q) : \E x \in 1..Len(c) : q[l] = c[x]
    BY <1>1, <2>1 DEF Removed
  <2> QED
    BY <2>2 DEF DrawnFrom, SameSpot
<1>4. \A k \in 1..s.nr : DrawnFrom(t.bb[k].bhs, s.bb[k].bhs)
  <2>1. \A k \in 1..s.nr : k # i => DrawnFrom(t.bb[k].bhs, s.bb[k].bhs)
    BY <1>2, DrawnSelf
  <2>2. DrawnFrom(t.bb[i].bhs, s.bb[i].bhs)
    BY <1>3 DEF c, q
  <2> QED
    BY <2>1, <2>2
<1>5. Thins(s, t)
  BY <1>2, <1>4 DEF Thins
<1> QED
  BY <1>5, ThinsSpace

(* Nothing was spent in a bb that is empty. *)
LEMMA RevokeSpace ==
  ASSUME NEW s, NEW t, TypeInv(s), TypeInv(t), FitInv(s), NEW i \in 1..s.nr,
         s.bb[i].off = 0, RevokeDone(s, t, i)
  PROVE  SpaceDone(s, t)
<1>1. /\ t.nr = s.nr /\ s.nr \in Nat
      /\ \A k \in 1..s.nr : k # i => t.bb[k] = s.bb[k]
      /\ \A y : On(t, y) <=> On(s, y) /\ y # i
  BY TypeUse DEF RevokeDone
<1>2. FitInv(t)
  <2>1. ASSUME NEW k, On(t, k)
        PROVE  FitsIn(t.bb[k].bhs, t.bb[k].off)
    <3>1. k # i /\ On(s, k) /\ k \in 1..s.nr
      BY <1>1, <2>1, TypeUse
    <3> QED
      BY <1>1, <3>1 DEF FitInv
  <2> QED
    BY <2>1 DEF FitInv
<1>3. ASSUME NEW k \in 1..s.nr, Mapped(s, k), NEW lo, NEW hi, Spent(s, k, lo, hi)
      PROVE  Mapped(t, k) /\ t.bb[k].blkaddr = s.bb[k].blkaddr /\ Spent(t, k, lo, hi)
  <2>1. k # i
    <3>1. ~Spent(s, i, lo, hi)
      BY DEF Spent
    <3> QED
      BY <1>3, <3>1
  <2> QED
    BY <1>1, <1>3, <2>1 DEF Mapped, Spent
<1>4. SpentKept(s, t)
  BY <1>1, <1>3 DEF SpentKept, SpentStays
<1> QED
  BY <1>2, <1>4 DEF SpaceDone

(* A new bb is empty. *)
LEMMA NewSpace ==
  ASSUME NEW s, NEW t, TypeInv(s), TypeInv(t), FitInv(s), NEW ty,
         NEW pos \in 1..(Len(s.list) + 1), NewDone(s, t, ty, pos)
  PROVE  SpaceDone(s, t)
<1>1. /\ t.nr = s.nr + 1 /\ s.nr \in Nat
      /\ \A k \in 1..s.nr : t.bb[k] = s.bb[k]
      /\ t.bb[t.nr].off = 0 /\ t.bb[t.nr].bhs = << >>
      /\ Inserted(s.list, t.list, pos, t.nr)
  BY TypeUse DEF NewDone
<1>2. ASSUME NEW y \in 1..s.nr
      PROVE  On(t, y) <=> On(s, y)
  <2>1. /\ Len(s.list) \in Nat /\ Len(t.list) = Len(s.list) + 1
        /\ t.list[pos] = t.nr
        /\ \A n \in 1..(pos - 1) : t.list[n] = s.list[n]
        /\ \A n \in (pos + 1)..(Len(s.list) + 1) : t.list[n] = s.list[n - 1]
    BY <1>1, ListUse DEF Inserted
  <2>2. y # t.nr
    BY <1>1
  <2>3. ASSUME NEW p \in 1..Len(t.list), t.list[p] = y
        PROVE  On(s, y)
    <3>1. CASE p < pos
      BY <2>1, <2>3, <3>1 DEF On, Has
    <3>2. CASE p = pos
      BY <2>1, <2>2, <2>3, <3>2
    <3>3. CASE p > pos
      <4>1. p - 1 \in 1..Len(s.list) /\ s.list[p - 1] = y
        BY <2>1, <2>3, <3>3
      <4> QED
        BY <4>1 DEF On, Has
    <3> QED
      BY <2>1, <3>1, <3>2, <3>3
  <2>4. ASSUME NEW p \in 1..Len(s.list), s.list[p] = y
        PROVE  On(t, y)
    <3>1. CASE p < pos
      <4>1. p \in 1..Len(t.list) /\ t.list[p] = y
        BY <2>1, <2>4, <3>1
      <4> QED
        BY <4>1 DEF On, Has
    <3>2. CASE p >= pos
      <4>1. p + 1 \in (pos + 1)..(Len(s.list) + 1) /\ p + 1 - 1 = p
        BY <2>1, <3>2
      <4>2. p + 1 \in 1..Len(t.list) /\ t.list[p + 1] = y
        BY <2>1, <2>4, <4>1
      <4> QED
        BY <4>2 DEF On, Has
    <3> QED
      BY <2>1, <3>1, <3>2
  <2> QED
    BY <2>3, <2>4 DEF On, Has
<1>3. FitInv(t)
  <2>1. ASSUME NEW k, On(t, k)
        PROVE  FitsIn(t.bb[k].bhs, t.bb[k].off)
    <3>1. k \in 1..t.nr
      BY <2>1, TypeUse
    <3>2. CASE k = t.nr
      <4>1. Len(t.bb[k].bhs) = 0
        BY <1>1, <3>2
      <4> QED
        BY <4>1 DEF FitsIn
    <3>3. CASE k # t.nr
      <4>1. k \in 1..s.nr
        BY <1>1, <3>1, <3>3
      <4> QED
        BY <1>1, <1>2, <2>1, <4>1 DEF FitInv
    <3> QED
      BY <3>2, <3>3
  <2> QED
    BY <2>1 DEF FitInv
<1>4. ASSUME NEW k \in 1..s.nr, Mapped(s, k), NEW lo, NEW hi, Spent(s, k, lo, hi)
      PROVE  Mapped(t, k) /\ t.bb[k].blkaddr = s.bb[k].blkaddr /\ Spent(t, k, lo, hi)
  BY <1>1, <1>2, <1>4 DEF Mapped, Spent
<1>5. SpentKept(s, t)
  BY <1>1, <1>4 DEF SpentKept, SpentStays
<1> QED
  BY <1>3, <1>5 DEF SpaceDone

(* One bb grows: its new bhs lie in it, and clear of what was spent.       *)
BbGrows(s, t, i) ==
  /\ t.nr = s.nr /\ t.list = s.list
  /\ \A k \in 1..s.nr : k # i => t.bb[k] = s.bb[k]
  /\ t.bb[i].blkaddr = s.bb[i].blkaddr /\ s.bb[i].off <= t.bb[i].off
  /\ FitsIn(t.bb[i].bhs, t.bb[i].off)
  /\ \A lo, hi \in Nat : lo < hi /\ hi <= s.bb[i].off /\ Clear(s.bb[i].bhs, lo, hi)
                         => Clear(t.bb[i].bhs, lo, hi)

(* Growing one bb behind its bhs uses nothing again. *)
LEMMA GrowsSpace ==
  ASSUME NEW s, NEW t, TypeInv(s), TypeInv(t), FitInv(s), NEW i, On(s, i), BbGrows(s, t, i)
  PROVE  SpaceDone(s, t)
<1>1. /\ t.nr = s.nr /\ s.nr \in Nat /\ i \in 1..s.nr
      /\ \A k \in 1..s.nr : k # i => t.bb[k] = s.bb[k]
      /\ t.bb[i].blkaddr = s.bb[i].blkaddr /\ s.bb[i].off <= t.bb[i].off
      /\ FitsIn(t.bb[i].bhs, t.bb[i].off)
  BY TypeUse DEF BbGrows
<1>2. \A y : On(t, y) <=> On(s, y)
  BY DEF On, BbGrows
<1>3. FitInv(t)
  <2>1. ASSUME NEW k, On(t, k)
        PROVE  FitsIn(t.bb[k].bhs, t.bb[k].off)
    <3>1. k \in 1..s.nr /\ On(s, k)
      BY <1>2, <2>1, TypeUse
    <3> QED
      BY <1>1, <3>1 DEF FitInv
  <2> QED
    BY <2>1 DEF FitInv
<1>4. ASSUME NEW k \in 1..s.nr, Mapped(s, k), NEW lo, NEW hi, Spent(s, k, lo, hi)
      PROVE  Mapped(t, k) /\ t.bb[k].blkaddr = s.bb[k].blkaddr /\ Spent(t, k, lo, hi)
  <2>1. CASE k # i
    BY <1>1, <1>2, <1>4, <2>1 DEF Mapped, Spent
  <2>2. CASE k = i
    <3>1. /\ lo \in Nat /\ hi \in Nat /\ lo < hi /\ hi <= s.bb[i].off
          /\ Clear(s.bb[i].bhs, lo, hi)
      BY <1>4, <2>2 DEF Spent
    <3>2. Clear(t.bb[i].bhs, lo, hi)
      BY <3>1 DEF BbGrows
    <3>3. hi <= t.bb[i].off
      <4>1. s.bb[i].off \in Nat /\ t.bb[i].off \in Nat
        BY <1>1, EndUse
      <4> QED
        BY <1>1, <3>1, <4>1
    <3> QED
      BY <1>1, <1>4, <2>2, <3>1, <3>2, <3>3 DEF Mapped, Spent
  <2> QED
    BY <2>1, <2>2
<1>5. SpentKept(s, t)
  BY <1>1, <1>4 DEF SpentKept, SpentStays
<1> QED
  BY <1>3, <1>5 DEF SpaceDone

(* A bh behind those of its bb. *)
LEMMA AttachSpace ==
  ASSUME NEW s, NEW t, TypeInv(s), FitInv(s), NEW i, On(s, i), NEW h \in BhSet,
         NEW off \in Nat, NEW ext, AttachDone(s, t, i, <<h>>, off, ext),
         s.bb[i].off <= h.off, h.off + h.len = off
  PROVE  SpaceDone(s, t)
<1> DEFINE c == s.bb[i].bhs
           o == s.bb[i].off
           q == t.bb[i].bhs
<1>1. i \in 1..s.nr /\ c \in Seq(BhSet) /\ o \in Nat /\ Len(c) \in Nat
  BY TypeUse, BlockUse
<1>2. /\ TypeInv(t) /\ t.nr = s.nr /\ t.list = s.list
      /\ \A k \in 1..s.nr : k # i => t.bb[k] = s.bb[k]
      /\ t.bb[i].blkaddr = s.bb[i].blkaddr
      /\ t.bb[i].off = off /\ q = c \o <<h>>
  BY <1>1 DEF AttachDone
<1>3. FitsIn(c, o)
  BY DEF FitInv
<1>4. h.off \in Nat /\ h.len \in Nat /\ o <= h.off /\ o <= off
  <2>1. h.off \in Nat /\ h.len \in Nat
    BY DEF BhSet
  <2> QED
    BY <1>1, <2>1
<1> HIDE DEF c, o, q
<1>5. Len(q) = Len(c) + 1 /\ \A n \in 1..Len(q) : q[n] = IF n <= Len(c) THEN c[n] ELSE h
  BY <1>1, <1>2
<1>6. \A n \in 1..Len(c) : /\ c[n].off \in Nat /\ c[n].len \in Nat
                           /\ c[n].off + c[n].len <= o
  <2>1. \A n \in 1..Len(c) : c[n] \in BhSet
    BY <1>1
  <2> QED
    BY <1>3, <2>1 DEF BhSet, FitsIn
<1>7. ASSUME NEW n \in 1..Len(q)
      PROVE  q[n].off + q[n].len <= off
  <2>1. CASE n <= Len(c)
    <3>1. q[n] = c[n] /\ n \in 1..Len(c)
      BY <1>1, <1>5, <2>1
    <3> QED
      BY <1>1, <1>4, <1>6, <3>1
  <2>2. CASE ~(n <= Len(c))
    BY <1>4, <1>5, <2>2
  <2> QED
    BY <2>1, <2>2
<1>8. ASSUME NEW n \in 1..Len(c)
      PROVE  Apart(c[n], h) /\ Apart(h, c[n])
  <2>1. c[n].off + c[n].len <= h.off
    BY <1>1, <1>4, <1>6
  <2> QED
    BY <2>1 DEF Apart
<1>9. ASSUME NEW n \in 1..Len(q), NEW l \in 1..Len(q), n # l
      PROVE  Apart(q[n], q[l])
  <2>1. CASE n <= Len(c) /\ l <= Len(c)
    <3>1. q[n] = c[n] /\ q[l] = c[l] /\ n \in 1..Len(c) /\ l \in 1..Len(c)
      BY <1>1, <1>5, <2>1
    <3> QED
      BY <1>3, <1>9, <3>1 DEF FitsIn
  <2>2. CASE n <= Len(c) /\ ~(l <= Len(c))
    <3>1. q[n] = c[n] /\ q[l] = h /\ n \in 1..Len(c)
      BY <1>1, <1>5, <2>2
    <3> QED
      BY <1>8, <3>1
  <2>3. CASE ~(n <= Len(c)) /\ l <= Len(c)
    <3>1. q[l] = c[l] /\ q[n] = h /\ l \in 1..Len(c)
      BY <1>1, <1>5, <2>3
    <3> QED
      BY <1>8, <3>1
  <2>4. CASE ~(n <= Len(c)) /\ ~(l <= Len(c))
    BY <1>1, <1>5, <1>9, <2>4
  <2> QED
    BY <2>1, <2>2, <2>3, <2>4
<1>10. FitsIn(q, off)
  BY <1>7, <1>9 DEF FitsIn
<1>11. ASSUME NEW lo \in Nat, NEW hi \in Nat, lo < hi, hi <= o, Clear(c, lo, hi)
       PROVE  Clear(q, lo, hi)
  <2>1. hi <= h.off
    BY <1>1, <1>4, <1>11
  <2>2. ASSUME NEW n \in 1..Len(q)
        PROVE  hi <= q[n].off \/ q[n].off + q[n].len <= lo
    <3>1. CASE n <= Len(c)
      <4>1. q[n] = c[n] /\ n \in 1..Len(c)
        BY <1>1, <1>5, <3>1
      <4> QED
        BY <1>11, <4>1 DEF Clear
    <3>2. CASE ~(n <= Len(c))
      BY <1>5, <2>1, <3>2
    <3> QED
      BY <3>1, <3>2
  <2> QED
    BY <2>2 DEF Clear
<1>12. BbGrows(s, t, i)
  BY <1>2, <1>4, <1>10, <1>11 DEF BbGrows, c, o, q
<1> QED
  BY <1>2, <1>12, GrowsSpace

(* The only bh of a bb grows with it. *)
LEMMA GrowSpace ==
  ASSUME NEW s, NEW t, TypeInv(s), TypeInv(t), FitInv(s), NEW key, NEW i, NEW off, NEW new,
         Growable(s, key, i, off), GrowDone(s, t, key, i, new), off <= new
  PROVE  SpaceDone(s, t)
<1> DEFINE h == s.bb[i].bhs[1]
           g == t.bb[i].bhs[1]
<1>1. /\ On(s, i) /\ 1 \in 1..Len(s.bb[i].bhs) /\ s.bb[i].off = off /\ h.off + h.len = off
  BY DEF Growable, At
<1>2. /\ t.nr = s.nr /\ t.list = s.list /\ t.bb[i].blkaddr = s.bb[i].blkaddr
      /\ \A k \in 1..s.nr : k # i => t.bb[k] = s.bb[k]
      /\ Len(t.bb[i].bhs) = 1 /\ t.bb[i].off = new /\ g.off + g.len = new
      /\ g.off = h.off
  BY DEF GrowDone, Growable
<1>3. i \in 1..s.nr /\ s.bb[i].bhs \in Seq(BhSet) /\ s.bb[i].off \in Nat /\ t.bb[i].off \in Nat
  BY <1>1, <1>2, TypeUse, BlockUse
<1>4. h \in BhSet
  BY <1>1, <1>3
<1>5. h.off \in Nat /\ h.len \in Nat
  BY <1>4 DEF BhSet
<1>6. FitsIn(t.bb[i].bhs, t.bb[i].off)
  <2>1. \A n \in 1..Len(t.bb[i].bhs) : n = 1
    BY <1>2
  <2>2. new <= new
    BY <1>2, <1>3
  <2> QED
    BY <1>2, <2>1, <2>2 DEF FitsIn
<1>7. ASSUME NEW lo \in Nat, NEW hi \in Nat, lo < hi, hi <= s.bb[i].off,
             Clear(s.bb[i].bhs, lo, hi)
      PROVE  Clear(t.bb[i].bhs, lo, hi)
  <2>1. hi <= h.off \/ h.off + h.len <= lo
    BY <1>1, <1>7 DEF Clear
  <2>2. hi <= h.off
    <3> HIDE DEF h
    <3> QED
      BY <1>1, <1>3, <1>5, <1>7, <2>1
  <2>3. \A n \in 1..Len(t.bb[i].bhs) : n = 1
    BY <1>2
  <2> QED
    BY <1>2, <2>2, <2>3 DEF Clear
<1>8. BbGrows(s, t, i)
  BY <1>1, <1>2, <1>6, <1>7 DEF BbGrows
<1> QED
  BY <1>1, <1>8, GrowsSpace

(* The bh called key is the last of bb i, size long, and ends where the bb *)
(* does.                                                                   *)
LastBh(s, i) == s.bb[i].bhs[Len(s.bb[i].bhs)]
EndsBb(s, key, i, size) ==
  /\ At(s, key, i, Len(s.bb[i].bhs))
  /\ LastBh(s, i).len = size
  /\ LastBh(s, i).off + size = s.bb[i].off

(* __erofs_battach puts the new bh at the end of its bb. *)
LEMMA AddSpace ==
  ASSUME NEW s, NEW start, NEW junk, MgrInv(s, start, junk), FitInv(s), NEW i, On(s, i),
         NEW key \in KeySet, ~HasKey(s, key), NEW size \in Nat,
         NEW align, Divisor(align), NEW extra \in Nat,
         Attachable(s, i, size, align, extra),
         NEW t, t = Attach(s, i, <<Bh(s, i, key, size, align)>>, size, align, extra)
  PROVE  /\ SpaceDone(s, t) /\ EndsBb(t, key, i, size)
         /\ t.bb[i].off = AttachedOff(s, i, size, align)
         /\ LastBh(t, i).off = RoundUp(s.bb[i].off, align)
<1> DEFINE h == Bh(s, i, key, size, align)
           o == AttachedOff(s, i, size, align)
           x == Extended(s, i, size, align, extra)
<1>1. TypeInv(s) /\ i \in 1..s.nr
  BY TypeUse DEF MgrInv
<1>2. MgrInv(t, start, junk) /\ AddDone(s, t, key, i, extra) /\ AttachDone(s, t, i, <<h>>, o, x)
  BY AddInv
<1>3. h \in BhSet /\ h.key = key
  BY <1>1, BhIs
<1>4. h.off = RoundUp(s.bb[i].off, align) /\ h.len = size
  BY DEF Bh
<1>5. /\ s.bb[i].off \in Nat /\ o \in Nat
      /\ o = RoundUp(s.bb[i].off, align) + size
      /\ RoundUp(s.bb[i].off, align) \in Nat /\ s.bb[i].off <= RoundUp(s.bb[i].off, align)
  <2>1. 0 \in Nat
    OBVIOUS
  <2> QED
    BY <1>1, <2>1, OobUse
<1>6. s.bb[i].off <= h.off /\ h.off + h.len = o
  BY <1>4, <1>5
<1> HIDE DEF h, o, x
<1>7. SpaceDone(s, t)
  BY <1>1, <1>2, <1>3, <1>5, <1>6, AttachSpace
<1>8. t.bb[i].off = o /\ t.bb[i].bhs = s.bb[i].bhs \o <<h>>
  BY <1>2 DEF AttachDone
<1>9. LastBh(t, i) = h
  <2>1. s.bb[i].bhs \in Seq(BhSet)
    BY <1>1, TypeUse, BlockUse
  <2> DEFINE c == s.bb[i].bhs
             d == t.bb[i].bhs
  <2>2. d = c \o <<h>> /\ c \in Seq(BhSet)
    BY <1>8, <2>1
  <2> HIDE DEF c, d
  <2>3. d[Len(d)] = h
    BY <1>3, <2>2, AddedIs
  <2> QED
    BY <2>3 DEF LastBh, d
<1>10. At(t, key, i, Len(t.bb[i].bhs))
  BY <1>2 DEF AddDone, LastOf
<1> QED
  BY <1>4, <1>6, <1>7, <1>8, <1>9, <1>10 DEF EndsBb, o

(* erofs_balloc, with room for inl more in the block the bh ends in.       *)
BallocSpaced(s, t, key, i, size, inl) ==
  /\ SpaceDone(s, t) /\ EndsBb(t, key, i, size)
  /\ (t.bb[i].off % BlkSize) + inl <= BlkSize

(* erofs_balloc puts the new bh at the end of its bb, clear of everything  *)
(* in it, and leaves room for the inline data.                             *)
LEMMA BallocSpace ==
  ASSUME NEW s, NEW start, NEW junk, MgrInv(s, start, junk), FitInv(s), NEW what \in Whats,
         NEW size \in Nat, NEW inl \in Nat, ~InlineTooBig(size, inl),
         NEW key \in KeySet, ~HasKey(s, key),
         NEW r, r = Balloc(s, what, size, inl, key)
  PROVE  \E i : BallocSpaced(s, r.m, key, i, size, inl)
<1>1. PICK u, i : MgrInv(u, start, junk) /\ BallocTo(s, u, i, what, size, inl, key, r)
  BY BallocIs
<1> DEFINE a == AlignSize(what)
           t == Attach(u, i, <<Bh(u, i, key, size, a)>>, size, a, inl)
<1>2. /\ r.m = t
      /\ On(u, i) /\ Attachable(u, i, size, a, inl)
      /\ (AttachedOff(u, i, size, a) % BlkSize) + inl <= BlkSize
      /\ u = s \/ u = NewBlock(s, StoredType(what))
  BY <1>1 DEF BallocTo, Usable, Ok
<1>3. Divisor(a) /\ StoredType(what) \in Types
  BY AlignDivides, StoredIs DEF Whats
<1>4. TypeInv(s) /\ TypeInv(u)
  BY <1>1 DEF MgrInv
<1>5. t = Attach(u, i, <<Bh(u, i, key, size, a)>>, size, a, inl)
  OBVIOUS
<1> HIDE DEF a, t
<1>6. SpaceDone(s, u) /\ ~HasKey(u, key)
  <2>1. CASE u = s
    BY <1>4, <2>1, SpaceSelf
  <2>2. CASE u = NewBlock(s, StoredType(what))
    <3>1. PICK k : PrefixAt(s, k)
      BY DEF MgrInv, PrefixInv
    <3> DEFINE ty == StoredType(what)
    <3> HIDE DEF ty
    <3>2. ty \in Types /\ u = NewBlock(s, ty)
      BY <1>3, <2>2 DEF ty
    <3>3. NewDone(s, u, ty, NewPos(s, ty)) /\ (HasKey(u, key) <=> HasKey(s, key))
      BY <3>1, <3>2, NewInv
    <3>4. NewPos(s, ty) \in 1..(Len(s.list) + 1)
      BY <1>4, <3>1, <3>2, NewPosIs
    <3> QED
      BY <1>4, <3>3, <3>4, NewSpace
  <2> QED
    BY <1>2, <2>1, <2>2
<1>7. FitInv(u)
  BY <1>6 DEF SpaceDone
<1>8. /\ SpaceDone(u, t) /\ EndsBb(t, key, i, size)
      /\ t.bb[i].off = AttachedOff(u, i, size, a)
  BY <1>1, <1>2, <1>3, <1>5, <1>6, <1>7, AddSpace
<1>9. TypeInv(t)
  <2>1. MgrInv(t, start, junk)
    BY <1>1, <1>2, <1>3, <1>5, <1>6, AddInv
  <2> QED
    BY <2>1 DEF MgrInv
<1>10. SpaceDone(s, t)
  BY <1>4, <1>6, <1>8, <1>9, SpaceTrans
<1>11. BallocSpaced(s, r.m, key, i, size, inl)
  BY <1>2, <1>8, <1>10 DEF BallocSpaced
<1> QED
  BY <1>11

(* erofs_battach, right behind the last bh. *)
LEMMA BattachSpace ==
  ASSUME NEW s, NEW start, NEW junk, MgrInv(s, start, junk), FitInv(s), NEW key \in KeySet,
         NEW i, NEW size \in Nat, LastOf(s, key, i, size),
         NEW newkey \in KeySet, ~HasKey(s, newkey),
         NEW r, r = Battach(s, key, "META", size, newkey)
  PROVE  /\ SpaceDone(s, r.m) /\ EndsBb(r.m, newkey, i, size)
         /\ LastBh(r.m, i).off = s.bb[i].off
<1>1. At(s, key, i, Len(s.bb[i].bhs)) /\ Attachable(s, i, size, 1, 0)
  BY DEF LastOf
<1>2. TypeInv(s) /\ KeyInv(s) /\ i \in 1..s.nr /\ On(s, i) /\ 0 \in Nat
  BY <1>1, TypeUse DEF MgrInv, At
<1>3. BlockOf(s, key) = i /\ BhNr(s, key) = Len(s.bb[i].bhs)
  BY <1>1, <1>2, BlockIs
<1> DEFINE t == Attach(s, i, <<Bh(s, i, newkey, size, 1)>>, size, 1, 0)
<1>4. AlignSize("META") = 1
  BY DEF AlignSize
<1>5. r.m = t
  BY <1>1, <1>3, <1>4 DEF Battach, IsTailBh, Ok
<1>6. t = Attach(s, i, <<Bh(s, i, newkey, size, 1)>>, size, 1, 0)
  OBVIOUS
<1> HIDE DEF t
<1>7. /\ SpaceDone(s, t) /\ EndsBb(t, newkey, i, size)
      /\ LastBh(t, i).off = RoundUp(s.bb[i].off, 1)
  BY <1>1, <1>2, <1>6, OneDivides, AddSpace
<1>8. RoundUp(s.bb[i].off, 1) = s.bb[i].off
  BY <1>2, EndUse, RoundUpOne
<1> QED
  BY <1>5, <1>7, <1>8

(* erofs_bh_balloon *)
LEMMA BalloonSpace ==
  ASSUME NEW s, NEW start, NEW junk, MgrInv(s, start, junk), FitInv(s), NEW key \in KeySet,
         NEW i, NEW off, Growable(s, key, i, off), NEW incr \in Nat,
         NEW r, r = Balloon(s, key, incr)
  PROVE  SpaceDone(s, r.m)
<1>1. MgrInv(r.m, start, junk) /\ GrowDone(s, r.m, key, i, off + incr)
  BY BalloonInv
<1>2. TypeInv(s) /\ TypeInv(r.m)
  BY <1>1 DEF MgrInv
<1>3. off \in Nat
  <2>1. i \in 1..s.nr /\ s.bb[i].off = off
    BY <1>2, TypeUse DEF Growable, At
  <2> QED
    BY <1>2, <2>1, EndUse
<1>4. off <= off + incr
  BY <1>3
<1> DEFINE new == off + incr
<1> HIDE DEF new
<1>5. GrowDone(s, r.m, key, i, new) /\ off <= new
  BY <1>1, <1>4 DEF new
<1> QED
  BY <1>2, <1>5, GrowSpace

(* erofs_mapbh *)
LEMMA MapBhSpace ==
  ASSUME NEW s, NEW start, NEW junk, MgrInv(s, start, junk), FitInv(s), NEW key \in KeySet,
         NEW i, NEW n, At(s, key, i, n), NEW t, t = Map(s, key)
  PROVE  SpaceDone(s, t) /\ OnlyMapped(s, t)
<1>1. MgrInv(t, start, junk) /\ OnlyMapped(s, t)
  BY MapInv
<1> QED
  BY <1>1, MapSpace DEF MgrInv
=============================================================================
