-------------------------- MODULE DfopsRingProofs ---------------------------
(***************************************************************************)
(* Proofs about DfopsRing, for every set of jobs and every ring size.      *)
(***************************************************************************)
EXTENDS DfopsRing, SequenceTheorems, TLAPS

(* The job being sent. *)
ArgInv == /\ mpc \in {"go", "full"} => arg \in AllJobs
          /\ mpc \notin {"go", "full"} => arg = NULL

(* The slot the worker points to is the one before head. *)
ItemInv == wpc = "handle" => Succ(item) = head /\ queue[item] = popped /\ popped \in AllJobs

(* q->idle is set only while nothing is queued and nothing is handled. *)
IdleInv == idle => fifo = << >> /\ wpc \in {"pop", "empty"}

(* The terminating job is the last one sent. *)
StopInv ==
  /\ \A i \in 1..Len(fifo) : fifo[i] = Stop => i = Len(fifo) /\ mpc \in {"join", "joined"}
  /\ wpc = "handle" /\ popped = Stop => fifo = << >> /\ mpc \in {"join", "joined"}
  /\ wpc = "exited" /\ ~ret => fifo = << >> /\ mpc \in {"join", "joined"}
  /\ mpc = "joined" => wpc = "exited"

RingInv == TypeOK /\ RingHoldsFifo /\ ArgInv /\ ItemInv /\ IdleInv /\ StopInv
-----------------------------------------------------------------------------
(* Indexes *)

LEMMA SuccDef ==
  ASSUME NEW i \in Slots
  PROVE  Succ(i) \in Slots /\ Succ(i) = IF i = Entries - 1 THEN 0 ELSE i + 1
BY DfopsAssumption DEF Slots, Succ

(* The slot k places after slot h. *)
LEMMA AtDef ==
  ASSUME NEW h \in Slots, NEW k \in Slots
  PROVE  (h + k) % Entries = IF h + k < Entries THEN h + k ELSE h + k - Entries
<1>. USE DfopsAssumption DEF Slots
<1>1. CASE h + k < Entries
  BY <1>1
<1>2. CASE h + k >= Entries
  <2>. DEFINE d == h + k - Entries
  <2>1. d \in 0..(Entries - 1) /\ h + k = d + Entries
    BY <1>2
  <2>. HIDE DEF d
  <2>2. (d + Entries) % Entries = d
    BY <2>1
  <2>. QED BY <1>2, <2>1, <2>2 DEF d
<1>. QED BY <1>1, <1>2

(* k places after a slot is k - 1 places after its successor. *)
LEMMA AtNext ==
  ASSUME NEW h \in Slots, NEW k \in Slots, k # 0
  PROVE  (h + k) % Entries = (Succ(h) + (k - 1)) % Entries
<1>. USE DfopsAssumption
<1>1. k - 1 \in Slots /\ Succ(h) \in Slots
  BY SuccDef DEF Slots
<1>2. (h + k) % Entries = IF h + k < Entries THEN h + k ELSE h + k - Entries
  BY AtDef
<1>3. (Succ(h) + (k - 1)) % Entries = IF Succ(h) + (k - 1) < Entries THEN Succ(h) + (k - 1)
                                      ELSE Succ(h) + (k - 1) - Entries
  BY <1>1, AtDef
<1>4. Succ(h) = IF h = Entries - 1 THEN 0 ELSE h + 1
  BY SuccDef
<1>. QED BY <1>2, <1>3, <1>4 DEF Slots

(* The ring is empty when its indexes meet, full when one slot is left. *)
LEMMA RingLevels ==
  ASSUME TypeOK, RingHoldsFifo
  PROVE  /\ Len(fifo) \in Nat
         /\ head = tail <=> Len(fifo) = 0
         /\ RingFull <=> Len(fifo) = Entries - 1
<1>. USE DfopsAssumption
<1>1. Len(fifo) \in Slots /\ head \in Slots /\ tail \in Slots
  BY DEF TypeOK, RingHoldsFifo, Slots
<1>2. tail = IF head + Len(fifo) < Entries THEN head + Len(fifo)
             ELSE head + Len(fifo) - Entries
  BY <1>1, AtDef DEF RingHoldsFifo
<1>3. Succ(tail) = IF tail = Entries - 1 THEN 0 ELSE tail + 1
  BY <1>1, SuccDef
<1>. QED BY <1>1, <1>2, <1>3 DEF RingFull, Slots

LEMMA EmptyFifo ==
  ASSUME TypeOK
  PROVE  fifo = << >> <=> Len(fifo) = 0
BY EmptySeq DEF TypeOK

(* erofs_mkfs_go fills the slot behind the jobs queued; it is not the slot *)
(* the worker points to.                                                   *)
LEMMA PutKeepsRing ==
  ASSUME RingInv, GoPut
  PROVE  /\ fifo' \in Seq(AllJobs) /\ Len(fifo') = Len(fifo) + 1
         /\ \A i \in 1..Len(fifo) : fifo'[i] = fifo[i]
         /\ fifo'[Len(fifo) + 1] = arg
         /\ queue' \in [Slots -> AllJobs \cup {NULL}] /\ tail' \in Slots
         /\ wpc = "handle" => queue'[item] = queue[item]
         /\ RingHoldsFifo'
<1>. USE DfopsAssumption DEF RingInv
<1>1. arg \in AllJobs /\ mpc = "go"
  BY DEF GoPut, ArgInv
<1>2. /\ fifo' = Append(fifo, arg) /\ fifo' \in Seq(AllJobs) /\ Len(fifo') = Len(fifo) + 1
      /\ \A i \in 1..Len(fifo) : fifo'[i] = fifo[i]
      /\ fifo'[Len(fifo) + 1] = arg
      /\ Len(fifo) \in Nat
  BY <1>1 DEF GoPut, TypeOK
<1>3. queue' = [queue EXCEPT ![tail] = arg] /\ tail' = Succ(tail) /\ head' = head
  BY DEF GoPut
<1>4. Len(fifo) < Entries - 1
  BY <1>2, RingLevels DEF GoPut, RingHoldsFifo
<1>5. head \in Slots /\ tail \in Slots /\ Len(fifo) \in Slots /\ Len(fifo') \in Slots
  BY <1>2, <1>4 DEF TypeOK, Slots
<1>6. queue' \in [Slots -> AllJobs \cup {NULL}] /\ tail' \in Slots
  BY <1>1, <1>3, <1>5, SuccDef DEF TypeOK
<1>7. tail' = (head' + Len(fifo')) % Entries
  <2>1. tail = IF head + Len(fifo) < Entries THEN head + Len(fifo)
               ELSE head + Len(fifo) - Entries
    BY <1>5, AtDef DEF RingHoldsFifo
  <2>2. tail' = IF tail = Entries - 1 THEN 0 ELSE tail + 1
    BY <1>3, <1>5, SuccDef
  <2>3. (head + Len(fifo')) % Entries = IF head + Len(fifo') < Entries THEN head + Len(fifo')
                                        ELSE head + Len(fifo') - Entries
    BY <1>5, AtDef
  <2>. QED BY <1>2, <1>3, <1>4, <1>5, <2>1, <2>2, <2>3 DEF Slots
<1>8. ASSUME NEW i \in 1..Len(fifo') PROVE queue'[(head' + i - 1) % Entries] = fifo'[i]
  <2>1. i - 1 \in Slots
    BY <1>5 DEF Slots
  <2>2. head + i - 1 = head + (i - 1)
    BY <1>5 DEF Slots
  <2>3. (head + i - 1) % Entries = IF head + (i - 1) < Entries THEN head + (i - 1)
                                   ELSE head + (i - 1) - Entries
    BY <1>5, <2>1, <2>2, AtDef
  <2>4. tail = IF head + Len(fifo) < Entries THEN head + Len(fifo)
               ELSE head + Len(fifo) - Entries
    BY <1>5, AtDef DEF RingHoldsFifo
  <2>5. CASE i = Len(fifo) + 1
    BY <1>2, <1>3, <1>5, <2>3, <2>4, <2>5 DEF TypeOK
  <2>6. CASE i # Len(fifo) + 1
    <3>1. i \in 1..Len(fifo)
      BY <1>2, <2>6
    <3>2. (head + i - 1) % Entries # tail /\ (head + i - 1) % Entries \in Slots
      BY <1>4, <1>5, <2>3, <2>4, <3>1 DEF Slots
    <3>3. queue[(head + i - 1) % Entries] = fifo[i]
      BY <3>1 DEF RingHoldsFifo
    <3>. QED BY <1>2, <1>3, <3>1, <3>2, <3>3 DEF TypeOK
  <2>. QED BY <2>5, <2>6
<1>9. wpc = "handle" => queue'[item] = queue[item]
  <2>1. wpc = "handle" => item # tail
    BY DEF GoPut, RingFull, ItemInv
  <2>. QED BY <1>3, <2>1 DEF TypeOK
<1>. QED BY <1>2, <1>4, <1>6, <1>7, <1>8, <1>9 DEF RingHoldsFifo

(* erofs_mkfs_pop_jobitem points to the oldest job. *)
LEMMA TakeKeepsRing ==
  ASSUME RingInv, PopTake
  PROVE  /\ Len(fifo) \in Nat \ {0} /\ fifo # << >>
         /\ fifo' \in Seq(AllJobs) /\ Len(fifo') = Len(fifo) - 1
         /\ \A i \in 1..Len(fifo') : fifo'[i] = fifo[i + 1]
         /\ queue[head] = fifo[1] /\ fifo[1] \in AllJobs
         /\ head' \in Slots
         /\ RingHoldsFifo'
<1>. USE DfopsAssumption DEF RingInv
<1>1. Len(fifo) \in Nat \ {0} /\ fifo # << >>
  BY RingLevels, EmptyFifo DEF PopTake
<1>2. /\ fifo' = Tail(fifo) /\ fifo' \in Seq(AllJobs) /\ Len(fifo') = Len(fifo) - 1
      /\ \A i \in 1..Len(fifo') : fifo'[i] = fifo[i + 1]
      /\ fifo[1] \in AllJobs
  BY <1>1 DEF PopTake, TypeOK
<1>3. head' = Succ(head) /\ tail' = tail /\ queue' = queue
  BY DEF PopTake
<1>4. /\ head \in Slots /\ tail \in Slots /\ Len(fifo) \in Slots /\ Len(fifo') \in Slots
      /\ head' \in Slots
      /\ head' = IF head = Entries - 1 THEN 0 ELSE head + 1
  BY <1>1, <1>2, <1>3, SuccDef DEF TypeOK, RingHoldsFifo, Slots
<1>5. queue[head] = fifo[1]
  <2>1. (head + 1 - 1) % Entries = head
    BY <1>4 DEF Slots
  <2>. QED BY <1>1, <2>1 DEF RingHoldsFifo
<1>6. tail' = (head' + Len(fifo')) % Entries
  <2>1. (head + Len(fifo)) % Entries = (Succ(head) + (Len(fifo) - 1)) % Entries
    BY <1>1, <1>4, AtNext
  <2>. QED BY <1>2, <1>3, <2>1 DEF RingHoldsFifo
<1>7. ASSUME NEW i \in 1..Len(fifo') PROVE queue'[(head' + i - 1) % Entries] = fifo'[i]
  <2>1. i - 1 \in Slots /\ i \in Slots /\ i + 1 \in 1..Len(fifo)
    BY <1>2, <1>4 DEF Slots
  <2>2. head' + i - 1 = head' + (i - 1) /\ head + (i + 1) - 1 = head + i
    BY <1>4, <2>1 DEF Slots
  <2>3. (head' + (i - 1)) % Entries = IF head' + (i - 1) < Entries THEN head' + (i - 1)
                                      ELSE head' + (i - 1) - Entries
    BY <1>4, <2>1, AtDef
  <2>4. (head + i) % Entries = IF head + i < Entries THEN head + i ELSE head + i - Entries
    BY <1>4, <2>1, AtDef
  <2>5. (head' + (i - 1)) % Entries = (head + i) % Entries
    BY <1>4, <2>1, <2>3, <2>4 DEF Slots
  <2>6. queue[(head + (i + 1) - 1) % Entries] = fifo[i + 1]
    BY <2>1 DEF RingHoldsFifo
  <2>. QED BY <1>2, <1>3, <2>2, <2>5, <2>6
<1>8. Len(fifo') < Entries
  BY <1>4 DEF Slots
<1>. QED BY <1>1, <1>2, <1>4, <1>5, <1>6, <1>7, <1>8 DEF RingHoldsFifo
-----------------------------------------------------------------------------
(* The invariant *)

(* The invariant holds when erofs_mkfs_build_tree has started the worker. *)
LEMMA RingInvInit == Init => RingInv
<1>. USE DfopsAssumption
<1>. SUFFICES ASSUME Init PROVE RingInv
  OBVIOUS
<1>1. 0 \in Slots /\ Len(fifo) = 0 /\ fifo \in Seq(AllJobs)
  BY DEF Init, Slots
<1>2. TypeOK
  BY <1>1 DEF Init, TypeOK, MainPC, WorkerPC
<1>3. RingHoldsFifo
  <2>1. tail = (head + Len(fifo)) % Entries
    BY <1>1 DEF Init
  <2>. QED BY <1>1, <2>1 DEF RingHoldsFifo
<1>4. ArgInv /\ ItemInv /\ IdleInv /\ StopInv
  BY <1>1 DEF Init, ArgInv, ItemInv, IdleInv, StopInv
<1>. QED BY <1>2, <1>3, <1>4 DEF RingInv

(* Steps that leave the ring, its flag and its jobs alone keep the ring. *)
LEMMA QuietRing ==
  ASSUME RingHoldsFifo, UNCHANGED <<queue, head, tail, fifo>>
  PROVE  RingHoldsFifo'
BY DEF RingHoldsFifo

(* Every step of either thread preserves the invariant. *)
LEMMA RingInvStep == RingInv /\ [Next]_vars => RingInv'
<1>. USE DfopsAssumption DEF RingInv
<1>. SUFFICES ASSUME RingInv, [Next]_vars PROVE RingInv'
  OBVIOUS
<1>1. ASSUME NEW j \in Jobs, GoCall(j) PROVE RingInv'
  <2>1. TypeOK'
    BY <1>1 DEF GoCall, TypeOK, ring, MainPC, AllJobs
  <2>2. RingHoldsFifo'
    BY <1>1, QuietRing DEF GoCall, ring
  <2>3. ArgInv' /\ ItemInv' /\ IdleInv' /\ StopInv'
    BY <1>1 DEF GoCall, ArgInv, ItemInv, IdleInv, StopInv, ring, AllJobs, Succ
  <2>. QED BY <2>1, <2>2, <2>3
<1>2. CASE BuildEnds
  <2>1. TypeOK'
    BY <1>2 DEF BuildEnds, TypeOK, ring, MainPC, AllJobs
  <2>2. RingHoldsFifo'
    BY <1>2, QuietRing DEF BuildEnds, ring
  <2>3. ArgInv' /\ ItemInv' /\ IdleInv' /\ StopInv'
    BY <1>2 DEF BuildEnds, ArgInv, ItemInv, IdleInv, StopInv, ring, AllJobs, Succ
  <2>. QED BY <2>1, <2>2, <2>3
<1>3. CASE GoSleep \/ GoSpurious
  <2>1. TypeOK'
    BY <1>3 DEF GoSleep, GoSpurious, TypeOK, ring, MainPC
  <2>2. RingHoldsFifo'
    BY <1>3, QuietRing DEF GoSleep, GoSpurious, ring
  <2>3. ArgInv' /\ ItemInv' /\ IdleInv' /\ StopInv'
    BY <1>3 DEF GoSleep, GoSpurious, ArgInv, ItemInv, IdleInv, StopInv, ring, Succ
  <2>. QED BY <2>1, <2>2, <2>3
<1>4. CASE FlushCall \/ FlushTest \/ FlushSpurious
  <2>1. TypeOK'
    BY <1>4 DEF FlushCall, FlushTest, FlushSpurious, TypeOK, ring, MainPC
  <2>2. RingHoldsFifo'
    BY <1>4, QuietRing DEF FlushCall, FlushTest, FlushSpurious, ring
  <2>3. ArgInv' /\ ItemInv' /\ IdleInv' /\ StopInv'
    BY <1>4 DEF FlushCall, FlushTest, FlushSpurious, ArgInv, ItemInv, IdleInv, StopInv,
                ring, Succ
  <2>. QED BY <2>1, <2>2, <2>3
<1>5. CASE Join
  <2>1. TypeOK'
    BY <1>5 DEF Join, TypeOK, ring, MainPC
  <2>2. RingHoldsFifo'
    BY <1>5, QuietRing DEF Join, ring
  <2>3. ArgInv' /\ ItemInv' /\ IdleInv' /\ StopInv'
    BY <1>5 DEF Join, ArgInv, ItemInv, IdleInv, StopInv, ring, Succ
  <2>. QED BY <2>1, <2>2, <2>3
<1>6. CASE GoPut
  <2>1. /\ fifo' \in Seq(AllJobs) /\ Len(fifo') = Len(fifo) + 1 /\ Len(fifo) \in Nat
        /\ \A i \in 1..Len(fifo) : fifo'[i] = fifo[i]
        /\ fifo'[Len(fifo) + 1] = arg
        /\ queue' \in [Slots -> AllJobs \cup {NULL}] /\ tail' \in Slots
        /\ wpc = "handle" => queue'[item] = queue[item]
        /\ RingHoldsFifo'
    BY <1>6, PutKeepsRing, RingLevels
  <2>2. /\ mpc = "go" /\ arg' = NULL /\ idle' = FALSE
        /\ mpc' = (IF arg = Stop THEN "join" ELSE "run")
        /\ wpc' = (IF wpc = "empty" THEN "pop" ELSE wpc)
        /\ head' = head /\ item' = item /\ ret' = ret /\ popped' = popped /\ stray' = stray
    BY <1>6 DEF GoPut, IdleAfterGo, EmptySignalled
  <2>3. TypeOK'
    BY <2>1, <2>2 DEF TypeOK, MainPC, WorkerPC
  <2>4. ArgInv' /\ IdleInv'
    BY <2>2 DEF ArgInv, IdleInv
  <2>5. ItemInv'
    BY <2>1, <2>2 DEF ItemInv, Succ
  <2>6. StopInv'
    <3>1. \A i \in 1..Len(fifo) : fifo[i] # Stop
      BY <2>2 DEF StopInv
    <3>2. ASSUME NEW i \in 1..Len(fifo'), fifo'[i] = Stop
          PROVE  i = Len(fifo') /\ mpc' \in {"join", "joined"}
      BY <2>1, <2>2, <3>1, <3>2
    <3>. QED BY <2>2, <3>2 DEF StopInv
  <2>. QED BY <2>1, <2>3, <2>4, <2>5, <2>6
<1>7. CASE PopSleep
  <2>1. fifo = << >>
    BY <1>7, RingLevels, EmptyFifo DEF PopSleep
  <2>2. TypeOK'
    BY <1>7 DEF PopSleep, TypeOK, MainPC, WorkerPC
  <2>3. RingHoldsFifo'
    BY <1>7, QuietRing DEF PopSleep
  <2>4. ArgInv' /\ ItemInv' /\ IdleInv' /\ StopInv'
    BY <1>7, <2>1 DEF PopSleep, ArgInv, ItemInv, IdleInv, StopInv
  <2>. QED BY <2>2, <2>3, <2>4
<1>8. CASE PopTake
  <2>1. /\ Len(fifo) \in Nat \ {0} /\ fifo # << >>
        /\ fifo' \in Seq(AllJobs) /\ Len(fifo') = Len(fifo) - 1
        /\ \A i \in 1..Len(fifo') : fifo'[i] = fifo[i + 1]
        /\ queue[head] = fifo[1] /\ fifo[1] \in AllJobs
        /\ head' \in Slots
        /\ RingHoldsFifo'
    BY <1>8, TakeKeepsRing
  <2>2. /\ wpc = "pop" /\ wpc' = "handle" /\ item' = head /\ head' = Succ(head)
        /\ mpc' = (IF mpc = "full" THEN "go" ELSE mpc)
        /\ popped' = queue[head]
        /\ queue' = queue /\ tail' = tail /\ idle' = idle /\ arg' = arg /\ ret' = ret
        /\ stray' = stray
    BY <1>8 DEF PopTake, FullSignalled
  <2>3. TypeOK'
    BY <2>1, <2>2 DEF TypeOK, MainPC, WorkerPC
  <2>4. ArgInv' /\ IdleInv'
    BY <2>1, <2>2 DEF ArgInv, IdleInv
  <2>5. ItemInv'
    BY <2>1, <2>2 DEF ItemInv, Succ
  <2>6. StopInv'
    <3>1. ASSUME NEW i \in 1..Len(fifo'), fifo'[i] = Stop
          PROVE  i = Len(fifo') /\ mpc' \in {"join", "joined"}
      <4>1. i + 1 \in 1..Len(fifo) /\ fifo[i + 1] = Stop
        BY <2>1, <3>1
      <4>. QED BY <2>1, <2>2, <4>1 DEF StopInv
    <3>2. ASSUME popped' = Stop
          PROVE  fifo' = << >> /\ mpc' \in {"join", "joined"}
      <4>1. 1 \in 1..Len(fifo) /\ fifo[1] = Stop
        BY <2>1, <2>2, <3>2
      <4>2. Len(fifo') = 0 /\ mpc \in {"join", "joined"}
        BY <2>1, <4>1 DEF StopInv
      <4>. QED BY <2>1, <2>2, <4>2, EmptySeq
    <3>3. mpc' # "joined"
      BY <2>2 DEF StopInv
    <3>. QED BY <2>2, <3>1, <3>2, <3>3 DEF StopInv
  <2>. QED BY <2>1, <2>3, <2>4, <2>5, <2>6
<1>9. CASE HandleItem
  <2>1. queue[item] = popped /\ popped \in AllJobs
    BY <1>9 DEF HandleItem, ItemInv
  <2>2. TypeOK'
    BY <1>9 DEF HandleItem, TypeOK, ring, WorkerPC
  <2>3. RingHoldsFifo'
    BY <1>9, QuietRing DEF HandleItem, ring
  <2>4. ArgInv' /\ ItemInv' /\ IdleInv'
    BY <1>9 DEF HandleItem, ArgInv, ItemInv, IdleInv, ring
  <2>5. StopInv'
    BY <1>9, <2>1 DEF HandleItem, StopInv, ring, LastJobs
  <2>. QED BY <2>2, <2>3, <2>4, <2>5
<1>10. CASE WorkerSpurious
  <2>1. TypeOK'
    BY <1>10 DEF WorkerSpurious, TypeOK, ring, WorkerPC
  <2>2. RingHoldsFifo'
    BY <1>10, QuietRing DEF WorkerSpurious, ring
  <2>3. ArgInv' /\ ItemInv' /\ IdleInv' /\ StopInv'
    BY <1>10 DEF WorkerSpurious, ArgInv, ItemInv, IdleInv, StopInv, ring
  <2>. QED BY <2>1, <2>2, <2>3
<1>11. CASE UNCHANGED vars
  <2>1. RingHoldsFifo'
    BY <1>11, QuietRing DEF vars
  <2>2. TypeOK' /\ ArgInv' /\ ItemInv' /\ IdleInv' /\ StopInv'
    BY <1>11 DEF vars, TypeOK, ArgInv, ItemInv, IdleInv, StopInv, Succ
  <2>. QED BY <2>1, <2>2
<1>. QED BY <1>1, <1>2, <1>3, <1>4, <1>5, <1>6, <1>7, <1>8, <1>9, <1>10, <1>11
         DEF Next, MainStep, WorkerStep
-----------------------------------------------------------------------------
(* The ring, the pointer of the worker, the idle flag and the terminating  *)
(* job stay consistent whatever the two threads interleave.                *)
THEOREM RingInvariant == Spec => []RingInv
BY RingInvInit, RingInvStep, PTL DEF Spec

(* The indexes stay inside q->queue and the program counters typed. *)
THEOREM TypeCorrect == Spec => []TypeOK
BY RingInvariant, PTL DEF RingInv

(* erofs_mkfs_go and erofs_mkfs_pop_jobitem keep the slots between head    *)
(* and tail a FIFO, for every ring size.                                   *)
THEOREM RingCorrect == Spec => []RingHoldsFifo
BY RingInvariant, PTL DEF RingInv

(* The slot that z_erofs_mt_dfops_worker reads after the unlock is not     *)
(* overwritten by a later erofs_mkfs_go.                                   *)
THEOREM SlotStable == Spec => []ItemStable
<1>1. RingInv => ItemStable
  BY DEF RingInv, ItemInv, ItemStable
<1>. QED BY <1>1, RingInvariant, PTL

(* A worker that met no error has popped every job when it is joined. *)
THEOREM Joined == Spec => []JoinIsComplete
<1>1. RingInv => JoinIsComplete
  BY DEF RingInv, StopInv, JoinIsComplete
<1>. QED BY <1>1, RingInvariant, PTL

(* Every step keeps flushes complete. *)
LEMMA FlushStep == RingInv /\ FlushIsComplete /\ [Next]_vars => FlushIsComplete'
<1>. USE DEF RingInv
<1>. SUFFICES ASSUME RingInv, FlushIsComplete, [Next]_vars PROVE FlushIsComplete'
  OBVIOUS
<1>1. CASE FlushTest
  BY <1>1 DEF FlushTest, FlushIsComplete, IdleInv, ring
<1>2. CASE PopSleep
  <2>1. fifo = << >>
    BY <1>2, RingLevels, EmptyFifo DEF PopSleep
  <2>. QED BY <1>2, <2>1 DEF PopSleep, FlushIsComplete
<1>3. CASE PopTake
  <2>1. fifo # << >>
    BY <1>3, TakeKeepsRing
  <2>. QED BY <1>3, <2>1 DEF PopTake, FlushIsComplete
<1>4. CASE GoPut
  BY <1>4 DEF GoPut, FlushIsComplete
<1>5. CASE FlushSpurious
  BY <1>5 DEF FlushSpurious, FlushIsComplete
<1>6. CASE UNCHANGED vars
  BY <1>6 DEF vars, FlushIsComplete
<1>7. CASE \/ \E j \in Jobs : GoCall(j)
           \/ FlushCall \/ BuildEnds \/ GoSleep \/ Join \/ GoSpurious
  BY <1>7 DEF GoCall, FlushCall, BuildEnds, GoSleep, Join, GoSpurious, FlushIsComplete
<1>8. CASE HandleItem \/ WorkerSpurious
  BY <1>8 DEF HandleItem, WorkerSpurious, FlushIsComplete, ring
<1>. QED BY <1>1, <1>2, <1>3, <1>4, <1>5, <1>6, <1>7, <1>8 DEF Next, MainStep, WorkerStep

(* erofs_mkfs_flushjobs returns only when every job sent before it was     *)
(* handled, or by a stray return of its pthread_cond_wait on q->drain,     *)
(* which has no loop around it.                                            *)
THEOREM FlushCorrect == Spec => []FlushIsComplete
<1>1. Init => FlushIsComplete
  BY DEF Init, FlushIsComplete
<1>2. RingInv /\ FlushIsComplete /\ [Next]_vars => FlushIsComplete'
  BY FlushStep
<1>. QED BY <1>1, <1>2, RingInvariant, PTL DEF Spec
-----------------------------------------------------------------------------
(* Every step of the ring is a step of the pipe or leaves it alone. *)
LEMMA PipeStep == RingInv /\ [Next]_vars => [Pipe!Next]_(Pipe!vars)
<1>. USE DfopsAssumption DEF RingInv
<1>. SUFFICES ASSUME RingInv, [Next]_vars PROVE [Pipe!Next]_(Pipe!vars)
  OBVIOUS
<1>1. CASE GoPut
  <2>1. /\ mpc = "go" /\ mpc' \in {"run", "join"}
        /\ arg \in AllJobs /\ fifo' = Append(fifo, arg) /\ item' = item
        /\ wpc' = "handle" <=> wpc = "handle"
        /\ stray' = stray
    BY <1>1 DEF GoPut, EmptySignalled, ArgInv
  <2>2. wpc = "handle" => queue'[item] = queue[item]
    BY <1>1, PutKeepsRing
  <2>3. Len(fifo) < Entries - 1
    BY <1>1, RingLevels DEF GoPut, RingHoldsFifo
  <2>4. Pipe!Send(arg)
    BY <2>1, <2>2, <2>3 DEF Pipe!Send
  <2>. QED BY <2>1, <2>4 DEF Pipe!Next
<1>2. CASE PopTake
  <2>1. fifo # << >> /\ queue[head] = fifo[1]
    BY <1>2, TakeKeepsRing
  <2>2. Pipe!Take
    BY <1>2, <2>1 DEF PopTake, FullSignalled, Pipe!Take
  <2>. QED BY <2>2 DEF Pipe!Next
<1>3. CASE HandleItem
  <2>1. queue[item] # NULL
    BY <1>3 DEF HandleItem, ItemInv, AllJobs
  <2>2. Pipe!Finish
    BY <1>3, <2>1 DEF HandleItem, ring, Pipe!Finish
  <2>. QED BY <2>2 DEF Pipe!Next
<1>4. CASE FlushCall
  <2>1. Pipe!FlushBegin
    BY <1>4 DEF FlushCall, ring, Pipe!FlushBegin
  <2>. QED BY <2>1 DEF Pipe!Next
<1>10. CASE FlushSpurious
  <2>1. Pipe!StrayEnd
    BY <1>10 DEF FlushSpurious, ring, Pipe!StrayEnd
  <2>. QED BY <2>1 DEF Pipe!Next
<1>5. CASE FlushTest
  <2>1. CASE idle
    <3>1. Pipe!FlushEnd
      BY <1>5, <2>1 DEF FlushTest, IdleInv, ring, Pipe!FlushEnd
    <3>. QED BY <3>1 DEF Pipe!Next
  <2>2. CASE ~idle
    BY <1>5, <2>2 DEF FlushTest, ring, Pipe!vars
  <2>. QED BY <2>1, <2>2
<1>6. CASE PopSleep
  <2>1. fifo = << >>
    BY <1>6, RingLevels, EmptyFifo DEF PopSleep
  <2>2. CASE mpc = "drain"
    <3>1. Pipe!FlushEnd
      BY <1>6, <2>1, <2>2 DEF PopSleep, Pipe!FlushEnd
    <3>. QED BY <3>1 DEF Pipe!Next
  <2>3. CASE mpc # "drain"
    BY <1>6, <2>3 DEF PopSleep, Pipe!vars
  <2>. QED BY <2>2, <2>3
<1>7. CASE \/ \E j \in Jobs : GoCall(j)
           \/ BuildEnds \/ GoSleep \/ Join \/ GoSpurious
  BY <1>7 DEF GoCall, BuildEnds, GoSleep, Join, GoSpurious, ring, Pipe!vars
<1>8. CASE WorkerSpurious
  BY <1>8 DEF WorkerSpurious, ring, Pipe!vars
<1>9. CASE UNCHANGED vars
  BY <1>9 DEF vars, Pipe!vars
<1>. QED BY <1>1, <1>2, <1>3, <1>4, <1>5, <1>6, <1>7, <1>8, <1>9, <1>10
         DEF Next, MainStep, WorkerStep

(* The ring, its indexes, its flags and the pointer into it implement a    *)
(* bounded FIFO pipe of jobs, whose flush ends with everything handled or  *)
(* by a stray return of its wait.                                          *)
THEOREM Refinement == Spec => ImplementsJobPipe
<1>1. Init => Pipe!Init
  BY DEF Init, Pipe!Init
<1>2. RingInv /\ [Next]_vars => [Pipe!Next]_(Pipe!vars)
  BY PipeStep
<1>. QED BY <1>1, <1>2, RingInvariant, PTL DEF Spec, ImplementsJobPipe, Pipe!SafeSpec
=============================================================================
