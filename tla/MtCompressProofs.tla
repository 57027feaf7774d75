-------------------------- MODULE MtCompressProofs --------------------------
(***************************************************************************)
(* Segments are merged in order and no context is used by two threads:     *)
(* for any number of files, segments and workers, any bounds on the queues *)
(* and any failures of segments and fragments.                             *)
(***************************************************************************)
EXTENDS MtCompress, FiniteSetTheorems, TLAPS

MpcSet == {"begin", "get", "queue", "send", "pack", "gsleep", "gwoken", "raced", "stop",
           "join", "end", "exit", "exited"}
WpcSet == {"pop", "write", "sleep", "merge", "commit", "exited", "joined"}
DoneSet == {"none", "compressed", "plain", "failed"}

(* The works there are. *)
Works == 1..Len(work)

WorkRec == [file : Files, seg : Nat, blks : Int]
Triple == Nat \X Int \X Int

TypeOK ==
  /\ mode \in {"mt", "global", "all_fragments"}
  /\ mpc \in MpcSet /\ wpc \in WpcSet
  /\ cur \in 1..(N + 1) /\ seg \in Nat \ {0}
  /\ hand \in Nat \cup {NULL}
  /\ alloced \in Int
  /\ idle \in Seq(Nat)
  /\ work \in Seq(WorkRec)
  /\ chain \in [Files -> Seq(Nat)]
  /\ ictx \in [Files -> {"none", "live", "freed"}]
  /\ nfini \in [Files -> Nat]
  /\ queue \in Seq(Nat)
  /\ running \in [Workers -> Nat \cup {NULL}]
  /\ jobs \in Seq(Nat)
  /\ wf \in Files \cup {NULL}
  /\ gseg \in {0, 1}
  /\ extents \in [Files -> Seq(Triple)]
  /\ tail \in Int
  /\ done \in [Files -> DoneSet]

(* The thread that writes is at a file; the main thread queues one. *)
Writing == wpc \in {"write", "sleep", "merge", "commit"}
Queuing == mpc \in {"get", "queue", "send"}

(* Where the two threads are together. *)
ControlInv ==
  /\ mpc \in {"begin", "get", "queue", "send", "pack", "gsleep", "gwoken"} =>
       cur \in Files /\ (Packed(cur) <=> wpc = "joined")
  /\ mpc \in {"get", "queue"} => UseMt(cur) /\ seg <= Segs[cur]
  /\ mpc \in {"pack", "gsleep", "gwoken"} => ~UseMt(cur)
  /\ mpc = "queue" <=> hand # NULL
  /\ mpc \in {"stop", "join"} => cur = LastOfTree + 1 /\ wpc # "joined"
  /\ mpc = "end" => cur \in Files /\ Packed(cur) /\ (Writing \/ wpc = "joined")
  /\ mpc \in {"exit", "exited"} => wpc = "joined"
  /\ Writing => /\ wf \in Files
                /\ wpc \in {"sleep", "merge"} => UseMt(wf)
                /\ wpc = "commit" => ~UseMt(wf)
                /\ mpc = "end" => wf = cur
                /\ mpc # "end" => wf < cur /\ ~Packed(wf)

(* The jobs that wait are files sent before, each once. *)
JobsInv ==
  /\ \A i \in 1..Len(jobs) : jobs[i] # Stop =>
       jobs[i] \in Files /\ jobs[i] < cur /\ ~Packed(jobs[i])
  /\ \A i, j \in 1..Len(jobs) : jobs[i] = jobs[j] /\ jobs[i] # Stop => i = j
  /\ Writing => \A i \in 1..Len(jobs) : jobs[i] # wf

(* The static context is held by one file on its way from the main thread  *)
(* to the writer.                                                          *)
Waiting == \E i \in 1..Len(jobs) : jobs[i] # Stop
Packing == mpc \in {"pack", "send"} /\ ~UseMt(cur)
Holding == Writing /\ ~UseMt(wf)
StaticInv ==
  mode # "mt" =>
    /\ gseg = 0 \/ mpc = "gwoken" => ~Waiting /\ ~Holding /\ ~Packing
    /\ Packing => ~Waiting /\ ~Holding
    /\ Holding => ~Waiting
    /\ \A i, j \in 1..Len(jobs) : jobs[i] # Stop /\ jobs[j] # Stop => i = j

(* The files that own works, and the one that is merged. *)
Live(f) ==
  /\ UseMt(f)
  /\ \/ Queuing /\ f = cur
     \/ \E i \in 1..Len(jobs) : jobs[i] = f
     \/ wpc \in {"write", "sleep", "merge"} /\ f = wf
Merging(f) == wpc = "merge" /\ f = wf
Fresh(f) == f > cur \/ (f = cur /\ mpc \in {"begin", "stop", "join"})

(* The works of a file are linked in the order of its segments: as many as *)
(* were cut so far, and, while they are merged, those that are left.       *)
Slot(x, f, s) == x \in Works /\ work[x].file = f /\ work[x].seg = s
Linked(f) == IF f = cur /\ mpc = "get" THEN seg - 1
             ELSE IF f = cur /\ mpc = "queue" THEN seg ELSE Segs[f]
Merged(f) == IF Merging(f) THEN Segs[f] - Len(chain[f]) ELSE 0
FileChain(f) ==
  /\ ~Live(f) => chain[f] = << >>
  /\ Live(f) => ictx[f] = "live"
  /\ Live(f) /\ ~Merging(f) => Len(chain[f]) = Linked(f)
  /\ Merging(f) => Len(chain[f]) <= Segs[f]
  /\ \A k \in 1..Len(chain[f]) : Slot(chain[f][k], f, Merged(f) + k)
ChainInv == \A f \in Files : FileChain(f)

(* A work is idle or in the chain of a file. *)
Chained(x) == \E f \in Files : \E k \in 1..Len(chain[f]) : chain[f][k] = x
IdleInv ==
  /\ \A i \in 1..Len(idle) : idle[i] \in Works /\ ~Chained(idle[i])
  /\ \A i, j \in 1..Len(idle) : idle[i] = idle[j] => i = j
  /\ mpc # "exited" =>
       /\ alloced = Len(work)
       /\ \A x \in Works : ~Chained(x) => \E i \in 1..Len(idle) : idle[i] = x
  /\ mpc = "exited" /\ (\A f \in Files : done[f] \in {"compressed", "plain"})
       => alloced = 0

(* The works the main thread, the queue or a worker holds: in one pair of  *)
(* hands each, and of files that are not merged yet.                       *)
InQueue(x) == \E i \in 1..Len(queue) : queue[i] = x
InRun(x) == \E w \in Workers : running[w] = x
HeldBy(x) == x = hand \/ InQueue(x) \/ InRun(x)
Apart ==
  /\ \A i, j \in 1..Len(queue) : queue[i] = queue[j] => i = j
  /\ \A v, w \in Workers : running[v] = running[w] /\ running[v] # NULL => v = w
  /\ \A x \in Nat : InQueue(x) => x # hand /\ ~InRun(x)
  /\ \A x \in Nat : InRun(x) => x # hand
HeldInv ==
  /\ Apart
  /\ \A x \in Nat : HeldBy(x) => Chained(x)
  /\ \A f \in Files : Merging(f) =>
       \A k \in 1..Len(chain[f]) : ~HeldBy(chain[f][k])

(* A work that was run has the result of its segment. *)
Result(x) ==
  /\ work[x].seg \in 1..Segs[work[x].file]
  /\ work[x].blks \in {NoResult, Failed, Blks[work[x].file][work[x].seg]}
  /\ x = hand \/ InQueue(x) => work[x].blks = NoResult
  /\ Chained(x) /\ ~HeldBy(x) => work[x].blks # NoResult
ResultInv == \A x \in Works : Result(x)

(* The segments of a file that are finished are counted. *)
Finished(f) == {k \in 1..Len(chain[f]) : ~HeldBy(chain[f][k])}
CountInv ==
  \A f \in Files : Live(f) /\ ~Merging(f) => nfini[f] = Cardinality(Finished(f))

(* What was merged so far is in place. *)
Placed(E, f) ==
  \A s \in 1..Len(E) :
    /\ E[s][1] = s /\ E[s][3] = Blks[f][s]
    /\ s > 1 => E[s][2] = E[s-1][2] + E[s-1][3]
FileExtents(f) ==
  /\ Fresh(f) \/ (Live(f) /\ ~Merging(f)) => extents[f] = << >> /\ done[f] = "none"
  /\ Merging(f) => done[f] \in {"none", "failed"}
  /\ Merging(f) /\ done[f] = "none" =>
       Len(extents[f]) = Segs[f] - Len(chain[f]) /\ Placed(extents[f], f)
  /\ done[f] = "compressed" => Len(extents[f]) = Segs[f] /\ Placed(extents[f], f)
ExtentInv == \A f \in Files : UseMt(f) => FileExtents(f)

MtInv == /\ TypeOK /\ ControlInv /\ JobsInv /\ StaticInv /\ ChainInv /\ IdleInv
         /\ HeldInv /\ ResultInv /\ CountInv /\ ExtentInv
-----------------------------------------------------------------------------
LEMMA Consts ==
  /\ N \in Nat /\ N > 1 /\ NULL \notin Nat
  /\ \A f \in Files : f \in Nat /\ f # Stop /\ f # NULL /\ f >= 1 /\ f <= N
  /\ \A f \in Files : Segs[f] \in Nat /\ Segs[f] >= 1
  /\ \A f \in Files : \A s \in 1..Segs[f] : Blks[f][s] \in Nat
  /\ N \in Files /\ N - 1 \in Files
BY MtAssumption DEF Files, Stop

(* Sequences of elements of S stay such. *)
LEMMA SeqPut ==
  ASSUME NEW S, NEW q \in Seq(S), NEW x \in S
  PROVE  /\ Append(q, x) \in Seq(S) /\ Len(Append(q, x)) = Len(q) + 1
         /\ <<x>> \o q \in Seq(S) /\ Len(<<x>> \o q) = Len(q) + 1
         /\ \A i \in 1..Len(q) : [q EXCEPT ![i] = x] \in Seq(S)
OBVIOUS

LEMMA SeqTake ==
  ASSUME NEW S, NEW q \in Seq(S), q # << >>
  PROVE  /\ Head(q) \in S /\ Head(q) = q[1] /\ 1 \in 1..Len(q)
         /\ Tail(q) \in Seq(S) /\ Len(Tail(q)) = Len(q) - 1
         /\ \A i \in 1..Len(Tail(q)) : Tail(q)[i] = q[i + 1]
OBVIOUS

LEMMA MtInit == Init => MtInv
<1> SUFFICES ASSUME Init PROVE MtInv
  OBVIOUS
<1>1. TypeOK
  BY Consts, MtAssumption DEF Init, TypeOK, MpcSet, WpcSet, DoneSet
<1>2. JobsInv /\ StaticInv
  BY DEF Init, JobsInv, StaticInv, Writing, Waiting, Packing, Holding
<1>6. ControlInv
  <2>1. 1 \in Files /\ 1 # N
    BY Consts DEF Files
  <2> QED
    BY <2>1 DEF Init, ControlInv, Writing, Packed
<1>3. ChainInv /\ IdleInv
  BY Consts DEF Init, ChainInv, FileChain, IdleInv, Live, Merging, Queuing, Works, Chained
<1>4. HeldInv /\ ResultInv
  BY Consts DEF Init, HeldInv, Apart, ResultInv, InQueue, InRun, HeldBy, Works, Merging, Chained
<1>5. CountInv /\ ExtentInv
  BY Consts DEF Init, CountInv, ExtentInv, FileExtents, Live, Merging, Queuing
<1> QED
  BY <1>1, <1>2, <1>3, <1>4, <1>5, <1>6 DEF MtInv

LEMMA SameMode == [Next]_vars => mode' = mode
BY DEF Next, vars, Main, Worker, Writer, BeginMt, BeginGlobal, BeginWoken, Pack,
       GetWork, QueueWork, Send, SendStop, Join, PackedDone, CompressExit, Take,
       CompressSegment, FinishSegment, Pop, MtWait, MtSpurious, BeginStray, MtMerge, MtCommit,
       GlobalWrite, GlobalRelease, main

(* What the writer reads off a file is well typed. *)
LEMMA NextBlkType ==
  ASSUME TypeOK, NEW f \in Files
  PROVE  NextBlk(f) \in Int
<1>1. extents[f] \in Seq(Triple)
  BY DEF TypeOK
<1>2. CASE extents[f] = << >>
  BY <1>2 DEF NextBlk, TypeOK
<1>3. CASE extents[f] # << >>
  <2>1. Last(extents[f]) \in Triple
    BY <1>1, <1>3 DEF Last
  <2> QED
    BY <1>3, <2>1 DEF NextBlk, Triple
<1> QED
  BY <1>2, <1>3

LEMMA WorkType ==
  ASSUME TypeOK, NEW x \in Works
  PROVE  /\ work[x] \in WorkRec
         /\ work[x].file \in Files /\ work[x].seg \in Nat /\ work[x].blks \in Int
<1>1. work \in Seq(WorkRec)
  BY DEF TypeOK
<1>2. work[x] \in WorkRec
  BY <1>1 DEF Works
<1> QED
  BY <1>2 DEF WorkRec

LEMMA HeldWorks ==
  ASSUME MtInv, NEW x \in Nat, HeldBy(x)
  PROVE  x \in Works
BY DEF MtInv, HeldInv, ChainInv, FileChain, Slot, Chained

LEMMA TypeStep == MtInv /\ [Next]_vars => TypeOK'
<1> SUFFICES ASSUME MtInv, [Next]_vars PROVE TypeOK'
  OBVIOUS
<1> USE DEF MtInv
<1>1. CASE BeginMt
  BY <1>1 DEF BeginMt, TypeOK, MayBegin, ControlInv, MpcSet
<1>2. CASE BeginGlobal \/ BeginWoken \/ BeginStray
  BY <1>2 DEF BeginGlobal, BeginWoken, BeginStray, TypeOK, main, pool, MpcSet
<1>3. CASE Pack
  <2>1. cur \in Files /\ cur \in Nat /\ cur + 1 \in 1..(N + 1)
    BY <1>3, Consts DEF Pack, ControlInv, Files
  <2>2. mpc' \in MpcSet /\ cur' \in 1..(N + 1)
    BY <1>3, <2>1 DEF Pack, Advance, MpcSet, TypeOK
  <2>3. extents' \in [Files -> Seq(Triple)] /\ done' \in [Files -> DoneSet]
    <3>1. extents \in [Files -> Seq(Triple)] /\ done \in [Files -> DoneSet]
      BY DEF TypeOK
    <3>2. "failed" \in DoneSet /\ << >> \in Seq(Triple)
      BY DEF DoneSet
    <3> QED
      BY <1>3, <2>1, <3>1, <3>2 DEF Pack
  <2> QED
    BY <1>3, <2>2, <2>3 DEF Pack, TypeOK, pool
<1>4. CASE GetWork
  <2>1. cur \in Files
    BY <1>4 DEF GetWork, ControlInv
  <2>2. [file |-> cur, seg |-> seg, blks |-> NoResult] \in WorkRec
    BY <2>1 DEF TypeOK, NoResult, WorkRec
  <2>a. /\ work \in Seq(WorkRec) /\ idle \in Seq(Nat) /\ alloced \in Int
        /\ idle # << >> => Head(idle) \in 1..Len(work)
    <3>1. work \in Seq(WorkRec) /\ idle \in Seq(Nat) /\ alloced \in Int
      BY DEF TypeOK
    <3>2. idle # << >> => Head(idle) \in 1..Len(work)
      BY <3>1, SeqTake DEF IdleInv, Works
    <3> QED
      BY <3>1, <3>2
  <2>3. hand' \in Nat /\ idle' \in Seq(Nat) /\ alloced' \in Int
    <3>1. CASE idle # << >>
      <4>1. Head(idle) \in Nat /\ Tail(idle) \in Seq(Nat)
        BY <2>a, <3>1, SeqTake
      <4> QED
        BY <1>4, <2>a, <3>1, <4>1 DEF GetWork
    <3>2. CASE idle = << >>
      BY <1>4, <2>a, <3>2 DEF GetWork
    <3> QED
      BY <3>1, <3>2
  <2>4. work' \in Seq(WorkRec)
    <3> DEFINE new == [file |-> cur, seg |-> seg, blks |-> NoResult]
    <3>1. \/ idle # << >> /\ work' = [work EXCEPT ![Head(idle)] = new]
          \/ work' = Append(work, new)
      BY <1>4 DEF GetWork
    <3>2. new \in WorkRec
      BY <2>2
    <3> HIDE DEF new
    <3>3. Append(work, new) \in Seq(WorkRec)
      BY <3>2, <2>a, SeqPut
    <3>4. idle # << >> => [work EXCEPT ![Head(idle)] = new] \in Seq(WorkRec)
      BY <3>2, <2>a, SeqPut
    <3> QED
      BY <3>1, <3>3, <3>4
  <2>5. chain' \in [Files -> Seq(Nat)]
    <3>1. chain \in [Files -> Seq(Nat)]
      BY DEF TypeOK
    <3>2. chain' = [chain EXCEPT ![cur] = Append(chain[cur], hand')]
      BY <1>4 DEF GetWork
    <3> QED
      BY <2>1, <2>3, <3>1, <3>2, SeqPut
  <2> QED
    BY <1>4, <2>3, <2>4, <2>5 DEF GetWork, TypeOK, pool, MpcSet
<1>5. CASE QueueWork
  <2>1. hand \in Nat
    BY <1>5 DEF QueueWork, ControlInv, TypeOK
  <2> QED
    BY <1>5, <2>1 DEF QueueWork, TypeOK, MpcSet
<1>6. CASE Send
  <2>1. cur \in Files /\ cur \in Nat /\ cur + 1 \in 1..(N + 1)
    BY <1>6, Consts DEF Send, ControlInv, Files
  <2>2. mpc' \in MpcSet /\ cur' \in 1..(N + 1) /\ wpc' \in WpcSet /\ wf' \in Files \cup {NULL}
    BY <1>6, <2>1 DEF Send, Advance, MpcSet, WpcSet, TypeOK
  <2>3. jobs' \in Seq(Nat)
    <3>1. jobs \in Seq(Nat)
      BY DEF TypeOK
    <3> QED
      BY <1>6, <2>1, <3>1, SeqPut DEF Send
  <2> QED
    BY <1>6, <2>2, <2>3 DEF Send, TypeOK, pool
<1>7. CASE SendStop
  BY <1>7 DEF SendStop, TypeOK, main, pool, Stop, MpcSet
<1>8. CASE Join \/ PackedDone
  BY <1>8 DEF Join, PackedDone, TypeOK, main, pool, MpcSet, WpcSet
<1>9. CASE CompressExit
  BY <1>9 DEF CompressExit, TypeOK, pool, MpcSet
<1>10. ASSUME NEW w \in Workers, Take(w) PROVE TypeOK'
  BY <1>10 DEF Take, TypeOK, main
<1>11. ASSUME NEW w \in Workers, CompressSegment(w) PROVE TypeOK'
  <2>1. running[w] \in Works
    <3>1. running[w] \in Nat
      BY <1>11 DEF CompressSegment, TypeOK
    <3> QED
      BY <3>1, HeldWorks DEF HeldBy, InRun
  <2>a. /\ work[running[w]].file \in Files
        /\ work[running[w]].seg \in 1..Segs[work[running[w]].file]
    <3>1. work \in Seq(WorkRec)
      BY DEF TypeOK
    <3>2. work[running[w]] \in WorkRec
      BY <2>1, <3>1 DEF Works
    <3> QED
      BY <2>1, <3>2 DEF ResultInv, Result, WorkRec
  <2>2. PICK b \in Results(work[running[w]].file, work[running[w]].seg) :
          work' = [work EXCEPT ![running[w]].blks = b]
    BY <1>11 DEF CompressSegment
  <2>3. b \in Int
    <3>1. Blks[work[running[w]].file][work[running[w]].seg] \in Nat
      BY <2>a, Consts
    <3> QED
      BY <2>2, <3>1 DEF Results, Failed
  <2>4. work' \in Seq(WorkRec)
    <3>1. work \in Seq(WorkRec)
      BY DEF TypeOK
    <3>a. work[running[w]] \in WorkRec
      BY <2>1, <3>1 DEF Works
    <3>2. [work[running[w]] EXCEPT !.blks = b] \in WorkRec
      BY <2>3, <3>a DEF WorkRec
    <3>3. work' = [work EXCEPT ![running[w]] = [work[running[w]] EXCEPT !.blks = b]]
      BY <2>2
    <3> QED
      BY <2>1, <3>1, <3>2, <3>3, SeqPut DEF Works
  <2> QED
    BY <1>11, <2>4 DEF CompressSegment, TypeOK, main
<1>12. ASSUME NEW w \in Workers, FinishSegment(w) PROVE TypeOK'
  <2>1. nfini' \in [Files -> Nat] /\ running' \in [Workers -> Nat \cup {NULL}]
    <3>1. nfini \in [Files -> Nat] /\ running \in [Workers -> Nat \cup {NULL}]
      BY DEF TypeOK
    <3>2. running' \in [Workers -> Nat \cup {NULL}]
      BY <1>12, <3>1 DEF FinishSegment
    <3>3. nfini' = [nfini EXCEPT ![work[running[w]].file] = nfini[work[running[w]].file] + 1]
      BY <1>12 DEF FinishSegment
    <3>4. running[w] \in Works
      <4>1. running[w] \in Nat
        BY <1>12, <3>1 DEF FinishSegment
      <4> QED
        BY <4>1, HeldWorks DEF HeldBy, InRun
    <3>5. work[running[w]].file \in Files
      BY <3>4, WorkType
    <3> QED
      BY <3>1, <3>2, <3>3, <3>5
  <2>2. wpc' \in WpcSet
    BY <1>12 DEF FinishSegment, TypeOK, WpcSet
  <2> QED
    BY <1>12, <2>1, <2>2 DEF FinishSegment, TypeOK, main
<1>13. CASE Pop
  <2>1. Head(jobs) \in Nat /\ Tail(jobs) \in Seq(Nat) /\ Head(jobs) = jobs[1] /\ 1 \in 1..Len(jobs)
    BY <1>13 DEF Pop, TypeOK
  <2>2. Head(jobs) # Stop => Head(jobs) \in Files
    BY <2>1 DEF JobsInv
  <2>3. wpc' \in WpcSet /\ wf' \in Files \cup {NULL}
    BY <1>13, <2>2 DEF Pop, TypeOK, WpcSet
  <2> QED
    BY <1>13, <2>1, <2>3 DEF Pop, TypeOK, main, pool
<1>14. CASE MtWait \/ MtSpurious
  BY <1>14 DEF MtWait, MtSpurious, TypeOK, main, pool, WpcSet
<1>15. CASE MtMerge
  <2>1. wf \in Files /\ chain[wf] \in Seq(Nat) /\ chain[wf] # << >>
    BY <1>15 DEF MtMerge, ControlInv, Writing, TypeOK
  <2> DEFINE x == Head(chain[wf])
  <2>2. x \in Works /\ x \in Nat /\ Tail(chain[wf]) \in Seq(Nat)
    <3>1. x \in Nat /\ x = chain[wf][1] /\ 1 \in 1..Len(chain[wf]) /\ Tail(chain[wf]) \in Seq(Nat)
      BY <2>1, SeqTake
    <3> QED
      BY <2>1, <3>1 DEF ChainInv, FileChain, Slot
  <2>3. <<work[x].seg, NextBlk(wf), work[x].blks>> \in Triple
    <3>1. work[x] \in WorkRec
      BY <2>2 DEF TypeOK, Works
    <3>2. NextBlk(wf) \in Int
      BY <2>1, NextBlkType
    <3> QED
      BY <3>1, <3>2 DEF WorkRec, Triple
  <2>4. extents' \in [Files -> Seq(Triple)] /\ done' \in [Files -> DoneSet]
    <3>1. extents \in [Files -> Seq(Triple)] /\ done \in [Files -> DoneSet] /\ "failed" \in DoneSet
      BY DEF TypeOK, DoneSet
    <3>2. \/ done' = [done EXCEPT ![wf] = "failed"] /\ extents' = extents
          \/ /\ extents' = [extents EXCEPT ![wf] =
                             Append(extents[wf], <<work[x].seg, NextBlk(wf), work[x].blks>>)]
             /\ done' = done
      BY <1>15 DEF MtMerge
    <3> HIDE DEF x
    <3>3. extents[wf] \in Seq(Triple)
      BY <2>1, <3>1
    <3>4. Append(extents[wf], <<work[x].seg, NextBlk(wf), work[x].blks>>) \in Seq(Triple)
      BY <2>3, <3>3, SeqPut
    <3> QED
      BY <2>1, <3>1, <3>2, <3>4
  <2>5. idle' \in Seq(Nat) /\ chain' \in [Files -> Seq(Nat)]
    BY <1>15, <2>1, <2>2 DEF MtMerge, TypeOK, RestOf
  <2> QED
    BY <1>15, <2>4, <2>5 DEF MtMerge, TypeOK, main, pool
<1>16. CASE MtCommit
  <2>1. wf \in Files /\ NextBlk(wf) \in Int
    BY <1>16, NextBlkType DEF MtCommit, ControlInv, Writing
  <2>2. done' \in [Files -> DoneSet] /\ tail' \in Int /\ wpc' \in WpcSet
    <3>1. done \in [Files -> DoneSet] /\ tail \in Int /\ {"compressed", "plain"} \subseteq DoneSet
      BY DEF TypeOK, DoneSet
    <3>2. done' \in [Files -> DoneSet] /\ tail' \in Int
      BY <1>16, <2>1, <3>1 DEF MtCommit, Commit
    <3>3. wpc' \in WpcSet
      BY <1>16 DEF MtCommit, AfterWrite, AfterFailure, WpcSet
    <3> QED
      BY <3>2, <3>3
  <2> QED
    BY <1>16, <2>1, <2>2 DEF MtCommit, TypeOK, main, pool
<1>17. CASE GlobalWrite
  <2>1. wf \in Files
    BY <1>17 DEF GlobalWrite, ControlInv, Writing
  <2>2. Results(wf, 1) \subseteq Int
    <3>1. 1 \in 1..Segs[wf]
      BY <2>1, Consts
    <3>2. Blks[wf][1] \in Nat
      BY <2>1, <3>1, Consts
    <3> QED
      BY <3>2 DEF Results, Failed
  <2>3. PICK b \in Results(wf, 1) :
       IF b = Failed
       THEN done' = [done EXCEPT ![wf] = "failed"] /\ UNCHANGED extents
       ELSE /\ extents' = [extents EXCEPT ![wf] = Append(@, <<1, tail, b>>)]
            /\ UNCHANGED done
    BY <1>17 DEF GlobalWrite
  <2>4. <<1, tail, b>> \in Triple
    BY <2>2 DEF TypeOK, Triple
  <2>5. extents' \in [Files -> Seq(Triple)] /\ done' \in [Files -> DoneSet]
    <3>1. extents \in [Files -> Seq(Triple)] /\ done \in [Files -> DoneSet] /\ "failed" \in DoneSet
      BY DEF TypeOK, DoneSet
    <3>2. extents[wf] \in Seq(Triple)
      BY <2>1, <3>1
    <3>3. Append(extents[wf], <<1, tail, b>>) \in Seq(Triple)
      BY <2>4, <3>2, SeqPut
    <3> QED
      BY <2>1, <2>3, <3>1, <3>3
  <2> QED
    BY <1>17, <2>5 DEF GlobalWrite, TypeOK, main, pool, WpcSet
<1>18. CASE GlobalRelease
  <2>1. wf \in Files /\ NextBlk(wf) \in Int
    BY <1>18, NextBlkType DEF GlobalRelease, ControlInv, Writing
  <2>2. done' \in [Files -> DoneSet] /\ tail' \in Int /\ wpc' \in WpcSet /\ mpc' \in MpcSet
    <3>1. done \in [Files -> DoneSet] /\ tail \in Int /\ {"compressed", "plain"} \subseteq DoneSet
      BY DEF TypeOK, DoneSet
    <3>2. done' \in [Files -> DoneSet] /\ tail' \in Int
      BY <1>18, <2>1, <3>1 DEF GlobalRelease, Commit
    <3>3. wpc' \in WpcSet /\ mpc' \in MpcSet
      BY <1>18 DEF GlobalRelease, AfterWrite, AfterFailure, WpcSet, MpcSet, WakeMain, TypeOK
    <3> QED
      BY <3>2, <3>3
  <2> QED
    BY <1>18, <2>2 DEF GlobalRelease, TypeOK, main, pool
<1>19. CASE UNCHANGED vars
  BY <1>19 DEF vars, TypeOK
<1> QED
  BY <1>1, <1>2, <1>3, <1>4, <1>5, <1>6, <1>7, <1>8, <1>9, <1>10, <1>11, <1>12,
     <1>13, <1>14, <1>15, <1>16, <1>17, <1>18, <1>19
  DEF Next, Main, Worker, Writer
-----------------------------------------------------------------------------
(* What the control of the threads depends on; most actions of the workers *)
(* leave it alone.                                                         *)
control == <<mode, mpc, cur, seg, hand, wpc, wf>>

LEMMA ModeFacts ==
  ASSUME TypeOK
  PROVE  /\ \A f \in Files : f <= LastOfTree <=> ~Packed(f)
         /\ LastOfTree \in Files /\ LastOfTree + 1 \in 1..(N + 1)
         /\ ~Packed(LastOfTree) /\ ~Packed(N + 1)
         /\ mode = "mt" => \A f \in Files : UseMt(f) /\ ~Packed(f)
         /\ mode # "mt" => Packed(N) /\ LastOfTree + 1 = N
         /\ mode # "mt" => \A f \in Files : ~Packed(f) => ~UseMt(f)
         /\ cur \in Nat
BY Consts DEF TypeOK, Packed, UseMt, LastOfTree, Files

(* The main thread goes on behind a file that is not the packed inode. *)
LEMMA AdvanceFacts ==
  ASSUME TypeOK, cur \in Files, ~Packed(cur), Advance
  PROVE  /\ cur' = cur + 1 /\ cur \in Nat
         /\ \/ mpc' = "stop" /\ cur + 1 = LastOfTree + 1
            \/ mpc' = "begin" /\ cur + 1 \in Files /\ ~Packed(cur + 1)
<1>1. cur \in Nat /\ cur <= LastOfTree /\ LastOfTree \in Files
  BY ModeFacts
<1>2. LastOfTree \in Nat /\ LastOfTree <= N /\ N \in Nat
  BY <1>1, Consts
<1>3. cur # LastOfTree => cur + 1 <= LastOfTree /\ cur + 1 \in Files
  BY <1>1, <1>2 DEF Files
<1>4. cur # LastOfTree => ~Packed(cur + 1)
  BY <1>3, ModeFacts
<1> QED
  BY <1>1, <1>3, <1>4 DEF Advance

LEMMA ControlStep == MtInv /\ [Next]_vars => ControlInv'
<1> SUFFICES ASSUME MtInv, [Next]_vars PROVE ControlInv'
  OBVIOUS
<1>t. TypeOK /\ ControlInv /\ JobsInv /\ mode' = mode
  BY SameMode DEF MtInv
<1>p. /\ \A f : Packed(f)' <=> Packed(f)
      /\ \A f : UseMt(f)' <=> UseMt(f)
      /\ LastOfTree' = LastOfTree
  BY <1>t DEF Packed, UseMt, LastOfTree
<1>a. ASSUME cur \in Files, ~Packed(cur), wpc # "joined", hand = NULL, mpc \in {"pack", "send"},
             Advance, UNCHANGED <<seg, hand, wpc, wf>>
      PROVE  ControlInv'
  <2>1. /\ cur' = cur + 1 /\ cur \in Nat
        /\ \/ mpc' = "stop" /\ cur + 1 = LastOfTree + 1
           \/ mpc' = "begin" /\ cur + 1 \in Files /\ ~Packed(cur + 1)
    BY <1>a, <1>t, AdvanceFacts
  <2>2. Writing => wf \in Files /\ wf < cur /\ ~Packed(wf) /\ wf \in Nat
    BY <1>a, <1>t, Consts DEF ControlInv
  <2>3. Writing => wf < cur + 1
    BY <2>1, <2>2
  <2>4. UNCHANGED <<hand, wpc, wf>>
    BY <1>a
  <2> QED
    BY <1>t, <1>p, <1>a, <2>1, <2>2, <2>3, <2>4 DEF ControlInv, Writing
<1>1. CASE BeginMt
  <2>1. Segs[cur] >= 1 /\ Segs[cur] \in Nat
    BY <1>1, <1>t, Consts DEF BeginMt, MayBegin, ControlInv
  <2> QED
    BY <1>1, <1>t, <1>p, <2>1 DEF BeginMt, MayBegin, ControlInv, Writing
<1>2. CASE BeginGlobal
  BY <1>2, <1>t, <1>p DEF BeginGlobal, MayBegin, ControlInv, Writing, main
<1>3. CASE BeginWoken \/ BeginStray
  BY <1>3, <1>t, <1>p DEF BeginWoken, BeginStray, ControlInv, Writing, main
<1>4. CASE Pack
  <2>1. CASE mpc' = "send" /\ cur' = cur
    BY <1>4, <1>t, <1>p, <2>1 DEF Pack, ControlInv, Writing
  <2>2. CASE ~Packed(cur) /\ Advance
    <3>1. cur \in Files /\ wpc # "joined" /\ hand = NULL
      BY <1>4, <1>t, <2>2 DEF Pack, ControlInv
    <3> QED
      BY <1>4, <1>a, <2>2, <3>1 DEF Pack, pool
  <2> QED
    BY <1>4, <2>1, <2>2 DEF Pack
<1>5. CASE GetWork
  <2>1. hand' # NULL
    <3>1. hand' \in Nat
      <4>1. idle \in Seq(Nat) /\ Len(work) + 1 \in Nat
        BY <1>t DEF TypeOK
      <4> QED
        BY <1>5, <4>1, SeqTake DEF GetWork
    <3> QED
      BY <3>1, Consts
  <2> QED
    BY <1>5, <1>t, <1>p, <2>1 DEF GetWork, ControlInv, Writing
<1>6. CASE QueueWork
  <2>1. seg \in Nat /\ Segs[cur] \in Nat /\ seg <= Segs[cur]
    BY <1>6, <1>t, Consts DEF QueueWork, ControlInv, TypeOK
  <2> QED
    BY <1>6, <1>t, <1>p, <2>1 DEF QueueWork, ControlInv, Writing
<1>7. CASE Send
  <2>1. cur \in Files /\ hand = NULL /\ (Packed(cur) <=> wpc = "joined")
    BY <1>7, <1>t DEF Send, ControlInv
  <2>2. CASE Packed(cur)
    BY <1>7, <1>t, <1>p, <2>1, <2>2 DEF Send, ControlInv, Writing
  <2>3. CASE ~Packed(cur)
    BY <1>7, <1>a, <2>1, <2>3 DEF Send
  <2> QED
    BY <2>2, <2>3
<1>8. CASE SendStop
  BY <1>8, <1>t, <1>p DEF SendStop, ControlInv, Writing, main
<1>9. CASE Join
  <2>1. mode # "mt" => cur \in Files /\ Packed(cur)
    BY <1>9, <1>t, ModeFacts, Consts DEF Join, ControlInv
  <2> QED
    BY <1>9, <1>t, <1>p, <2>1 DEF Join, ControlInv, Writing, main
<1>10. CASE PackedDone \/ CompressExit
  BY <1>10, <1>t, <1>p DEF PackedDone, CompressExit, ControlInv, Writing, main
<1>11. ASSUME NEW w \in Workers, FinishSegment(w) PROVE ControlInv'
  <2>1. UNCHANGED <<mpc, cur, seg, hand, wf>>
    BY <1>11 DEF FinishSegment, main
  <2>2. wpc' = wpc \/ (wpc = "sleep" /\ wpc' = "write")
    <3>1. PICK f : wpc' = IF wpc = "sleep" /\ wf = f /\ AllFinished(f, nfini[f] + 1)
                          THEN "write" ELSE wpc
      BY <1>11 DEF FinishSegment
    <3> QED
      BY <3>1
  <2> QED
    BY <1>t, <1>p, <2>1, <2>2 DEF ControlInv, Writing
<1>12. CASE Pop
  <2>1. /\ jobs[1] = Head(jobs)
        /\ Head(jobs) # Stop => Head(jobs) \in Files /\ Head(jobs) < cur /\ ~Packed(Head(jobs))
    BY <1>12, <1>t, SeqTake DEF Pop, JobsInv, TypeOK
  <2>2. UNCHANGED <<mpc, cur, seg, hand>> /\ wpc = "pop"
    BY <1>12 DEF Pop, main
  <2>3. \/ wpc' = "exited" /\ wf' = wf
        \/ wpc' = "write" /\ wf' = Head(jobs) /\ Head(jobs) # Stop
    BY <1>12 DEF Pop
  <2>4. mpc # "end"
    BY <1>t, <2>2 DEF ControlInv, Writing
  <2> QED
    BY <1>t, <1>p, <2>1, <2>2, <2>3, <2>4 DEF ControlInv, Writing
<1>13. CASE MtWait \/ MtSpurious
  BY <1>13, <1>t, <1>p DEF MtWait, MtSpurious, ControlInv, Writing, main
<1>14. CASE MtCommit \/ GlobalRelease
  <2>1. UNCHANGED <<cur, seg, hand, wf>> /\ wpc \in {"merge", "commit"}
    BY <1>14 DEF MtCommit, GlobalRelease, main
  <2>2. \/ wpc' = "joined" /\ Packed(wf)
        \/ wpc' \in {"exited", "pop"} /\ ~Packed(wf)
    <3>1. wpc' = AfterWrite \/ wpc' = AfterFailure
      BY <1>14 DEF MtCommit, GlobalRelease
    <3> QED
      BY <3>1 DEF AfterWrite, AfterFailure
  <2>3. mpc' = mpc \/ (mpc = "gsleep" /\ mpc' = "gwoken")
    <3>1. mpc' = mpc \/ mpc' = WakeMain
      BY <1>14 DEF MtCommit, GlobalRelease
    <3> QED
      BY <3>1 DEF WakeMain
  <2>4. /\ mpc = "end" <=> Packed(wf)
    BY <1>t, <2>1 DEF ControlInv, Writing
  <2>5. ~Packed(wf) => \A f : mpc' \in {"begin", "get", "queue", "send", "pack", "gsleep", "gwoken"} => ~Packed(cur)
    BY <1>t, <2>1, <2>3 DEF ControlInv
  <2> QED
    BY <1>t, <1>p, <2>1, <2>2, <2>3, <2>4, <2>5 DEF ControlInv, Writing
<1>15. CASE GlobalWrite
  BY <1>15, <1>t, <1>p DEF GlobalWrite, ControlInv, Writing, main
<1>16. CASE UNCHANGED control
  BY <1>16, <1>t, <1>p DEF control, ControlInv, Writing
<1>17. ASSUME NEW w \in Workers, Take(w) \/ CompressSegment(w) PROVE UNCHANGED control
  BY <1>17 DEF Take, CompressSegment, control, main
<1>18. CASE MtMerge \/ UNCHANGED vars
  BY <1>16, <1>18 DEF MtMerge, vars, control, main
<1> QED
  BY <1>1, <1>2, <1>3, <1>4, <1>5, <1>6, <1>7, <1>8, <1>9, <1>10, <1>11, <1>12,
     <1>13, <1>14, <1>15, <1>16, <1>17, <1>18
  DEF Next, Main, Worker, Writer
-----------------------------------------------------------------------------
LEMMA JobsStep == MtInv /\ [Next]_vars => JobsInv'
<1> SUFFICES ASSUME MtInv, [Next]_vars PROVE JobsInv'
  OBVIOUS
<1>t. TypeOK /\ ControlInv /\ JobsInv /\ mode' = mode
  BY SameMode DEF MtInv
<1>p. \A f : Packed(f)' <=> Packed(f)
  BY <1>t DEF Packed
<1>q. jobs \in Seq(Nat) /\ cur \in Nat
  BY <1>t, Consts DEF TypeOK
<1>f. \A f \in Files : f \in Nat /\ f # Stop
  BY Consts
<1>1. ASSUME jobs' = jobs, cur' = cur \/ cur' = cur + 1,
             Writing' => (Writing /\ wf' = wf) \/ (wf' = cur /\ cur \in Files)
      PROVE  JobsInv'
  <2>1. \A i \in 1..Len(jobs) : jobs[i] # Stop =>
          jobs[i] \in Files /\ jobs[i] \in Nat /\ jobs[i] < cur /\ ~Packed(jobs[i])
    BY <1>t, <1>f DEF JobsInv
  <2>2. \A i \in 1..Len(jobs) : jobs[i] # Stop => jobs[i] < cur'
    BY <1>1, <1>q, <2>1
  <2>3. ASSUME Writing', NEW i \in 1..Len(jobs) PROVE jobs[i] # wf'
    <3>1. CASE Writing /\ wf' = wf
      BY <3>1, <2>3, <1>t DEF JobsInv
    <3>2. CASE wf' = cur /\ cur \in Files
      BY <3>2, <2>1, <1>f, <1>q
    <3> QED
      BY <1>1, <2>3, <3>1, <3>2
  <2> QED
    BY <1>1, <1>t, <1>p, <2>1, <2>2, <2>3 DEF JobsInv
<1>2. CASE Send
  <2>1. cur \in Files
    BY <1>2, <1>t DEF Send, ControlInv
  <2>2. CASE Packed(cur)
    BY <1>1, <1>2, <2>1, <2>2 DEF Send
  <2>3. CASE ~Packed(cur)
    <3>1. /\ jobs' = Append(jobs, cur) /\ UNCHANGED <<wpc, wf>> /\ cur' = cur + 1
          /\ mpc # "end"
      BY <1>2, <2>3 DEF Send, Advance
    <3>2. Len(jobs') = Len(jobs) + 1 /\ Len(jobs) \in Nat
      BY <3>1, <1>q
    <3>3. /\ \A i \in 1..Len(jobs) : jobs'[i] = jobs[i]
          /\ jobs'[Len(jobs) + 1] = cur
      BY <3>1, <1>q
    <3>4. \A i \in 1..Len(jobs) : jobs[i] # Stop =>
            jobs[i] \in Files /\ jobs[i] \in Nat /\ jobs[i] < cur /\ ~Packed(jobs[i])
      BY <1>t, <1>f DEF JobsInv
    <3>5. \A i \in 1..Len(jobs') : jobs'[i] # Stop =>
            jobs'[i] \in Files /\ jobs'[i] < cur' /\ ~Packed(jobs'[i])
      BY <1>q, <2>1, <2>3, <3>1, <3>2, <3>3, <3>4
    <3>6. \A i \in 1..Len(jobs) : jobs[i] # cur
      BY <3>4, <1>q, <2>1, <1>f
    <3>7. ASSUME NEW i \in 1..Len(jobs'), NEW j \in 1..Len(jobs'),
                 jobs'[i] = jobs'[j], jobs'[i] # Stop
          PROVE  i = j
      <4>1. (i \in 1..Len(jobs) \/ i = Len(jobs) + 1) /\ (j \in 1..Len(jobs) \/ j = Len(jobs) + 1)
        BY <3>2
      <4>2. CASE i \in 1..Len(jobs) /\ j \in 1..Len(jobs)
        BY <1>t, <3>3, <3>7, <4>2 DEF JobsInv
      <4> QED
        BY <3>3, <3>6, <3>7, <4>1, <4>2
    <3>8. ASSUME Writing', NEW i \in 1..Len(jobs') PROVE jobs'[i] # wf'
      <4>1. Writing /\ wf' = wf /\ wf \in Files /\ wf < cur
        BY <1>t, <3>1, <3>8 DEF Writing, ControlInv
      <4>2. wf # cur
        BY <4>1, <1>f, <1>q
      <4>3. i \in 1..Len(jobs) \/ i = Len(jobs) + 1
        BY <3>2
      <4> QED
        BY <1>t, <3>3, <4>1, <4>2, <4>3 DEF JobsInv
    <3> QED
      BY <1>p, <3>5, <3>7, <3>8 DEF JobsInv
  <2> QED
    BY <2>2, <2>3
<1>3. CASE SendStop
  <2>1. jobs' = Append(jobs, Stop) /\ UNCHANGED <<cur, wpc, wf>>
    BY <1>3 DEF SendStop, main
  <2>2. Len(jobs') = Len(jobs) + 1 /\ Len(jobs) \in Nat
    BY <2>1, <1>q
  <2>3. \A i \in 1..Len(jobs') : jobs'[i] = Stop \/ (i \in 1..Len(jobs) /\ jobs'[i] = jobs[i])
    BY <2>1, <1>q
  <2>4. Writing' => Writing /\ wf' = wf /\ wf # Stop
    BY <2>1, <1>t, <1>f DEF Writing, ControlInv
  <2> QED
    BY <1>t, <1>p, <2>1, <2>3, <2>4 DEF JobsInv
<1>4. CASE Pop
  <2>1. jobs' = Tail(jobs) /\ jobs # << >> /\ cur' = cur /\ wpc = "pop"
    BY <1>4 DEF Pop, main
  <2>2. /\ \A i \in 1..Len(jobs') : i \in Nat /\ i + 1 \in 1..Len(jobs) /\ jobs'[i] = jobs[i + 1]
        /\ 1 \in 1..Len(jobs) /\ Head(jobs) = jobs[1]
    BY <2>1, <1>q
  <2>3. Writing' => wf' = jobs[1] /\ jobs[1] # Stop
    BY <1>4, <2>2 DEF Pop, Writing
  <2>4. \A i \in 1..Len(jobs') : jobs'[i] # Stop =>
          jobs'[i] \in Files /\ jobs'[i] < cur' /\ ~Packed(jobs'[i])
    BY <1>t, <2>1, <2>2 DEF JobsInv
  <2>5. ASSUME NEW i \in 1..Len(jobs'), NEW j \in 1..Len(jobs'),
               jobs'[i] = jobs'[j], jobs'[i] # Stop
        PROVE  i = j
    <3>1. i + 1 = j + 1
      BY <1>t, <2>2, <2>5 DEF JobsInv
    <3> QED
      BY <3>1
  <2>6. ASSUME Writing', NEW i \in 1..Len(jobs') PROVE jobs'[i] # wf'
    <3>1. i + 1 # 1
      BY <2>2
    <3> QED
      BY <1>t, <2>2, <2>3, <2>6, <3>1 DEF JobsInv
  <2> QED
    BY <1>p, <2>4, <2>5, <2>6 DEF JobsInv
<1>5. CASE Pack
  BY <1>1, <1>5 DEF Pack, Advance, Writing
<1>6. CASE \/ BeginMt \/ BeginGlobal \/ BeginWoken \/ BeginStray \/ GetWork \/ QueueWork \/ Join
           \/ PackedDone \/ CompressExit
  <2>1. jobs' = jobs /\ cur' = cur /\ wf' = wf /\ (Writing' => Writing)
    BY <1>6 DEF BeginMt, BeginGlobal, BeginWoken, BeginStray, GetWork, QueueWork, Join,
                PackedDone, CompressExit, main, Writing
  <2> QED
    BY <1>1, <2>1
<1>7. CASE \/ MtWait \/ MtSpurious \/ MtMerge \/ MtCommit \/ GlobalWrite
           \/ GlobalRelease \/ UNCHANGED vars
  <2>1. jobs' = jobs /\ cur' = cur /\ wf' = wf
    BY <1>7 DEF MtWait, MtSpurious, MtMerge, MtCommit, GlobalWrite, GlobalRelease, vars, main
  <2>2. Writing' => Writing
    BY <1>7 DEF MtWait, MtSpurious, MtMerge, MtCommit, GlobalWrite, GlobalRelease,
                vars, Writing
  <2> QED
    BY <1>1, <2>1, <2>2
<1>8. ASSUME NEW w \in Workers, Worker(w) PROVE JobsInv'
  <2>1. jobs' = jobs /\ cur' = cur /\ wf' = wf
    BY <1>8 DEF Worker, Take, CompressSegment, FinishSegment, main
  <2>2. Writing' => Writing
    BY <1>8 DEF Worker, Take, CompressSegment, FinishSegment, Writing
  <2> QED
    BY <1>1, <2>1, <2>2
<1> QED
  BY <1>2, <1>3, <1>4, <1>5, <1>6, <1>7, <1>8 DEF Next, Main, Writer

(* What is not in use is neither waiting nor held. *)
LEMMA UnusedStatic ==
  ASSUME TypeOK, ControlInv, ~StaticInUse
  PROVE  ~Waiting /\ ~Holding
<1>1. jobs \in Seq(Nat)
  BY DEF TypeOK
<1>2. ASSUME NEW i \in 1..Len(jobs), jobs[i] # Stop PROVE FALSE
  <2>1. jobs[i] \in Range(jobs)
    BY <1>1 DEF Range
  <2> QED
    BY <1>2, <2>1 DEF StaticInUse
<1>3. ~Holding
  BY DEF StaticInUse, Holding, Writing, ControlInv
<1> QED
  BY <1>2, <1>3 DEF Waiting

(* The static context: what may wait, hold or pack does not grow, except   *)
(* where the context is handed on.                                         *)
LEMMA StaticStep == MtInv /\ [Next]_vars => StaticInv'
<1> SUFFICES ASSUME MtInv, [Next]_vars, mode # "mt" PROVE StaticInv'
  BY SameMode DEF StaticInv
<1>t. TypeOK /\ ControlInv /\ JobsInv /\ StaticInv /\ mode' = mode
  BY SameMode DEF MtInv
<1>p. \A f : UseMt(f)' <=> UseMt(f)
  BY <1>t DEF UseMt
<1>q. jobs \in Seq(Nat)
  BY <1>t DEF TypeOK
<1>s. /\ gseg = 0 \/ mpc = "gwoken" => ~Waiting /\ ~Holding /\ ~Packing
      /\ Packing => ~Waiting /\ ~Holding
      /\ Holding => ~Waiting
      /\ \A i, j \in 1..Len(jobs) : jobs[i] # Stop /\ jobs[j] # Stop => i = j
  BY <1>t DEF StaticInv
<1>1. ASSUME jobs' = jobs, Holding' => Holding, Packing' => Packing,
             gseg' = 0 => gseg = 0, mpc' = "gwoken" => mpc = "gwoken"
      PROVE  StaticInv'
  <2>1. Waiting' => Waiting
    BY <1>1 DEF Waiting
  <2> QED
    BY <1>1, <1>s, <2>1, <1>t DEF StaticInv
<1>2. CASE BeginMt \/ GetWork \/ QueueWork
  <2>1. UNCHANGED <<jobs, gseg, wpc, wf, cur>>
    BY <1>2 DEF BeginMt, GetWork, QueueWork, main
  <2>2. UseMt(cur) /\ mpc' # "gwoken"
    BY <1>2, <1>t DEF BeginMt, GetWork, QueueWork, ControlInv
  <2> QED
    BY <1>1, <1>p, <2>1, <2>2 DEF Holding, Writing, Packing
<1>3. CASE BeginGlobal \/ BeginWoken \/ BeginStray
  <2>1. UNCHANGED <<jobs, wpc, wf, cur>>
    BY <1>3 DEF BeginGlobal, BeginWoken, BeginStray, main
  <2>2. (Holding' <=> Holding) /\ (Waiting' <=> Waiting)
    BY <2>1, <1>p DEF Holding, Writing, Waiting
  <2>3. \/ mpc' = "gsleep" /\ gseg' = gseg
        \/ mpc' = "pack" /\ gseg' = 1 /\ (gseg = 0 \/ mpc = "gwoken")
        \/ mpc' = "raced" /\ gseg' = 1
        \/ mpc' = "pack" /\ gseg' = 1 /\ ~StaticInUse
    BY <1>3 DEF BeginGlobal, BeginWoken, BeginStray, Claimed
  <2>4. CASE mpc' = "gsleep" /\ gseg' = gseg
    BY <2>1, <2>2, <2>4, <1>1 DEF Packing
  <2>5. CASE mpc' = "pack" /\ gseg' = 1 /\ (gseg = 0 \/ mpc = "gwoken")
    BY <1>s, <1>t, <2>1, <2>2, <2>5 DEF StaticInv
  <2>6. CASE mpc' = "raced" /\ gseg' = 1
    BY <2>1, <2>2, <2>6, <1>1 DEF Packing
  <2>7. CASE mpc' = "pack" /\ gseg' = 1 /\ ~StaticInUse
    <3>1. ~Waiting /\ ~Holding
      BY <1>q, <1>t, <2>7, UnusedStatic
    <3> QED
      BY <1>s, <1>t, <2>1, <2>2, <2>7, <3>1 DEF StaticInv
  <2> QED
    BY <2>3, <2>4, <2>5, <2>6, <2>7
<1>4. CASE Pack
  <2>1. UNCHANGED <<jobs, gseg, wpc, wf>>
    BY <1>4 DEF Pack
  <2>2. (mpc' = "send" /\ cur' = cur /\ mpc = "pack") \/ mpc' \in {"stop", "exit", "begin"}
    BY <1>4 DEF Pack, Advance
  <2>3. (Holding' => Holding) /\ (Packing' => Packing) /\ mpc' # "gwoken"
    BY <1>p, <2>1, <2>2 DEF Holding, Writing, Packing
  <2> QED
    BY <1>1, <2>1, <2>3
<1>5. CASE Send
  <2>1. cur \in Files /\ (~Packed(cur) => ~UseMt(cur)) /\ cur # Stop
    BY <1>5, <1>t, ModeFacts, Consts DEF Send, ControlInv
  <2>2. mpc = "send" /\ gseg' = gseg
    BY <1>5 DEF Send
  <2>3. CASE Packed(cur)
    <3>1. wpc' = "write" /\ wf' = cur /\ mpc' = "end" /\ jobs' = jobs
      BY <1>5, <2>3 DEF Send
    <3>2. ~Packing' /\ (Holding' => Packing) /\ (Waiting' <=> Waiting)
      BY <1>p, <2>2, <3>1 DEF Packing, Holding, Waiting
    <3> QED
      BY <1>s, <1>t, <2>2, <3>1, <3>2 DEF StaticInv
  <2>4. CASE ~Packed(cur)
    <3>1. jobs' = Append(jobs, cur) /\ UNCHANGED <<wpc, wf>> /\ mpc' \in {"stop", "exit", "begin"}
      BY <1>5, <2>4 DEF Send, Advance
    <3>2. Packing /\ ~Packing' /\ (Holding' => Holding)
      BY <1>p, <2>1, <2>2, <2>4, <3>1 DEF Packing, Holding, Writing
    <3>3. ~Waiting /\ ~Holding' /\ gseg # 0
      BY <1>s, <3>2
    <3>4. \A i \in 1..Len(jobs') : i = Len(jobs) + 1 \/ (i \in 1..Len(jobs) /\ jobs'[i] = jobs[i])
      BY <3>1, <1>q
    <3>5. \A i \in 1..Len(jobs') : jobs'[i] # Stop => i = Len(jobs) + 1
      BY <3>3, <3>4 DEF Waiting
    <3> QED
      BY <1>t, <2>2, <3>1, <3>2, <3>3, <3>5 DEF StaticInv
  <2> QED
    BY <2>3, <2>4
<1>6. CASE SendStop
  <2>1. /\ jobs' = Append(jobs, Stop) /\ UNCHANGED <<wpc, wf, gseg, cur>>
        /\ mpc' = "join"
    BY <1>6 DEF SendStop, main
  <2>2. \A i \in 1..Len(jobs') : jobs'[i] = Stop \/ (i \in 1..Len(jobs) /\ jobs'[i] = jobs[i])
    BY <2>1, <1>q
  <2>3. (Waiting' => Waiting) /\ (Holding' => Holding) /\ ~Packing'
    BY <2>1, <2>2, <1>p DEF Waiting, Holding, Writing, Packing
  <2> QED
    BY <1>s, <1>t, <2>1, <2>2, <2>3 DEF StaticInv
<1>7. CASE Join \/ PackedDone \/ CompressExit
  <2>1. UNCHANGED <<jobs, wf, gseg>>
    BY <1>7 DEF Join, PackedDone, CompressExit
  <2>2. mpc' \in {"exit", "begin", "exited"} /\ (wpc' = wpc \/ wpc' = "joined")
    BY <1>7 DEF Join, PackedDone, CompressExit
  <2> QED
    BY <1>1, <1>p, <2>1, <2>2 DEF Holding, Writing, Packing
<1>8. CASE Pop
  <2>1. /\ jobs' = Tail(jobs) /\ jobs # << >> /\ wpc = "pop"
        /\ UNCHANGED <<mpc, cur, gseg>>
    BY <1>8 DEF Pop, main
  <2>2. /\ \A i \in 1..Len(jobs') : i \in Nat /\ i + 1 \in 1..Len(jobs) /\ jobs'[i] = jobs[i + 1]
        /\ 1 \in 1..Len(jobs) /\ Head(jobs) = jobs[1]
    BY <2>1, <1>q
  <2>3. (Packing' <=> Packing) /\ (Waiting' => Waiting)
    BY <1>p, <2>1, <2>2 DEF Packing, Waiting
  <2>4. \A i, j \in 1..Len(jobs') : jobs'[i] # Stop /\ jobs'[j] # Stop => i = j
    <3>1. \A i, j \in 1..Len(jobs') : jobs'[i] # Stop /\ jobs'[j] # Stop => i + 1 = j + 1
      BY <2>2, <1>s
    <3> QED
      BY <3>1
  <2>5. CASE Head(jobs) = Stop
    <3>1. ~Holding'
      BY <1>8, <2>5 DEF Pop, Holding, Writing
    <3> QED
      BY <1>s, <1>t, <2>1, <2>3, <2>4, <3>1 DEF StaticInv
  <2>6. CASE Head(jobs) # Stop
    <3>1. Waiting
      BY <2>2, <2>6 DEF Waiting
    <3>2. gseg # 0 /\ mpc # "gwoken" /\ ~Packing
      BY <3>1, <1>s
    <3>3. ~Waiting'
      <4>1. ASSUME NEW i \in 1..Len(jobs'), jobs'[i] # Stop PROVE FALSE
        <5>1. i + 1 = 1 /\ i \in Nat /\ i \in 1..Len(jobs')
          BY <1>s, <2>2, <2>6, <4>1
        <5> QED
          BY <5>1
      <4> QED
        BY <4>1 DEF Waiting
    <3> QED
      BY <1>t, <2>1, <2>3, <2>4, <3>2, <3>3 DEF StaticInv
  <2> QED
    BY <2>5, <2>6
<1>9. CASE MtWait \/ MtSpurious \/ MtMerge \/ MtCommit \/ GlobalWrite
  <2>1. UNCHANGED <<jobs, wf, gseg, mpc, cur>>
    BY <1>9 DEF MtWait, MtSpurious, MtMerge, MtCommit, GlobalWrite, main
  <2>2. Writing' => Writing
    BY <1>9 DEF MtWait, MtSpurious, MtMerge, MtCommit, GlobalWrite, Writing
  <2> QED
    BY <1>1, <1>p, <2>1, <2>2 DEF Holding, Packing
<1>10. CASE GlobalRelease
  <2>1. UNCHANGED <<jobs, wf, cur>> /\ wpc = "commit"
    BY <1>10 DEF GlobalRelease, main
  <2>2. mpc' = mpc \/ (mpc = "gsleep" /\ mpc' = "gwoken")
    BY <1>10 DEF GlobalRelease, WakeMain
  <2>3. wpc' \in {"joined", "exited", "pop"}
    BY <1>10 DEF GlobalRelease, AfterWrite, AfterFailure
  <2>4. Holding
    BY <2>1, <1>t DEF Holding, Writing, ControlInv
  <2>5. ~Waiting /\ ~Packing
    BY <2>4, <1>s
  <2>6. ~Waiting' /\ ~Packing' /\ ~Holding'
    BY <1>p, <2>1, <2>2, <2>3, <2>5 DEF Waiting, Packing, Holding, Writing
  <2> QED
    BY <1>s, <1>t, <2>1, <2>6 DEF StaticInv
<1>11. ASSUME NEW w \in Workers, Worker(w) PROVE StaticInv'
  <2>1. UNCHANGED <<jobs, wf, gseg, mpc, cur>>
    BY <1>11 DEF Worker, Take, CompressSegment, FinishSegment, main
  <2>2. Writing' => Writing
    BY <1>11 DEF Worker, Take, CompressSegment, FinishSegment, Writing
  <2> QED
    BY <1>1, <1>p, <2>1, <2>2 DEF Holding, Packing
<1>12. CASE UNCHANGED vars
  BY <1>1, <1>p, <1>12 DEF vars, Holding, Packing, Writing
<1> QED
  BY <1>2, <1>3, <1>4, <1>5, <1>6, <1>7, <1>8, <1>9, <1>10, <1>11, <1>12
  DEF Next, Main, Writer
-----------------------------------------------------------------------------
(* A file owns works from when it is begun until it is committed. *)
LEMMA LiveKept ==
  ASSUME MtInv, [Next]_vars, ~BeginMt, ~MtCommit, NEW f \in Files
  PROVE  Live(f)' <=> Live(f)
<1>t. TypeOK /\ ControlInv /\ JobsInv /\ mode' = mode
  BY SameMode DEF MtInv
<1>p. \A g : UseMt(g)' <=> UseMt(g)
  BY <1>t DEF UseMt
<1>q. jobs \in Seq(Nat) /\ f # Stop
  BY <1>t, Consts DEF TypeOK
<1>1. ASSUME Queuing' <=> Queuing, Queuing => cur' = cur, jobs' = jobs, wf' = wf,
             UseMt(wf) => (wpc' \in {"write", "sleep", "merge"} <=> wpc \in {"write", "sleep", "merge"})
      PROVE  Live(f)' <=> Live(f)
  BY <1>1, <1>p DEF Live
<1>2. CASE BeginGlobal \/ BeginWoken \/ BeginStray \/ GetWork \/ QueueWork \/ PackedDone \/ CompressExit
  <2>1. UNCHANGED <<cur, jobs, wf, wpc>>
    BY <1>2 DEF BeginGlobal, BeginWoken, BeginStray, GetWork, QueueWork, PackedDone, CompressExit, main
  <2>2. Queuing' <=> Queuing
    BY <1>2 DEF BeginGlobal, BeginWoken, BeginStray, GetWork, QueueWork, PackedDone, CompressExit,
                MayBegin, Queuing
  <2> QED
    BY <1>1, <2>1, <2>2
<1>3. CASE Pack
  <2>1. UNCHANGED <<jobs, wf, wpc>> /\ mpc = "pack" /\ ~UseMt(cur)
    BY <1>3, <1>t DEF Pack, ControlInv
  <2>2. (mpc' = "send" /\ cur' = cur) \/ mpc' \in {"stop", "exit", "begin"}
    BY <1>3 DEF Pack, Advance
  <2> QED
    BY <1>p, <2>1, <2>2 DEF Live, Queuing
<1>4. CASE Send
  <2>1. mpc = "send" /\ cur \in Files /\ (Packed(cur) <=> wpc = "joined")
    BY <1>4, <1>t DEF Send, ControlInv
  <2>2. CASE Packed(cur)
    <3>1. wpc' = "write" /\ wf' = cur /\ mpc' = "end" /\ jobs' = jobs /\ cur' = cur
      BY <1>4, <2>2 DEF Send
    <3> QED
      BY <1>p, <2>1, <2>2, <3>1 DEF Live, Queuing
  <2>3. CASE ~Packed(cur)
    <3>1. jobs' = Append(jobs, cur) /\ UNCHANGED <<wpc, wf>> /\ mpc' \in {"stop", "exit", "begin"}
      BY <1>4, <2>3 DEF Send, Advance
    <3>2. (\E i \in 1..Len(jobs') : jobs'[i] = f) <=> f = cur \/ \E i \in 1..Len(jobs) : jobs[i] = f
      <4>1. /\ Len(jobs') = Len(jobs) + 1 /\ Len(jobs) \in Nat
            /\ jobs'[Len(jobs) + 1] = cur
            /\ \A i \in 1..Len(jobs) : jobs'[i] = jobs[i] /\ i \in 1..Len(jobs')
            /\ \A i \in 1..Len(jobs') : i \in 1..Len(jobs) \/ i = Len(jobs) + 1
        BY <3>1, <1>q
      <4>2. Len(jobs) + 1 \in 1..Len(jobs')
        BY <4>1
      <4> QED
        BY <4>1, <4>2
    <3> QED
      BY <1>p, <2>1, <3>1, <3>2 DEF Live, Queuing
  <2> QED
    BY <2>2, <2>3
<1>5. CASE SendStop
  <2>1. jobs' = Append(jobs, Stop) /\ UNCHANGED <<wpc, wf>> /\ mpc' = "join" /\ mpc = "stop"
    BY <1>5 DEF SendStop
  <2>2. (\E i \in 1..Len(jobs') : jobs'[i] = f) <=> \E i \in 1..Len(jobs) : jobs[i] = f
    <3>1. /\ Len(jobs') = Len(jobs) + 1 /\ Len(jobs) \in Nat
          /\ jobs'[Len(jobs) + 1] = Stop
          /\ \A i \in 1..Len(jobs) : jobs'[i] = jobs[i] /\ i \in 1..Len(jobs')
          /\ \A i \in 1..Len(jobs') : i \in 1..Len(jobs) \/ i = Len(jobs) + 1
      BY <2>1, <1>q
    <3> QED
      BY <3>1, <1>q
  <2> QED
    BY <1>p, <2>1, <2>2 DEF Live, Queuing
<1>6. CASE Join
  <2>1. UNCHANGED <<jobs, wf>> /\ mpc = "join" /\ mpc' \in {"exit", "begin"} /\ wpc = "exited" /\ wpc' = "joined"
    BY <1>6 DEF Join
  <2> QED
    BY <1>1, <2>1 DEF Queuing
<1>7. CASE Pop
  <2>1. jobs' = Tail(jobs) /\ jobs # << >> /\ wpc = "pop" /\ UNCHANGED <<mpc, cur>>
    BY <1>7 DEF Pop, main
  <2>2. \/ Head(jobs) = Stop /\ wpc' = "exited"
        \/ Head(jobs) # Stop /\ wpc' = "write" /\ wf' = Head(jobs)
    BY <1>7 DEF Pop
  <2>3. (\E i \in 1..Len(jobs) : jobs[i] = f) <=> f = Head(jobs) \/ \E i \in 1..Len(jobs') : jobs'[i] = f
    <3>1. /\ Len(jobs) = Len(jobs') + 1 /\ Len(jobs') \in Nat
          /\ Head(jobs) = jobs[1] /\ 1 \in 1..Len(jobs)
          /\ \A i \in 1..Len(jobs') : jobs'[i] = jobs[i + 1] /\ i + 1 \in 1..Len(jobs)
          /\ \A i \in 1..Len(jobs) : i = 1 \/ i - 1 \in 1..Len(jobs')
      BY <2>1, <1>q
    <3>2. \A i \in 1..Len(jobs) : i # 1 => jobs'[i - 1] = jobs[i]
      BY <3>1
    <3> QED
      BY <3>1, <3>2
  <2> QED
    BY <1>p, <1>q, <2>1, <2>2, <2>3 DEF Live, Queuing
<1>8. CASE MtWait \/ MtSpurious \/ MtMerge \/ GlobalWrite \/ GlobalRelease
  <2>1. UNCHANGED <<cur, jobs, wf>>
    BY <1>8 DEF MtWait, MtSpurious, MtMerge, GlobalWrite, GlobalRelease, main
  <2>2. Queuing' <=> Queuing
    BY <1>8 DEF MtWait, MtSpurious, MtMerge, GlobalWrite, GlobalRelease, WakeMain, Queuing
  <2>3. CASE MtWait \/ MtSpurious \/ MtMerge
    BY <1>1, <2>1, <2>2, <2>3 DEF MtWait, MtSpurious, MtMerge
  <2>4. CASE GlobalWrite \/ GlobalRelease
    <3>1. ~UseMt(wf)
      BY <2>4, <1>t DEF GlobalWrite, GlobalRelease, ControlInv, Writing
    <3> QED
      BY <1>1, <2>1, <2>2, <3>1
  <2> QED
    BY <1>8, <2>3, <2>4
<1>9. ASSUME NEW w \in Workers, Worker(w) PROVE Live(f)' <=> Live(f)
  <2>1. UNCHANGED <<mpc, cur, jobs, wf>>
    BY <1>9 DEF Worker, Take, CompressSegment, FinishSegment, main
  <2>2. wpc' \in {"write", "sleep", "merge"} <=> wpc \in {"write", "sleep", "merge"}
    BY <1>9 DEF Worker, Take, CompressSegment, FinishSegment
  <2> QED
    BY <1>1, <2>1, <2>2 DEF Queuing
<1>10. CASE UNCHANGED vars
  BY <1>1, <1>10 DEF vars, Queuing
<1> QED
  BY <1>2, <1>3, <1>4, <1>5, <1>6, <1>7, <1>8, <1>9, <1>10 DEF Next, Main, Writer

LEMMA LiveBegin ==
  ASSUME MtInv, BeginMt
  PROVE  /\ cur \in Files /\ ~Live(cur)
         /\ \A f \in Files : Live(f)' <=> Live(f) \/ f = cur
<1>t. TypeOK /\ ControlInv /\ JobsInv /\ mode' = mode
  BY DEF MtInv, BeginMt
<1>p. \A g : UseMt(g)' <=> UseMt(g)
  BY <1>t DEF UseMt
<1>1. /\ mpc = "begin" /\ mpc' = "get" /\ UNCHANGED <<cur, jobs, wpc, wf>>
      /\ cur \in Files /\ UseMt(cur)
  BY <1>t DEF BeginMt, MayBegin, ControlInv
<1>2. \A i \in 1..Len(jobs) : jobs[i] # cur
  BY <1>1, <1>t, Consts DEF JobsInv
<1>3. Writing => wf # cur
  BY <1>1, <1>t, Consts DEF ControlInv
<1>4. wpc \in {"write", "sleep", "merge"} => Writing
  BY DEF Writing
<1> QED
  BY <1>t, <1>p, <1>1, <1>2, <1>3, <1>4 DEF Live, Queuing

LEMMA LiveCommit ==
  ASSUME MtInv, MtCommit
  PROVE  /\ wf \in Files /\ Live(wf)
         /\ \A f \in Files : Live(f)' <=> Live(f) /\ f # wf
<1>t. TypeOK /\ ControlInv /\ JobsInv /\ mode' = mode
  BY DEF MtInv, MtCommit, main
<1>p. \A g : UseMt(g)' <=> UseMt(g)
  BY <1>t DEF UseMt
<1>1. /\ UNCHANGED <<mpc, cur, jobs, wf>> /\ wpc = "merge" /\ wf \in Files /\ UseMt(wf)
      /\ mpc # "end" => wf < cur
  BY <1>t DEF MtCommit, main, ControlInv, Writing
<1>2. wpc' \in {"joined", "exited", "pop"}
  BY DEF MtCommit, AfterWrite, AfterFailure
<1>3. \A i \in 1..Len(jobs) : jobs[i] # wf
  BY <1>1, <1>t DEF JobsInv, Writing
<1>4. Queuing => wf # cur
  BY <1>1, Consts DEF Queuing
<1> QED
  BY <1>t, <1>p, <1>1, <1>2, <1>3, <1>4 DEF Live, Queuing

(* A file is merged from the end of the wait for its segments to its       *)
(* commit, and that file owns works.                                       *)
LEMMA MergingKept ==
  ASSUME MtInv, [Next]_vars, ~MtWait, ~MtCommit, NEW f
  PROVE  Merging(f)' <=> Merging(f)
<1>1. CASE \/ BeginMt \/ BeginGlobal \/ BeginWoken \/ BeginStray \/ Pack \/ GetWork \/ QueueWork
           \/ SendStop \/ PackedDone \/ CompressExit \/ MtMerge \/ UNCHANGED vars
  BY <1>1 DEF Merging, BeginMt, BeginGlobal, BeginWoken, BeginStray, Pack, GetWork, QueueWork,
              SendStop, PackedDone, CompressExit, MtMerge, vars
<1>2. CASE Send \/ Join \/ Pop \/ MtSpurious \/ GlobalWrite \/ GlobalRelease
  <2>1. (wpc # "merge" /\ wpc' # "merge") \/ UNCHANGED <<wpc, wf>>
    <3>1. CASE Send
      <4>1. Packed(cur) => wpc = "joined"
        BY <3>1 DEF MtInv, Send, ControlInv
      <4> QED
        BY <3>1, <4>1 DEF Send
    <3>2. CASE Join \/ Pop \/ MtSpurious \/ GlobalWrite
      BY <3>2 DEF Join, Pop, MtSpurious, GlobalWrite
    <3>3. CASE GlobalRelease
      BY <3>3 DEF GlobalRelease, AfterWrite, AfterFailure
    <3> QED
      BY <1>2, <3>1, <3>2, <3>3
  <2> QED
    BY <2>1 DEF Merging
<1>3. ASSUME NEW w \in Workers, Worker(w) PROVE Merging(f)' <=> Merging(f)
  BY <1>3 DEF Worker, Take, CompressSegment, FinishSegment, Merging
<1> QED
  BY <1>1, <1>2, <1>3 DEF Next, Main, Writer

LEMMA MergingLive ==
  ASSUME MtInv, NEW f \in Files, Merging(f)
  PROVE  /\ Live(f) /\ ~(mpc \in {"begin", "get", "queue", "send", "stop", "join"} /\ f = cur)
         /\ wf = f /\ ~Fresh(f)
<1>1. ControlInv /\ TypeOK
  BY DEF MtInv
<1>2. wf = f /\ wpc = "merge" /\ UseMt(f) /\ (mpc = "end" \/ f < cur) /\ (mpc = "end" => f = cur)
  BY <1>1 DEF Merging, ControlInv, Writing
<1>3. f \in Nat /\ cur \in Nat
  BY <1>1, Consts DEF TypeOK
<1> QED
  BY <1>2, <1>3 DEF Live, Fresh
-----------------------------------------------------------------------------
LEMMA ChainedWorks ==
  ASSUME MtInv, NEW x, Chained(x)
  PROVE  x \in Works
BY DEF MtInv, ChainInv, FileChain, Slot, Chained

(* The work that z_erofs_mt_compress takes was in no chain and in nobody's *)
(* hands.                                                                  *)
LEMMA GetWorkFacts ==
  ASSUME MtInv, GetWork
  PROVE  /\ cur \in Files /\ UseMt(cur) /\ Live(cur) /\ ~Merging(cur)
         /\ seg \in 1..Segs[cur] /\ Len(chain[cur]) = seg - 1
         /\ hand = NULL /\ hand' \in Nat /\ ~Chained(hand') /\ ~HeldBy(hand')
         /\ Works' = Works \cup {hand'}
         /\ \A x \in Works : x # hand' => work'[x] = work[x]
         /\ work'[hand'] = [file |-> cur, seg |-> seg, blks |-> NoResult]
         /\ \/ /\ idle # << >> /\ hand' = Head(idle) /\ idle' = Tail(idle)
               /\ Len(work') = Len(work) /\ alloced' = alloced
            \/ /\ idle = << >> /\ hand' = Len(work) + 1 /\ idle' = idle
               /\ Len(work') = Len(work) + 1 /\ alloced' = alloced + 1
<1>t. TypeOK /\ ControlInv /\ ChainInv /\ IdleInv /\ HeldInv
  BY DEF MtInv
<1>1. mpc = "get" /\ cur \in Files /\ UseMt(cur) /\ seg <= Segs[cur] /\ hand = NULL
  BY <1>t DEF GetWork, ControlInv
<1>2. Live(cur) /\ ~Merging(cur)
  <2>1. Live(cur)
    BY <1>1 DEF Live, Queuing
  <2> QED
    BY <1>1, <2>1, MergingLive
<1>3. seg \in 1..Segs[cur] /\ Len(chain[cur]) = seg - 1
  <2>1. seg \in Nat /\ seg # 0 /\ Segs[cur] \in Nat
    BY <1>1, <1>t, Consts DEF TypeOK
  <2>2. Len(chain[cur]) = seg - 1
    BY <1>1, <1>2, <1>t DEF ChainInv, FileChain, Linked
  <2> QED
    BY <1>1, <2>1, <2>2
<1>q. work \in Seq(WorkRec) /\ idle \in Seq(Nat) /\ Len(work) \in Nat
  BY <1>t DEF TypeOK
<1> DEFINE new == [file |-> cur, seg |-> seg, blks |-> NoResult]
<1>4. \/ /\ idle # << >> /\ hand' = Head(idle) /\ idle' = Tail(idle)
         /\ work' = [work EXCEPT ![Head(idle)] = new] /\ alloced' = alloced
      \/ /\ idle = << >> /\ hand' = Len(work) + 1 /\ idle' = idle
         /\ work' = Append(work, new) /\ alloced' = alloced + 1
  BY DEF GetWork
<1>5. hand' \in Nat /\ ~Chained(hand') /\ (idle # << >> => hand' \in Works)
  <2>1. CASE idle # << >>
    <3>1. Head(idle) = idle[1] /\ 1 \in 1..Len(idle) /\ Head(idle) \in Nat
      BY <2>1, <1>q, SeqTake
    <3> QED
      BY <1>t, <1>4, <2>1, <3>1 DEF IdleInv
  <2>2. CASE idle = << >>
    <3>1. hand' = Len(work) + 1 /\ hand' \in Nat /\ hand' \notin Works
      BY <1>q, <1>4, <2>2 DEF Works
    <3> QED
      BY <2>2, <3>1, ChainedWorks
  <2> QED
    BY <2>1, <2>2
<1>6. ~HeldBy(hand')
  BY <1>t, <1>5 DEF HeldInv
<1> HIDE DEF new
<1>7. CASE idle # << >>
  <2>1. hand' \in 1..Len(work) /\ work' = [work EXCEPT ![hand'] = new]
    BY <1>4, <1>5, <1>7 DEF Works
  <2>2. Len(work') = Len(work) /\ work'[hand'] = new
        /\ \A x \in 1..Len(work) : x # hand' => work'[x] = work[x]
    BY <2>1, <1>q
  <2>3. Works' = Works \cup {hand'}
    BY <2>1, <2>2 DEF Works
  <2> QED
    BY <1>1, <1>2, <1>3, <1>4, <1>5, <1>6, <1>7, <2>2, <2>3 DEF new, Works
<1>8. CASE idle = << >>
  <2>1. hand' = Len(work) + 1 /\ work' = Append(work, new)
    BY <1>4, <1>8
  <2>2. Len(work') = Len(work) + 1 /\ work'[hand'] = new
        /\ \A x \in 1..Len(work) : work'[x] = work[x]
    BY <2>1, <1>q
  <2>3. Works' = Works \cup {hand'}
    BY <2>1, <2>2, <1>q DEF Works
  <2> QED
    BY <1>1, <1>2, <1>3, <1>4, <1>5, <1>6, <1>8, <2>2, <2>3 DEF new, Works
<1> QED
  BY <1>7, <1>8

(* What a work is for is fixed until it is taken again. *)
LEMMA SlotKept ==
  ASSUME MtInv, [Next]_vars, NEW x, NEW f, NEW s, Slot(x, f, s), GetWork => x # hand'
  PROVE  Slot(x, f, s)'
<1>1. CASE GetWork
  <2>1. x \in Works /\ x # hand'
    BY <1>1 DEF Slot
  <2>2. work'[x] = work[x] /\ x \in Works'
    BY <1>1, <2>1, GetWorkFacts
  <2> QED
    BY <2>2 DEF Slot
<1>2. ASSUME NEW w \in Workers, CompressSegment(w) PROVE Slot(x, f, s)'
  <2>1. work \in Seq(WorkRec) /\ x \in Works
    BY DEF MtInv, TypeOK, Slot
  <2>2. PICK b : work' = [work EXCEPT ![running[w]].blks = b]
    BY <1>2 DEF CompressSegment
  <2>3. x \in DOMAIN work /\ Len(work') = Len(work) /\ work[x] \in WorkRec
    BY <2>1, <2>2 DEF Works
  <2>4. work'[x] = IF x = running[w] THEN [work[x] EXCEPT !.blks = b] ELSE work[x]
    BY <2>2, <2>3
  <2>5. work'[x].file = work[x].file /\ work'[x].seg = work[x].seg
    BY <2>3, <2>4 DEF WorkRec
  <2> QED
    BY <2>1, <2>3, <2>5 DEF Slot, Works
<1>3. CASE work' = work
  BY <1>3 DEF Slot, Works
<1>4. CASE \/ BeginMt \/ BeginGlobal \/ BeginWoken \/ BeginStray \/ Pack \/ QueueWork \/ Send
           \/ SendStop \/ Join \/ PackedDone \/ CompressExit \/ Writer \/ MtSpurious
           \/ UNCHANGED vars
  <2>1. work' = work
    BY <1>4 DEF BeginMt, BeginGlobal, BeginWoken, BeginStray, Pack, QueueWork, Send, SendStop,
                Join, PackedDone, CompressExit, Writer, Pop, MtWait, MtSpurious,
                MtMerge, MtCommit, GlobalWrite, GlobalRelease, vars
  <2> QED
    BY <2>1, <1>3
<1>5. ASSUME NEW w \in Workers, Take(w) \/ FinishSegment(w) PROVE Slot(x, f, s)'
  <2>1. work' = work
    BY <1>5 DEF Take, FinishSegment
  <2> QED
    BY <2>1, <1>3
<1> QED
  BY <1>1, <1>2, <1>4, <1>5 DEF Next, Main, Worker
-----------------------------------------------------------------------------
LEMMA LinkedKept ==
  ASSUME [Next]_vars, NEW f, f = cur => ~BeginMt /\ ~GetWork /\ ~QueueWork
  PROVE  Linked(f)' = Linked(f)
<1>1. CASE BeginMt \/ GetWork \/ QueueWork
  <2>1. cur' = cur /\ f # cur
    BY <1>1 DEF BeginMt, GetWork, QueueWork
  <2> QED
    BY <2>1 DEF Linked
<1>2. ASSUME UNCHANGED <<mpc, cur, seg>> \/ (mpc \notin {"get", "queue"} /\ mpc' \notin {"get", "queue"})
      PROVE  Linked(f)' = Linked(f)
  BY <1>2 DEF Linked
<1>3. CASE BeginGlobal \/ BeginWoken \/ BeginStray \/ Pack \/ SendStop \/ Join \/ PackedDone \/ CompressExit
  BY <1>2, <1>3 DEF BeginGlobal, MayBegin, BeginWoken, BeginStray, Pack, Advance, SendStop, Join,
                    PackedDone, CompressExit
<1>4. CASE Send
  BY <1>2, <1>4 DEF Send, Advance
<1>5. CASE Pop \/ MtWait \/ MtSpurious \/ MtMerge \/ MtCommit \/ GlobalWrite \/ UNCHANGED vars
  BY <1>2, <1>5 DEF Pop, MtWait, MtSpurious, MtMerge, MtCommit, GlobalWrite, vars, main
<1>6. CASE GlobalRelease
  <2>1. UNCHANGED <<cur, seg>> /\ (mpc' = mpc \/ (mpc = "gsleep" /\ mpc' = "gwoken"))
    BY <1>6 DEF GlobalRelease, WakeMain, main
  <2> QED
    BY <1>2, <2>1
<1>7. ASSUME NEW w \in Workers, Worker(w) PROVE Linked(f)' = Linked(f)
  BY <1>2, <1>7 DEF Worker, Take, CompressSegment, FinishSegment, main
<1> QED
  BY <1>1, <1>3, <1>4, <1>5, <1>6, <1>7 DEF Next, Main, Writer

LEMMA ChainKept ==
  ASSUME MtInv, [Next]_vars, NEW f \in Files, chain'[f] = chain[f],
         Live(f)' <=> Live(f), Merging(f)' <=> Merging(f),
         Live(f) => ictx'[f] = ictx[f],
         Live(f) /\ ~Merging(f) => Linked(f)' = Linked(f)
  PROVE  FileChain(f)'
<1>1. FileChain(f)
  BY DEF MtInv, ChainInv
<1>2. Merged(f)' = Merged(f)
  BY DEF Merged
<1>3. ASSUME NEW k \in 1..Len(chain[f]) PROVE Slot(chain[f][k], f, Merged(f) + k)'
  <2>1. Slot(chain[f][k], f, Merged(f) + k)
    BY <1>1 DEF FileChain
  <2>2. GetWork => chain[f][k] # hand'
    BY GetWorkFacts DEF Chained
  <2>3. chain'[f][k] = chain[f][k]
    OBVIOUS
  <2>4. \A x, s : Slot(x, f, s) /\ (GetWork => x # hand') => Slot(x, f, s)'
    BY SlotKept
  <2> QED
    BY <1>2, <2>1, <2>2, <2>3, <2>4
<1> QED
  BY <1>1, <1>2, <1>3 DEF FileChain

(* The fields that the chains are made of change in few places. *)
LEMMA ChainFrame ==
  ASSUME [Next]_vars
  PROVE  /\ ~GetWork /\ ~MtMerge => chain' = chain
         /\ ~BeginMt /\ ~MtCommit => ictx' = ictx
<1>1. CASE Main
  BY <1>1 DEF Main, BeginMt, BeginGlobal, BeginWoken, Pack, GetWork, QueueWork,
              Send, SendStop, Join, PackedDone, CompressExit
<1>2. CASE Writer \/ MtSpurious \/ BeginStray \/ UNCHANGED vars
  BY <1>2 DEF Writer, Pop, MtWait, MtSpurious, BeginStray, MtMerge, MtCommit, GlobalWrite,
              GlobalRelease, vars
<1>3. ASSUME NEW w \in Workers, Worker(w) PROVE UNCHANGED <<chain, ictx>>
  BY <1>3 DEF Worker, Take, CompressSegment, FinishSegment
<1> QED
  BY <1>1, <1>2, <1>3 DEF Next

(* The first work of the chain of the file that is merged goes. *)
LEMMA MergeFacts ==
  ASSUME MtInv, MtMerge
  PROVE  /\ wf \in Files /\ Merging(wf) /\ UseMt(wf) /\ wf' = wf /\ wpc' = wpc
         /\ chain[wf] \in Seq(Nat) /\ chain[wf] # << >> /\ Head(chain[wf]) = chain[wf][1]
         /\ Len(chain[wf]) \in Nat /\ 1 \in 1..Len(chain[wf])
         /\ Slot(chain[wf][1], wf, Segs[wf] - Len(chain[wf]) + 1)
         /\ chain'[wf] = Tail(chain[wf]) /\ Len(chain'[wf]) = Len(chain[wf]) - 1
         /\ \A k \in 1..Len(chain'[wf]) :
              k + 1 \in 1..Len(chain[wf]) /\ chain'[wf][k] = chain[wf][k + 1]
         /\ \A f \in Files : f # wf => chain'[f] = chain[f]
         /\ idle' = <<chain[wf][1]>> \o idle
<1>1. TypeOK /\ ControlInv /\ ChainInv
  BY DEF MtInv
<1>2. wf \in Files /\ Merging(wf) /\ UseMt(wf) /\ UNCHANGED <<wf, wpc>> /\ chain[wf] # << >>
  BY <1>1 DEF MtMerge, Merging, ControlInv, Writing
<1>3. chain \in [Files -> Seq(Nat)] /\ chain[wf] \in Seq(Nat)
  BY <1>1, <1>2 DEF TypeOK
<1>4. /\ Head(chain[wf]) = chain[wf][1] /\ 1 \in 1..Len(chain[wf]) /\ Len(chain[wf]) \in Nat
      /\ Len(Tail(chain[wf])) = Len(chain[wf]) - 1
      /\ \A k \in 1..Len(Tail(chain[wf])) :
           k + 1 \in 1..Len(chain[wf]) /\ Tail(chain[wf])[k] = chain[wf][k + 1]
  BY <1>2, <1>3
<1>5. chain' = [chain EXCEPT ![wf] = Tail(chain[wf])] /\ idle' = <<Head(chain[wf])>> \o idle
  BY DEF MtMerge, RestOf
<1>6. Slot(chain[wf][1], wf, Segs[wf] - Len(chain[wf]) + 1)
  BY <1>1, <1>2, <1>4 DEF ChainInv, FileChain, Merged
<1> QED
  BY <1>2, <1>3, <1>4, <1>5, <1>6

LEMMA ChainStep == MtInv /\ [Next]_vars => ChainInv'
<1> SUFFICES ASSUME MtInv, [Next]_vars, NEW f \in Files PROVE FileChain(f)'
  BY DEF ChainInv
<1>t. TypeOK /\ ControlInv /\ ChainInv /\ CountInv /\ FileChain(f)
  BY DEF MtInv, ChainInv
<1>s. \A x, s : Slot(x, f, s) /\ (GetWork => x # hand') => Slot(x, f, s)'
  BY SlotKept
<1>q. chain[f] \in Seq(Nat) /\ Len(chain[f]) \in Nat /\ Segs[f] \in Nat
  <2>1. chain[f] \in Seq(Nat)
    BY <1>t DEF TypeOK
  <2> QED
    BY <2>1, Consts
<1>1. CASE BeginMt
  <2>1. ~MtWait /\ ~GetWork /\ ~MtMerge /\ ~MtCommit /\ mpc' = "get" /\ cur' = cur
    BY <1>1 DEF BeginMt, MtWait, GetWork, MtMerge, MtCommit, MayBegin, AfterWrite, AfterFailure, TypeOK
  <2>2. chain' = chain /\ (Merging(f)' <=> Merging(f))
    BY <2>1, ChainFrame, MergingKept
  <2>3. CASE f = cur
    <3>1. ~Live(f) /\ Live(f)'
      BY <1>1, <2>3, LiveBegin
    <3>2. chain'[f] = << >> /\ ~Merging(f)'
      BY <1>t, <2>2, <3>1, MergingLive DEF FileChain
    <3>3. ictx'[f] = "live" /\ seg' = 1 /\ cur' = cur
      BY <1>1, <2>3, <1>t DEF BeginMt, TypeOK
    <3>4. Linked(f)' = 0
      BY <2>1, <2>3, <3>3 DEF Linked
    <3> QED
      BY <3>1, <3>2, <3>3, <3>4 DEF FileChain
  <2>4. CASE f # cur
    <3>1. (Live(f)' <=> Live(f)) /\ Linked(f)' = Linked(f)
      BY <1>1, <2>4, LiveBegin, LinkedKept
    <3>2. ictx'[f] = ictx[f]
      BY <1>1, <1>t, <2>4 DEF BeginMt, TypeOK
    <3> QED
      BY <2>2, <3>1, <3>2, ChainKept
  <2> QED
    BY <2>3, <2>4
<1>2. CASE GetWork
  <2>1. ~BeginMt /\ ~MtWait /\ ~MtMerge /\ ~MtCommit /\ cur' = cur
    BY <1>2 DEF BeginMt, MtWait, GetWork, MtMerge, MtCommit, MayBegin, AfterWrite, AfterFailure
  <2>2. (Merging(f)' <=> Merging(f)) /\ (Live(f)' <=> Live(f)) /\ ictx' = ictx
    BY <2>1, MergingKept, LiveKept, ChainFrame
  <2>3. chain' = [chain EXCEPT ![cur] = Append(chain[cur], hand')] /\ chain \in [Files -> Seq(Nat)]
    BY <1>2, <1>t DEF GetWork, TypeOK
  <2>4. CASE f # cur
    <3>1. Linked(f)' = Linked(f) /\ chain'[f] = chain[f]
      BY <2>3, <2>4, LinkedKept
    <3> QED
      BY <2>2, <3>1, ChainKept
  <2>5. CASE f = cur
    <3>1. /\ Live(f) /\ ~Merging(f) /\ Len(chain[f]) = seg - 1 /\ seg \in Nat /\ hand' \in Nat
          /\ ~Chained(hand') /\ hand' \in Works'
          /\ work'[hand'] = [file |-> cur, seg |-> seg, blks |-> NoResult]
      BY <1>2, <2>5, GetWorkFacts
    <3>2. Len(chain'[f]) = seg /\ Linked(f)' = seg
      BY <1>2, <1>q, <2>3, <2>5, <3>1 DEF GetWork, Linked
    <3>3. ASSUME NEW k \in 1..Len(chain'[f]) PROVE Slot(chain[f][k], f, Merged(f) + k)'
      <4>1. Merged(f) = 0 /\ Merged(f)' = 0
        BY <2>2, <3>1 DEF Merged
      <4>2. CASE k \in 1..Len(chain[f])
        <5>1. chain'[f][k] = chain[f][k] /\ chain[f][k] # hand'
          BY <2>3, <2>5, <1>q, <3>1, <4>2 DEF Chained
        <5>2. Slot(chain[f][k], f, Merged(f) + k)
          BY <1>t, <4>2 DEF FileChain
        <5> QED
          BY <1>s, <4>1, <5>1, <5>2
      <4>3. CASE k = Len(chain[f]) + 1
        <5>1. chain'[f][k] = hand' /\ k = seg /\ 0 + k = seg
          BY <2>3, <2>5, <1>q, <3>1, <4>3
        <5>2. work'[hand'].file = f /\ work'[hand'].seg = seg
          BY <2>5, <3>1
        <5> QED
          BY <4>1, <5>1, <5>2, <3>1 DEF Slot
      <4> QED
        BY <1>q, <3>1, <3>2, <4>2, <4>3
    <3>4. ictx'[f] = "live"
      BY <1>t, <2>2, <3>1 DEF FileChain
    <3> QED
      BY <2>2, <3>1, <3>2, <3>3, <3>4 DEF FileChain
  <2> QED
    BY <2>4, <2>5
<1>3. CASE QueueWork
  <2>1. ~BeginMt /\ ~GetWork /\ ~MtWait /\ ~MtMerge /\ ~MtCommit
    BY <1>3 DEF BeginMt, MtWait, GetWork, QueueWork, MtMerge, MtCommit, MayBegin, AfterWrite, AfterFailure
  <2>2. /\ (Merging(f)' <=> Merging(f)) /\ (Live(f)' <=> Live(f)) /\ chain' = chain
        /\ ictx' = ictx
    BY <2>1, MergingKept, LiveKept, ChainFrame
  <2>3. f # cur => Linked(f)' = Linked(f)
    BY LinkedKept
  <2>4. f = cur => Linked(f)' = Linked(f)
    <3>1. mpc = "queue" /\ cur' = cur /\ seg' = seg + 1 /\ seg \in Nat
      BY <1>3, <1>t DEF QueueWork, TypeOK
    <3>2. mpc' = IF seg = Segs[cur] THEN "send" ELSE "get"
      BY <1>3 DEF QueueWork
    <3> QED
      BY <3>1, <3>2 DEF Linked
  <2> QED
    BY <2>2, <2>3, <2>4, ChainKept
<1>4. CASE MtWait
  <2>1. ~BeginMt /\ ~GetWork /\ ~MtMerge /\ ~MtCommit
    BY <1>4 DEF BeginMt, GetWork, MtMerge, MtCommit, MtWait
  <2>2. /\ (Live(f)' <=> Live(f)) /\ chain' = chain /\ ictx' = ictx
    BY <2>1, LiveKept, ChainFrame
  <2>3. UNCHANGED <<mpc, cur, seg, wf>> /\ wpc = "write" /\ UseMt(wf)
    BY <1>4 DEF MtWait, main
  <2>4. Linked(f)' = Linked(f)
    BY <2>3 DEF Linked
  <2>5. CASE wf # f \/ wpc' # "merge"
    <3>1. Merging(f)' <=> Merging(f)
      BY <2>3, <2>5 DEF Merging
    <3> QED
      BY <2>2, <2>4, <3>1, ChainKept
  <2>6. CASE wf = f /\ wpc' = "merge"
    <3>1. Merging(f)' /\ ~Merging(f) /\ Live(f)
      BY <2>3, <2>6 DEF Merging, Live
    <3>2. mpc # "end" => f # cur
      BY <1>t, <2>3, <2>6, Consts DEF ControlInv, Writing
    <3>3. Len(chain[f]) = Segs[f]
      BY <1>t, <3>1, <3>2 DEF FileChain, Linked
    <3>4. Merged(f)' = 0 /\ Merged(f) = 0
      BY <1>q, <2>2, <3>1, <3>3 DEF Merged
    <3>5. ASSUME NEW k \in 1..Len(chain[f]) PROVE Slot(chain[f][k], f, Merged(f) + k)'
      <4>1. Slot(chain[f][k], f, Merged(f) + k)
        BY <1>t, <3>5 DEF FileChain
      <4> QED
        BY <1>s, <2>1, <2>2, <3>4, <4>1
    <3> QED
      BY <1>t, <1>q, <2>2, <3>1, <3>3, <3>5 DEF FileChain
  <2> QED
    BY <2>5, <2>6
<1>5. CASE MtMerge
  <2>1. ~BeginMt /\ ~GetWork /\ ~MtWait /\ ~MtCommit
    BY <1>5 DEF BeginMt, GetWork, MtMerge, MtCommit, MtWait
  <2>2. /\ (Live(f)' <=> Live(f)) /\ (Merging(f)' <=> Merging(f)) /\ ictx' = ictx
        /\ Linked(f)' = Linked(f)
    BY <2>1, LiveKept, MergingKept, ChainFrame, LinkedKept, <1>5 DEF QueueWork, MtMerge, main, Linked
  <2>3. CASE f # wf
    <3>1. chain'[f] = chain[f]
      BY <1>5, <2>3, MergeFacts
    <3> QED
      BY <2>2, <3>1, ChainKept
  <2>4. CASE f = wf
    <3>1. /\ Merging(f) /\ Len(chain'[f]) = Len(chain[f]) - 1
          /\ \A k \in 1..Len(chain'[f]) :
               k + 1 \in 1..Len(chain[f]) /\ chain'[f][k] = chain[f][k + 1]
      BY <1>5, <2>4, MergeFacts
    <3>2. Len(chain[f]) <= Segs[f] /\ Live(f) /\ ictx[f] = "live"
      BY <1>t, <3>1, MergingLive DEF FileChain
    <3>3. ASSUME NEW k \in 1..Len(chain'[f]) PROVE Slot(chain[f][k], f, Merged(f) + k)'
      <4>1. Slot(chain[f][k + 1], f, Merged(f) + (k + 1))
        BY <1>t, <3>1, <3>3 DEF FileChain
      <4>2. Merged(f)' + k = Merged(f) + (k + 1)
        <5>1. Merged(f)' = Segs[f] - Len(chain'[f]) /\ Merged(f) = Segs[f] - Len(chain[f])
          BY <2>2, <3>1 DEF Merged
        <5>2. k \in Int /\ Len(chain'[f]) = Len(chain[f]) - 1
          BY <3>1, <3>3
        <5>3. Merged(f)' = Merged(f) + 1 /\ Merged(f) \in Int
          BY <1>q, <5>1, <5>2
        <5>4. \A a, b, c \in Int : a = b + 1 => a + c = b + (c + 1)
          OBVIOUS
        <5>5. Merged(f)' \in Int
          BY <5>3
        <5> QED
          BY <5>2, <5>3, <5>4, <5>5
      <4>3. Slot(chain[f][k + 1], f, Merged(f) + (k + 1)) => chain'[f][k] = chain[f][k + 1]
        BY <3>1, <3>3
      <4> QED
        BY <1>s, <2>1, <3>1, <4>1, <4>2, <4>3
    <3> QED
      BY <1>q, <2>2, <3>1, <3>2, <3>3 DEF FileChain
  <2> QED
    BY <2>3, <2>4
<1>6. CASE MtCommit
  <2>1. ~BeginMt /\ ~GetWork /\ ~MtMerge /\ ~QueueWork
    BY <1>6 DEF BeginMt, GetWork, MtMerge, MtCommit, QueueWork, main, MayBegin, AfterWrite, AfterFailure
  <2>2. chain' = chain /\ Linked(f)' = Linked(f)
    BY <2>1, ChainFrame, LinkedKept
  <2>3. wf' = wf /\ wpc = "merge" /\ wpc' # "merge" /\ chain[wf] = << >> /\ wf \in Files
    BY <1>6, <1>t DEF MtCommit, main, AfterWrite, AfterFailure, ControlInv, Writing
  <2>4. CASE f = wf
    <3>1. ~Live(f)' /\ chain'[f] = << >> /\ ~Merging(f)'
      BY <1>6, <2>2, <2>3, <2>4, LiveCommit DEF Merging
    <3> QED
      BY <3>1 DEF FileChain
  <2>5. CASE f # wf
    <3>1. (Live(f)' <=> Live(f)) /\ (Merging(f)' <=> Merging(f))
      BY <1>6, <2>3, <2>5, LiveCommit DEF Merging
    <3>2. ictx'[f] = ictx[f]
      BY <1>6, <1>t, <2>3, <2>5 DEF MtCommit, TypeOK
    <3> QED
      BY <2>2, <3>1, <3>2, ChainKept
  <2> QED
    BY <2>4, <2>5
<1>7. CASE ~BeginMt /\ ~GetWork /\ ~QueueWork /\ ~MtWait /\ ~MtMerge /\ ~MtCommit
  <2>1. /\ (Live(f)' <=> Live(f)) /\ (Merging(f)' <=> Merging(f)) /\ ictx' = ictx
        /\ chain' = chain /\ Linked(f)' = Linked(f)
    BY <1>7, LiveKept, MergingKept, ChainFrame, LinkedKept
  <2> QED
    BY <2>1, ChainKept
<1> QED
  BY <1>1, <1>2, <1>3, <1>4, <1>5, <1>6, <1>7
-----------------------------------------------------------------------------
(* Who holds works: the main thread gets one, puts it into the queue, a    *)
(* worker takes it and finishes it; nothing else changes.                  *)
LEMMA PoolFrame ==
  ASSUME [Next]_vars, ~GetWork, ~QueueWork, \A w \in Workers : ~Take(w) /\ ~FinishSegment(w)
  PROVE  UNCHANGED <<hand, queue, running>>
<1>1. CASE \/ BeginMt \/ BeginGlobal \/ BeginWoken \/ BeginStray \/ Pack \/ Send
           \/ SendStop \/ Join \/ PackedDone \/ CompressExit
  BY <1>1 DEF BeginMt, BeginGlobal, BeginWoken, BeginStray, Pack, Send, SendStop,
              Join, PackedDone, CompressExit, main, pool
<1>2. CASE Writer \/ MtSpurious \/ BeginStray \/ UNCHANGED vars
  BY <1>2 DEF Writer, Pop, MtWait, MtSpurious, BeginStray, MtMerge, MtCommit, GlobalWrite,
              GlobalRelease, vars, main, pool
<1>3. ASSUME NEW w \in Workers, CompressSegment(w) PROVE UNCHANGED <<hand, queue, running>>
  BY <1>3 DEF CompressSegment, main
<1> QED
  BY <1>1, <1>2, <1>3 DEF Next, Main, Worker

LEMMA QueueWorkFacts ==
  ASSUME MtInv, QueueWork
  PROVE  /\ hand \in Nat /\ hand' = NULL /\ running' = running
         /\ \A x \in Nat : InQueue(x)' <=> InQueue(x) \/ x = hand
         /\ \A x : InRun(x)' <=> InRun(x)
         /\ queue \in Seq(Nat) /\ queue' = Append(queue, hand)
<1>1. queue' = Append(queue, hand) /\ hand' = NULL /\ running' = running /\ hand \in Nat
  BY DEF QueueWork, MtInv, ControlInv, TypeOK
<1>2. queue \in Seq(Nat)
  BY DEF MtInv, TypeOK
<1>3. /\ Len(queue') = Len(queue) + 1 /\ Len(queue) \in Nat
      /\ queue'[Len(queue) + 1] = hand /\ Len(queue) + 1 \in 1..Len(queue')
      /\ \A i \in 1..Len(queue) : queue'[i] = queue[i] /\ i \in 1..Len(queue')
      /\ \A i \in 1..Len(queue') : i \in 1..Len(queue) \/ i = Len(queue) + 1
  BY <1>1, <1>2
<1>4. \A x : InQueue(x)' <=> InQueue(x) \/ x = hand
  BY <1>3 DEF InQueue
<1>5. \A x : InRun(x)' <=> InRun(x)
  BY <1>1 DEF InRun
<1> QED
  BY <1>1, <1>2, <1>4, <1>5

LEMMA TakeFacts ==
  ASSUME MtInv, NEW w \in Workers, Take(w)
  PROVE  /\ Head(queue) \in Nat /\ hand' = hand /\ InQueue(Head(queue))
         /\ \A x \in Nat : InQueue(x)' <=> InQueue(x) /\ x # Head(queue)
         /\ \A x \in Nat : InRun(x)' <=> InRun(x) \/ x = Head(queue)
         /\ queue \in Seq(Nat) /\ queue # << >> /\ queue' = Tail(queue)
<1>t. queue \in Seq(Nat) /\ running \in [Workers -> Nat \cup {NULL}] /\ NULL \notin Nat /\ Apart
  BY Consts DEF MtInv, TypeOK, HeldInv
<1>1. /\ queue # << >> /\ queue' = Tail(queue) /\ hand' = hand
      /\ running[w] = NULL /\ running' = [running EXCEPT ![w] = Head(queue)]
  BY DEF Take, main
<1>2. /\ Len(queue) = Len(queue') + 1 /\ Len(queue') \in Nat
      /\ Head(queue) = queue[1] /\ 1 \in 1..Len(queue) /\ Head(queue) \in Nat
      /\ \A i \in 1..Len(queue') : queue'[i] = queue[i + 1] /\ i + 1 \in 1..Len(queue) /\ i + 1 # 1
      /\ \A i \in 1..Len(queue) : i = 1 \/ i - 1 \in 1..Len(queue')
  BY <1>t, <1>1
<1>3. \A i \in 1..Len(queue) : i # 1 => queue'[i - 1] = queue[i]
  BY <1>2
<1>4. \A i \in 1..Len(queue') : queue'[i] # Head(queue)
  <2>1. \A i, j \in 1..Len(queue) : queue[i] = queue[j] => i = j
    BY <1>t DEF Apart
  <2> QED
    BY <1>2, <2>1
<1>5. \A x \in Nat : InQueue(x)' <=> InQueue(x) /\ x # Head(queue)
  BY <1>2, <1>3, <1>4 DEF InQueue
<1>6. \A x \in Nat : InRun(x)' <=> InRun(x) \/ x = Head(queue)
  <2>1. \A v \in Workers : running'[v] = IF v = w THEN Head(queue) ELSE running[v]
    BY <1>t, <1>1
  <2> QED
    BY <1>t, <1>1, <2>1 DEF InRun
<1> QED
  BY <1>t, <1>1, <1>2, <1>5, <1>6 DEF InQueue

LEMMA FinishFacts ==
  ASSUME MtInv, NEW w \in Workers, FinishSegment(w)
  PROVE  /\ running[w] \in Nat /\ running[w] \in Works /\ UNCHANGED <<hand, queue>>
         /\ \A x : InQueue(x)' <=> InQueue(x)
         /\ \A x \in Nat : InRun(x)' <=> InRun(x) /\ x # running[w]
         /\ running' = [running EXCEPT ![w] = NULL]
<1>t. running \in [Workers -> Nat \cup {NULL}] /\ NULL \notin Nat /\ Apart
  BY Consts DEF MtInv, TypeOK, HeldInv
<1>1. running[w] # NULL /\ running' = [running EXCEPT ![w] = NULL] /\ UNCHANGED <<hand, queue>>
  BY DEF FinishSegment, main
<1>2. running[w] \in Nat /\ running[w] \in Works
  BY <1>t, <1>1, HeldWorks DEF HeldBy, InRun
<1>3. \A v \in Workers : running'[v] = IF v = w THEN NULL ELSE running[v]
  BY <1>t, <1>1
<1>4. \A v \in Workers : v # w => running[v] # running[w]
  BY <1>t, <1>1 DEF Apart
<1>5. \A x \in Nat : InRun(x)' <=> InRun(x) /\ x # running[w]
  BY <1>t, <1>3, <1>4 DEF InRun
<1>6. \A x : InQueue(x)' <=> InQueue(x)
  BY <1>1 DEF InQueue
<1> QED
  BY <1>1, <1>2, <1>5, <1>6

(* The end of a segment is a step of no other thread. *)
LEMMA FinishAlone ==
  ASSUME MtInv, NEW w \in Workers, FinishSegment(w)
  PROVE  ~BeginMt /\ ~GetWork /\ ~MtMerge /\ ~MtWait /\ ~MtCommit
<1>1. running' # running
  <2>1. running[w] # NULL /\ running' = [running EXCEPT ![w] = NULL]
    BY DEF FinishSegment
  <2>2. running \in [Workers -> Nat \cup {NULL}]
    BY DEF MtInv, TypeOK
  <2>3. running'[w] = NULL
    BY <2>1, <2>2
  <2> QED
    BY <2>1, <2>3
<1>2. BeginMt \/ GetWork \/ MtMerge \/ MtWait \/ MtCommit => running' = running
  BY DEF BeginMt, GetWork, MtMerge, MtWait, MtCommit, pool
<1> QED
  BY <1>1, <1>2

(* Where the works are held. *)
LEMMA HeldGet ==
  ASSUME MtInv, GetWork
  PROVE  /\ \A x : (InQueue(x)' <=> InQueue(x)) /\ (InRun(x)' <=> InRun(x))
         /\ \A x \in Nat : HeldBy(x)' <=> HeldBy(x) \/ x = hand'
<1>1. UNCHANGED <<queue, running>> /\ hand = NULL /\ NULL \notin Nat
  BY GetWorkFacts, Consts DEF GetWork, pool
<1>2. \A x : (InQueue(x)' <=> InQueue(x)) /\ (InRun(x)' <=> InRun(x))
  BY <1>1 DEF InQueue, InRun
<1> QED
  BY <1>1, <1>2 DEF HeldBy

LEMMA HeldFinish ==
  ASSUME MtInv, NEW w \in Workers, FinishSegment(w)
  PROVE  \A x \in Nat : HeldBy(x)' <=> HeldBy(x) /\ x # running[w]
<1>1. running[w] # hand /\ ~InQueue(running[w])
  BY FinishFacts DEF MtInv, HeldInv, Apart, InRun
<1> QED
  BY <1>1, FinishFacts DEF HeldBy

LEMMA HeldKept ==
  ASSUME MtInv, [Next]_vars, ~GetWork, \A w \in Workers : ~FinishSegment(w)
  PROVE  \A x \in Nat : HeldBy(x)' <=> HeldBy(x)
<1>1. CASE QueueWork
  BY <1>1, QueueWorkFacts, Consts DEF HeldBy
<1>2. ASSUME NEW w \in Workers, Take(w) PROVE \A x \in Nat : HeldBy(x)' <=> HeldBy(x)
  BY <1>2, TakeFacts DEF HeldBy
<1>3. CASE UNCHANGED <<hand, queue, running>>
  BY <1>3 DEF HeldBy, InQueue, InRun
<1> QED
  BY <1>1, <1>2, <1>3, PoolFrame

(* A work is one segment of one file: the chains have no work twice. *)
LEMMA ChainPlace ==
  ASSUME MtInv, NEW f \in Files, NEW g \in Files, NEW k \in 1..Len(chain[f]),
         NEW m \in 1..Len(chain[g]), chain[f][k] = chain[g][m]
  PROVE  f = g /\ k = m
<1>1. Slot(chain[f][k], f, Merged(f) + k) /\ Slot(chain[g][m], g, Merged(g) + m)
  BY DEF MtInv, ChainInv, FileChain
<1>2. f = g /\ Merged(f) + k = Merged(g) + m
  BY <1>1 DEF Slot
<1>3. Merged(f) \in Int
  <2>1. chain[f] \in Seq(Nat) /\ Segs[f] \in Nat
    BY Consts DEF MtInv, TypeOK
  <2> QED
    BY <2>1 DEF Merged
<1> QED
  BY <1>2, <1>3

LEMMA ChainedGet ==
  ASSUME MtInv, GetWork, NEW x
  PROVE  Chained(x)' <=> Chained(x) \/ x = hand'
<1>1. chain \in [Files -> Seq(Nat)] /\ chain' = [chain EXCEPT ![cur] = Append(chain[cur], hand')]
      /\ cur \in Files
  BY GetWorkFacts DEF MtInv, TypeOK, GetWork
<1>2. /\ \A f \in Files : f # cur => chain'[f] = chain[f]
      /\ chain'[cur] = Append(chain[cur], hand')
  BY <1>1
<1>3. /\ Len(chain'[cur]) = Len(chain[cur]) + 1 /\ Len(chain[cur]) \in Nat
      /\ chain'[cur][Len(chain[cur]) + 1] = hand'
      /\ \A k \in 1..Len(chain[cur]) : chain'[cur][k] = chain[cur][k]
  <2>1. chain[cur] \in Seq(Nat)
    BY <1>1
  <2> QED
    BY <1>2, <2>1
<1>4. /\ Len(chain[cur]) + 1 \in 1..Len(chain'[cur])
      /\ \A k \in 1..Len(chain[cur]) : k \in 1..Len(chain'[cur])
      /\ \A k \in 1..Len(chain'[cur]) : k \in 1..Len(chain[cur]) \/ k = Len(chain[cur]) + 1
  BY <1>3
<1>5. ASSUME Chained(x)' PROVE Chained(x) \/ x = hand'
  <2>1. PICK f \in Files : \E k \in 1..Len(chain'[f]) : chain'[f][k] = x
    BY <1>5 DEF Chained
  <2> QED
    BY <1>1, <1>2, <1>3, <1>4, <2>1 DEF Chained
<1>6. ASSUME Chained(x) PROVE Chained(x)'
  <2>1. PICK f \in Files : \E k \in 1..Len(chain[f]) : chain[f][k] = x
    BY <1>6 DEF Chained
  <2> QED
    BY <1>1, <1>2, <1>3, <1>4, <2>1 DEF Chained
<1>7. ASSUME x = hand' PROVE Chained(x)'
  BY <1>1, <1>3, <1>4, <1>7 DEF Chained
<1> QED
  BY <1>5, <1>6, <1>7

LEMMA ChainedMerge ==
  ASSUME MtInv, MtMerge, NEW x
  PROVE  Chained(x)' <=> Chained(x) /\ x # chain[wf][1]
<1>1. /\ wf \in Files /\ Len(chain[wf]) \in Nat /\ 1 \in 1..Len(chain[wf])
      /\ Len(chain'[wf]) = Len(chain[wf]) - 1
      /\ \A k \in 1..Len(chain'[wf]) :
           k + 1 \in 1..Len(chain[wf]) /\ chain'[wf][k] = chain[wf][k + 1]
      /\ \A f \in Files : f # wf => chain'[f] = chain[f]
  BY MergeFacts
<1>2. ASSUME Chained(x)' PROVE Chained(x) /\ x # chain[wf][1]
  <2>a. PICK f \in Files : \E k \in 1..Len(chain'[f]) : chain'[f][k] = x
    BY <1>2 DEF Chained
  <2>1. PICK k \in 1..Len(chain'[f]) : chain'[f][k] = x
    BY <2>a
  <2>2. CASE f = wf
    <3>1. k + 1 \in 1..Len(chain[wf]) /\ chain[wf][k + 1] = x /\ k + 1 # 1
      BY <1>1, <2>1, <2>2
    <3> QED
      BY <1>1, <3>1, ChainPlace DEF Chained
  <2>3. CASE f # wf
    BY <1>1, <2>1, <2>3, ChainPlace DEF Chained
  <2> QED
    BY <2>2, <2>3
<1>3. ASSUME Chained(x), x # chain[wf][1] PROVE Chained(x)'
  <2>a. PICK f \in Files : \E k \in 1..Len(chain[f]) : chain[f][k] = x
    BY <1>3 DEF Chained
  <2>1. PICK k \in 1..Len(chain[f]) : chain[f][k] = x
    BY <2>a
  <2>2. CASE f = wf
    <3>1. k # 1
      BY <1>3, <2>1, <2>2
    <3>2. k - 1 \in 1..Len(chain'[wf]) /\ (k - 1) + 1 = k
      BY <1>1, <2>1, <2>2, <3>1
    <3>3. chain'[wf][k - 1] = x
      BY <1>1, <2>1, <2>2, <3>2
    <3> QED
      BY <1>1, <3>2, <3>3 DEF Chained
  <2>3. CASE f # wf
    BY <1>1, <2>1, <2>3 DEF Chained
  <2> QED
    BY <2>2, <2>3
<1> QED
  BY <1>2, <1>3

LEMMA ChainedKept ==
  ASSUME [Next]_vars, ~GetWork, ~MtMerge, NEW x
  PROVE  Chained(x)' <=> Chained(x)
<1>1. chain' = chain
  BY ChainFrame
<1> QED
  BY <1>1 DEF Chained
-----------------------------------------------------------------------------
LEMMA IdleFrame ==
  ASSUME MtInv, [Next]_vars, ~GetWork, ~MtMerge, ~CompressExit
  PROVE  /\ UNCHANGED <<idle, alloced>> /\ Works' = Works /\ Len(work') = Len(work)
         /\ mpc' = "exited" <=> mpc = "exited"
         /\ mpc = "exited" => done' = done
<1>c. mpc = "exited" => wpc = "joined"
  BY DEF MtInv, ControlInv
<1>1. CASE BeginMt \/ BeginGlobal \/ BeginWoken \/ BeginStray \/ Pack \/ QueueWork \/ SendStop \/ Join \/ PackedDone
  BY <1>1 DEF BeginMt, MayBegin, BeginGlobal, BeginWoken, BeginStray, Pack, Advance, QueueWork,
              SendStop, Join, PackedDone, main, Works
<1>2. CASE Send
  BY <1>2 DEF Send, Advance, Works
<1>3. CASE Pop \/ MtWait \/ MtSpurious \/ UNCHANGED vars
  BY <1>3 DEF Pop, MtWait, MtSpurious, vars, main, Works
<1>4. CASE MtCommit \/ GlobalWrite
  BY <1>c, <1>4 DEF MtCommit, GlobalWrite, main, Works
<1>5. CASE GlobalRelease
  <2>1. UNCHANGED <<idle, alloced, work>> /\ wpc = "commit"
    BY <1>5 DEF GlobalRelease, main
  <2>2. mpc' = mpc \/ (mpc = "gsleep" /\ mpc' = "gwoken")
    BY <1>5 DEF GlobalRelease, WakeMain
  <2> QED
    BY <1>c, <2>1, <2>2 DEF Works
<1>6. ASSUME NEW w \in Workers, Take(w) \/ FinishSegment(w)
      PROVE  UNCHANGED <<idle, alloced, work, mpc, done>>
  BY <1>6 DEF Take, FinishSegment, main
<1>7. ASSUME NEW w \in Workers, CompressSegment(w)
      PROVE  UNCHANGED <<idle, alloced, mpc, done>> /\ Len(work') = Len(work)
  <2>1. work \in Seq(WorkRec)
    BY DEF MtInv, TypeOK
  <2>2. PICK b : work' = [work EXCEPT ![running[w]].blks = b]
    BY <1>7 DEF CompressSegment
  <2>3. Len(work') = Len(work)
    BY <2>1, <2>2
  <2> QED
    BY <1>7, <2>3 DEF CompressSegment, main
<1>8. CASE \E w \in Workers : Worker(w)
  BY <1>6, <1>7, <1>8 DEF Worker, Works
<1> QED
  BY <1>1, <1>2, <1>3, <1>4, <1>5, <1>8 DEF Next, Main, Writer

LEMMA FirstCount ==
  ASSUME NEW n \in Nat
  PROVE  IsFiniteSet(1..n) /\ Cardinality(1..n) = n
<1>1. IsFiniteSet(1..n) /\ Cardinality(1..n) = IF 1 > n THEN 0 ELSE n - 1 + 1
  BY FS_Interval
<1> QED
  BY <1>1

LEMMA ExitCount ==
  ASSUME MtInv, mpc # "exited", \A f \in Files : done[f] \in {"compressed", "plain"}
  PROVE  alloced = Len(idle)
<1>1. TypeOK /\ ChainInv /\ IdleInv /\ ExtentInv
  BY DEF MtInv
<1>2. ASSUME NEW f \in Files PROVE chain[f] = << >>
  <2>1. ~Live(f)
    <3>1. CASE Live(f)
      <4>1. FileExtents(f)
        BY <1>1, <3>1 DEF ExtentInv, Live
      <4>2. done[f] \in {"none", "failed"}
        BY <3>1, <4>1 DEF FileExtents
      <4> QED
        BY <4>2
    <3> QED
      BY <3>1
  <2> QED
    BY <1>1, <2>1 DEF ChainInv, FileChain
<1>3. \A x : ~Chained(x)
  BY <1>2 DEF Chained
<1>q. idle \in Seq(Nat) /\ Len(idle) \in Nat /\ Len(work) \in Nat /\ alloced = Len(work)
  BY <1>1 DEF TypeOK, IdleInv
<1>4. idle \in Injection(1..Len(idle), 1..Len(work))
  <2>1. idle \in [1..Len(idle) -> 1..Len(work)]
    BY <1>1, <1>q DEF IdleInv, Works
  <2> QED
    BY <1>1, <2>1 DEF Injection, IsInjective, IdleInv
<1>5. idle \in Surjection(1..Len(idle), 1..Len(work))
  <2>1. idle \in [1..Len(idle) -> 1..Len(work)]
    BY <1>4 DEF Injection
  <2>2. \A x \in 1..Len(work) : \E i \in 1..Len(idle) : idle[i] = x
    BY <1>1, <1>3 DEF IdleInv, Works
  <2> QED
    BY <2>1, <2>2 DEF Surjection
<1>6. IsFiniteSet(1..Len(work)) /\ Cardinality(1..Len(work)) = Len(work)
  BY <1>q, FirstCount
<1>7. Cardinality(1..Len(idle)) = Len(idle)
  BY <1>q, FirstCount
<1>8. Cardinality(1..Len(idle)) = Cardinality(1..Len(work))
  BY <1>4, <1>5, <1>6, FS_Injection
<1> QED
  BY <1>q, <1>6, <1>7, <1>8

LEMMA IdleStep == MtInv /\ [Next]_vars => IdleInv'
<1> SUFFICES ASSUME MtInv, [Next]_vars PROVE IdleInv'
  OBVIOUS
<1>t. TypeOK /\ ControlInv /\ IdleInv
  BY DEF MtInv
<1>q. idle \in Seq(Nat) /\ Len(idle) \in Nat /\ Len(work) \in Nat /\ alloced \in Int
  BY <1>t DEF TypeOK
<1>1. CASE GetWork
  <2>1. mpc # "exited" /\ mpc' # "exited"
    BY <1>1 DEF GetWork
  <2>2. \A x : Chained(x)' <=> Chained(x) \/ x = hand'
    BY <1>1, ChainedGet
  <2>3. Works' = Works \cup {hand'} /\ ~Chained(hand')
    BY <1>1, GetWorkFacts
  <2>4. CASE idle # << >> /\ hand' = Head(idle) /\ idle' = Tail(idle)
               /\ Len(work') = Len(work) /\ alloced' = alloced
    <3>1. /\ Head(idle) = idle[1] /\ 1 \in 1..Len(idle) /\ Len(idle') = Len(idle) - 1
          /\ \A i \in 1..Len(idle') : i + 1 \in 1..Len(idle) /\ idle'[i] = idle[i + 1] /\ i + 1 # 1
          /\ \A i \in 1..Len(idle) : i = 1 \/ (i - 1 \in 1..Len(idle') /\ (i - 1) + 1 = i)
      BY <1>q, <2>4
    <3>2. \A i \in 1..Len(idle') : idle'[i] \in Works /\ ~Chained(idle'[i]) /\ idle'[i] # hand'
      BY <1>t, <2>4, <3>1 DEF IdleInv
    <3>3. ASSUME NEW i \in 1..Len(idle'), NEW j \in 1..Len(idle'), idle'[i] = idle'[j]
          PROVE  i = j
      <4>1. i + 1 = j + 1
        BY <1>t, <3>1, <3>3 DEF IdleInv
      <4> QED
        BY <4>1
    <3>4. ASSUME NEW x \in Works', ~Chained(x)' PROVE \E i \in 1..Len(idle') : idle'[i] = x
      <4>1. x \in Works /\ ~Chained(x) /\ x # hand'
        BY <2>2, <2>3, <3>4
      <4>2. PICK i \in 1..Len(idle) : idle[i] = x
        BY <1>t, <2>1, <4>1 DEF IdleInv
      <4>3. i # 1
        BY <2>4, <3>1, <4>1, <4>2
      <4>4. i - 1 \in 1..Len(idle') /\ (i - 1) + 1 = i
        BY <3>1, <4>3
      <4>5. idle'[i - 1] = x
        BY <3>1, <4>2, <4>4
      <4> QED
        BY <4>4, <4>5
    <3>5. alloced' = Len(work')
      BY <1>t, <2>1, <2>4 DEF IdleInv
    <3> QED
      BY <2>1, <2>2, <2>3, <3>2, <3>3, <3>4, <3>5 DEF IdleInv
  <2>5. CASE idle = << >> /\ hand' = Len(work) + 1 /\ idle' = idle
               /\ Len(work') = Len(work) + 1 /\ alloced' = alloced + 1
    <3>1. 1..Len(idle') = {}
      BY <2>5
    <3>2. \A x \in Works : Chained(x)
      BY <1>t, <2>1, <2>5 DEF IdleInv
    <3>3. \A x \in Works' : Chained(x)'
      BY <2>2, <2>3, <3>2
    <3>4. alloced' = Len(work')
      BY <1>t, <1>q, <2>1, <2>5 DEF IdleInv
    <3> QED
      BY <2>1, <3>1, <3>3, <3>4 DEF IdleInv
  <2> QED
    BY <1>1, <2>4, <2>5, GetWorkFacts
<1>2. CASE MtMerge
  <2>1. mpc # "exited" /\ mpc' # "exited" /\ alloced' = alloced /\ work' = work
    BY <1>2, <1>t DEF MtMerge, main, ControlInv, Writing
  <2> DEFINE y == chain[wf][1]
  <2>2. \A x : Chained(x)' <=> Chained(x) /\ x # y
    BY <1>2, ChainedMerge
  <2>3. idle' = <<y>> \o idle /\ y \in Works /\ Chained(y) /\ y \in Nat
    <3>1. /\ wf \in Files /\ 1 \in 1..Len(chain[wf]) /\ idle' = <<y>> \o idle
          /\ chain[wf] \in Seq(Nat)
      BY <1>2, MergeFacts
    <3>2. Chained(y) /\ y \in Nat
      BY <3>1 DEF Chained
    <3> QED
      BY <3>1, <3>2, ChainedWorks
  <2> HIDE DEF y
  <2>4. /\ Len(idle') = Len(idle) + 1 /\ idle'[1] = y
        /\ \A i \in 1..Len(idle') : i # 1 => i - 1 \in 1..Len(idle) /\ idle'[i] = idle[i - 1]
        /\ \A i \in 1..Len(idle) : i + 1 \in 1..Len(idle') /\ idle'[i + 1] = idle[i]
        /\ 1 \in 1..Len(idle')
    <3>1. /\ Len(idle') = Len(idle) + 1
          /\ \A i \in 1..Len(idle') : idle'[i] = IF i = 1 THEN y ELSE idle[i - 1]
      BY <1>q, <2>3
    <3> QED
      BY <1>q, <3>1
  <2>5. \A i \in 1..Len(idle) : idle[i] \in Works /\ ~Chained(idle[i]) /\ idle[i] # y
    BY <1>t, <2>3 DEF IdleInv
  <2>6. \A i \in 1..Len(idle') : (idle[i] \in Works /\ ~Chained(idle[i]))'
    <3>1. \A i \in 1..Len(idle') : idle'[i] = y \/ (idle'[i] \in Works /\ ~Chained(idle'[i]))
      BY <2>4, <2>5
    <3>2. Works' = Works
      BY <2>1 DEF Works
    <3> QED
      BY <2>2, <2>3, <3>1, <3>2
  <2>7. ASSUME NEW i \in 1..Len(idle'), NEW j \in 1..Len(idle'), idle'[i] = idle'[j]
        PROVE  i = j
    <3>1. CASE i # 1 /\ j # 1
      <4>1. i - 1 \in 1..Len(idle) /\ j - 1 \in 1..Len(idle) /\ idle[i - 1] = idle[j - 1]
        BY <2>4, <2>7, <3>1
      <4>2. i - 1 = j - 1
        BY <1>t, <4>1 DEF IdleInv
      <4> QED
        BY <4>2
    <3>2. CASE i = 1 \/ j = 1
      BY <2>4, <2>5, <2>7, <3>2
    <3> QED
      BY <3>1, <3>2
  <2>8. ASSUME NEW x \in Works', ~Chained(x)' PROVE \E i \in 1..Len(idle') : idle'[i] = x
    <3>1. x \in Works /\ (x = y \/ ~Chained(x))
      BY <2>1, <2>2, <2>8 DEF Works
    <3>2. CASE x = y
      BY <2>4, <3>2
    <3>3. CASE ~Chained(x)
      <4>1. PICK i \in 1..Len(idle) : idle[i] = x
        BY <1>t, <2>1, <3>1, <3>3 DEF IdleInv
      <4> QED
        BY <2>4, <4>1
    <3> QED
      BY <3>1, <3>2, <3>3
  <2>9. alloced' = Len(work')
    BY <1>t, <2>1 DEF IdleInv
  <2> QED
    BY <2>1, <2>6, <2>7, <2>8, <2>9 DEF IdleInv
<1>3. CASE CompressExit
  <2>1. /\ mpc = "exit" /\ mpc' = "exited" /\ idle' = << >> /\ done' = done
        /\ alloced' = alloced - Len(idle)
    BY <1>3 DEF CompressExit
  <2>2. (\A f \in Files : done[f] \in {"compressed", "plain"}) => alloced' = 0
    BY <1>q, <2>1, ExitCount
  <2>3. 1..Len(idle') = {}
    BY <2>1
  <2> QED
    BY <2>1, <2>2, <2>3 DEF IdleInv
<1>4. CASE ~GetWork /\ ~MtMerge /\ ~CompressExit
  <2>1. /\ UNCHANGED <<idle, alloced>> /\ Works' = Works /\ Len(work') = Len(work)
        /\ mpc' = "exited" <=> mpc = "exited"
        /\ mpc = "exited" => done' = done
    BY <1>4, IdleFrame
  <2>2. \A x : Chained(x)' <=> Chained(x)
    BY <1>4, ChainedKept
  <2> QED
    BY <1>t, <2>1, <2>2 DEF IdleInv
<1> QED
  BY <1>1, <1>2, <1>3, <1>4
-----------------------------------------------------------------------------
LEMMA ApartStep == MtInv /\ [Next]_vars => Apart'
<1> SUFFICES ASSUME MtInv, [Next]_vars PROVE Apart'
  OBVIOUS
<1>t. /\ Apart /\ queue \in Seq(Nat) /\ running \in [Workers -> Nat \cup {NULL}]
      /\ NULL \notin Nat /\ hand \in Nat \cup {NULL}
  BY Consts DEF MtInv, HeldInv, TypeOK
<1>1. CASE GetWork
  <2>1. UNCHANGED <<queue, running>> /\ hand' \in Nat /\ ~HeldBy(hand')
    BY <1>1, GetWorkFacts DEF GetWork, pool
  <2>2. \A x : (InQueue(x)' <=> InQueue(x)) /\ (InRun(x)' <=> InRun(x))
    BY <1>1, HeldGet
  <2> QED
    BY <1>t, <2>1, <2>2 DEF Apart, HeldBy
<1>2. CASE QueueWork
  <2>1. /\ hand \in Nat /\ hand' = NULL /\ running' = running
        /\ \A x \in Nat : InQueue(x)' <=> InQueue(x) \/ x = hand
        /\ \A x : InRun(x)' <=> InRun(x)
        /\ queue' = Append(queue, hand)
    BY <1>2, QueueWorkFacts
  <2>2. \A i \in 1..Len(queue') :
          (i \in 1..Len(queue) /\ queue'[i] = queue[i]) \/ (i = Len(queue) + 1 /\ queue'[i] = hand)
    BY <1>t, <2>1
  <2>3. \A i \in 1..Len(queue) : queue[i] # hand
    BY <1>t, <2>1 DEF Apart, InQueue
  <2>4. \A i, j \in 1..Len(queue') : queue'[i] = queue'[j] => i = j
    BY <1>t, <2>2, <2>3 DEF Apart
  <2>5. \A x \in Nat : InQueue(x)' => x # hand' /\ ~InRun(x)'
    BY <1>t, <2>1 DEF Apart
  <2> QED
    BY <1>t, <2>1, <2>4, <2>5 DEF Apart
<1>3. ASSUME NEW w \in Workers, Take(w) PROVE Apart'
  <2>1. /\ Head(queue) \in Nat /\ hand' = hand /\ InQueue(Head(queue))
        /\ \A x \in Nat : InQueue(x)' <=> InQueue(x) /\ x # Head(queue)
        /\ \A x \in Nat : InRun(x)' <=> InRun(x) \/ x = Head(queue)
        /\ queue # << >> /\ queue' = Tail(queue)
    BY <1>3, TakeFacts
  <2>2. \A i \in 1..Len(queue') : i \in Nat /\ i + 1 \in 1..Len(queue) /\ queue'[i] = queue[i + 1]
    BY <1>t, <2>1
  <2>3. ASSUME NEW i \in 1..Len(queue'), NEW j \in 1..Len(queue'), queue'[i] = queue'[j]
        PROVE  i = j
    <3>1. i + 1 = j + 1
      BY <1>t, <2>2, <2>3 DEF Apart
    <3> QED
      BY <3>1
  <2>4. \A v \in Workers : running'[v] = IF v = w THEN Head(queue) ELSE running[v]
    BY <1>3, <1>t DEF Take
  <2>5. \A v \in Workers : running[v] # Head(queue)
    BY <1>t, <2>1 DEF Apart, InRun
  <2>6. \A v, u \in Workers : running'[v] = running'[u] /\ running'[v] # NULL => v = u
    BY <1>t, <2>4, <2>5 DEF Apart
  <2>7. \A x \in Nat : InQueue(x)' => x # hand' /\ ~InRun(x)'
    BY <1>t, <2>1 DEF Apart
  <2>8. \A x \in Nat : InRun(x)' => x # hand'
    BY <1>t, <2>1 DEF Apart
  <2> QED
    BY <2>3, <2>6, <2>7, <2>8 DEF Apart
<1>4. ASSUME NEW w \in Workers, FinishSegment(w) PROVE Apart'
  <2>1. /\ UNCHANGED <<hand, queue>>
        /\ \A x : InQueue(x)' <=> InQueue(x)
        /\ \A x \in Nat : InRun(x)' <=> InRun(x) /\ x # running[w]
        /\ running' = [running EXCEPT ![w] = NULL]
    BY <1>4, FinishFacts
  <2>2. \A v \in Workers : running'[v] = IF v = w THEN NULL ELSE running[v]
    BY <1>t, <2>1
  <2> QED
    BY <1>t, <2>1, <2>2 DEF Apart
<1>5. CASE UNCHANGED <<hand, queue, running>>
  BY <1>t, <1>5 DEF Apart, InQueue, InRun
<1> QED
  BY <1>1, <1>2, <1>3, <1>4, <1>5, PoolFrame

(* When the wait ends, no segment of the file is in anybody's hands: as    *)
(* many are counted as the file has.                                       *)
LEMMA WaitOver ==
  ASSUME MtInv, wpc = "write", UseMt(wf), ~MustWait
  PROVE  \A k \in 1..Len(chain[wf]) : ~HeldBy(chain[wf][k])
<1>1. TypeOK /\ ControlInv /\ ChainInv /\ CountInv
  BY DEF MtInv
<1>2. wf \in Files /\ Live(wf) /\ ~Merging(wf) /\ (mpc # "end" => wf # cur)
  <2>1. wf \in Files /\ (mpc # "end" => wf < cur)
    BY <1>1 DEF ControlInv, Writing
  <2>2. wf \in Nat /\ cur \in Nat
    BY <1>1, <2>1, Consts DEF TypeOK
  <2> QED
    BY <2>1, <2>2 DEF Live, Merging
<1>3. Segs[wf] \in Nat /\ nfini[wf] \in Nat /\ nfini[wf] >= Segs[wf]
  <2>1. Segs[wf] \in Nat /\ nfini[wf] \in Nat
    BY <1>1, <1>2, Consts DEF TypeOK
  <2> QED
    BY <2>1 DEF MustWait
<1>4. Len(chain[wf]) = Segs[wf]
  <2>1. FileChain(wf)
    BY <1>1, <1>2 DEF ChainInv
  <2> QED
    BY <1>2, <2>1 DEF FileChain, Linked
<1>5. nfini[wf] = Cardinality(Finished(wf))
  BY <1>1, <1>2 DEF CountInv
<1>6. IsFiniteSet(1..Segs[wf]) /\ Cardinality(1..Segs[wf]) = Segs[wf]
  BY <1>3, FirstCount
<1>7. Finished(wf) \in SUBSET (1..Segs[wf])
  BY <1>4 DEF Finished
<1>8. /\ Cardinality(Finished(wf)) <= Cardinality(1..Segs[wf])
      /\ Cardinality(1..Segs[wf]) = Cardinality(Finished(wf)) => 1..Segs[wf] = Finished(wf)
  BY <1>6, <1>7, FS_Subset
<1>9. 1..Segs[wf] = Finished(wf)
  BY <1>3, <1>5, <1>6, <1>8
<1> QED
  BY <1>4, <1>9 DEF Finished

LEMMA HeldStep == MtInv /\ [Next]_vars => HeldInv'
<1> SUFFICES ASSUME MtInv, [Next]_vars PROVE HeldInv'
  OBVIOUS
<1>t. HeldInv /\ chain \in [Files -> Seq(Nat)] /\ NULL \notin Nat
  BY Consts DEF MtInv, TypeOK
<1>n. \A f \in Files : \A k \in 1..Len(chain[f]) : chain[f][k] \in Nat
  BY <1>t
<1>1. Apart'
  BY ApartStep
<1>2. ASSUME NEW x \in Nat, HeldBy(x)' PROVE Chained(x)'
  <2>1. CASE GetWork
    BY <1>t, <1>2, <2>1, HeldGet, ChainedGet DEF HeldInv
  <2>2. CASE MtMerge
    <3>1. ~GetWork /\ \A w \in Workers : ~FinishSegment(w)
      BY <2>2, FinishAlone DEF MtMerge, GetWork, main
    <3>2. HeldBy(x) /\ Chained(x)
      BY <1>2, <1>t, <3>1, HeldKept DEF HeldInv
    <3>3. x # chain[wf][1]
      BY <1>t, <2>2, <3>2, MergeFacts DEF HeldInv
    <3> QED
      BY <2>2, <3>2, <3>3, ChainedMerge
  <2>3. CASE ~GetWork /\ ~MtMerge
    <3>1. HeldBy(x)
      BY <1>2, <2>3, HeldKept, HeldFinish
    <3> QED
      BY <1>t, <2>3, <3>1, ChainedKept DEF HeldInv
  <2> QED
    BY <2>1, <2>2, <2>3
<1>3. ASSUME NEW f \in Files, Merging(f)', NEW k \in 1..Len(chain'[f])
      PROVE  ~HeldBy(chain[f][k])'
  <2>h. \A x \in Nat : HeldBy(x)' => HeldBy(x) \/ (GetWork /\ x = hand')
    BY HeldGet, HeldFinish, HeldKept
  <2>1. ASSUME NEW x, x = chain'[f][k], x \in Nat, Chained(x), ~HeldBy(x) PROVE ~HeldBy(chain[f][k])'
    <3>1. GetWork => x # hand'
      BY <2>1, GetWorkFacts
    <3>2. ~HeldBy(x)'
      BY <2>1, <2>h, <3>1
    <3> QED
      BY <2>1, <3>2
  <2>2. CASE MtMerge
    <3>1. Merging(f) /\ f = wf
      BY <1>3, <2>2 DEF MtMerge, Merging
    <3>2. k + 1 \in 1..Len(chain[f]) /\ chain'[f][k] = chain[f][k + 1]
      BY <1>3, <2>2, <3>1, MergeFacts
    <3>3. ~HeldBy(chain[f][k + 1]) /\ Chained(chain[f][k + 1])
      BY <1>t, <3>1, <3>2 DEF HeldInv, Chained
    <3> QED
      BY <1>n, <2>1, <3>2, <3>3
  <2>3. CASE GetWork
    <3>1. ~MtWait /\ ~MtCommit
      BY <2>3 DEF MtWait, MtCommit, GetWork, AfterWrite, AfterFailure, main
    <3>2. Merging(f)
      BY <1>3, <3>1, MergingKept
    <3>3. f # cur
      BY <2>3, <3>2, GetWorkFacts
    <3>4. chain'[f] = chain[f]
      BY <1>t, <2>3, <3>3 DEF GetWork
    <3>5. ~HeldBy(chain[f][k]) /\ Chained(chain[f][k])
      BY <1>t, <1>3, <3>2, <3>4 DEF HeldInv, Chained
    <3> QED
      BY <1>n, <1>3, <2>1, <3>4, <3>5
  <2>4. CASE ~MtMerge /\ ~GetWork
    <3>1. chain' = chain
      BY <2>4, ChainFrame
    <3>2. ~HeldBy(chain[f][k])
      <4>1. CASE MtWait
        <5>1. f = wf /\ wpc = "write" /\ UseMt(wf) /\ ~MustWait
          BY <1>3, <4>1 DEF MtWait, Merging
        <5> QED
          BY <1>3, <3>1, <5>1, WaitOver
      <4>2. CASE MtCommit
        BY <1>3, <4>2 DEF MtCommit, Merging, AfterWrite, AfterFailure
      <4>3. CASE ~MtWait /\ ~MtCommit
        <5>1. Merging(f)
          BY <1>3, <4>3, MergingKept
        <5> QED
          BY <1>t, <1>3, <3>1, <5>1 DEF HeldInv
      <4> QED
        BY <4>1, <4>2, <4>3
    <3>3. Chained(chain[f][k])
      BY <1>3, <3>1 DEF Chained
    <3> QED
      BY <1>n, <1>3, <2>1, <3>1, <3>2, <3>3
  <2> QED
    BY <2>2, <2>3, <2>4
<1> QED
  BY <1>1, <1>2, <1>3 DEF HeldInv
-----------------------------------------------------------------------------
LEMMA ResultStep == MtInv /\ [Next]_vars => ResultInv'
<1> SUFFICES ASSUME MtInv, [Next]_vars, NEW x \in Works' PROVE Result(x)'
  BY DEF ResultInv
<1>t. /\ ResultInv /\ TypeOK /\ HeldInv /\ Apart /\ work \in Seq(WorkRec)
      /\ NULL \notin Nat
  BY Consts DEF MtInv, TypeOK, HeldInv
<1>1. CASE GetWork
  <2>1. /\ Works' = Works \cup {hand'} /\ cur \in Files /\ seg \in 1..Segs[cur]
        /\ hand' \in Nat /\ hand = NULL
        /\ \A y \in Works : y # hand' => work'[y] = work[y]
        /\ work'[hand'] = [file |-> cur, seg |-> seg, blks |-> NoResult]
    BY <1>1, GetWorkFacts
  <2>2. /\ \A y : InQueue(y)' <=> InQueue(y)
        /\ \A y \in Nat : HeldBy(y)' <=> HeldBy(y) \/ y = hand'
        /\ \A y : Chained(y)' <=> Chained(y) \/ y = hand'
    BY <1>1, HeldGet, ChainedGet
  <2>3. CASE x = hand'
    <3>1. work'[x].file = cur /\ work'[x].seg = seg /\ work'[x].blks = NoResult
      BY <2>1, <2>3
    <3>2. HeldBy(x)'
      BY <2>1, <2>2, <2>3
    <3> QED
      BY <2>1, <3>1, <3>2 DEF Result
  <2>4. CASE x # hand'
    <3>1. x \in Works /\ work'[x] = work[x] /\ x \in Nat
      BY <2>1, <2>4 DEF Works
    <3>2. Result(x)
      BY <1>t, <3>1 DEF ResultInv
    <3> QED
      BY <2>2, <2>4, <3>1, <3>2 DEF Result
  <2> QED
    BY <2>3, <2>4
<1>2. ASSUME NEW w \in Workers, CompressSegment(w) PROVE Result(x)'
  <2>1. UNCHANGED <<hand, queue, running, chain>>
    BY <1>2 DEF CompressSegment, main
  <2>2. /\ InQueue(x)' <=> InQueue(x)
        /\ HeldBy(x)' <=> HeldBy(x)
        /\ Chained(x)' <=> Chained(x)
    BY <2>1 DEF InQueue, InRun, HeldBy, Chained
  <2>3. PICK b \in Results(work[running[w]].file, work[running[w]].seg) :
          work' = [work EXCEPT ![running[w]].blks = b]
    BY <1>2 DEF CompressSegment
  <2>4. x \in Works /\ x \in DOMAIN work
    <3>1. Len(work') = Len(work)
      BY <1>t, <2>3
    <3> QED
      BY <1>t, <3>1 DEF Works
  <2>5. Result(x)
    BY <1>t, <2>4 DEF ResultInv
  <2>6. CASE x # running[w]
    <3>1. work'[x] = work[x]
      BY <2>3, <2>4, <2>6
    <3> QED
      BY <2>1, <2>2, <2>5, <3>1 DEF Result
  <2>7. CASE x = running[w]
    <3>1. work'[x] = [work[x] EXCEPT !.blks = b] /\ work[x] \in WorkRec
      BY <1>t, <2>3, <2>4, <2>7 DEF Works
    <3>2. work'[x].file = work[x].file /\ work'[x].seg = work[x].seg /\ work'[x].blks = b
      BY <3>1 DEF WorkRec
    <3>3. /\ work[x].file \in Files /\ work[x].seg \in 1..Segs[work[x].file]
      BY <2>4, <2>5, WorkType, <1>t DEF Result
    <3>4. Blks[work[x].file][work[x].seg] \in Nat
      BY <3>3, Consts
    <3>5. b = Failed \/ b = Blks[work[x].file][work[x].seg]
      BY <2>3, <2>7 DEF Results
    <3>6. b # NoResult
      BY <3>4, <3>5 DEF NoResult, Failed
    <3>7. x # hand /\ ~InQueue(x)
      <4>1. x \in Nat /\ InRun(x)
        BY <2>4, <2>7 DEF Works, InRun
      <4> QED
        BY <4>1, <1>t DEF Apart
    <3> QED
      BY <2>1, <2>2, <3>2, <3>3, <3>5, <3>6, <3>7 DEF Result
  <2> QED
    BY <2>6, <2>7
<1>3. ASSUME work' = work, Chained(x)' => Chained(x), x = hand' \/ InQueue(x)' => x = hand \/ InQueue(x),
             HeldBy(x) /\ ~HeldBy(x)' => work[x].blks # NoResult
      PROVE  Result(x)'
  <2>1. Result(x)
    BY <1>t, <1>3 DEF ResultInv, Works
  <2> QED
    BY <1>3, <2>1 DEF Result
<1>x. x \in Nat
  BY DEF Works
<1>4. ASSUME NEW w \in Workers, FinishSegment(w) PROVE Result(x)'
  <2>1. work' = work /\ chain' = chain /\ work[running[w]].blks # NoResult
    BY <1>4 DEF FinishSegment
  <2>2. Chained(x)' => Chained(x)
    BY <2>1 DEF Chained
  <2>3. x = hand' \/ InQueue(x)' => x = hand \/ InQueue(x)
    BY <1>4, FinishFacts
  <2>4. HeldBy(x) /\ ~HeldBy(x)' => x = running[w]
    BY <1>4, <1>x, HeldFinish
  <2> QED
    BY <1>3, <2>1, <2>2, <2>3, <2>4
<1>5. CASE /\ ~GetWork
           /\ \A w \in Workers : ~FinishSegment(w) /\ ~CompressSegment(w)
  <2>1. work' = work
    <3>1. CASE Main
      BY <1>5, <3>1 DEF Main, BeginMt, BeginGlobal, BeginWoken, Pack, QueueWork,
                  Send, SendStop, Join, PackedDone, CompressExit
    <3>2. CASE Writer \/ MtSpurious \/ BeginStray \/ UNCHANGED vars
      BY <3>2 DEF Writer, Pop, MtWait, MtSpurious, BeginStray, MtMerge, MtCommit, GlobalWrite,
                  GlobalRelease, vars
    <3>3. CASE \E w \in Workers : Worker(w)
      BY <1>5, <3>3 DEF Worker, Take
    <3> QED
      BY <3>1, <3>2, <3>3 DEF Next
  <2>2. HeldBy(x)' <=> HeldBy(x)
    BY <1>5, <1>x, HeldKept
  <2>3. Chained(x)' => Chained(x)
    BY <1>5, ChainedKept, ChainedMerge
  <2>4. x = hand' \/ InQueue(x)' => x = hand \/ InQueue(x)
    <3>1. CASE QueueWork
      BY <1>t, <1>x, <3>1, QueueWorkFacts
    <3>2. CASE \E w \in Workers : Take(w)
      BY <1>x, <3>2, TakeFacts
    <3>3. CASE UNCHANGED <<hand, queue, running>>
      BY <3>3 DEF InQueue
    <3> QED
      BY <1>5, <3>1, <3>2, <3>3, PoolFrame
  <2> QED
    BY <1>3, <2>1, <2>2, <2>3, <2>4
<1> QED
  BY <1>1, <1>2, <1>4, <1>5

(* The count of finished segments. *)
LEMMA CountStep == MtInv /\ [Next]_vars => CountInv'
<1> SUFFICES ASSUME MtInv, [Next]_vars, NEW f \in Files, Live(f)', ~Merging(f)'
             PROVE  nfini'[f] = Cardinality(Finished(f)')
  BY DEF CountInv
<1>t. /\ CountInv /\ TypeOK /\ HeldInv /\ chain \in [Files -> Seq(Nat)]
      /\ nfini \in [Files -> Nat]
  BY DEF MtInv, TypeOK
<1>n. \A k \in 1..Len(chain[f]) : chain[f][k] \in Nat /\ Chained(chain[f][k])
  BY <1>t DEF Chained
<1>1. ASSUME nfini'[f] = nfini[f], chain'[f] = chain[f], Live(f), ~Merging(f),
             \A k \in 1..Len(chain[f]) : HeldBy(chain[f][k])' <=> HeldBy(chain[f][k])
      PROVE  nfini'[f] = Cardinality(Finished(f)')
  <2>1. \A k \in 1..Len(chain[f]) : HeldBy(chain[f][k])' <=> HeldBy(chain[f][k])
    BY <1>1
  <2>2. Finished(f)' = Finished(f)
    BY <1>1, <2>1 DEF Finished
  <2> QED
    BY <1>t, <1>1, <2>2 DEF CountInv
<1>2. (\A w \in Workers : ~FinishSegment(w)) /\ ~BeginMt => nfini' = nfini
  <2>1. CASE Main
    BY <2>1 DEF Main, BeginGlobal, BeginWoken, Pack, GetWork, QueueWork,
                Send, SendStop, Join, PackedDone, CompressExit, pool
  <2>2. CASE Writer \/ MtSpurious \/ BeginStray \/ UNCHANGED vars
    BY <2>2 DEF Writer, Pop, MtWait, MtSpurious, BeginStray, MtMerge, MtCommit, GlobalWrite,
                GlobalRelease, vars, pool
  <2>3. CASE \E w \in Workers : Worker(w)
    BY <2>3 DEF Worker, Take, CompressSegment
  <2> QED
    BY <2>1, <2>2, <2>3 DEF Next
<1>3. CASE BeginMt
  <2>1. ~GetWork /\ ~MtMerge /\ ~MtWait /\ ~MtCommit /\ \A w \in Workers : ~FinishSegment(w)
    BY <1>3, FinishAlone DEF BeginMt, MayBegin, GetWork, MtMerge, MtWait, MtCommit, main
  <2>2. /\ chain' = chain /\ (Merging(f)' <=> Merging(f))
        /\ \A x \in Nat : HeldBy(x)' <=> HeldBy(x)
    BY <2>1, ChainFrame, MergingKept, HeldKept
  <2>3. cur \in Files /\ ~Live(cur) /\ (Live(f) \/ f = cur)
    BY <1>3, LiveBegin
  <2>4. nfini' = [nfini EXCEPT ![cur] = 0]
    BY <1>3 DEF BeginMt
  <2>5. CASE f = cur
    <3>1. chain'[f] = << >>
      BY <2>2, <2>3, <2>5 DEF MtInv, ChainInv, FileChain
    <3>2. Finished(f)' = {}
      BY <3>1 DEF Finished
    <3>3. nfini'[f] = 0
      BY <1>t, <2>4, <2>5
    <3> QED
      BY <3>2, <3>3, FS_EmptySet
  <2>6. CASE f # cur
    <3>1. nfini'[f] = nfini[f]
      BY <1>t, <2>4, <2>6
    <3>2. \A k \in 1..Len(chain[f]) : HeldBy(chain[f][k])' <=> HeldBy(chain[f][k])
      BY <1>n, <2>2
    <3> QED
      BY <1>1, <2>2, <2>3, <2>6, <3>1, <3>2
  <2> QED
    BY <2>5, <2>6
<1>4. CASE GetWork
  <2>1. ~BeginMt /\ ~MtMerge /\ ~MtWait /\ ~MtCommit /\ \A w \in Workers : ~FinishSegment(w)
    BY <1>4, FinishAlone DEF BeginMt, MayBegin, GetWork, MtMerge, MtWait, MtCommit, main
  <2>2. /\ (Merging(f)' <=> Merging(f)) /\ (Live(f)' <=> Live(f)) /\ nfini' = nfini
        /\ \A x \in Nat : HeldBy(x)' <=> HeldBy(x) \/ x = hand'
        /\ ~Chained(hand') /\ hand' \in Nat
    BY <1>2, <1>4, <2>1, MergingKept, LiveKept, HeldGet, GetWorkFacts
  <2>3. chain' = [chain EXCEPT ![cur] = Append(chain[cur], hand')]
    BY <1>4 DEF GetWork
  <2>4. \A k \in 1..Len(chain[f]) : chain[f][k] \in Nat /\ chain[f][k] # hand'
    BY <1>n, <2>2
  <2>5. CASE f # cur
    <3>1. chain'[f] = chain[f]
      BY <1>t, <2>3, <2>5
    <3>2. \A k \in 1..Len(chain[f]) : HeldBy(chain[f][k])' <=> HeldBy(chain[f][k])
      BY <2>2, <2>4, <3>1
    <3> QED
      BY <1>1, <2>2, <3>1, <3>2
  <2>6. CASE f = cur
    <3>1. chain'[f] = Append(chain[f], hand') /\ chain[f] \in Seq(Nat)
      BY <1>t, <2>3, <2>6
    <3>2. /\ Len(chain'[f]) = Len(chain[f]) + 1 /\ Len(chain[f]) \in Nat
          /\ \A k \in 1..Len(chain[f]) : chain'[f][k] = chain[f][k]
          /\ chain'[f][Len(chain[f]) + 1] = hand'
      BY <3>1
    <3>3. \A k \in 1..Len(chain[f]) : HeldBy(chain[f][k])' <=> HeldBy(chain[f][k])
      BY <2>2, <2>4, <3>2
    <3>4. \A k \in 1..Len(chain'[f]) :
            ~HeldBy(chain[f][k])' <=> k \in 1..Len(chain[f]) /\ ~HeldBy(chain[f][k])
      <4> TAKE k \in 1..Len(chain'[f])
      <4>1. CASE k \in 1..Len(chain[f])
        BY <3>3, <4>1
      <4>2. CASE k = Len(chain[f]) + 1
        <5>1. chain'[f][k] = hand' /\ k \notin 1..Len(chain[f])
          BY <3>2, <4>2
        <5> QED
          BY <5>1 DEF HeldBy
      <4> QED
        BY <3>2, <4>1, <4>2
    <3>5. Finished(f)' = Finished(f)
      BY <3>2, <3>4 DEF Finished
    <3> QED
      BY <1>t, <2>2, <3>5 DEF CountInv
  <2> QED
    BY <2>5, <2>6
<1>5. ASSUME NEW w \in Workers, FinishSegment(w) PROVE nfini'[f] = Cardinality(Finished(f)')
  <2> DEFINE x == running[w]
  <2>1. ~BeginMt /\ ~GetWork /\ ~MtMerge /\ ~MtWait /\ ~MtCommit
    BY <1>5, FinishAlone
  <2>2. /\ chain' = chain /\ (Merging(f)' <=> Merging(f)) /\ (Live(f)' <=> Live(f))
        /\ x \in Nat /\ HeldBy(x)
        /\ \A y \in Nat : HeldBy(y)' <=> HeldBy(y) /\ y # x
    BY <1>5, <2>1, ChainFrame, MergingKept, LiveKept, HeldFinish, FinishFacts DEF HeldBy, InRun
  <2>3. nfini' = [nfini EXCEPT ![work[x].file] = nfini[work[x].file] + 1]
    BY <1>5 DEF FinishSegment
  <2> HIDE DEF x
  <2>4. PICK g \in Files : \E k \in 1..Len(chain[g]) : chain[g][k] = x
    BY <1>t, <2>2 DEF HeldInv, Chained
  <2>5. PICK k \in 1..Len(chain[g]) : chain[g][k] = x
    BY <2>4
  <2>6. work[x].file = g
    BY <2>5 DEF MtInv, ChainInv, FileChain, Slot
  <2>7. CASE f # g
    <3>1. nfini'[f] = nfini[f]
      BY <1>t, <2>3, <2>6, <2>7
    <3>2. \A m \in 1..Len(chain[f]) : chain[f][m] # x
      BY <2>5, <2>7, ChainPlace
    <3>3. \A m \in 1..Len(chain[f]) : HeldBy(chain[f][m])' <=> HeldBy(chain[f][m])
      BY <1>n, <2>2, <3>2
    <3> QED
      BY <1>1, <2>2, <3>1, <3>3
  <2>8. CASE f = g
    <3>1. nfini'[f] = nfini[f] + 1
      BY <1>t, <2>3, <2>6, <2>8
    <3>2. \A m \in 1..Len(chain[f]) : chain[f][m] = x => m = k
      BY <2>5, <2>8, ChainPlace
    <3>3. \A m \in 1..Len(chain[f]) : ~HeldBy(chain[f][m])' <=> ~HeldBy(chain[f][m]) \/ m = k
      BY <1>n, <2>2, <2>5, <2>8, <3>2
    <3>4. Finished(f)' = Finished(f) \cup {k} /\ k \notin Finished(f)
      BY <2>2, <2>5, <2>8, <3>3 DEF Finished
    <3>5. nfini[f] = Cardinality(Finished(f))
      BY <1>t, <2>2 DEF CountInv
    <3>6. IsFiniteSet(Finished(f))
      <4>1. Finished(f) \in SUBSET (1..Len(chain[f])) /\ Len(chain[f]) \in Nat
        BY <1>t DEF Finished
      <4> QED
        BY <4>1, FirstCount, FS_Subset
    <3> QED
      BY <3>1, <3>4, <3>5, <3>6, FS_AddElement
  <2> QED
    BY <2>7, <2>8
<1>6. CASE MtMerge \/ MtWait \/ MtCommit
  <2>1. ~BeginMt /\ ~GetWork /\ \A w \in Workers : ~FinishSegment(w)
    <3>1. mpc' = mpc
      BY <1>6 DEF MtMerge, MtWait, MtCommit
    <3>2. ~BeginMt /\ ~GetWork
      BY <3>1 DEF BeginMt, MayBegin, GetWork
    <3> QED
      BY <1>6, <3>2, FinishAlone
  <2>2. nfini' = nfini /\ \A x \in Nat : HeldBy(x)' <=> HeldBy(x)
    BY <1>2, <2>1, HeldKept
  <2>3. Live(f) /\ ~Merging(f) /\ chain'[f] = chain[f]
    <3>1. CASE MtMerge
      <4>1. ~MtWait /\ ~MtCommit
        BY <3>1 DEF MtMerge, MtWait, MtCommit
      <4>2. (Merging(f)' <=> Merging(f)) /\ (Live(f)' <=> Live(f))
        BY <2>1, <4>1, MergingKept, LiveKept
      <4> QED
        BY <3>1, <4>2, MergeFacts
    <3>2. CASE MtWait
      <4>1. ~MtCommit /\ ~MtMerge /\ ~Merging(f)
        BY <3>2 DEF MtMerge, MtWait, MtCommit, Merging
      <4> QED
        BY <2>1, <4>1, LiveKept, ChainFrame
    <3>3. CASE MtCommit
      <4>1. ~MtMerge
        BY <3>3 DEF MtCommit, MtMerge
      <4>2. Live(f) /\ f # wf
        BY <3>3, LiveCommit
      <4> QED
        BY <2>1, <4>1, <4>2, ChainFrame DEF Merging
    <3> QED
      BY <1>6, <3>1, <3>2, <3>3
  <2>4. \A k \in 1..Len(chain[f]) : HeldBy(chain[f][k])' <=> HeldBy(chain[f][k])
    BY <1>n, <2>2, <2>3
  <2> QED
    BY <1>1, <2>2, <2>3, <2>4
<1>7. CASE /\ ~BeginMt /\ ~GetWork /\ ~MtMerge /\ ~MtWait /\ ~MtCommit
           /\ \A w \in Workers : ~FinishSegment(w)
  <2>1. /\ nfini' = nfini /\ (Merging(f)' <=> Merging(f)) /\ (Live(f)' <=> Live(f))
        /\ chain' = chain /\ \A x \in Nat : HeldBy(x)' <=> HeldBy(x)
    BY <1>2, <1>7, HeldKept, MergingKept, LiveKept, ChainFrame
  <2>2. \A k \in 1..Len(chain[f]) : HeldBy(chain[f][k])' <=> HeldBy(chain[f][k])
    BY <1>n, <2>1
  <2> QED
    BY <1>1, <2>1, <2>2
<1> QED
  BY <1>3, <1>4, <1>5, <1>6, <1>7
-----------------------------------------------------------------------------
(* Only a merge and a commit touch the extents of a file with works, and   *)
(* how it was written.                                                     *)
LEMMA ExtentFrame ==
  ASSUME MtInv, [Next]_vars, NEW f \in Files, UseMt(f), ~MtMerge, ~MtCommit
  PROVE  extents'[f] = extents[f] /\ done'[f] = done[f]
<1>t. /\ extents \in [Files -> Seq(Triple)] /\ done \in [Files -> DoneSet] /\ ControlInv
  BY DEF MtInv, TypeOK
<1>1. CASE Pack
  <2>1. cur # f
    BY <1>1, <1>t DEF Pack, ControlInv
  <2> QED
    BY <1>1, <1>t, <2>1 DEF Pack
<1>2. CASE GlobalWrite
  <2>1. wf # f
    BY <1>2 DEF GlobalWrite
  <2> QED
    BY <1>2, <1>t, <2>1 DEF GlobalWrite
<1>3. CASE GlobalRelease
  <2>1. wf # f
    BY <1>3, <1>t DEF GlobalRelease, ControlInv, Writing
  <2> QED
    BY <1>3, <1>t, <2>1 DEF GlobalRelease, Commit
<1>4. CASE \/ BeginMt \/ BeginGlobal \/ BeginWoken \/ BeginStray \/ GetWork \/ QueueWork \/ Send
           \/ SendStop \/ Join \/ PackedDone \/ CompressExit
  BY <1>4 DEF BeginMt, BeginGlobal, BeginWoken, BeginStray, GetWork, QueueWork, Send, SendStop,
              Join, PackedDone, CompressExit
<1>5. CASE Pop \/ MtWait \/ MtSpurious \/ UNCHANGED vars
  BY <1>5 DEF Pop, MtWait, MtSpurious, vars
<1>6. CASE \E w \in Workers : Worker(w)
  BY <1>6 DEF Worker, Take, CompressSegment, FinishSegment
<1> QED
  BY <1>1, <1>2, <1>3, <1>4, <1>5, <1>6 DEF Next, Main, Writer

(* A file that has not been begun was not begun before either. *)
LEMMA FreshBefore ==
  ASSUME MtInv, [Next]_vars, NEW f \in Files, Fresh(f)'
  PROVE  Fresh(f)
<1>t. cur \in Nat /\ f \in Nat
  <2>1. cur \in 1..(N + 1)
    BY DEF MtInv, TypeOK
  <2> QED
    BY <2>1, Consts
<1>1. CASE cur' = cur /\ (mpc' \in {"begin", "stop", "join"} => mpc \in {"begin", "stop", "join"})
  BY <1>1 DEF Fresh
<1>2. CASE cur' = cur + 1
  <2>1. f >= cur + 1
    BY <1>t, <1>2 DEF Fresh
  <2> QED
    BY <1>t, <2>1 DEF Fresh
<1>3. CASE Main
  <2>1. CASE BeginMt \/ BeginGlobal \/ BeginWoken \/ GetWork \/ QueueWork
    BY <1>1, <2>1 DEF BeginMt, BeginGlobal, BeginWoken, GetWork, QueueWork, main
  <2>2. CASE Pack \/ Send
    BY <1>1, <1>2, <2>2 DEF Pack, Send, Advance
  <2>3. CASE SendStop \/ Join \/ PackedDone \/ CompressExit
    BY <1>1, <2>3 DEF SendStop, Join, PackedDone, CompressExit, main
  <2> QED
    BY <1>3, <2>1, <2>2, <2>3 DEF Main
<1>4. CASE \/ Pop \/ MtWait \/ MtSpurious \/ BeginStray \/ MtMerge \/ MtCommit
           \/ GlobalWrite \/ UNCHANGED vars
  BY <1>1, <1>4 DEF Pop, MtWait, MtSpurious, BeginStray, MtMerge, MtCommit, GlobalWrite,
                    vars, main
<1>5. CASE GlobalRelease
  BY <1>1, <1>5 DEF GlobalRelease, WakeMain, main
<1>6. CASE \E w \in Workers : Worker(w)
  BY <1>1, <1>6 DEF Worker, Take, CompressSegment, FinishSegment, main
<1> QED
  BY <1>3, <1>4, <1>5, <1>6 DEF Next, Writer

(* One more segment is placed behind the others. *)
LEMMA PlacedAppend ==
  ASSUME NEW f \in Files, NEW E \in Seq(Triple), Placed(E, f), NEW s, s = Len(E) + 1,
         NEW at \in Int, NEW b, b = Blks[f][s], b \in Int,
         E # << >> => at = Last(E)[2] + Last(E)[3]
  PROVE  Len(Append(E, <<s, at, b>>)) = s /\ Placed(Append(E, <<s, at, b>>), f)
<1> DEFINE e == <<s, at, b>>
           A == Append(E, e)
<1>1. e[1] = s /\ e[2] = at /\ e[3] = b /\ e \in Triple
  BY DEF Triple
<1> HIDE DEF e
<1>2. /\ Len(E) \in Nat /\ Len(A) = Len(E) + 1 /\ A[Len(E) + 1] = e
      /\ \A k \in 1..Len(E) : A[k] = E[k]
  BY <1>1
<1> HIDE DEF A
<1>3. ASSUME NEW k \in 1..Len(A)
      PROVE  /\ A[k][1] = k /\ A[k][3] = Blks[f][k]
             /\ k > 1 => A[k][2] = A[k-1][2] + A[k-1][3]
  <2>1. CASE k \in 1..Len(E)
    <3>1. A[k] = E[k] /\ (k > 1 => A[k - 1] = E[k - 1])
      BY <1>2, <2>1
    <3> QED
      BY <2>1, <3>1 DEF Placed
  <2>2. CASE k = Len(E) + 1
    <3>1. A[k] = e /\ k = s
      BY <1>2, <2>2
    <3>2. k > 1 => E # << >> /\ A[k - 1] = Last(E)
      <4>1. k > 1 => k - 1 = Len(E) /\ Len(E) \in 1..Len(E)
        BY <1>2, <2>2
      <4> QED
        BY <1>2, <4>1 DEF Last
    <3> QED
      BY <1>1, <3>1, <3>2
  <2> QED
    BY <1>2, <2>1, <2>2
<1>4. Len(A) = s /\ Placed(A, f)
  BY <1>2, <1>3 DEF Placed
<1> QED
  BY <1>4 DEF A, e

LEMMA ExtentStep == MtInv /\ [Next]_vars => ExtentInv'
<1> SUFFICES ASSUME MtInv, [Next]_vars, NEW f \in Files, UseMt(f)
             PROVE  FileExtents(f)'
  BY SameMode DEF ExtentInv, UseMt
<1>t. /\ TypeOK /\ ControlInv /\ ChainInv /\ FileChain(f) /\ FileExtents(f)
      /\ extents \in [Files -> Seq(Triple)] /\ done \in [Files -> DoneSet]
  BY DEF MtInv, ChainInv, ExtentInv, TypeOK
<1>q. Segs[f] \in Nat
  BY Consts
<1>f. Fresh(f)' => Fresh(f)
  BY FreshBefore
<1>1. ASSUME extents'[f] = extents[f], done'[f] = done[f], Live(f)' /\ ~Merging(f)' => (Live(f) /\ ~Merging(f)) \/ Fresh(f),
             Merging(f)' => Merging(f) /\ chain'[f] = chain[f]
      PROVE  FileExtents(f)'
  BY <1>t, <1>f, <1>1 DEF FileExtents
<1>2. CASE BeginMt
  <2>1. ~GetWork /\ ~MtMerge /\ ~MtWait /\ ~MtCommit
    BY <1>2 DEF BeginMt, MayBegin, GetWork, MtMerge, MtWait, MtCommit, main
  <2>2. /\ chain' = chain /\ (Merging(f)' <=> Merging(f))
        /\ extents'[f] = extents[f] /\ done'[f] = done[f]
    BY <2>1, ChainFrame, MergingKept, ExtentFrame
  <2>3. Live(f)' => Live(f) \/ f = cur
    BY <1>2, LiveBegin
  <2>4. f = cur => Fresh(f)
    BY <1>2 DEF BeginMt, MayBegin, Fresh
  <2> QED
    BY <1>1, <2>2, <2>3, <2>4
<1>3. CASE MtWait
  <2>1. ~BeginMt /\ ~GetWork /\ ~MtMerge /\ ~MtCommit
    BY <1>3 DEF BeginMt, GetWork, MtMerge, MtCommit, MtWait
  <2>2. /\ chain' = chain /\ (Live(f)' <=> Live(f)) /\ ~Merging(f)
        /\ extents'[f] = extents[f] /\ done'[f] = done[f]
    BY <1>3, <2>1, ChainFrame, LiveKept, ExtentFrame DEF MtWait, Merging
  <2>3. CASE ~Merging(f)'
    BY <1>1, <2>2, <2>3
  <2>4. CASE Merging(f)'
    <3>1. UNCHANGED <<mpc, cur, wf>> /\ f = wf /\ wpc = "write"
      BY <1>3, <2>4 DEF MtWait, Merging, main
    <3>2. Live(f) /\ (mpc # "end" => wf < cur) /\ (mpc = "end" => wf = cur)
      BY <1>t, <3>1 DEF Live, ControlInv, Writing
    <3>3. ~Fresh(f) /\ (mpc # "end" => f # cur)
      <4>1. f \in Nat /\ cur \in Nat
        BY <1>t, Consts DEF TypeOK
      <4> QED
        BY <3>1, <3>2, <4>1 DEF Fresh
    <3>4. Len(chain[f]) = Segs[f]
      BY <1>t, <2>2, <3>2, <3>3 DEF FileChain, Linked
    <3>5. extents[f] = << >> /\ done[f] = "none"
      BY <1>t, <2>2, <3>2 DEF FileExtents
    <3>6. Len(extents'[f]) = Segs[f] - Len(chain'[f])
      BY <1>q, <2>2, <3>4, <3>5
    <3>7. 1..Len(extents'[f]) = {}
      BY <2>2, <3>5
    <3>8. Placed(extents'[f], f)
      BY <3>7 DEF Placed
    <3> QED
      BY <1>f, <2>2, <2>4, <3>3, <3>5, <3>6, <3>8 DEF FileExtents
  <2> QED
    BY <2>3, <2>4
<1>4. CASE MtMerge
  <2>1. ~BeginMt /\ ~GetWork /\ ~MtWait /\ ~MtCommit
    BY <1>4 DEF BeginMt, GetWork, MtMerge, MtCommit, MtWait
  <2>2. (Live(f)' <=> Live(f)) /\ (Merging(f)' <=> Merging(f))
    BY <2>1, LiveKept, MergingKept
  <2> DEFINE x == chain[wf][1]
  <2>3. /\ wf \in Files /\ Merging(wf) /\ Len(chain[wf]) \in Nat
        /\ 1 \in 1..Len(chain[wf]) /\ Slot(x, wf, Segs[wf] - Len(chain[wf]) + 1)
        /\ Len(chain'[wf]) = Len(chain[wf]) - 1
        /\ \A g \in Files : g # wf => chain'[g] = chain[g]
        /\ Head(chain[wf]) = x
    BY <1>4, MergeFacts
  <2>4. \/ work[x].blks = Failed /\ done' = [done EXCEPT ![wf] = "failed"] /\ extents' = extents
        \/ /\ work[x].blks # Failed /\ done' = done
           /\ extents' = [extents EXCEPT ![wf] =
                Append(extents[wf], <<work[x].seg, NextBlk(wf), work[x].blks>>)]
    BY <1>4, <2>3 DEF MtMerge
  <2>a. Chained(x) /\ ~HeldBy(x)
    BY <2>3 DEF MtInv, HeldInv, Chained
  <2> HIDE DEF x
  <2>5. CASE f # wf
    <3>1. extents'[f] = extents[f] /\ done'[f] = done[f]
      BY <1>t, <2>3, <2>4, <2>5
    <3> QED
      BY <1>1, <2>2, <2>3, <2>5, <3>1
  <2>6. CASE f = wf
    <3>1. Merging(f) /\ ~Fresh(f)
      BY <2>3, <2>6, MergingLive
    <3>2. CASE work[x].blks = Failed
      <4>1. done'[f] = "failed"
        BY <1>t, <2>4, <2>6, <3>2
      <4> QED
        BY <1>f, <2>2, <3>1, <4>1 DEF FileExtents
    <3>3. CASE work[x].blks # Failed
      <4>1. done'[f] = done[f] /\ done[f] \in {"none", "failed"}
        BY <1>t, <2>4, <3>1, <3>3 DEF FileExtents
      <4>2. CASE done[f] # "none"
        BY <1>f, <2>2, <3>1, <4>1, <4>2 DEF FileExtents
      <4>3. CASE done[f] = "none"
        <5>1. Len(extents[f]) = Segs[f] - Len(chain[f]) /\ Placed(extents[f], f)
          BY <1>t, <3>1, <4>3 DEF FileExtents
        <5>2. extents'[f] = Append(extents[f], <<work[x].seg, NextBlk(f), work[x].blks>>)
          BY <1>t, <2>3, <2>4, <2>6, <3>3
        <5>3. x \in Works /\ work[x].file = f /\ work[x].seg = Len(extents[f]) + 1
          BY <2>3, <2>6, <5>1 DEF Slot
        <5>4. work[x].blks = Blks[f][work[x].seg] /\ work[x].blks \in Int
          <6>1. Result(x)
            BY <5>3 DEF MtInv, ResultInv
          <6> QED
            BY <2>a, <3>3, <5>3, <6>1, <1>t, WorkType DEF Result
        <5>5. /\ extents[f] # << >> => NextBlk(f) = Last(extents[f])[2] + Last(extents[f])[3]
              /\ NextBlk(f) \in Int /\ extents[f] \in Seq(Triple)
          BY <1>t, NextBlkType DEF NextBlk
        <5>6. /\ Len(extents'[f]) = work[x].seg
              /\ Placed(extents'[f], f)
          BY <5>1, <5>2, <5>3, <5>4, <5>5, PlacedAppend
        <5>7. work[x].seg = Segs[f] - Len(chain'[f])
          BY <1>q, <2>3, <2>6, <5>1, <5>3
        <5> QED
          BY <1>f, <2>2, <3>1, <4>1, <4>3, <5>6, <5>7 DEF FileExtents
      <4> QED
        BY <4>2, <4>3
    <3> QED
      BY <3>2, <3>3
  <2> QED
    BY <2>5, <2>6
<1>5. CASE MtCommit
  <2>1. ~BeginMt /\ ~GetWork /\ ~MtWait /\ ~MtMerge
    BY <1>5 DEF BeginMt, MayBegin, GetWork, MtMerge, MtCommit, MtWait, main
  <2>2. /\ wf \in Files /\ Merging(wf) /\ chain[wf] = << >> /\ extents' = extents
        /\ ~Merging(f)' /\ (Live(f)' <=> Live(f) /\ f # wf)
    BY <1>5, LiveCommit DEF MtCommit, Merging, AfterWrite, AfterFailure
  <2>3. done' = done \/ (done[wf] # "failed" /\ \E d \in {"compressed", "plain"} : done' = [done EXCEPT ![wf] = d])
    BY <1>5 DEF MtCommit, Commit
  <2>4. CASE f # wf
    <3>1. done'[f] = done[f] /\ ~Merging(f)
      BY <1>t, <2>2, <2>3, <2>4 DEF Merging
    <3> QED
      BY <1>1, <2>2, <2>4, <3>1
  <2>5. CASE f = wf
    <3>1. ~Fresh(f) /\ ~Live(f)' /\ Merging(f)
      BY <2>2, <2>5, MergingLive
    <3>2. done[f] \in {"none", "failed"} /\ (done[f] = "none" => Len(extents[f]) = Segs[f] /\ Placed(extents[f], f))
      <4>1. Len(chain[f]) = 0
        BY <2>2, <2>5
      <4> QED
        BY <1>t, <1>q, <3>1, <4>1 DEF FileExtents
    <3>3. done'[f] = "compressed" => done[f] = "none"
      BY <1>t, <2>2, <2>3, <2>5, <3>2
    <3> QED
      BY <1>f, <2>2, <3>1, <3>2, <3>3 DEF FileExtents
  <2> QED
    BY <2>4, <2>5
<1>6. CASE ~BeginMt /\ ~MtWait /\ ~MtMerge /\ ~MtCommit
  <2>1. /\ (Live(f)' <=> Live(f)) /\ (Merging(f)' <=> Merging(f))
        /\ extents'[f] = extents[f] /\ done'[f] = done[f]
    BY <1>6, LiveKept, MergingKept, ExtentFrame
  <2>2. Merging(f) => chain'[f] = chain[f]
    <3>1. CASE GetWork
      <4>1. Merging(f) => f # cur
        BY <3>1, GetWorkFacts
      <4>2. chain \in [Files -> Seq(Nat)]
        BY <1>t DEF TypeOK
      <4> QED
        BY <3>1, <4>1, <4>2 DEF GetWork
    <3>2. CASE ~GetWork
      BY <1>6, <3>2, ChainFrame
    <3> QED
      BY <3>1, <3>2
  <2> QED
    BY <1>1, <2>1, <2>2
<1> QED
  BY <1>2, <1>3, <1>4, <1>5, <1>6
-----------------------------------------------------------------------------
LEMMA MtStep == MtInv /\ [Next]_vars => MtInv'
BY TypeStep, ControlStep, JobsStep, StaticStep, ChainStep, IdleStep, HeldStep,
   ResultStep, CountStep, ExtentStep DEF MtInv

(* The whole state of the threads, chains and works stays as MtInv says,   *)
(* whatever the order in which the threads run.                            *)
THEOREM MtInvariant == Spec => []MtInv
<1>1. MtInv /\ [Next]_vars => MtInv'
  BY MtStep
<1> QED
  BY MtInit, <1>1, PTL DEF Spec, SafeSpec

(* The segments of every file written compressed by erofs_mt_write_        *)
(* compressed_file lie in order, with the blocks their workers produced.   *)
THEOREM MergedInOrder == Spec => []SegmentsInOrder
<1>1. MtInv => SegmentsInOrder
  <2> SUFFICES ASSUME MtInv, NEW f \in Files, done[f] = "compressed", UseMt(f)
               PROVE  Len(extents[f]) = Segs[f] /\ Placed(extents[f], f)
    BY DEF SegmentsInOrder, Placed
  <2> QED
    BY DEF MtInv, ExtentInv, FileExtents
<1> QED
  BY <1>1, MtInvariant, PTL

LEMMA Accounted == MtInv => WorksAccounted
<1> SUFFICES ASSUME MtInv PROVE WorksAccounted
  OBVIOUS
<1>t. TypeOK /\ ControlInv /\ ChainInv /\ IdleInv /\ HeldInv
  BY DEF MtInv
<1>q. /\ idle \in Seq(Nat) /\ queue \in Seq(Nat) /\ chain \in [Files -> Seq(Nat)]
      /\ running \in [Workers -> Nat \cup {NULL}] /\ NULL \notin Nat
  BY <1>t, Consts DEF TypeOK
<1>r. /\ \A x : x \in Range(idle) <=> \E i \in 1..Len(idle) : idle[i] = x
      /\ \A x : x \in Range(queue) <=> InQueue(x)
      /\ \A f \in Files : \A x : x \in Range(chain[f]) <=> \E k \in 1..Len(chain[f]) : chain[f][k] = x
  BY <1>q DEF Range, InQueue
<1>1. ASSUME mpc # "exited", NEW x \in 1..alloced
      PROVE  \/ /\ x \in Range(idle)
                /\ \A f \in Files : x \notin Range(chain[f])
             \/ Cardinality({f \in Files : x \in Range(chain[f])}) = 1
  <2>1. x \in Works
    BY <1>t, <1>1 DEF IdleInv, Works
  <2>2. CASE ~Chained(x)
    BY <1>t, <1>1, <1>r, <2>1, <2>2 DEF IdleInv, Chained
  <2>3. CASE Chained(x)
    <3>1. PICK g \in Files : \E k \in 1..Len(chain[g]) : chain[g][k] = x
      BY <2>3 DEF Chained
    <3>2. \A f \in Files : x \in Range(chain[f]) <=> f = g
      <4>1. x \in Range(chain[g])
        BY <1>r, <3>1
      <4>2. ASSUME NEW f \in Files, x \in Range(chain[f]) PROVE f = g
        <5>1. PICK k \in 1..Len(chain[f]) : chain[f][k] = x
          BY <1>r, <4>2
        <5>2. PICK m \in 1..Len(chain[g]) : chain[g][m] = x
          BY <3>1
        <5> QED
          BY <5>1, <5>2, ChainPlace
      <4> QED
        BY <4>1, <4>2
    <3>3. {f \in Files : x \in Range(chain[f])} = {g}
      BY <3>1, <3>2
    <3> QED
      BY <3>3, FS_Singleton
  <2> QED
    BY <2>2, <2>3
<1>2. IsInjective(idle)
  <2>1. DOMAIN idle = 1..Len(idle)
    BY <1>q
  <2>2. \A i, j \in 1..Len(idle) : idle[i] = idle[j] => i = j
    BY <1>t DEF IdleInv
  <2> QED
    BY <2>1, <2>2 DEF IsInjective
<1>3. ASSUME NEW x \in (Range(queue) \cup {running[w] : w \in Workers}) \ {NULL}
      PROVE  /\ ictx[work[x].file] = "live"
             /\ x \in Range(chain[work[x].file])
             /\ ~ (wpc = "merge" /\ wf = work[x].file)
  <2>1. x \in Nat /\ HeldBy(x)
    <3>1. CASE x \in Range(queue)
      BY <1>q, <1>r, <3>1 DEF HeldBy, InQueue
    <3>2. CASE x \in {running[w] : w \in Workers}
      BY <1>q, <1>3, <3>2 DEF HeldBy, InRun
    <3> QED
      BY <1>3, <3>1, <3>2
  <2>2. PICK g \in Files : \E k \in 1..Len(chain[g]) : chain[g][k] = x
    BY <1>t, <2>1 DEF HeldInv, Chained
  <2>3. work[x].file = g
    BY <1>t, <2>2 DEF ChainInv, FileChain, Slot
  <2>4. Live(g)
    <3>1. chain[g] # << >>
      BY <2>2
    <3> QED
      BY <1>t, <3>1 DEF ChainInv, FileChain
  <2>5. ~Merging(g)
    BY <1>t, <2>1, <2>2 DEF HeldInv
  <2> QED
    BY <1>t, <1>r, <2>2, <2>3, <2>4, <2>5 DEF ChainInv, FileChain, Merging
<1> QED
  BY <1>t, <1>1, <1>2, <1>3 DEF WorksAccounted, IdleInv

LEMMA Exclusive == MtInv => GlobalExclusive
<1> SUFFICES ASSUME MtInv, mpc = "pack" PROVE GlobalExclusive
  BY DEF GlobalExclusive, StrayClaim
<1>t. TypeOK /\ ControlInv /\ StaticInv /\ jobs \in Seq(Nat)
  BY DEF MtInv, TypeOK
<1>1. ~UseMt(cur) /\ mode # "mt"
  BY <1>t DEF ControlInv, UseMt
<1>2. ~Waiting /\ ~Holding
  BY <1>t, <1>1 DEF StaticInv, Packing
<1>3. \A j \in Range(jobs) : j = Stop
  BY <1>t, <1>2 DEF Range, Waiting
<1> QED
  BY <1>2, <1>3 DEF GlobalExclusive, StaticInUse, Holding, Writing

(* No context is used by two threads or after it was given up: no work of  *)
(* z_erofs_mt_ctrl, and not the static g_ictx either, but for a stray      *)
(* return from the single-test wait that guards it.                        *)
THEOREM ContextsSafe == Spec => []ContextsOwned
<1>1. MtInv => ContextsOwned
  BY Accounted, Exclusive DEF ContextsOwned
<1> QED
  BY <1>1, MtInvariant, PTL
=============================================================================
