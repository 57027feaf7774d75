----------------------------- MODULE MtCompress -----------------------------
(***************************************************************************)
(* Compressing files while the tree is built (lib/compress.c).  The main   *)
(* thread begins each file.  With worker threads (z_erofs_mt_enabled) it   *)
(* cuts the file into segments, one work each, queues the works and sends  *)
(* a job to the dfops worker, which waits for all segments of the file,    *)
(* merges their extents in order and recycles the works.  Without worker   *)
(* threads, or for the files of -Eall-fragments, one static context        *)
(* (g_ictx) is passed from the main thread, which packs the tail of the    *)
(* file into the packed inode, to the dfops worker, which compresses.      *)
(* The packed inode itself is begun and written by the main thread once    *)
(* the dfops worker was joined.                                            *)
(*                                                                         *)
(* The work queue is the executor that WorkQueue implements, the ring of   *)
(* jobs the pipe that DfopsRing implements.  What a segment compresses to  *)
(* is a number of blocks, or a failure.                                    *)
(*                                                                         *)
(* Both waits may return without a signal.  The one for the segments of a  *)
(* file is a loop.  The one for the static context is a single test        *)
(* (compress.c:1463 "if (g_ictx.seg_num) pthread_cond_wait"): a stray      *)
(* return claims the context again under the thread that uses it.  The     *)
(* accesses of the two threads then race, and what the code does from      *)
(* there on is undefined: the main thread stays at "raced", and what is    *)
(* shown excepts that by name.                                             *)
(*                                                                         *)
(* Memory is assumed to be available: when a work cannot be allocated the  *)
(* code frees the context under the works already queued, and what follows *)
(* is undefined as well.                                                   *)
(***************************************************************************)
EXTENDS Integers, Sequences, FiniteSets, SequencesExt

CONSTANTS
  N,         \* the files are 1..N; in the fragment modes the last is the packed one
  Segs,      \* the number of segments of every file
  Modes,     \* a subset of {"mt", "global", "all_fragments"}
  Workers,   \* the compress workers
  MaxJobs,   \* how many works may wait in the work queue
  Cap,       \* how many jobs may wait for the dfops worker
  Blks,      \* the blocks each segment compresses to
  Fails,     \* what may fail: a subset of {"segment", "fragment"}
  Spurious,  \* the contexts whose cond may be left without a signal
  NULL

Files == 1..N

ASSUME MtAssumption ==
  /\ N \in Nat \ {0, 1}
  /\ Segs \in [Files -> Nat \ {0}]
  /\ Modes \subseteq {"mt", "global", "all_fragments"}
  /\ MaxJobs \in Nat \ {0} /\ Cap \in Nat \ {0}
  /\ \A f \in Files : Blks[f] \in [1..Segs[f] -> Nat]
  /\ Fails \subseteq {"segment", "fragment"}
  /\ Spurious \subseteq {"ictx", "g_ictx"}
  /\ NULL \notin Nat

VARIABLES
  mode,     \* which contexts the configuration makes the files use
  mpc,      \* where the main thread is
  cur,      \* the file it is at
  seg,      \* the segment it queues next
  hand,     \* the work it is about to queue
  alloced,  \* how many works were taken from the heap and not freed
  idle,     \* z_erofs_mt_ctrl.idle: the recycled works, last one first
  work,     \* what every work from the heap is for, and its result once it was run
  chain,    \* the works of every file, linked by next
  ictx,     \* the context of every file: "none", "live" or "freed"
  nfini,    \* how many segments of it are finished
  queue,    \* the works waiting in the work queue
  running,  \* the work every worker runs
  jobs,     \* the jobs waiting for the dfops worker
  wpc,      \* where the thread that writes files is
  wf,       \* the file it writes
  gseg,     \* g_ictx.seg_num: 1 while the static context is claimed
  tail,     \* the next free block of the image
  extents,  \* the extents of every file, as <<segment, first block, blocks>>
  done      \* how every file was written: "none" yet, "compressed", "plain" or "failed"

vars == <<mode, mpc, cur, seg, hand, alloced, idle, work, chain, ictx, nfini,
          queue, running, jobs, wpc, wf, gseg, tail, extents, done>>
main == <<mode, cur, seg, hand, alloced>>
pool == <<queue, running, nfini>>

UseMt(f) == mode = "mt" \/ (mode = "all_fragments" /\ f = N)
Packed(f) == mode # "mt" /\ f = N
LastOfTree == IF mode = "mt" THEN N ELSE N - 1
NoResult == -1
Failed == -2
Stop == 0

Init ==
  /\ mode \in Modes
  /\ mpc = "begin" /\ cur = 1 /\ seg = 1 /\ hand = NULL
  /\ alloced = 0 /\ idle = << >>
  /\ work = << >>
  /\ chain = [f \in Files |-> << >>]
  /\ ictx = [f \in Files |-> "none"]
  /\ nfini = [f \in Files |-> 0]
  /\ queue = << >> /\ running = [w \in Workers |-> NULL]
  /\ jobs = << >> /\ wpc = "pop" /\ wf = NULL
  /\ gseg = 0 /\ tail = 0
  /\ extents = [f \in Files |-> << >>]
  /\ done = [f \in Files |-> "none"]
-----------------------------------------------------------------------------
(* The main thread: erofs_begin_compressed_file and erofs_mkfs_go *)

(* The packed inode comes after the dfops worker was joined. *)
MayBegin == mpc = "begin" /\ (Packed(cur) => wpc = "joined")

(* Whether the static context must be waited for.                          *)
Claimed == gseg # 0

(* A file with a context of its own: malloc, seg_num, nfini. *)
BeginMt ==
  /\ MayBegin /\ UseMt(cur)
  /\ ictx' = [ictx EXCEPT ![cur] = "live"]
  /\ nfini' = [nfini EXCEPT ![cur] = 0]
  /\ seg' = 1
  /\ mpc' = "get"
  /\ UNCHANGED <<mode, cur, hand, alloced, idle, work, chain, queue, running,
                 jobs, wpc, wf, gseg, tail, extents, done>>

(* A file with the static context: the caller claims it, or sleeps. *)
BeginGlobal ==
  /\ MayBegin /\ ~UseMt(cur)
  /\ IF Claimed
     THEN mpc' = "gsleep" /\ UNCHANGED gseg
     ELSE mpc' = "pack" /\ gseg' = 1
  /\ UNCHANGED <<main, idle, work, chain, ictx, pool, jobs, wpc, wf, tail,
                 extents, done>>

(* Behind the wait the context is claimed without another test. *)
BeginWoken ==
  /\ mpc = "gwoken"
  /\ gseg' = 1
  /\ mpc' = "pack"
  /\ UNCHANGED <<main, idle, work, chain, ictx, pool, jobs, wpc, wf, tail,
                 extents, done>>

(* Whether the dfops worker uses the static context, or has a job with it. *)
StaticInUse == \/ wpc \in {"write", "commit"} /\ ~UseMt(wf)
               \/ \E j \in Range(jobs) : j # Stop

(* The wait returns without a signal: seg_num is not tested again.  The    *)
(* two threads race for the context, unless it was left claimed by a file  *)
(* that failed and nobody uses it.                                         *)
BeginStray ==
  /\ "g_ictx" \in Spurious
  /\ mpc = "gsleep"
  /\ gseg' = 1
  /\ mpc' = IF StaticInUse THEN "raced" ELSE "pack"
  /\ UNCHANGED <<main, idle, work, chain, ictx, pool, jobs, wpc, wf, tail,
                 extents, done>>

(* What the main thread does behind file cur: the next one, or the end of  *)
(* the tree, or, behind the packed inode, the end.                         *)
Advance ==
  /\ cur' = cur + 1
  /\ mpc' = IF cur = LastOfTree THEN "stop"
            ELSE IF Packed(cur) THEN "exit" ELSE "begin"

(* The fragments of the file are looked up and packed, and the list of     *)
(* extents in the context is emptied.  On a failure the static context     *)
(* stays claimed and the walk goes on, in another directory.               *)
Pack ==
  /\ mpc = "pack"
  /\ \/ /\ mpc' = "send"
        /\ extents' = [extents EXCEPT ![cur] = << >>]
        /\ UNCHANGED <<cur, done>>
     \/ /\ "fragment" \in Fails /\ ~Packed(cur)
        /\ Advance
        /\ done' = [done EXCEPT ![cur] = "failed"]
        /\ UNCHANGED extents
  /\ UNCHANGED <<mode, seg, hand, alloced, idle, work, chain, ictx, pool, jobs,
                 wpc, wf, gseg, tail>>

(* z_erofs_mt_compress takes a recycled work, or a new one, links it       *)
(* behind the others and fills it in.                                      *)
GetWork ==
  /\ mpc = "get"
  /\ LET new == [file |-> cur, seg |-> seg, blks |-> NoResult]
     IN \/ /\ idle # << >>
           /\ hand' = Head(idle)
           /\ idle' = Tail(idle)
           /\ work' = [work EXCEPT ![Head(idle)] = new]
           /\ UNCHANGED alloced
        \/ /\ idle = << >>
           /\ hand' = Len(work) + 1
           /\ work' = Append(work, new)
           /\ alloced' = alloced + 1
           /\ UNCHANGED idle
  /\ chain' = [chain EXCEPT ![cur] = Append(@, hand')]
  /\ mpc' = "queue"
  /\ UNCHANGED <<mode, cur, seg, ictx, pool, jobs, wpc, wf, gseg, tail,
                 extents, done>>

(* erofs_queue_work waits for room; after the last segment the file's job  *)
(* is sent.                                                                *)
QueueWork ==
  /\ mpc = "queue"
  /\ Len(queue) < MaxJobs
  /\ queue' = Append(queue, hand)
  /\ hand' = NULL
  /\ seg' = seg + 1
  /\ mpc' = IF seg = Segs[cur] THEN "send" ELSE "get"
  /\ UNCHANGED <<mode, cur, alloced, idle, work, chain, ictx, nfini, running,
                 jobs, wpc, wf, gseg, tail, extents, done>>

(* The context is handed over: to the dfops worker, or, for the packed     *)
(* inode, to the same thread.                                              *)
Send ==
  /\ mpc = "send"
  /\ IF Packed(cur)
     THEN /\ wpc' = "write" /\ wf' = cur
          /\ mpc' = "end"
          /\ UNCHANGED <<cur, jobs>>
     ELSE /\ Len(jobs) < Cap
          /\ jobs' = Append(jobs, cur)
          /\ Advance
          /\ UNCHANGED <<wpc, wf>>
  /\ UNCHANGED <<mode, seg, hand, alloced, idle, work, chain, ictx, pool, gseg,
                 tail, extents, done>>

(* The tree is complete: the dfops worker is stopped and joined. *)
SendStop ==
  /\ mpc = "stop"
  /\ Len(jobs) < Cap
  /\ jobs' = Append(jobs, Stop)
  /\ mpc' = "join"
  /\ UNCHANGED <<main, idle, work, chain, ictx, pool, wpc, wf, gseg, tail,
                 extents, done>>

Join ==
  /\ mpc = "join" /\ wpc = "exited"
  /\ wpc' = "joined"
  /\ mpc' = IF mode = "mt" THEN "exit" ELSE "begin"
  /\ UNCHANGED <<main, idle, work, chain, ictx, pool, jobs, wf, gseg, tail,
                 extents, done>>

(* The packed inode is written: on to z_erofs_compress_exit. *)
PackedDone ==
  /\ mpc = "end" /\ wpc = "joined"
  /\ mpc' = "exit"
  /\ UNCHANGED <<main, idle, work, chain, ictx, pool, jobs, wpc, wf, gseg, tail,
                 extents, done>>

(* z_erofs_compress_exit destroys the queue and frees the idle works. *)
CompressExit ==
  /\ mpc = "exit"
  /\ queue = << >> /\ \A w \in Workers : running[w] = NULL
  /\ mpc' = "exited"
  /\ idle' = << >>
  /\ alloced' = alloced - Len(idle)
  /\ UNCHANGED <<mode, cur, seg, hand, work, chain, ictx, pool, jobs, wpc, wf,
                 gseg, tail, extents, done>>
-----------------------------------------------------------------------------
(* The compress workers: z_erofs_mt_workfn *)

Take(w) ==
  /\ running[w] = NULL
  /\ queue # << >>
  /\ running' = [running EXCEPT ![w] = Head(queue)]
  /\ queue' = Tail(queue)
  /\ UNCHANGED <<main, mpc, idle, work, chain, ictx, nfini, jobs, wpc, wf,
                 gseg, tail, extents, done>>

(* What segment s of file f is compressed to. *)
Results(f, s) == {Blks[f][s]} \cup (IF "segment" \in Fails THEN {Failed} ELSE {})

(* The segment is compressed into a buffer of the work, or the work gets   *)
(* an error code.                                                          *)
CompressSegment(w) ==
  /\ running[w] # NULL
  /\ work[running[w]].blks = NoResult
  /\ \E b \in Results(work[running[w]].file, work[running[w]].seg) :
       work' = [work EXCEPT ![running[w]].blks = b]
  /\ UNCHANGED <<main, mpc, idle, chain, ictx, queue, running, nfini, jobs, wpc,
                 wf, gseg, tail, extents, done>>

(* Whether all segments of file f are finished when n of them are.         *)
(* Fault: one more is waited for.                                          *)
AllFinished_OneMore(f, n) == n > Segs[f]
AllFinished(f, n) == n >= Segs[f]

(* The work is counted, and the last one wakes the thread that waits. *)
FinishSegment(w) ==
  /\ running[w] # NULL
  /\ work[running[w]].blks # NoResult
  /\ LET f == work[running[w]].file
     IN /\ nfini' = [nfini EXCEPT ![f] = @ + 1]
        /\ wpc' = IF wpc = "sleep" /\ wf = f /\ AllFinished(f, nfini[f] + 1)
                  THEN "write" ELSE wpc
  /\ running' = [running EXCEPT ![w] = NULL]
  /\ UNCHANGED <<main, mpc, idle, work, chain, ictx, queue, jobs, wf,
                 gseg, tail, extents, done>>
-----------------------------------------------------------------------------
(* Writing a file: erofs_write_compressed_file *)

Pop ==
  /\ wpc = "pop" /\ jobs # << >>
  /\ IF Head(jobs) = Stop THEN wpc' = "exited" /\ UNCHANGED wf
                          ELSE wpc' = "write" /\ wf' = Head(jobs)
  /\ jobs' = Tail(jobs)
  /\ UNCHANGED <<main, mpc, idle, work, chain, ictx, pool, gseg, tail, extents,
                 done>>

(* erofs_mt_write_compressed_file waits for every segment of the file.     *)
(* Fault: all but one.                                                     *)
MustWait_Less == nfini[wf] < Segs[wf] - 1
MustWait == nfini[wf] < Segs[wf]

MtWait ==
  /\ wpc = "write" /\ UseMt(wf)
  /\ wpc' = IF MustWait THEN "sleep" ELSE "merge"
  /\ UNCHANGED <<main, mpc, idle, work, chain, ictx, pool, jobs, wf, gseg, tail,
                 extents, done>>

MtSpurious ==
  /\ "ictx" \in Spurious
  /\ wpc = "sleep"
  /\ wpc' = "write"
  /\ UNCHANGED <<main, mpc, idle, work, chain, ictx, pool, jobs, wf, gseg, tail,
                 extents, done>>

(* head = cur->next, read before cur is linked into the idle list.         *)
(* Fault: it is read afterwards.                                           *)
RestOf_Late(f) == idle
RestOf(f) == Tail(chain[f])

(* The block behind the extents merged so far. *)
NextBlk(f) == IF extents[f] = << >> THEN tail
              ELSE Last(extents[f])[2] + Last(extents[f])[3]

(* z_erofs_merge_segment: the extents of the segment move to the file, at  *)
(* the blocks behind those of the segments before.  A segment that failed  *)
(* is passed over.  Either way the work is recycled.                       *)
MtMerge ==
  /\ wpc = "merge" /\ chain[wf] # << >>
  /\ LET x == Head(chain[wf])
     IN /\ IF work[x].blks = Failed
           THEN /\ done' = [done EXCEPT ![wf] = "failed"]
                /\ UNCHANGED extents
           ELSE /\ extents' = [extents EXCEPT ![wf] =
                                 Append(@, <<work[x].seg, NextBlk(wf), work[x].blks>>)]
                /\ UNCHANGED done
        /\ idle' = <<x>> \o idle
  /\ chain' = [chain EXCEPT ![wf] = RestOf(wf)]
  /\ UNCHANGED <<main, mpc, work, ictx, pool, jobs, wpc, wf, gseg, tail>>

(* erofs_commit_compressed_file keeps the blocks, or gives them up when    *)
(* compression does not save space and the data is written plain (into     *)
(* blocks from the same place on).                                         *)
Commit ==
  \/ /\ done' = [done EXCEPT ![wf] = "compressed"]
     /\ tail' = NextBlk(wf)
  \/ /\ done' = [done EXCEPT ![wf] = "plain"]
     /\ tail' = tail + 1

(* A file that failed ends the dfops worker; jobs behind it are left. *)
AfterFailure == IF Packed(wf) THEN "joined" ELSE "exited"
AfterWrite == IF Packed(wf) THEN "joined" ELSE "pop"

(* All segments were merged; the context of the file is freed. *)
MtCommit ==
  /\ wpc = "merge" /\ chain[wf] = << >>
  /\ \/ done[wf] # "failed" /\ Commit /\ wpc' = AfterWrite
     \/ done[wf] = "failed" /\ UNCHANGED <<done, tail>> /\ wpc' = AfterFailure
  /\ ictx' = [ictx EXCEPT ![wf] = "freed"]
  /\ UNCHANGED <<main, mpc, idle, work, chain, pool, jobs, wf, gseg, extents>>

(* With the static context the whole file is compressed here, in one       *)
(* segment.                                                                *)
GlobalWrite ==
  /\ wpc = "write" /\ ~UseMt(wf)
  /\ \E b \in Results(wf, 1) :
       IF b = Failed
       THEN done' = [done EXCEPT ![wf] = "failed"] /\ UNCHANGED extents
       ELSE /\ extents' = [extents EXCEPT ![wf] = Append(@, <<1, tail, b>>)]
            /\ UNCHANGED done
  /\ wpc' = "commit"
  /\ UNCHANGED <<main, mpc, idle, work, chain, ictx, pool, jobs, wf, gseg, tail>>

(* The waiting main thread is woken.                                       *)
(* Fault: the context is given back without a signal.                      *)
WakeMain_Never == mpc
WakeMain == IF mpc = "gsleep" THEN "gwoken" ELSE mpc

(* Its fragments and its extents are committed, or, after a failure, its   *)
(* buffer is revoked; then the context is given back.                      *)
GlobalRelease ==
  /\ wpc = "commit"
  /\ \/ done[wf] # "failed" /\ Commit /\ wpc' = AfterWrite
     \/ done[wf] = "failed" /\ UNCHANGED <<done, tail>> /\ wpc' = AfterFailure
  /\ gseg' = 0
  /\ mpc' = WakeMain
  /\ UNCHANGED <<main, idle, work, chain, ictx, pool, jobs, wf, extents>>
-----------------------------------------------------------------------------
Main == \/ BeginMt \/ BeginGlobal \/ BeginWoken \/ Pack \/ GetWork \/ QueueWork
        \/ Send \/ SendStop \/ Join \/ PackedDone \/ CompressExit
Worker(w) == Take(w) \/ CompressSegment(w) \/ FinishSegment(w)
Writer == Pop \/ MtWait \/ MtMerge \/ MtCommit \/ GlobalWrite \/ GlobalRelease

Next == \/ Main
        \/ \E w \in Workers : Worker(w)
        \/ Writer \/ MtSpurious \/ BeginStray

SafeSpec == Init /\ [][Next]_vars

(* Every thread that can run is scheduled. *)
Spec == /\ SafeSpec
        /\ WF_vars(Main) /\ WF_vars(Writer)
        /\ \A w \in Workers : WF_vars(Worker(w))
-----------------------------------------------------------------------------
(* The segments of a file written compressed lie one behind the other in   *)
(* the order of the file, each with the blocks its worker produced, in     *)
(* whatever order the workers finished and however often their works were  *)
(* used before.                                                            *)
SegmentsInOrder ==
  \A f \in Files : done[f] = "compressed" /\ UseMt(f) =>
    /\ Len(extents[f]) = Segs[f]
    /\ \A s \in 1..Segs[f] :
         /\ extents[f][s][1] = s /\ extents[f][s][3] = Blks[f][s]
         /\ s > 1 => extents[f][s][2] = extents[f][s-1][2] + extents[f][s-1][3]

(* Every work taken from the heap is idle or belongs to one file whose     *)
(* context is live; one that is queued or running belongs to a file that   *)
(* is not merged yet, so no worker uses a freed context and no work is     *)
(* recycled under it.  None is left at the end of a build that wrote       *)
(* every file.                                                             *)
WorksAccounted ==
  /\ mpc # "exited" => \A x \in 1..alloced :
       \/ /\ x \in Range(idle)
          /\ \A f \in Files : x \notin Range(chain[f])
       \/ Cardinality({f \in Files : x \in Range(chain[f])}) = 1
  /\ IsInjective(idle)
  /\ \A x \in (Range(queue) \cup {running[w] : w \in Workers}) \ {NULL} :
       /\ ictx[work[x].file] = "live"
       /\ x \in Range(chain[work[x].file])
       /\ ~ (wpc = "merge" /\ wf = work[x].file)
  /\ mpc = "exited" /\ (\A f \in Files : done[f] \in {"compressed", "plain"})
       => alloced = 0

(* The main thread claimed the static context behind a stray return of its *)
(* wait while the dfops worker used it.                                    *)
StrayClaim == mpc = "raced"

(* The static context and the fragments packed through it are used by one  *)
(* thread at a time: while the main thread begins a file with it, no file  *)
(* begun with it before is still to be written.  The exception is a stray  *)
(* return from the single-test wait at the head of                         *)
(* erofs_begin_compressed_file.                                            *)
GlobalExclusive == mpc \in {"pack", "raced"} => ~StaticInUse \/ StrayClaim

(* No context is used by two threads, neither that of a file nor, but for  *)
(* such a stray return, the static one, and none after it was given up.    *)
ContextsOwned == WorksAccounted /\ GlobalExclusive

(* Unless a file fails or the two threads race behind a stray return for   *)
(* the static context, every file is written, the works are freed and all  *)
(* threads come to their end: no signal is lost between the main thread,   *)
(* the compress workers and the dfops worker.                              *)
CompressEnds ==
  <>(\/ mpc = "exited" /\ \A f \in Files : done[f] # "none"
     \/ \E f \in Files : done[f] = "failed"
     \/ StrayClaim)
=============================================================================
