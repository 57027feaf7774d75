----------------------------- MODULE DfopsRing ------------------------------
(***************************************************************************)
(* The ring of mkfs jobs in lib/inode.c (struct erofs_mkfs_dfops): the     *)
(* main thread pushes with erofs_mkfs_go, the dfops worker pops and runs   *)
(* erofs_mkfs_jobfn, erofs_mkfs_flushjobs waits until the worker is idle,  *)
(* and erofs_mkfs_build_tree ends with the terminating job and a join.     *)
(*                                                                         *)
(* A critical section under q->lock is one action.  erofs_mkfs_pop_jobitem *)
(* returns a pointer into the ring: the worker reads its job out of the    *)
(* slot, without the lock, for as long as it handles the job.              *)
(*                                                                         *)
(* Each of the three waits may return without a signal.  Those on q->full  *)
(* and q->empty are loops; the one on q->drain is a single test, so a      *)
(* stray return ends the flush whatever the worker is doing.               *)
(*                                                                         *)
(* fifo, popped and stray are history variables: the jobs sent and not     *)
(* popped, the job the worker popped last, and whether the last flush was  *)
(* ended by a stray return.                                                *)
(***************************************************************************)
EXTENDS Naturals, Sequences

CONSTANTS
  Jobs,      \* the jobs the main thread may send
  FailJobs,  \* those erofs_mkfs_jobfn returns an error for
  Stop,      \* the terminating job, of type ~0
  Entries,   \* q->entries, a power of two (EROFS_MT_QUEUE_SIZE is 128)
  Spurious,  \* the conditions whose pthread_cond_wait may return unsignalled
  NULL       \* no job; the content of a slot never written

ASSUME DfopsAssumption ==
  /\ FailJobs \subseteq Jobs
  /\ Stop \notin Jobs
  /\ NULL \notin Jobs \cup {Stop}
  /\ Entries \in Nat /\ Entries > 1
  /\ Spurious \subseteq {"full", "empty", "drain"}

VARIABLES
  queue,   \* q->queue
  head,    \* q->head
  tail,    \* q->tail
  idle,    \* q->idle
  mpc,     \* where the main thread is
  arg,     \* the job it is sending
  wpc,     \* where the worker is
  item,    \* the slot the worker's jobitem pointer points to
  ret,     \* whether the worker left its loop with an error
  fifo,    \* history: the jobs sent and not popped, oldest first
  popped,  \* history: the content of the slot when it was popped
  stray    \* history: the last flush was ended by a stray return

ring == <<queue, head, tail, idle, fifo>>
vars == <<queue, head, tail, idle, mpc, arg, wpc, item, ret, fifo, popped,
          stray>>

AllJobs == Jobs \cup {Stop}
Slots == 0..(Entries - 1)

(* "run": between two calls; "flushed": between two calls, the last one a  *)
(* flush; "full" and "drain": asleep on q->full and on q->drain.           *)
MainPC == {"run", "go", "full", "flush", "drain", "flushed", "join", "joined"}
WorkerPC == {"pop", "empty", "handle", "exited"}

(* (i + 1) & (q->entries - 1) *)
Succ(i) == (i + 1) % Entries

Init ==
  /\ queue = [i \in Slots |-> NULL]
  /\ head = 0 /\ tail = 0
  /\ idle = FALSE
  /\ mpc = "run" /\ arg = NULL
  /\ wpc = "pop" /\ item = 0
  /\ ret = FALSE
  /\ fifo = << >>
  /\ popped = NULL
  /\ stray = FALSE
-----------------------------------------------------------------------------
(* The main thread *)

GoCall(j) ==
  /\ mpc \in {"run", "flushed"}
  /\ mpc' = "go"
  /\ arg' = j
  /\ UNCHANGED <<ring, wpc, item, ret, popped, stray>>

(* The loop condition of erofs_mkfs_go: one slot always stays unused.      *)
(* Fault: the whole ring is used.                                          *)
RingFull_Whole == Len(fifo) = Entries
RingFull == Succ(tail) = head

GoSleep ==
  /\ mpc = "go"
  /\ RingFull
  /\ mpc' = "full"
  /\ UNCHANGED <<ring, arg, wpc, item, ret, popped, stray>>

(* Fault: q->idle is left as it is. *)
IdleAfterGo_Kept == idle
IdleAfterGo == FALSE

(* Where the worker is after q->empty is signalled. *)
EmptySignalled == IF wpc = "empty" THEN "pop" ELSE wpc

(* Fill the tail slot, clear idle and signal q->empty. *)
GoPut ==
  /\ mpc = "go"
  /\ ~RingFull
  /\ queue' = [queue EXCEPT ![tail] = arg]
  /\ tail' = Succ(tail)
  /\ idle' = IdleAfterGo
  /\ wpc' = EmptySignalled
  /\ fifo' = Append(fifo, arg)
  /\ mpc' = IF arg = Stop THEN "join" ELSE "run"
  /\ arg' = NULL
  /\ UNCHANGED <<head, item, ret, popped, stray>>

FlushCall ==
  /\ mpc \in {"run", "flushed"}
  /\ mpc' = "flush"
  /\ stray' = FALSE
  /\ UNCHANGED <<ring, arg, wpc, item, ret, popped>>

(* erofs_mkfs_flushjobs tests q->idle once, not in a loop. *)
FlushTest ==
  /\ mpc = "flush"
  /\ mpc' = IF idle THEN "flushed" ELSE "drain"
  /\ UNCHANGED <<ring, arg, wpc, item, ret, popped, stray>>

(* The wait on q->drain returns without a signal: nothing is tested again. *)
FlushSpurious ==
  /\ mpc = "drain" /\ "drain" \in Spurious
  /\ mpc' = "flushed"
  /\ stray' = TRUE
  /\ UNCHANGED <<ring, arg, wpc, item, ret, popped>>

(* The build is over, successfully or not: send the terminating job. *)
BuildEnds ==
  /\ mpc \in {"run", "flushed"}
  /\ mpc' = "go"
  /\ arg' = Stop
  /\ UNCHANGED <<ring, wpc, item, ret, popped, stray>>

Join ==
  /\ mpc = "join"
  /\ wpc = "exited"
  /\ mpc' = "joined"
  /\ UNCHANGED <<ring, arg, wpc, item, ret, popped, stray>>

GoSpurious ==
  /\ mpc = "full" /\ "full" \in Spurious
  /\ mpc' = "go"
  /\ UNCHANGED <<ring, arg, wpc, item, ret, popped, stray>>

-----------------------------------------------------------------------------
(* The worker: erofs_mkfs_pop_jobitem and z_erofs_mt_dfops_worker *)

(* Nothing to pop: set idle, signal q->drain and sleep on q->empty. *)
PopSleep ==
  /\ wpc = "pop"
  /\ head = tail
  /\ idle' = TRUE
  /\ mpc' = IF mpc = "drain" THEN "flushed" ELSE mpc
  /\ wpc' = "empty"
  /\ UNCHANGED <<queue, head, tail, fifo, arg, item, ret, popped, stray>>

(* q->full is signalled on every pop.                                      *)
(* Fault: it is not.                                                       *)
FullSignalled_Never == FALSE
FullSignalled == TRUE

(* Point to the head slot, advance head and signal q->full. *)
PopTake ==
  /\ wpc = "pop"
  /\ head # tail
  /\ item' = head
  /\ head' = Succ(head)
  /\ mpc' = IF mpc = "full" /\ FullSignalled THEN "go" ELSE mpc
  /\ wpc' = "handle"
  /\ popped' = queue[head]
  /\ fifo' = Tail(fifo)
  /\ UNCHANGED <<queue, tail, idle, arg, ret, stray>>

(* The jobs that end the worker's loop.                                    *)
(* Fault: it is left when a job succeeds.                                  *)
LastJobs_Inverted == AllJobs \ FailJobs
LastJobs == {Stop} \cup FailJobs

(* The worker looks at its slot: the terminating job ends it, and so does  *)
(* a job that fails; nothing is signalled then.                            *)
HandleItem ==
  /\ wpc = "handle"
  /\ wpc' = IF queue[item] \in LastJobs THEN "exited" ELSE "pop"
  /\ ret' = (queue[item] \in FailJobs)
  /\ UNCHANGED <<ring, mpc, arg, item, popped, stray>>

WorkerSpurious ==
  /\ wpc = "empty"
  /\ "empty" \in Spurious
  /\ wpc' = "pop"
  /\ UNCHANGED <<ring, mpc, arg, item, ret, popped, stray>>
-----------------------------------------------------------------------------
MainStep == GoSleep \/ GoPut \/ FlushTest \/ Join
WorkerStep == PopSleep \/ PopTake \/ HandleItem

Next ==
  \/ \E j \in Jobs : GoCall(j)
  \/ FlushCall
  \/ BuildEnds
  \/ MainStep
  \/ GoSpurious
  \/ FlushSpurious
  \/ WorkerStep
  \/ WorkerSpurious

Spec == Init /\ [][Next]_vars

(* Both threads are scheduled, and a job that is handled comes to an end. *)
Fairness == WF_vars(MainStep) /\ WF_vars(WorkerStep)

FairSpec == Spec /\ Fairness
-----------------------------------------------------------------------------
TypeOK ==
  /\ queue \in [Slots -> AllJobs \cup {NULL}]
  /\ head \in Slots /\ tail \in Slots
  /\ idle \in BOOLEAN
  /\ mpc \in MainPC
  /\ arg \in AllJobs \cup {NULL}
  /\ wpc \in WorkerPC
  /\ item \in Slots
  /\ ret \in BOOLEAN
  /\ fifo \in Seq(AllJobs)
  /\ popped \in AllJobs \cup {NULL}
  /\ stray \in BOOLEAN

(* The slots from head to tail hold the jobs sent and not popped, in the   *)
(* order erofs_mkfs_go sent them, and one slot is always free.             *)
RingHoldsFifo ==
  /\ Len(fifo) < Entries
  /\ tail = (head + Len(fifo)) % Entries
  /\ \A i \in 1..Len(fifo) : queue[(head + i - 1) % Entries] = fifo[i]

(* The slot the worker reads without the lock is not refilled under it:    *)
(* it is the slot erofs_mkfs_go keeps unused.                              *)
ItemStable == wpc = "handle" => queue[item] = popped

(* erofs_mkfs_flushjobs returns only when the worker has handled every job *)
(* sent before: "the worker has handled everything only if sleeping here". *)
(* The exception is a stray return of its pthread_cond_wait on q->drain,   *)
(* after which q->idle is not tested again: then jobs may be pending and   *)
(* one being handled.                                                      *)
FlushIsComplete == mpc = "flushed" => stray \/ (fifo = << >> /\ wpc # "handle")

(* When erofs_mkfs_build_tree has joined a worker that met no error, no    *)
(* job was left behind.                                                    *)
JoinIsComplete == mpc = "joined" /\ ~ret => fifo = << >>

(* Every call of the main thread returns, unless a job fails and its       *)
(* worker leaves: nobody sleeps on full or drain for ever.  Once the       *)
(* terminating job is sent, the worker comes to its end, whether at that   *)
(* job or at one that fails, and is joined.                                *)
MainReturns ==
  /\ mpc \in {"go", "full", "flush", "drain"}
       ~> mpc \in {"run", "flushed", "join", "joined"} \/ (wpc = "exited" /\ ret)
  /\ mpc = "join" ~> mpc = "joined"

(* The ring as a pipe of jobs.  The terminating job is one of them. *)
Pipe == INSTANCE JobPipe WITH
          Jobs     <- AllJobs,
          Cap      <- Entries - 1,
          pending  <- fifo,
          busy     <- IF wpc = "handle" THEN queue[item] ELSE NULL,
          flushing <- mpc \in {"flush", "drain"},
          stray    <- stray

(* The ring, its indexes and its flags implement a FIFO pipe whose flush   *)
(* is sound but for stray returns of its wait, and the job handled is the  *)
(* one that was sent.                                                      *)
ImplementsJobPipe == Pipe!SafeSpec
=============================================================================
