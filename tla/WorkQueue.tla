----------------------------- MODULE WorkQueue ------------------------------
(***************************************************************************)
(* lib/workqueue.c: a bounded FIFO of works served by a fixed set of       *)
(* threads.  Every critical section of the code runs under wq->lock and    *)
(* ends in an unlock or in pthread_cond_wait, so it is one action here; a  *)
(* thread asleep in pthread_cond_wait is a program counter of its own, and *)
(* a woken thread competes for the lock again before it re-tests its loop  *)
(* condition.  pthread_cond_wait may also return without a signal.         *)
(*                                                                         *)
(* The list of works is the code's: head, tail and one next pointer per    *)
(* work.  fifo is a history variable: the submitted works that no worker   *)
(* took yet, in submission order.                                          *)
(***************************************************************************)
EXTENDS Naturals, Sequences, FiniteSets

CONSTANTS Workers,    \* the threads of wq->workers
          Producers,  \* the threads that call erofs_queue_work
          Works,      \* the struct erofs_work objects of the callers
          MaxJobs,    \* wq->max_jobs
          NULL        \* the null pointer

ASSUME WorkQueueAssumption ==
  /\ IsFiniteSet(Workers)
  /\ Workers # {}
  /\ MaxJobs \in Nat \ {0}
  /\ NULL \notin Works
  /\ NULL \notin Workers

VARIABLES
  head, tail,   \* wq->head, wq->tail
  next,         \* work->next of every work
  job_count,    \* wq->job_count
  shutdown,     \* wq->shutdown
  lock,         \* NULL, or the cancelled worker that died holding wq->lock
  wpc,          \* where each worker is
  cur,          \* the work each worker executes
  ppc,          \* where each producer is
  req,          \* the work each producer is submitting
  ctl,          \* the life of the queue: its allocation, use and destruction
  fifo          \* history: the works submitted and not taken, oldest first

wqvars == <<head, tail, next, job_count, fifo>>
vars == <<head, tail, next, job_count, shutdown, lock, wpc, cur, ppc, req,
          ctl, fifo>>

WorkerPC == {"none", "start", "ready", "empty", "running", "exiting", "done",
             "dead"}
ProducerPC == {"idle", "ready", "full"}
Ctl == {"alloc", "up", "down", "freed", "failed"}

(* The threads a signal, a broadcast or a spurious wakeup lets go on. *)
Wake(pc, S) == [t \in DOMAIN pc |-> IF t \in S THEN "ready" ELSE pc[t]]

Sleepers == {w \in Workers : wpc[w] = "empty"}
Blocked  == {p \in Producers : ppc[p] = "full"}

(* pthread_cond_signal: the sets of waiters of S it may wake. *)
SignalOne(S) == IF S = {} THEN {{}} ELSE {{t} : t \in S}

(* A work the caller owns: not being submitted, queued or executed. *)
Owned(x) == /\ \A p \in Producers : req[p] # x
            /\ \A w \in Workers : cur[w] # x
            /\ \A i \in 1..Len(fifo) : fifo[i] # x

Init ==
  /\ head = NULL /\ tail = NULL
  /\ next = [x \in Works |-> NULL]
  /\ job_count = 0
  /\ shutdown = FALSE
  /\ lock = NULL
  /\ wpc = [w \in Workers |-> "none"]
  /\ cur = [w \in Workers |-> NULL]
  /\ ppc = [p \in Producers |-> "idle"]
  /\ req = [p \in Producers |-> NULL]
  /\ ctl = "alloc"
  /\ fifo = << >>
-----------------------------------------------------------------------------
(* erofs_alloc_workqueue *)

(* One pthread_create succeeds; the call returns 0 after the last one. *)
CreateWorker(w) ==
  /\ ctl = "alloc"
  /\ wpc[w] = "none"
  /\ wpc' = [wpc EXCEPT ![w] = "start"]
  /\ ctl' = IF \A v \in Workers \ {w} : wpc[v] # "none" THEN "up" ELSE "alloc"
  /\ UNCHANGED <<wqvars, shutdown, lock, cur, ppc, req>>

(* malloc or a pthread_create fails: every worker created so far is        *)
(* cancelled, none is joined, and the caller gives the queue up.           *)
AllocFails ==
  /\ ctl = "alloc"
  /\ ctl' = "failed"
  /\ UNCHANGED <<wqvars, shutdown, lock, wpc, cur, ppc, req>>

(* Cancellation is deferred to pthread_cond_wait, which reacquires the     *)
(* mutex before the thread ends: nothing unlocks it any more.              *)
WorkerCancelled(w) ==
  /\ ctl = "failed"
  /\ wpc[w] = "empty"
  /\ lock = NULL
  /\ wpc' = [wpc EXCEPT ![w] = "dead"]
  /\ lock' = w
  /\ UNCHANGED <<wqvars, shutdown, cur, ppc, req, ctl>>
-----------------------------------------------------------------------------
(* worker_thread *)

OnStart(w) ==
  /\ wpc[w] = "start"
  /\ wpc' = [wpc EXCEPT ![w] = "ready"]
  /\ UNCHANGED <<wqvars, shutdown, lock, cur, ppc, req, ctl>>

WorkerSleep(w) ==
  /\ wpc[w] = "ready"
  /\ lock = NULL
  /\ job_count = 0 /\ ~shutdown
  /\ wpc' = [wpc EXCEPT ![w] = "empty"]
  /\ UNCHANGED <<wqvars, shutdown, lock, cur, ppc, req, ctl>>

(* Workers leave when nothing is queued and shutdown is set.               *)
(* Fault: leaving as soon as shutdown is set, whatever is queued.          *)
MayBreak_Eager == shutdown
MayBreak == job_count = 0 /\ shutdown

(* cond_full is broadcast on the step from full, n the count after it.     *)
(* Fault: comparing the count before the step, as if it were not yet       *)
(* decremented.                                                            *)
WasFull_Late(n) == n = MaxJobs
WasFull(n) == n = MaxJobs - 1

WorkerBreak(w) ==
  /\ wpc[w] = "ready"
  /\ lock = NULL
  /\ MayBreak
  /\ wpc' = [wpc EXCEPT ![w] = "exiting"]
  /\ UNCHANGED <<wqvars, shutdown, lock, cur, ppc, req, ctl>>

(* The list after its head, which the worker unlinks. *)
(* Fault: the head is read and left in the list.      *)
Rest_Stuck == head
Rest == next[head]

(* Unlink the head; wake the blocked producers when the list was full. *)
WorkerTake(w) ==
  /\ wpc[w] = "ready"
  /\ lock = NULL
  /\ job_count # 0
  /\ cur' = [cur EXCEPT ![w] = head]
  /\ head' = Rest
  /\ tail' = IF Rest = NULL THEN NULL ELSE tail
  /\ job_count' = job_count - 1
  /\ ppc' = IF WasFull(job_count - 1) THEN Wake(ppc, Blocked) ELSE ppc
  /\ wpc' = [wpc EXCEPT ![w] = "running"]
  /\ fifo' = Tail(fifo)
  /\ UNCHANGED <<next, shutdown, lock, req, ctl>>

(* work->fn returns *)
WorkDone(w) ==
  /\ wpc[w] = "running"
  /\ wpc' = [wpc EXCEPT ![w] = "ready"]
  /\ cur' = [cur EXCEPT ![w] = NULL]
  /\ UNCHANGED <<wqvars, shutdown, lock, ppc, req, ctl>>

OnExit(w) ==
  /\ wpc[w] = "exiting"
  /\ wpc' = [wpc EXCEPT ![w] = "done"]
  /\ UNCHANGED <<wqvars, shutdown, lock, cur, ppc, req, ctl>>

WorkerSpurious(w) ==
  /\ wpc[w] = "empty"
  /\ wpc' = Wake(wpc, {w})
  /\ UNCHANGED <<wqvars, shutdown, lock, cur, ppc, req, ctl>>
-----------------------------------------------------------------------------
(* erofs_queue_work *)

QueueWork(p, x) ==
  /\ ctl = "up"
  /\ ppc[p] = "idle"
  /\ Owned(x)
  /\ ppc' = [ppc EXCEPT ![p] = "ready"]
  /\ req' = [req EXCEPT ![p] = x]
  /\ UNCHANGED <<wqvars, shutdown, lock, wpc, cur, ctl>>

(* The loop condition of erofs_queue_work, negated.                        *)
(* Fault: the queue is never full.                                         *)
HasRoom_Always == TRUE
HasRoom == job_count # MaxJobs

ProducerSleep(p) ==
  /\ ppc[p] = "ready"
  /\ lock = NULL
  /\ ~HasRoom
  /\ ppc' = [ppc EXCEPT ![p] = "full"]
  /\ UNCHANGED <<wqvars, shutdown, lock, wpc, cur, req, ctl>>

(* work->next = NULL, then the work is linked behind the tail.             *)
(* Fault: a work submitted again keeps the next pointer of its last time.  *)
Linked_Stale(x) == IF head = NULL THEN next ELSE [next EXCEPT ![tail] = x]
Linked(x) ==
  LET reset == [next EXCEPT ![x] = NULL]
  IN  IF head = NULL THEN reset ELSE [reset EXCEPT ![tail] = x]

(* One sleeping worker is signalled per submission.                        *)
(* Faults: nobody is, or only when the list was empty before.              *)
EmptySignal_Never == {{}}
EmptySignal_First == IF job_count = 0 THEN SignalOne(Sleepers) ELSE {{}}
EmptySignal == SignalOne(Sleepers)

(* Link the work at the tail and signal one sleeping worker, if any. *)
ProducerPut(p) ==
  /\ ppc[p] = "ready"
  /\ lock = NULL
  /\ HasRoom
  /\ next' = Linked(req[p])
  /\ head' = IF head = NULL THEN req[p] ELSE head
  /\ tail' = req[p]
  /\ job_count' = job_count + 1
  /\ \E S \in EmptySignal : wpc' = Wake(wpc, S)
  /\ fifo' = Append(fifo, req[p])
  /\ ppc' = [ppc EXCEPT ![p] = "idle"]
  /\ req' = [req EXCEPT ![p] = NULL]
  /\ UNCHANGED <<shutdown, lock, cur, ctl>>

ProducerSpurious(p) ==
  /\ ppc[p] = "full"
  /\ ppc' = Wake(ppc, {p})
  /\ UNCHANGED <<wqvars, shutdown, lock, wpc, cur, req, ctl>>
-----------------------------------------------------------------------------
(* erofs_destroy_workqueue, called when no producer uses the queue any more *)

(* Shutdown is broadcast to the sleeping workers.                          *)
(* Fault: one of them is signalled.                                        *)
ShutdownSignal_One == SignalOne(Sleepers)
ShutdownSignal == {Sleepers}

DestroyBegin ==
  /\ ctl = "up"
  /\ lock = NULL
  /\ \A p \in Producers : ppc[p] = "idle"
  /\ shutdown' = TRUE
  /\ \E S \in ShutdownSignal : wpc' = Wake(wpc, S)
  /\ ctl' = "down"
  /\ UNCHANGED <<wqvars, lock, cur, ppc, req>>

(* Every worker is joined, then the mutex and the conditions are destroyed. *)
DestroyEnd ==
  /\ ctl = "down"
  /\ \A w \in Workers : wpc[w] = "done"
  /\ ctl' = "freed"
  /\ UNCHANGED <<wqvars, shutdown, lock, wpc, cur, ppc, req>>
-----------------------------------------------------------------------------
WorkerStep(w) == \/ OnStart(w) \/ WorkerSleep(w) \/ WorkerBreak(w)
                 \/ WorkerTake(w) \/ WorkDone(w) \/ OnExit(w)

ProducerStep(p) == ProducerSleep(p) \/ ProducerPut(p)

Next ==
  \/ \E w \in Workers : CreateWorker(w)
  \/ AllocFails
  \/ \E w \in Workers : WorkerCancelled(w)
  \/ \E w \in Workers : WorkerStep(w)
  \/ \E w \in Workers : WorkerSpurious(w)
  \/ \E p \in Producers, x \in Works : QueueWork(p, x)
  \/ \E p \in Producers : ProducerStep(p)
  \/ \E p \in Producers : ProducerSpurious(p)
  \/ DestroyBegin
  \/ DestroyEnd

Spec == Init /\ [][Next]_vars

(* The scheduler runs every runnable thread and work functions return; no  *)
(* caller is obliged to submit anything or to destroy the queue.           *)
Fairness ==
  /\ \A w \in Workers : WF_vars(WorkerStep(w))
  /\ \A p \in Producers : WF_vars(ProducerStep(p))
  /\ WF_vars(DestroyEnd)

FairSpec == Spec /\ Fairness
-----------------------------------------------------------------------------
TypeOK ==
  /\ head \in Works \cup {NULL}
  /\ tail \in Works \cup {NULL}
  /\ next \in [Works -> Works \cup {NULL}]
  /\ job_count \in 0..MaxJobs
  /\ shutdown \in BOOLEAN
  /\ lock \in Workers \cup {NULL}
  /\ wpc \in [Workers -> WorkerPC]
  /\ cur \in [Workers -> Works \cup {NULL}]
  /\ ppc \in [Producers -> ProducerPC]
  /\ req \in [Producers -> Works \cup {NULL}]
  /\ ctl \in Ctl
  /\ fifo \in Seq(Works)

(* The pointer list of lib/workqueue.c is the FIFO of the works submitted  *)
(* and not taken: head to tail along next, NULL-terminated, as long as     *)
(* job_count says.                                                         *)
ListIsFifo ==
  /\ job_count = Len(fifo)
  /\ fifo = << >> => head = NULL /\ tail = NULL
  /\ fifo # << >> => /\ head = fifo[1]
                     /\ tail = fifo[Len(fifo)]
                     /\ next[tail] = NULL
  /\ \A i \in 1..(Len(fifo) - 1) : next[fifo[i]] = fifo[i + 1]

(* A work is in one place only: two workers never run it at the same time, *)
(* and a work being run is not linked in the list.                         *)
OneOwner ==
  /\ \A v, w \in Workers : v # w /\ cur[v] # NULL => cur[v] # cur[w]
  /\ \A w \in Workers : \A i \in 1..Len(fifo) : cur[w] # fifo[i]
  /\ \A i, j \in 1..Len(fifo) : i # j => fifo[i] # fifo[j]

(* The broadcast on the transition from full reaches every producer: one   *)
(* that still sleeps on cond_full has a full list in front of it.          *)
NoLostFullWakeup == Blocked # {} => job_count = MaxJobs

(* Signalling one sleeper per submission is enough: while a worker sleeps  *)
(* on cond_empty, at least as many awake workers are on their way to the   *)
(* lock as there are works queued.                                         *)
Awake == {w \in Workers : wpc[w] \in {"start", "ready"}}
NoLostEmptyWakeup == Sleepers # {} => job_count <= Cardinality(Awake)

(* erofs_destroy_workqueue returns only when every submitted work was run  *)
(* to its end and no worker touches the queue it destroys.                 *)
DestroyCompletes ==
  ctl = "freed" => /\ fifo = << >>
                   /\ \A w \in Workers : wpc[w] = "done" /\ cur[w] = NULL

(* A producer blocked on a full queue gets its work in, and a destroy call *)
(* returns: all workers see the flag and are joined.                       *)
CallsReturn == /\ \A p \in Producers : ppc[p] # "idle" ~> ppc[p] = "idle"
               /\ ctl = "down" ~> ctl = "freed"

(* The queue as its callers see it. *)
Promise == INSTANCE Executor WITH
             pending <- fifo,
             running <- cur,
             state   <- CASE ctl = "down"  -> "closed"
                          [] ctl = "freed" -> "released"
                          [] OTHER         -> "open"

(* The threads, the list and the shutdown flag implement a FIFO executor   *)
(* that starts every submission exactly once, in submission order.         *)
ImplementsExecutor == Promise!SafeSpec

(* ... and keeps starting and finishing what was submitted. *)
ImplementsFairExecutor == Promise!Spec
=============================================================================
