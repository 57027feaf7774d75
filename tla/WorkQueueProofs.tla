-------------------------- MODULE WorkQueueProofs ---------------------------
(***************************************************************************)
(* Proofs about WorkQueue, for any number of workers, producers and works  *)
(* and any bound on the queue.                                             *)
(***************************************************************************)
EXTENDS WorkQueue, FiniteSetTheorems, SequenceTheorems, TLAPS

(* A worker has a work exactly while it runs it. *)
CurInv == \A w \in Workers : cur[w] # NULL <=> wpc[w] = "running"

(* A producer in erofs_queue_work has a work that nobody else has. *)
ReqInv ==
  /\ \A p \in Producers : req[p] # NULL <=> ppc[p] # "idle"
  /\ \A p, q \in Producers : p # q /\ req[p] # NULL => req[p] # req[q]
  /\ \A p \in Producers, w \in Workers : req[p] # NULL => req[p] # cur[w]
  /\ \A p \in Producers : \A i \in 1..Len(fifo) : req[p] # fifo[i]

(* Shutdown is set by a destroy call, after which nothing is submitted and *)
(* no worker sleeps; a worker leaves only then, and with an empty list.    *)
DownInv ==
  /\ shutdown <=> ctl \in {"down", "freed"}
  /\ shutdown => /\ \A p \in Producers : ppc[p] = "idle"
                 /\ \A w \in Workers : wpc[w] # "empty"
  /\ \A w \in Workers : wpc[w] \in {"exiting", "done"} => shutdown /\ job_count = 0
  /\ ctl = "freed" => \A w \in Workers : wpc[w] = "done"

ListInv == TypeOK /\ ListIsFifo /\ OneOwner /\ CurInv /\ ReqInv

-----------------------------------------------------------------------------
(* A signal wakes waiters only. *)
LEMMA SignalWakesWaiters ==
  ASSUME NEW T, NEW S \in SignalOne(T)
  PROVE  S \subseteq T
BY DEF SignalOne

(* Waking sleepers keeps the program counters typed and every worker that  *)
(* runs a work running.                                                    *)
LEMMA WakeSleepers ==
  ASSUME TypeOK, NEW S \in SUBSET Sleepers, wpc' = Wake(wpc, S)
  PROVE  /\ wpc' \in [Workers -> WorkerPC]
         /\ \A w \in Workers : wpc'[w] = IF w \in S THEN "ready" ELSE wpc[w]
         /\ \A w \in Workers : wpc'[w] = "running" <=> wpc[w] = "running"
BY DEF TypeOK, Wake, Sleepers, WorkerPC

(* WorkerTake keeps the list a FIFO: the new head is the second work, or   *)
(* NULL behind the only one.                                               *)
LEMMA TakeKeepsList ==
  ASSUME TypeOK, ListIsFifo, NEW w \in Workers, WorkerTake(w)
  PROVE  /\ head \in Works /\ head = fifo[1]
         /\ Len(fifo) \in Nat \ {0} /\ job_count = Len(fifo)
         /\ fifo' \in Seq(Works) /\ Len(fifo') = Len(fifo) - 1
         /\ \A i \in 1..Len(fifo') : fifo'[i] = fifo[i + 1]
         /\ head' \in Works \cup {NULL} /\ tail' \in Works \cup {NULL}
         /\ job_count' \in 0..MaxJobs
         /\ ListIsFifo'
<1>. USE WorkQueueAssumption
<1>1. job_count = Len(fifo) /\ fifo # << >> /\ Len(fifo) \in Nat \ {0}
  BY DEF WorkerTake, ListIsFifo, TypeOK
<1>2. head = fifo[1] /\ head \in Works /\ tail = fifo[Len(fifo)] /\ next[tail] = NULL
  BY <1>1 DEF ListIsFifo, TypeOK
<1>3. /\ fifo' = Tail(fifo) /\ fifo' \in Seq(Works) /\ Len(fifo') = Len(fifo) - 1
      /\ \A i \in 1..Len(fifo') : fifo'[i] = fifo[i + 1]
  BY <1>1 DEF WorkerTake, TypeOK
<1>4. /\ head' = next[head] /\ next' = next /\ job_count' = job_count - 1
      /\ tail' = IF next[head] = NULL THEN NULL ELSE tail
  BY DEF WorkerTake, Rest
<1>5. job_count' \in 0..MaxJobs
  BY <1>1, <1>4 DEF TypeOK
<1>6. CASE Len(fifo) = 1
  <2>1. fifo' = << >> /\ head' = NULL /\ tail' = NULL
    BY <1>1, <1>2, <1>3, <1>4, <1>6
  <2>2. ListIsFifo'
    BY <1>1, <1>3, <1>4, <1>6, <2>1 DEF ListIsFifo
  <2>. QED BY <1>1, <1>2, <1>3, <1>5, <2>1, <2>2
<1>7. CASE Len(fifo) # 1
  <2>1. next[fifo[1]] = fifo[2] /\ fifo[2] \in Works
    BY <1>1, <1>7 DEF ListIsFifo, TypeOK
  <2>2. head' = fifo[2] /\ tail' = tail
    BY <1>2, <1>4, <2>1
  <2>3. \A i \in 1..(Len(fifo') - 1) : next'[fifo'[i]] = fifo'[i + 1]
    BY <1>1, <1>3, <1>4 DEF ListIsFifo
  <2>4. head' = fifo'[1] /\ tail' = fifo'[Len(fifo')] /\ next'[tail'] = NULL
    BY <1>1, <1>2, <1>3, <1>4, <1>7, <2>1, <2>2
  <2>5. fifo' # << >>
    <3>1. Len(fifo') # 0
      BY <1>1, <1>3, <1>7
    <3>. QED BY <3>1
  <2>6. ListIsFifo'
    BY <1>1, <1>3, <1>4, <2>3, <2>4, <2>5 DEF ListIsFifo
  <2>. QED BY <1>1, <1>2, <1>3, <1>5, <2>1, <2>2, <2>6 DEF TypeOK
<1>. QED BY <1>6, <1>7

(* ProducerPut links the new work behind the tail.  It was not in the      *)
(* list, so no other next pointer changes.                                 *)
LEMMA PutKeepsList ==
  ASSUME ListInv, NEW p \in Producers, ProducerPut(p)
  PROVE  /\ req[p] \in Works
         /\ fifo' \in Seq(Works) /\ Len(fifo') = Len(fifo) + 1
         /\ \A i \in 1..Len(fifo) : fifo'[i] = fifo[i]
         /\ fifo'[Len(fifo) + 1] = req[p]
         /\ next' \in [Works -> Works \cup {NULL}]
         /\ job_count' \in 0..MaxJobs
         /\ ListIsFifo'
<1>. USE WorkQueueAssumption DEF ListInv
<1>. DEFINE x == req[p]
<1>1. x \in Works
  BY DEF ProducerPut, ReqInv, TypeOK
<1>2. /\ fifo' = Append(fifo, x) /\ fifo' \in Seq(Works) /\ Len(fifo') = Len(fifo) + 1
      /\ \A i \in 1..Len(fifo) : fifo'[i] = fifo[i]
      /\ fifo'[Len(fifo) + 1] = x
      /\ Len(fifo) \in Nat
  BY <1>1 DEF ProducerPut, TypeOK
<1>3. job_count = Len(fifo) /\ job_count' = job_count + 1 /\ job_count' \in 0..MaxJobs
  BY DEF ProducerPut, HasRoom, TypeOK, ListIsFifo
<1>4. /\ head' = IF head = NULL THEN x ELSE head
      /\ tail' = x
      /\ next' = IF head = NULL THEN [next EXCEPT ![x] = NULL]
                 ELSE [[next EXCEPT ![x] = NULL] EXCEPT ![tail] = x]
  BY DEF ProducerPut, Linked
<1>5. \A i \in 1..Len(fifo) : fifo[i] # x /\ fifo[i] \in Works
  BY DEF ReqInv, TypeOK
<1>6. CASE fifo = << >>
  <2>1. head = NULL /\ Len(fifo) = 0
    BY <1>6 DEF ListIsFifo
  <2>. QED BY <1>1, <1>2, <1>3, <1>4, <1>6, <2>1 DEF ListIsFifo, TypeOK
<1>7. CASE fifo # << >>
  <2>1. Len(fifo) > 0 /\ head = fifo[1] /\ head # NULL /\ tail = fifo[Len(fifo)] /\ tail # x
        /\ tail \in Works
    BY <1>2, <1>5, <1>7 DEF ListIsFifo, TypeOK
  <2>2. next' \in [Works -> Works \cup {NULL}] /\ next'[x] = NULL /\ next'[tail] = x
    BY <1>1, <1>4, <2>1 DEF TypeOK
  <2>3. ASSUME NEW i \in 1..(Len(fifo) - 1)
        PROVE  next'[fifo[i]] = fifo[i + 1]
    <3>1. fifo[i] # tail /\ fifo[i] # x /\ fifo[i] \in Works
      BY <1>2, <1>5, <2>1 DEF OneOwner
    <3>2. next[fifo[i]] = fifo[i + 1]
      BY DEF ListIsFifo
    <3>. QED BY <1>1, <1>4, <2>1, <3>1, <3>2 DEF TypeOK
  <2>4. \A i \in 1..(Len(fifo') - 1) : next'[fifo'[i]] = fifo'[i + 1]
    BY <1>2, <2>1, <2>2, <2>3
  <2>5. fifo' # << >> /\ head' = fifo'[1] /\ tail' = fifo'[Len(fifo')]
    BY <1>2, <1>4, <2>1
  <2>. QED BY <1>1, <1>2, <1>3, <1>4, <2>2, <2>4, <2>5 DEF ListIsFifo
<1>. QED BY <1>6, <1>7
-----------------------------------------------------------------------------
(* The invariant holds of the queue erofs_alloc_workqueue initialises. *)
LEMMA ListInvInit == Init => ListInv
<1>. SUFFICES ASSUME Init PROVE ListInv
  OBVIOUS
<1>1. TypeOK
  <2>1. job_count \in 0..MaxJobs /\ fifo \in Seq(Works)
    BY WorkQueueAssumption DEF Init
  <2>. QED BY <2>1 DEF Init, TypeOK, WorkerPC, ProducerPC, Ctl
<1>2. ListIsFifo /\ OneOwner /\ CurInv /\ ReqInv
  BY DEF Init, ListIsFifo, OneOwner, CurInv, ReqInv
<1>. QED BY <1>1, <1>2 DEF ListInv

(* The steps that leave the list and who has which work alone only move    *)
(* program counters.                                                       *)
LEMMA QuietStep ==
  ASSUME ListInv, UNCHANGED <<wqvars, cur, req>>, TypeOK',
         \A w \in Workers : wpc'[w] = "running" <=> wpc[w] = "running",
         \A p \in Producers : ppc'[p] = "idle" <=> ppc[p] = "idle"
  PROVE  ListInv'
<1>1. ListIsFifo' /\ OneOwner'
  BY DEF ListInv, ListIsFifo, OneOwner, wqvars
<1>2. CurInv' /\ ReqInv'
  BY DEF ListInv, CurInv, ReqInv, wqvars
<1>. QED BY <1>1, <1>2 DEF ListInv

(* Every step of a worker, a producer or the controller preserves it. *)
LEMMA ListInvStep == ListInv /\ [Next]_vars => ListInv'
<1>. SUFFICES ASSUME ListInv, [Next]_vars PROVE ListInv'
  OBVIOUS
<1>. USE WorkQueueAssumption
<1>1. ASSUME NEW w \in Workers, CreateWorker(w) PROVE ListInv'
  <2>1. TypeOK'
    BY <1>1 DEF CreateWorker, ListInv, TypeOK, WorkerPC, Ctl, wqvars
  <2>. QED BY <1>1, <2>1, QuietStep DEF CreateWorker, ListInv, TypeOK, CurInv
<1>2. CASE AllocFails
  <2>1. TypeOK'
    BY <1>2 DEF AllocFails, ListInv, TypeOK, Ctl, wqvars
  <2>. QED BY <1>2, <2>1, QuietStep DEF AllocFails
<1>3. ASSUME NEW w \in Workers, WorkerCancelled(w) PROVE ListInv'
  <2>1. TypeOK'
    BY <1>3 DEF WorkerCancelled, ListInv, TypeOK, WorkerPC, wqvars
  <2>. QED BY <1>3, <2>1, QuietStep DEF WorkerCancelled, ListInv, TypeOK
<1>4. ASSUME NEW w \in Workers, OnStart(w) \/ WorkerSleep(w) \/ WorkerBreak(w) \/ OnExit(w)
      PROVE  ListInv'
  <2>1. TypeOK'
    BY <1>4 DEF OnStart, WorkerSleep, WorkerBreak, OnExit, ListInv, TypeOK, WorkerPC, wqvars
  <2>. QED BY <1>4, <2>1, QuietStep
           DEF OnStart, WorkerSleep, WorkerBreak, OnExit, ListInv, TypeOK
<1>5. ASSUME NEW w \in Workers, WorkerTake(w) PROVE ListInv'
  <2>1. /\ head \in Works /\ head = fifo[1] /\ ListIsFifo'
        /\ fifo' \in Seq(Works) /\ Len(fifo') = Len(fifo) - 1 /\ Len(fifo) \in Nat \ {0}
        /\ \A i \in 1..Len(fifo') : fifo'[i] = fifo[i + 1]
    BY <1>5, TakeKeepsList DEF ListInv
  <2>2. /\ cur' = [cur EXCEPT ![w] = head] /\ wpc' = [wpc EXCEPT ![w] = "running"]
        /\ req' = req /\ \A p \in Producers : ppc'[p] = "idle" <=> ppc[p] = "idle"
    BY <1>5 DEF WorkerTake, Wake, Blocked, ListInv, TypeOK
  <2>3. TypeOK'
    <3>1. ppc' \in [Producers -> ProducerPC]
      BY <1>5 DEF WorkerTake, Wake, ListInv, TypeOK, ProducerPC
    <3>. QED BY <1>5, <2>1, <2>2, <3>1, TakeKeepsList DEF WorkerTake, ListInv, TypeOK, WorkerPC
  <2>4. OneOwner'
    <3>1. \A v \in Workers : cur'[v] = IF v = w THEN fifo[1] ELSE cur[v]
      BY <2>1, <2>2 DEF ListInv, TypeOK
    <3>2. \A v, u \in Workers : v # u /\ cur'[v] # NULL => cur'[v] # cur'[u]
      BY <2>1, <3>1 DEF ListInv, OneOwner
    <3>3. \A v \in Workers : \A i \in 1..Len(fifo') : cur'[v] # fifo'[i]
      BY <2>1, <3>1 DEF ListInv, OneOwner
    <3>4. \A i, j \in 1..Len(fifo') : i # j => fifo'[i] # fifo'[j]
      BY <2>1 DEF ListInv, OneOwner
    <3>. QED BY <3>2, <3>3, <3>4 DEF OneOwner
  <2>5. CurInv'
    BY <2>1, <2>2 DEF ListInv, CurInv, TypeOK
  <2>6. ReqInv'
    BY <2>1, <2>2 DEF ListInv, ReqInv, TypeOK
  <2>. QED BY <2>1, <2>3, <2>4, <2>5, <2>6 DEF ListInv
<1>6. ASSUME NEW w \in Workers, WorkDone(w) PROVE ListInv'
  <2>1. TypeOK'
    BY <1>6 DEF WorkDone, ListInv, TypeOK, WorkerPC, wqvars
  <2>2. ListIsFifo' /\ OneOwner'
    BY <1>6 DEF WorkDone, ListInv, ListIsFifo, OneOwner, TypeOK, wqvars
  <2>3. CurInv' /\ ReqInv'
    BY <1>6 DEF WorkDone, ListInv, CurInv, ReqInv, TypeOK, wqvars
  <2>. QED BY <2>1, <2>2, <2>3 DEF ListInv
<1>7. ASSUME NEW w \in Workers, WorkerSpurious(w) PROVE ListInv'
  <2>1. TypeOK' /\ \A v \in Workers : wpc'[v] = "running" <=> wpc[v] = "running"
    BY <1>7 DEF WorkerSpurious, Wake, ListInv, TypeOK, WorkerPC, wqvars
  <2>. QED BY <1>7, <2>1, QuietStep DEF WorkerSpurious
<1>8. ASSUME NEW p \in Producers, NEW x \in Works, QueueWork(p, x) PROVE ListInv'
  <2>1. TypeOK'
    BY <1>8 DEF QueueWork, ListInv, TypeOK, ProducerPC, wqvars
  <2>2. ListIsFifo' /\ OneOwner' /\ CurInv'
    BY <1>8 DEF QueueWork, ListInv, ListIsFifo, OneOwner, CurInv, wqvars
  <2>3. /\ req' = [req EXCEPT ![p] = x] /\ ppc' = [ppc EXCEPT ![p] = "ready"]
        /\ fifo' = fifo /\ cur' = cur
    BY <1>8 DEF QueueWork, wqvars
  <2>4. /\ \A q \in Producers : req[q] # x
        /\ \A w \in Workers : cur[w] # x
        /\ \A i \in 1..Len(fifo) : fifo[i] # x
    BY <1>8 DEF QueueWork, Owned
  <2>5. ReqInv'
    <3>1. \A q \in Producers : req'[q] # NULL <=> ppc'[q] # "idle"
      BY <2>3 DEF ListInv, ReqInv, TypeOK
    <3>2. \A q, r \in Producers : q # r /\ req'[q] # NULL => req'[q] # req'[r]
      BY <2>3, <2>4 DEF ListInv, ReqInv, TypeOK
    <3>3. \A q \in Producers, w \in Workers : req'[q] # NULL => req'[q] # cur'[w]
      BY <2>3, <2>4 DEF ListInv, ReqInv, TypeOK
    <3>4. \A q \in Producers : \A i \in 1..Len(fifo') : req'[q] # fifo'[i]
      BY <2>3, <2>4 DEF ListInv, ReqInv, TypeOK
    <3>. QED BY <3>1, <3>2, <3>3, <3>4 DEF ReqInv
  <2>. QED BY <2>1, <2>2, <2>5 DEF ListInv
<1>9. ASSUME NEW p \in Producers, ProducerSleep(p) PROVE ListInv'
  <2>1. TypeOK'
    BY <1>9 DEF ProducerSleep, ListInv, TypeOK, ProducerPC, wqvars
  <2>. QED BY <1>9, <2>1, QuietStep DEF ProducerSleep, ListInv, TypeOK
<1>10. ASSUME NEW p \in Producers, ProducerPut(p) PROVE ListInv'
  <2>1. /\ req[p] \in Works /\ ListIsFifo'
        /\ fifo' \in Seq(Works) /\ Len(fifo') = Len(fifo) + 1 /\ Len(fifo) \in Nat
        /\ \A i \in 1..Len(fifo) : fifo'[i] = fifo[i]
        /\ fifo'[Len(fifo) + 1] = req[p]
    BY <1>10, PutKeepsList DEF ListInv, TypeOK
  <2>2. PICK S \in SUBSET Sleepers : wpc' = Wake(wpc, S)
    BY <1>10, SignalWakesWaiters DEF ProducerPut, EmptySignal
  <2>3. /\ wpc' \in [Workers -> WorkerPC]
        /\ \A w \in Workers : wpc'[w] = "running" <=> wpc[w] = "running"
    BY <2>2, WakeSleepers DEF ListInv
  <2>4. /\ cur' = cur /\ req' = [req EXCEPT ![p] = NULL] /\ ppc' = [ppc EXCEPT ![p] = "idle"]
    BY <1>10 DEF ProducerPut
  <2>5. TypeOK'
    <3>1. head' \in Works \cup {NULL} /\ tail' \in Works \cup {NULL}
      BY <1>10, <2>1 DEF ProducerPut, ListInv, TypeOK
    <3>2. UNCHANGED <<shutdown, lock, ctl>>
      BY <1>10 DEF ProducerPut
    <3>3. ppc' \in [Producers -> ProducerPC] /\ req' \in [Producers -> Works \cup {NULL}]
      BY <2>4 DEF ListInv, TypeOK, ProducerPC
    <3>. QED BY <1>10, <2>1, <2>3, <2>4, <3>1, <3>2, <3>3, PutKeepsList DEF ListInv, TypeOK
  <2>6. OneOwner'
    BY <1>10, <2>1, <2>4 DEF ProducerPut, ListInv, OneOwner, ReqInv, TypeOK
  <2>7. CurInv'
    BY <2>3, <2>4 DEF ListInv, CurInv
  <2>8. ReqInv'
    BY <1>10, <2>1, <2>4 DEF ProducerPut, ListInv, ReqInv, TypeOK
  <2>. QED BY <2>1, <2>5, <2>6, <2>7, <2>8 DEF ListInv
<1>11. ASSUME NEW p \in Producers, ProducerSpurious(p) PROVE ListInv'
  <2>1. TypeOK' /\ \A q \in Producers : ppc'[q] = "idle" <=> ppc[q] = "idle"
    BY <1>11 DEF ProducerSpurious, Wake, ListInv, TypeOK, ProducerPC, wqvars
  <2>. QED BY <1>11, <2>1, QuietStep DEF ProducerSpurious
<1>12. CASE DestroyBegin
  <2>1. wpc' = Wake(wpc, Sleepers)
    BY <1>12 DEF DestroyBegin, ShutdownSignal
  <2>2. /\ wpc' \in [Workers -> WorkerPC]
        /\ \A w \in Workers : wpc'[w] = "running" <=> wpc[w] = "running"
    BY <2>1, WakeSleepers DEF ListInv
  <2>3. TypeOK'
    BY <1>12, <2>2 DEF DestroyBegin, ListInv, TypeOK, Ctl, wqvars
  <2>. QED BY <1>12, <2>2, <2>3, QuietStep DEF DestroyBegin
<1>13. CASE DestroyEnd
  <2>1. TypeOK'
    BY <1>13 DEF DestroyEnd, ListInv, TypeOK, Ctl, wqvars
  <2>. QED BY <1>13, <2>1, QuietStep DEF DestroyEnd
<1>14. CASE UNCHANGED vars
  <2>1. TypeOK'
    BY <1>14 DEF vars, ListInv, TypeOK
  <2>. QED BY <1>14, <2>1, QuietStep DEF vars, wqvars
<1>. QED
  BY <1>1, <1>2, <1>3, <1>4, <1>5, <1>6, <1>7, <1>8, <1>9, <1>10, <1>11, <1>12,
     <1>13, <1>14 DEF Next, WorkerStep, ProducerStep

(* ListInv is an inductive invariant of the work queue. *)
THEOREM ListInvariant == Spec => []ListInv
BY ListInvInit, ListInvStep, PTL DEF Spec

(* The variables of the list have the types the code gives them. *)
THEOREM TypeCorrect == Spec => []TypeOK
BY ListInvariant, PTL DEF ListInv

(* The pointers head, tail and next always describe the FIFO of the works  *)
(* submitted and not taken.                                                *)
THEOREM ListCorrect == Spec => []ListIsFifo
BY ListInvariant, PTL DEF ListInv

(* No work is run by two workers, or queued while it is run. *)
THEOREM Ownership == Spec => []OneOwner
BY ListInvariant, PTL DEF ListInv
-----------------------------------------------------------------------------
(* The wakeup and shutdown invariant. *)
WakeInv == NoLostFullWakeup /\ DownInv

(* Every step preserves WakeInv, given the invariant of the list. *)
LEMMA WakeInvStep == ListInv /\ WakeInv /\ [Next]_vars => WakeInv'
<1>. SUFFICES ASSUME ListInv, WakeInv, [Next]_vars PROVE WakeInv'
  OBVIOUS
<1>. USE WorkQueueAssumption DEF WakeInv, ListInv
<1>1. ASSUME NEW w \in Workers, CreateWorker(w) PROVE WakeInv'
  BY <1>1 DEF CreateWorker, TypeOK, NoLostFullWakeup, Blocked, DownInv, wqvars
<1>2. CASE AllocFails
  BY <1>2 DEF AllocFails, TypeOK, NoLostFullWakeup, Blocked, DownInv, wqvars
<1>3. ASSUME NEW w \in Workers, WorkerCancelled(w) PROVE WakeInv'
  BY <1>3 DEF WorkerCancelled, TypeOK, NoLostFullWakeup, Blocked, DownInv, wqvars
<1>4. ASSUME NEW w \in Workers, OnStart(w) \/ WorkerSleep(w) \/ WorkerBreak(w) \/ OnExit(w)
      PROVE  WakeInv'
  BY <1>4 DEF OnStart, WorkerSleep, WorkerBreak, MayBreak, OnExit, TypeOK,
              NoLostFullWakeup, Blocked, DownInv, wqvars
<1>5. ASSUME NEW w \in Workers, WorkerTake(w) PROVE WakeInv'
  <2>1. NoLostFullWakeup'
    BY <1>5 DEF WorkerTake, WasFull, Wake, Blocked, NoLostFullWakeup, TypeOK
  <2>2. DownInv'
    BY <1>5 DEF WorkerTake, WasFull, Wake, Blocked, DownInv, TypeOK
  <2>. QED BY <2>1, <2>2
<1>6. ASSUME NEW w \in Workers, WorkDone(w) PROVE WakeInv'
  BY <1>6 DEF WorkDone, TypeOK, NoLostFullWakeup, Blocked, DownInv, wqvars
<1>7. ASSUME NEW w \in Workers, WorkerSpurious(w) PROVE WakeInv'
  BY <1>7 DEF WorkerSpurious, Wake, TypeOK, NoLostFullWakeup, Blocked, DownInv, wqvars
<1>8. ASSUME NEW p \in Producers, NEW x \in Works, QueueWork(p, x) PROVE WakeInv'
  BY <1>8 DEF QueueWork, TypeOK, NoLostFullWakeup, Blocked, DownInv, wqvars
<1>9. ASSUME NEW p \in Producers, ProducerSleep(p) PROVE WakeInv'
  BY <1>9 DEF ProducerSleep, HasRoom, TypeOK, NoLostFullWakeup, Blocked, DownInv, wqvars
<1>10. ASSUME NEW p \in Producers, ProducerPut(p) PROVE WakeInv'
  <2>1. NoLostFullWakeup'
    BY <1>10 DEF ProducerPut, HasRoom, Blocked, NoLostFullWakeup, TypeOK
  <2>2. PICK S \in SUBSET Sleepers : wpc' = Wake(wpc, S)
    BY <1>10, SignalWakesWaiters DEF ProducerPut, EmptySignal
  <2>3. \A w \in Workers : wpc'[w] = IF w \in S THEN "ready" ELSE wpc[w]
    BY <2>2, WakeSleepers
  <2>4. ~shutdown
    BY <1>10 DEF ProducerPut, DownInv
  <2>5. DownInv'
    BY <1>10, <2>3, <2>4 DEF ProducerPut, DownInv, TypeOK
  <2>. QED BY <2>1, <2>5
<1>11. ASSUME NEW p \in Producers, ProducerSpurious(p) PROVE WakeInv'
  BY <1>11 DEF ProducerSpurious, Wake, TypeOK, NoLostFullWakeup, Blocked, DownInv, wqvars
<1>12. CASE DestroyBegin
  <2>1. \A w \in Workers : wpc'[w] = IF w \in Sleepers THEN "ready" ELSE wpc[w]
    BY <1>12, WakeSleepers DEF DestroyBegin, ShutdownSignal
  <2>2. DownInv'
    BY <1>12, <2>1 DEF DestroyBegin, DownInv, Sleepers, TypeOK, wqvars
  <2>3. NoLostFullWakeup'
    BY <1>12 DEF DestroyBegin, NoLostFullWakeup, Blocked, wqvars
  <2>. QED BY <2>2, <2>3
<1>13. CASE DestroyEnd
  BY <1>13 DEF DestroyEnd, TypeOK, NoLostFullWakeup, Blocked, DownInv, wqvars
<1>14. CASE UNCHANGED vars
  BY <1>14 DEF vars, NoLostFullWakeup, Blocked, DownInv
<1>. QED
  BY <1>1, <1>2, <1>3, <1>4, <1>5, <1>6, <1>7, <1>8, <1>9, <1>10, <1>11, <1>12,
     <1>13, <1>14 DEF Next, WorkerStep, ProducerStep

(* A producer sleeps on cond_full only in front of a full list, and        *)
(* shutdown is set only once nobody submits and nobody sleeps.             *)
THEOREM WakeInvariant == Spec => []WakeInv
<1>1. Init => WakeInv
  BY DEF Init, WakeInv, NoLostFullWakeup, Blocked, DownInv
<1>. QED BY <1>1, ListInvariant, WakeInvStep, PTL DEF Spec

(* A producer asleep on cond_full has a full list in front of it. *)
THEOREM FullWakeup == Spec => []NoLostFullWakeup
BY WakeInvariant, PTL DEF WakeInv

(* erofs_destroy_workqueue returns after every work was run. *)
THEOREM Destroyed == Spec => []DestroyCompletes
<1>1. ListInv /\ WakeInv => DestroyCompletes
  <2>. SUFFICES ASSUME ListInv, WakeInv, ctl = "freed"
                PROVE  fifo = << >> /\ \A w \in Workers : wpc[w] = "done" /\ cur[w] = NULL
    BY DEF DestroyCompletes
  <2>1. \A w \in Workers : wpc[w] = "done" /\ cur[w] = NULL
    BY DEF ListInv, WakeInv, DownInv, CurInv
  <2>2. job_count = 0
    BY <2>1, WorkQueueAssumption DEF WakeInv, DownInv
  <2>3. fifo = << >>
    BY <2>2, EmptySeq DEF ListInv, ListIsFifo, TypeOK
  <2>. QED BY <2>1, <2>3
<1>. QED BY <1>1, ListInvariant, WakeInvariant, PTL
-----------------------------------------------------------------------------
(* One signal per submission is enough.                                    *)

(* The workers awake can be counted. *)
LEMMA AwakeFinite ==
  ASSUME TypeOK
  PROVE  IsFiniteSet(Awake) /\ Cardinality(Awake) \in Nat
<1>1. Awake \in SUBSET Workers
  BY DEF Awake
<1>2. IsFiniteSet(Awake)
  BY <1>1, WorkQueueAssumption, FS_Subset
<1>. QED BY <1>2, FS_CardinalityType

(* Steps that put no worker to sleep and take none out of the race for the *)
(* lock.                                                                   *)
LEMMA NoFewerAwake ==
  ASSUME TypeOK, TypeOK', NoLostEmptyWakeup, job_count' = job_count,
         Awake \subseteq Awake', Sleepers' \subseteq Sleepers
  PROVE  NoLostEmptyWakeup'
<1>1. Cardinality(Awake) <= Cardinality(Awake')
  <2>1. IsFiniteSet(Awake') /\ Awake' \in SUBSET Workers
    <3>1. Awake' \in SUBSET Workers
      BY DEF Awake
    <3>. QED BY <3>1, WorkQueueAssumption, FS_Subset
  <2>. QED BY <2>1, FS_Subset
<1>2. /\ Cardinality(Awake) \in Nat /\ Cardinality(Awake') \in Nat
      /\ job_count \in Nat
  <2>1. Awake' \in SUBSET Workers
    BY DEF Awake
  <2>2. IsFiniteSet(Awake')
    BY <2>1, WorkQueueAssumption, FS_Subset
  <2>3. job_count \in Nat
    BY WorkQueueAssumption DEF TypeOK
  <2>. QED BY <2>2, <2>3, AwakeFinite, FS_CardinalityType
<1>. QED BY <1>1, <1>2 DEF NoLostEmptyWakeup

(* Every step preserves NoLostEmptyWakeup, given the invariants above. *)
LEMMA EmptyWakeupStep ==
  ListInv /\ ListInv' /\ WakeInv /\ NoLostEmptyWakeup /\ [Next]_vars
    => NoLostEmptyWakeup'
<1>. SUFFICES ASSUME ListInv, ListInv', WakeInv, NoLostEmptyWakeup, [Next]_vars
              PROVE  NoLostEmptyWakeup'
  OBVIOUS
<1>. USE WorkQueueAssumption
<1>0. TypeOK /\ TypeOK'
  BY DEF ListInv
<1>1. ASSUME NEW w \in Workers,
             CreateWorker(w) \/ WorkerCancelled(w) \/ OnStart(w) \/ WorkDone(w) \/ OnExit(w)
      PROVE  NoLostEmptyWakeup'
  <2>1. job_count' = job_count /\ Awake \subseteq Awake' /\ Sleepers' \subseteq Sleepers
    BY <1>0, <1>1 DEF CreateWorker, WorkerCancelled, OnStart, WorkDone, OnExit, TypeOK,
                      Awake, Sleepers, wqvars
  <2>. QED BY <1>0, <2>1, NoFewerAwake
<1>2. ASSUME NEW w \in Workers, WorkerSpurious(w) PROVE NoLostEmptyWakeup'
  <2>1. job_count' = job_count /\ Awake \subseteq Awake' /\ Sleepers' \subseteq Sleepers
    BY <1>0, <1>2 DEF WorkerSpurious, Wake, TypeOK, Awake, Sleepers, wqvars
  <2>. QED BY <1>0, <2>1, NoFewerAwake
<1>3. ASSUME NEW w \in Workers, WorkerSleep(w) PROVE NoLostEmptyWakeup'
  <2>1. job_count' = 0
    BY <1>3 DEF WorkerSleep, wqvars
  <2>2. Awake' \in SUBSET Workers
    BY DEF Awake
  <2>3. IsFiniteSet(Awake') /\ Cardinality(Awake') \in Nat
    BY <2>2, FS_Subset, FS_CardinalityType
  <2>. QED BY <2>1, <2>3 DEF NoLostEmptyWakeup
<1>4. ASSUME NEW w \in Workers, WorkerBreak(w) PROVE NoLostEmptyWakeup'
  <2>1. Sleepers' = {}
    BY <1>0, <1>4 DEF WorkerBreak, MayBreak, WakeInv, DownInv, Sleepers, TypeOK
  <2>. QED BY <2>1 DEF NoLostEmptyWakeup
<1>5. ASSUME NEW w \in Workers, WorkerTake(w) PROVE NoLostEmptyWakeup'
  <2>1. Awake' = Awake \ {w} /\ w \in Awake /\ Sleepers' = Sleepers
    BY <1>0, <1>5 DEF WorkerTake, Awake, Sleepers, TypeOK
  <2>2. Cardinality(Awake') = Cardinality(Awake) - 1
    BY <1>0, <2>1, AwakeFinite, FS_RemoveElement
  <2>3. job_count' = job_count - 1
    BY <1>5 DEF WorkerTake
  <2>. QED BY <1>0, <2>1, <2>2, <2>3, AwakeFinite DEF NoLostEmptyWakeup, TypeOK
<1>6. ASSUME NEW p \in Producers, NEW x \in Works, QueueWork(p, x)
      PROVE  NoLostEmptyWakeup'
  BY <1>6 DEF QueueWork, NoLostEmptyWakeup, Awake, Sleepers, wqvars
<1>7. ASSUME NEW p \in Producers, ProducerSleep(p) \/ ProducerSpurious(p)
      PROVE  NoLostEmptyWakeup'
  BY <1>7 DEF ProducerSleep, ProducerSpurious, NoLostEmptyWakeup, Awake, Sleepers, wqvars
<1>8. ASSUME NEW p \in Producers, ProducerPut(p) PROVE NoLostEmptyWakeup'
  <2>1. PICK S \in SignalOne(Sleepers) : wpc' = Wake(wpc, S)
    BY <1>8 DEF ProducerPut, EmptySignal
  <2>2. S \in SUBSET Sleepers
    BY <2>1, SignalWakesWaiters
  <2>3. \A w \in Workers : wpc'[w] = IF w \in S THEN "ready" ELSE wpc[w]
    BY <1>0, <2>1, <2>2, WakeSleepers
  <2>4. CASE Sleepers = {}
    <3>1. Sleepers' = {}
      BY <2>2, <2>3, <2>4 DEF Sleepers
    <3>. QED BY <3>1 DEF NoLostEmptyWakeup
  <2>5. CASE Sleepers # {}
    <3>1. PICK t \in Sleepers : S = {t}
      BY <2>1, <2>5 DEF SignalOne
    <3>2. Awake' = Awake \cup {t} /\ t \notin Awake
      BY <2>3, <3>1 DEF Awake, Sleepers
    <3>3. Cardinality(Awake') = Cardinality(Awake) + 1
      BY <1>0, <3>2, AwakeFinite, FS_AddElement
    <3>4. job_count' = job_count + 1
      BY <1>8 DEF ProducerPut
    <3>. QED BY <1>0, <2>5, <3>3, <3>4, AwakeFinite DEF NoLostEmptyWakeup, TypeOK
  <2>. QED BY <2>4, <2>5
<1>9. CASE DestroyBegin
  <2>1. \A w \in Workers : wpc'[w] = IF w \in Sleepers THEN "ready" ELSE wpc[w]
    BY <1>0, <1>9, WakeSleepers DEF DestroyBegin, ShutdownSignal
  <2>2. Sleepers' = {}
    BY <2>1 DEF Sleepers
  <2>. QED BY <2>2 DEF NoLostEmptyWakeup
<1>10. CASE AllocFails \/ DestroyEnd \/ UNCHANGED vars
  BY <1>10 DEF AllocFails, DestroyEnd, vars, NoLostEmptyWakeup, Awake, Sleepers, wqvars
<1>. QED
  BY <1>1, <1>2, <1>3, <1>4, <1>5, <1>6, <1>7, <1>8, <1>9, <1>10
  DEF Next, WorkerStep, ProducerStep

(* While a worker sleeps on cond_empty, as many workers are on their way   *)
(* to the lock as there are works queued.                                  *)
THEOREM EmptyWakeup == Spec => []NoLostEmptyWakeup
<1>1. Init => NoLostEmptyWakeup
  BY DEF Init, NoLostEmptyWakeup, Sleepers
<1>. QED BY <1>1, ListInvariant, WakeInvariant, EmptyWakeupStep, PTL DEF Spec
-----------------------------------------------------------------------------
(* Every step of the work queue is a step of the executor or none.         *)
LEMMA ExecutorStep ==
  ListInv /\ WakeInv /\ [Next]_vars => [Promise!Next]_(Promise!vars)
<1>. SUFFICES ASSUME ListInv, WakeInv, [Next]_vars
              PROVE  [Promise!Next]_(Promise!vars)
  OBVIOUS
<1>. USE WorkQueueAssumption
<1>1. ASSUME NEW w \in Workers, WorkerTake(w) PROVE Promise!Start(w)
  <2>1. cur[w] = NULL
    BY <1>1 DEF WorkerTake, ListInv, CurInv
  <2>2. head = fifo[1] /\ Len(fifo) \in Nat \ {0}
    BY <1>1, TakeKeepsList DEF ListInv
  <2>3. fifo # << >> /\ Head(fifo) = head
    BY <2>2
  <2>. QED BY <1>1, <2>1, <2>3 DEF WorkerTake, Promise!Start
<1>2. ASSUME NEW w \in Workers, WorkDone(w) PROVE Promise!Finish(w)
  BY <1>2 DEF WorkDone, wqvars, ListInv, CurInv, Promise!Finish
<1>3. ASSUME NEW p \in Producers, ProducerPut(p)
      PROVE  req[p] \in Works /\ Promise!Submit(req[p])
  <2>1. req[p] # NULL /\ req[p] \in Works
    BY <1>3 DEF ProducerPut, ListInv, ReqInv, TypeOK
  <2>2. ctl \notin {"down", "freed"} /\ ctl' = ctl
    BY <1>3 DEF ProducerPut, WakeInv, DownInv
  <2>3. Len(fifo) < MaxJobs
    BY <1>3 DEF ProducerPut, HasRoom, ListInv, ListIsFifo, TypeOK
  <2>4. /\ \A i \in 1..Len(fifo) : fifo[i] # req[p]
        /\ \A w \in Workers : cur[w] # req[p]
    BY <2>1 DEF ListInv, ReqInv
  <2>. QED BY <1>3, <2>1, <2>2, <2>3, <2>4 DEF ProducerPut, Promise!Submit
<1>4. CASE DestroyBegin
  BY <1>4 DEF DestroyBegin, wqvars, Promise!Next, Promise!Close
<1>5. CASE DestroyEnd
  <2>1. \A w \in Workers : cur[w] = NULL
    BY <1>5 DEF DestroyEnd, ListInv, CurInv
  <2>2. job_count = 0
    BY <1>5 DEF DestroyEnd, WakeInv, DownInv
  <2>3. fifo = << >>
    BY <2>2, EmptySeq DEF ListInv, ListIsFifo, TypeOK
  <2>. QED BY <1>5, <2>1, <2>3 DEF DestroyEnd, wqvars, Promise!Next, Promise!Release
<1>6. ASSUME NEW w \in Workers,
             \/ CreateWorker(w) \/ WorkerCancelled(w) \/ OnStart(w) \/ WorkerSleep(w)
             \/ WorkerBreak(w) \/ OnExit(w) \/ WorkerSpurious(w)
      PROVE  UNCHANGED Promise!vars
  BY <1>6 DEF CreateWorker, WorkerCancelled, OnStart, WorkerSleep, WorkerBreak, OnExit,
              WorkerSpurious, wqvars, Promise!vars
<1>7. ASSUME NEW p \in Producers, NEW x \in Works, QueueWork(p, x)
      PROVE  UNCHANGED Promise!vars
  BY <1>7 DEF QueueWork, wqvars, Promise!vars
<1>8. ASSUME NEW p \in Producers, ProducerSleep(p) \/ ProducerSpurious(p)
      PROVE  UNCHANGED Promise!vars
  BY <1>8 DEF ProducerSleep, ProducerSpurious, wqvars, Promise!vars
<1>9. CASE AllocFails \/ UNCHANGED vars
  BY <1>9 DEF AllocFails, vars, wqvars, Promise!vars
<1>. QED
  BY <1>1, <1>2, <1>3, <1>4, <1>5, <1>6, <1>7, <1>8, <1>9
  DEF Next, WorkerStep, ProducerStep, Promise!Next

(* The work queue implements the executor: works are started in the order  *)
(* of submission, each once, and all of them before it is released.        *)
THEOREM Refinement == Spec => ImplementsExecutor
<1>1. Init => Promise!Init
  BY DEF Init, Promise!Init
<1>. QED
  BY <1>1, ListInvariant, WakeInvariant, ExecutorStep, PTL
  DEF Spec, ImplementsExecutor, Promise!SafeSpec
=============================================================================
