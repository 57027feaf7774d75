-------------------------- MODULE ThreadPoolProofs --------------------------
(***************************************************************************)
(* The thread pool of extract.erofs drains: for every size of the pool,    *)
(* every limit and any number of tasks.                                    *)
(***************************************************************************)
EXTENDS ThreadPool, FiniteSetTheorems, TLAPS

ClientPcs == {"addThread", "addIdle", "commit", "notify_one", "stop",
              "notify_all", "join", "destroyed"}
ThreadPcs == {"none", "lock", "tested", "asleep", "run", "ran", "returned"}

TypeOK ==
  /\ cpc \in ClientPcs
  /\ next \in 1..(NTasks + 1)
  /\ tasks \in Seq(Nat)
  /\ run \in BOOLEAN
  /\ tpc \in [Threads -> ThreadPcs]
  /\ started \in Seq(Nat)
  /\ count \in Nat

(* What was started and what is queued are the tasks committed so far, in  *)
(* their order.                                                            *)
OrderInv ==
  /\ Len(started) + Len(tasks) = next - 1
  /\ \A k \in 1..Len(started) : started[k] = k
  /\ \A k \in 1..Len(tasks) : tasks[k] = Len(started) + k

Running == {t \in Threads : tpc[t] = "run"}

(* A task that was started and does not run any more was counted. *)
CountInv == count + Cardinality(Running) = Len(started)

(* _run is cleared behind the last commit. *)
RunInv ==
  /\ ~run <=> cpc \in {"notify_all", "join", "destroyed"}
  /\ cpc \in {"stop", "notify_all", "join", "destroyed"} => next = NTasks + 1

(* The threads are made one after the other, one at least. *)
PoolInv ==
  /\ \E k \in 0..Size : Pool = 1..k
  /\ cpc # "addThread" => Pool # {}

(* A thread returns only from an empty queue nothing is added to. *)
ReturnInv == (\E t \in Threads : tpc[t] = "returned") => ~run /\ tasks = << >>

(* At the end no thread of the pool is anywhere else. *)
EndInv == cpc = "destroyed" => \A t \in Pool : tpc[t] = "returned"

PoolIInv == /\ TypeOK /\ OrderInv /\ CountInv /\ RunInv
            /\ PoolInv /\ ReturnInv /\ EndInv
-----------------------------------------------------------------------------
(* Cardinalities of sets of threads: there is a number of running threads, *)
(* and it changes by one with a thread.                                    *)
LEMMA ThreadsFinite ==
  \A S \in SUBSET Threads : IsFiniteSet(S) /\ Cardinality(S) \in Nat
<1>1. IsFiniteSet(Threads)
  BY PoolAssumption, FS_Interval DEF Threads
<1> QED
  BY <1>1, FS_Subset, FS_CardinalityType

LEMMA OneMore ==
  ASSUME NEW S \in SUBSET Threads, NEW t \in Threads \ S
  PROVE  Cardinality(S \cup {t}) = Cardinality(S) + 1
BY ThreadsFinite, FS_AddElement

LEMMA OneLess ==
  ASSUME NEW S \in SUBSET Threads, NEW t \in S
  PROVE  Cardinality(S \ {t}) = Cardinality(S) - 1
BY ThreadsFinite, FS_RemoveElement

(* When the pool of threads is 1..k, the next one made is k + 1. *)
LEMMA PoolSize ==
  ASSUME NEW k \in 0..Size, Pool = 1..k
  PROVE  Cardinality(Pool) = k
BY PoolAssumption, FS_Interval

LEMMA PoolInit == Init => PoolIInv
<1> SUFFICES ASSUME Init PROVE PoolIInv
  OBVIOUS
<1> USE PoolAssumption DEF Init
<1>1. TypeOK
  BY DEF TypeOK, ClientPcs, ThreadPcs
<1>2. Running = {} /\ Pool = {} /\ Pool = 1..0
  BY DEF Running, Pool
<1>3. CountInv
  BY <1>2, FS_EmptySet DEF CountInv
<1>4. PoolInv
  BY <1>2 DEF PoolInv
<1>5. OrderInv /\ RunInv /\ ReturnInv /\ EndInv
  BY DEF OrderInv, RunInv, ReturnInv, EndInv
<1> QED
  BY <1>1, <1>3, <1>4, <1>5 DEF PoolIInv

(* A step that moves threads between places other than these leaves the    *)
(* sets of made, running and returned threads alone.                       *)
LEMMA Moved ==
  ASSUME TypeOK,
         tpc' \in [Threads -> ThreadPcs],
         \A t \in Threads : \/ tpc'[t] = tpc[t]
                            \/ /\ tpc[t] \in {"lock", "tested", "asleep", "ran"}
                               /\ tpc'[t] \in {"lock", "tested", "asleep", "ran"}
  PROVE  /\ Pool' = Pool /\ Running' = Running
         /\ \A t \in Threads : (tpc[t] = "returned") <=> (tpc'[t] = "returned")
BY DEF TypeOK, ThreadPcs, Pool, Running

(* Then, with the queue, the counter and the client's place alone, the     *)
(* invariant holds again.                                                  *)
LEMMA ThreadMoves ==
  ASSUME PoolIInv,
         tpc' \in [Threads -> ThreadPcs],
         \A t \in Threads : \/ tpc'[t] = tpc[t]
                            \/ /\ tpc[t] \in {"lock", "tested", "asleep", "ran"}
                               /\ tpc'[t] \in {"lock", "tested", "asleep", "ran"},
         UNCHANGED <<cpc, next, tasks, run, started, count>>
  PROVE  PoolIInv'
<1>1. /\ Pool' = Pool /\ Running' = Running
      /\ \A t \in Threads : (tpc[t] = "returned") <=> (tpc'[t] = "returned")
  BY Moved DEF PoolIInv
<1>2. TypeOK' /\ OrderInv' /\ RunInv'
  BY DEF PoolIInv, TypeOK, OrderInv, RunInv
<1>3. CountInv' /\ PoolInv'
  BY <1>1 DEF PoolIInv, CountInv, PoolInv
<1>4. ReturnInv' /\ EndInv'
  BY <1>1 DEF PoolIInv, ReturnInv, EndInv, Pool
<1> QED
  BY <1>2, <1>3, <1>4 DEF PoolIInv

LEMMA AddThreadKeeps == PoolIInv /\ AddThread => PoolIInv'
<1> SUFFICES ASSUME PoolIInv, AddThread PROVE PoolIInv'
  OBVIOUS
<1> USE DEF PoolIInv
<1>1. PICK k \in 0..Size : Pool = 1..k
  BY DEF PoolInv
<1>2. Cardinality(Pool) = k
  BY <1>1, PoolSize
<1>3. CASE k < MaxNum /\ k < Size
  <2>1. /\ k + 1 \in Threads /\ tpc[k + 1] = "none" /\ cpc' = "addIdle"
        /\ tpc' = [tpc EXCEPT ![k + 1] = "lock"]
    BY <1>1, <1>2, <1>3, PoolAssumption DEF AddThread, Pool, Threads, TypeOK
  <2>2. TypeOK'
    BY <2>1 DEF AddThread, TypeOK, ClientPcs, ThreadPcs
  <2>3. Running' = Running
    BY <2>1 DEF Running, TypeOK
  <2>4. Pool' = Pool \cup {k + 1}
    BY <2>1 DEF Pool, TypeOK
  <2>5. Pool' = 1..(k + 1) /\ k + 1 \in 0..Size /\ Pool' # {}
    BY <2>4, <1>1, <1>3, PoolAssumption
  <2>6. OrderInv' /\ RunInv' /\ EndInv'
    BY <2>1 DEF AddThread, OrderInv, RunInv, EndInv
  <2>7. ReturnInv'
    BY <2>1 DEF AddThread, ReturnInv, TypeOK
  <2>8. CountInv'
    BY <2>3 DEF AddThread, CountInv
  <2>9. PoolInv'
    BY <2>5 DEF PoolInv
  <2> QED
    BY <2>2, <2>6, <2>7, <2>8, <2>9
<1>4. CASE ~(k < MaxNum /\ k < Size)
  <2>1. cpc' = "commit" /\ UNCHANGED <<tpc, next, tasks, run, started, count>>
    BY <1>2, <1>4 DEF AddThread
  <2>2. Pool' = Pool /\ Running' = Running
    BY <2>1 DEF Pool, Running
  <2>3. Pool # {}
    BY <1>1, <1>4, PoolAssumption
  <2>4. TypeOK' /\ OrderInv' /\ RunInv' /\ ReturnInv' /\ EndInv'
    BY <2>1 DEF AddThread, TypeOK, OrderInv, RunInv, ReturnInv, EndInv, ClientPcs
  <2>5. CountInv' /\ PoolInv'
    BY <2>1, <2>2, <2>3 DEF CountInv, PoolInv
  <2> QED
    BY <2>4, <2>5
<1> QED
  BY <1>3, <1>4

(* The other steps of the client that leave the threads alone. *)
LEMMA CommitKeeps == PoolIInv /\ Commit => PoolIInv'
<1> SUFFICES ASSUME PoolIInv, Commit PROVE PoolIInv'
  OBVIOUS
<1> USE DEF PoolIInv, Commit
<1>1. Pool' = Pool /\ Running' = Running
  BY DEF Pool, Running
<1>2. run
  BY DEF RunInv, TypeOK
<1>3. TypeOK'
  BY PoolAssumption DEF TypeOK, ClientPcs
<1>4. OrderInv'
  <2>1. /\ tasks \in Seq(Nat) /\ next \in Nat /\ started' = started
        /\ tasks' = Append(tasks, next) /\ next' = next + 1
    BY PoolAssumption DEF TypeOK
  <2>2. /\ Len(tasks') = Len(tasks) + 1 /\ tasks'[Len(tasks) + 1] = next
        /\ \A k \in 1..Len(tasks) : tasks'[k] = tasks[k]
    BY <2>1
  <2>3. Len(started) \in Nat /\ Len(tasks) \in Nat
    BY DEF TypeOK
  <2>4. next = Len(started) + Len(tasks) + 1
    BY <2>1, <2>3 DEF OrderInv
  <2>5. ASSUME NEW k \in 1..(Len(tasks) + 1) PROVE tasks'[k] = Len(started) + k
    <3>1. CASE k = Len(tasks) + 1
      BY <3>1, <2>2, <2>3, <2>4
    <3>2. CASE k \in 1..Len(tasks)
      BY <3>2, <2>2 DEF OrderInv
    <3> QED
      BY <3>1, <3>2, <2>3
  <2> QED
    BY <2>1, <2>2, <2>3, <2>4, <2>5 DEF OrderInv
<1>5. RunInv' /\ EndInv'
  BY DEF RunInv, EndInv
<1>6. ReturnInv'
  BY <1>2 DEF ReturnInv
<1>7. CountInv' /\ PoolInv'
  BY <1>1 DEF CountInv, PoolInv
<1> QED
  BY <1>3, <1>4, <1>5, <1>6, <1>7

LEMMA ClientKeeps ==
  PoolIInv /\ (AddIdle \/ Committed \/ ClearRun \/ Join) => PoolIInv'
<1> SUFFICES ASSUME PoolIInv, AddIdle \/ Committed \/ ClearRun \/ Join
             PROVE  PoolIInv'
  OBVIOUS
<1> USE DEF PoolIInv, AddIdle, Committed, ClearRun, Join
<1>1. UNCHANGED <<next, tasks, tpc, started, count>>
  OBVIOUS
<1>2. Pool' = Pool /\ Running' = Running
  BY <1>1 DEF Pool, Running
<1>3. TypeOK' /\ OrderInv'
  BY DEF TypeOK, OrderInv, ClientPcs
<1>4. RunInv'
  BY PoolAssumption DEF RunInv, TypeOK
<1>5. ReturnInv'
  BY DEF ReturnInv
<1>6. EndInv'
  BY <1>2 DEF EndInv
<1>7. CountInv' /\ PoolInv'
  BY <1>2 DEF CountInv, PoolInv
<1> QED
  BY <1>3, <1>4, <1>5, <1>6, <1>7

LEMMA NotifyKeeps == PoolIInv /\ (NotifyOne \/ NotifyAll) => PoolIInv'
<1> SUFFICES ASSUME PoolIInv, NotifyOne \/ NotifyAll PROVE PoolIInv'
  OBVIOUS
<1> USE DEF PoolIInv
<1>1. PICK T \in SUBSET Asleep :
         tpc' = [t \in Threads |-> IF t \in T THEN "lock" ELSE tpc[t]]
  BY DEF NotifyOne, NotifyAll, Notified, NotifiedAll
<1>2. /\ tpc' \in [Threads -> ThreadPcs]
      /\ \A t \in Threads : \/ tpc'[t] = tpc[t]
                            \/ tpc[t] = "asleep" /\ tpc'[t] = "lock"
  BY <1>1 DEF Asleep, TypeOK, ThreadPcs
<1>3. /\ Pool' = Pool /\ Running' = Running
      /\ \A t \in Threads : (tpc[t] = "returned") <=> (tpc'[t] = "returned")
  BY <1>2, Moved
<1>4. UNCHANGED <<next, tasks, run, started, count>>
  BY DEF NotifyOne, NotifyAll
<1>5. TypeOK' /\ OrderInv' /\ RunInv' /\ EndInv'
  BY <1>2, <1>4 DEF NotifyOne, NotifyAll, TypeOK, OrderInv, RunInv, EndInv, ClientPcs
<1>6. ReturnInv'
  BY <1>3, <1>4 DEF ReturnInv
<1>7. CountInv' /\ PoolInv'
  BY <1>3, <1>4 DEF CountInv, PoolInv, NotifyOne, NotifyAll
<1> QED
  BY <1>5, <1>6, <1>7

LEMMA MoveKeeps ==
  ASSUME PoolIInv, NEW t \in Threads,
         TestFails(t) \/ Sleep(t) \/ SpuriousWake(t) \/ IdleAgain(t)
  PROVE  PoolIInv'
<1>1. PICK p \in {"lock", "tested", "asleep"} :
        tpc' = [tpc EXCEPT ![t] = p] /\ tpc[t] \in {"lock", "tested", "asleep", "ran"}
  BY DEF TestFails, Sleep, SpuriousWake, IdleAgain
<1>2. /\ tpc' \in [Threads -> ThreadPcs]
      /\ \A u \in Threads : \/ tpc'[u] = tpc[u]
                            \/ /\ tpc[u] \in {"lock", "tested", "asleep", "ran"}
                               /\ tpc'[u] \in {"lock", "tested", "asleep", "ran"}
  BY <1>1 DEF PoolIInv, TypeOK, ThreadPcs
<1>3. UNCHANGED <<cpc, next, tasks, run, started, count>>
  BY DEF TestFails, Sleep, SpuriousWake, IdleAgain
<1> QED
  BY <1>2, <1>3, ThreadMoves

(* A thread that returns is made already and does not run a task; one that *)
(* is not in a join cannot be the last to return.                          *)
LEMMA ReturnKeeps ==
  ASSUME PoolIInv, NEW t \in Threads, TestAndTake(t), MayReturn
  PROVE  PoolIInv'
<1> USE DEF PoolIInv
<1>1. /\ tpc[t] = "lock" /\ tpc' = [tpc EXCEPT ![t] = "returned"]
      /\ UNCHANGED <<cpc, next, tasks, run, started, count>>
  BY DEF TestAndTake
<1>2. Pool' = Pool /\ Running' = Running
  BY <1>1 DEF Pool, Running, TypeOK
<1>3. TypeOK' /\ OrderInv' /\ RunInv'
  BY <1>1 DEF TypeOK, OrderInv, RunInv, ThreadPcs
<1>4. ReturnInv'
  BY <1>1 DEF ReturnInv, MayReturn
<1>5. EndInv'
  BY <1>1, <1>2 DEF EndInv, TypeOK, Pool
<1>6. CountInv' /\ PoolInv'
  BY <1>1, <1>2 DEF CountInv, PoolInv
<1> QED
  BY <1>3, <1>4, <1>5, <1>6

LEMMA TakeKeeps ==
  ASSUME PoolIInv, NEW t \in Threads, TestAndTake(t), ~MayReturn
  PROVE  PoolIInv'
<1> USE DEF PoolIInv
<1>1. /\ tpc[t] = "lock" /\ tpc' = [tpc EXCEPT ![t] = "run"]
      /\ started' = Append(started, Head(tasks)) /\ tasks' = Tail(tasks)
      /\ UNCHANGED <<cpc, next, run, count>>
      /\ tasks # << >>
  BY DEF TestAndTake, MayReturn, TypeOK
<1>2. /\ Pool' = Pool /\ Running' = Running \cup {t} /\ t \notin Running
      /\ Running \in SUBSET Threads
  BY <1>1 DEF Pool, Running, TypeOK
<1>3. /\ tasks \in Seq(Nat) /\ Len(tasks) \in Nat \ {0} /\ Head(tasks) \in Nat
      /\ Head(tasks) = tasks[1]
      /\ Tail(tasks) \in Seq(Nat) /\ Len(Tail(tasks)) = Len(tasks) - 1
      /\ \A k \in 1..(Len(tasks) - 1) : Tail(tasks)[k] = tasks[k + 1]
  BY <1>1 DEF TypeOK
<1>4. /\ started \in Seq(Nat) /\ Len(started) \in Nat
      /\ Len(started') = Len(started) + 1
      /\ started'[Len(started) + 1] = Head(tasks)
      /\ \A k \in 1..Len(started) : started'[k] = started[k]
  BY <1>1, <1>3 DEF TypeOK
<1>5. TypeOK'
  BY <1>1, <1>3, <1>4 DEF TypeOK, ThreadPcs
<1>6. OrderInv'
  <2>1. Len(started') + Len(tasks') = next' - 1
    BY <1>1, <1>3, <1>4 DEF OrderInv
  <2>2. Head(tasks) = Len(started) + 1
    BY <1>3 DEF OrderInv
  <2>3. ASSUME NEW k \in 1..Len(started') PROVE started'[k] = k
    <3>1. CASE k = Len(started) + 1
      BY <3>1, <2>2, <1>4
    <3>2. CASE k \in 1..Len(started)
      BY <3>2, <1>4 DEF OrderInv
    <3> QED
      BY <3>1, <3>2, <1>4
  <2>4. ASSUME NEW k \in 1..Len(tasks') PROVE tasks'[k] = Len(started') + k
    <3>1. k \in Nat /\ k + 1 \in 1..Len(tasks) /\ tasks'[k] = tasks[k + 1]
      BY <1>1, <1>3
    <3>2. tasks[k + 1] = Len(started) + (k + 1)
      BY <3>1 DEF OrderInv
    <3> QED
      BY <3>1, <3>2, <1>4
  <2> QED
    BY <2>1, <2>3, <2>4 DEF OrderInv
<1>7. RunInv'
  BY <1>1 DEF RunInv
<1>8. CountInv'
  <2>1. Cardinality(Running') = Cardinality(Running) + 1
    BY <1>2, OneMore
  <2>2. Cardinality(Running) \in Nat
    BY <1>2, ThreadsFinite
  <2> QED
    BY <2>1, <2>2, <1>1, <1>4 DEF CountInv, TypeOK
<1>9. ReturnInv' /\ EndInv'
  BY <1>1 DEF ReturnInv, EndInv, TypeOK, Pool
<1>10. PoolInv'
  BY <1>1, <1>2 DEF PoolInv
<1> QED
  BY <1>5, <1>6, <1>7, <1>8, <1>9, <1>10

LEMMA RunTaskKeeps ==
  ASSUME PoolIInv, NEW t \in Threads, RunTask(t)
  PROVE  PoolIInv'
<1> USE DEF PoolIInv
<1>1. /\ tpc[t] = "run" /\ tpc' = [tpc EXCEPT ![t] = "ran"] /\ count' = count + 1
      /\ UNCHANGED <<cpc, next, tasks, run, started>>
  BY DEF RunTask
<1>2. /\ Pool' = Pool /\ Running' = Running \ {t} /\ t \in Running
      /\ Running \in SUBSET Threads
  BY <1>1 DEF Pool, Running, TypeOK
<1>3. TypeOK' /\ OrderInv' /\ RunInv'
  BY <1>1 DEF TypeOK, OrderInv, RunInv, ThreadPcs
<1>4. CountInv'
  <2>1. Cardinality(Running') = Cardinality(Running) - 1
    BY <1>2, OneLess
  <2>2. Cardinality(Running) \in Nat /\ Len(started) \in Nat
    BY <1>2, ThreadsFinite DEF TypeOK
  <2> QED
    BY <2>1, <2>2, <1>1 DEF CountInv, TypeOK
<1>5. ReturnInv' /\ EndInv'
  BY <1>1 DEF ReturnInv, EndInv, TypeOK, Pool
<1>6. PoolInv'
  BY <1>1, <1>2 DEF PoolInv
<1> QED
  BY <1>3, <1>4, <1>5, <1>6

LEMMA PoolStep == PoolIInv /\ [Next]_vars => PoolIInv'
<1> SUFFICES ASSUME PoolIInv, [Next]_vars PROVE PoolIInv'
  OBVIOUS
<1>1. CASE Client
  BY <1>1, AddThreadKeeps, CommitKeeps, ClientKeeps, NotifyKeeps DEF Client
<1>2. ASSUME NEW t \in Threads, Thread(t) \/ SpuriousWake(t) PROVE PoolIInv'
  BY <1>2, MoveKeeps, ReturnKeeps, TakeKeeps, RunTaskKeeps DEF Thread
<1>3. CASE UNCHANGED vars
  BY <1>3 DEF vars, PoolIInv, TypeOK, OrderInv, CountInv, RunInv, PoolInv, ReturnInv,
              EndInv, Pool, Running
<1> QED
  BY <1>1, <1>2, <1>3 DEF Next

LEMMA PoolImplies == PoolIInv => PoolDrains
<1> SUFFICES ASSUME PoolIInv PROVE PoolDrains
  OBVIOUS
<1> USE DEF PoolIInv
<1>1. started = [k \in 1..Len(started) |-> k]
  BY DEF OrderInv, TypeOK
<1>2. ASSUME cpc = "destroyed" PROVE count = NTasks /\ Len(started) = NTasks
  <2>1. \A t \in Pool : tpc[t] = "returned"
    BY <1>2 DEF EndInv
  <2>2. Pool # {} /\ Pool \subseteq Threads
    BY <1>2 DEF PoolInv, Pool
  <2>3. tasks = << >>
    BY <2>1, <2>2 DEF ReturnInv
  <2>4. Len(started) = NTasks
    BY <1>2, <2>3, PoolAssumption DEF OrderInv, RunInv, TypeOK
  <2>5. Running = {}
    BY <2>1 DEF Running, Pool
  <2> QED
    BY <2>4, <2>5, FS_EmptySet DEF CountInv, TypeOK
<1> QED
  BY <1>1, <1>2 DEF PoolDrains
-----------------------------------------------------------------------------
(* ~threadpool returns only when every task that commit queued was started *)
(* in the order of the commits, each once, and has finished: for pools of  *)
(* any size and any number of tasks, with the notifications of the code    *)
(* and its test and sleep in two steps.                                    *)
THEOREM Drained == Spec => []PoolDrains
<1>1. Init => PoolIInv
  BY PoolInit
<1>2. PoolIInv /\ [Next]_vars => PoolIInv'
  BY PoolStep
<1>3. PoolIInv => PoolDrains
  BY PoolImplies
<1> QED
  BY <1>1, <1>2, <1>3, PTL DEF Spec
=============================================================================
