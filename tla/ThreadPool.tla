----------------------------- MODULE ThreadPool -----------------------------
(***************************************************************************)
(* The thread pool of extract.erofs (extract/include/threadpool.h) and its *)
(* one client, extractErofsNodeMultiThread: the client makes a pool,       *)
(* commits its tasks, may watch a counter of the tasks that were run, and  *)
(* destroys the pool.                                                      *)
(*                                                                         *)
(* commit changes the queue under _lock and notifies behind it.  The       *)
(* destructor clears _run and notifies without ever holding _lock, so both *)
(* may fall between a worker's test of the predicate and its sleep: the    *)
(* two are separate steps here, with the mutex held in between.            *)
(***************************************************************************)
EXTENDS Integers, Sequences, FiniteSets, SequencesExt

CONSTANTS
  Size,      \* the size asked for
  MaxNum,    \* THREADPOOL_MAX_NUM
  NTasks,    \* the tasks 1..NTasks are committed in this order
  Watch,     \* a subset of BOOLEAN: whether the client watches the counter
  Spurious,  \* whether a wait may return without a notification
  NULL

Threads == 1..Size
Tasks == 1..NTasks

ASSUME PoolAssumption ==
  /\ Size \in Nat \ {0} /\ MaxNum \in Nat \ {0} /\ NTasks \in Nat
  /\ Watch \subseteq BOOLEAN /\ Spurious \in BOOLEAN
  /\ NULL \notin Threads \cup Tasks

VARIABLES
  watch,    \* whether this client watches the counter
  cpc,      \* where the client is
  next,     \* the next task it commits
  tasks,    \* _tasks
  run,      \* _run
  idl,      \* _idlThrNum
  lock,     \* the worker that holds _lock across steps, or NULL
  tpc,      \* where every thread of the pool is
  task,     \* the task it runs
  started,  \* the tasks in the order they were started
  count     \* extractTaskRunCount

vars == <<watch, cpc, next, tasks, run, idl, lock, tpc, task, started, count>>

Init ==
  /\ watch \in Watch
  /\ cpc = "addThread" /\ next = 1
  /\ tasks = << >> /\ run = TRUE /\ idl = 0 /\ lock = NULL
  /\ tpc = [t \in Threads |-> "none"]
  /\ task = [t \in Threads |-> NULL]
  /\ started = << >> /\ count = 0

Pool == {t \in Threads : tpc[t] # "none"}
-----------------------------------------------------------------------------
(* The client *)

(* addThread starts threads up to the limit and counts each as idle,       *)
(* behind its start.                                                       *)
AddThread ==
  /\ cpc = "addThread"
  /\ IF Cardinality(Pool) < MaxNum /\ Cardinality(Pool) < Size
     THEN /\ tpc' = [tpc EXCEPT ![Cardinality(Pool) + 1] = "lock"]
          /\ cpc' = "addIdle"
     ELSE cpc' = "commit" /\ UNCHANGED tpc
  /\ UNCHANGED <<watch, next, tasks, run, idl, lock, task, started, count>>

AddIdle ==
  /\ cpc = "addIdle" /\ lock = NULL
  /\ idl' = idl + 1
  /\ cpc' = "addThread"
  /\ UNCHANGED <<watch, next, tasks, run, lock, tpc, task, started, count>>

(* The threads asleep on _task_cv. *)
Asleep == {t \in Threads : tpc[t] = "asleep"}

(* commit: the task is queued under the lock. *)
Commit ==
  /\ cpc = "commit" /\ next <= NTasks
  /\ lock = NULL
  /\ tasks' = Append(tasks, next)
  /\ next' = next + 1
  /\ cpc' = "notify_one"
  /\ UNCHANGED <<watch, run, idl, lock, tpc, task, started, count>>

(* Which sleepers notify_one may wake.                                     *)
(* Fault: none.                                                            *)
Notified_Never == {{}}
Notified == IF Asleep = {} THEN {{}} ELSE {{t} : t \in Asleep}

NotifyOne ==
  /\ cpc = "notify_one"
  /\ \E T \in Notified :
       tpc' = [t \in Threads |-> IF t \in T THEN "lock" ELSE tpc[t]]
  /\ cpc' = "commit"
  /\ UNCHANGED <<watch, next, tasks, run, idl, lock, task, started, count>>

(* A client that shows its progress goes on once every task was run; a     *)
(* silent one goes on at once.                                             *)
Committed ==
  /\ cpc = "commit" /\ next > NTasks
  /\ watch => count >= NTasks
  /\ cpc' = "stop"
  /\ UNCHANGED <<watch, next, tasks, run, idl, lock, tpc, task, started, count>>

(* ~threadpool *)
ClearRun ==
  /\ cpc = "stop"
  /\ run' = FALSE
  /\ cpc' = "notify_all"
  /\ UNCHANGED <<watch, next, tasks, idl, lock, tpc, task, started, count>>

(* Which sleepers notify_all wakes.                                        *)
(* Fault: notify_one.                                                      *)
NotifiedAll_One == Notified
NotifiedAll == {Asleep}

NotifyAll ==
  /\ cpc = "notify_all"
  /\ \E T \in NotifiedAll :
       tpc' = [t \in Threads |-> IF t \in T THEN "lock" ELSE tpc[t]]
  /\ cpc' = "join"
  /\ UNCHANGED <<watch, next, tasks, run, idl, lock, task, started, count>>

Join ==
  /\ cpc = "join"
  /\ \A t \in Pool : tpc[t] = "returned"
  /\ cpc' = "destroyed"
  /\ UNCHANGED <<watch, next, tasks, run, idl, lock, tpc, task, started, count>>
-----------------------------------------------------------------------------
(* A thread of the pool *)

(* Whether a thread that found the predicate true returns.                 *)
(* Fault: it returns although tasks are queued.                            *)
MayReturn_Eager == ~run
MayReturn == ~run /\ tasks = << >>

(* The lock is taken and the predicate tested.  If it holds, the thread    *)
(* returns or takes the first task, before it lets the lock go.            *)
TestAndTake(t) ==
  /\ tpc[t] = "lock" /\ lock = NULL
  /\ ~run \/ tasks # << >>
  /\ \/ /\ MayReturn
        /\ tpc' = [tpc EXCEPT ![t] = "returned"]
        /\ UNCHANGED <<tasks, idl, task, started>>
     \/ /\ ~MayReturn
        /\ idl' = idl - 1
        /\ task' = [task EXCEPT ![t] = Head(tasks)]
        /\ started' = Append(started, Head(tasks))
        /\ tasks' = Tail(tasks)
        /\ tpc' = [tpc EXCEPT ![t] = "run"]
  /\ UNCHANGED <<watch, cpc, next, run, lock, count>>

(* If it does not hold the thread is about to sleep, with the lock held. *)
TestFails(t) ==
  /\ tpc[t] = "lock" /\ lock = NULL
  /\ run /\ tasks = << >>
  /\ lock' = t
  /\ tpc' = [tpc EXCEPT ![t] = "tested"]
  /\ UNCHANGED <<watch, cpc, next, tasks, run, idl, task, started, count>>

Sleep(t) ==
  /\ tpc[t] = "tested"
  /\ lock' = NULL
  /\ tpc' = [tpc EXCEPT ![t] = "asleep"]
  /\ UNCHANGED <<watch, cpc, next, tasks, run, idl, task, started, count>>

SpuriousWake(t) ==
  /\ Spurious
  /\ tpc[t] = "asleep"
  /\ tpc' = [tpc EXCEPT ![t] = "lock"]
  /\ UNCHANGED <<watch, cpc, next, tasks, run, idl, lock, task, started, count>>

(* The task runs without the lock and counts itself. *)
RunTask(t) ==
  /\ tpc[t] = "run"
  /\ count' = count + 1
  /\ task' = [task EXCEPT ![t] = NULL]
  /\ tpc' = [tpc EXCEPT ![t] = "ran"]
  /\ UNCHANGED <<watch, cpc, next, tasks, run, idl, lock, started>>

IdleAgain(t) ==
  /\ tpc[t] = "ran" /\ lock = NULL
  /\ idl' = idl + 1
  /\ tpc' = [tpc EXCEPT ![t] = "lock"]
  /\ UNCHANGED <<watch, cpc, next, tasks, run, lock, task, started, count>>
-----------------------------------------------------------------------------
Client == \/ AddThread \/ AddIdle \/ Commit \/ NotifyOne \/ Committed
          \/ ClearRun \/ NotifyAll \/ Join
Thread(t) == \/ TestAndTake(t) \/ TestFails(t) \/ Sleep(t) \/ RunTask(t)
             \/ IdleAgain(t)

Next == Client \/ \E t \in Threads : Thread(t) \/ SpuriousWake(t)

(* Every thread that can run is scheduled, and a thread that wants _lock   *)
(* time and again when it is free gets it.                                 *)
Spec == /\ Init /\ [][Next]_vars
        /\ SF_vars(Client)
        /\ \A t \in Threads : SF_vars(Thread(t))
-----------------------------------------------------------------------------
(* The pool is destroyed only once every committed task was started, in    *)
(* the order of the commits, each once, and has finished.                  *)
PoolDrains ==
  /\ started = [k \in 1..Len(started) |-> k]
  /\ cpc = "destroyed" => count = NTasks /\ Len(started) = NTasks

(* Every task is run, whether its notification met a sleeper or not    *)
(* and also when the pool is being destroyed.                              *)
TasksRun == <>(count = NTasks)

(* A thread has tested its predicate and does not sleep yet, while _run  *)
(* was cleared and the notification sent: it will sleep, with nobody to    *)
(* wake it.                                                                *)
Missed == cpc = "join" /\ \E t \in Threads : tpc[t] = "tested"

(* "Wait for the tasks to end; premise: the threads are sure to finish":   *)
(* every thread that the destructor joins comes to its end, whether it     *)
(* slept, ran a task or was on its way to the lock when the pool was       *)
(* stopped, and the join returns.  The exception is a thread that missed   *)
(* the stop, which the destructor signals without the lock.                *)
JoinReturns == <>(cpc = "destroyed" \/ Missed)

(* What the client waits for comes about: its tasks are run, and the       *)
(* destructor returns but for a missed stop.                               *)
PoolEnds == TasksRun /\ JoinReturns
=============================================================================
