------------------------------ MODULE Executor ------------------------------
(***************************************************************************)
(* What a bounded work queue promises its callers, with no threads         *)
(* sleeping, no linked list and no shutdown flag: works are started in the *)
(* order they were submitted, at most MaxJobs of them wait at a time, each *)
(* submission is started once, and the executor is released only when      *)
(* nothing is left to start or to finish.  WorkQueue implements it.        *)
(***************************************************************************)
EXTENDS Naturals, Sequences

CONSTANTS Workers,  \* the threads that execute works
          Works,    \* the works that may be submitted
          MaxJobs,  \* how many submitted works may wait to be started
          NULL      \* no work

VARIABLES pending,  \* the works submitted and not yet started, oldest first
          running,  \* the work each worker executes, or NULL
          state     \* "open" to submissions, then "closed", then "released"

vars == <<pending, running, state>>

Init == /\ pending = << >>
        /\ running = [w \in Workers |-> NULL]
        /\ state = "open"

(* A caller hands in a work that is neither waiting nor being executed. *)
Submit(x) ==
  /\ state = "open"
  /\ Len(pending) < MaxJobs
  /\ \A i \in 1..Len(pending) : pending[i] # x
  /\ \A w \in Workers : running[w] # x
  /\ pending' = Append(pending, x)
  /\ UNCHANGED <<running, state>>

(* A free worker starts the oldest work. *)
Start(w) ==
  /\ running[w] = NULL
  /\ pending # << >>
  /\ running' = [running EXCEPT ![w] = Head(pending)]
  /\ pending' = Tail(pending)
  /\ UNCHANGED state

Finish(w) ==
  /\ running[w] # NULL
  /\ running' = [running EXCEPT ![w] = NULL]
  /\ UNCHANGED <<pending, state>>

Close ==
  /\ state = "open"
  /\ state' = "closed"
  /\ UNCHANGED <<pending, running>>

(* Closing completes only once every submission was started and finished. *)
Release ==
  /\ state = "closed"
  /\ pending = << >>
  /\ \A w \in Workers : running[w] = NULL
  /\ state' = "released"
  /\ UNCHANGED <<pending, running>>

Next ==
  \/ \E x \in Works : Submit(x)
  \/ \E w \in Workers : Start(w)
  \/ \E w \in Workers : Finish(w)
  \/ Close
  \/ Release

Fairness == /\ WF_vars(\E w \in Workers : Start(w))
            /\ \A w \in Workers : WF_vars(Finish(w))
            /\ WF_vars(Release)

SafeSpec == Init /\ [][Next]_vars

Spec == SafeSpec /\ Fairness
=============================================================================
