------------------------------ MODULE JobPipe -------------------------------
(***************************************************************************)
(* What the mkfs job ring promises: jobs sent by one thread are handled by *)
(* another, one at a time, in the order they were sent; at most Cap wait;  *)
(* and a flush ends only when everything sent before it was handled, or by *)
(* a stray return of its wait, and which of the two it was is recorded.    *)
(* DfopsRing implements it.                                                *)
(***************************************************************************)
EXTENDS Naturals, Sequences

CONSTANTS Jobs,  \* the jobs that may be sent
          Cap,   \* how many sent jobs may wait
          NULL   \* no job

VARIABLES pending,  \* the jobs sent and not yet taken, oldest first
          busy,     \* the job being handled, or NULL
          flushing, \* whether the sender waits for everything to be handled
          stray     \* whether the last flush was ended by a stray return

vars == <<pending, busy, flushing, stray>>

Init == pending = << >> /\ busy = NULL /\ flushing = FALSE /\ stray = FALSE

Send(j) ==
  /\ ~flushing
  /\ Len(pending) < Cap
  /\ pending' = Append(pending, j)
  /\ UNCHANGED <<busy, flushing, stray>>

Take ==
  /\ busy = NULL
  /\ pending # << >>
  /\ busy' = Head(pending)
  /\ pending' = Tail(pending)
  /\ UNCHANGED <<flushing, stray>>

Finish ==
  /\ busy # NULL
  /\ busy' = NULL
  /\ UNCHANGED <<pending, flushing, stray>>

FlushBegin ==
  /\ ~flushing
  /\ flushing' = TRUE
  /\ stray' = FALSE
  /\ UNCHANGED <<pending, busy>>

FlushEnd ==
  /\ flushing
  /\ pending = << >> /\ busy = NULL
  /\ flushing' = FALSE
  /\ UNCHANGED <<pending, busy, stray>>

StrayEnd ==
  /\ flushing
  /\ flushing' = FALSE
  /\ stray' = TRUE
  /\ UNCHANGED <<pending, busy>>

Next ==
  (\E j \in Jobs : Send(j)) \/ Take \/ Finish \/ FlushBegin \/ FlushEnd \/ StrayEnd

SafeSpec == Init /\ [][Next]_vars
=============================================================================
