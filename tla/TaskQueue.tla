------------------------------ MODULE TaskQueue ------------------------------
(***************************************************************************)
(* What a bounded task queue promises its users: the operations of         *)
(* server::ThreadPool as if each took effect at one instant.  ThreadPool   *)
(* implements it (ThreadPool!RefinesTaskQueue); the accept loop of Server  *)
(* relies on nothing else.                                                 *)
(*                                                                         *)
(* Closing may coincide with the last submission or refusal: a call of     *)
(* enqueue() that is past its test of stop_ counts as made before the      *)
(* shutdown it overlaps.                                                   *)
(***************************************************************************)
EXTENDS Naturals, Sequences, FiniteSets

CONSTANTS Tasks, Capacity, MaxRunning

VARIABLES queue,    \* submitted and not started, oldest first
          running,  \* being run
          done,     \* run to their end
          refused,  \* refused
          lost,     \* destroyed unrun with the queue
          closed    \* no submission is accepted any more

vars == <<queue, running, done, refused, lost, closed>>

Content(s) == {s[i] : i \in DOMAIN s}
New == Tasks \ (Content(queue) \cup running \cup done \cup refused \cup Content(lost))

Init ==
    /\ queue = <<>> /\ lost = <<>>
    /\ running = {} /\ done = {} /\ refused = {}
    /\ closed = FALSE

MayClose == closed' \in {closed, TRUE}

Submit(t) ==
    /\ t \in New /\ ~closed /\ Len(queue) < Capacity
    /\ queue' = Append(queue, t)
    /\ MayClose
    /\ UNCHANGED <<running, done, refused, lost>>

\* Only for want of room or after the close.
Refuse(t) ==
    /\ t \in New /\ (closed \/ Len(queue) >= Capacity)
    /\ refused' = refused \cup {t}
    /\ MayClose
    /\ UNCHANGED <<queue, running, done, lost>>

Start ==
    /\ queue # <<>> /\ Cardinality(running) < MaxRunning
    /\ running' = running \cup {Head(queue)}
    /\ queue' = Tail(queue)
    /\ UNCHANGED <<done, refused, lost, closed>>

Finish(t) ==
    /\ t \in running
    /\ running' = running \ {t}
    /\ done' = done \cup {t}
    /\ UNCHANGED <<queue, refused, lost, closed>>

Close ==
    /\ closed' = TRUE
    /\ UNCHANGED <<queue, running, done, refused, lost>>

\* The queue goes away, with nothing left in anybody's hands.
Discard ==
    /\ closed /\ running = {}
    /\ lost' = queue /\ queue' = <<>>
    /\ UNCHANGED <<running, done, refused, closed>>

Next ==
    \/ \E t \in Tasks : Submit(t) \/ Refuse(t) \/ Finish(t)
    \/ Start \/ Close \/ Discard

Spec == Init /\ [][Next]_vars
==============================================================================
