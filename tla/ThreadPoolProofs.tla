-------------------------- MODULE ThreadPoolProofs --------------------------
(***************************************************************************)
(* Proofs, for any number of workers, callers and tasks and any queue      *)
(* size, of the safety properties of ThreadPool.                           *)
(***************************************************************************)
EXTENDS ThreadPool, FiniteSetTheorems, SequenceTheorems, TLAPS

-----------------------------------------------------------------------------
(* The inductive invariant                                                 *)

\* mutex_ is held exactly inside the locked scopes.
MutexInv ==
    /\ \A w \in Workers : wpc[w] \in {"locked", "block"} <=> mutex = w
    /\ \A c \in Enqueuers : epc[c] \in {"test", "push"} <=> mutex = c

\* A task in the hands of enqueue() or of a worker is a task, and the one a
\* call is about to push has been neither pushed nor refused.
ArgInv ==
    /\ \A c \in Enqueuers : epc[c] \in {"test", "push"} =>
            arg[c] \in Tasks \ (Elems(accepted) \cup rejected)
    /\ \A w \in Workers : Carrying(w) => held[w] \in Tasks
    /\ \A w \in Workers : wpc[w] = "ran" => held[w] \in done

\* One call of shutdown() goes past the exchange; it requests and joins only
\* after setting stop_; a worker leaves its loop only once stop_ is set.
StopInv ==
    /\ \A s \in Stoppers : spc[s] # "idle" => stop
    /\ \A r, s \in Stoppers :
          /\ spc[r] \in {"notify", "clear", "join", "returned"}
          /\ spc[s] \in {"notify", "clear", "join", "returned"}
          => r = s
    /\ \A s \in Stoppers : spc[s] = "join" => joining \in Workers
    /\ \A s \in Stoppers : spc[s] = "returned" => joined = Workers
    /\ \A w \in joined : wpc[w] = "exited"
    /\ \A w \in Workers : stoken[w] \/ wpc[w] = "exited" => stop

\* The destructor runs when every worker is gone and no call is in progress.
AliveInv ==
    /\ alive => dropped = <<>>
    /\ ~alive => /\ tasks = <<>>
                 /\ \A w \in Workers : wpc[w] = "exited"
                 /\ \A c \in Enqueuers : epc[c] = "idle"

\* A call that pushed after stop_ was set was the last one past its test.
LateInv == late # {} => stop /\ \A c \in Enqueuers : epc[c] # "push"

\* A worker about to block holds mutex_, so the queue is still empty.
BlockInv == \A w \in Workers : wpc[w] = "block" => tasks = <<>>

IInv ==
    /\ TypeOK /\ MutexInv /\ ArgInv /\ StopInv /\ AliveInv /\ LateInv /\ BlockInv
    /\ QueueBounded /\ FifoExactlyOnce /\ StartedAccountedFor /\ ActiveCountExact
    /\ NoLostWakeup /\ AtMostOneLateAccept /\ AtMostOneMissesShutdown

-----------------------------------------------------------------------------
(* Facts about the sequences of tasks                                      *)

\* Pushing a task adds it, and only it, to the elements of a queue.
LEMMA ElemsAppend ==
  ASSUME NEW S, NEW q \in Seq(S), NEW e \in S
  PROVE  Elems(Append(q, e)) = Elems(q) \cup {e}
<1>1. /\ DOMAIN Append(q, e) = 1..(Len(q) + 1)
      /\ DOMAIN q = 1..Len(q)
      /\ Len(q) \in Nat
  BY AppendProperties, LenProperties
<1>2. /\ \A i \in 1..Len(q) : Append(q, e)[i] = q[i]
      /\ Append(q, e)[Len(q) + 1] = e
  BY AppendProperties
<1> QED
  BY <1>1, <1>2 DEF Elems

\* A task pushed at the end of the queue is the last of the whole history.
LEMMA PushHistory ==
  ASSUME NEW S, NEW p \in Seq(S), NEW q \in Seq(S), NEW e \in S
  PROVE  p \o Append(q, e) \o <<>> = Append(p \o q \o <<>>, e)
<1>1. p \o q \in Seq(S) /\ p \o Append(q, e) \in Seq(S) /\ <<e>> \in Seq(S)
  BY ConcatProperties, AppendProperties
<1>2. p \o Append(q, e) \o <<>> = p \o (q \o <<e>>)
  BY <1>1, ConcatEmptySeq, AppendIsConcat
<1>3. Append(p \o q \o <<>>, e) = (p \o q) \o <<e>>
  BY <1>1, ConcatEmptySeq, AppendIsConcat
<1> QED
  BY <1>1, <1>2, <1>3, ConcatAssociative

\* Moving the head of the queue to the end of what was popped before it
\* leaves the history as it was.
LEMMA PopHistory ==
  ASSUME NEW S, NEW p \in Seq(S), NEW q \in Seq(S), NEW r \in Seq(S), q # <<>>
  PROVE  Append(p, Head(q)) \o Tail(q) \o r = p \o q \o r
<1>1. Head(q) \in S /\ Tail(q) \in Seq(S) /\ <<Head(q)>> \in Seq(S)
  BY HeadTailProperties
<1>2. q = <<Head(q)>> \o Tail(q)
  OBVIOUS
<1>3. Append(p, Head(q)) \o Tail(q) = (p \o <<Head(q)>>) \o Tail(q)
  BY <1>1, AppendIsConcat
<1>4. (p \o <<Head(q)>>) \o Tail(q) = p \o (<<Head(q)>> \o Tail(q))
  BY <1>1, ConcatAssociative
<1> QED
  BY <1>2, <1>3, <1>4

\* No task occurs twice in a sequence.
Distinct(q) == \A i, j \in DOMAIN q : q[i] = q[j] => i = j

\* The elements of the history are those of its three parts, and no two parts
\* have one in common when none occurs twice.
LEMMA HistoryParts ==
  ASSUME NEW S, NEW p \in Seq(S), NEW q \in Seq(S), NEW r \in Seq(S)
  PROVE  /\ Elems(p \o q \o r) = Elems(p) \cup Elems(q) \cup Elems(r)
         /\ Distinct(p \o q \o r) => /\ Elems(p) \cap Elems(q) = {}
                                     /\ Elems(p) \cap Elems(r) = {}
                                     /\ Elems(q) \cap Elems(r) = {}
<1> DEFINE h == p \o q \o r
<1>1. /\ Len(p) \in Nat /\ Len(q) \in Nat /\ Len(r) \in Nat
      /\ DOMAIN p = 1..Len(p) /\ DOMAIN q = 1..Len(q) /\ DOMAIN r = 1..Len(r)
  BY LenProperties
<1>2. /\ p \o q \in Seq(S) /\ Len(p \o q) = Len(p) + Len(q)
      /\ \A i \in 1..Len(p) : (p \o q)[i] = p[i]
      /\ \A i \in 1..Len(q) : (p \o q)[Len(p) + i] = q[i]
  BY <1>1, ConcatProperties
<1>3. /\ DOMAIN h = 1..(Len(p) + Len(q) + Len(r))
      /\ \A i \in 1..(Len(p) + Len(q)) : h[i] = (p \o q)[i]
      /\ \A i \in 1..Len(r) : h[Len(p) + Len(q) + i] = r[i]
  BY <1>1, <1>2, ConcatProperties, LenProperties
<1> HIDE DEF h
<1>4. ASSUME NEW i \in 1..Len(p) PROVE i \in DOMAIN h /\ h[i] = p[i]
  <2>1. i \in 1..(Len(p) + Len(q))
    BY <1>1
  <2> QED
    BY <1>1, <1>2, <1>3, <2>1
<1>5. ASSUME NEW i \in 1..Len(q) PROVE Len(p) + i \in DOMAIN h /\ h[Len(p) + i] = q[i]
  <2>1. Len(p) + i \in 1..(Len(p) + Len(q)) /\ Len(p) + i \in 1..(Len(p) + Len(q) + Len(r))
    BY <1>1
  <2>2. h[Len(p) + i] = (p \o q)[Len(p) + i]
    BY <1>3, <2>1
  <2>3. (p \o q)[Len(p) + i] = q[i]
    BY <1>2
  <2> QED
    BY <1>3, <2>1, <2>2, <2>3
<1>6. ASSUME NEW i \in 1..Len(r)
      PROVE  Len(p) + Len(q) + i \in DOMAIN h /\ h[Len(p) + Len(q) + i] = r[i]
  BY <1>1, <1>3
<1>7. ASSUME NEW k \in DOMAIN h
      PROVE  \/ \E i \in 1..Len(p) : h[k] = p[i]
             \/ \E i \in 1..Len(q) : h[k] = q[i]
             \/ \E i \in 1..Len(r) : h[k] = r[i]
  <2>1. CASE k \in 1..Len(p)
    BY <1>4, <2>1
  <2>2. CASE k - Len(p) \in 1..Len(q)
    BY <1>1, <1>3, <1>5, <2>2
  <2>3. CASE k - Len(p) - Len(q) \in 1..Len(r)
    BY <1>1, <1>3, <1>6, <2>3
  <2> QED
    BY <1>1, <1>3, <2>1, <2>2, <2>3
<1>8. Elems(h) = Elems(p) \cup Elems(q) \cup Elems(r)
  <2>1. Elems(h) \subseteq Elems(p) \cup Elems(q) \cup Elems(r)
    BY <1>1, <1>7 DEF Elems
  <2>2. Elems(p) \subseteq Elems(h) /\ Elems(q) \subseteq Elems(h) /\ Elems(r) \subseteq Elems(h)
    BY <1>1, <1>4, <1>5, <1>6 DEF Elems
  <2> QED
    BY <2>1, <2>2
<1>9. ASSUME Distinct(h)
      PROVE  /\ Elems(p) \cap Elems(q) = {}
             /\ Elems(p) \cap Elems(r) = {}
             /\ Elems(q) \cap Elems(r) = {}
  <2>1. ASSUME NEW i \in 1..Len(p), NEW j \in 1..Len(q), p[i] = q[j] PROVE FALSE
    BY <1>1, <1>4, <1>5, <1>9, <2>1 DEF Distinct
  <2>2. ASSUME NEW i \in 1..Len(p), NEW j \in 1..Len(r), p[i] = r[j] PROVE FALSE
    BY <1>1, <1>4, <1>6, <1>9, <2>2 DEF Distinct
  <2>3. ASSUME NEW i \in 1..Len(q), NEW j \in 1..Len(r), q[i] = r[j] PROVE FALSE
    BY <1>1, <1>5, <1>6, <1>9, <2>3 DEF Distinct
  <2> QED
    BY <1>1, <2>1, <2>2, <2>3 DEF Elems
<1> QED
  BY <1>8, <1>9 DEF h

\* The head of the queue is not among what was popped before, as no task
\* occurs twice in the history.
LEMMA PoppedIsNew ==
  ASSUME NEW S, NEW p \in Seq(S), NEW q \in Seq(S), NEW r \in Seq(S), q # <<>>,
         Distinct(p \o q \o r)
  PROVE  Head(q) \notin Elems(p)
<1>1. 1 \in DOMAIN q /\ Head(q) = q[1]
  BY LenProperties, EmptySeq
<1>2. Head(q) \in Elems(q)
  BY <1>1 DEF Elems
<1> QED
  BY <1>2, HistoryParts

\* active_count_ counts the workers between its increment and its decrement.
Busy == {w \in Workers : wpc[w] \in {"running", "ran"}}

\* There are finitely many workers, so active_count_ counts a finite set.
LEMMA BusyFinite == IsFiniteSet(Busy) /\ Cardinality(Busy) \in Nat
<1>1. Busy \subseteq Workers
  BY DEF Busy
<1> QED
  BY <1>1, PoolAssumption, FS_Subset, FS_CardinalityType

\* Types are preserved by every step of enqueue(), worker_loop() and shutdown();
\* active_count_-- needs ActiveCountExact, pushes and runs need ArgInv.
LEMMA TypeStep == IInv /\ [Next]_vars => TypeOK'
<1> SUFFICES ASSUME IInv, [Next]_vars PROVE TypeOK'
  OBVIOUS
<1> USE PoolAssumption DEF TypeOK, EnqueuePC, WorkerPC, ShutdownPC,
           WorkerGoto, queueVars, workerVars, enqueueVars, stopVars
<1>0. TypeOK /\ ArgInv /\ StopInv /\ ActiveCountExact
  BY DEF IInv
<1>1. CASE UNCHANGED vars
  BY <1>0, <1>1 DEF vars
<1>2. ASSUME NEW c \in Enqueuers, NEW t \in Tasks, EnqueueLock(c, t) PROVE TypeOK'
  BY <1>0, <1>2 DEF EnqueueLock
<1>3. ASSUME NEW c \in Enqueuers, EnqueueTestStop(c) \/ EnqueueFull(c) PROVE TypeOK'
  <2>1. epc[c] \in {"test", "push"}
    BY <1>3 DEF EnqueueTestStop, EnqueueFull
  <2>2. CASE EnqueueReturnsFalse(c)
    BY <1>0, <2>1, <2>2 DEF EnqueueReturnsFalse, ArgInv
  <2>3. CASE ~EnqueueReturnsFalse(c)
    <3>1. /\ epc' = [epc EXCEPT ![c] = "push"]
          /\ UNCHANGED <<arg, rejected, queueVars, workerVars, stopVars>>
      BY <1>3, <2>3 DEF EnqueueTestStop, EnqueueFull
    <3> QED
      BY <1>0, <3>1
  <2> QED
    BY <2>2, <2>3
<1>4. ASSUME NEW c \in Enqueuers, EnqueuePush(c) PROVE TypeOK'
  BY <1>0, <1>4 DEF EnqueuePush, HasRoom, ArgInv
<1>5. ASSUME NEW c \in Enqueuers, EnqueueNotifyOne(c) PROVE TypeOK'
  BY <1>0, <1>5 DEF EnqueueNotifyOne, WakeOne, Waiting
<1>6. ASSUME NEW w \in Workers, WorkerLock(w) \/ SpuriousWake(w) PROVE TypeOK'
  BY <1>0, <1>6 DEF WorkerLock, SpuriousWake
<1>7. ASSUME NEW w \in Workers, WorkerTestToken(w) PROVE TypeOK'
  BY <1>0, <1>7 DEF WorkerTestToken
<1>8. ASSUME NEW w \in Workers, WorkerPredicateFalse(w) \/ WorkerBlock(w)
      PROVE  TypeOK'
  BY <1>0, <1>8 DEF WorkerPredicateFalse, WorkerBlock
<1>9. ASSUME NEW w \in Workers, WorkerReturn(w) PROVE TypeOK'
  BY <1>0, <1>9 DEF WorkerReturn
<1>10. ASSUME NEW w \in Workers, WorkerPop(w) PROVE TypeOK'
  BY <1>0, <1>10 DEF WorkerPop, AfterPop
<1>11. ASSUME NEW w \in Workers, WorkerCountUp(w) PROVE TypeOK'
  BY <1>0, <1>11 DEF WorkerCountUp
<1>12. ASSUME NEW w \in Workers, WorkerRunTask(w) PROVE TypeOK'
  BY <1>0, <1>12 DEF WorkerRunTask, ArgInv, Carrying
<1>13. ASSUME NEW w \in Workers, WorkerCountDown(w) PROVE TypeOK'
  <2>1. active = Cardinality(Busy) /\ w \in Busy
    BY <1>0, <1>13 DEF ActiveCountExact, Busy, WorkerCountDown
  <2>2. active - 1 \in Nat
    BY <2>1, BusyFinite, FS_EmptySet
  <2> QED
    BY <1>0, <1>13, <2>2 DEF WorkerCountDown, WorkerGoto
<1>14. ASSUME NEW s \in Stoppers, ShutdownExchange(s) PROVE TypeOK'
  BY <1>0, <1>14 DEF ShutdownExchange
<1>15. ASSUME NEW s \in Stoppers, ShutdownNotifyAll(s) PROVE TypeOK'
  BY <1>0, <1>15 DEF ShutdownNotifyAll, Waiting
<1>16. ASSUME NEW s \in Stoppers, NEW w \in Workers, ShutdownRequestStop(s, w)
      PROVE  TypeOK'
  BY <1>0, <1>16 DEF ShutdownRequestStop
<1>17. ASSUME NEW s \in Stoppers, ShutdownJoin(s) PROVE TypeOK'
  BY <1>0, <1>17 DEF ShutdownJoin, WorkerGone, StopInv
<1>18. CASE Destroy
  <2>1. alive' \in BOOLEAN
    BY <1>18, Zenon DEF Destroy
  <2> QED
    BY <1>0, <1>18, <2>1 DEF Destroy
<1> QED
  BY <1>1, <1>2, <1>3, <1>4, <1>5, <1>6, <1>7, <1>8, <1>9, <1>10,
     <1>11, <1>12, <1>13, <1>14, <1>15, <1>16, <1>17, <1>18
     DEF Next, Enqueue, WorkerStep, Shutdown

\* Lock and unlock points of enqueue() and worker_loop() keep mutex_ and the
\* program counters in step.
LEMMA MutexStep == IInv /\ [Next]_vars => MutexInv'
<1> SUFFICES ASSUME IInv, [Next]_vars PROVE MutexInv'
  OBVIOUS
<1> USE PoolAssumption DEF TypeOK, MutexInv,
           WorkerGoto, queueVars, workerVars, enqueueVars, stopVars
<1>0. TypeOK /\ MutexInv
  BY DEF IInv
<1>1. CASE UNCHANGED vars
  BY <1>0, <1>1 DEF vars
<1>2. ASSUME NEW c \in Enqueuers, NEW t \in Tasks, EnqueueLock(c, t) PROVE MutexInv'
  BY <1>0, <1>2 DEF EnqueueLock
<1>3. ASSUME NEW c \in Enqueuers, EnqueueTestStop(c) PROVE MutexInv'
  BY <1>0, <1>3 DEF EnqueueTestStop, EnqueueReturnsFalse
<1>4. ASSUME NEW c \in Enqueuers, EnqueueFull(c) PROVE MutexInv'
  BY <1>0, <1>4 DEF EnqueueFull, HasRoom, EnqueueReturnsFalse
<1>5. ASSUME NEW c \in Enqueuers, EnqueuePush(c) PROVE MutexInv'
  BY <1>0, <1>5 DEF EnqueuePush, HasRoom
<1>6. ASSUME NEW c \in Enqueuers, EnqueueNotifyOne(c) PROVE MutexInv'
  BY <1>0, <1>6 DEF EnqueueNotifyOne, WakeOne, Waiting
<1>7. ASSUME NEW w \in Workers, WorkerLock(w) PROVE MutexInv'
  BY <1>0, <1>7 DEF WorkerLock
<1>8. ASSUME NEW w \in Workers, SpuriousWake(w) PROVE MutexInv'
  BY <1>0, <1>8 DEF SpuriousWake
<1>9. ASSUME NEW w \in Workers, WorkerTestToken(w) PROVE MutexInv'
  BY <1>0, <1>9 DEF WorkerTestToken
<1>10. ASSUME NEW w \in Workers, WorkerPredicateFalse(w) PROVE MutexInv'
  BY <1>0, <1>10 DEF WorkerPredicateFalse
<1>11. ASSUME NEW w \in Workers, WorkerBlock(w) PROVE MutexInv'
  BY <1>0, <1>11 DEF WorkerBlock
<1>12. ASSUME NEW w \in Workers, WorkerReturn(w) PROVE MutexInv'
  BY <1>0, <1>12 DEF WorkerReturn
<1>13. ASSUME NEW w \in Workers, WorkerPop(w) PROVE MutexInv'
  BY <1>0, <1>13 DEF WorkerPop, AfterPop
<1>14. ASSUME NEW w \in Workers, WorkerCountUp(w) PROVE MutexInv'
  BY <1>0, <1>14 DEF WorkerCountUp
<1>15. ASSUME NEW w \in Workers, WorkerRunTask(w) PROVE MutexInv'
  BY <1>0, <1>15 DEF WorkerRunTask
<1>16. ASSUME NEW w \in Workers, WorkerCountDown(w) PROVE MutexInv'
  BY <1>0, <1>16 DEF WorkerCountDown
<1>17. ASSUME NEW s \in Stoppers, ShutdownExchange(s) PROVE MutexInv'
  BY <1>0, <1>17 DEF ShutdownExchange
<1>18. ASSUME NEW s \in Stoppers, ShutdownNotifyAll(s) PROVE MutexInv'
  BY <1>0, <1>18 DEF ShutdownNotifyAll, Waiting
<1>19. ASSUME NEW s \in Stoppers, NEW w \in Workers, ShutdownRequestStop(s, w)
      PROVE  MutexInv'
  BY <1>0, <1>19 DEF ShutdownRequestStop
<1>20. ASSUME NEW s \in Stoppers, ShutdownJoin(s) PROVE MutexInv'
  BY <1>0, <1>20 DEF ShutdownJoin, WorkerGone
<1>21. CASE Destroy
  BY <1>0, <1>21 DEF Destroy
<1> QED
  BY <1>1, <1>2, <1>3, <1>4, <1>5, <1>6, <1>7, <1>8, <1>9, <1>10,
     <1>11, <1>12, <1>13, <1>14, <1>15, <1>16, <1>17, <1>18, <1>19, <1>20, <1>21
     DEF Next, Enqueue, WorkerStep, Shutdown

\* A call holds a task nobody has seen: the mutex keeps a second call from
\* pushing or refusing between its test and its push.
LEMMA ArgStep == IInv /\ [Next]_vars => ArgInv'
<1> SUFFICES ASSUME IInv, [Next]_vars PROVE ArgInv'
  OBVIOUS
<1> USE PoolAssumption DEF TypeOK, MutexInv, ArgInv, Carrying,
           WorkerGoto, queueVars, workerVars, enqueueVars, stopVars
<1>0. TypeOK /\ MutexInv /\ ArgInv
  BY DEF IInv
<1>1. CASE UNCHANGED vars
  BY <1>0, <1>1 DEF vars
<1>2. ASSUME NEW c \in Enqueuers, NEW t \in Tasks, EnqueueLock(c, t) PROVE ArgInv'
  BY <1>0, <1>2 DEF EnqueueLock, Fresh
<1>3. ASSUME NEW c \in Enqueuers, EnqueueTestStop(c) \/ EnqueueFull(c) PROVE ArgInv'
  BY <1>0, <1>3 DEF EnqueueTestStop, EnqueueFull, HasRoom, EnqueueReturnsFalse
<1>4. ASSUME NEW c \in Enqueuers, EnqueuePush(c) PROVE ArgInv'
  <2>1. Elems(accepted') = Elems(accepted) \cup {arg[c]}
    BY <1>0, <1>4, ElemsAppend DEF EnqueuePush, HasRoom
  <2> QED
    BY <1>0, <1>4, <2>1 DEF EnqueuePush, HasRoom
<1>5. ASSUME NEW c \in Enqueuers, EnqueueNotifyOne(c) PROVE ArgInv'
  BY <1>0, <1>5 DEF EnqueueNotifyOne, WakeOne, Waiting
<1>6. ASSUME NEW w \in Workers, WorkerLock(w) \/ SpuriousWake(w) PROVE ArgInv'
  BY <1>0, <1>6 DEF WorkerLock, SpuriousWake
<1>7. ASSUME NEW w \in Workers, WorkerTestToken(w) PROVE ArgInv'
  BY <1>0, <1>7 DEF WorkerTestToken
<1>8. ASSUME NEW w \in Workers, WorkerPredicateFalse(w) \/ WorkerBlock(w)
      PROVE  ArgInv'
  BY <1>0, <1>8 DEF WorkerPredicateFalse, WorkerBlock
<1>9. ASSUME NEW w \in Workers, WorkerReturn(w) PROVE ArgInv'
  BY <1>0, <1>9 DEF WorkerReturn
<1>10. ASSUME NEW w \in Workers, WorkerPop(w) PROVE ArgInv'
  BY <1>0, <1>10 DEF WorkerPop, AfterPop
<1>11. ASSUME NEW w \in Workers, WorkerCountUp(w) PROVE ArgInv'
  BY <1>0, <1>11 DEF WorkerCountUp
<1>12. ASSUME NEW w \in Workers, WorkerRunTask(w) PROVE ArgInv'
  BY <1>0, <1>12 DEF WorkerRunTask
<1>13. ASSUME NEW w \in Workers, WorkerCountDown(w) PROVE ArgInv'
  BY <1>0, <1>13 DEF WorkerCountDown
<1>14. ASSUME NEW s \in Stoppers, ShutdownExchange(s) PROVE ArgInv'
  BY <1>0, <1>14 DEF ShutdownExchange
<1>15. ASSUME NEW s \in Stoppers, ShutdownNotifyAll(s) PROVE ArgInv'
  BY <1>0, <1>15 DEF ShutdownNotifyAll, Waiting
<1>16. ASSUME NEW s \in Stoppers, NEW w \in Workers, ShutdownRequestStop(s, w)
      PROVE  ArgInv'
  BY <1>0, <1>16 DEF ShutdownRequestStop
<1>17. ASSUME NEW s \in Stoppers, ShutdownJoin(s) PROVE ArgInv'
  BY <1>0, <1>17 DEF ShutdownJoin, WorkerGone
<1>18. CASE Destroy
  BY <1>0, <1>18 DEF Destroy
<1> QED
  BY <1>1, <1>2, <1>3, <1>4, <1>5, <1>6, <1>7, <1>8, <1>9, <1>10,
     <1>11, <1>12, <1>13, <1>14, <1>15, <1>16, <1>17, <1>18
     DEF Next, Enqueue, WorkerStep, Shutdown

\* exchange(true) lets one caller through; jthreads are joined once exited.
LEMMA StopInvStep == IInv /\ [Next]_vars => StopInv'
<1> SUFFICES ASSUME IInv, [Next]_vars PROVE StopInv'
  OBVIOUS
<1> USE PoolAssumption DEF TypeOK, StopInv,
           WorkerGoto, queueVars, workerVars, enqueueVars, stopVars
<1>0. TypeOK /\ StopInv
  BY DEF IInv
<1>1. CASE UNCHANGED vars
  BY <1>0, <1>1 DEF vars
<1>2. ASSUME NEW c \in Enqueuers, NEW t \in Tasks, EnqueueLock(c, t) PROVE StopInv'
  BY <1>0, <1>2 DEF EnqueueLock
<1>3. ASSUME NEW c \in Enqueuers, EnqueueTestStop(c) \/ EnqueueFull(c)
      PROVE  StopInv'
  BY <1>0, <1>3 DEF EnqueueTestStop, EnqueueFull, HasRoom, EnqueueReturnsFalse
<1>4. ASSUME NEW c \in Enqueuers, EnqueuePush(c) PROVE StopInv'
  BY <1>0, <1>4 DEF EnqueuePush, HasRoom
<1>5. ASSUME NEW c \in Enqueuers, EnqueueNotifyOne(c) PROVE StopInv'
  BY <1>0, <1>5 DEF EnqueueNotifyOne, WakeOne, Waiting
<1>6. ASSUME NEW w \in Workers, WorkerLock(w) \/ SpuriousWake(w) PROVE StopInv'
  BY <1>0, <1>6 DEF WorkerLock, SpuriousWake
<1>7. ASSUME NEW w \in Workers, WorkerTestToken(w) PROVE StopInv'
  BY <1>0, <1>7 DEF WorkerTestToken
<1>8. ASSUME NEW w \in Workers, WorkerPredicateFalse(w) \/ WorkerBlock(w)
      PROVE  StopInv'
  BY <1>0, <1>8 DEF WorkerPredicateFalse, WorkerBlock
<1>9. ASSUME NEW w \in Workers, WorkerReturn(w) PROVE StopInv'
  BY <1>0, <1>9 DEF WorkerReturn
<1>10. ASSUME NEW w \in Workers, WorkerPop(w) PROVE StopInv'
  BY <1>0, <1>10 DEF WorkerPop, AfterPop
<1>11. ASSUME NEW w \in Workers, WorkerCountUp(w) PROVE StopInv'
  BY <1>0, <1>11 DEF WorkerCountUp
<1>12. ASSUME NEW w \in Workers, WorkerRunTask(w) PROVE StopInv'
  BY <1>0, <1>12 DEF WorkerRunTask
<1>13. ASSUME NEW w \in Workers, WorkerCountDown(w) PROVE StopInv'
  BY <1>0, <1>13 DEF WorkerCountDown
<1>14. ASSUME NEW s \in Stoppers, ShutdownExchange(s) PROVE StopInv'
  BY <1>0, <1>14 DEF ShutdownExchange
<1>15. ASSUME NEW s \in Stoppers, ShutdownNotifyAll(s) PROVE StopInv'
  BY <1>0, <1>15 DEF ShutdownNotifyAll, Waiting
<1>16. ASSUME NEW s \in Stoppers, NEW w \in Workers, ShutdownRequestStop(s, w)
      PROVE  StopInv'
  BY <1>0, <1>16 DEF ShutdownRequestStop
<1>17. ASSUME NEW s \in Stoppers, ShutdownJoin(s) PROVE StopInv'
  BY <1>0, <1>17 DEF ShutdownJoin, WorkerGone
<1>18. CASE Destroy
  BY <1>0, <1>18 DEF Destroy
<1> QED
  BY <1>1, <1>2, <1>3, <1>4, <1>5, <1>6, <1>7, <1>8, <1>9, <1>10,
     <1>11, <1>12, <1>13, <1>14, <1>15, <1>16, <1>17, <1>18
     DEF Next, Enqueue, WorkerStep, Shutdown

\* ~ThreadPool() drops the queue after the last join, with no call in progress.
LEMMA AliveStep == IInv /\ [Next]_vars => AliveInv'
<1> SUFFICES ASSUME IInv, [Next]_vars PROVE AliveInv'
  OBVIOUS
<1> USE PoolAssumption DEF TypeOK, AliveInv,
           WorkerGoto, queueVars, workerVars, enqueueVars, stopVars
<1>0. TypeOK /\ AliveInv /\ StopInv
  BY DEF IInv
<1>1. CASE UNCHANGED vars
  BY <1>0, <1>1 DEF vars
<1>2. ASSUME NEW c \in Enqueuers, NEW t \in Tasks, EnqueueLock(c, t) PROVE AliveInv'
  BY <1>0, <1>2 DEF EnqueueLock
<1>3. ASSUME NEW c \in Enqueuers, EnqueueTestStop(c) \/ EnqueueFull(c)
      PROVE  AliveInv'
  BY <1>0, <1>3 DEF EnqueueTestStop, EnqueueFull, HasRoom, EnqueueReturnsFalse
<1>4. ASSUME NEW c \in Enqueuers, EnqueuePush(c) PROVE AliveInv'
  BY <1>0, <1>4 DEF EnqueuePush, HasRoom
<1>5. ASSUME NEW c \in Enqueuers, EnqueueNotifyOne(c) PROVE AliveInv'
  BY <1>0, <1>5 DEF EnqueueNotifyOne, WakeOne, Waiting
<1>6. ASSUME NEW w \in Workers, WorkerLock(w) \/ SpuriousWake(w) PROVE AliveInv'
  BY <1>0, <1>6 DEF WorkerLock, SpuriousWake
<1>7. ASSUME NEW w \in Workers, WorkerTestToken(w) PROVE AliveInv'
  BY <1>0, <1>7 DEF WorkerTestToken
<1>8. ASSUME NEW w \in Workers, WorkerPredicateFalse(w) \/ WorkerBlock(w)
      PROVE  AliveInv'
  BY <1>0, <1>8 DEF WorkerPredicateFalse, WorkerBlock
<1>9. ASSUME NEW w \in Workers, WorkerReturn(w) PROVE AliveInv'
  BY <1>0, <1>9 DEF WorkerReturn
<1>10. ASSUME NEW w \in Workers, WorkerPop(w) PROVE AliveInv'
  BY <1>0, <1>10 DEF WorkerPop, AfterPop
<1>11. ASSUME NEW w \in Workers, WorkerCountUp(w) PROVE AliveInv'
  BY <1>0, <1>11 DEF WorkerCountUp
<1>12. ASSUME NEW w \in Workers, WorkerRunTask(w) PROVE AliveInv'
  BY <1>0, <1>12 DEF WorkerRunTask
<1>13. ASSUME NEW w \in Workers, WorkerCountDown(w) PROVE AliveInv'
  BY <1>0, <1>13 DEF WorkerCountDown
<1>14. ASSUME NEW s \in Stoppers, ShutdownExchange(s) PROVE AliveInv'
  BY <1>0, <1>14 DEF ShutdownExchange
<1>15. ASSUME NEW s \in Stoppers, ShutdownNotifyAll(s) PROVE AliveInv'
  BY <1>0, <1>15 DEF ShutdownNotifyAll, Waiting
<1>16. ASSUME NEW s \in Stoppers, NEW w \in Workers, ShutdownRequestStop(s, w)
      PROVE  AliveInv'
  BY <1>0, <1>16 DEF ShutdownRequestStop
<1>17. ASSUME NEW s \in Stoppers, ShutdownJoin(s) PROVE AliveInv'
  BY <1>0, <1>17 DEF ShutdownJoin, WorkerGone
<1>18. CASE Destroy
  BY <1>0, <1>18 DEF Destroy, StopInv
<1> QED
  BY <1>1, <1>2, <1>3, <1>4, <1>5, <1>6, <1>7, <1>8, <1>9, <1>10,
     <1>11, <1>12, <1>13, <1>14, <1>15, <1>16, <1>17, <1>18
     DEF Next, Enqueue, WorkerStep, Shutdown

\* After a late push no call is past its test of stop_, and none gets past it.
LEMMA LateStep == IInv /\ [Next]_vars => LateInv'
<1> SUFFICES ASSUME IInv, [Next]_vars PROVE LateInv'
  OBVIOUS
<1> USE PoolAssumption DEF TypeOK, LateInv, MutexInv,
           WorkerGoto, queueVars, workerVars, enqueueVars, stopVars
<1>0. TypeOK /\ LateInv /\ MutexInv
  BY DEF IInv
<1>1. CASE UNCHANGED vars
  BY <1>0, <1>1 DEF vars
<1>2. ASSUME NEW c \in Enqueuers, NEW t \in Tasks, EnqueueLock(c, t) PROVE LateInv'
  BY <1>0, <1>2 DEF EnqueueLock
<1>3. ASSUME NEW c \in Enqueuers, EnqueueTestStop(c) \/ EnqueueFull(c)
      PROVE  LateInv'
  BY <1>0, <1>3 DEF EnqueueTestStop, EnqueueFull, HasRoom, EnqueueReturnsFalse
<1>4. ASSUME NEW c \in Enqueuers, EnqueuePush(c) PROVE LateInv'
  BY <1>0, <1>4 DEF EnqueuePush, HasRoom
<1>5. ASSUME NEW c \in Enqueuers, EnqueueNotifyOne(c) PROVE LateInv'
  BY <1>0, <1>5 DEF EnqueueNotifyOne, WakeOne, Waiting
<1>6. ASSUME NEW w \in Workers, WorkerLock(w) \/ SpuriousWake(w) PROVE LateInv'
  BY <1>0, <1>6 DEF WorkerLock, SpuriousWake
<1>7. ASSUME NEW w \in Workers, WorkerTestToken(w) PROVE LateInv'
  BY <1>0, <1>7 DEF WorkerTestToken
<1>8. ASSUME NEW w \in Workers, WorkerPredicateFalse(w) \/ WorkerBlock(w)
      PROVE  LateInv'
  BY <1>0, <1>8 DEF WorkerPredicateFalse, WorkerBlock
<1>9. ASSUME NEW w \in Workers, WorkerReturn(w) PROVE LateInv'
  BY <1>0, <1>9 DEF WorkerReturn
<1>10. ASSUME NEW w \in Workers, WorkerPop(w) PROVE LateInv'
  BY <1>0, <1>10 DEF WorkerPop, AfterPop
<1>11. ASSUME NEW w \in Workers, WorkerCountUp(w) PROVE LateInv'
  BY <1>0, <1>11 DEF WorkerCountUp
<1>12. ASSUME NEW w \in Workers, WorkerRunTask(w) PROVE LateInv'
  BY <1>0, <1>12 DEF WorkerRunTask
<1>13. ASSUME NEW w \in Workers, WorkerCountDown(w) PROVE LateInv'
  BY <1>0, <1>13 DEF WorkerCountDown
<1>14. ASSUME NEW s \in Stoppers, ShutdownExchange(s) PROVE LateInv'
  BY <1>0, <1>14 DEF ShutdownExchange
<1>15. ASSUME NEW s \in Stoppers, ShutdownNotifyAll(s) PROVE LateInv'
  BY <1>0, <1>15 DEF ShutdownNotifyAll, Waiting
<1>16. ASSUME NEW s \in Stoppers, NEW w \in Workers, ShutdownRequestStop(s, w)
      PROVE  LateInv'
  BY <1>0, <1>16 DEF ShutdownRequestStop
<1>17. ASSUME NEW s \in Stoppers, ShutdownJoin(s) PROVE LateInv'
  BY <1>0, <1>17 DEF ShutdownJoin, WorkerGone
<1>18. CASE Destroy
  BY <1>0, <1>18 DEF Destroy
<1> QED
  BY <1>1, <1>2, <1>3, <1>4, <1>5, <1>6, <1>7, <1>8, <1>9, <1>10,
     <1>11, <1>12, <1>13, <1>14, <1>15, <1>16, <1>17, <1>18
     DEF Next, Enqueue, WorkerStep, Shutdown

\* Between predicate and blocking the worker holds mutex_: nobody can push.
LEMMA BlockStep == IInv /\ [Next]_vars => BlockInv'
<1> SUFFICES ASSUME IInv, [Next]_vars PROVE BlockInv'
  OBVIOUS
<1> USE PoolAssumption DEF TypeOK, BlockInv, MutexInv,
           WorkerGoto, queueVars, workerVars, enqueueVars, stopVars
<1>0. TypeOK /\ BlockInv /\ MutexInv
  BY DEF IInv
<1>1. CASE UNCHANGED vars
  BY <1>0, <1>1 DEF vars
<1>2. ASSUME NEW c \in Enqueuers, NEW t \in Tasks, EnqueueLock(c, t) PROVE BlockInv'
  BY <1>0, <1>2 DEF EnqueueLock
<1>3. ASSUME NEW c \in Enqueuers, EnqueueTestStop(c) \/ EnqueueFull(c)
      PROVE  BlockInv'
  BY <1>0, <1>3 DEF EnqueueTestStop, EnqueueFull, HasRoom, EnqueueReturnsFalse
<1>4. ASSUME NEW c \in Enqueuers, EnqueuePush(c) PROVE BlockInv'
  BY <1>0, <1>4 DEF EnqueuePush, HasRoom
<1>5. ASSUME NEW c \in Enqueuers, EnqueueNotifyOne(c) PROVE BlockInv'
  BY <1>0, <1>5 DEF EnqueueNotifyOne, WakeOne, Waiting
<1>6. ASSUME NEW w \in Workers, WorkerLock(w) \/ SpuriousWake(w) PROVE BlockInv'
  BY <1>0, <1>6 DEF WorkerLock, SpuriousWake
<1>7. ASSUME NEW w \in Workers, WorkerTestToken(w) PROVE BlockInv'
  BY <1>0, <1>7 DEF WorkerTestToken
<1>8. ASSUME NEW w \in Workers, WorkerPredicateFalse(w) \/ WorkerBlock(w)
      PROVE  BlockInv'
  BY <1>0, <1>8 DEF WorkerPredicateFalse, WorkerBlock
<1>9. ASSUME NEW w \in Workers, WorkerReturn(w) PROVE BlockInv'
  BY <1>0, <1>9 DEF WorkerReturn
<1>10. ASSUME NEW w \in Workers, WorkerPop(w) PROVE BlockInv'
  BY <1>0, <1>10 DEF WorkerPop, AfterPop
<1>11. ASSUME NEW w \in Workers, WorkerCountUp(w) PROVE BlockInv'
  BY <1>0, <1>11 DEF WorkerCountUp
<1>12. ASSUME NEW w \in Workers, WorkerRunTask(w) PROVE BlockInv'
  BY <1>0, <1>12 DEF WorkerRunTask
<1>13. ASSUME NEW w \in Workers, WorkerCountDown(w) PROVE BlockInv'
  BY <1>0, <1>13 DEF WorkerCountDown
<1>14. ASSUME NEW s \in Stoppers, ShutdownExchange(s) PROVE BlockInv'
  BY <1>0, <1>14 DEF ShutdownExchange
<1>15. ASSUME NEW s \in Stoppers, ShutdownNotifyAll(s) PROVE BlockInv'
  BY <1>0, <1>15 DEF ShutdownNotifyAll, Waiting
<1>16. ASSUME NEW s \in Stoppers, NEW w \in Workers, ShutdownRequestStop(s, w)
      PROVE  BlockInv'
  BY <1>0, <1>16 DEF ShutdownRequestStop
<1>17. ASSUME NEW s \in Stoppers, ShutdownJoin(s) PROVE BlockInv'
  BY <1>0, <1>17 DEF ShutdownJoin, WorkerGone
<1>18. CASE Destroy
  BY <1>0, <1>18 DEF Destroy
<1> QED
  BY <1>1, <1>2, <1>3, <1>4, <1>5, <1>6, <1>7, <1>8, <1>9, <1>10,
     <1>11, <1>12, <1>13, <1>14, <1>15, <1>16, <1>17, <1>18
     DEF Next, Enqueue, WorkerStep, Shutdown

\* A push is followed by notify_one(), which wakes a waiter if all sleep; a
\* worker goes to sleep only on an empty queue.
LEMMA NoLostWakeupStep == IInv /\ [Next]_vars => NoLostWakeup'
<1> SUFFICES ASSUME IInv, [Next]_vars PROVE NoLostWakeup'
  OBVIOUS
<1> USE PoolAssumption DEF TypeOK, NoLostWakeup, WorkerPC,
           WorkerGoto, queueVars, workerVars, enqueueVars, stopVars
<1>0. TypeOK /\ NoLostWakeup /\ BlockInv /\ StopInv
  BY DEF IInv
<1>1. CASE UNCHANGED vars
  BY <1>0, <1>1 DEF vars
<1>2. ASSUME NEW c \in Enqueuers, NEW t \in Tasks, EnqueueLock(c, t)
      PROVE  NoLostWakeup'
  BY <1>0, <1>2 DEF EnqueueLock
<1>3. ASSUME NEW c \in Enqueuers, EnqueueTestStop(c) \/ EnqueueFull(c)
      PROVE  NoLostWakeup'
  BY <1>0, <1>3 DEF EnqueueTestStop, EnqueueFull, HasRoom, EnqueueReturnsFalse
<1>4. ASSUME NEW c \in Enqueuers, EnqueuePush(c) PROVE NoLostWakeup'
  BY <1>0, <1>4 DEF EnqueuePush, HasRoom
<1>5. ASSUME NEW c \in Enqueuers, EnqueueNotifyOne(c) PROVE NoLostWakeup'
  BY <1>0, <1>5 DEF EnqueueNotifyOne, WakeOne, Waiting, StopInv
<1>6. ASSUME NEW w \in Workers, WorkerLock(w) \/ SpuriousWake(w) PROVE NoLostWakeup'
  BY <1>0, <1>6 DEF WorkerLock, SpuriousWake
<1>7. ASSUME NEW w \in Workers, WorkerTestToken(w) PROVE NoLostWakeup'
  BY <1>0, <1>7 DEF WorkerTestToken, StopInv
<1>8. ASSUME NEW w \in Workers, WorkerPredicateFalse(w) \/ WorkerBlock(w)
      PROVE  NoLostWakeup'
  BY <1>0, <1>8 DEF WorkerPredicateFalse, WorkerBlock, BlockInv
<1>9. ASSUME NEW w \in Workers, WorkerReturn(w) PROVE NoLostWakeup'
  BY <1>0, <1>9 DEF WorkerReturn
<1>10. ASSUME NEW w \in Workers, WorkerPop(w) PROVE NoLostWakeup'
  BY <1>0, <1>10 DEF WorkerPop, AfterPop
<1>11. ASSUME NEW w \in Workers, WorkerCountUp(w) PROVE NoLostWakeup'
  BY <1>0, <1>11 DEF WorkerCountUp
<1>12. ASSUME NEW w \in Workers, WorkerRunTask(w) PROVE NoLostWakeup'
  BY <1>0, <1>12 DEF WorkerRunTask
<1>13. ASSUME NEW w \in Workers, WorkerCountDown(w) PROVE NoLostWakeup'
  BY <1>0, <1>13 DEF WorkerCountDown
<1>14. ASSUME NEW s \in Stoppers, ShutdownExchange(s) PROVE NoLostWakeup'
  BY <1>0, <1>14 DEF ShutdownExchange
<1>15. ASSUME NEW s \in Stoppers, ShutdownNotifyAll(s) PROVE NoLostWakeup'
  BY <1>0, <1>15 DEF ShutdownNotifyAll, Waiting
<1>16. ASSUME NEW s \in Stoppers, NEW w \in Workers, ShutdownRequestStop(s, w)
      PROVE  NoLostWakeup'
  BY <1>0, <1>16 DEF ShutdownRequestStop
<1>17. ASSUME NEW s \in Stoppers, ShutdownJoin(s) PROVE NoLostWakeup'
  BY <1>0, <1>17 DEF ShutdownJoin, WorkerGone
<1>18. CASE Destroy
  BY <1>0, <1>18 DEF Destroy
<1> QED
  BY <1>1, <1>2, <1>3, <1>4, <1>5, <1>6, <1>7, <1>8, <1>9, <1>10,
     <1>11, <1>12, <1>13, <1>14, <1>15, <1>16, <1>17, <1>18
     DEF Next, Enqueue, WorkerStep, Shutdown

\* A second late push would need a call past its test of stop_ (LateInv).
LEMMA LateAcceptStep == IInv /\ [Next]_vars => AtMostOneLateAccept'
<1> SUFFICES ASSUME IInv, [Next]_vars PROVE AtMostOneLateAccept'
  OBVIOUS
<1> USE PoolAssumption DEF TypeOK, AtMostOneLateAccept,
           WorkerGoto, queueVars, workerVars, enqueueVars, stopVars
<1>0. TypeOK /\ AtMostOneLateAccept /\ LateInv
  BY DEF IInv
<1>1. CASE UNCHANGED vars
  BY <1>0, <1>1 DEF vars
<1>2. ASSUME NEW c \in Enqueuers, NEW t \in Tasks, EnqueueLock(c, t)
      PROVE  AtMostOneLateAccept'
  BY <1>0, <1>2 DEF EnqueueLock
<1>3. ASSUME NEW c \in Enqueuers, EnqueueTestStop(c) \/ EnqueueFull(c)
      PROVE  AtMostOneLateAccept'
  BY <1>0, <1>3 DEF EnqueueTestStop, EnqueueFull, HasRoom, EnqueueReturnsFalse
<1>4. ASSUME NEW c \in Enqueuers, EnqueuePush(c) PROVE AtMostOneLateAccept'
  BY <1>0, <1>4 DEF EnqueuePush, HasRoom, LateInv
<1>5. ASSUME NEW c \in Enqueuers, EnqueueNotifyOne(c) PROVE AtMostOneLateAccept'
  BY <1>0, <1>5 DEF EnqueueNotifyOne, WakeOne, Waiting
<1>6. ASSUME NEW w \in Workers, WorkerLock(w) \/ SpuriousWake(w)
      PROVE  AtMostOneLateAccept'
  BY <1>0, <1>6 DEF WorkerLock, SpuriousWake
<1>7. ASSUME NEW w \in Workers, WorkerTestToken(w) PROVE AtMostOneLateAccept'
  BY <1>0, <1>7 DEF WorkerTestToken
<1>8. ASSUME NEW w \in Workers, WorkerPredicateFalse(w) \/ WorkerBlock(w)
      PROVE  AtMostOneLateAccept'
  BY <1>0, <1>8 DEF WorkerPredicateFalse, WorkerBlock
<1>9. ASSUME NEW w \in Workers, WorkerReturn(w) PROVE AtMostOneLateAccept'
  BY <1>0, <1>9 DEF WorkerReturn
<1>10. ASSUME NEW w \in Workers, WorkerPop(w) PROVE AtMostOneLateAccept'
  BY <1>0, <1>10 DEF WorkerPop, AfterPop
<1>11. ASSUME NEW w \in Workers, WorkerCountUp(w) PROVE AtMostOneLateAccept'
  BY <1>0, <1>11 DEF WorkerCountUp
<1>12. ASSUME NEW w \in Workers, WorkerRunTask(w) PROVE AtMostOneLateAccept'
  BY <1>0, <1>12 DEF WorkerRunTask
<1>13. ASSUME NEW w \in Workers, WorkerCountDown(w) PROVE AtMostOneLateAccept'
  BY <1>0, <1>13 DEF WorkerCountDown
<1>14. ASSUME NEW s \in Stoppers, ShutdownExchange(s) PROVE AtMostOneLateAccept'
  BY <1>0, <1>14 DEF ShutdownExchange
<1>15. ASSUME NEW s \in Stoppers, ShutdownNotifyAll(s) PROVE AtMostOneLateAccept'
  BY <1>0, <1>15 DEF ShutdownNotifyAll, Waiting
<1>16. ASSUME NEW s \in Stoppers, NEW w \in Workers, ShutdownRequestStop(s, w)
      PROVE  AtMostOneLateAccept'
  BY <1>0, <1>16 DEF ShutdownRequestStop
<1>17. ASSUME NEW s \in Stoppers, ShutdownJoin(s) PROVE AtMostOneLateAccept'
  BY <1>0, <1>17 DEF ShutdownJoin, WorkerGone
<1>18. CASE Destroy
  BY <1>0, <1>18 DEF Destroy
<1> QED
  BY <1>1, <1>2, <1>3, <1>4, <1>5, <1>6, <1>7, <1>8, <1>9, <1>10,
     <1>11, <1>12, <1>13, <1>14, <1>15, <1>16, <1>17, <1>18
     DEF Next, Enqueue, WorkerStep, Shutdown

\* notify_all() leaves only workers about to block asleep, and they hold mutex_;
\* afterwards stop_ keeps every predicate true.
LEMMA MissesStep == IInv /\ [Next]_vars => AtMostOneMissesShutdown'
<1> SUFFICES ASSUME IInv, [Next]_vars PROVE AtMostOneMissesShutdown'
  OBVIOUS
<1> USE PoolAssumption DEF TypeOK, AtMostOneMissesShutdown, Notified,
           WorkerGoto, queueVars, workerVars, enqueueVars, stopVars
<1>0. TypeOK /\ AtMostOneMissesShutdown /\ MutexInv /\ StopInv
  BY DEF IInv
<1>1. CASE UNCHANGED vars
  BY <1>0, <1>1 DEF vars
<1>2. ASSUME NEW c \in Enqueuers, NEW t \in Tasks, EnqueueLock(c, t)
      PROVE  AtMostOneMissesShutdown'
  BY <1>0, <1>2 DEF EnqueueLock
<1>3. ASSUME NEW c \in Enqueuers, EnqueueTestStop(c) \/ EnqueueFull(c)
      PROVE  AtMostOneMissesShutdown'
  BY <1>0, <1>3 DEF EnqueueTestStop, EnqueueFull, HasRoom, EnqueueReturnsFalse
<1>4. ASSUME NEW c \in Enqueuers, EnqueuePush(c) PROVE AtMostOneMissesShutdown'
  BY <1>0, <1>4 DEF EnqueuePush, HasRoom
<1>5. ASSUME NEW c \in Enqueuers, EnqueueNotifyOne(c) PROVE AtMostOneMissesShutdown'
  BY <1>0, <1>5 DEF EnqueueNotifyOne, WakeOne, Waiting
<1>6. ASSUME NEW w \in Workers, WorkerLock(w) \/ SpuriousWake(w)
      PROVE  AtMostOneMissesShutdown'
  BY <1>0, <1>6 DEF WorkerLock, SpuriousWake
<1>7. ASSUME NEW w \in Workers, WorkerTestToken(w) PROVE AtMostOneMissesShutdown'
  BY <1>0, <1>7 DEF WorkerTestToken
<1>8. ASSUME NEW w \in Workers, WorkerPredicateFalse(w) \/ WorkerBlock(w)
      PROVE  AtMostOneMissesShutdown'
  BY <1>0, <1>8 DEF WorkerPredicateFalse, WorkerBlock, StopInv
<1>9. ASSUME NEW w \in Workers, WorkerReturn(w) PROVE AtMostOneMissesShutdown'
  BY <1>0, <1>9 DEF WorkerReturn
<1>10. ASSUME NEW w \in Workers, WorkerPop(w) PROVE AtMostOneMissesShutdown'
  BY <1>0, <1>10 DEF WorkerPop, AfterPop
<1>11. ASSUME NEW w \in Workers, WorkerCountUp(w) PROVE AtMostOneMissesShutdown'
  BY <1>0, <1>11 DEF WorkerCountUp
<1>12. ASSUME NEW w \in Workers, WorkerRunTask(w) PROVE AtMostOneMissesShutdown'
  BY <1>0, <1>12 DEF WorkerRunTask
<1>13. ASSUME NEW w \in Workers, WorkerCountDown(w) PROVE AtMostOneMissesShutdown'
  BY <1>0, <1>13 DEF WorkerCountDown
<1>14. ASSUME NEW s \in Stoppers, ShutdownExchange(s) PROVE AtMostOneMissesShutdown'
  BY <1>0, <1>14 DEF ShutdownExchange
<1>15. ASSUME NEW s \in Stoppers, ShutdownNotifyAll(s)
      PROVE  AtMostOneMissesShutdown'
  BY <1>0, <1>15 DEF ShutdownNotifyAll, Waiting, MutexInv
<1>16. ASSUME NEW s \in Stoppers, NEW w \in Workers, ShutdownRequestStop(s, w)
      PROVE  AtMostOneMissesShutdown'
  BY <1>0, <1>16 DEF ShutdownRequestStop
<1>17. ASSUME NEW s \in Stoppers, ShutdownJoin(s) PROVE AtMostOneMissesShutdown'
  BY <1>0, <1>17 DEF ShutdownJoin, WorkerGone
<1>18. CASE Destroy
  BY <1>0, <1>18 DEF Destroy
<1> QED
  BY <1>1, <1>2, <1>3, <1>4, <1>5, <1>6, <1>7, <1>8, <1>9, <1>10,
     <1>11, <1>12, <1>13, <1>14, <1>15, <1>16, <1>17, <1>18
     DEF Next, Enqueue, WorkerStep, Shutdown

\* Only three actions touch the queue and its history.
LEMMA QueueFrame ==
  ASSUME [Next]_vars
  PROVE  \/ UNCHANGED <<tasks, accepted, started, dropped, late>>
         \/ \E c \in Enqueuers : EnqueuePush(c)
         \/ \E w \in Workers : WorkerPop(w)
         \/ Destroy
<1> USE DEF queueVars, workerVars, enqueueVars, stopVars
<1>1. CASE UNCHANGED vars
  BY <1>1 DEF vars
<1>2. ASSUME NEW c \in Enqueuers, (\E t \in Tasks : EnqueueLock(c, t)) \/ Enqueue(c)
      PROVE  UNCHANGED <<tasks, accepted, started, dropped, late>> \/ EnqueuePush(c)
  BY <1>2 DEF Enqueue, EnqueueLock, EnqueueTestStop, EnqueueFull, HasRoom, EnqueueNotifyOne, WakeOne,
              EnqueueReturnsFalse
<1>3. ASSUME NEW w \in Workers, WorkerLock(w) \/ WorkerStep(w) \/ SpuriousWake(w)
      PROVE  UNCHANGED <<tasks, accepted, started, dropped, late>> \/ WorkerPop(w)
  BY <1>3 DEF WorkerLock, WorkerStep, SpuriousWake, WorkerTestToken, WorkerPredicateFalse,
              WorkerBlock, WorkerReturn, WorkerCountUp, WorkerRunTask, WorkerCountDown
<1>4. ASSUME NEW s \in Stoppers, ShutdownExchange(s) \/ Shutdown(s)
      PROVE  UNCHANGED <<tasks, accepted, started, dropped, late>>
  BY <1>4 DEF ShutdownExchange, Shutdown, ShutdownNotifyAll, ShutdownRequestStop, ShutdownJoin, WorkerGone
<1> QED
  BY <1>1, <1>2, <1>3, <1>4 DEF Next

\* The size test and the push of enqueue() share one locked scope.
LEMMA BoundedStep == IInv /\ [Next]_vars => QueueBounded'
<1> SUFFICES ASSUME IInv, [Next]_vars PROVE QueueBounded'
  OBVIOUS
<1> USE DEF QueueBounded
<1>0. TypeOK /\ QueueBounded
  BY DEF IInv
<1>1. CASE UNCHANGED <<tasks, accepted, started, dropped, late>>
  BY <1>0, <1>1
<1>2. ASSUME NEW c \in Enqueuers, EnqueuePush(c) PROVE QueueBounded'
  <2>1. Len(tasks) < MaxQueueSize /\ Len(tasks') = Len(tasks) + 1
    BY <1>0, <1>2 DEF EnqueuePush, HasRoom, TypeOK
  <2> QED
    BY <1>0, <2>1, PoolAssumption DEF TypeOK
<1>3. ASSUME NEW w \in Workers, WorkerPop(w) PROVE QueueBounded'
  <2>1. Len(tasks') = Len(tasks) - 1
    BY <1>0, <1>3 DEF WorkerPop, AfterPop, TypeOK
  <2> QED
    BY <1>0, <2>1, PoolAssumption DEF TypeOK
<1>4. CASE Destroy
  BY <1>4, PoolAssumption DEF Destroy
<1> QED
  BY <1>1, <1>2, <1>3, <1>4, QueueFrame

\* Refused tasks: rejected grows only by the argument of a call that leaves
\* without a push.
LEMMA RejectedFrame ==
  ASSUME [Next]_vars
  PROVE  \/ rejected' = rejected
         \/ /\ UNCHANGED <<tasks, accepted, started, dropped>>
            /\ \E c \in Enqueuers : /\ epc[c] \in {"test", "push"}
                                      /\ rejected' = rejected \cup {arg[c]}
<1> USE DEF queueVars, workerVars, enqueueVars, stopVars
<1>1. CASE UNCHANGED vars
  BY <1>1 DEF vars
<1>2. ASSUME NEW c \in Enqueuers, (\E t \in Tasks : EnqueueLock(c, t)) \/ Enqueue(c)
      PROVE  \/ rejected' = rejected
             \/ /\ UNCHANGED <<tasks, accepted, started, dropped>>
                /\ epc[c] \in {"test", "push"}
                /\ rejected' = rejected \cup {arg[c]}
  BY <1>2 DEF Enqueue, EnqueueLock, EnqueueTestStop, EnqueueFull, HasRoom, EnqueuePush, HasRoom,
              EnqueueNotifyOne, WakeOne, EnqueueReturnsFalse
<1>3. ASSUME NEW w \in Workers, WorkerLock(w) \/ WorkerStep(w) \/ SpuriousWake(w)
      PROVE  rejected' = rejected
  BY <1>3 DEF WorkerLock, WorkerStep, SpuriousWake, WorkerTestToken, WorkerPredicateFalse,
              WorkerBlock, WorkerReturn, WorkerPop, AfterPop, WorkerCountUp, WorkerRunTask,
              WorkerCountDown
<1>4. ASSUME NEW s \in Stoppers, ShutdownExchange(s) \/ Shutdown(s)
      PROVE  rejected' = rejected
  BY <1>4 DEF ShutdownExchange, Shutdown, ShutdownNotifyAll, ShutdownRequestStop, ShutdownJoin, WorkerGone
<1>5. CASE Destroy
  BY <1>5 DEF Destroy
<1> QED
  BY <1>1, <1>2, <1>3, <1>4, <1>5 DEF Next

\* Pushes extend the history, pops and the destructor move the boundary in it.
LEMMA FifoStep == IInv /\ [Next]_vars => FifoExactlyOnce'
<1> SUFFICES ASSUME IInv, [Next]_vars PROVE FifoExactlyOnce'
  OBVIOUS
<1>0. TypeOK /\ ArgInv /\ AliveInv /\ FifoExactlyOnce
  BY DEF IInv
<1>1. /\ accepted = started \o tasks \o dropped
      /\ Distinct(accepted)
      /\ rejected \cap Elems(accepted) = {}
  BY <1>0 DEF FifoExactlyOnce, Distinct
<1>2. SUFFICES /\ accepted' = started' \o tasks' \o dropped'
               /\ Distinct(accepted')
               /\ rejected' \cap Elems(accepted') = {}
  BY DEF FifoExactlyOnce, Distinct
<1>3. CASE UNCHANGED <<tasks, accepted, started, dropped, late>>
  <2>1. CASE rejected' = rejected
    BY <1>1, <1>3, <2>1
  <2>2. ASSUME NEW c \in Enqueuers, epc[c] \in {"test", "push"},
               rejected' = rejected \cup {arg[c]}
        PROVE  rejected' \cap Elems(accepted') = {}
    BY <1>0, <1>1, <1>3, <2>2 DEF ArgInv
  <2> QED
    BY <1>1, <1>3, <2>1, <2>2, RejectedFrame
<1>4. ASSUME NEW c \in Enqueuers, EnqueuePush(c)
      PROVE  /\ accepted' = started' \o tasks' \o dropped'
             /\ Distinct(accepted')
             /\ rejected' \cap Elems(accepted') = {}
  <2>1. /\ arg[c] \in Tasks /\ arg[c] \notin Elems(accepted) /\ arg[c] \notin rejected
        /\ dropped = <<>> /\ dropped' = <<>> /\ started' = started /\ rejected' = rejected
        /\ accepted' = Append(accepted, arg[c])
        /\ tasks' = Append(tasks, arg[c])
    BY <1>0, <1>4 DEF EnqueuePush, HasRoom, ArgInv, AliveInv, TypeOK
  <2>2. accepted' = started' \o tasks' \o dropped'
    BY <1>0, <1>1, <2>1, PushHistory DEF TypeOK
  <2>3. Distinct(accepted')
    <3>1. accepted \in Seq(Tasks)
      BY <1>0 DEF TypeOK
    <3>2. /\ DOMAIN accepted = 1..Len(accepted) /\ Len(accepted) \in Nat
          /\ DOMAIN accepted' = 1..(Len(accepted) + 1)
          /\ \A i \in 1..Len(accepted) : accepted'[i] = accepted[i]
          /\ accepted'[Len(accepted) + 1] = arg[c]
      BY <2>1, <3>1, AppendProperties, LenProperties
    <3>3. \A i \in 1..Len(accepted) : accepted[i] # arg[c]
      BY <2>1, <3>2 DEF Elems
    <3>4. ASSUME NEW i \in 1..(Len(accepted) + 1), NEW j \in 1..(Len(accepted) + 1),
                 accepted'[i] = accepted'[j]
          PROVE  i = j
      <4>1. CASE i = Len(accepted) + 1 \/ j = Len(accepted) + 1
        BY <3>2, <3>3, <3>4, <4>1
      <4>2. CASE i \in 1..Len(accepted) /\ j \in 1..Len(accepted)
        BY <1>1, <3>2, <3>4, <4>2 DEF Distinct
      <4> QED
        BY <3>2, <4>1, <4>2
    <3> QED
      BY <3>2, <3>4 DEF Distinct
  <2>4. Elems(accepted') = Elems(accepted) \cup {arg[c]}
    BY <1>0, <2>1, ElemsAppend DEF TypeOK
  <2> QED
    BY <1>1, <2>1, <2>2, <2>3, <2>4
<1>5. ASSUME NEW w \in Workers, WorkerPop(w)
      PROVE  /\ accepted' = started' \o tasks' \o dropped'
             /\ Distinct(accepted')
             /\ rejected' \cap Elems(accepted') = {}
  <2>1. /\ tasks # <<>> /\ started' = Append(started, Head(tasks)) /\ tasks' = Tail(tasks)
        /\ accepted' = accepted /\ dropped' = dropped /\ rejected' = rejected
    BY <1>5 DEF WorkerPop, AfterPop, enqueueVars
  <2>2. started \in Seq(Tasks) /\ tasks \in Seq(Tasks) /\ dropped \in Seq(Tasks)
    BY <1>0 DEF TypeOK
  <2>3. Append(started, Head(tasks)) \o Tail(tasks) \o dropped = started \o tasks \o dropped
    <3>1. \A p, q, r \in Seq(Tasks) :
             q # <<>> => Append(p, Head(q)) \o Tail(q) \o r = p \o q \o r
      BY PopHistory
    <3>2. tasks # <<>>
      BY <2>1
    <3> QED
      BY <3>1, <3>2, <2>2
  <2>4. started' \o tasks' \o dropped' = started \o tasks \o dropped
    BY <2>1, <2>3
  <2> QED
    BY <1>1, <2>1, <2>4
<1>6. CASE Destroy
  <2>1. /\ dropped = <<>> /\ dropped' = tasks /\ tasks' = <<>>
        /\ started' = started /\ accepted' = accepted /\ rejected' = rejected
    BY <1>0, <1>6 DEF Destroy, AliveInv, enqueueVars
  <2>2. started \o tasks \in Seq(Tasks)
    BY <1>0, ConcatProperties DEF TypeOK
  <2>3. (started \o tasks) \o <<>> = started \o tasks /\ started \o <<>> = started
    BY <1>0, <2>2, ConcatEmptySeq DEF TypeOK
  <2> QED
    BY <1>1, <2>1, <2>3
<1> QED
  BY <1>3, <1>4, <1>5, <1>6, QueueFrame

\* StartedAccountedFor, task by task.
Accounted ==
    /\ \A t : t \in Elems(started) <=>
               t \in done \/ \E w \in Workers : Carrying(w) /\ held[w] = t
    /\ \A v, w \in Workers : v # w /\ Carrying(v) /\ Carrying(w) => held[v] # held[w]

\* The two forms of StartedAccountedFor agree.
LEMMA AccountedEquiv == StartedAccountedFor <=> Accounted
BY DEF StartedAccountedFor, Accounted

\* What a worker carries changes only when it pops, runs or lets go of a task.
LEMMA CarryFrame ==
  ASSUME TypeOK, [Next]_vars
  PROVE  \/ /\ UNCHANGED <<held, done, started>>
            /\ \A v \in Workers : Carrying(v)' <=> Carrying(v)
         \/ \E w \in Workers : WorkerPop(w) \/ WorkerRunTask(w) \/ WorkerCountDown(w)
<1> USE DEF queueVars, workerVars, enqueueVars, stopVars, Carrying, TypeOK
<1> DEFINE Same == /\ UNCHANGED <<held, done, started>>
                   /\ \A v \in Workers : Carrying(v)' <=> Carrying(v)
<1>1. CASE UNCHANGED vars
  BY <1>1 DEF vars
<1>2. ASSUME NEW c \in Enqueuers, NEW t \in Tasks, EnqueueLock(c, t) PROVE Same
  BY <1>2 DEF EnqueueLock
<1>3. ASSUME NEW c \in Enqueuers, EnqueueTestStop(c) \/ EnqueueFull(c) \/ EnqueuePush(c)
      PROVE Same
  BY <1>3 DEF EnqueueTestStop, EnqueueFull, HasRoom, EnqueuePush, HasRoom, EnqueueReturnsFalse
<1>4. ASSUME NEW c \in Enqueuers, EnqueueNotifyOne(c) PROVE Same
  BY <1>4 DEF EnqueueNotifyOne, WakeOne, Waiting
<1>5. ASSUME NEW w \in Workers, WorkerLock(w) \/ SpuriousWake(w) PROVE Same
  BY <1>5 DEF WorkerLock, SpuriousWake, WorkerGoto
<1>6. ASSUME NEW w \in Workers, WorkerTestToken(w) PROVE Same
  BY <1>6 DEF WorkerTestToken, WorkerGoto
<1>7. ASSUME NEW w \in Workers, WorkerPredicateFalse(w) \/ WorkerBlock(w) PROVE Same
  BY <1>7 DEF WorkerPredicateFalse, WorkerBlock, WorkerGoto
<1>8. ASSUME NEW w \in Workers, WorkerReturn(w) \/ WorkerCountUp(w) PROVE Same
  BY <1>8 DEF WorkerReturn, WorkerCountUp, WorkerGoto
<1>9. ASSUME NEW s \in Stoppers, ShutdownNotifyAll(s) PROVE Same
  BY <1>9 DEF ShutdownNotifyAll, Waiting
<1>10. ASSUME NEW s \in Stoppers,
              \/ ShutdownExchange(s) \/ ShutdownJoin(s)
              \/ \E w \in Workers : ShutdownRequestStop(s, w)
       PROVE Same
  BY <1>10 DEF ShutdownExchange, ShutdownRequestStop, ShutdownJoin, WorkerGone
<1>11. CASE Destroy
  BY <1>11 DEF Destroy
<1> HIDE DEF Same
<1>12. Same \/ \E w \in Workers : WorkerPop(w) \/ WorkerRunTask(w) \/ WorkerCountDown(w)
  <2>1. CASE UNCHANGED vars \/ Destroy
    BY <1>1, <1>11, <2>1 DEF Same
  <2> QED
    BY <1>2, <1>3, <1>4, <1>5, <1>6, <1>7, <1>8, <1>9, <1>10, <2>1
       DEF Next, Enqueue, WorkerStep, Shutdown
<1> QED
  BY <1>12 DEF Same

\* A pop takes a task nobody had; running it, then letting go, keeps it done.
LEMMA StartedStep == IInv /\ [Next]_vars => StartedAccountedFor'
<1> SUFFICES ASSUME IInv, [Next]_vars PROVE Accounted'
  BY AccountedEquiv, PTL
<1>0. TypeOK /\ ArgInv /\ FifoExactlyOnce /\ Accounted
  BY AccountedEquiv DEF IInv
<1>1. CASE UNCHANGED <<held, done, started>> /\ \A v \in Workers : Carrying(v)' <=> Carrying(v)
  BY <1>0, <1>1 DEF Accounted
<1>2. ASSUME NEW w \in Workers, WorkerPop(w) PROVE Accounted'
  <2>1. Elems(started') = Elems(started) \cup {Head(tasks)}
    BY <1>0, <1>2, ElemsAppend, HeadTailProperties DEF WorkerPop, AfterPop, TypeOK
  <2>2. Head(tasks) \notin Elems(started)
    <3>1. /\ accepted = started \o tasks \o dropped
          /\ \A i, j \in DOMAIN accepted : accepted[i] = accepted[j] => i = j
          /\ tasks # <<>>
      BY <1>0, <1>2 DEF FifoExactlyOnce, WorkerPop, AfterPop
    <3> QED
      BY <1>0, <3>1, PoppedIsNew DEF TypeOK, Distinct
  <2>3. /\ done' = done /\ held'[w] = Head(tasks)
        /\ Carrying(w)' /\ ~Carrying(w)
        /\ \A v \in Workers \ {w} : held'[v] = held[v] /\ (Carrying(v)' <=> Carrying(v))
    BY <1>0, <1>2 DEF WorkerPop, AfterPop, WorkerGoto, Carrying, TypeOK
  <2> QED
    BY <1>0, <2>1, <2>2, <2>3 DEF Accounted
<1>3. ASSUME NEW w \in Workers, WorkerRunTask(w) PROVE Accounted'
  <2>1. /\ done' = done \cup {held[w]} /\ started' = started /\ held' = held
        /\ Carrying(w) /\ \A v \in Workers : Carrying(v)' <=> Carrying(v)
    BY <1>0, <1>3 DEF WorkerRunTask, WorkerGoto, Carrying, TypeOK, queueVars
  <2> QED
    BY <1>0, <2>1 DEF Accounted
<1>4. ASSUME NEW w \in Workers, WorkerCountDown(w) PROVE Accounted'
  <2>1. /\ done' = done /\ started' = started
        /\ Carrying(w) /\ ~Carrying(w)' /\ held[w] \in done
        /\ \A v \in Workers \ {w} : held'[v] = held[v] /\ (Carrying(v)' <=> Carrying(v))
    BY <1>0, <1>4 DEF WorkerCountDown, WorkerGoto, Carrying, TypeOK, ArgInv, queueVars
  <2> QED
    BY <1>0, <2>1 DEF Accounted
<1> QED
  BY <1>0, <1>1, <1>2, <1>3, <1>4, CarryFrame

\* active_count_ follows the workers between ++ and --, one at a time.
LEMMA ActiveStep == IInv /\ [Next]_vars => ActiveCountExact'
<1> SUFFICES ASSUME IInv, [Next]_vars PROVE ActiveCountExact'
  OBVIOUS
<1> USE PoolAssumption DEF TypeOK, ActiveCountExact,
           WorkerGoto, queueVars, workerVars, enqueueVars, stopVars
<1>0. TypeOK /\ ActiveCountExact
  BY DEF IInv
<1>1. CASE UNCHANGED vars
  BY <1>0, <1>1 DEF vars
<1>2. ASSUME NEW c \in Enqueuers, NEW t \in Tasks, EnqueueLock(c, t)
      PROVE  ActiveCountExact'
  BY <1>0, <1>2 DEF EnqueueLock
<1>3. ASSUME NEW c \in Enqueuers, EnqueueTestStop(c) PROVE ActiveCountExact'
  BY <1>0, <1>3 DEF EnqueueTestStop, EnqueueReturnsFalse
<1>4. ASSUME NEW c \in Enqueuers, EnqueueFull(c) PROVE ActiveCountExact'
  BY <1>0, <1>4 DEF EnqueueFull, HasRoom, EnqueueReturnsFalse
<1>5. ASSUME NEW c \in Enqueuers, EnqueuePush(c) PROVE ActiveCountExact'
  BY <1>0, <1>5 DEF EnqueuePush, HasRoom
<1>6. ASSUME NEW c \in Enqueuers, EnqueueNotifyOne(c) PROVE ActiveCountExact'
  BY <1>0, <1>6 DEF EnqueueNotifyOne, WakeOne, Waiting
<1>7. ASSUME NEW w \in Workers, WorkerLock(w) PROVE ActiveCountExact'
  BY <1>0, <1>7 DEF WorkerLock
<1>8. ASSUME NEW w \in Workers, SpuriousWake(w) PROVE ActiveCountExact'
  BY <1>0, <1>8 DEF SpuriousWake
<1>9. ASSUME NEW w \in Workers, WorkerTestToken(w) PROVE ActiveCountExact'
  BY <1>0, <1>9 DEF WorkerTestToken
<1>10. ASSUME NEW w \in Workers, WorkerPredicateFalse(w) PROVE ActiveCountExact'
  BY <1>0, <1>10 DEF WorkerPredicateFalse
<1>11. ASSUME NEW w \in Workers, WorkerBlock(w) PROVE ActiveCountExact'
  BY <1>0, <1>11 DEF WorkerBlock
<1>12. ASSUME NEW w \in Workers, WorkerReturn(w) PROVE ActiveCountExact'
  BY <1>0, <1>12 DEF WorkerReturn
<1>13. ASSUME NEW w \in Workers, WorkerPop(w) PROVE ActiveCountExact'
  BY <1>0, <1>13 DEF WorkerPop, AfterPop
<1>14. ASSUME NEW w \in Workers, WorkerCountUp(w) PROVE ActiveCountExact'
  <2>1. Busy' = Busy \cup {w} /\ w \notin Busy
    BY <1>0, <1>14 DEF Busy, WorkerCountUp
  <2> QED
    BY <1>0, <1>14, <2>1, BusyFinite, FS_AddElement DEF Busy, WorkerCountUp
<1>15. ASSUME NEW w \in Workers, WorkerRunTask(w) PROVE ActiveCountExact'
  BY <1>0, <1>15 DEF WorkerRunTask
<1>16. ASSUME NEW w \in Workers, WorkerCountDown(w) PROVE ActiveCountExact'
  <2>1. Busy' = Busy \ {w} /\ w \in Busy
    BY <1>0, <1>16 DEF Busy, WorkerCountDown
  <2>2. Cardinality(Busy \ {w}) = Cardinality(Busy) - 1
    BY <2>1, BusyFinite, FS_RemoveElement
  <2> QED
    BY <1>0, <1>16, <2>1, <2>2 DEF Busy, WorkerCountDown
<1>17. ASSUME NEW s \in Stoppers, ShutdownExchange(s) PROVE ActiveCountExact'
  BY <1>0, <1>17 DEF ShutdownExchange
<1>18. ASSUME NEW s \in Stoppers, ShutdownNotifyAll(s) PROVE ActiveCountExact'
  BY <1>0, <1>18 DEF ShutdownNotifyAll, Waiting
<1>19. ASSUME NEW s \in Stoppers, NEW w \in Workers, ShutdownRequestStop(s, w)
      PROVE  ActiveCountExact'
  BY <1>0, <1>19 DEF ShutdownRequestStop
<1>20. ASSUME NEW s \in Stoppers, ShutdownJoin(s) PROVE ActiveCountExact'
  BY <1>0, <1>20 DEF ShutdownJoin, WorkerGone
<1>21. CASE Destroy
  BY <1>0, <1>21 DEF Destroy
<1> QED
  BY <1>1, <1>2, <1>3, <1>4, <1>5, <1>6, <1>7, <1>8, <1>9, <1>10,
     <1>11, <1>12, <1>13, <1>14, <1>15, <1>16, <1>17, <1>18, <1>19, <1>20, <1>21
     DEF Next, Enqueue, WorkerStep, Shutdown

-----------------------------------------------------------------------------
(* Work conservation                                                       *)

\* Only finitely many calls are between their push and their notification, as
\* each step adds one at most; there may be any number of callers.
IdleInv == NoIdleSleeper /\ IsFiniteSet(Notifying)

\* The workers that are awake without a task are finitely many.
LEMMA IdleFinite == IsFiniteSet(Idle) /\ Cardinality(Idle) \in Nat
<1>1. Idle \subseteq Workers
  BY DEF Idle
<1> QED
  BY <1>1, PoolAssumption, FS_Subset, FS_CardinalityType

\* The bound survives a step after which no fewer workers are awake per task:
\* the cases of a step with what it does to the sleeping and the idle workers.
LEMMA IdleFrame ==
  ASSUME TypeOK, [Next]_vars
  PROVE  \/ /\ stop => stop'
            /\ Waiting' \subseteq Waiting /\ Idle \subseteq Idle'
            /\ tasks' = tasks /\ Notifying' = Notifying
         \/ \E c \in Enqueuers : EnqueuePush(c) \/ EnqueueNotifyOne(c)
         \/ \E w \in Workers : WorkerTestToken(w) \/ WorkerBlock(w) \/ WorkerReturn(w) \/ WorkerPop(w)
         \/ Destroy
<1> USE DEF queueVars, workerVars, enqueueVars, stopVars, Idle, Notifying, Waiting,
            WorkerGoto, TypeOK
<1> DEFINE Same == /\ stop => stop'
                   /\ Waiting' \subseteq Waiting /\ Idle \subseteq Idle'
                   /\ tasks' = tasks /\ Notifying' = Notifying
<1>1. CASE UNCHANGED vars
  BY <1>1 DEF vars
<1>2. ASSUME NEW c \in Enqueuers, NEW t \in Tasks, EnqueueLock(c, t) PROVE Same
  BY <1>2 DEF EnqueueLock
<1>3. ASSUME NEW c \in Enqueuers, EnqueueTestStop(c) \/ EnqueueFull(c) PROVE Same
  BY <1>3 DEF EnqueueTestStop, EnqueueFull, HasRoom, EnqueueReturnsFalse
<1>4. ASSUME NEW w \in Workers, WorkerLock(w) \/ SpuriousWake(w) \/ WorkerPredicateFalse(w)
      PROVE Same
  BY <1>4 DEF WorkerLock, SpuriousWake, WorkerPredicateFalse
<1>5. ASSUME NEW w \in Workers, WorkerCountUp(w) \/ WorkerRunTask(w) \/ WorkerCountDown(w)
      PROVE Same
  BY <1>5 DEF WorkerCountUp, WorkerRunTask, WorkerCountDown
<1>6. ASSUME NEW s \in Stoppers, ShutdownNotifyAll(s) PROVE Same
  BY <1>6 DEF ShutdownNotifyAll
<1>7. ASSUME NEW s \in Stoppers,
             \/ ShutdownExchange(s) \/ ShutdownJoin(s)
             \/ \E w \in Workers : ShutdownRequestStop(s, w)
      PROVE Same
  BY <1>7 DEF ShutdownExchange, ShutdownRequestStop, ShutdownJoin, WorkerGone
<1> HIDE DEF Same
<1>8. \/ Same
      \/ \E c \in Enqueuers : EnqueuePush(c) \/ EnqueueNotifyOne(c)
      \/ \E w \in Workers : WorkerTestToken(w) \/ WorkerBlock(w) \/ WorkerReturn(w) \/ WorkerPop(w)
      \/ Destroy
  <2>1. CASE UNCHANGED vars
    BY <1>1, <2>1 DEF Same
  <2> QED
    BY <1>2, <1>3, <1>4, <1>5, <1>6, <1>7, <2>1 DEF Next, Enqueue, WorkerStep, Shutdown
<1> QED
  BY <1>8 DEF Same

\* A push brings its notification along; a notification that finds a sleeper
\* turns into an idle worker; a worker takes a task with it when it becomes
\* busy; and it goes to sleep only on an empty queue.
LEMMA IdleStep == IInv /\ IdleInv /\ [Next]_vars => IdleInv'
<1> SUFFICES ASSUME IInv, IdleInv, [Next]_vars PROVE IdleInv'
  OBVIOUS
<1>0. /\ TypeOK /\ BlockInv /\ StopInv
      /\ tasks \in Seq(Tasks) /\ Len(tasks) \in Nat
  BY LenProperties DEF IInv, TypeOK
<1>1. /\ IsFiniteSet(Notifying) /\ Cardinality(Notifying) \in Nat
      /\ IsFiniteSet(Idle) /\ Cardinality(Idle) \in Nat
  BY IdleFinite, FS_CardinalityType DEF IdleInv
<1>2. IsFiniteSet(Idle') /\ Cardinality(Idle') \in Nat
  <2>1. Idle' \subseteq Workers
    BY DEF Idle
  <2> QED
    BY <2>1, PoolAssumption, FS_Subset, FS_CardinalityType
<1>3. CASE /\ stop => stop'
           /\ Waiting' \subseteq Waiting /\ Idle \subseteq Idle'
           /\ tasks' = tasks /\ Notifying' = Notifying
  <2>1. Cardinality(Idle) <= Cardinality(Idle')
    BY <1>2, <1>3, FS_Subset
  <2> QED
    BY <1>0, <1>1, <1>2, <1>3, <2>1 DEF IdleInv, NoIdleSleeper
<1>4. ASSUME NEW c \in Enqueuers, EnqueuePush(c) PROVE IdleInv'
  <2>1. /\ Idle' = Idle /\ Waiting' = Waiting /\ stop' = stop
        /\ c \notin Notifying /\ Notifying' = Notifying \cup {c}
    BY <1>0, <1>4 DEF EnqueuePush, Idle, Waiting, Notifying, workerVars, stopVars, TypeOK
  <2>2. Len(tasks') = Len(tasks) + 1
    <3>1. arg[c] \in Tasks /\ tasks' = Append(tasks, arg[c])
      BY <1>4 DEF EnqueuePush, IInv, ArgInv
    <3> QED
      BY <1>0, <3>1, AppendProperties
  <2>3. IsFiniteSet(Notifying') /\ Cardinality(Notifying') = Cardinality(Notifying) + 1
    BY <1>1, <2>1, FS_AddElement
  <2> QED
    BY <1>0, <1>1, <2>1, <2>2, <2>3 DEF IdleInv, NoIdleSleeper
<1>5. ASSUME NEW c \in Enqueuers, EnqueueNotifyOne(c) PROVE IdleInv'
  <2>1. /\ tasks' = tasks /\ stop' = stop
        /\ c \in Notifying /\ Notifying' = Notifying \ {c}
    BY <1>0, <1>5 DEF EnqueueNotifyOne, Notifying, queueVars, stopVars, TypeOK
  <2>2. IsFiniteSet(Notifying') /\ Cardinality(Notifying') = Cardinality(Notifying) - 1
    BY <1>1, <2>1, FS_RemoveElement
  <2>3. CASE Waiting = {} /\ wpc' = wpc
    BY <2>2, <2>3 DEF IdleInv, NoIdleSleeper, Waiting
  <2>4. CASE \E w \in Waiting : wpc' = [wpc EXCEPT ![w] = "lock"]
    <3>1. PICK w \in Waiting : wpc' = [wpc EXCEPT ![w] = "lock"]
      BY <2>4
    <3>2. w \notin Idle /\ Idle' = Idle \cup {w} /\ Waiting # {}
      BY <1>0, <3>1 DEF Idle, Waiting, TypeOK
    <3>3. Cardinality(Idle') = Cardinality(Idle) + 1
      BY <1>1, <3>2, FS_AddElement
    <3> QED
      BY <1>0, <1>1, <2>1, <2>2, <3>2, <3>3 DEF IdleInv, NoIdleSleeper
  <2> QED
    BY <1>5, <2>3, <2>4 DEF EnqueueNotifyOne, WakeOne
<1>6. ASSUME NEW w \in Workers, WorkerTestToken(w) \/ WorkerReturn(w) PROVE IdleInv'
  <2>1. Notifying' = Notifying /\ tasks' = tasks /\ stop' = stop
    BY <1>6 DEF WorkerTestToken, WorkerReturn, Notifying, queueVars, enqueueVars, stopVars
  <2>2. CASE stop
    BY <1>1, <2>1, <2>2 DEF IdleInv, NoIdleSleeper
  <2>3. CASE ~stop
    <3>1. ~stoken[w]
      BY <1>0, <2>3 DEF StopInv
    <3>2. Idle' = Idle /\ Waiting' = Waiting
      BY <1>0, <1>6, <2>3, <3>1
         DEF WorkerTestToken, WorkerReturn, WorkerGoto, Idle, Waiting, TypeOK
    <3> QED
      BY <2>1, <3>2 DEF IdleInv, NoIdleSleeper
  <2> QED
    BY <2>2, <2>3
<1>7. ASSUME NEW w \in Workers, WorkerBlock(w) PROVE IdleInv'
  <2>1. tasks' = <<>> /\ Notifying' = Notifying
    BY <1>0, <1>7 DEF WorkerBlock, BlockInv, Notifying, enqueueVars
  <2> QED
    BY <1>1, <1>2, <2>1 DEF IdleInv, NoIdleSleeper
<1>8. ASSUME NEW w \in Workers, WorkerPop(w) PROVE IdleInv'
  <2>1. /\ Notifying' = Notifying /\ Waiting' = Waiting /\ stop' = stop
        /\ w \in Idle /\ Idle' = Idle \ {w}
    BY <1>0, <1>8
       DEF WorkerPop, WorkerGoto, Notifying, Waiting, Idle, enqueueVars, stopVars, TypeOK
  <2>2. Len(tasks') = Len(tasks) - 1
    BY <1>0, <1>8, HeadTailProperties DEF WorkerPop, AfterPop
  <2>3. Cardinality(Idle') = Cardinality(Idle) - 1
    BY <1>1, <2>1, FS_RemoveElement
  <2> QED
    BY <1>0, <1>1, <2>1, <2>2, <2>3 DEF IdleInv, NoIdleSleeper
<1>9. CASE Destroy
  <2>1. tasks' = <<>> /\ Notifying' = Notifying
    BY <1>9 DEF Destroy, Notifying, enqueueVars
  <2> QED
    BY <1>1, <1>2, <2>1 DEF IdleInv, NoIdleSleeper
<1> QED
  BY <1>0, <1>3, <1>4, <1>5, <1>6, <1>7, <1>8, <1>9, IdleFrame

-----------------------------------------------------------------------------
(* The theorems                                                            *)

\* A newly constructed pool satisfies the inductive invariant.
LEMMA InitIInv == Init => IInv
<1> SUFFICES ASSUME Init PROVE IInv
  OBVIOUS
<1> USE PoolAssumption DEF Init
<1>1. TypeOK
  <2>1. stop \in BOOLEAN /\ alive \in BOOLEAN /\ stoken \in [Workers -> BOOLEAN]
    BY Zenon
  <2> QED
    BY <2>1 DEF TypeOK, WorkerPC, EnqueuePC, ShutdownPC
<1>2. MutexInv /\ ArgInv /\ StopInv /\ AliveInv /\ LateInv /\ BlockInv
  BY DEF MutexInv, ArgInv, StopInv, AliveInv, LateInv, BlockInv, Carrying
<1>3. QueueBounded /\ NoLostWakeup /\ AtMostOneLateAccept
  BY DEF QueueBounded, NoLostWakeup, AtMostOneLateAccept
<1>4. AtMostOneMissesShutdown
  BY DEF AtMostOneMissesShutdown, Notified
<1>5. FifoExactlyOnce
  BY ConcatEmptySeq DEF FifoExactlyOnce
<1>6. StartedAccountedFor
  BY DEF StartedAccountedFor, Elems, Carrying
<1>7. ActiveCountExact
  <2>1. {w \in Workers : wpc[w] \in {"running", "ran"}} = {}
    OBVIOUS
  <2> QED
    BY <2>1, FS_EmptySet DEF ActiveCountExact
<1> QED
  BY <1>1, <1>2, <1>3, <1>4, <1>5, <1>6, <1>7 DEF IInv

\* Every step of every thread preserves the inductive invariant.
LEMMA IInvStep == IInv /\ [Next]_vars => IInv'
<1> SUFFICES ASSUME IInv, [Next]_vars PROVE IInv'
  OBVIOUS
<1>1. TypeOK' /\ MutexInv' /\ ArgInv' /\ StopInv' /\ AliveInv' /\ LateInv' /\ BlockInv'
  BY TypeStep, MutexStep, ArgStep, StopInvStep, AliveStep, LateStep, BlockStep
<1>2. QueueBounded' /\ FifoExactlyOnce' /\ StartedAccountedFor' /\ ActiveCountExact'
  BY BoundedStep, FifoStep, StartedStep, ActiveStep
<1>3. NoLostWakeup' /\ AtMostOneLateAccept' /\ AtMostOneMissesShutdown'
  BY NoLostWakeupStep, LateAcceptStep, MissesStep
<1> QED
  BY <1>1, <1>2, <1>3 DEF IInv

\* Every reachable state of the pool satisfies the inductive invariant.
THEOREM Inductive == Spec => []IInv
BY InitIInv, IInvStep, PTL DEF Spec

\* Every variable of the pool keeps its type, active_count_ included, which
\* never wraps below zero.
THEOREM TypeCorrect == Spec => []TypeOK
<1>1. IInv => TypeOK
  BY DEF IInv
<1> QED
  BY <1>1, Inductive, PTL

\* Backpressure holds for any queue size and any number of racing callers.
THEOREM Backpressure == Spec => []QueueBounded
<1>1. IInv => QueueBounded
  BY DEF IInv
<1> QED
  BY <1>1, Inductive, PTL

\* enqueue() and the workers lose, duplicate and reorder nothing.
THEOREM ExactlyOnce == Spec => []TasksAccounted
<1>1. IInv => TasksAccounted
  BY DEF IInv, TasksAccounted
<1> QED
  BY <1>1, Inductive, PTL

\* active_workers() is exact.
THEOREM CountExact == Spec => []ActiveCountExact
<1>1. IInv => ActiveCountExact
  BY DEF IInv
<1> QED
  BY <1>1, Inductive, PTL

\* While stop_ is not set, no queued task waits for workers that all sleep.
THEOREM Wakeup == Spec => []NoLostWakeup
<1>1. IInv => NoLostWakeup
  BY DEF IInv
<1> QED
  BY <1>1, Inductive, PTL

\* The shutdown() that set stop_ returns after the last worker has left and
\* every popped task has been run: a joined worker has exited (StopInv), an
\* exited worker carries nothing, and what is started and not carried is done.
THEOREM ShutdownWaits == Spec => []ShutdownWaitsForInFlight
<1>1. ASSUME IInv PROVE ShutdownWaitsForInFlight
  <2> SUFFICES ASSUME NEW s \in Stoppers, spc[s] = "returned"
               PROVE  /\ \A w \in Workers : wpc[w] = "exited"
                      /\ Elems(started) \subseteq done
    BY DEF ShutdownWaitsForInFlight
  <2>1. \A w \in Workers : wpc[w] = "exited"
    BY <1>1 DEF IInv, StopInv
  <2>2. \A w \in Workers : ~Carrying(w)
    BY <2>1 DEF Carrying
  <2>3. Accounted
    BY <1>1, AccountedEquiv DEF IInv
  <2> QED
    BY <2>1, <2>2, <2>3 DEF Accounted
<1> QED
  BY <1>1, Inductive, PTL

\* The unsynchronised stop_ lets at most one task in after shutdown() began,
\* and at most one worker sleep through its notify_all().
THEOREM RaceIsBounded == Spec => []RaceBounded
<1>1. IInv => RaceBounded
  BY DEF IInv, RaceBounded
<1> QED
  BY <1>1, Inductive, PTL

\* While the pool runs, no worker sleeps beside a task that nobody is awake for
\* or is being woken for: notify_one() after each push is enough.
THEOREM WorkConserving == Spec => []NoIdleSleeper
<1>1. Init => IdleInv
  <2>1. ASSUME Init PROVE Waiting = {} /\ Notifying = {}
    BY <2>1 DEF Init, Waiting, Notifying
  <2> QED
    BY <2>1, FS_EmptySet DEF IdleInv, NoIdleSleeper
<1>2. IInv /\ IdleInv /\ [Next]_vars => IdleInv'
  BY IdleStep
<1>3. IdleInv => NoIdleSleeper
  BY DEF IdleInv
<1> QED
  BY <1>1, <1>2, <1>3, Inductive, PTL DEF Spec
=============================================================================
