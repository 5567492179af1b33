------------------------ MODULE ThreadPoolRefinement ------------------------
(***************************************************************************)
(* The proof that ThreadPool implements TaskQueue, for any number of       *)
(* workers, callers and tasks and any queue size: every step of a thread   *)
(* is one operation of the abstract queue or leaves it as it is.           *)
(***************************************************************************)
EXTENDS ThreadPoolProofs

\* The tasks in the abstract queue's hands, from the pop to their end.
Runs(w) == wpc[w] \in {"popped", "running"}
Running == {held[w] : w \in {v \in Workers : Runs(v)}}

\* The state of the abstract queue, and a step it does not see.
Abstract == <<tasks, Running, done, rejected, dropped, Closed>>

-----------------------------------------------------------------------------
(* What the steps need of the invariant                                    *)

\* The task a call is about to push or to refuse is new to the abstract queue.
LEMMA ArgIsNew ==
  ASSUME IInv, NEW c \in Enqueuers, epc[c] \in {"test", "push"}
  PROVE  arg[c] \in Tasks /\ arg[c] \in TQ!New
<1>1. TypeOK /\ ArgInv /\ FifoExactlyOnce /\ Accounted
  BY AccountedEquiv DEF IInv
<1>2. arg[c] \in Tasks /\ arg[c] \notin Elems(accepted) /\ arg[c] \notin rejected
  BY <1>1 DEF ArgInv
<1>3. /\ Elems(started) \subseteq Elems(accepted)
      /\ Elems(tasks) \subseteq Elems(accepted)
      /\ Elems(dropped) \subseteq Elems(accepted)
  BY <1>1, HistoryParts DEF FifoExactlyOnce, TypeOK
<1>4. Running \subseteq Elems(started) /\ done \subseteq Elems(started)
  BY <1>1 DEF Accounted, Running, Runs, Carrying
<1> QED
  BY <1>2, <1>3, <1>4 DEF TQ!New, TQ!Content, Elems, Running, Runs

\* A worker that is running nothing leaves room for one more task.
LEMMA RoomToRun ==
  ASSUME NEW w \in Workers, ~Runs(w)
  PROVE  Cardinality(Running) < Cardinality(Workers)
<1> DEFINE R == {v \in Workers : Runs(v)}
           f == [v \in R |-> held[v]]
<1>1. R \subseteq Workers /\ w \notin R
  OBVIOUS
<1>2. IsFiniteSet(R) /\ Cardinality(R) < Cardinality(Workers)
      /\ Cardinality(R) \in Nat /\ Cardinality(Workers) \in Nat
  BY <1>1, PoolAssumption, FS_Subset, FS_CardinalityType
<1>3. f \in Surjection(R, Running)
  BY DEF Running, Surjection
<1>4. IsFiniteSet(Running) /\ Cardinality(Running) <= Cardinality(R)
  BY <1>2, <1>3, FS_Surjection
<1> QED
  BY <1>2, <1>4, FS_CardinalityType

\* Closed is a truth value.
LEMMA ClosedType == Closed \in BOOLEAN /\ Closed' \in BOOLEAN
BY Zenon DEF Closed

-----------------------------------------------------------------------------
(* The steps                                                               *)

\* What no client of the queue can tell from nothing at all: taking and
\* releasing mutex_, waiting, waking, counting and joining.
LEMMA InvisibleStep ==
  ASSUME TypeOK, MutexInv,
         \/ \E c \in Enqueuers, t \in Tasks : EnqueueLock(c, t)
         \/ \E c \in Enqueuers : EnqueueNotifyOne(c)
         \/ \E c \in Enqueuers : EnqueueTestStop(c) /\ ~stop
         \/ \E w \in Workers : \/ WorkerLock(w) \/ SpuriousWake(w) \/ WorkerTestToken(w)
                               \/ WorkerPredicateFalse(w) \/ WorkerBlock(w) \/ WorkerReturn(w)
                               \/ WorkerCountUp(w) \/ WorkerCountDown(w)
         \/ \E s \in Stoppers : Shutdown(s)
         \/ UNCHANGED vars
  PROVE  UNCHANGED Abstract
<1> DEFINE Same == /\ UNCHANGED <<tasks, done, rejected, dropped>>
                   /\ \A w \in Workers : Runs(w)' <=> Runs(w)
                   /\ \A w \in Workers : Runs(w) => held'[w] = held[w]
                   /\ Closed' <=> Closed
<1> USE DEF TypeOK, Runs, Closed, WorkerGoto, queueVars, workerVars, enqueueVars, stopVars
<1>1. ASSUME NEW c \in Enqueuers, NEW t \in Tasks, EnqueueLock(c, t) PROVE Same
  BY <1>1 DEF EnqueueLock
<1>2. ASSUME NEW c \in Enqueuers, EnqueueNotifyOne(c) PROVE Same
  BY <1>2 DEF EnqueueNotifyOne, WakeOne, Waiting
<1>3. ASSUME NEW c \in Enqueuers, EnqueueTestStop(c), ~stop PROVE Same
  BY <1>3 DEF EnqueueTestStop
<1>4. ASSUME NEW w \in Workers, WorkerLock(w) \/ SpuriousWake(w) \/ WorkerTestToken(w) PROVE Same
  BY <1>4 DEF WorkerLock, SpuriousWake, WorkerTestToken
<1>5. ASSUME NEW w \in Workers, WorkerPredicateFalse(w) \/ WorkerBlock(w) \/ WorkerReturn(w) PROVE Same
  BY <1>5 DEF WorkerPredicateFalse, WorkerBlock, WorkerReturn
<1>6. ASSUME NEW w \in Workers, WorkerCountUp(w) \/ WorkerCountDown(w) PROVE Same
  BY <1>6 DEF WorkerCountUp, WorkerCountDown
<1>7. ASSUME NEW s \in Stoppers, ShutdownNotifyAll(s) PROVE Same
  BY <1>7 DEF ShutdownNotifyAll, Waiting
<1>8. ASSUME NEW s \in Stoppers, ShutdownJoin(s) \/ \E w \in Workers : ShutdownRequestStop(s, w)
      PROVE Same
  BY <1>8 DEF ShutdownJoin, ShutdownRequestStop
<1>9. ASSUME UNCHANGED vars PROVE Same
  BY <1>9 DEF vars
<1> HIDE DEF Same
<1>10. Same
  <2>1. CASE UNCHANGED vars
    BY <1>9, <2>1
  <2> QED
    BY <1>1, <1>2, <1>3, <1>4, <1>5, <1>6, <1>7, <1>8, <2>1 DEF Shutdown
<1>11. Running' = Running
  BY <1>10 DEF Same, Running
<1>12. Closed' = Closed
  BY <1>10, ClosedType DEF Same
<1> QED
  BY <1>10, <1>11, <1>12 DEF Same, Abstract

\* enqueue() that returns false refuses a task: stop_ was set and, as the call
\* holds mutex_, nobody is between test and push; or the queue is full.
LEMMA RefuseStep ==
  ASSUME IInv, NEW c \in Enqueuers, (EnqueueTestStop(c) /\ stop) \/ EnqueueFull(c)
  PROVE  TQ!Refuse(arg[c])
<1>1. TypeOK /\ MutexInv
  BY DEF IInv
<1>2. epc[c] \in {"test", "push"} /\ EnqueueReturnsFalse(c)
  BY DEF EnqueueTestStop, EnqueueFull
<1>3. arg[c] \in TQ!New
  BY <1>2, ArgIsNew
<1>4. Closed \/ Len(tasks) >= MaxQueueSize
  <2>1. CASE EnqueueTestStop(c) /\ stop
    BY <1>1, <2>1, PoolAssumption DEF Closed, EnqueueTestStop, MutexInv
  <2>2. CASE EnqueueFull(c)
    <3>1. Len(tasks) \in Nat
      BY <1>1, LenProperties DEF TypeOK
    <3> QED
      BY <2>2, <3>1, PoolAssumption DEF EnqueueFull, HasRoom
  <2> QED
    BY <2>1, <2>2
<1>5. Closed' \in {Closed, TRUE}
  <2>1. Closed => Closed'
    BY <1>1, <1>2 DEF Closed, EnqueueReturnsFalse, stopVars, TypeOK
  <2> QED
    BY <2>1, ClosedType
<1>6. /\ rejected' = rejected \cup {arg[c]}
      /\ Running' = Running
      /\ UNCHANGED <<tasks, done, dropped>>
  BY <1>2 DEF EnqueueReturnsFalse, workerVars, Running, Runs
<1> QED
  BY <1>3, <1>4, <1>5, <1>6 DEF TQ!Refuse, TQ!MayClose, Running, Runs

\* A push submits its task: a call past its test of stop_ has kept the queue
\* open until now, and may be the last that did.
LEMMA SubmitStep ==
  ASSUME IInv, NEW c \in Enqueuers, EnqueuePush(c)
  PROVE  TQ!Submit(arg[c])
<1>1. epc[c] = "push" /\ Len(tasks) < MaxQueueSize /\ tasks' = Append(tasks, arg[c])
  BY DEF EnqueuePush, HasRoom
<1>2. arg[c] \in TQ!New
  BY <1>1, ArgIsNew
<1>3. ~Closed
  BY <1>1 DEF Closed
<1>4. Closed' \in {Closed, TRUE}
  BY <1>3, ClosedType
<1>5. Running' = Running /\ UNCHANGED <<done, rejected, dropped>>
  BY DEF EnqueuePush, workerVars, Running, Runs
<1> QED
  BY <1>1, <1>2, <1>3, <1>4, <1>5 DEF TQ!Submit, TQ!MayClose, Running, Runs

\* A pop starts the oldest task; the worker that pops was running none.
LEMMA StartStep ==
  ASSUME IInv, NEW w \in Workers, WorkerPop(w)
  PROVE  TQ!Start
<1>1. TypeOK /\ wpc[w] = "locked" /\ tasks # <<>>
  BY DEF IInv, WorkerPop
<1>2. Cardinality(Running) < Cardinality(Workers)
  BY <1>1, RoomToRun DEF Runs
<1>3. /\ \A v \in Workers : Runs(v)' <=> Runs(v) \/ v = w
      /\ \A v \in Workers : v # w => held'[v] = held[v]
      /\ held'[w] = Head(tasks) /\ ~Runs(w)
  BY <1>1 DEF WorkerPop, WorkerGoto, Runs, TypeOK
<1>4. Running' = Running \cup {Head(tasks)}
  BY <1>3 DEF Running
<1>5. tasks' = Tail(tasks) /\ Closed' = Closed /\ UNCHANGED <<done, rejected, dropped>>
  BY DEF WorkerPop, AfterPop, Closed, enqueueVars, stopVars
<1> QED
  <2>1. TQ!Cardinality(Running) = Cardinality(Running)
    BY DEF TQ!Cardinality, Cardinality
  <2> QED
    BY <1>1, <1>2, <1>4, <1>5, <2>1 DEF TQ!Start, Running, Runs

\* A task ends when task() returns or throws: no other worker has it.
LEMMA FinishStep ==
  ASSUME IInv, NEW w \in Workers, WorkerRunTask(w)
  PROVE  \E t \in Tasks : TQ!Finish(t)
<1>1. TypeOK /\ ArgInv /\ Accounted /\ wpc[w] = "running"
  BY AccountedEquiv DEF IInv, WorkerRunTask
<1>2. /\ held' = held /\ Runs(w)
      /\ \A v \in Workers : Runs(v)' <=> Runs(v) /\ v # w
  BY <1>1 DEF WorkerRunTask, WorkerGoto, Runs, TypeOK
<1>3. \A v \in Workers : v # w /\ Runs(v) => held[v] # held[w]
  BY <1>1, <1>2 DEF Accounted, Carrying, Runs
<1>4. held[w] \in Running /\ Running' = Running \ {held[w]}
  BY <1>2, <1>3 DEF Running
<1>5. /\ done' = done \cup {held[w]} /\ Closed' = Closed
      /\ UNCHANGED <<tasks, rejected, dropped>>
  BY DEF WorkerRunTask, Closed, queueVars, enqueueVars, stopVars
<1>6. PICK t \in Tasks : t = held[w]
  BY <1>1 DEF ArgInv, Carrying
<1>7. TQ!Finish(t)
  BY <1>4, <1>5, <1>6 DEF TQ!Finish, Running, Runs
<1> QED
  BY <1>7

\* Setting stop_ closes the queue, unless a call is past its test: then it is
\* that call's push or refusal that closes it.
LEMMA CloseStep ==
  ASSUME TypeOK, NEW s \in Stoppers, ShutdownExchange(s)
  PROVE  TQ!Close \/ UNCHANGED Abstract
<1>1. UNCHANGED <<tasks, done, rejected, dropped>> /\ Running' = Running /\ epc' = epc /\ stop'
  BY DEF ShutdownExchange, queueVars, workerVars, enqueueVars, Running, Runs
<1>2. CASE \A c \in Enqueuers : epc[c] # "push"
  <2>1. Closed'
    BY <1>1, <1>2 DEF Closed
  <2>2. Closed' = TRUE
    BY <2>1, ClosedType
  <2> QED
    BY <1>1, <2>2 DEF TQ!Close, Running, Runs
<1>3. CASE \E c \in Enqueuers : epc[c] = "push"
  <2>1. ~Closed /\ ~Closed'
    BY <1>1, <1>3 DEF Closed
  <2>2. Closed' = Closed
    BY <2>1, ClosedType
  <2> QED
    BY <1>1, <2>2 DEF Abstract
<1> QED
  BY <1>2, <1>3

\* ~ThreadPool() discards what is queued: every worker has left, so nothing
\* is in anybody's hands.
LEMMA DiscardStep ==
  ASSUME IInv, Destroy
  PROVE  TQ!Discard
<1>1. TypeOK /\ StopInv
  BY DEF IInv
<1>2. PICK s \in Stoppers : spc[s] = "returned"
  BY DEF Destroy
<1>3. stop /\ \A w \in Workers : wpc[w] = "exited"
  BY <1>1, <1>2 DEF StopInv
<1>4. Closed /\ Running = {}
  BY <1>3 DEF Closed, Destroy, Running, Runs
<1>5. /\ dropped' = tasks /\ tasks' = <<>> /\ Running' = Running /\ Closed' = Closed
      /\ UNCHANGED <<done, rejected>>
  BY DEF Destroy, workerVars, enqueueVars, Running, Runs, Closed
<1> QED
  BY <1>4, <1>5 DEF TQ!Discard, Running, Runs

-----------------------------------------------------------------------------
\* The pool implements the abstract queue: to its clients, enqueue(),
\* worker_loop(), shutdown() and the destructor are operations of a bounded
\* FIFO queue that closes once and then accepts nothing, although stop_ is set
\* outside mutex_.  The invariant supplies what each operation's guard needs.
THEOREM Implements == Spec => RefinesTaskQueue
<1>1. Init => TQ!Init
  <2> SUFFICES ASSUME Init PROVE TQ!Init
    OBVIOUS
  <2>1. Running = {} /\ ~Closed
    BY DEF Init, Running, Runs, Closed
  <2>2. Closed = FALSE
    BY <2>1, ClosedType
  <2> QED
    BY <2>1, <2>2 DEF Init, TQ!Init, Running, Runs
<1>2. IInv /\ [Next]_vars => [TQ!Next]_(TQ!vars)
  <2> SUFFICES ASSUME IInv, [Next]_vars PROVE TQ!Next \/ UNCHANGED Abstract
    BY DEF TQ!vars, Abstract, Running, Runs
  <2>0. TypeOK /\ MutexInv
    BY DEF IInv
  <2>1. ASSUME NEW c \in Enqueuers, (EnqueueTestStop(c) /\ stop) \/ EnqueueFull(c)
        PROVE  TQ!Next
    <3>1. arg[c] \in Tasks
      BY <2>1, ArgIsNew DEF EnqueueTestStop, EnqueueFull
    <3> QED
      BY <2>1, <3>1, RefuseStep DEF TQ!Next
  <2>2. ASSUME NEW c \in Enqueuers, EnqueuePush(c) PROVE TQ!Next
    <3>1. arg[c] \in Tasks
      BY <2>2, ArgIsNew DEF EnqueuePush
    <3> QED
      BY <2>2, <3>1, SubmitStep DEF TQ!Next
  <2>3. ASSUME NEW w \in Workers, WorkerPop(w) PROVE TQ!Next
    BY <2>3, StartStep DEF TQ!Next
  <2>4. ASSUME NEW w \in Workers, WorkerRunTask(w) PROVE TQ!Next
    BY <2>4, FinishStep DEF TQ!Next
  <2>5. ASSUME NEW s \in Stoppers, ShutdownExchange(s) PROVE TQ!Next \/ UNCHANGED Abstract
    BY <2>0, <2>5, CloseStep DEF TQ!Next
  <2>6. CASE Destroy
    BY <2>6, DiscardStep DEF TQ!Next
  <2>7. CASE UNCHANGED vars
    BY <2>0, <2>7, InvisibleStep
  <2>8. CASE Next
    BY <2>0, <2>1, <2>2, <2>3, <2>4, <2>5, <2>6, <2>8, InvisibleStep
       DEF Next, Enqueue, WorkerStep
  <2> QED
    BY <2>7, <2>8
<1> QED
  BY <1>1, <1>2, Inductive, PTL DEF Spec, RefinesTaskQueue, TQ!Spec
=============================================================================
