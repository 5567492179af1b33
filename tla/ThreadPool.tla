----------------------------- MODULE ThreadPool -----------------------------
(***************************************************************************)
(* server::ThreadPool (src/server/thread_pool.cpp): a bounded queue of     *)
(* tasks behind one mutex and one condition variable, a fixed set of       *)
(* std::jthread workers, and shutdown() / ~ThreadPool().                   *)
(*                                                                         *)
(* One action is one step another thread can observe: taking the mutex,    *)
(* reading or writing an atomic, blocking on the condition variable,       *)
(* notifying it, requesting a stop, joining.  A stretch of code that runs  *)
(* under the mutex and touches only what the mutex protects is one step.   *)
(*                                                                         *)
(* stop_ is an atomic that shutdown() sets WITHOUT the mutex, so a thread  *)
(* that has tested it may act on the old value: enqueue() between its test *)
(* and its push, a worker between the wait predicate and blocking.         *)
(***************************************************************************)
EXTENDS Naturals, Sequences, FiniteSets

CONSTANTS Workers,       \* the jthreads of workers_
          Enqueuers,     \* threads that call enqueue()
          Stoppers,      \* threads that call shutdown(), ~ThreadPool included
          Tasks,         \* one element per call of enqueue()
          MaxQueueSize,  \* max_queue_size_
          None           \* no thread, no task

ASSUME PoolAssumption ==
    /\ Workers # {}
    /\ IsFiniteSet(Workers)
    /\ MaxQueueSize \in Nat
    /\ Workers \cap Enqueuers = {}
    /\ None \notin Workers \cup Enqueuers \cup Tasks

VARIABLES
    mutex,     \* mutex_: the thread that holds it, or None
    tasks,     \* tasks_
    stop,      \* stop_
    stoken,    \* each worker's stop_token: stop_requested()
    active,    \* active_count_
    wpc,       \* where each worker is in worker_loop()
    held,      \* each worker's local variable task
    epc,       \* where each thread is in enqueue()
    arg,       \* the argument of that call
    spc,       \* where each thread is in shutdown()
    joining,   \* the jthread whose destructor workers_.clear() is running
    joined,    \* the jthreads already destroyed
    alive,     \* the pool object has not been destroyed
    \* History, read by the properties only:
    accepted,  \* tasks pushed, in order
    started,   \* tasks popped, in order
    dropped,   \* tasks destroyed with the queue, in order
    done,      \* tasks that have been run
    rejected,  \* tasks whose enqueue() returned false
    late       \* tasks pushed although stop_ was already set

queueVars   == <<mutex, tasks, accepted, started, dropped, late>>
workerVars  == <<wpc, held, active, done>>
enqueueVars == <<epc, arg, rejected>>
stopVars    == <<stop, stoken, spc, joining, joined, alive>>
vars        == <<queueVars, workerVars, enqueueVars, stopVars>>

WorkerPC   == {"loop", "lock", "locked", "block", "waiting",
               "popped", "running", "ran", "exited"}
EnqueuePC  == {"idle", "test", "push", "notify"}
ShutdownPC == {"idle", "notify", "clear", "join", "returned", "early"}

Elems(s)   == {s[i] : i \in DOMAIN s}
Waiting    == {w \in Workers : wpc[w] = "waiting"}

\* The tasks enqueue() has not been called with.
Fresh == {t \in Tasks : /\ t \notin Elems(accepted) \cup rejected
                        /\ \A c \in Enqueuers : arg[c] # t}

-----------------------------------------------------------------------------
(* The constructor: every worker is started, nothing is queued.            *)
Init ==
    /\ mutex = None /\ tasks = <<>>
    /\ accepted = <<>> /\ started = <<>> /\ dropped = <<>> /\ late = {}
    /\ wpc  = [w \in Workers |-> "loop"]
    /\ held = [w \in Workers |-> None]
    /\ active = 0 /\ done = {}
    /\ epc  = [c \in Enqueuers |-> "idle"]
    /\ arg  = [c \in Enqueuers |-> None]
    /\ rejected = {}
    /\ stop = FALSE
    /\ stoken = [w \in Workers |-> FALSE]
    /\ spc  = [s \in Stoppers |-> "idle"]
    /\ joining = None /\ joined = {} /\ alive = TRUE

-----------------------------------------------------------------------------
(* enqueue(task)                                                           *)

\* The call, up to the acquisition of mutex_.
EnqueueLock(c, t) ==
    /\ alive
    /\ epc[c] = "idle"
    /\ mutex = None
    /\ t \in Fresh
    /\ mutex' = c
    /\ epc' = [epc EXCEPT ![c] = "test"]
    /\ arg' = [arg EXCEPT ![c] = t]
    /\ UNCHANGED <<tasks, accepted, started, dropped, late, rejected>>
    /\ UNCHANGED <<workerVars, stopVars>>

\* return false, the lock released by its destructor.
EnqueueReturnsFalse(c) ==
    /\ mutex' = None
    /\ rejected' = rejected \cup {arg[c]}
    /\ epc' = [epc EXCEPT ![c] = "idle"]
    /\ arg' = [arg EXCEPT ![c] = None]
    /\ UNCHANGED <<tasks, accepted, started, dropped, late>>
    /\ UNCHANGED <<workerVars, stopVars>>

\* Mutant: stop_ is not tested.
EnqueueTestStopMutant(c) ==
    /\ epc[c] = "test"
    /\ epc' = [epc EXCEPT ![c] = "push"]
    /\ UNCHANGED <<arg, rejected, queueVars, workerVars, stopVars>>

\* if (stop_) return false;
EnqueueTestStop(c) ==
    /\ epc[c] = "test"
    /\ \/ /\ stop
          /\ EnqueueReturnsFalse(c)
       \/ /\ ~stop
          /\ epc' = [epc EXCEPT ![c] = "push"]
          /\ UNCHANGED <<arg, rejected, queueVars, workerVars, stopVars>>

\* Mutant: the size is compared with > instead of >=.
HasRoomMutant == Len(tasks) <= MaxQueueSize
HasRoom == Len(tasks) < MaxQueueSize

\* if (tasks_.size() >= max_queue_size_) return false;
EnqueueFull(c) ==
    /\ epc[c] = "push"
    /\ ~HasRoom
    /\ EnqueueReturnsFalse(c)

\* tasks_.push(task), end of the locked scope.
EnqueuePush(c) ==
    /\ epc[c] = "push"
    /\ HasRoom
    /\ tasks' = Append(tasks, arg[c])
    /\ accepted' = Append(accepted, arg[c])
    /\ late' = IF stop THEN late \cup {arg[c]} ELSE late
    /\ mutex' = None
    /\ epc' = [epc EXCEPT ![c] = "notify"]
    /\ UNCHANGED <<arg, rejected, started, dropped, workerVars, stopVars>>

\* Mutants: notify_one() is forgotten; is called only for a first task.
WakeNone == wpc' = wpc
WakeForFirst ==
    IF Len(tasks) = 1 /\ Waiting # {}
    THEN \E w \in Waiting : wpc' = [wpc EXCEPT ![w] = "lock"]
    ELSE wpc' = wpc
\* cv_.notify_one().  Without a waiter the call has no effect.
WakeOne ==
    \/ \E w \in Waiting : wpc' = [wpc EXCEPT ![w] = "lock"]
    \/ Waiting = {} /\ wpc' = wpc

\* ... and return true.
EnqueueNotifyOne(c) ==
    /\ epc[c] = "notify"
    /\ WakeOne
    /\ epc' = [epc EXCEPT ![c] = "idle"]
    /\ arg' = [arg EXCEPT ![c] = None]
    /\ UNCHANGED <<rejected, held, active, done, queueVars, stopVars>>

Enqueue(c) ==
    \/ EnqueueTestStop(c) \/ EnqueueFull(c)
    \/ EnqueuePush(c) \/ EnqueueNotifyOne(c)

-----------------------------------------------------------------------------
(* worker_loop(stoken)                                                     *)

WorkerGoto(w, to) == wpc' = [wpc EXCEPT ![w] = to]

\* while (!stoken.stop_requested())
WorkerTestToken(w) ==
    /\ wpc[w] = "loop"
    /\ WorkerGoto(w, IF stoken[w] THEN "exited" ELSE "lock")
    /\ UNCHANGED <<held, active, done, queueVars, enqueueVars, stopVars>>

\* unique_lock lock(mutex_), and the re-acquisition when cv_.wait is woken.
WorkerLock(w) ==
    /\ wpc[w] = "lock"
    /\ mutex = None
    /\ mutex' = w
    /\ WorkerGoto(w, "locked")
    /\ UNCHANGED <<tasks, accepted, started, dropped, late>>
    /\ UNCHANGED <<held, active, done, enqueueVars, stopVars>>

\* The wait predicate is false.  The worker still holds mutex_, but stop_ may
\* be set before it blocks.
WorkerPredicateFalse(w) ==
    /\ wpc[w] = "locked"
    /\ ~stop /\ tasks = <<>> /\ ~stoken[w]
    /\ WorkerGoto(w, "block")
    /\ UNCHANGED <<held, active, done, queueVars, enqueueVars, stopVars>>

\* cv_.wait releases mutex_ and blocks, in one step with respect to notify.
WorkerBlock(w) ==
    /\ wpc[w] = "block"
    /\ mutex' = None
    /\ WorkerGoto(w, "waiting")
    /\ UNCHANGED <<tasks, accepted, started, dropped, late>>
    /\ UNCHANGED <<held, active, done, enqueueVars, stopVars>>

\* A condition variable may wake a waiter that nobody notified.
SpuriousWake(w) ==
    /\ wpc[w] = "waiting"
    /\ WorkerGoto(w, "lock")
    /\ UNCHANGED <<held, active, done, queueVars, enqueueVars, stopVars>>

\* The predicate is true, the queue is empty: return.  (The "continue" that
\* follows in the code needs an empty queue with neither flag set, which the
\* predicate has just excluded and the flags, never reset, exclude since.)
WorkerReturn(w) ==
    /\ wpc[w] = "locked"
    /\ tasks = <<>>
    /\ stop \/ stoken[w]
    /\ mutex' = None
    /\ WorkerGoto(w, "exited")
    /\ UNCHANGED <<tasks, accepted, started, dropped, late>>
    /\ UNCHANGED <<held, active, done, enqueueVars, stopVars>>

\* Mutant: front() without pop().
AfterPopMutant == tasks
\* tasks_.pop()
AfterPop == Tail(tasks)

\* task = move(tasks_.front()); tasks_.pop(); the lock is released.
WorkerPop(w) ==
    /\ wpc[w] = "locked"
    /\ tasks # <<>>
    /\ held' = [held EXCEPT ![w] = Head(tasks)]
    /\ tasks' = AfterPop
    /\ started' = Append(started, Head(tasks))
    /\ mutex' = None
    /\ WorkerGoto(w, "popped")
    /\ UNCHANGED <<accepted, dropped, late, active, done, enqueueVars, stopVars>>

\* Mutant: active_count_ is not incremented.
WorkerCountUpMutant(w) ==
    /\ wpc[w] = "popped"
    /\ WorkerGoto(w, "running")
    /\ UNCHANGED <<held, active, done, queueVars, enqueueVars, stopVars>>

\* active_count_++
WorkerCountUp(w) ==
    /\ wpc[w] = "popped"
    /\ active' = active + 1
    /\ WorkerGoto(w, "running")
    /\ UNCHANGED <<held, done, queueVars, enqueueVars, stopVars>>

\* Mutant: an exception leaves the loop body without ending the task.
WorkerRunTaskMutant(w) ==
    /\ wpc[w] = "running"
    /\ \/ done' = done \cup {held[w]} /\ WorkerGoto(w, "ran")
       \/ done' = done /\ WorkerGoto(w, "exited")
    /\ UNCHANGED <<held, active, queueVars, enqueueVars, stopVars>>

\* task() returns, or throws and the exception stops at catch (...).
WorkerRunTask(w) ==
    /\ wpc[w] = "running"
    /\ done' = done \cup {held[w]}
    /\ WorkerGoto(w, "ran")
    /\ UNCHANGED <<held, active, queueVars, enqueueVars, stopVars>>

\* active_count_--; task is destroyed at the end of the iteration.
WorkerCountDown(w) ==
    /\ wpc[w] = "ran"
    /\ active' = active - 1
    /\ held' = [held EXCEPT ![w] = None]
    /\ WorkerGoto(w, "loop")
    /\ UNCHANGED <<done, queueVars, enqueueVars, stopVars>>

\* What a worker does without waiting for another thread.
WorkerStep(w) ==
    \/ WorkerTestToken(w) \/ WorkerPredicateFalse(w) \/ WorkerBlock(w)
    \/ WorkerReturn(w) \/ WorkerPop(w)
    \/ WorkerCountUp(w) \/ WorkerRunTask(w) \/ WorkerCountDown(w)

-----------------------------------------------------------------------------
(* shutdown() and ~ThreadPool()                                            *)

\* if (!stop_.exchange(true)): only the first caller goes on.
ShutdownExchange(s) ==
    /\ alive
    /\ spc[s] = "idle"
    /\ stop' = TRUE
    /\ spc' = [spc EXCEPT ![s] = IF stop THEN "early" ELSE "notify"]
    /\ UNCHANGED <<stoken, joining, joined, alive>>
    /\ UNCHANGED <<queueVars, workerVars, enqueueVars>>

\* Mutant: stop_ is set and nobody is notified.
ShutdownNotifyAllMutant(s) ==
    /\ spc[s] = "notify"
    /\ spc' = [spc EXCEPT ![s] = "clear"]
    /\ UNCHANGED <<stop, stoken, joining, joined, alive>>
    /\ UNCHANGED <<workerVars, queueVars, enqueueVars>>

\* cv_.notify_all(), without mutex_.
ShutdownNotifyAll(s) ==
    /\ spc[s] = "notify"
    /\ wpc' = [w \in Workers |-> IF w \in Waiting THEN "lock" ELSE wpc[w]]
    /\ spc' = [spc EXCEPT ![s] = "clear"]
    /\ UNCHANGED <<stop, stoken, joining, joined, alive>>
    /\ UNCHANGED <<held, active, done, queueVars, enqueueVars>>

\* workers_.clear(), the jthread destructor of one worker: request_stop().
\* The standard leaves the order of destruction open.  Nothing waits on the
\* stop token, so the request wakes nobody.
ShutdownRequestStop(s, w) ==
    /\ spc[s] = "clear"
    /\ w \notin joined
    /\ stoken' = [stoken EXCEPT ![w] = TRUE]
    /\ joining' = w
    /\ spc' = [spc EXCEPT ![s] = "join"]
    /\ UNCHANGED <<stop, joined, alive, queueVars, workerVars, enqueueVars>>

\* Mutant: the workers are detached, not joined.
WorkerGoneMutant == TRUE
WorkerGone == wpc[joining] = "exited"

\* ... and join().  After the last worker shutdown() returns.
ShutdownJoin(s) ==
    /\ spc[s] = "join"
    /\ WorkerGone
    /\ joined' = joined \cup {joining}
    /\ joining' = None
    /\ spc' = [spc EXCEPT ![s] =
                  IF joined' = Workers THEN "returned" ELSE "clear"]
    /\ UNCHANGED <<stop, stoken, alive, queueVars, workerVars, enqueueVars>>

Shutdown(s) ==
    \/ ShutdownNotifyAll(s) \/ ShutdownJoin(s)
    \/ \E w \in Workers : ShutdownRequestStop(s, w)

\* The rest of ~ThreadPool(), after its call of shutdown(): tasks_ is
\* destroyed with whatever it holds.  Its caller, as of any destructor,
\* answers for no other call being in progress.
Destroy ==
    /\ alive
    /\ \A c \in Enqueuers : epc[c] = "idle"
    /\ \A s \in Stoppers : spc[s] \in {"idle", "returned", "early"}
    /\ \E s \in Stoppers : spc[s] = "returned"
    /\ alive' = FALSE
    /\ dropped' = tasks
    /\ tasks' = <<>>
    /\ UNCHANGED <<mutex, accepted, started, late>>
    /\ UNCHANGED <<stop, stoken, spc, joining, joined, workerVars, enqueueVars>>

-----------------------------------------------------------------------------
Next ==
    \/ \E c \in Enqueuers, t \in Tasks : EnqueueLock(c, t)
    \/ \E c \in Enqueuers : Enqueue(c)
    \/ \E w \in Workers : WorkerLock(w) \/ WorkerStep(w) \/ SpuriousWake(w)
    \/ \E s \in Stoppers : ShutdownExchange(s) \/ Shutdown(s)
    \/ Destroy

Spec == Init /\ [][Next]_vars

\* The scheduler runs every thread that can run, a thread that waits for
\* mutex_ gets it if it is released again and again, and tasks terminate
\* (handle_connection is bounded by its timeouts and its limits).  Nothing
\* makes anybody call enqueue() or shutdown(), and no waiter may count on a
\* spurious wake-up.
Fairness ==
    /\ \A w \in Workers : WF_vars(WorkerStep(w)) /\ SF_vars(WorkerLock(w))
    /\ \A c \in Enqueuers : WF_vars(Enqueue(c))
    /\ \A s \in Stoppers : WF_vars(Shutdown(s))

FairSpec == Spec /\ Fairness
-----------------------------------------------------------------------------
(* Properties                                                              *)

\* Every variable keeps the type its declaration in the class gives it; in
\* particular active_count_, a size_t, is never decremented below zero.
TypeOK ==
    /\ mutex \in Workers \cup Enqueuers \cup {None}
    /\ tasks \in Seq(Tasks) /\ accepted \in Seq(Tasks)
    /\ started \in Seq(Tasks) /\ dropped \in Seq(Tasks)
    /\ late \subseteq Tasks /\ done \subseteq Tasks /\ rejected \subseteq Tasks
    /\ wpc \in [Workers -> WorkerPC]
    /\ held \in [Workers -> Tasks \cup {None}]
    /\ active \in Nat
    /\ epc \in [Enqueuers -> EnqueuePC]
    /\ arg \in [Enqueuers -> Tasks \cup {None}]
    /\ stop \in BOOLEAN /\ alive \in BOOLEAN
    /\ stoken \in [Workers -> BOOLEAN]
    /\ spc \in [Stoppers -> ShutdownPC]
    /\ joining \in Workers \cup {None}
    /\ joined \subseteq Workers

\* Backpressure: however many threads race in enqueue(), the queue never
\* outgrows max_queue_size_ (the test and the push share one locked scope).
QueueBounded == Len(tasks) <= MaxQueueSize

\* Tasks are neither lost, duplicated nor reordered: what enqueue() accepted
\* is, in that order, what workers popped, then what is queued, then what the
\* destructor dropped; and a task enqueue() refused is not among it, so the
\* accept loop may safely answer 503 on the socket the task captured.
FifoExactlyOnce ==
    /\ accepted = started \o tasks \o dropped
    /\ \A i, j \in DOMAIN accepted : accepted[i] = accepted[j] => i = j
    /\ rejected \cap Elems(accepted) = {}

\* A popped task has been run or is in the hands of exactly one worker.
Carrying(w) == wpc[w] \in {"popped", "running", "ran"}
StartedAccountedFor ==
    /\ Elems(started) = done \cup {held[w] : w \in {v \in Workers : Carrying(v)}}
    /\ \A v, w \in Workers :
           v # w /\ Carrying(v) /\ Carrying(w) => held[v] # held[w]

\* Whatever producers, workers and shutdowns do, no accepted task is lost,
\* reordered or run twice on its way through the queue and the workers.
TasksAccounted == FifoExactlyOnce /\ StartedAccountedFor

\* active_workers() is the number of workers inside active_count_++ ... --,
\* whatever happened to the tasks they ran.
ActiveCountExact ==
    active = Cardinality({w \in Workers : wpc[w] \in {"running", "ran"}})

\* No lost wake-up while the pool runs: a queued task always has a worker
\* that is awake, or a notify_one() on its way, unless shutdown has begun.
NoLostWakeup ==
    tasks # <<>> /\ ~stop =>
        \/ \E w \in Workers : wpc[w] \notin {"waiting", "exited"}
        \/ \E c \in Enqueuers : epc[c] = "notify"

\* When the call of shutdown() that set stop_ returns, every worker has left
\* worker_loop and every task a worker ever took has been run to its end.
ShutdownWaitsForInFlight ==
    \A s \in Stoppers : spc[s] = "returned" =>
        /\ \A w \in Workers : wpc[w] = "exited"
        /\ Elems(started) \subseteq done

\* enqueue() tests stop_ under mutex_ but shutdown() sets it without: a push
\* may follow the exchange.  The mutex lets only one call do so, ever.
AtMostOneLateAccept == \A t, u \in late : t = u

\* shutdown() notifies without mutex_, so a worker past its predicate can
\* miss it.  It must hold mutex_ at that moment, so at most one worker does.
Notified == \E s \in Stoppers : spc[s] \in {"clear", "join", "returned"}
AtMostOneMissesShutdown ==
    Notified => \A v, w \in Workers :
                   wpc[v] \in {"block", "waiting"} /\ wpc[w] \in {"block", "waiting"}
                      => v = w

\* What shutdown() does without mutex_ goes wrong once at most, however many
\* threads there are: one late task, one worker that misses the notification.
RaceBounded == AtMostOneLateAccept /\ AtMostOneMissesShutdown

\* Work-conserving: while the pool runs, a worker sleeps only if every queued
\* task has an idle worker awake or a notify_one() on its way to wake one.
Idle == {w \in Workers : wpc[w] \in {"loop", "lock", "locked", "block"}}
Notifying == {c \in Enqueuers : epc[c] = "notify"}
NoIdleSleeper ==
    ~stop /\ Waiting # {} =>
        Len(tasks) <= Cardinality(Idle) + Cardinality(Notifying)

-----------------------------------------------------------------------------
(* The pool implements TaskQueue.  A task runs from the pop to its end; the *)
(* queue closes when stop_ is set and no enqueue() is past its test of it.  *)
Closed == stop /\ \A c \in Enqueuers : epc[c] # "push"

TQ == INSTANCE TaskQueue WITH
    Capacity   <- MaxQueueSize,
    MaxRunning <- Cardinality(Workers),
    queue      <- tasks,
    running    <- {held[w] : w \in {v \in Workers : wpc[v] \in {"popped", "running"}}},
    refused    <- rejected,
    lost       <- dropped,
    closed     <- Closed

\* Seen from outside, every step of every thread is one operation of a bounded
\* queue that closes once, or nothing: enqueue(), worker_loop() and shutdown()
\* are atomic to their callers although stop_ is set outside mutex_.
RefinesTaskQueue == TQ!Spec

-----------------------------------------------------------------------------
(* What the documentation and the tests say of shutdown, which the code     *)
(* does not guarantee (see the findings).                                   *)

\* docs/architecture.md: shutdown() "waits for completion via jthread join".
ShutdownReturns ==
    \A s \in Stoppers : spc[s] = "notify" ~> spc[s] = "returned"

\* tests/unit/test_thread_pool.cpp enqueues five tasks, calls shutdown() and
\* expects all five to have run: what was accepted before the call is run.
ShutdownDrainsQueue ==
    \A s \in Stoppers :
        spc[s] = "returned" => Elems(accepted) \ late \subseteq done
=============================================================================
