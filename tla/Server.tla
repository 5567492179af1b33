-------------------------------- MODULE Server --------------------------------
(***************************************************************************)
(* The life of the server process: main() (src/main.cpp), server::Server   *)
(* (src/server/server.cpp) with its listener and its accept loops,         *)
(* composed with the ThreadPool it owns.  Tasks are client connections:    *)
(* the task enqueued for one is handle_connection on its socket.           *)
(*                                                                         *)
(* The process is stopped in one of two ways.  The program installs a      *)
(* handler for SIGINT and SIGTERM that calls stop(); the kernel runs it on *)
(* the main thread, whose own code waits meanwhile, and a second signal    *)
(* nests inside the first.  The integration tests call stop() from another *)
(* thread.  Either can happen between any two steps of the main thread.    *)
(*                                                                         *)
(* main() may return, or the process may be ended from anywhere: by a      *)
(* write to a client that has gone (SIGPIPE keeps its default action), by  *)
(* an exception that leaves a thread of the baseline mode, or by a signal  *)
(* whose handler finds g_server destroyed.                                 *)
(***************************************************************************)
EXTENDS ThreadPool

CONSTANTS Main,     \* the thread that runs start(), the only caller of enqueue()
          Signals,  \* SIGINT and SIGTERM
          Callers,  \* other threads that call stop()
          Dtor      \* ~Server(), as a caller of ThreadPool::shutdown()

ASSUME ServerAssumption ==
    /\ Enqueuers = {Main}
    /\ Stoppers = Signals \cup Callers \cup {Dtor}
    /\ Dtor \notin Signals \cup Callers /\ Signals \cap Callers = {}

VARIABLES
    baseline,   \* config_.num_workers = 0
    mpc,        \* where the main thread is
    running,    \* running_
    listening,  \* listener_'s socket is valid
    pool,       \* pool_ is not null
    client,     \* the connection in hand in accept_loop()
    hpc,        \* where each caller of stop() is
    nested,     \* the signal handlers on the main thread's stack
    conn,       \* the kernel's view of each connection
    serving,    \* connections in a thread of the baseline mode
    fate,       \* of the process: it runs, or how it ended
    \* History
    served,     \* connections such a thread has finished with
    busy503,    \* connections answered 503 by the accept loop
    after       \* connections taken from the backlog although running_ was false

serverVars == <<baseline, mpc, running, listening, pool, client, hpc, nested,
                conn, serving, fate, served, busy503, after>>
allVars == <<vars, serverVars>>

MainPC == {"setup", "listen", "run", "make", "loop", "accept", "blocked",
           "enqueue", "refuse", "join", "leave", "destroy", "exited"}
Fates == {"runs", "returned", "terminated", "SIGPIPE", "undefined"}
StopPC == {"never", "idle", "running", "listener", "pool", "shutdown", "done"}

Top == nested[Len(nested)]

\* At first signals are handled but g_server is null.
ServerInit ==
    /\ Init
    /\ baseline \in BOOLEAN
    /\ mpc = "setup" /\ running = FALSE /\ listening = FALSE /\ pool = FALSE
    /\ client = None
    /\ \E who \in {Signals, Callers} :
          hpc = [s \in Stoppers |-> IF s \in who THEN "idle" ELSE "never"]
    /\ nested = <<>>
    /\ conn = [c \in Tasks |-> "new"]
    /\ fate = "runs"
    /\ serving = {} /\ served = {} /\ busy503 = {} /\ after = {}

-----------------------------------------------------------------------------
(* The network                                                             *)

\* A connection completes while the kernel's socket listens: until it is closed
\* and no thread is inside accept() on it.
Connect(c) ==
    /\ fate = "runs"
    /\ conn[c] = "new"
    /\ listening \/ mpc = "blocked"
    /\ conn' = [conn EXCEPT ![c] = "pending"]
    /\ UNCHANGED <<vars, baseline, mpc, running, listening, pool, client, hpc>>
    /\ UNCHANGED <<nested, serving, fate, served, busy503, after>>

\* The backlog of a socket that is gone is reset.
Reset(cs) == [c \in Tasks |-> IF c \in cs /\ conn[c] = "pending" THEN "reset" ELSE conn[c]]

-----------------------------------------------------------------------------
(* The main thread: main() and start()                                     *)

Goto(to) ==
    /\ mpc' = to
    /\ UNCHANGED <<baseline, hpc, nested, serving, fate, served>>

\* Server server(config); g_server = &server;
SetGServer ==
    /\ mpc = "setup"
    /\ Goto("listen")
    /\ UNCHANGED <<vars, running, listening, pool, client, conn, busy503, after>>

\* listener_.start(): socket, bind and listen, each of which may fail.
ListenerStart ==
    /\ mpc = "listen"
    /\ \E ok \in BOOLEAN : /\ listening' = ok
                           /\ Goto(IF ok THEN "run" ELSE "leave")
    /\ UNCHANGED <<vars, running, pool, client, conn, busy503, after>>

\* running_ = true
SetRunning ==
    /\ mpc = "run"
    /\ running' = TRUE
    /\ Goto("make")
    /\ UNCHANGED <<vars, listening, pool, client, conn, busy503, after>>

\* The choice of the mode; pool_ = make_unique<ThreadPool>(...).
MakePool ==
    /\ mpc = "make"
    /\ pool' = ~baseline
    /\ Goto("loop")
    /\ UNCHANGED <<vars, running, listening, client, conn, busy503, after>>

\* Mutant: while (true).
LoopGoesOnMutant == TRUE
\* while (running_)
LoopGoesOn == running

LoopTest ==
    /\ mpc = "loop"
    /\ Goto(IF LoopGoesOn THEN "accept" ELSE IF baseline THEN "join" ELSE "leave")
    /\ UNCHANGED <<vars, running, listening, pool, client, conn, busy503, after>>

\* Listener::accept(): an invalid socket gives an invalid client, and the loop
\* goes on; else ::accept.  (A close between the two makes ::accept fail with
\* EBADF, which comes to the same.)
AcceptCall ==
    /\ mpc = "accept"
    /\ Goto(IF listening THEN "blocked" ELSE "loop")
    /\ UNCHANGED <<vars, running, listening, pool, client, conn, busy503, after>>

\* ::accept returns a connection.  The socket it waited on may have been closed
\* meanwhile; then this was the last use of it.
AcceptReturns(c) ==
    /\ mpc = "blocked"
    /\ conn[c] = "pending"
    /\ conn' = [IF listening THEN conn ELSE Reset(Tasks \ {c}) EXCEPT ![c] = "taken"]
    /\ after' = IF running THEN after ELSE after \cup {c}
    /\ \/ /\ baseline               \* threads.emplace_back(...)
          /\ serving' = serving \cup {c}
          /\ mpc' = "loop"
          /\ UNCHANGED client
       \/ /\ ~baseline
          /\ client' = c
          /\ mpc' = "enqueue"
          /\ UNCHANGED serving
    /\ UNCHANGED <<vars, baseline, running, listening, pool, hpc, nested>>
    /\ UNCHANGED <<fate, served, busy503>>

\* Mutant: is_valid() is not tested, and a thread gets the invalid socket.
AcceptFailsMutant ==
    /\ mpc = "blocked" /\ baseline
    /\ serving' = serving \cup {None}
    /\ mpc' = "loop"
    /\ UNCHANGED <<vars, baseline, running, listening, pool, client, hpc>>
    /\ UNCHANGED <<nested, conn, fate, served, busy503, after>>

\* ::accept fails (ECONNABORTED, EMFILE, ...): continue.
AcceptFails ==
    /\ mpc = "blocked"
    /\ conn' = IF listening THEN conn ELSE Reset(Tasks)
    /\ Goto("loop")
    /\ UNCHANGED <<vars, running, listening, pool, client, busy503, after>>

\* pool_->enqueue(task)
EnqueueCall ==
    /\ mpc = "enqueue"
    /\ EnqueueLock(Main, client)
    /\ UNCHANGED serverVars

\* Mutants: the result of enqueue() is negated, is ignored.
RefusedMutant(c) == c \notin rejected'
RefusedIgnored(c) == FALSE
\* if (!pool_->enqueue(...))
Refused(c) == c \in rejected'

\* ... until it returns; false sends the loop to its 503.
EnqueueBody ==
    /\ mpc = "enqueue"
    /\ Enqueue(Main)
    /\ \/ epc'[Main] # "idle" /\ UNCHANGED <<mpc, client>>
       \/ epc'[Main] = "idle" /\ Refused(client) /\ mpc' = "refuse" /\ UNCHANGED client
       \/ epc'[Main] = "idle" /\ ~Refused(client) /\ mpc' = "loop" /\ client' = None
    /\ UNCHANGED <<baseline, running, listening, pool, hpc, nested, conn>>
    /\ UNCHANGED <<serving, fate, served, busy503, after>>

\* The 503 is written, a few bytes for an empty send buffer, and the connection
\* closed at the end of the scope.  That the write failed, because the client
\* has reset the connection, makes no difference, unless it raised SIGPIPE.
Refuse503 ==
    /\ mpc = "refuse"
    /\ busy503' = busy503 \cup {client}
    /\ client' = None
    /\ Goto("loop")
    /\ UNCHANGED <<vars, running, listening, pool, conn, after>>

\* Mutant: the threads are detached.
AllJoinedMutant == TRUE
\* for (auto& t : threads) t.join()
AllJoined == serving = {}

JoinThreads ==
    /\ mpc = "join"
    /\ AllJoined
    /\ Goto("leave")
    /\ UNCHANGED <<vars, running, listening, pool, client, conn, busy503, after>>

\* A thread of the baseline mode: handle_connection returns.
ThreadEnds(c) ==
    /\ fate = "runs"
    /\ c \in serving
    /\ serving' = serving \ {c}
    /\ served' = served \cup {c}
    /\ UNCHANGED <<vars, baseline, mpc, running, listening, pool, client, hpc>>
    /\ UNCHANGED <<nested, conn, fate, busy503, after>>

-----------------------------------------------------------------------------
(* ~Server(), when start() has returned and no other thread is in stop():   *)
(* pool_ is destroyed, then the listener's socket.                          *)

LeaveMain ==
    /\ mpc = "leave"
    /\ \A s \in Callers : hpc[s] \in {"never", "idle", "done"}
    /\ \/ pool /\ ShutdownExchange(Dtor) /\ Goto("destroy")
                  /\ UNCHANGED <<conn, listening>>
       \/ ~pool /\ Goto("exited") /\ listening' = FALSE /\ conn' = Reset(Tasks)
                  /\ UNCHANGED vars
    /\ UNCHANGED <<running, pool, client, busy503, after>>

\* ~ThreadPool() calls shutdown() ...
DtorShutdown ==
    /\ mpc = "destroy"
    /\ Shutdown(Dtor)
    /\ UNCHANGED serverVars

\* ... and the rest of the pool goes, the queue with what it holds.
DtorDestroy ==
    /\ mpc = "destroy"
    /\ spc[Dtor] \in {"returned", "early"}
    /\ Destroy
    /\ listening' = FALSE
    /\ conn' = Reset(Tasks)
    /\ Goto("exited")
    /\ UNCHANGED <<running, pool, client, busy503, after>>

\* return 0
MainReturns ==
    /\ mpc = "exited"
    /\ fate' = "returned"
    /\ UNCHANGED <<vars, baseline, mpc, running, listening, pool, client, hpc>>
    /\ UNCHANGED <<nested, conn, serving, served, busy503, after>>

-----------------------------------------------------------------------------
(* The other ends of the process                                           *)

\* What cuts the process off leaves everything else as it was.
EndsProcess(how) ==
    /\ fate = "runs"
    /\ fate' = how
    /\ UNCHANGED <<vars, baseline, mpc, running, listening, pool, client, hpc>>
    /\ UNCHANGED <<nested, conn, serving, served, busy503, after>>

\* An exception leaves a thread: handle_connection throws in one of the baseline
\* mode, or the thread for a new client cannot be created, which leaves main().
\* (What is thrown in a worker stops at the pool's catch (...).)
Terminate ==
    /\ \/ serving # {}
       \/ baseline /\ nested = <<>> /\ mpc = "blocked" /\ \E c \in Tasks : conn[c] = "pending"
    /\ EndsProcess("terminated")

\* The accept loop, a thread or a worker writes to a client that has closed and
\* reset the connection (ConnectionHandler!WriteReset).
SigPipe ==
    /\ \/ nested = <<>> /\ mpc = "refuse"
       \/ serving # {}
       \/ pool /\ \E w \in Workers : wpc[w] = "running"
    /\ EndsProcess("SIGPIPE")

-----------------------------------------------------------------------------
(* signal_handler and stop()                                               *)

StopGoto(s, to) ==
    /\ hpc' = [hpc EXCEPT ![s] = to]
    /\ nested' = IF to = "done" /\ s \in Signals
                 THEN SubSeq(nested, 1, Len(nested) - 1) ELSE nested
    /\ UNCHANGED <<baseline, mpc, pool, client, serving, fate, served, busy503, after>>

\* Mutant: sa_flags = SA_RESTART.
InterruptedMutant(pc) == pc
\* sa_flags = 0: ::accept will return EINTR, which the accept loop takes for
\* "no client".
Interrupted(pc) == IF pc = "blocked" THEN "loop" ELSE pc

\* A signal arrives.
TakeSignal(s) ==
    /\ fate = "runs" /\ s \in Signals /\ hpc[s] = "idle" /\ mpc # "exited"
    /\ hpc' = [hpc EXCEPT ![s] = "running"]
    /\ nested' = Append(nested, s)
    /\ mpc' = Interrupted(mpc)
    /\ UNCHANGED <<vars, baseline, running, listening, pool, client, conn>>
    /\ UNCHANGED <<serving, fate, served, busy503, after>>

\* A signal arrives after ~Server(): g_server still points to the server, and
\* stop() runs on a destroyed object.  It may find a closed socket and a null
\* pool_ there and return, or do anything.
TakeSignalLate(s) ==
    /\ fate = "runs" /\ s \in Signals /\ hpc[s] = "idle" /\ mpc = "exited"
    /\ hpc' = [hpc EXCEPT ![s] = "done"]
    /\ fate' \in {"runs", "undefined"}
    /\ UNCHANGED <<vars, baseline, mpc, running, listening, pool, client, nested>>
    /\ UNCHANGED <<conn, serving, served, busy503, after>>

\* A test's TearDown calls stop(), on a server whose thread it has started.
CallStop(s) ==
    /\ fate = "runs"
    /\ s \in Callers /\ hpc[s] = "idle" /\ mpc \notin {"setup", "exited"}
    /\ StopGoto(s, "running")
    /\ UNCHANGED <<vars, running, listening, conn>>

\* if (g_server) ...; running_ = false
StopRunning(s) ==
    /\ hpc[s] = "running"
    /\ \/ mpc = "setup" /\ StopGoto(s, "done") /\ UNCHANGED running
       \/ mpc # "setup" /\ StopGoto(s, "listener") /\ running' = FALSE
    /\ UNCHANGED <<vars, listening, conn>>

\* listener_.stop(): the socket is closed.  A thread inside ::accept is not
\* woken, and the kernel's socket stays open as long as it is there.
StopListener(s) ==
    /\ hpc[s] = "listener"
    /\ listening' = FALSE
    /\ conn' = IF mpc = "blocked" THEN conn ELSE Reset(Tasks)
    /\ StopGoto(s, "pool")
    /\ UNCHANGED <<vars, running>>

\* if (pool_) pool_->shutdown()
StopPool(s) ==
    /\ hpc[s] = "pool"
    /\ \/ pool /\ ShutdownExchange(s) /\ StopGoto(s, "shutdown")
       \/ ~pool /\ StopGoto(s, "done") /\ UNCHANGED vars
    /\ UNCHANGED <<running, listening, conn>>

StopShutdown(s) ==
    /\ hpc[s] = "shutdown"
    /\ Shutdown(s)
    /\ UNCHANGED serverVars

\* shutdown() has returned, and stop() does.
StopReturns(s) ==
    /\ hpc[s] = "shutdown"
    /\ spc[s] \in {"returned", "early"}
    /\ StopGoto(s, "done")
    /\ UNCHANGED <<vars, running, listening, conn>>

-----------------------------------------------------------------------------
\* What the main thread does by itself, when no handler runs on it.
OnMain == fate = "runs" /\ nested = <<>>
MainStep ==
    /\ OnMain
    /\ \/ SetGServer \/ ListenerStart \/ SetRunning \/ MakePool
       \/ LoopTest \/ AcceptCall \/ EnqueueBody \/ Refuse503
       \/ JoinThreads \/ LeaveMain \/ DtorShutdown \/ DtorDestroy \/ MainReturns

MainLock   == OnMain /\ EnqueueCall
MainAccept == OnMain /\ \E c \in Tasks : AcceptReturns(c)
MainFails  == OnMain /\ AcceptFails

StopStep(s) ==
    /\ fate = "runs"
    /\ s \in Signals => nested # <<>> /\ s = Top
    /\ StopRunning(s) \/ StopListener(s) \/ StopPool(s) \/ StopShutdown(s) \/ StopReturns(s)

InPool == fate = "runs" /\ pool /\ UNCHANGED serverVars
PoolWorker(w) == InPool /\ WorkerStep(w)
PoolWorkerLock(w) == InPool /\ WorkerLock(w)
PoolWake(w) == InPool /\ SpuriousWake(w)

ServerNext ==
    \/ MainStep \/ MainLock \/ MainAccept \/ MainFails
    \/ \E c \in Tasks : Connect(c) \/ ThreadEnds(c)
    \/ \E w \in Workers : PoolWorker(w) \/ PoolWorkerLock(w) \/ PoolWake(w)
    \/ \E s \in Signals \cup Callers :
          TakeSignal(s) \/ TakeSignalLate(s) \/ CallStop(s) \/ StopStep(s)
    \/ Terminate \/ SigPipe

ServerSpec == ServerInit /\ [][ServerNext]_allVars

\* As in ThreadPool: threads that can run do run, a mutex released again and
\* again is got, handle_connection returns unless the process ends.  accept()
\* does not fail for ever while connections wait.  Nobody need connect or stop.
ServerFairness ==
    /\ WF_allVars(MainStep) /\ SF_allVars(MainLock) /\ SF_allVars(MainAccept)
    /\ \A w \in Workers : WF_allVars(PoolWorker(w)) /\ SF_allVars(PoolWorkerLock(w))
    /\ \A c \in Tasks : WF_allVars(ThreadEnds(c))
    /\ \A s \in Signals \cup Callers : WF_allVars(StopStep(s))

ServerFairSpec == ServerSpec /\ ServerFairness
-----------------------------------------------------------------------------
(* Properties                                                              *)

\* Every variable of the server keeps its type.
ServerTypeOK ==
    /\ TypeOK
    /\ mpc \in MainPC /\ hpc \in [Stoppers -> StopPC]
    /\ {baseline, running, listening, pool} \subseteq BOOLEAN
    /\ client \in Tasks \cup {None}
    /\ nested \in Seq(Signals)
    /\ conn \in [Tasks -> {"new", "pending", "taken", "reset"}]
    /\ fate \in Fates
    /\ UNION {serving, served, busy503, after} \subseteq Tasks

\* Where the descriptor of a connection taken from the backlog can be.
Places(c) ==
    {p \in {"accept loop", "queue", "worker", "served", "503", "dropped"} :
        \/ p = "accept loop" /\ client = c /\ c \notin Elems(accepted)
        \/ p = "queue" /\ c \in Elems(tasks)
        \/ p = "worker" /\ \/ c \in serving
                           \/ \E w \in Workers : held[w] = c /\ wpc[w] # "ran"
        \/ p = "served" /\ c \in done \cup served
        \/ p = "503" /\ c \in busy503
        \/ p = "dropped" /\ c \in Elems(dropped)}

\* The socket is moved, never shared: whatever the accept loop, the pool, a
\* stop and the destructors do, it is in one place, so it is closed once, and
\* no client is both answered 503 and served.
OneOwner == \A c \in Tasks : Cardinality(Places(c)) = IF conn[c] = "taken" THEN 1 ELSE 0

\* The ends of the process and the clients.  stop() ends it under nobody: when
\* ~Server() is over all threads are gone, and a connection that was neither
\* served nor answered 503 was still in the queue of a pool that had been
\* stopped.  A client loses its server half way only to an exception in a
\* thread of the baseline mode (std::terminate) or to SIGPIPE; in the pool's
\* workers an exception ends nothing.
InHands(c) == Places(c) \cap {"accept loop", "worker"} # {}
CleanExit ==
    /\ mpc = "exited" =>
        /\ pool => \A w \in Workers : wpc[w] = "exited"
        /\ \A c \in Tasks : conn[c] = "taken" => Places(c) \subseteq {"served", "503", "dropped"}
        /\ \A c \in Tasks : conn[c] # "pending"
    /\ fate # "runs" /\ (\E c \in Tasks : InHands(c)) =>
           fate = "SIGPIPE" \/ (fate = "terminated" /\ baseline)

\* Once running_ is false the accept loop takes at most one more connection,
\* the one it may have been waiting for.
OneConnectionAfterStop == \A c, d \in after : c = d

\* Busy workers never stall the accept loop: every client in the backlog is
\* served or told 503, unless stop() closes the listener or the pool under it
\* or the process is cut off by SIGPIPE or an exception.
EveryClientAnswered ==
    \A c \in Tasks :
        conn[c] = "pending" ~> \/ c \in done \cup served \cup busy503
                               \/ ~listening \/ stop
                               \/ fate \in {"SIGPIPE", "terminated"}

\* A worker misses shutdown()'s notification (ThreadPool): notify_all() is over
\* and has found it past its predicate, not yet asleep.  Unnotified: it still
\* sleeps or is about to.
WorkerMissed == Notified /\ \E w \in Workers : wpc[w] = "block"
Unnotified == Notified /\ \E w \in Workers : wpc[w] \in {"block", "waiting"}

\* A signal ends the process, provided that it comes after running_ = true and
\* not while the main thread holds the pool's mutex, and that no worker misses
\* the notification.  stop() from another thread ends start() too, but only if
\* the accept loop is not waiting in ::accept, which nothing interrupts.
StopEndsServer ==
    \A s \in Signals \cup Callers :
        (/\ hpc[s] = "listener" /\ ~running /\ mpc \notin {"listen", "run"}
         /\ s \in Signals => mutex # Main
         /\ ~Unnotified)
            ~> \/ fate # "runs"
               \/ WorkerMissed
               \/ s \in Callers /\ mpc = "blocked"

\* docs/requirements_traceability.md: "Graceful shutdown": "Signal handling
\* (SIGINT/SIGTERM), ThreadPool::shutdown() joins workers": the handler of a
\* signal returns, leaving aside a worker that misses the notification
\* (ThreadPool!ShutdownReturns) and a process that has been cut off.
GracefulShutdown ==
    \A s \in Signals :
        hpc[s] = "running" /\ ~Unnotified
            ~> (hpc[s] = "done" \/ WorkerMissed \/ fate # "runs")
=============================================================================
