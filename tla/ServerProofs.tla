---------------------------- MODULE ServerProofs ----------------------------
(***************************************************************************)
(* Proofs, for any number of workers, connections, signals and callers of  *)
(* stop() and any queue size, of the safety properties of Server.  The     *)
(* server uses its pool as ThreadPool allows, so the pool's invariant      *)
(* holds inside it and the proofs here start from it.                      *)
(***************************************************************************)
EXTENDS Server, ThreadPoolProofs

-----------------------------------------------------------------------------
(* The pool inside the server                                              *)

\* Every step of the server is a step of the pool or leaves it alone: the
\* accept loop, stop() and ~Server() only call its member functions.
LEMMA PoolStep == [ServerNext]_allVars => [Next]_vars
<1> SUFFICES ASSUME [ServerNext]_allVars PROVE [Next]_vars
  OBVIOUS
<1>0. /\ Main \in Enqueuers /\ Dtor \in Stoppers
      /\ \A s \in Signals \cup Callers : s \in Stoppers
  BY ServerAssumption
<1>1. ASSUME MainStep PROVE [Next]_vars
  <2>1. ASSUME EnqueueBody PROVE Next
    BY <1>0, <2>1 DEF EnqueueBody, Next
  <2>2. ASSUME LeaveMain PROVE [Next]_vars
    BY <1>0, <2>2 DEF LeaveMain, Next
  <2>3. ASSUME DtorShutdown \/ DtorDestroy PROVE Next
    BY <1>0, <2>3 DEF DtorShutdown, DtorDestroy, Next
  <2> QED
    BY <1>1, <2>1, <2>2, <2>3
       DEF MainStep, SetGServer, ListenerStart, SetRunning, MakePool, LoopTest,
           AcceptCall, Refuse503, JoinThreads, MainReturns
<1>2. ASSUME MainLock PROVE Next
  BY <1>0, <1>2 DEF MainLock, EnqueueCall, EnqueueLock, Fresh, Next
<1>3. ASSUME MainAccept \/ MainFails PROVE UNCHANGED vars
  BY <1>3 DEF MainAccept, MainFails, AcceptReturns, AcceptFails
<1>4. ASSUME NEW c \in Tasks, Connect(c) \/ ThreadEnds(c) PROVE UNCHANGED vars
  BY <1>4 DEF Connect, ThreadEnds
<1>5. ASSUME NEW w \in Workers, PoolWorker(w) \/ PoolWorkerLock(w) \/ PoolWake(w) PROVE Next
  BY <1>5 DEF InPool, PoolWorker, PoolWorkerLock, PoolWake, Next
<1>6. ASSUME NEW s \in Signals \cup Callers, TakeSignal(s) \/ TakeSignalLate(s) \/ CallStop(s) \/ StopStep(s)
      PROVE  [Next]_vars
  BY <1>0, <1>6
     DEF TakeSignal, TakeSignalLate, CallStop, StopStep, StopRunning, StopListener, StopPool,
         StopShutdown, StopReturns, Next
<1>7. ASSUME UNCHANGED allVars PROVE UNCHANGED vars
  BY <1>7 DEF allVars
<1>8. ASSUME Terminate \/ SigPipe PROVE UNCHANGED vars
  BY <1>8 DEF Terminate, SigPipe, EndsProcess
<1> QED
  BY <1>1, <1>2, <1>3, <1>4, <1>5, <1>6, <1>7, <1>8 DEF ServerNext

\* The server is a correct user of the pool: in every behaviour of the process
\* the pool behaves as ThreadPool says, so all that is proved of it holds here.
THEOREM PoolIsUsedCorrectly == ServerSpec => Spec
<1>1. ServerInit => Init
  BY DEF ServerInit
<1> QED
  BY <1>1, PoolStep, PTL DEF ServerSpec, Spec

-----------------------------------------------------------------------------
(* Two more facts about the pool                                           *)

\* A worker's local variable holds a task exactly from the pop to the end of
\* the iteration, and the task it has yet to run has not been run; a call that
\* is about to notify has pushed its task.
HandInv ==
    /\ \A w \in Workers : held[w] # None <=> Carrying(w)
    /\ \A w \in Workers : wpc[w] \in {"popped", "running"} => held[w] \notin done
    /\ \A c \in Enqueuers : epc[c] = "notify" => arg[c] \in Elems(accepted)

\* A popped task is new to the workers, and no two of them have the same.
LEMMA HandStep == IInv /\ HandInv /\ [Next]_vars => HandInv'
<1> SUFFICES ASSUME IInv, HandInv, [Next]_vars PROVE HandInv'
  OBVIOUS
<1> USE PoolAssumption DEF HandInv, Carrying, TypeOK, WorkerGoto,
            queueVars, workerVars, enqueueVars, stopVars
<1>0. TypeOK /\ ArgInv /\ Accounted /\ FifoExactlyOnce
  BY AccountedEquiv DEF IInv
<1>1. CASE UNCHANGED vars
  BY <1>1 DEF vars
<1>2. ASSUME NEW c \in Enqueuers, NEW t \in Tasks, EnqueueLock(c, t) PROVE HandInv'
  BY <1>0, <1>2 DEF EnqueueLock
<1>3. ASSUME NEW c \in Enqueuers, EnqueueTestStop(c) \/ EnqueueFull(c) PROVE HandInv'
  BY <1>0, <1>3 DEF EnqueueTestStop, EnqueueFull, EnqueueReturnsFalse
<1>4. ASSUME NEW c \in Enqueuers, EnqueuePush(c) PROVE HandInv'
  <2>1. Elems(accepted') = Elems(accepted) \cup {arg[c]}
    BY <1>0, <1>4, ElemsAppend DEF EnqueuePush, ArgInv
  <2> QED
    BY <1>0, <1>4, <2>1 DEF EnqueuePush
<1>5. ASSUME NEW c \in Enqueuers, EnqueueNotifyOne(c) PROVE HandInv'
  BY <1>0, <1>5 DEF EnqueueNotifyOne, WakeOne, Waiting
<1>6. ASSUME NEW w \in Workers, WorkerLock(w) \/ SpuriousWake(w) PROVE HandInv'
  <2>1. CASE WorkerLock(w)
    BY <1>0, <2>1 DEF WorkerLock
  <2>2. CASE SpuriousWake(w)
    BY <1>0, <2>2 DEF SpuriousWake
  <2> QED
    BY <1>6, <2>1, <2>2
<1>7. ASSUME NEW w \in Workers,
             \/ WorkerTestToken(w) \/ WorkerPredicateFalse(w)
             \/ WorkerBlock(w) \/ WorkerReturn(w)
      PROVE HandInv'
  <2>1. CASE WorkerTestToken(w)
    BY <1>0, <2>1 DEF WorkerTestToken
  <2>2. CASE WorkerPredicateFalse(w)
    BY <1>0, <2>2 DEF WorkerPredicateFalse
  <2>3. CASE WorkerBlock(w)
    BY <1>0, <2>3 DEF WorkerBlock
  <2>4. CASE WorkerReturn(w)
    BY <1>0, <2>4 DEF WorkerReturn
  <2> QED
    BY <1>7, <2>1, <2>2, <2>3, <2>4
<1>8. ASSUME NEW w \in Workers, WorkerPop(w) PROVE HandInv'
  <2>1. Head(tasks) \in Tasks
    BY <1>0, <1>8, HeadTailProperties DEF WorkerPop
  <2>2. Head(tasks) \notin Elems(started)
    BY <1>0, <1>8, PoppedIsNew DEF WorkerPop, FifoExactlyOnce, Distinct
  <2>3. Head(tasks) \notin done
    BY <1>0, <2>2 DEF Accounted
  <2> QED
    BY <1>0, <1>8, <2>1, <2>3 DEF WorkerPop
<1>9. ASSUME NEW w \in Workers, WorkerCountUp(w) \/ WorkerCountDown(w) PROVE HandInv'
  <2>1. CASE WorkerCountUp(w)
    BY <1>0, <2>1 DEF WorkerCountUp
  <2>2. CASE WorkerCountDown(w)
    BY <1>0, <2>2 DEF WorkerCountDown
  <2> QED
    BY <1>9, <2>1, <2>2
<1>10. ASSUME NEW w \in Workers, WorkerRunTask(w) PROVE HandInv'
  BY <1>0, <1>10 DEF WorkerRunTask, Accounted
<1>11. ASSUME NEW s \in Stoppers, ShutdownNotifyAll(s) PROVE HandInv'
  BY <1>0, <1>11 DEF ShutdownNotifyAll, Waiting
<1>12. ASSUME NEW s \in Stoppers,
              \/ ShutdownExchange(s) \/ ShutdownJoin(s)
              \/ \E w \in Workers : ShutdownRequestStop(s, w)
       PROVE HandInv'
  BY <1>0, <1>12 DEF ShutdownExchange, ShutdownRequestStop, ShutdownJoin
<1>13. CASE Destroy
  BY <1>0, <1>13 DEF Destroy
<1> QED
  BY <1>1, <1>2, <1>3, <1>4, <1>5, <1>6, <1>7, <1>8, <1>9, <1>10, <1>11, <1>12, <1>13
     DEF Next, Enqueue, WorkerStep, Shutdown

-----------------------------------------------------------------------------
(* What the parts of a step leave alone                                    *)

\* Workers neither accept nor refuse connections, and do not touch the calls
\* in progress.
LEMMA WorkerFrame ==
  ASSUME NEW w, WorkerStep(w) \/ WorkerLock(w) \/ SpuriousWake(w)
  PROVE  UNCHANGED <<accepted, dropped, epc, arg, rejected, alive>>
BY DEF WorkerStep, WorkerLock, SpuriousWake, WorkerTestToken, WorkerPredicateFalse, WorkerBlock,
       WorkerReturn, WorkerPop, WorkerCountUp, WorkerRunTask, WorkerCountDown,
       queueVars, enqueueVars, stopVars

\* shutdown() leaves the queue to the workers.
LEMMA ShutdownFrame ==
  ASSUME NEW s, ShutdownExchange(s) \/ Shutdown(s)
  PROVE  UNCHANGED <<tasks, accepted, dropped, epc, arg, rejected, alive>>
BY DEF ShutdownExchange, Shutdown, ShutdownNotifyAll, ShutdownRequestStop, ShutdownJoin,
       queueVars, enqueueVars

\* What enqueue() does with the accept loop's connection: it goes on, or it
\* returns false having refused it, or it returns true having pushed it.
LEMMA EnqueueOutcome ==
  ASSUME IInv, HandInv, Enqueue(Main), arg[Main] = client
  PROVE  /\ UNCHANGED <<dropped, alive>>
         /\ \/ /\ epc'[Main] # "idle" /\ arg' = arg /\ rejected' = rejected
               /\ \/ Elems(accepted') = Elems(accepted)
                  \/ Elems(accepted') = Elems(accepted) \cup {client}
            \/ /\ epc'[Main] = "idle" /\ accepted' = accepted
               /\ client \in rejected' /\ client \notin Elems(accepted)
            \/ /\ epc'[Main] = "idle" /\ accepted' = accepted /\ rejected' = rejected
               /\ client \notin rejected' /\ client \in Elems(accepted)
<1> USE DEF queueVars, workerVars, enqueueVars, stopVars
<1>0. Main \in Enqueuers /\ TypeOK /\ ArgInv /\ FifoExactlyOnce
  BY ServerAssumption DEF IInv
<1>1. CASE EnqueueTestStop(Main)
  BY <1>0, <1>1 DEF EnqueueTestStop, EnqueueReturnsFalse, ArgInv, TypeOK
<1>2. CASE EnqueueFull(Main)
  BY <1>0, <1>2 DEF EnqueueFull, EnqueueReturnsFalse, ArgInv, TypeOK
<1>3. CASE EnqueuePush(Main)
  <2>1. Elems(accepted') = Elems(accepted) \cup {client}
    BY <1>0, <1>3, ElemsAppend DEF EnqueuePush, ArgInv, TypeOK
  <2> QED
    BY <1>0, <1>3, <2>1 DEF EnqueuePush, TypeOK
<1>4. CASE EnqueueNotifyOne(Main)
  <2>1. client \in Elems(accepted) /\ client \notin rejected
    BY <1>0, <1>4 DEF EnqueueNotifyOne, HandInv, FifoExactlyOnce
  <2> QED
    BY <1>0, <1>4, <2>1 DEF EnqueueNotifyOne, TypeOK
<1> QED
  BY <1>1, <1>2, <1>3, <1>4 DEF Enqueue

-----------------------------------------------------------------------------
(* The inductive invariant of the server                                   *)

\* The types of the server's own variables.
OwnTypes ==
    /\ mpc \in MainPC /\ hpc \in [Stoppers -> StopPC]
    /\ baseline \in BOOLEAN /\ running \in BOOLEAN
    /\ listening \in BOOLEAN /\ pool \in BOOLEAN
    /\ client \in Tasks \cup {None}
    /\ nested \in Seq(Signals)
    /\ conn \in [Tasks -> {"new", "pending", "taken", "reset"}]
    /\ fate \in Fates
    /\ serving \subseteq Tasks /\ served \subseteq Tasks
    /\ busy503 \subseteq Tasks /\ after \subseteq Tasks

\* The accept loop has a connection exactly while it hands it on, and enqueue()
\* runs on that one; pool_ is there whenever it is used, and untouched when it
\* is not; threads of the baseline mode do not outlive the join; and nothing
\* comes back once ~Server() is over, which comes before main() returns; and
\* only a process in the baseline mode is ended by an exception.
ControlInv ==
    /\ client # None <=> mpc \in {"enqueue", "refuse"}
    /\ epc[Main] # "idle" => mpc = "enqueue" /\ arg[Main] = client
    /\ mpc = "refuse" => client \in rejected
    /\ pool => ~baseline /\ mpc \notin {"setup", "listen", "run", "make"}
    /\ mpc \in {"loop", "accept", "blocked"} => pool \/ baseline
    /\ mpc \in {"enqueue", "refuse", "destroy"} => pool
    /\ \A s \in Stoppers : hpc[s] = "shutdown" => pool
    /\ ~pool => /\ accepted = <<>> /\ tasks = <<>> /\ dropped = <<>>
                /\ \A w \in Workers : wpc[w] = "loop"
    /\ serving # {} => baseline /\ mpc \in {"loop", "accept", "blocked", "join"}
    /\ mpc = "exited" => /\ ~listening /\ (pool => ~alive)
                         /\ \A c \in Tasks : conn[c] # "pending"
    /\ fate \in {"returned", "undefined"} => mpc = "exited"
    /\ fate = "terminated" => baseline

\* A connection that was taken from the backlog is in exactly one of: the
\* accept loop's hands, the pool's history, a thread of the baseline mode,
\* what such threads have served, what was answered 503.
InHand(c) == client = c /\ c \notin Elems(accepted)
OwnInv == \A c \in Tasks :
    /\ conn[c] = "taken" <=> \/ InHand(c) \/ c \in Elems(accepted)
                             \/ c \in serving \/ c \in served \/ c \in busy503
    /\ InHand(c) \/ c \in Elems(accepted) => c \notin serving \cup served \cup busy503
    /\ c \in serving => c \notin served \cup busy503
    /\ c \in served => c \notin busy503

\* A connection taken after running_ was cleared leaves the loop no second turn:
\* running_ stays false, and the loop cannot reach accept() but through its test.
AfterInv ==
    /\ after # {} => /\ ~running
                     /\ mpc \in {"loop", "enqueue", "refuse", "join", "leave",
                                 "destroy", "exited"}
    /\ OneConnectionAfterStop

ServerInv == IInv /\ HandInv /\ OwnTypes /\ ControlInv /\ OwnInv /\ AfterInv

\* Every step of the server keeps the types of its variables.
LEMMA OwnTypesStep == ServerInv /\ [ServerNext]_allVars => OwnTypes'
<1> SUFFICES ASSUME ServerInv, [ServerNext]_allVars PROVE OwnTypes'
  OBVIOUS
<1> USE ServerAssumption, PoolAssumption
        DEF OwnTypes, MainPC, StopPC, Fates, Goto, StopGoto, Reset, serverVars
<1>0. OwnTypes
  BY DEF ServerInv
<1>1. ASSUME UNCHANGED allVars PROVE OwnTypes'
  BY <1>0, <1>1 DEF allVars
<1>2. ASSUME SetGServer \/ ListenerStart \/ SetRunning PROVE OwnTypes'
  BY <1>0, <1>2 DEF SetGServer, ListenerStart, SetRunning
<1>3. ASSUME MakePool PROVE OwnTypes'
  BY <1>0, <1>3 DEF MakePool
<1>4. ASSUME LoopTest \/ AcceptCall PROVE OwnTypes'
  BY <1>0, <1>4 DEF LoopTest, AcceptCall
<1>5. ASSUME EnqueueBody PROVE OwnTypes'
  BY <1>0, <1>5 DEF EnqueueBody
<1>6. ASSUME Refuse503 PROVE OwnTypes'
  <2>1. client \in Tasks
    BY <1>6 DEF ServerInv, ControlInv, Refuse503
  <2> QED
    BY <1>0, <1>6, <2>1 DEF Refuse503
<1>7. ASSUME JoinThreads PROVE OwnTypes'
  BY <1>0, <1>7 DEF JoinThreads
<1>8. ASSUME LeaveMain PROVE OwnTypes'
  BY <1>0, <1>8 DEF LeaveMain
<1>9. ASSUME DtorShutdown PROVE OwnTypes'
  BY <1>0, <1>9 DEF DtorShutdown
<1>10. ASSUME DtorDestroy PROVE OwnTypes'
  BY <1>0, <1>10 DEF DtorDestroy
<1>11. ASSUME MainLock PROVE OwnTypes'
  BY <1>0, <1>11 DEF MainLock, EnqueueCall
<1>12. ASSUME NEW c \in Tasks, AcceptReturns(c) PROVE OwnTypes'
  BY <1>0, <1>12 DEF AcceptReturns
<1>13. ASSUME MainFails PROVE OwnTypes'
  BY <1>0, <1>13 DEF MainFails, AcceptFails
<1>14. ASSUME NEW c \in Tasks, Connect(c) PROVE OwnTypes'
  BY <1>0, <1>14 DEF Connect
<1>15. ASSUME NEW c \in Tasks, ThreadEnds(c) PROVE OwnTypes'
  BY <1>0, <1>15 DEF ThreadEnds
<1>16. ASSUME NEW w \in Workers, PoolWorker(w) \/ PoolWorkerLock(w) \/ PoolWake(w)
       PROVE  OwnTypes'
  BY <1>0, <1>16 DEF InPool, PoolWorker, PoolWorkerLock, PoolWake
<1>17. ASSUME NEW s \in Signals \cup Callers, TakeSignal(s) PROVE OwnTypes'
  BY <1>0, <1>17, AppendProperties DEF TakeSignal, Interrupted
<1>18. ASSUME NEW s \in Signals \cup Callers, CallStop(s) PROVE OwnTypes'
  BY <1>0, <1>18 DEF CallStop
<1>19. ASSUME NEW s \in Signals \cup Callers, StopStep(s) PROVE OwnTypes'
  <2>1. ASSUME nested # <<>> PROVE SubSeq(nested, 1, Len(nested) - 1) \in Seq(Signals)
    BY <1>0, <2>1, SubSeqProperties, LenProperties
  <2>2. CASE StopRunning(s)
    BY <1>0, <1>19, <2>1, <2>2 DEF StopStep, StopRunning
  <2>3. CASE StopListener(s)
    BY <1>0, <1>19, <2>1, <2>3 DEF StopStep, StopListener
  <2>4. CASE StopPool(s)
    BY <1>0, <1>19, <2>1, <2>4 DEF StopStep, StopPool
  <2>5. CASE StopShutdown(s)
    BY <1>0, <2>5 DEF StopShutdown
  <2>6. CASE StopReturns(s)
    BY <1>0, <1>19, <2>1, <2>6 DEF StopStep, StopReturns
  <2> QED
    BY <1>19, <2>2, <2>3, <2>4, <2>5, <2>6 DEF StopStep
<1>20. ASSUME MainReturns \/ Terminate \/ SigPipe PROVE OwnTypes'
  BY <1>0, <1>20 DEF MainReturns, Terminate, SigPipe, EndsProcess
<1>21. ASSUME NEW s \in Signals \cup Callers, TakeSignalLate(s) PROVE OwnTypes'
  BY <1>0, <1>21 DEF TakeSignalLate
<1> QED
  BY <1>1, <1>2, <1>3, <1>4, <1>5, <1>6, <1>7, <1>8, <1>9, <1>10, <1>11, <1>12, <1>13,
     <1>14, <1>15, <1>16, <1>17, <1>18, <1>19, <1>20, <1>21
     DEF ServerNext, MainStep, MainAccept

\* The control of the main thread, of the callers of stop() and of the pool
\* stay in step.
LEMMA ControlStep == ServerInv /\ [ServerNext]_allVars => ControlInv'
<1> SUFFICES ASSUME ServerInv, [ServerNext]_allVars PROVE ControlInv'
  OBVIOUS
<1> USE ServerAssumption, PoolAssumption DEF OwnTypes, Goto, StopGoto, Reset
<1>0. OwnTypes /\ ControlInv /\ IInv /\ HandInv /\ TypeOK
  BY DEF ServerInv, IInv
<1> DEFINE Same == UNCHANGED <<epc, arg, rejected, accepted, tasks, dropped, wpc, alive>>
<1>f. UNCHANGED vars => Same
  BY DEF vars, queueVars, workerVars, enqueueVars, stopVars
<1> HIDE DEF Same
<1>1. ASSUME UNCHANGED allVars PROVE ControlInv'
  BY <1>0, <1>1, <1>f DEF allVars, serverVars, Same, ControlInv
<1>2. ASSUME SetGServer \/ ListenerStart \/ SetRunning PROVE ControlInv'
  BY <1>0, <1>2, <1>f DEF SetGServer, ListenerStart, SetRunning, Same, ControlInv
<1>3. ASSUME MakePool PROVE ControlInv'
  BY <1>0, <1>3, <1>f DEF MakePool, Same, ControlInv
<1>4. ASSUME LoopTest \/ AcceptCall PROVE ControlInv'
  BY <1>0, <1>4, <1>f DEF LoopTest, AcceptCall, Same, ControlInv
<1>5. ASSUME EnqueueBody PROVE ControlInv'
  <2>1. mpc = "enqueue" /\ pool /\ ~baseline
    BY <1>0, <1>5 DEF EnqueueBody, ControlInv
  <2>2. arg[Main] = client
    BY <1>0, <1>5
       DEF EnqueueBody, ControlInv, Enqueue, EnqueueTestStop, EnqueueFull, EnqueuePush, EnqueueNotifyOne
  <2>3. \/ epc'[Main] # "idle" /\ arg' = arg /\ rejected' = rejected
        \/ epc'[Main] = "idle" /\ client \in rejected'
        \/ epc'[Main] = "idle" /\ client \notin rejected'
    BY <1>0, <1>5, <2>2, EnqueueOutcome DEF EnqueueBody
  <2> QED
    BY <1>0, <1>5, <2>1, <2>2, <2>3 DEF EnqueueBody, Refused, ControlInv
<1>6. ASSUME Refuse503 PROVE ControlInv'
  BY <1>0, <1>6, <1>f DEF Refuse503, Same, ControlInv
<1>7. ASSUME JoinThreads PROVE ControlInv'
  BY <1>0, <1>7, <1>f DEF JoinThreads, AllJoined, Same, ControlInv
<1>8. ASSUME LeaveMain PROVE ControlInv'
  <2>1. CASE pool /\ ShutdownExchange(Dtor) /\ Goto("destroy") /\ UNCHANGED <<conn, listening>>
    BY <1>0, <1>8, <2>1, ShutdownFrame DEF LeaveMain, ControlInv
  <2>2. CASE ~pool /\ Goto("exited") /\ listening' = FALSE /\ conn' = Reset(Tasks) /\ UNCHANGED vars
    BY <1>0, <1>8, <2>2, <1>f DEF LeaveMain, Same, ControlInv
  <2> QED
    BY <1>8, <2>1, <2>2 DEF LeaveMain
<1>9. ASSUME DtorShutdown PROVE ControlInv'
  BY <1>0, <1>9, ShutdownFrame DEF DtorShutdown, serverVars, ControlInv
<1>10. ASSUME DtorDestroy PROVE ControlInv'
  BY <1>0, <1>10 DEF DtorDestroy, Destroy, enqueueVars, ControlInv
<1>11. ASSUME MainLock PROVE ControlInv'
  BY <1>0, <1>11
     DEF MainLock, EnqueueCall, EnqueueLock, serverVars, workerVars, stopVars, TypeOK, ControlInv
<1>12. ASSUME NEW c \in Tasks, AcceptReturns(c) PROVE ControlInv'
  BY <1>0, <1>12, <1>f DEF AcceptReturns, Same, ControlInv
<1>13. ASSUME MainFails PROVE ControlInv'
  BY <1>0, <1>13, <1>f DEF MainFails, AcceptFails, Same, ControlInv
<1>14. ASSUME NEW c \in Tasks, Connect(c) PROVE ControlInv'
  BY <1>0, <1>14, <1>f DEF Connect, Same, ControlInv
<1>15. ASSUME NEW c \in Tasks, ThreadEnds(c) PROVE ControlInv'
  BY <1>0, <1>15, <1>f DEF ThreadEnds, Same, ControlInv
<1>16. ASSUME NEW w \in Workers, PoolWorker(w) \/ PoolWorkerLock(w) \/ PoolWake(w)
       PROVE  ControlInv'
  BY <1>0, <1>16, WorkerFrame DEF InPool, PoolWorker, PoolWorkerLock, PoolWake, serverVars, ControlInv
<1>17. ASSUME NEW s \in Signals \cup Callers, TakeSignal(s) PROVE ControlInv'
  BY <1>0, <1>17, <1>f DEF TakeSignal, Interrupted, Same, ControlInv
<1>18. ASSUME NEW s \in Signals \cup Callers, CallStop(s) PROVE ControlInv'
  BY <1>0, <1>18, <1>f DEF CallStop, Same, ControlInv
<1>19. ASSUME NEW s \in Signals \cup Callers, StopRunning(s) PROVE ControlInv'
  BY <1>0, <1>19, <1>f DEF StopRunning, Same, ControlInv
<1>20. ASSUME NEW s \in Signals \cup Callers, StopListener(s) PROVE ControlInv'
  BY <1>0, <1>20, <1>f DEF StopListener, Same, ControlInv
<1>21. ASSUME NEW s \in Signals \cup Callers, StopPool(s) PROVE ControlInv'
  <2>1. CASE pool /\ ShutdownExchange(s) /\ StopGoto(s, "shutdown")
    BY <1>0, <1>21, <2>1, ShutdownFrame DEF StopPool, ControlInv
  <2>2. CASE ~pool /\ StopGoto(s, "done") /\ UNCHANGED vars
    BY <1>0, <1>21, <2>2, <1>f DEF StopPool, Same, ControlInv
  <2> QED
    BY <1>21, <2>1, <2>2 DEF StopPool
<1>22. ASSUME NEW s \in Signals \cup Callers, StopShutdown(s) PROVE ControlInv'
  BY <1>0, <1>22, ShutdownFrame DEF StopShutdown, serverVars, ControlInv
<1>23. ASSUME NEW s \in Signals \cup Callers, StopReturns(s) PROVE ControlInv'
  BY <1>0, <1>23, <1>f DEF StopReturns, Same, ControlInv
<1>24. ASSUME MainReturns \/ Terminate \/ SigPipe PROVE ControlInv'
  BY <1>0, <1>f, <1>24 DEF MainReturns, Terminate, SigPipe, EndsProcess, Same, ControlInv
<1>25. ASSUME NEW s \in Signals \cup Callers, TakeSignalLate(s) PROVE ControlInv'
  BY <1>0, <1>f, <1>25 DEF TakeSignalLate, Same, ControlInv
<1> QED
  BY <1>1, <1>2, <1>3, <1>4, <1>5, <1>6, <1>7, <1>8, <1>9, <1>10, <1>11, <1>12, <1>13,
     <1>14, <1>15, <1>16, <1>17, <1>18, <1>19, <1>20, <1>21, <1>22, <1>23, <1>24, <1>25
     DEF ServerNext, MainStep, MainAccept, StopStep

\* Few steps move a connection; the others leave the owners, and which
\* connections have been taken from the backlog, as they are.
LEMMA OwnerFrame ==
  ASSUME ServerInv, [ServerNext]_allVars
  PROVE  \/ /\ UNCHANGED <<client, accepted, serving, served, busy503>>
            /\ \A c \in Tasks : conn'[c] = "taken" <=> conn[c] = "taken"
         \/ EnqueueBody \/ Refuse503
         \/ \E c \in Tasks : AcceptReturns(c) \/ ThreadEnds(c)
<1> USE ServerAssumption DEF OwnTypes, Goto, StopGoto, Reset
<1> DEFINE Same == /\ UNCHANGED <<client, accepted, serving, served, busy503>>
                   /\ \A c \in Tasks : conn'[c] = "taken" <=> conn[c] = "taken"
<1>0. OwnTypes
  BY DEF ServerInv
<1>f. UNCHANGED vars => UNCHANGED accepted
  BY DEF vars, queueVars
<1>1. ASSUME UNCHANGED allVars PROVE Same
  BY <1>1, <1>f DEF allVars, serverVars
<1>2. ASSUME SetGServer \/ ListenerStart \/ SetRunning \/ MakePool PROVE Same
  BY <1>2, <1>f DEF SetGServer, ListenerStart, SetRunning, MakePool
<1>3. ASSUME LoopTest \/ AcceptCall \/ JoinThreads PROVE Same
  BY <1>3, <1>f DEF LoopTest, AcceptCall, JoinThreads
<1>4. ASSUME LeaveMain PROVE Same
  BY <1>0, <1>4, <1>f, ShutdownFrame DEF LeaveMain
<1>5. ASSUME DtorShutdown \/ DtorDestroy PROVE Same
  BY <1>0, <1>5, ShutdownFrame DEF DtorShutdown, DtorDestroy, Destroy, serverVars
<1>6. ASSUME MainLock PROVE Same
  BY <1>6 DEF MainLock, EnqueueCall, EnqueueLock, serverVars
<1>7. ASSUME MainFails PROVE Same
  BY <1>0, <1>7, <1>f DEF MainFails, AcceptFails
<1>8. ASSUME NEW c \in Tasks, Connect(c) PROVE Same
  BY <1>0, <1>8, <1>f DEF Connect
<1>9. ASSUME NEW w \in Workers, PoolWorker(w) \/ PoolWorkerLock(w) \/ PoolWake(w) PROVE Same
  BY <1>9, WorkerFrame DEF InPool, PoolWorker, PoolWorkerLock, PoolWake, serverVars
<1>10. ASSUME NEW s \in Signals \cup Callers, TakeSignal(s) \/ CallStop(s) PROVE Same
  BY <1>10, <1>f DEF TakeSignal, CallStop
<1>11. ASSUME NEW s \in Signals \cup Callers, StopRunning(s) \/ StopListener(s) \/ StopReturns(s)
       PROVE  Same
  BY <1>0, <1>11, <1>f DEF StopRunning, StopListener, StopReturns
<1>12. ASSUME NEW s \in Signals \cup Callers, StopPool(s) \/ StopShutdown(s) PROVE Same
  BY <1>12, <1>f, ShutdownFrame DEF StopPool, StopShutdown, serverVars
<1>13. ASSUME MainReturns \/ Terminate \/ SigPipe PROVE Same
  BY <1>f, <1>13 DEF MainReturns, Terminate, SigPipe, EndsProcess
<1>14. ASSUME NEW s \in Signals \cup Callers, TakeSignalLate(s) PROVE Same
  BY <1>f, <1>14 DEF TakeSignalLate
<1> HIDE DEF Same
<1>15. \/ Same \/ EnqueueBody \/ Refuse503
       \/ \E c \in Tasks : AcceptReturns(c) \/ ThreadEnds(c)
  BY <1>1, <1>2, <1>3, <1>4, <1>5, <1>6, <1>7, <1>8, <1>9, <1>10, <1>11, <1>12, <1>13, <1>14
     DEF ServerNext, MainStep, MainAccept, StopStep
<1> QED
  BY <1>15 DEF Same

\* A connection changes hands whole.
LEMMA OwnStep == ServerInv /\ [ServerNext]_allVars => OwnInv'
<1> SUFFICES ASSUME ServerInv, [ServerNext]_allVars PROVE OwnInv'
  OBVIOUS
<1> USE PoolAssumption DEF OwnInv, InHand
<1>0. OwnTypes /\ ControlInv /\ OwnInv /\ IInv /\ HandInv /\ FifoExactlyOnce
  BY DEF ServerInv, IInv
<1>1. CASE /\ UNCHANGED <<client, accepted, serving, served, busy503>>
           /\ \A c \in Tasks : conn'[c] = "taken" <=> conn[c] = "taken"
  BY <1>0, <1>1
<1>2. CASE EnqueueBody
  <2>1. /\ arg[Main] = client /\ client \in Tasks
        /\ UNCHANGED <<conn, serving, served, busy503>>
    BY <1>0, <1>2
       DEF EnqueueBody, ControlInv, OwnTypes, Enqueue, EnqueueTestStop, EnqueueFull,
           EnqueuePush, EnqueueNotifyOne
  <2>2. \/ /\ epc'[Main] # "idle"
           /\ \/ Elems(accepted') = Elems(accepted)
              \/ Elems(accepted') = Elems(accepted) \cup {client}
        \/ epc'[Main] = "idle" /\ accepted' = accepted /\ client \in rejected'
        \/ /\ epc'[Main] = "idle" /\ accepted' = accepted
           /\ client \notin rejected' /\ client \in Elems(accepted)
    BY <1>0, <1>2, <2>1, EnqueueOutcome DEF EnqueueBody
  <2>3. /\ client' = client \/ (client' = None /\ client \in Elems(accepted))
        /\ \/ Elems(accepted') = Elems(accepted)
           \/ Elems(accepted') = Elems(accepted) \cup {client}
    BY <1>2, <2>2 DEF EnqueueBody, Refused
  <2> QED
    BY <1>0, <2>1, <2>3
<1>3. CASE Refuse503
  <2>1. client \in Tasks /\ client \notin Elems(accepted)
    BY <1>0, <1>3 DEF Refuse503, ControlInv, OwnTypes, FifoExactlyOnce
  <2>2. /\ client' = None /\ busy503' = busy503 \cup {client}
        /\ UNCHANGED <<accepted, serving, served, conn>>
    BY <1>3 DEF Refuse503, Goto, vars, queueVars
  <2> QED
    BY <1>0, <2>1, <2>2
<1>4. ASSUME NEW c \in Tasks, AcceptReturns(c) PROVE OwnInv'
  <2>1. /\ client = None /\ conn[c] = "pending" /\ conn'[c] = "taken"
        /\ \A d \in Tasks \ {c} : conn'[d] = "taken" <=> conn[d] = "taken"
        /\ UNCHANGED <<accepted, served, busy503>>
        /\ \/ client' = client /\ serving' = serving \cup {c}
           \/ client' = c /\ serving' = serving
    BY <1>0, <1>4 DEF AcceptReturns, Reset, ControlInv, OwnTypes, vars, queueVars
  <2> QED
    BY <1>0, <2>1
<1>5. ASSUME NEW c \in Tasks, ThreadEnds(c) PROVE OwnInv'
  BY <1>0, <1>5 DEF ThreadEnds, vars, queueVars
<1> QED
  BY <1>1, <1>2, <1>3, <1>4, <1>5, OwnerFrame

\* After running_ is cleared the loop takes a connection only on the accept()
\* it was in, and leaves at its next test.
LEMMA AfterStep == ServerInv /\ [ServerNext]_allVars => AfterInv'
<1> SUFFICES ASSUME ServerInv, [ServerNext]_allVars PROVE AfterInv'
  OBVIOUS
<1> USE DEF AfterInv, OneConnectionAfterStop, Goto, StopGoto, serverVars
<1>0. AfterInv
  BY DEF ServerInv
<1>1. ASSUME UNCHANGED allVars PROVE AfterInv'
  BY <1>0, <1>1 DEF allVars
<1>2. ASSUME SetGServer \/ ListenerStart \/ SetRunning \/ MakePool PROVE AfterInv'
  BY <1>0, <1>2 DEF SetGServer, ListenerStart, SetRunning, MakePool
<1>3. ASSUME LoopTest \/ AcceptCall \/ JoinThreads PROVE AfterInv'
  BY <1>0, <1>3 DEF LoopTest, LoopGoesOn, AcceptCall, JoinThreads
<1>4. ASSUME EnqueueBody \/ Refuse503 PROVE AfterInv'
  BY <1>0, <1>4 DEF EnqueueBody, Refuse503
<1>5. ASSUME LeaveMain \/ DtorShutdown \/ DtorDestroy PROVE AfterInv'
  BY <1>0, <1>5 DEF LeaveMain, DtorShutdown, DtorDestroy
<1>6. ASSUME MainLock \/ MainFails PROVE AfterInv'
  BY <1>0, <1>6 DEF MainLock, EnqueueCall, MainFails, AcceptFails
<1>7. ASSUME NEW c \in Tasks, AcceptReturns(c) PROVE AfterInv'
  BY <1>0, <1>7 DEF AcceptReturns
<1>8. ASSUME NEW c \in Tasks, Connect(c) \/ ThreadEnds(c) PROVE AfterInv'
  BY <1>0, <1>8 DEF Connect, ThreadEnds
<1>9. ASSUME NEW w \in Workers, PoolWorker(w) \/ PoolWorkerLock(w) \/ PoolWake(w) PROVE AfterInv'
  BY <1>0, <1>9 DEF InPool, PoolWorker, PoolWorkerLock, PoolWake
<1>10. ASSUME NEW s \in Signals \cup Callers, TakeSignal(s) \/ CallStop(s) PROVE AfterInv'
  BY <1>0, <1>10 DEF TakeSignal, Interrupted, CallStop
<1>11. ASSUME NEW s \in Signals \cup Callers, StopRunning(s) \/ StopListener(s) \/ StopReturns(s)
       PROVE  AfterInv'
  BY <1>0, <1>11 DEF StopRunning, StopListener, StopReturns
<1>12. ASSUME NEW s \in Signals \cup Callers, StopPool(s) \/ StopShutdown(s) PROVE AfterInv'
  BY <1>0, <1>12 DEF StopPool, StopShutdown
<1>13. ASSUME MainReturns \/ Terminate \/ SigPipe PROVE AfterInv'
  BY <1>0, <1>13 DEF MainReturns, Terminate, SigPipe, EndsProcess
<1>14. ASSUME NEW s \in Signals \cup Callers, TakeSignalLate(s) PROVE AfterInv'
  BY <1>0, <1>14 DEF TakeSignalLate
<1> QED
  BY <1>1, <1>2, <1>3, <1>4, <1>5, <1>6, <1>7, <1>8, <1>9, <1>10, <1>11, <1>12, <1>13, <1>14
     DEF ServerNext, MainStep, MainAccept, StopStep

-----------------------------------------------------------------------------
(* The theorems                                                            *)

\* Before main() has constructed the server the invariant holds.
LEMMA InitServerInv == ServerInit => ServerInv
<1> SUFFICES ASSUME ServerInit PROVE ServerInv
  OBVIOUS
<1> USE PoolAssumption, ServerAssumption DEF ServerInit
<1>1. IInv
  BY InitIInv
<1>2. HandInv
  BY DEF Init, HandInv, Carrying
<1>3. OwnTypes
  <2>1. running \in BOOLEAN /\ listening \in BOOLEAN /\ pool \in BOOLEAN
    BY Zenon
  <2>2. hpc \in [Stoppers -> StopPC]
    BY DEF StopPC
  <2> QED
    BY <2>1, <2>2 DEF OwnTypes, MainPC, Fates
<1>4. ControlInv
  BY DEF Init, ControlInv
<1>5. OwnInv
  BY DEF Init, OwnInv, InHand, Elems
<1>6. AfterInv
  BY DEF AfterInv, OneConnectionAfterStop
<1> QED
  BY <1>1, <1>2, <1>3, <1>4, <1>5, <1>6 DEF ServerInv

\* Every reachable state of the process satisfies the server's invariant.
THEOREM ServerInductive == ServerSpec => []ServerInv
<1>1. ServerInv /\ [ServerNext]_allVars => ServerInv'
  <2> SUFFICES ASSUME ServerInv, [ServerNext]_allVars PROVE ServerInv'
    OBVIOUS
  <2>1. IInv /\ HandInv /\ [Next]_vars
    BY PoolStep DEF ServerInv
  <2>2. IInv'
    BY <2>1, IInvStep
  <2> QED
    BY <2>1, <2>2, HandStep, OwnTypesStep, ControlStep, OwnStep, AfterStep DEF ServerInv
<1> QED
  BY InitServerInv, <1>1, PTL DEF ServerSpec

\* Every variable of the server and of its pool keeps its type.
THEOREM ServerTypeCorrect == ServerSpec => []ServerTypeOK
<1>1. ServerInv => ServerTypeOK
  <2> SUFFICES ASSUME ServerInv PROVE ServerTypeOK
    OBVIOUS
  <2>1. TypeOK /\ OwnTypes
    BY DEF ServerInv, IInv
  <2>2. {baseline, running, listening, pool} \subseteq BOOLEAN
    BY <2>1, Zenon DEF OwnTypes
  <2> QED
    BY <2>1, <2>2 DEF OwnTypes, ServerTypeOK
<1> QED
  BY <1>1, ServerInductive, PTL

\* Inside the pool an accepted connection is queued, in the hands of a worker
\* that has not run it yet, run, or dropped: one of them, and no other
\* connection is any of them.
LEMMA PoolPlaces ==
  ASSUME IInv, HandInv, NEW c \in Tasks
  PROVE  LET AtWorker == \E w \in Workers : held[w] = c /\ wpc[w] # "ran"
         IN  /\ c \in Elems(accepted) <=> \/ c \in Elems(tasks) \/ c \in Elems(dropped)
                                          \/ AtWorker \/ c \in done
             /\ c \in Elems(tasks) => c \notin Elems(dropped) /\ ~AtWorker /\ c \notin done
             /\ c \in Elems(dropped) => ~AtWorker /\ c \notin done
             /\ AtWorker => c \notin done
<1> DEFINE AtWorker == \E w \in Workers : held[w] = c /\ wpc[w] # "ran"
<1>1. TypeOK /\ ArgInv /\ Accounted /\ FifoExactlyOnce
  BY AccountedEquiv DEF IInv
<1>2. /\ Elems(accepted) = Elems(started) \cup Elems(tasks) \cup Elems(dropped)
      /\ Elems(started) \cap Elems(tasks) = {}
      /\ Elems(started) \cap Elems(dropped) = {}
      /\ Elems(tasks) \cap Elems(dropped) = {}
  <2>1. accepted = started \o tasks \o dropped /\ Distinct(started \o tasks \o dropped)
    BY <1>1 DEF FifoExactlyOnce, Distinct
  <2>2. started \in Seq(Tasks) /\ tasks \in Seq(Tasks) /\ dropped \in Seq(Tasks)
    BY <1>1 DEF TypeOK
  <2> QED
    BY <2>1, <2>2, HistoryParts
<1>3. AtWorker <=> \E w \in Workers : Carrying(w) /\ held[w] = c /\ wpc[w] # "ran"
  BY PoolAssumption DEF HandInv
<1>4. AtWorker => c \notin done
  BY <1>3 DEF HandInv, Carrying
<1>5. c \in Elems(started) <=> c \in done \/ AtWorker
  BY <1>1, <1>3 DEF Accounted, ArgInv
<1> QED
  BY <1>2, <1>4, <1>5

\* A connection's descriptor is in one place at a time, from accept() to the
\* close: no interleaving of the accept loop, the workers, stop() and the
\* destructors shares it, loses it, or answers it twice.
THEOREM SingleOwner == ServerSpec => []OneOwner
<1>1. ASSUME ServerInv PROVE OneOwner
  <2> SUFFICES ASSUME NEW c \in Tasks
               PROVE  Cardinality(Places(c)) = IF conn[c] = "taken" THEN 1 ELSE 0
    BY DEF OneOwner
  <2> DEFINE AtWorker == \E w \in Workers : held[w] = c /\ wpc[w] # "ran"
  <2>1. /\ c \in Elems(accepted) <=> \/ c \in Elems(tasks) \/ c \in Elems(dropped)
                                     \/ AtWorker \/ c \in done
        /\ c \in Elems(tasks) => c \notin Elems(dropped) /\ ~AtWorker /\ c \notin done
        /\ c \in Elems(dropped) => ~AtWorker /\ c \notin done
        /\ AtWorker => c \notin done
    BY <1>1, PoolPlaces DEF ServerInv
  <2>2. /\ conn[c] = "taken" <=> \/ InHand(c) \/ c \in Elems(accepted)
                                 \/ c \in serving \/ c \in served \/ c \in busy503
        /\ InHand(c) \/ c \in Elems(accepted) => c \notin serving \cup served \cup busy503
        /\ c \in serving => c \notin served \cup busy503
        /\ c \in served => c \notin busy503
        /\ InHand(c) => c \notin Elems(accepted)
    BY <1>1 DEF ServerInv, OwnInv, InHand
  <2>3. Places(c) =
          {p \in {"accept loop", "queue", "worker", "served", "503", "dropped"} :
             \/ p = "accept loop" /\ InHand(c)
             \/ p = "queue" /\ c \in Elems(tasks)
             \/ p = "worker" /\ (c \in serving \/ AtWorker)
             \/ p = "served" /\ (c \in done \/ c \in served)
             \/ p = "503" /\ c \in busy503
             \/ p = "dropped" /\ c \in Elems(dropped)}
    BY DEF Places, InHand
  <2> HIDE DEF AtWorker
  <2>4. CASE conn[c] # "taken"
    <3>1. Places(c) = {}
      BY <2>1, <2>2, <2>3, <2>4
    <3> QED
      BY <2>4, <3>1, FS_EmptySet
  <2>5. CASE conn[c] = "taken"
    <3>1. \E p : Places(c) = {p}
      <4>1. CASE InHand(c)
        BY <2>1, <2>2, <2>3, <4>1
      <4>2. CASE c \in Elems(tasks)
        BY <2>1, <2>2, <2>3, <4>2
      <4>3. CASE c \in serving \/ AtWorker
        BY <2>1, <2>2, <2>3, <4>3
      <4>4. CASE c \in done \/ c \in served
        BY <2>1, <2>2, <2>3, <4>4
      <4>5. CASE c \in busy503
        BY <2>1, <2>2, <2>3, <4>5
      <4>6. CASE c \in Elems(dropped)
        BY <2>1, <2>2, <2>3, <4>6
      <4> QED
        BY <2>1, <2>2, <2>5, <4>1, <4>2, <4>3, <4>4, <4>5, <4>6
    <3> QED
      BY <2>5, <3>1, FS_Singleton
  <2> QED
    BY <2>4, <2>5
<1> QED
  BY <1>1, ServerInductive, PTL

\* stop() and ~Server() end the process under no client: then no thread is left
\* and what was neither served nor answered 503 was dropped with the pool's
\* queue.  A client in the hands of the accept loop, a thread or a worker when
\* the process ends has been cut off by SIGPIPE, or by an exception in the
\* baseline mode: in the pool an exception ends nothing.
THEOREM ExitIsClean == ServerSpec => []CleanExit
<1>1. ASSUME ServerInv PROVE CleanExit
  <2>0. ControlInv /\ OwnTypes /\ IInv /\ HandInv
    BY <1>1 DEF ServerInv
  <2>1. ASSUME mpc = "exited"
        PROVE  /\ pool => \A w \in Workers : wpc[w] = "exited"
               /\ \A c \in Tasks : Places(c) \subseteq {"served", "503", "dropped"}
               /\ \A c \in Tasks : conn[c] # "pending"
    <3>1. /\ client = None /\ serving = {} /\ (pool => ~alive)
          /\ \A c \in Tasks : conn[c] # "pending"
      BY <2>0, <2>1 DEF ControlInv
    <3>2. /\ tasks = <<>>
          /\ pool => \A w \in Workers : wpc[w] = "exited"
          /\ \A w \in Workers : ~Carrying(w)
      BY <2>0, <3>1 DEF ControlInv, OwnTypes, IInv, AliveInv, Carrying
    <3>3. Elems(tasks) = {}
      BY <3>2 DEF Elems
    <3>4. \A w \in Workers : held[w] = None
      BY <2>0, <3>2 DEF HandInv
    <3>5. ASSUME NEW c \in Tasks PROVE Places(c) \subseteq {"served", "503", "dropped"}
      BY <3>1, <3>3, <3>4, PoolAssumption DEF Places
    <3> QED
      BY <3>1, <3>2, <3>5
  <2>2. ASSUME NEW c \in Tasks, InHands(c), fate # "runs"
        PROVE  fate = "SIGPIPE" \/ (fate = "terminated" /\ baseline)
    <3>1. mpc # "exited"
      BY <2>1, <2>2 DEF InHands
    <3> QED
      BY <2>0, <2>2, <3>1 DEF ControlInv, OwnTypes, Fates
  <2> QED
    BY <2>1, <2>2 DEF CleanExit
<1> QED
  BY <1>1, ServerInductive, PTL

\* However accept(), the signals and stop() interleave, the loop takes at most
\* one connection after running_ has been cleared.
THEOREM StopIsPrompt == ServerSpec => []OneConnectionAfterStop
<1>1. ServerInv => OneConnectionAfterStop
  BY DEF ServerInv, AfterInv
<1> QED
  BY <1>1, ServerInductive, PTL
=============================================================================
