-------------------------- MODULE ConnectionHandler --------------------------
(***************************************************************************)
(* Server::handle_connection (src/server/server.cpp) on the blocking       *)
(* socket of net::Connection: what one worker of the pool, or one thread   *)
(* of the baseline mode, does for one client.                              *)
(*                                                                         *)
(* Requests are sequences of units, as in EpollServer: "part" leaves the   *)
(* parser INCOMPLETE, "end" and "last" complete a request (the latter with *)
(* Connection: close), "bad" is an error, and so is more than ParserLimit  *)
(* units without an end (HttpParser!MemoryBounded).  The client may send   *)
(* for ever and may pipeline up to MaxOwed requests it has no answer to.   *)
(*                                                                         *)
(* When reset() drops the beginning of a pipelined request whose rest is    *)
(* still to come, the parser is out of step with the client from then on:  *)
(* it may take the units that follow for any others.                       *)
(***************************************************************************)
EXTENDS Integers, Sequences, FiniteSets

CONSTANTS MaxRequests,   \* config_.max_requests_per_conn
          KeepAlive,     \* config_.enable_keepalive
          ReadTimeout,   \* config_.read_timeout_sec, 0 for none
          WriteTimeout,  \* config_.write_timeout_sec, 0 for none
          ParserLimit,   \* units of one request the parser accepts
          RespLen,       \* units of a response
          SndBuf,        \* units the socket's send buffer holds
          RcvBuf,        \* bound: units received and not read
          MaxOwed        \* bound: requests a client has outstanding

ASSUME HandlerAssumption ==
    /\ MaxRequests \in Int
    /\ {ReadTimeout, WriteTimeout, ParserLimit} \subseteq Nat
    /\ {RespLen, SndBuf, RcvBuf, MaxOwed} \subseteq Nat \ {0}
    /\ KeepAlive \in BOOLEAN

VARIABLES
    rx, tx,         \* units received and not read; units in the send buffer
    fin, rst,       \* the client has closed, has reset
    owed,           \* complete requests sent and not answered
    pc,             \* "loop", "read", "write", "closed", or "killed"
    fed,            \* units the parser holds since reset()
    request_count,
    keep_alive,     \* of the response being written, or last written
    failed,         \* the response is the parser's error
    off,            \* total_written in write_all
    astray,         \* the parser has lost the beginning of a request
    why,            \* history: why the handler returned
    pipelined,      \* history: the client sent past an unanswered request
    dropped         \* history: complete requests lost by reset(), before astray

clientVars  == <<fin, rst>>
handlerVars == <<fed, request_count, keep_alive, failed, off, astray, why>>
historyVars == <<pipelined, dropped>>
vars == <<rx, tx, owed, pc, clientVars, handlerVars, historyVars>>

Units == {"part", "end", "last", "bad"}
Valid == {"end", "last"}

\* Request::should_keep_alive() of the request that u completes.
ShouldKeepAlive(u) == u # "last"

Init ==
    /\ rx = <<>> /\ tx = 0 /\ fin = FALSE /\ rst = FALSE /\ owed = 0
    /\ pc = "loop" /\ fed = 0 /\ request_count = 0
    /\ keep_alive = KeepAlive /\ failed = FALSE /\ off = 0
    /\ astray = FALSE /\ why = "none"
    /\ pipelined = FALSE /\ dropped = 0

-----------------------------------------------------------------------------
(* The client                                                              *)

Connected == pc \notin {"closed", "killed"} /\ ~fin /\ ~rst

ClientSend(u) ==
    /\ Connected /\ Len(rx) < RcvBuf /\ owed < MaxOwed
    /\ rx' = Append(rx, u)
    /\ owed' = IF u \in Valid THEN owed + 1 ELSE owed
    /\ pipelined' = (pipelined \/ owed > 0)
    /\ UNCHANGED <<tx, pc, clientVars, handlerVars, dropped>>

ClientClose ==
    /\ Connected
    /\ fin' = TRUE
    /\ UNCHANGED <<rx, tx, rst, owed, pc, handlerVars, historyVars>>

\* The peer resets: at once, or in answer to data sent after its close.
ClientReset ==
    /\ pc \notin {"closed", "killed"} /\ ~rst
    /\ rst' = TRUE
    /\ UNCHANGED <<rx, tx, fin, owed, pc, handlerVars, historyVars>>

ClientDrain ==
    /\ tx > 0 /\ ~rst
    /\ tx' = tx - 1
    /\ UNCHANGED <<rx, owed, pc, clientVars, handlerVars, historyVars>>

-----------------------------------------------------------------------------
(* handle_connection                                                       *)

\* The handler returns; ~Connection closes the socket.
Return(reason) ==
    /\ pc' = "closed"
    /\ why' = reason
    /\ UNCHANGED <<rx, tx, fed>>

\* while (request_count < max_requests_per_conn) { parser.reset(); ... }
Iterate ==
    /\ pc = "loop"
    /\ \/ /\ request_count < MaxRequests
          /\ fed' = 0 /\ keep_alive' = KeepAlive /\ off' = 0
          /\ pc' = "read"
          /\ UNCHANGED <<rx, tx, why>>
       \/ /\ request_count >= MaxRequests
          /\ Return("done")
          /\ UNCHANGED <<keep_alive, off>>
    /\ UNCHANGED <<owed, request_count, failed, astray, clientVars, historyVars>>

\* read_some: recv returns 0, or fails as the peer has reset.
ReadEnds ==
    /\ pc = "read"
    /\ rst \/ (rx = <<>> /\ fin)
    /\ Return("peer")
    /\ UNCHANGED <<owed, request_count, keep_alive, failed, off, astray, clientVars, historyVars>>

\* Mutant: the timeout is not set.
ReadTimesOutMutant == FALSE /\ UNCHANGED vars

\* read_some: recv fails with EAGAIN after SO_RCVTIMEO without data.
ReadTimesOut ==
    /\ pc = "read"
    /\ ReadTimeout > 0
    /\ rx = <<>> /\ ~fin /\ ~rst
    /\ Return("timeout")
    /\ UNCHANGED <<owed, request_count, keep_alive, failed, off, astray, clientVars, historyVars>>

\* The place in a chunk where the parser stops; 0 if all of it is consumed.
\* What follows stays in its buffer until reset() drops it.
StopsAt(chunk) ==
    LET ends == {i \in DOMAIN chunk : chunk[i] # "part"}
    IN  IF ends = {} THEN 0 ELSE CHOOSE i \in ends : \A j \in ends : i <= j

\* Mutant: the parser has no limits.
TooLongMutant(n) == FALSE

\* The request has grown beyond the parser's limits after n more units.
TooLong(n) == fed + n > ParserLimit

\* What feed() says of a chunk: INCOMPLETE, or the unit that ends the request.
Verdict(chunk) ==
    LET stop == StopsAt(chunk)
    IN  IF stop = 0 THEN IF TooLong(Len(chunk)) THEN "bad" ELSE "part"
        ELSE IF TooLong(stop) THEN "bad" ELSE chunk[stop]

\* Mutant: a buffer filled to the end is taken to mean that more follows.
RequestCompleteMutant(chunk) == Verdict(chunk) \in Valid /\ Len(chunk) < RcvBuf

\* feed() returned COMPLETE.
RequestComplete(chunk) == Verdict(chunk) \in Valid

\* Complete requests of the chunk behind the one that is answered.
Behind(chunk) ==
    Cardinality({i \in DOMAIN chunk : i > StopsAt(chunk) /\ chunk[i] \in Valid})

\* The chunk ends within the request that follows: its beginning is lost.
Severed(chunk) == StopsAt(chunk) < Len(chunk) /\ chunk[Len(chunk)] = "part"

\* What the parser may take a chunk for.
Seen(chunk) == IF astray THEN [DOMAIN chunk -> Units] ELSE {chunk}

\* read_some returns k units and the parser gets them.  On COMPLETE the request
\* is routed; route() may throw (a file system error; what a handler throws it
\* catches), which ends handle_connection and closes the socket.  On ERROR the error
\* response is built.  write_all follows.
ReadData(k) ==
    /\ pc = "read"
    /\ k <= Len(rx)
    /\ rx' = SubSeq(rx, k + 1, Len(rx))
    /\ \E chunk \in Seen(SubSeq(rx, 1, k)) :
          \/ /\ RequestComplete(chunk)
             /\ \/ pc' = "write" /\ UNCHANGED why
                \/ pc' = "closed" /\ why' = "threw"
             /\ keep_alive' = (KeepAlive /\ ShouldKeepAlive(Verdict(chunk)))
             /\ dropped' = IF astray THEN dropped ELSE dropped + Behind(chunk)
             /\ astray' = (astray \/ Severed(chunk))
             /\ UNCHANGED <<fed, failed>>
          \/ /\ Verdict(chunk) = "bad"
             /\ pc' = "write"
             /\ failed' = TRUE /\ keep_alive' = FALSE
             /\ UNCHANGED <<fed, astray, why, dropped>>
          \/ /\ ~RequestComplete(chunk) /\ Verdict(chunk) # "bad"
             /\ fed' = fed + k
             /\ UNCHANGED <<pc, keep_alive, failed, astray, why, dropped>>
    /\ UNCHANGED <<tx, owed, request_count, off, clientVars, pipelined>>

\* write_all: send takes k units.
WriteData(k) ==
    /\ pc = "write" /\ ~rst
    /\ off + k <= RespLen /\ tx + k <= SndBuf
    /\ off' = off + k
    /\ tx' = tx + k
    /\ UNCHANGED <<rx, owed, pc, fed, request_count, keep_alive, failed>>
    /\ UNCHANGED <<astray, why, clientVars, historyVars>>

\* write_all: send fails with EAGAIN after SO_SNDTIMEO without room.
WriteTimesOut ==
    /\ pc = "write"
    /\ WriteTimeout > 0
    /\ off < RespLen /\ tx = SndBuf /\ ~rst
    /\ Return("write")
    /\ UNCHANGED <<owed, request_count, keep_alive, failed, off, astray, clientVars, historyVars>>

\* write_all: send on a reset connection.  After a plain reset it fails with
\* ECONNRESET.  If the peer had closed first the error is EPIPE, and send, called
\* without MSG_NOSIGNAL in a process that leaves SIGPIPE at its default, ends
\* the process.
WriteReset ==
    /\ pc = "write" /\ off < RespLen /\ rst
    /\ \/ /\ ~fin
          /\ Return("write")
       \/ /\ fin
          /\ pc' = "killed"
          /\ UNCHANGED <<rx, tx, fed, why>>
    /\ UNCHANGED <<owed, request_count, keep_alive, failed, off, astray, clientVars, historyVars>>

\* The response is written: return after an error; else count the request, and
\* go on if the connection is kept alive.  The client takes the response for
\* the answer to its first request; astray, it may have sent none in full.
WriteDone ==
    /\ pc = "write" /\ off = RespLen
    /\ \/ /\ failed
          /\ Return("error")
          /\ UNCHANGED <<owed, request_count>>
       \/ /\ ~failed
          /\ owed' = IF owed > 0 THEN owed - 1 ELSE 0
          /\ request_count' = request_count + 1
          /\ IF keep_alive THEN pc' = "loop" /\ UNCHANGED <<rx, tx, fed, why>>
                           ELSE Return("done")
    /\ UNCHANGED <<keep_alive, failed, off, astray, clientVars, historyVars>>

-----------------------------------------------------------------------------
Handler ==
    \/ Iterate \/ ReadEnds \/ ReadTimesOut
    \/ \E k \in 1..RcvBuf : ReadData(k)
    \/ \E k \in 1..RespLen : WriteData(k)
    \/ WriteTimesOut \/ WriteReset \/ WriteDone

Client ==
    \/ \E u \in Units : ClientSend(u)
    \/ ClientClose \/ ClientReset \/ ClientDrain

Next == Handler \/ Client

Spec == Init /\ [][Next]_vars

\* The thread keeps running, and a socket timeout that is set fires if nothing
\* else happens.  The client owes nothing: it need not send, read or close.
FairSpec == Spec /\ WF_vars(Handler)
-----------------------------------------------------------------------------
(* Properties                                                              *)

\* Every variable keeps its type.
TypeOK ==
    /\ rx \in Seq(Units) /\ tx \in 0..SndBuf /\ owed \in 0..MaxOwed
    /\ fin \in BOOLEAN /\ rst \in BOOLEAN /\ keep_alive \in BOOLEAN
    /\ failed \in BOOLEAN /\ astray \in BOOLEAN
    /\ pc \in {"loop", "read", "write", "closed", "killed"}
    /\ fed \in 0..ParserLimit
    /\ request_count \in Nat /\ (request_count > 0 => request_count <= MaxRequests)
    /\ off \in 0..RespLen
    /\ pipelined \in BOOLEAN /\ dropped \in 0..MaxOwed
    /\ why \in {"none", "done", "peer", "timeout", "error", "write", "threw"}

\* The worker is released, whatever the client does: it may trickle units for
\* ever, never read, or fall silent.  The timeouts bound each recv and send,
\* the parser's limits the recvs of a request, max_requests_per_conn the
\* requests.  (This is what "tasks terminate" in ThreadPool!Fairness rests on.)
WorkerReleased == <>(pc \in {"closed", "killed"})

\* A connection given up for silence owes the client exactly the complete
\* requests that arrived in one recv behind the request being answered, which
\* reset() drops with the parser's buffer; unless reset() has dropped the
\* beginning of a request that had not arrived in full, after which the parser
\* waits for the end of something else.  Both take a client that pipelines: one
\* that waits for each answer is never timed out over a request it has sent in
\* full.  And one that was told "keep-alive" in the last response is cut off
\* only by its own doing (it closed, fell silent, did not read, sent an error),
\* by the request limit, or by an exception out of route().
GivesUpFairly ==
    /\ pc = "closed" /\ why = "timeout" /\ ~astray => owed = dropped
    /\ dropped > 0 \/ astray => pipelined
    /\ pc = "closed" /\ why = "done" /\ keep_alive => request_count >= MaxRequests

\* include/net/connection.hpp: write_all "Returns true on success", and its
\* caller in server.cpp expects the other case: "return; // Write failed".
WriteFailureReturns == pc # "killed"
=============================================================================
