----------------------------- MODULE EpollServer -----------------------------
(***************************************************************************)
(* server::EpollServer (src/server/epoll_server.cpp): one thread, one      *)
(* epoll instance, non-blocking sockets registered edge-triggered.         *)
(*                                                                         *)
(* The loop's steps are its system calls: between two of them clients      *)
(* connect, send, drain, close or reset.  The kernel's side is modelled    *)
(* from how the code uses it: an edge puts a descriptor on the ready list  *)
(* if the registration asks for that event; epoll_wait takes it off and    *)
(* reports what holds at that moment; EPOLL_CTL_ADD and EPOLL_CTL_MOD look *)
(* again at what holds; descriptors are reused, lowest first.              *)
(*                                                                         *)
(* A request is a sequence of units: "part" leaves the parser INCOMPLETE,  *)
(* "end" and "last" complete it (the latter with Connection: close), "bad" *)
(* is an error.  A response is RespLen units long.  When reset() drops the *)
(* beginning of a request whose rest is still to come, the parser is out   *)
(* of step with its client from then on: it may take the units that follow *)
(* for any others.                                                         *)
(***************************************************************************)
EXTENDS Integers, Sequences, FiniteSets

CONSTANTS Clients,      \* one connection each
          Fds,          \* descriptors the process may still open
          MaxEvents,    \* max_events_
          MaxRequests,  \* max_requests_per_conn_
          KeepAlive,    \* enable_keepalive_
          RespLen,      \* units of a response
          SndBuf,       \* units the socket's send buffer holds
          Sends,        \* what clients send
          MaxUnits,     \* bound: units a client sends
          None, Listener

ASSUME EpollAssumption ==
    /\ Fds \subseteq Nat /\ IsFiniteSet(Fds)
    /\ {MaxEvents, RespLen, SndBuf} \subseteq Nat \ {0}
    /\ MaxRequests \in Int /\ MaxUnits \in Nat
    /\ Sends \subseteq {"part", "end", "last", "bad"}
    /\ KeepAlive \in BOOLEAN
    /\ None \notin Clients \cup Fds /\ Listener \notin Fds

VARIABLES
    \* the kernel's connections
    conn,      \* "new", "pending" in the backlog, "accepted", "closed" by the server
    rx,        \* units received and not read
    tx,        \* units in the send buffer
    nospace,   \* a send failed with EAGAIN and waits for space
    fin, rst,  \* the client has closed, has reset
    \* the epoll instance
    interest,  \* registered events; {} if the descriptor is not registered
    ready,     \* the ready list
    \* the server
    connections,  \* connections_: descriptor -> client, or None
    econn,        \* EpollConnection of each client
    astray,       \* its parser has lost the beginning of a request
    running, listening,
    lpc,       \* where the thread is in start()
    cur,       \* the descriptor of the current handler
    batch,     \* events not yet dispatched: {<<fd, events>>, ...}
    \* clients and history
    sent, asked,  \* units and complete requests sent
    got,          \* units of responses received
    pipelined,    \* the client sent before the last answer had arrived
    resp, out     \* responses begun, units of responses sent

kernelVars == <<conn, rx, tx, nospace, fin, rst>>
epollVars  == <<interest, ready>>
loopVars   == <<running, listening, lpc, cur, batch>>
clientVars == <<sent, asked, got, pipelined>>
histVars   == <<astray, resp, out>>
vars == <<kernelVars, epollVars, connections, econn, loopVars, clientVars, histVars>>

Units     == {"part", "end", "last", "bad"}
Requests  == Units \ {"part"}
NewConn   == [st |-> "READING", off |-> 0, keep |-> TRUE, reqs |-> 0]

\* What holds of a connection now, as poll() sees it.
Poll(c) == (IF rx[c] # <<>> \/ fin[c] \/ rst[c] THEN {"IN"} ELSE {})
             \cup (IF tx[c] < SndBuf \/ rst[c] THEN {"OUT"} ELSE {})
             \cup (IF rst[c] THEN {"HUP"} ELSE {})

\* HUP is reported whether asked for or not.
Events(fd) == Poll(connections[fd]) \cap (interest[fd] \cup {"HUP"})

\* Request::should_keep_alive() of the request that u completes.
ShouldKeepAlive(u) == u # "last"

\* The ready list after an edge of the given kind on client c.
Wake(c, kinds) ==
    ready \cup {fd \in Fds : /\ connections[fd] = c
                             /\ kinds \cap (interest[fd] \cup {"HUP"}) # {}}

Free == {fd \in Fds : connections[fd] = None}
Pending == {c \in Clients : conn[c] = "pending"}

-----------------------------------------------------------------------------
Init ==
    /\ conn = [c \in Clients |-> "new"]
    /\ rx = [c \in Clients |-> <<>>] /\ tx = [c \in Clients |-> 0]
    /\ nospace = [c \in Clients |-> FALSE]
    /\ fin = [c \in Clients |-> FALSE] /\ rst = [c \in Clients |-> FALSE]
    /\ interest = [fd \in Fds |-> {}] /\ ready = {}
    /\ connections = [fd \in Fds |-> None]
    /\ econn = [c \in Clients |-> NewConn]
    /\ running = FALSE /\ listening = FALSE /\ lpc = "init" /\ cur = None /\ batch = {}
    /\ sent = [c \in Clients |-> 0] /\ asked = [c \in Clients |-> 0]
    /\ got = [c \in Clients |-> 0] /\ pipelined = [c \in Clients |-> FALSE]
    /\ astray = [c \in Clients |-> FALSE]
    /\ resp = [c \in Clients |-> 0] /\ out = [c \in Clients |-> 0]

-----------------------------------------------------------------------------
(* Clients                                                                 *)

Connect(c) ==
    /\ listening /\ conn[c] = "new"
    /\ conn' = [conn EXCEPT ![c] = "pending"]
    /\ UNCHANGED <<rx, tx, nospace, fin, rst, epollVars, connections, econn>>
    /\ UNCHANGED <<loopVars, clientVars, histVars>>

Connected(c) == conn[c] \in {"pending", "accepted"} /\ ~fin[c] /\ ~rst[c]

ClientSend(c, u) ==
    /\ Connected(c) /\ sent[c] < MaxUnits
    /\ pipelined' = [pipelined EXCEPT ![c] = @ \/ got[c] # RespLen * asked[c]]
    /\ rx' = [rx EXCEPT ![c] = Append(@, u)]
    /\ sent' = [sent EXCEPT ![c] = @ + 1]
    /\ asked' = [asked EXCEPT ![c] = @ + IF u \in Requests THEN 1 ELSE 0]
    /\ ready' = Wake(c, {"IN"})
    /\ UNCHANGED <<conn, tx, nospace, fin, rst, interest, connections, econn>>
    /\ UNCHANGED <<loopVars, got, histVars>>

ClientClose(c) ==
    /\ Connected(c)
    /\ fin' = [fin EXCEPT ![c] = TRUE]
    /\ ready' = Wake(c, {"IN"})
    /\ UNCHANGED <<conn, rx, tx, nospace, rst, interest, connections, econn>>
    /\ UNCHANGED <<loopVars, clientVars, histVars>>

\* The client resets the connection: at once, after closing it, or in answer to
\* what it is sent after that.
ClientReset(c) ==
    /\ conn[c] \in {"pending", "accepted"} /\ ~rst[c]
    /\ rst' = [rst EXCEPT ![c] = TRUE]
    /\ ready' = Wake(c, {"IN", "OUT", "HUP"})
    /\ UNCHANGED <<conn, rx, tx, nospace, fin, interest, connections, econn>>
    /\ UNCHANGED <<loopVars, clientVars, histVars>>

\* The client reads; a sender that found the buffer full is told.
ClientDrain(c) ==
    /\ tx[c] > 0 /\ ~rst[c]
    /\ tx' = [tx EXCEPT ![c] = @ - 1]
    /\ got' = [got EXCEPT ![c] = @ + 1]
    /\ nospace' = [nospace EXCEPT ![c] = FALSE]
    /\ ready' = IF nospace[c] THEN Wake(c, {"OUT"}) ELSE ready
    /\ UNCHANGED <<conn, rx, fin, rst, interest, connections, econn>>
    /\ UNCHANGED <<loopVars, sent, asked, pipelined, histVars>>

-----------------------------------------------------------------------------
(* start()                                                                 *)

Goto(to) == lpc' = to /\ UNCHANGED <<running, listening, cur, batch>>

\* listener_.start(), which may fail.
StartListener ==
    /\ lpc = "init"
    /\ \E ok \in BOOLEAN : /\ listening' = ok
                           /\ lpc' = IF ok THEN "listen" ELSE "exited"
    /\ UNCHANGED <<running, cur, batch>>
    /\ UNCHANGED <<kernelVars, epollVars, connections, econn, clientVars, histVars>>

\* The listener is registered (level-triggered), which may fail; running_ = true.
\* A stop() that comes before is overwritten.
StartLoop ==
    /\ lpc = "listen"
    /\ \E ok \in BOOLEAN : /\ running' = ok
                           /\ lpc' = IF ok THEN "wait" ELSE "exited"
    /\ UNCHANGED <<listening, cur, batch>>
    /\ UNCHANGED <<kernelVars, epollVars, connections, econn, clientVars, histVars>>

\* epoll_wait reports up to max_events_ of what is ready; it may return before
\* it has seen all of it.  (A timeout or EINTR changes nothing.)
EpollWait ==
    LET listen == IF listening /\ Pending # {} THEN {<<Listener, {"IN"}>>} ELSE {}
        all == {<<fd, Events(fd)>> : fd \in {f \in ready : Events(f) # {}}} \cup listen
    IN
    /\ lpc = "wait" /\ running
    /\ batch' \in SUBSET all
    /\ batch' # {}
    /\ Cardinality(batch') <= MaxEvents
    /\ ready' = {e[1] : e \in (all \ batch') \ listen}
    /\ lpc' = "dispatch"
    /\ UNCHANGED <<running, listening, cur, interest>>
    /\ UNCHANGED <<kernelVars, connections, econn, clientVars, histVars>>

\* Mutant: running_ is tested only after an event.
LoopExitMutant ==
    /\ lpc = "wait" /\ ~running /\ ready # {}
    /\ Goto("exited")
    /\ UNCHANGED <<kernelVars, epollVars, connections, econn, clientVars, histVars>>

\* while (running_)
LoopExit ==
    /\ lpc = "wait" /\ ~running
    /\ Goto("exited")
    /\ UNCHANGED <<kernelVars, epollVars, connections, econn, clientVars, histVars>>

\* The end of the loop over the events.
BatchDone ==
    /\ lpc = "dispatch" /\ batch = {}
    /\ Goto("wait")
    /\ UNCHANGED <<kernelVars, epollVars, connections, econn, clientVars, histVars>>

\* remove_from_epoll(fd)
RemoveFromEpoll(fd) ==
    /\ interest' = [interest EXCEPT ![fd] = {}]
    /\ ready' = ready \ {fd}

\* Mutant: erase takes the wrong entry of connections_.
CloseConnectionMutant(fd) ==
    \E f \in Fds :
        /\ connections[f] # None \/ f = fd
        /\ conn' = [c \in Clients |-> IF connections[f] = c THEN "closed" ELSE conn[c]]
        /\ connections' = [connections EXCEPT ![f] = None]
        /\ RemoveFromEpoll(f)

\* close_connection(fd): EPOLL_CTL_DEL, then ~Socket closes the descriptor.
\* Nothing happens for a descriptor that is not in connections_.
CloseConnection(fd) ==
    /\ conn' = [c \in Clients |-> IF connections[fd] = c THEN "closed" ELSE conn[c]]
    /\ connections' = [connections EXCEPT ![fd] = None]
    /\ RemoveFromEpoll(fd)

\* One event: the listener, then errors, then input, then output.
Dispatch ==
    /\ lpc = "dispatch"
    /\ \E e \in batch :
        /\ batch' = batch \ {e}
        /\ cur' = e[1]
        /\ \/ /\ e[1] = Listener
              /\ lpc' = "accept"
              /\ UNCHANGED <<conn, connections, epollVars>>
           \/ /\ e[1] # Listener /\ "HUP" \in e[2]
              /\ CloseConnection(e[1])
              /\ lpc' = lpc
           \/ /\ e[1] # Listener /\ "HUP" \notin e[2]
              /\ lpc' = IF connections[e[1]] = None THEN "dispatch"
                        ELSE IF "IN" \in e[2] THEN "read" ELSE "write"
              /\ UNCHANGED <<conn, connections, epollVars>>
    /\ UNCHANGED <<running, listening, rx, tx, nospace, fin, rst, econn>>
    /\ UNCHANGED <<clientVars, histVars>>

-----------------------------------------------------------------------------
(* accept_connections()                                                    *)

\* add_to_epoll(fd, EPOLLIN | EPOLLET) for the connection of client c; what has
\* arrived before is reported.
AddToEpoll(fd, c) ==
    /\ interest' = [interest EXCEPT ![fd] = {"IN"}]
    /\ ready' = IF "IN" \in Poll(c) THEN ready \cup {fd} ELSE ready

\* Mutant: a connection that could not be registered is kept.
AcceptMutant(c, ok) ==
    /\ lpc = "accept" /\ listening
    /\ c \in Pending /\ Free # {}
    /\ LET fd == CHOOSE f \in Free : \A g \in Free : f <= g
       IN  /\ conn' = [conn EXCEPT ![c] = "accepted"]
           /\ connections' = [connections EXCEPT ![fd] = c]
           /\ IF ok THEN AddToEpoll(fd, c) ELSE UNCHANGED epollVars
    /\ UNCHANGED <<rx, tx, nospace, fin, rst, econn, loopVars, clientVars, histVars>>

\* accept() returns the lowest free descriptor; EPOLL_CTL_ADD may fail (ok),
\* and then the socket is closed by its destructor.
Accept(c, ok) ==
    /\ lpc = "accept" /\ listening
    /\ c \in Pending /\ Free # {}
    /\ LET fd == CHOOSE f \in Free : \A g \in Free : f <= g
       IN  IF ok
           THEN /\ conn' = [conn EXCEPT ![c] = "accepted"]
                /\ connections' = [connections EXCEPT ![fd] = c]
                /\ AddToEpoll(fd, c)
           ELSE /\ conn' = [conn EXCEPT ![c] = "closed"]
                /\ UNCHANGED <<connections, epollVars>>
    /\ UNCHANGED <<rx, tx, nospace, fin, rst, econn, loopVars, clientVars, histVars>>

\* accept() fails: no connection is pending, no descriptor is left (EMFILE), or
\* the system is short of something (ENFILE, ENOBUFS).
AcceptNone ==
    /\ lpc = "accept"
    /\ Goto("dispatch")
    /\ UNCHANGED <<kernelVars, epollVars, connections, econn, clientVars, histVars>>

-----------------------------------------------------------------------------
(* handle_read(fd), c the connection                                       *)

\* modify_epoll(fd, events): the kernel looks at once whether they hold.
ModifyEpoll(fd, c, events) ==
    /\ interest' = [interest EXCEPT ![fd] = events]
    /\ ready' = IF Poll(c) \cap (events \cup {"HUP"}) # {}
                THEN ready \cup {fd} ELSE ready

\* recv fails with EAGAIN: everything has been read.
ReadAgain(c) ==
    /\ rx[c] = <<>> /\ ~fin[c] /\ ~rst[c]
    /\ Goto("dispatch")
    /\ UNCHANGED <<kernelVars, epollVars, connections, econn, clientVars, histVars>>

\* recv fails or returns 0.
ReadClosed(c) ==
    /\ rst[c] \/ (rx[c] = <<>> /\ fin[c])
    /\ CloseConnection(cur)
    /\ Goto("dispatch")
    /\ UNCHANGED <<rx, tx, nospace, fin, rst, econn, clientVars, histVars>>

\* Mutant: input stays registered while the response is written.
RespondMutant(c, keep, count) ==
    /\ econn' = [econn EXCEPT ![c] = [st |-> "WRITING", off |-> 0, keep |-> keep,
                                      reqs |-> @.reqs + count]]
    /\ resp' = [resp EXCEPT ![c] = @ + 1]
    /\ ModifyEpoll(cur, c, {"IN", "OUT"})
    /\ Goto("write")

\* The response is ready: write_buffer, WRITING, EPOLLOUT, handle_write.
Respond(c, keep, count) ==
    /\ econn' = [econn EXCEPT ![c] = [st |-> "WRITING", off |-> 0, keep |-> keep,
                                      reqs |-> @.reqs + count]]
    /\ resp' = [resp EXCEPT ![c] = @ + 1]
    /\ ModifyEpoll(cur, c, {"OUT"})
    /\ Goto("write")

\* The units of a chunk that end a request; the parser stops at the first, and
\* keeps the rest of the chunk until reset() or the destructor drops it.
Ends(chunk) == {i \in DOMAIN chunk : chunk[i] \in Requests}
First(chunk) == CHOOSE i \in Ends(chunk) : \A j \in Ends(chunk) : i <= j

\* The chunk ends within the request that follows: its beginning is lost.
Severed(chunk) == First(chunk) < Len(chunk) /\ chunk[Len(chunk)] = "part"

\* What the parser may take a chunk for.
Seen(c, chunk) == IF astray[c] THEN [DOMAIN chunk -> Units] ELSE {chunk}

\* router_->route(req) throws (a file system error in serve_static_file(); what a
\* handler throws it catches): the exception leaves start() with connections,
\* registrations and the listener as they are.  Only stop() closes them.
RouteThrows ==
    /\ Goto("threw")
    /\ UNCHANGED <<econn, resp, epollVars>>

\* recv returns k units and parser.feed gets them.
ReadData(c, k) ==
    /\ k <= Len(rx[c])
    /\ rx' = [rx EXCEPT ![c] = SubSeq(@, k + 1, Len(@))]
    /\ \E chunk \in Seen(c, SubSeq(rx[c], 1, k)) :
          \/ /\ Ends(chunk) = {}
             /\ UNCHANGED <<econn, astray, resp, epollVars, loopVars>>
          \/ /\ Ends(chunk) # {} /\ chunk[First(chunk)] # "bad"
             /\ \/ Respond(c, KeepAlive /\ ShouldKeepAlive(chunk[First(chunk)]), 1)
                \/ RouteThrows
             /\ astray' = [astray EXCEPT ![c] = @ \/ Severed(chunk)]
          \/ /\ Ends(chunk) # {} /\ chunk[First(chunk)] = "bad"
             /\ Respond(c, FALSE, 0)
             /\ UNCHANGED astray
    /\ UNCHANGED <<conn, tx, nospace, fin, rst, connections, clientVars, out>>

HandleRead ==
    /\ lpc = "read"
    /\ \E c \in Clients : /\ c = connections[cur]
                          /\ \/ ReadAgain(c) \/ ReadClosed(c)
                             \/ \E k \in 1..MaxUnits : ReadData(c, k)

-----------------------------------------------------------------------------
(* handle_write(fd), c the connection                                      *)

\* Mutant: send once, wait for EPOLLOUT to send the rest.
WriteDataMutant(c, k) ==
    /\ econn[c].off + k <= RespLen /\ tx[c] + k <= SndBuf /\ ~rst[c]
    /\ econn' = [econn EXCEPT ![c].off = @ + k]
    /\ tx' = [tx EXCEPT ![c] = @ + k]
    /\ out' = [out EXCEPT ![c] = @ + k]
    /\ Goto(IF econn[c].off + k < RespLen THEN "dispatch" ELSE "write")
    /\ UNCHANGED <<conn, rx, nospace, fin, rst, epollVars, connections>>
    /\ UNCHANGED <<clientVars, astray, resp>>

\* send takes k units.
WriteData(c, k) ==
    /\ econn[c].off + k <= RespLen /\ tx[c] + k <= SndBuf /\ ~rst[c]
    /\ econn' = [econn EXCEPT ![c].off = @ + k]
    /\ tx' = [tx EXCEPT ![c] = @ + k]
    /\ out' = [out EXCEPT ![c] = @ + k]
    /\ UNCHANGED <<conn, rx, nospace, fin, rst, epollVars, connections>>
    /\ UNCHANGED <<loopVars, clientVars, astray, resp>>

\* Mutant: the result of send is added to write_offset before it is tested.
WriteAgainMutant(c) ==
    /\ econn[c].off < RespLen /\ tx[c] = SndBuf /\ ~rst[c]
    /\ nospace' = [nospace EXCEPT ![c] = TRUE]
    /\ econn' = [econn EXCEPT ![c].off = @ - 1]
    /\ Goto("dispatch")
    /\ UNCHANGED <<conn, rx, tx, fin, rst, epollVars, connections>>
    /\ UNCHANGED <<clientVars, histVars>>

\* Mutant: EAGAIN is taken for an error of the connection.
WriteAgainCloses(c) ==
    /\ econn[c].off < RespLen /\ tx[c] = SndBuf /\ ~rst[c]
    /\ CloseConnection(cur)
    /\ Goto("dispatch")
    /\ UNCHANGED <<rx, tx, nospace, fin, rst, econn, clientVars, histVars>>

\* send fails with EAGAIN: "Will be called again on EPOLLOUT".
WriteAgain(c) ==
    /\ econn[c].off < RespLen /\ tx[c] = SndBuf /\ ~rst[c]
    /\ nospace' = [nospace EXCEPT ![c] = TRUE]
    /\ Goto("dispatch")
    /\ UNCHANGED <<conn, rx, tx, fin, rst, epollVars, connections, econn>>
    /\ UNCHANGED <<clientVars, histVars>>

\* send fails for good.
WriteError(c) ==
    /\ econn[c].off < RespLen /\ rst[c]
    /\ CloseConnection(cur)
    /\ Goto("dispatch")
    /\ UNCHANGED <<rx, tx, nospace, fin, rst, econn, clientVars, histVars>>

\* Mutant: the limit is compared with > instead of >=.
WriteDoneMutant(c) ==
    /\ econn[c].off = RespLen
    /\ IF ~econn[c].keep \/ econn[c].reqs > MaxRequests
       THEN CloseConnection(cur) /\ UNCHANGED econn
       ELSE /\ econn' = [econn EXCEPT ![c].st = "READING", ![c].off = 0]
            /\ ModifyEpoll(cur, c, {"IN"})
            /\ UNCHANGED <<conn, connections>>
    /\ Goto("dispatch")
    /\ UNCHANGED <<rx, tx, nospace, fin, rst, clientVars, histVars>>

\* Everything is written: close, or reset for the next request.
WriteDone(c) ==
    /\ econn[c].off = RespLen
    /\ IF ~econn[c].keep \/ econn[c].reqs >= MaxRequests
       THEN CloseConnection(cur) /\ UNCHANGED econn
       ELSE /\ econn' = [econn EXCEPT ![c].st = "READING", ![c].off = 0]
            /\ ModifyEpoll(cur, c, {"IN"})
            /\ UNCHANGED <<conn, connections>>
    /\ Goto("dispatch")
    /\ UNCHANGED <<rx, tx, nospace, fin, rst, clientVars, histVars>>

HandleWrite ==
    /\ lpc = "write"
    /\ \E c \in Clients : /\ c = connections[cur]
                          /\ \/ WriteAgain(c) \/ WriteError(c) \/ WriteDone(c)
                             \/ \E k \in 1..RespLen : WriteData(c, k)

-----------------------------------------------------------------------------
\* stop(), by a thread other than the loop's or by the destructor.  It clears
\* connections_ without a lock: inside a handler, which works on the same map
\* and through a reference into it, anything may happen ("undefined").
Stop ==
    /\ listening
    /\ running' = FALSE /\ listening' = FALSE
    /\ conn' = [c \in Clients |-> IF conn[c] \in {"pending", "accepted"}
                                  THEN "closed" ELSE conn[c]]
    /\ connections' = [fd \in Fds |-> None]
    /\ interest' = [fd \in Fds |-> {}]
    /\ ready' = {}
    /\ lpc' = IF lpc \in {"accept", "read", "write"} THEN "undefined" ELSE lpc
    /\ UNCHANGED <<rx, tx, nospace, fin, rst, econn, cur, batch, clientVars, histVars>>

Client(c) ==
    \/ Connect(c) \/ ClientClose(c) \/ ClientReset(c) \/ ClientDrain(c)
    \/ \E u \in Sends : ClientSend(c, u)

Loop ==
    \/ StartListener \/ StartLoop \/ EpollWait \/ LoopExit \/ BatchDone \/ Dispatch
    \/ \E c \in Clients, ok \in BOOLEAN : Accept(c, ok)
    \/ AcceptNone \/ HandleRead \/ HandleWrite

Next == Stop \/ Loop \/ \E c \in Clients : Client(c)

Spec == Init /\ [][Next]_vars

\* The loop's thread keeps running (epoll_wait has a timeout of a second), and
\* clients read what they are sent.  Nothing makes a client send or close.
FairSpec == Spec /\ WF_vars(Loop) /\ \A c \in Clients : WF_vars(ClientDrain(c))
-----------------------------------------------------------------------------
(* Properties                                                              *)

\* The loop runs, is over, or has not begun.
Defined == lpc \notin {"undefined", "threw"}

\* Every variable keeps its type.
TypeOK ==
    /\ conn \in [Clients -> {"new", "pending", "accepted", "closed"}]
    /\ rx \in [Clients -> Seq(Units)]
    /\ tx \in [Clients -> 0..SndBuf]
    /\ nospace \in [Clients -> BOOLEAN]
    /\ fin \in [Clients -> BOOLEAN] /\ rst \in [Clients -> BOOLEAN]
    /\ interest \in [Fds -> SUBSET {"IN", "OUT"}] /\ ready \subseteq Fds
    /\ connections \in [Fds -> Clients \cup {None}]
    /\ econn \in [Clients -> [st : {"READING", "WRITING"}, off : 0..RespLen,
                              keep : BOOLEAN, reqs : Nat]]
    /\ running \in BOOLEAN /\ listening \in BOOLEAN
    /\ lpc \in {"init", "listen", "wait", "dispatch", "accept", "read", "write",
                "exited", "threw", "undefined"}
    /\ cur \in Fds \cup {Listener, None}
    /\ batch \subseteq ((Fds \cup {Listener}) \X SUBSET {"IN", "OUT", "HUP"})
    /\ sent \in [Clients -> Nat] /\ asked \in [Clients -> Nat]
    /\ pipelined \in [Clients -> BOOLEAN] /\ astray \in [Clients -> BOOLEAN]
    /\ got \in [Clients -> Nat] /\ resp \in [Clients -> Nat] /\ out \in [Clients -> Nat]

\* connections_, the epoll instance and the open sockets agree: a descriptor
\* is registered exactly while it has an entry, for the event its connection's
\* state waits for, and no two entries share a connection.
ConnectionsRegistered ==
    /\ \A fd \in Fds : connections[fd] = None => interest[fd] = {}
    /\ \A fd \in Fds : connections[fd] # None =>
          /\ conn[connections[fd]] = "accepted"
          /\ interest[fd] = IF econn[connections[fd]].st = "READING"
                            THEN {"IN"} ELSE {"OUT"}
    /\ \A c \in Clients : conn[c] = "accepted" =>
          Cardinality({fd \in Fds : connections[fd] = c}) = 1

\* An event in the batch still belongs to the connection it was reported for:
\* descriptors are reused, but never while an event of theirs is pending.
NoStaleEvent ==
    \A e \in batch : e[1] # Listener /\ running =>
        /\ connections[e[1]] # None
        /\ e[2] \subseteq interest[e[1]] \cup {"HUP"}

\* Edge-triggered hazard: a connection with something to do (input while
\* reading, room while writing, a reset) is on the ready list, in the batch or
\* in the hands of a handler.  An edge that is lost is never reported again.
Due(c) == \/ econn[c].st = "READING" /\ (rx[c] # <<>> \/ fin[c])
          \/ econn[c].st = "WRITING" /\ tx[c] < SndBuf
          \/ rst[c]
NoLostEdge ==
    Defined => \A fd \in Fds :
        connections[fd] # None /\ Due(connections[fd]) =>
            \/ fd \in ready
            \/ \E e \in batch : e[1] = fd
            \/ cur = fd /\ lpc \in {"read", "write"}

\* Responses go out whole and one after the other: a response is never
\* overwritten by the next before its last unit was accepted by send().  (The
\* connection may still be closed in the middle of one.)
ResponsesWhole ==
    \A c \in Clients :
        out[c] = IF econn[c].st = "WRITING"
                 THEN RespLen * (resp[c] - 1) + econn[c].off
                 ELSE RespLen * resp[c]

\* No connection gets more than max_requests_per_conn_ responses, error
\* responses included; but one, if the limit is zero or negative.
RequestLimit == \A c \in Clients : resp[c] <= IF MaxRequests > 1 THEN MaxRequests ELSE 1

\* The server has closed the connection after a whole response, as the last one
\* it gives: Connection: close, an error, or the limit.
LastAnswered(c) ==
    /\ conn[c] = "closed" /\ econn[c].st = "WRITING" /\ econn[c].off = RespLen
    /\ ~econn[c].keep \/ econn[c].reqs >= MaxRequests

\* A client that waits for each answer gets one for every request, whole, unless
\* it closes or resets the connection, the server is stopped, an exception out
\* of route() has ended the loop, or the request came after the server's last
\* response.
EveryRequestAnswered ==
    \A c \in Clients : \A n \in 1..MaxUnits :
        (conn[c] = "accepted" /\ asked[c] >= n)
            ~> \/ got[c] >= RespLen * n
               \/ pipelined[c]
               \/ fin[c] \/ rst[c]
               \/ ~listening \/ lpc = "threw"
               \/ LastAnswered(c) /\ n > resp[c]

\* Once the loop runs, stop() ends it.
StopEndsLoop ==
    (lpc \notin {"init", "listen"} /\ ~running) ~> lpc \in {"exited", "threw", "undefined"}
=============================================================================
