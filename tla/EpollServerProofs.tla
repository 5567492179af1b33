-------------------------- MODULE EpollServerProofs --------------------------
(***************************************************************************)
(* Proofs, for any number of clients and descriptors, any buffer sizes and *)
(* any limits, of the safety properties of EpollServer.                    *)
(***************************************************************************)
EXTENDS EpollServer, FiniteSetTheorems, SequenceTheorems, WellFoundedInduction, TLAPS

-----------------------------------------------------------------------------
(* The inductive invariant                                                 *)

InHandler == {"read", "write"}

\* Where the thread is in start(), and what it may rely on there: events are
\* pending only inside the loop; a loop that was not stopped has its listener;
\* a stopped server has no connections; a handler has its connection, in the
\* state the handler is for, and no other event of it is pending.
LoopInv ==
    /\ lpc \in {"init", "listen", "wait", "exited"} => batch = {}
    /\ lpc \in {"init", "listen"} => ~running
    /\ lpc \in {"wait", "dispatch", "accept", "read", "write"} /\ listening => running
    /\ ~running => \A fd \in Fds : connections[fd] = None
    /\ lpc \in InHandler =>
          /\ cur \in Fds /\ connections[cur] # None
          /\ econn[connections[cur]].st = IF lpc = "read" THEN "READING" ELSE "WRITING"
          /\ \A e \in batch : e[1] # cur

\* A descriptor that is registered has an entry, for an accepted connection of
\* its own, and is registered for what the connection waits for.
Registered ==
    /\ \A fd \in ready : connections[fd] # None
    /\ \A fd \in Fds : connections[fd] = None => interest[fd] = {}
    /\ \A fd \in Fds : connections[fd] # None =>
          /\ conn[connections[fd]] = "accepted"
          /\ interest[fd] = IF econn[connections[fd]].st = "READING"
                            THEN {"IN"} ELSE {"OUT"}
    /\ \A fd, g \in Fds : connections[fd] = connections[g] /\ connections[fd] # None => fd = g
    /\ \A c \in Clients : conn[c] = "accepted" => \E fd \in Fds : connections[fd] = c
    /\ \A c \in Clients : conn[c] \in {"new", "pending"} => econn[c].st = "READING"

\* The batch has one event for a descriptor, and it is not stale.
BatchInv ==
    /\ NoStaleEvent
    /\ \A e, f \in batch : e[1] = f[1] => e = f
    /\ \A e \in batch : e[1] # Listener => e[2] # {}

\* A writer that found the buffer full waits for the kernel to tell it.
WaitsForSpace ==
    \A fd \in Fds : LET c == connections[fd] IN
        c # None /\ econn[c].st = "WRITING" /\ tx[c] = SndBuf =>
            nospace[c] \/ (cur = fd /\ lpc = "write")

\* A connection that is closed after its first response has had one, whatever the
\* limit is.
Limit == IF MaxRequests > 1 THEN MaxRequests ELSE 1

\* Responses and requests of a connection: whole responses, one for each request
\* that was counted, and the limit not yet reached while it reads.
CountOf(c) ==
    /\ out[c] = IF econn[c].st = "WRITING" THEN RespLen * (resp[c] - 1) + econn[c].off
                                           ELSE RespLen * resp[c]
    /\ resp[c] <= Limit
    /\ econn[c].st = "READING" => resp[c] = econn[c].reqs /\ resp[c] < Limit
    /\ econn[c].st = "WRITING" /\ econn[c].keep => resp[c] = econn[c].reqs
CountInv == \A c \in Clients : CountOf(c)

Inv == /\ TypeOK /\ LoopInv /\ Registered /\ BatchInv
       /\ NoLostEdge /\ WaitsForSpace /\ CountInv

\* An event is a descriptor, or the listener, with a set of kinds.
LEMMA EventType ==
  ASSUME TypeOK, NEW e \in batch
  PROVE  /\ e[1] \in Fds \cup {Listener} /\ e[2] \in SUBSET {"IN", "OUT", "HUP"}
         /\ e = <<e[1], e[2]>>
BY DEF TypeOK

\* A descriptor with an entry has a client.
LEMMA EntryType ==
  ASSUME TypeOK
  PROVE  /\ \A fd \in Fds : connections[fd] \in Clients \cup {None}
         /\ \A fd \in Fds : connections[fd] # None => connections[fd] \in Clients
         /\ None \notin Clients /\ Listener \notin Fds
BY EpollAssumption DEF TypeOK

-----------------------------------------------------------------------------
(* The clients' steps                                                      *)

LEMMA ConnectStep ==
  ASSUME Inv, NEW c \in Clients, Connect(c)
  PROVE  Inv'
<1>1. /\ conn[c] = "new" /\ conn' = [conn EXCEPT ![c] = "pending"]
      /\ UNCHANGED <<rx, tx, nospace, fin, rst, interest, ready, connections, econn, running,
                     listening, lpc, cur, batch, sent, asked, got, pipelined, astray, resp, out>>
  BY DEF Connect, epollVars, loopVars, clientVars, histVars
<1>2. TypeOK /\ LoopInv /\ Registered /\ BatchInv /\ NoLostEdge /\ WaitsForSpace /\ CountInv
  BY DEF Inv
<1>3. TypeOK'
  BY <1>1, <1>2 DEF TypeOK
<1>4. LoopInv'
  BY <1>1, <1>2 DEF LoopInv
<1>5. Registered'
  <2>1. \A d \in Clients : conn'[d] = IF d = c THEN "pending" ELSE conn[d]
    BY <1>1, <1>2 DEF TypeOK
  <2> QED
    BY <1>1, <1>2, <2>1, EntryType DEF Registered
<1>6. BatchInv'
  BY <1>1, <1>2 DEF BatchInv, NoStaleEvent
<1>7. NoLostEdge' /\ WaitsForSpace'
  BY <1>1, <1>2 DEF NoLostEdge, Due, Defined, WaitsForSpace
<1>8. CountInv'
  BY <1>1, <1>2 DEF CountInv, CountOf
<1> QED
  BY <1>3, <1>4, <1>5, <1>6, <1>7, <1>8 DEF Inv

\* A client's step that only adds its descriptor to the ready list, or leaves
\* that as it is, disturbs only what depends on the state of its connection.
LEMMA WakeStep ==
  ASSUME Inv, NEW c \in Clients,
         ready \subseteq ready', ready' \subseteq ready \cup {fd \in Fds : connections[fd] = c},
         \A d \in Clients : d # c => /\ rx'[d] = rx[d] /\ fin'[d] = fin[d] /\ rst'[d] = rst[d]
                                     /\ tx'[d] = tx[d] /\ nospace'[d] = nospace[d],
         UNCHANGED <<conn, interest, connections, econn, running, listening, lpc, cur, batch, resp, out>>,
         TypeOK',
         \A fd \in Fds : connections[fd] = c /\ Due(c)' /\ ~Due(c) =>
            fd \in ready' \/ (cur = fd /\ lpc \in {"read", "write"}),
         (econn[c].st = "WRITING" /\ tx'[c] = SndBuf)
           => tx[c] = SndBuf /\ nospace'[c] = nospace[c]
  PROVE  Inv'
<1>2. TypeOK /\ LoopInv /\ Registered /\ BatchInv /\ NoLostEdge /\ WaitsForSpace /\ CountInv
  BY DEF Inv
<1>4. LoopInv'
  BY <1>2 DEF LoopInv
<1>5. Registered'
  BY <1>2, EntryType DEF Registered
<1>6. BatchInv'
  BY <1>2 DEF BatchInv, NoStaleEvent
<1>7. NoLostEdge'
  <2> SUFFICES ASSUME Defined, NEW fd \in Fds, connections[fd] # None, Due(connections[fd])'
               PROVE  \/ fd \in ready'
                      \/ \E e \in batch : e[1] = fd
                      \/ cur = fd /\ lpc \in {"read", "write"}
    BY DEF NoLostEdge, Defined
  <2>1. connections[fd] \in Clients
    BY <1>2, EntryType
  <2>2. CASE Due(connections[fd])
    BY <1>2, <2>2 DEF NoLostEdge
  <2>3. CASE ~Due(connections[fd])
    <3>1. connections[fd] = c
      BY <2>1, <2>3 DEF Due
    <3> QED
      BY <2>3, <3>1
  <2> QED
    BY <2>2, <2>3
<1>8. WaitsForSpace'
  <2> SUFFICES ASSUME NEW fd \in Fds, connections[fd] # None,
                      econn[connections[fd]].st = "WRITING", tx'[connections[fd]] = SndBuf
               PROVE  nospace'[connections[fd]] \/ (cur = fd /\ lpc = "write")
    BY DEF WaitsForSpace
  <2>1. connections[fd] \in Clients
    BY <1>2, EntryType
  <2>2. tx[connections[fd]] = SndBuf /\ nospace'[connections[fd]] = nospace[connections[fd]]
    BY <2>1
  <2> QED
    BY <1>2, <2>2 DEF WaitsForSpace
<1>9. CountInv'
  BY <1>2 DEF CountInv, CountOf
<1> QED
  BY <1>4, <1>5, <1>6, <1>7, <1>8, <1>9 DEF Inv

\* What Wake adds to the ready list: the client's descriptor, if it is
\* registered for one of the kinds.
LEMMA Wakes ==
  ASSUME TypeOK, Registered, NEW c \in Clients, NEW kinds, ready' = Wake(c, kinds)
  PROVE  /\ ready \subseteq ready' /\ ready' \subseteq ready \cup {fd \in Fds : connections[fd] = c}
         /\ ready' \subseteq Fds
         /\ \A fd \in Fds : connections[fd] = c =>
               /\ "HUP" \in kinds => fd \in ready'
               /\ "IN" \in kinds /\ econn[c].st = "READING" => fd \in ready'
               /\ "OUT" \in kinds /\ econn[c].st = "WRITING" => fd \in ready'
<1>1. None \notin Clients
  BY EntryType
<1>2. ready \subseteq Fds
  BY DEF TypeOK
<1>3. \A fd \in Fds : connections[fd] = c =>
         interest[fd] = IF econn[c].st = "READING" THEN {"IN"} ELSE {"OUT"}
  BY <1>1 DEF Registered
<1> QED
  BY <1>2, <1>3 DEF Wake

LEMMA ClientSendStep ==
  ASSUME Inv, NEW c \in Clients, NEW u \in Sends, ClientSend(c, u)
  PROVE  Inv'
<1>1. /\ rx' = [rx EXCEPT ![c] = Append(@, u)]
      /\ sent' = [sent EXCEPT ![c] = @ + 1]
      /\ asked' = [asked EXCEPT ![c] = @ + IF u \in Requests THEN 1 ELSE 0]
      /\ ready' = Wake(c, {"IN"})
      /\ pipelined' = [pipelined EXCEPT ![c] = pipelined[c] \/ got[c] # RespLen * asked[c]]
      /\ UNCHANGED <<tx, nospace, fin, rst, got, astray>>
      /\ UNCHANGED <<conn, interest, connections, econn, running, listening, lpc, cur, batch, resp, out>>
  BY DEF ClientSend, loopVars, histVars
<1>2. TypeOK /\ Registered
  BY DEF Inv
<1>3. /\ ready \subseteq ready' /\ ready' \subseteq ready \cup {fd \in Fds : connections[fd] = c}
      /\ ready' \subseteq Fds
      /\ \A fd \in Fds : connections[fd] = c /\ econn[c].st = "READING" => fd \in ready'
  BY <1>1, <1>2, Wakes
<1>4. /\ rx' \in [Clients -> Seq(Units)]
      /\ \A d \in Clients : d # c => rx'[d] = rx[d]
  <2>1. u \in Units /\ rx \in [Clients -> Seq(Units)]
    BY <1>2, EpollAssumption DEF Units, TypeOK
  <2>2. Append(rx[c], u) \in Seq(Units)
    BY <2>1, AppendProperties
  <2> QED
    BY <1>1, <2>1, <2>2
<1>5. sent' \in [Clients -> Nat] /\ asked' \in [Clients -> Nat]
  <2>1. sent \in [Clients -> Nat] /\ asked \in [Clients -> Nat]
    BY <1>2 DEF TypeOK
  <2>2. sent' \in [Clients -> Nat]
    BY <1>1, <2>1
  <2>3. asked' \in [Clients -> Nat]
    BY <1>1, <2>1
  <2> QED
    BY <2>2, <2>3
<1>6. TypeOK'
  <2>1. pipelined \in [Clients -> BOOLEAN]
    BY <1>2 DEF TypeOK
  <2>2. pipelined' \in [Clients -> BOOLEAN]
    BY <1>1, <2>1, Zenon
  <2> QED
    BY <1>1, <1>2, <1>3, <1>4, <1>5, <2>2 DEF TypeOK
<1>7. Due(c)' /\ ~Due(c) => econn[c].st = "READING"
  BY <1>1 DEF Due
<1> QED
  BY <1>1, <1>3, <1>4, <1>6, <1>7, WakeStep

LEMMA ClientCloseStep ==
  ASSUME Inv, NEW c \in Clients, ClientClose(c)
  PROVE  Inv'
<1>1. /\ fin' = [fin EXCEPT ![c] = TRUE] /\ ready' = Wake(c, {"IN"})
      /\ UNCHANGED <<rx, tx, nospace, rst, sent, asked, got, pipelined, astray>>
      /\ UNCHANGED <<conn, interest, connections, econn, running, listening, lpc, cur, batch, resp, out>>
  BY DEF ClientClose, loopVars, clientVars, histVars
<1>2. TypeOK /\ Registered
  BY DEF Inv
<1>3. /\ ready \subseteq ready' /\ ready' \subseteq ready \cup {fd \in Fds : connections[fd] = c}
      /\ ready' \subseteq Fds
      /\ \A fd \in Fds : connections[fd] = c /\ econn[c].st = "READING" => fd \in ready'
  BY <1>1, <1>2, Wakes
<1>4. fin' \in [Clients -> BOOLEAN] /\ \A d \in Clients : d # c => fin'[d] = fin[d]
  BY <1>1, <1>2 DEF TypeOK
<1>5. TypeOK'
  BY <1>1, <1>2, <1>3, <1>4 DEF TypeOK
<1>6. Due(c)' /\ ~Due(c) => econn[c].st = "READING"
  BY <1>1 DEF Due
<1> QED
  BY <1>1, <1>3, <1>4, <1>5, <1>6, WakeStep

LEMMA ClientResetStep ==
  ASSUME Inv, NEW c \in Clients, ClientReset(c)
  PROVE  Inv'
<1>1. /\ rst' = [rst EXCEPT ![c] = TRUE] /\ ready' = Wake(c, {"IN", "OUT", "HUP"})
      /\ UNCHANGED <<rx, tx, nospace, fin, sent, asked, got, pipelined, astray>>
      /\ UNCHANGED <<conn, interest, connections, econn, running, listening, lpc, cur, batch, resp, out>>
  BY DEF ClientReset, loopVars, clientVars, histVars
<1>2. TypeOK /\ Registered
  BY DEF Inv
<1>3. /\ ready \subseteq ready' /\ ready' \subseteq ready \cup {fd \in Fds : connections[fd] = c}
      /\ ready' \subseteq Fds
      /\ \A fd \in Fds : connections[fd] = c => fd \in ready'
  BY <1>1, <1>2, Wakes
<1>4. rst' \in [Clients -> BOOLEAN] /\ \A d \in Clients : d # c => rst'[d] = rst[d]
  BY <1>1, <1>2 DEF TypeOK
<1>5. TypeOK'
  BY <1>1, <1>2, <1>3, <1>4 DEF TypeOK
<1> QED
  BY <1>1, <1>3, <1>4, <1>5, WakeStep

\* Room in a buffer that was full is reported to the writer that waits for it,
\* and there is no other.
LEMMA ClientDrainStep ==
  ASSUME Inv, NEW c \in Clients, ClientDrain(c)
  PROVE  Inv'
<1>1. /\ tx[c] > 0 /\ tx' = [tx EXCEPT ![c] = @ - 1] /\ got' = [got EXCEPT ![c] = @ + 1]
      /\ nospace' = [nospace EXCEPT ![c] = FALSE]
      /\ ready' = IF nospace[c] THEN Wake(c, {"OUT"}) ELSE ready
      /\ UNCHANGED <<rx, fin, rst, sent, asked, pipelined, astray>>
      /\ UNCHANGED <<conn, interest, connections, econn, running, listening, lpc, cur, batch, resp, out>>
  BY DEF ClientDrain, loopVars, histVars
<1>2. TypeOK /\ Registered /\ WaitsForSpace /\ LoopInv
  BY DEF Inv
<1>3. SndBuf \in Nat /\ tx[c] \in 0..SndBuf
  BY <1>2, EpollAssumption DEF TypeOK
<1>4. /\ tx' \in [Clients -> 0..SndBuf] /\ tx'[c] = tx[c] - 1 /\ tx'[c] # SndBuf
      /\ \A d \in Clients : d # c => tx'[d] = tx[d] /\ nospace'[d] = nospace[d]
  <2>1. tx[c] - 1 \in 0..SndBuf /\ tx[c] - 1 # SndBuf
    BY <1>1, <1>3
  <2> QED
    BY <1>1, <1>2, <2>1 DEF TypeOK
<1>5. /\ ready \subseteq ready' /\ ready' \subseteq ready \cup {fd \in Fds : connections[fd] = c}
      /\ ready' \subseteq Fds
      /\ \A fd \in Fds : connections[fd] = c /\ econn[c].st = "WRITING" /\ nospace[c] => fd \in ready'
  <2>1. CASE nospace[c]
    BY <1>1, <1>2, <2>1, Wakes
  <2>2. CASE ~nospace[c]
    BY <1>1, <1>2, <2>2 DEF TypeOK
  <2> QED
    BY <2>1, <2>2
<1>6. got' \in [Clients -> Nat] /\ nospace' \in [Clients -> BOOLEAN]
  BY <1>1, <1>2 DEF TypeOK
<1>7. TypeOK'
  BY <1>1, <1>2, <1>4, <1>5, <1>6 DEF TypeOK
<1>8. Due(c)' /\ ~Due(c) => econn[c].st = "WRITING" /\ tx[c] = SndBuf
  BY <1>1, <1>3 DEF Due
<1>9. ASSUME NEW fd \in Fds, connections[fd] = c, Due(c)', ~Due(c)
      PROVE  fd \in ready' \/ (cur = fd /\ lpc \in {"read", "write"})
  <2>1. connections[fd] # None /\ econn[c].st = "WRITING" /\ tx[c] = SndBuf
    BY <1>2, <1>8, <1>9, EntryType
  <2>2. nospace[c] \/ (cur = fd /\ lpc = "write")
    BY <1>2, <1>9, <2>1 DEF WaitsForSpace
  <2> QED
    BY <1>5, <1>9, <2>1, <2>2
<1> QED
  BY <1>1, <1>4, <1>5, <1>7, <1>9, WakeStep

-----------------------------------------------------------------------------
(* The loop's steps outside the handlers                                   *)

\* A step outside the handlers that moves only the loop's control keeps the
\* rest of the invariant.
LEMMA ControlStep ==
  ASSUME Inv, lpc \notin InHandler, lpc' \notin InHandler, lpc \notin {"undefined", "threw"},
         running' => running \/ batch = {},
         UNCHANGED <<conn, rx, tx, nospace, fin, rst, interest, ready, connections, econn,
                     cur, batch, sent, asked, got, pipelined, astray, resp, out>>,
         TypeOK', LoopInv'
  PROVE  Inv'
<1>1. TypeOK /\ LoopInv /\ Registered /\ BatchInv /\ NoLostEdge /\ WaitsForSpace /\ CountInv
  BY DEF Inv
<1>2. Registered'
  BY <1>1 DEF Registered
<1>3. BatchInv'
  BY <1>1 DEF BatchInv, NoStaleEvent
<1>4. NoLostEdge'
  BY <1>1 DEF NoLostEdge, Due, Defined, InHandler
<1>5. WaitsForSpace'
  BY <1>1 DEF WaitsForSpace, InHandler
<1>6. CountInv'
  BY <1>1 DEF CountInv, CountOf
<1> QED
  BY <1>2, <1>3, <1>4, <1>5, <1>6 DEF Inv

LEMMA StartStep ==
  ASSUME Inv, StartListener \/ StartLoop \/ LoopExit \/ BatchDone \/ AcceptNone
  PROVE  Inv'
<1>1. TypeOK /\ LoopInv
  BY DEF Inv
<1>2. UNCHANGED <<conn, rx, tx, nospace, fin, rst, interest, ready, connections, econn,
                  cur, batch, sent, asked, got, pipelined, astray, resp, out>>
  BY DEF StartListener, StartLoop, LoopExit, BatchDone, AcceptNone, Goto, kernelVars, epollVars,
         clientVars, histVars
<1>3. \/ lpc = "init" /\ running' = running /\ listening' \in BOOLEAN /\ lpc' \in {"listen", "exited"}
      \/ /\ lpc = "listen" /\ listening' = listening /\ running' \in BOOLEAN
         /\ \/ lpc' = "wait" /\ running'
            \/ lpc' = "exited" /\ ~running'
      \/ lpc = "wait" /\ UNCHANGED <<running, listening>> /\ lpc' = "exited"
      \/ lpc = "dispatch" /\ batch = {} /\ UNCHANGED <<running, listening>> /\ lpc' = "wait"
      \/ lpc = "accept" /\ UNCHANGED <<running, listening>> /\ lpc' = "dispatch"
  BY DEF StartListener, StartLoop, LoopExit, BatchDone, AcceptNone, Goto
<1>4. TypeOK'
  <2>1. running' \in BOOLEAN /\ listening' \in BOOLEAN
    BY <1>1, <1>3 DEF TypeOK
  <2>2. lpc' \in {"init", "listen", "wait", "dispatch", "accept", "read", "write",
                  "exited", "threw", "undefined"}
    BY <1>3
  <2> QED
    BY <1>1, <1>2, <2>1, <2>2 DEF TypeOK
<1>5. LoopInv'
  BY <1>1, <1>2, <1>3 DEF LoopInv, InHandler
<1>6. /\ lpc \notin InHandler /\ lpc' \notin InHandler /\ lpc \notin {"undefined", "threw"}
      /\ running' => running \/ batch = {}
  BY <1>1, <1>3 DEF InHandler, LoopInv
<1> QED
  BY <1>2, <1>4, <1>5, <1>6, ControlStep

\* epoll_wait: every event is of its descriptor's connection now, and what it
\* drops from the ready list has nothing to do.
LEMMA EpollWaitStep ==
  ASSUME Inv, EpollWait
  PROVE  Inv'
<1> DEFINE listen == IF listening /\ Pending # {} THEN {<<Listener, {"IN"}>>} ELSE {}
           all == {<<fd, Events(fd)>> : fd \in {f \in ready : Events(f) # {}}} \cup listen
<1>1. TypeOK /\ LoopInv /\ Registered /\ BatchInv /\ NoLostEdge /\ WaitsForSpace /\ CountInv
  BY DEF Inv
<1>2. /\ lpc = "wait" /\ running /\ lpc' = "dispatch" /\ batch = {}
      /\ batch' \subseteq all /\ ready' = {e[1] : e \in (all \ batch') \ listen}
      /\ UNCHANGED <<conn, rx, tx, nospace, fin, rst, interest, connections, econn, running,
                     listening, cur, sent, asked, got, pipelined, astray, resp, out>>
  BY <1>1 DEF EpollWait, LoopInv, kernelVars, clientVars, histVars
<1>3. listen \subseteq {<<Listener, {"IN"}>>}
  OBVIOUS
<1> HIDE DEF listen
<1>4. /\ ready \subseteq Fds /\ Listener \notin Fds
      /\ \A fd \in Fds : interest[fd] \subseteq {"IN", "OUT"}
      /\ \A fd \in ready : connections[fd] # None
  BY <1>1, EntryType DEF TypeOK, Registered
<1>5. \A fd \in ready : /\ Events(fd) \subseteq interest[fd] \cup {"HUP"}
                        /\ Events(fd) \in SUBSET {"IN", "OUT", "HUP"}
  BY <1>4 DEF Events
<1>6. \A e \in all : \/ e = <<Listener, {"IN"}>>
                     \/ \E fd \in ready : e = <<fd, Events(fd)>> /\ Events(fd) # {}
  BY <1>3
<1>7. ready' \subseteq ready
  <2>1. \A e \in all \ listen : e[1] \in ready
    OBVIOUS
  <2> QED
    BY <1>2, <2>1
<1>8. \A fd \in ready : Events(fd) # {} => fd \in ready' \/ \E e \in batch' : e[1] = fd
  <2> SUFFICES ASSUME NEW fd \in ready, Events(fd) # {}, ~\E e \in batch' : e[1] = fd
               PROVE  fd \in ready'
    OBVIOUS
  <2>1. <<fd, Events(fd)>> \in all /\ <<fd, Events(fd)>> \notin batch'
    OBVIOUS
  <2>2. <<fd, Events(fd)>> \notin listen
    BY <1>3, <1>4
  <2> QED
    BY <1>2, <2>1, <2>2
<1> HIDE DEF all
<1>9. TypeOK'
  <2>1. batch' \subseteq ((Fds \cup {Listener}) \X SUBSET {"IN", "OUT", "HUP"})
    <3>1. <<Listener, {"IN"}>> \in (Fds \cup {Listener}) \X SUBSET {"IN", "OUT", "HUP"}
      OBVIOUS
    <3>2. \A fd \in ready : <<fd, Events(fd)>> \in (Fds \cup {Listener}) \X SUBSET {"IN", "OUT", "HUP"}
      BY <1>4, <1>5
    <3> QED
      BY <1>2, <1>6, <3>1, <3>2
  <2> QED
    BY <1>1, <1>2, <1>4, <1>7, <2>1 DEF TypeOK
<1>10. LoopInv'
  BY <1>1, <1>2 DEF LoopInv, InHandler
<1>11. Registered'
  BY <1>1, <1>2, <1>7 DEF Registered
<1>12. BatchInv'
  <2>1. ASSUME NEW e \in batch', e[1] # Listener
        PROVE  connections[e[1]] # None /\ e[2] \subseteq interest[e[1]] \cup {"HUP"} /\ e[2] # {}
    <3>1. PICK fd \in ready : e = <<fd, Events(fd)>> /\ Events(fd) # {}
      BY <1>2, <1>6, <2>1
    <3>2. e[1] = fd /\ e[2] = Events(fd)
      BY <3>1
    <3> QED
      BY <1>4, <1>5, <3>1, <3>2
  <2>2. ASSUME NEW e \in batch', NEW f \in batch', e[1] = f[1]
        PROVE  e = f
    <3>1. e \in all /\ f \in all
      BY <1>2
    <3>2. CASE e = <<Listener, {"IN"}>>
      BY <1>4, <1>6, <2>2, <3>1, <3>2
    <3>3. CASE \E fd \in ready : e = <<fd, Events(fd)>>
      BY <1>4, <1>6, <2>2, <3>1, <3>3
    <3> QED
      BY <1>6, <3>1, <3>2, <3>3
  <2> QED
    BY <1>2, <2>1, <2>2 DEF BatchInv, NoStaleEvent
<1>13. NoLostEdge'
  <2> SUFFICES ASSUME NEW fd \in Fds, connections[fd] # None, Due(connections[fd])
               PROVE  fd \in ready' \/ \E e \in batch' : e[1] = fd
    BY <1>2 DEF NoLostEdge, Due
  <2>1. fd \in ready
    BY <1>1, <1>2 DEF NoLostEdge, Defined
  <2>2. /\ interest[fd] = IF econn[connections[fd]].st = "READING" THEN {"IN"} ELSE {"OUT"}
        /\ econn[connections[fd]].st \in {"READING", "WRITING"}
    BY <1>1, EntryType DEF Registered, TypeOK
  <2>3. Events(fd) # {}
    BY <2>2 DEF Events, Poll, Due
  <2> QED
    BY <1>8, <2>1, <2>3
<1>14. WaitsForSpace'
  BY <1>1, <1>2 DEF WaitsForSpace
<1>15. CountInv'
  BY <1>1, <1>2 DEF CountInv, CountOf
<1> QED
  BY <1>9, <1>10, <1>11, <1>12, <1>13, <1>14, <1>15 DEF Inv

\* close_connection: the entry, the registration and the socket go together,
\* and no event of the descriptor is left behind.
LEMMA Closing ==
  ASSUME Inv, NEW fd \in Fds, CloseConnection(fd),
         lpc \in {"dispatch", "read", "write"}, lpc' = "dispatch",
         lpc \in InHandler => cur = fd,
         cur' \in Fds,
         batch' = {e \in batch : e[1] # fd},
         UNCHANGED <<rx, tx, nospace, fin, rst, econn, running, listening, sent, asked, got, pipelined, astray, resp, out>>
  PROVE  Inv'
<1>1. TypeOK /\ LoopInv /\ Registered /\ BatchInv /\ NoLostEdge /\ WaitsForSpace /\ CountInv
  BY DEF Inv
<1>2. /\ conn' = [c \in Clients |-> IF connections[fd] = c THEN "closed" ELSE conn[c]]
      /\ connections' = [connections EXCEPT ![fd] = None]
      /\ interest' = [interest EXCEPT ![fd] = {}]
      /\ ready' = ready \ {fd}
  BY DEF CloseConnection, RemoveFromEpoll
<1>3. /\ connections'[fd] = None /\ interest'[fd] = {}
      /\ \A g \in Fds : g # fd => connections'[g] = connections[g] /\ interest'[g] = interest[g]
  BY <1>1, <1>2 DEF TypeOK
<1>4. TypeOK'
  <2>1. /\ conn' \in [Clients -> {"new", "pending", "accepted", "closed"}]
        /\ connections' \in [Fds -> Clients \cup {None}]
        /\ interest' \in [Fds -> SUBSET {"IN", "OUT"}]
    BY <1>1, <1>2 DEF TypeOK
  <2>2. ready' \subseteq Fds /\ batch' \subseteq batch
    BY <1>1, <1>2 DEF TypeOK
  <2> QED
    BY <1>1, <2>1, <2>2 DEF TypeOK
<1>5. LoopInv'
  <2>1. ~running => \A g \in Fds : connections'[g] = None
    BY <1>1, <1>3 DEF LoopInv
  <2> QED
    BY <1>1, <2>1 DEF LoopInv, InHandler
<1>6. Registered'
  <2>1. \A g \in Fds : g # fd /\ connections[g] # None =>
           connections[g] \in Clients /\ connections[g] # connections[fd]
    BY <1>1, EntryType DEF Registered
  <2>2. \A g \in ready' : connections'[g] # None
    BY <1>1, <1>2, <1>3 DEF Registered, TypeOK
  <2>3. ASSUME NEW g \in Fds, connections'[g] # None
        PROVE  /\ conn'[connections'[g]] = "accepted"
               /\ interest'[g] = IF econn[connections'[g]].st = "READING" THEN {"IN"} ELSE {"OUT"}
    <3>1. g # fd /\ connections'[g] = connections[g] /\ interest'[g] = interest[g]
      BY <1>3, <2>3
    <3>2. conn'[connections[g]] = conn[connections[g]]
      BY <1>2, <2>1, <2>3, <3>1
    <3> QED
      BY <1>1, <2>3, <3>1, <3>2 DEF Registered
  <2>4. ASSUME NEW c \in Clients, conn'[c] = "accepted"
        PROVE  \E g \in Fds : connections'[g] = c
    <3>1. conn[c] = "accepted" /\ connections[fd] # c
      BY <1>2, <2>4
    <3> QED
      BY <1>1, <1>3, <3>1 DEF Registered
  <2>5. \A c \in Clients : conn'[c] \in {"new", "pending"} => econn[c].st = "READING"
    BY <1>1, <1>2 DEF Registered
  <2>6. \A g \in Fds : connections'[g] = None => interest'[g] = {}
    BY <1>1, <1>3 DEF Registered
  <2>7. \A f, g \in Fds : connections'[f] = connections'[g] /\ connections'[f] # None => f = g
    BY <1>1, <1>3 DEF Registered
  <2> QED
    BY <2>2, <2>3, <2>4, <2>5, <2>6, <2>7 DEF Registered
<1>7. BatchInv'
  <2>1. \A e \in batch' : e \in batch /\ e[1] # fd /\ (e[1] # Listener => e[1] \in Fds)
    BY <1>1, EventType
  <2> QED
    BY <1>1, <1>3, <2>1 DEF BatchInv, NoStaleEvent
<1>8. NoLostEdge'
  <2> SUFFICES ASSUME NEW g \in Fds, connections'[g] # None, Due(connections[g])'
               PROVE  g \in ready' \/ \E e \in batch' : e[1] = g
    BY DEF NoLostEdge
  <2>1. g # fd /\ connections'[g] = connections[g] /\ Due(connections[g]) /\ connections[g] # None
    BY <1>3 DEF Due
  <2>2. g \in ready \/ \E e \in batch : e[1] = g
    BY <1>1, <2>1 DEF NoLostEdge, Defined, InHandler
  <2> QED
    BY <1>2, <2>1, <2>2
<1>9. WaitsForSpace'
  <2> SUFFICES ASSUME NEW g \in Fds, connections'[g] # None,
                      econn[connections'[g]].st = "WRITING", tx[connections'[g]] = SndBuf
               PROVE  nospace[connections'[g]]
    BY DEF WaitsForSpace
  <2>1. g # fd /\ connections'[g] = connections[g]
    BY <1>3
  <2> QED
    BY <1>1, <2>1 DEF WaitsForSpace, InHandler
<1>10. CountInv'
  BY <1>1 DEF CountInv, CountOf
<1> QED
  BY <1>4, <1>5, <1>6, <1>7, <1>8, <1>9, <1>10 DEF Inv

\* An event is dispatched: to the connection it was reported for.
LEMMA DispatchStep ==
  ASSUME Inv, Dispatch
  PROVE  Inv'
<1>1. TypeOK /\ LoopInv /\ Registered /\ BatchInv /\ NoLostEdge /\ WaitsForSpace /\ CountInv
  BY DEF Inv
<1>2. PICK e \in batch :
        /\ lpc = "dispatch" /\ batch' = batch \ {e} /\ cur' = e[1]
        /\ \/ /\ e[1] = Listener
              /\ lpc' = "accept"
              /\ UNCHANGED <<conn, connections, epollVars>>
           \/ /\ e[1] # Listener /\ "HUP" \in e[2]
              /\ CloseConnection(e[1])
              /\ lpc' = lpc
           \/ /\ e[1] # Listener /\ "HUP" \notin e[2]
              /\ lpc' = IF connections[e[1]] = None THEN "dispatch"
                        ELSE IF "IN" \in e[2] THEN "read" ELSE "write"
              /\ UNCHANGED <<conn, connections, epollVars>>
  BY DEF Dispatch
<1>3. UNCHANGED <<running, listening, rx, tx, nospace, fin, rst, econn, sent, asked, got, pipelined, astray, resp, out>>
  BY DEF Dispatch, clientVars, histVars
<1>4. /\ e[1] \in Fds \cup {Listener} /\ Listener \notin Fds /\ e[2] \in SUBSET {"IN", "OUT", "HUP"}
  BY <1>1, EventType, EntryType
<1>5. batch' = {f \in batch : f[1] # e[1]}
  BY <1>1, <1>2 DEF BatchInv
<1>6. CASE e[1] # Listener /\ "HUP" \in e[2]
  BY <1>2, <1>3, <1>4, <1>5, <1>6, Closing DEF InHandler
<1>7. CASE e[1] = Listener \/ "HUP" \notin e[2]
  <2>1. /\ UNCHANGED <<conn, connections, interest, ready>>
        /\ \/ e[1] = Listener /\ lpc' = "accept"
           \/ e[1] \in Fds /\ connections[e[1]] = None /\ lpc' = "dispatch"
           \/ e[1] \in Fds /\ connections[e[1]] # None /\ "IN" \in e[2] /\ lpc' = "read"
           \/ e[1] \in Fds /\ connections[e[1]] # None /\ "IN" \notin e[2] /\ lpc' = "write"
    BY <1>2, <1>4, <1>7 DEF epollVars
  <2>2. TypeOK'
    <3>1. lpc' \in {"accept", "dispatch", "read", "write"} /\ cur' \in Fds \cup {Listener, None}
      BY <1>2, <1>4, <2>1
    <3>2. batch' \subseteq batch
      BY <1>2
    <3> QED
      BY <1>1, <1>3, <2>1, <3>1, <3>2 DEF TypeOK
  <2>3. ASSUME e[1] \in Fds, connections[e[1]] # None
        PROVE  econn[connections[e[1]]].st = IF "IN" \in e[2] THEN "READING" ELSE "WRITING"
    <3>1. running
      BY <1>1, <2>3 DEF LoopInv
    <3>2. e[2] \subseteq interest[e[1]] \cup {"HUP"} /\ e[2] # {} /\ "HUP" \notin e[2]
      BY <1>1, <1>4, <1>7, <2>3, <3>1 DEF BatchInv, NoStaleEvent
    <3>3. /\ interest[e[1]] = IF econn[connections[e[1]]].st = "READING" THEN {"IN"} ELSE {"OUT"}
          /\ econn[connections[e[1]]].st \in {"READING", "WRITING"}
      BY <1>1, <2>3, EntryType DEF Registered, TypeOK
    <3> QED
      BY <1>4, <3>2, <3>3
  <2>4. LoopInv'
    BY <1>1, <1>2, <1>3, <1>5, <2>1, <2>3 DEF LoopInv, InHandler
  <2>5. Registered'
    BY <1>1, <1>3, <2>1 DEF Registered
  <2>6. BatchInv'
    BY <1>1, <1>2, <1>3, <2>1 DEF BatchInv, NoStaleEvent
  <2>7. NoLostEdge'
    <3> SUFFICES ASSUME NEW g \in Fds, connections[g] # None, Due(connections[g])
                 PROVE  \/ g \in ready \/ \E f \in batch' : f[1] = g
                        \/ cur' = g /\ lpc' \in {"read", "write"}
      BY <1>3, <2>1 DEF NoLostEdge, Due
    <3>1. g \in ready \/ \E f \in batch : f[1] = g
      BY <1>1, <1>2 DEF NoLostEdge, Defined
    <3>2. CASE g = e[1]
      BY <1>2, <1>4, <2>1, <3>2
    <3>3. CASE g # e[1]
      BY <1>5, <3>1, <3>3
    <3> QED
      BY <3>2, <3>3
  <2>8. WaitsForSpace'
    BY <1>1, <1>2, <1>3, <2>1 DEF WaitsForSpace
  <2>9. CountInv'
    BY <1>1, <1>3 DEF CountInv, CountOf
  <2> QED
    BY <2>2, <2>4, <2>5, <2>6, <2>7, <2>8, <2>9 DEF Inv
<1> QED
  BY <1>6, <1>7

\* A set of descriptors has a lowest one.
LEMMA Lowest ==
  ASSUME NEW T \in SUBSET Nat, T # {}
  PROVE  \E i \in T : \A j \in T : i <= j
<1>1. PICK i \in T : \A j \in T : ~(<<j, i>> \in OpToRel(<, Nat))
  BY NatLessThanWellFounded, WFMin
<1>2. \A j \in T : ~(j < i)
  BY <1>1 DEF OpToRel
<1> QED
  BY <1>2

\* accept(): the descriptor is free, so no event of it is pending.
LEMMA AcceptStep ==
  ASSUME Inv, NEW c \in Clients, NEW ok \in BOOLEAN, Accept(c, ok)
  PROVE  Inv'
<1> DEFINE fd == CHOOSE f \in Free : \A g \in Free : f <= g
<1>1. TypeOK /\ LoopInv /\ Registered /\ BatchInv /\ NoLostEdge /\ WaitsForSpace /\ CountInv
  BY DEF Inv
<1>2. /\ lpc = "accept" /\ listening /\ conn[c] = "pending" /\ Free # {}
      /\ UNCHANGED <<rx, tx, nospace, fin, rst, econn, running, listening, lpc, cur, batch,
                     sent, asked, got, pipelined, astray, resp, out>>
      /\ \/ /\ conn' = [conn EXCEPT ![c] = "accepted"]
            /\ connections' = [connections EXCEPT ![fd] = c]
            /\ AddToEpoll(fd, c)
         \/ /\ conn' = [conn EXCEPT ![c] = "closed"]
            /\ UNCHANGED <<connections, interest, ready>>
  BY DEF Accept, Pending, loopVars, clientVars, histVars, epollVars
<1>3. fd \in Fds /\ connections[fd] = None
  <2>1. Free \in SUBSET Nat
    BY EpollAssumption DEF Free
  <2>2. \E f \in Free : \A g \in Free : f <= g
    BY <1>2, <2>1, Lowest
  <2>3. fd \in Free
    BY <2>2
  <2> QED
    BY <2>3 DEF Free
<1> HIDE DEF fd
<1>4. running /\ econn[c].st = "READING" /\ \A g \in Fds : connections[g] # c
  <2>1. c # None
    BY <1>1, EntryType
  <2> QED
    BY <1>1, <1>2, <2>1 DEF LoopInv, Registered
<1>5. CountInv'
  BY <1>1, <1>2 DEF CountInv, CountOf
<1>6. CASE /\ conn' = [conn EXCEPT ![c] = "closed"]
           /\ UNCHANGED <<connections, interest, ready>>
  <2>1. \A d \in Clients : conn'[d] = IF d = c THEN "closed" ELSE conn[d]
    BY <1>1, <1>6 DEF TypeOK
  <2>2. TypeOK'
    BY <1>1, <1>2, <1>6 DEF TypeOK
  <2>3. LoopInv'
    BY <1>1, <1>2, <1>6 DEF LoopInv
  <2>4. Registered'
    BY <1>1, <1>2, <1>4, <1>6, <2>1, EntryType DEF Registered
  <2>5. BatchInv'
    BY <1>1, <1>2, <1>6 DEF BatchInv, NoStaleEvent
  <2>6. NoLostEdge' /\ WaitsForSpace'
    BY <1>1, <1>2, <1>6 DEF NoLostEdge, Due, Defined, WaitsForSpace
  <2> QED
    BY <1>5, <2>2, <2>3, <2>4, <2>5, <2>6 DEF Inv
<1>7. CASE /\ conn' = [conn EXCEPT ![c] = "accepted"]
           /\ connections' = [connections EXCEPT ![fd] = c]
           /\ AddToEpoll(fd, c)
  <2>1. \A d \in Clients : conn'[d] = IF d = c THEN "accepted" ELSE conn[d]
    BY <1>1, <1>7 DEF TypeOK
  <2>2. \A g \in Fds : /\ connections'[g] = IF g = fd THEN c ELSE connections[g]
                       /\ interest'[g] = IF g = fd THEN {"IN"} ELSE interest[g]
    BY <1>1, <1>3, <1>7 DEF TypeOK, AddToEpoll
  <2>3. /\ ready \subseteq ready' /\ ready' \subseteq ready \cup {fd}
        /\ "IN" \in Poll(c) => fd \in ready'
    BY <1>7 DEF AddToEpoll
  <2>4. TypeOK'
    <3>1. /\ connections' \in [Fds -> Clients \cup {None}]
          /\ interest' \in [Fds -> SUBSET {"IN", "OUT"}]
          /\ conn' \in [Clients -> {"new", "pending", "accepted", "closed"}]
      BY <1>1, <1>3, <1>7 DEF TypeOK, AddToEpoll
    <3>2. ready' \subseteq Fds
      BY <1>1, <1>3, <2>3 DEF TypeOK
    <3> QED
      BY <1>1, <1>2, <3>1, <3>2 DEF TypeOK
  <2>5. LoopInv'
    BY <1>1, <1>2, <1>4 DEF LoopInv, InHandler
  <2>6. Registered'
    <3>1. c # None
      BY <1>1, EntryType
    <3>2. \A g \in ready' : connections'[g] # None
      BY <1>1, <1>3, <2>2, <2>3, <3>1 DEF Registered, TypeOK
    <3>3. ASSUME NEW g \in Fds, connections'[g] # None
          PROVE  /\ conn'[connections'[g]] = "accepted"
                 /\ interest'[g] = IF econn[connections'[g]].st = "READING" THEN {"IN"} ELSE {"OUT"}
      <4>1. CASE g = fd
        BY <1>4, <2>1, <2>2, <4>1
      <4>2. CASE g # fd
        BY <1>1, <1>4, <2>1, <2>2, <3>3, <4>2, EntryType DEF Registered
      <4> QED
        BY <4>1, <4>2
    <3>4. \A f, g \in Fds : connections'[f] = connections'[g] /\ connections'[f] # None => f = g
      BY <1>1, <1>4, <2>2 DEF Registered
    <3>5. \A d \in Clients : conn'[d] = "accepted" => \E g \in Fds : connections'[g] = d
      <4> TAKE d \in Clients
      <4> HAVE conn'[d] = "accepted"
      <4>1. CASE d = c
        BY <1>3, <2>2, <4>1
      <4>2. CASE d # c
        <5>1. PICK g \in Fds : connections[g] = d
          BY <1>1, <2>1, <4>2 DEF Registered
        <5>2. d # None
          BY <1>1, EntryType
        <5> QED
          BY <1>3, <2>2, <5>1, <5>2
      <4> QED
        BY <4>1, <4>2
    <3>6. \A g \in Fds : connections'[g] = None => interest'[g] = {}
      BY <1>1, <2>2, <3>1 DEF Registered
    <3>7. \A d \in Clients : conn'[d] \in {"new", "pending"} => econn[d].st = "READING"
      BY <1>1, <2>1 DEF Registered
    <3> QED
      BY <1>2, <3>2, <3>3, <3>4, <3>5, <3>6, <3>7 DEF Registered
  <2>7. BatchInv'
    <3>1. \A e \in batch : e[1] # Listener => e[1] \in Fds /\ e[1] # fd
      BY <1>1, <1>3, <1>4, EventType DEF BatchInv, NoStaleEvent
    <3> QED
      BY <1>1, <1>2, <2>2, <3>1 DEF BatchInv, NoStaleEvent
  <2>8. NoLostEdge'
    <3> SUFFICES ASSUME NEW g \in Fds, connections'[g] # None, Due(connections[g])'
                 PROVE  g \in ready' \/ \E e \in batch : e[1] = g
      BY <1>2 DEF NoLostEdge
    <3>1. CASE g = fd
      <4>1. Due(c)
        BY <1>2, <2>2, <3>1 DEF Due
      <4> QED
        BY <1>4, <2>3, <3>1, <4>1 DEF Due, Poll
    <3>2. CASE g # fd
      <4>1. connections[g] # None /\ Due(connections[g])
        BY <1>2, <2>2, <3>2 DEF Due
      <4> QED
        BY <1>1, <1>2, <2>3, <4>1 DEF NoLostEdge, Defined
    <3> QED
      BY <3>1, <3>2
  <2>9. WaitsForSpace'
    BY <1>1, <1>2, <1>4, <2>2 DEF WaitsForSpace
  <2> QED
    BY <1>5, <2>4, <2>5, <2>6, <2>7, <2>8, <2>9 DEF Inv
<1> QED
  BY <1>2, <1>6, <1>7

-----------------------------------------------------------------------------
(* handle_read and handle_write                                            *)

\* What a handler may rely on.
LEMMA InsideHandler ==
  ASSUME Inv, lpc \in InHandler, NEW c \in Clients, c = connections[cur]
  PROVE  /\ cur \in Fds /\ c # None /\ running
         /\ econn[c].st = IF lpc = "read" THEN "READING" ELSE "WRITING"
         /\ \A e \in batch : e[1] # cur
         /\ \A g \in Fds : g # cur => connections[g] # c
<1>1. TypeOK /\ LoopInv /\ Registered
  BY DEF Inv
<1>2. cur \in Fds /\ c # None /\ \A e \in batch : e[1] # cur
  BY <1>1, EntryType DEF LoopInv
<1>3. econn[c].st = IF lpc = "read" THEN "READING" ELSE "WRITING"
  BY <1>1 DEF LoopInv
<1> QED
  BY <1>1, <1>2, <1>3 DEF LoopInv, Registered

\* A handler's step that keeps its connection, registers it for what it waits
\* for, and returns only when nothing is due or the kernel has seen that it is.
LEMMA HandlerStep ==
  ASSUME Inv, lpc \in InHandler, NEW c \in Clients, c = connections[cur],
         \A d \in Clients : d # c => /\ rx'[d] = rx[d] /\ tx'[d] = tx[d] /\ nospace'[d] = nospace[d]
                                     /\ econn'[d] = econn[d] /\ resp'[d] = resp[d] /\ out'[d] = out[d],
         UNCHANGED <<conn, fin, rst, connections, running, listening, cur, batch>>,
         interest'[cur] = IF econn'[c].st = "READING" THEN {"IN"} ELSE {"OUT"},
         \A g \in Fds : g # cur => interest'[g] = interest[g],
         ready \subseteq ready', ready' \subseteq ready \cup {cur},
         TypeOK',
         \/ lpc' = "dispatch" /\ (Due(c)' => cur \in ready')
            /\ (econn'[c].st = "WRITING" /\ tx'[c] = SndBuf => nospace'[c])
         \/ lpc' = "read" /\ econn'[c].st = "READING"
         \/ lpc' = "write" /\ econn'[c].st = "WRITING",
         CountOf(c)'
  PROVE  Inv'
<1>1. TypeOK /\ LoopInv /\ Registered /\ BatchInv /\ NoLostEdge /\ WaitsForSpace /\ CountInv
  BY DEF Inv
<1>2. /\ cur \in Fds /\ c # None /\ running
      /\ \A e \in batch : e[1] # cur
      /\ \A g \in Fds : g # cur => connections[g] # c
  BY InsideHandler
<1>3. LoopInv'
  BY <1>1, <1>2 DEF LoopInv, InHandler
<1>4. Registered'
  <2>1. \A g \in ready' : connections[g] # None
    BY <1>1, <1>2 DEF Registered
  <2>2. \A g \in Fds : connections[g] = None => interest'[g] = {}
    BY <1>1, <1>2 DEF Registered
  <2>3. ASSUME NEW g \in Fds, connections[g] # None
        PROVE  /\ conn[connections[g]] = "accepted"
               /\ interest'[g] = IF econn'[connections[g]].st = "READING" THEN {"IN"} ELSE {"OUT"}
    <3>1. CASE g = cur
      BY <1>1, <1>2, <3>1 DEF Registered
    <3>2. CASE g # cur
      <4>1. connections[g] \in Clients /\ connections[g] # c
        BY <1>1, <1>2, <2>3, <3>2, EntryType
      <4>2. econn'[connections[g]] = econn[connections[g]] /\ interest'[g] = interest[g]
        BY <3>2, <4>1
      <4> QED
        BY <1>1, <2>3, <4>2 DEF Registered
    <3> QED
      BY <3>1, <3>2
  <2>4. conn[c] = "accepted"
    BY <1>1, <1>2 DEF Registered
  <2>5. \A d \in Clients : conn[d] \in {"new", "pending"} => econn'[d].st = "READING"
    BY <1>1, <2>4 DEF Registered
  <2>6. /\ \A f, g \in Fds : connections[f] = connections[g] /\ connections[f] # None => f = g
        /\ \A d \in Clients : conn[d] = "accepted" => \E g \in Fds : connections[g] = d
    BY <1>1 DEF Registered
  <2> QED
    BY <2>1, <2>2, <2>3, <2>5, <2>6 DEF Registered
<1>5. BatchInv'
  <2>1. \A e \in batch : e[1] # Listener => e[1] \in Fds /\ interest'[e[1]] = interest[e[1]]
    BY <1>1, <1>2, EventType
  <2> QED
    BY <1>1, <2>1 DEF BatchInv, NoStaleEvent
<1>6. NoLostEdge'
  <2> SUFFICES ASSUME NEW g \in Fds, connections[g] # None, Due(connections[g])'
               PROVE  \/ g \in ready' \/ \E e \in batch : e[1] = g
                      \/ cur = g /\ lpc' \in {"read", "write"}
    BY DEF NoLostEdge
  <2>1. CASE g = cur
    BY <2>1
  <2>2. CASE g # cur
    <3>1. connections[g] \in Clients /\ connections[g] # c
      BY <1>1, <1>2, <2>2, EntryType
    <3>2. Due(connections[g])
      BY <3>1 DEF Due
    <3>3. g \in ready \/ \E e \in batch : e[1] = g
      BY <1>1, <2>2, <3>2 DEF NoLostEdge, Defined, InHandler
    <3> QED
      BY <3>3
  <2> QED
    BY <2>1, <2>2
<1>7. WaitsForSpace'
  <2> SUFFICES ASSUME NEW g \in Fds, connections[g] # None,
                      econn'[connections[g]].st = "WRITING", tx'[connections[g]] = SndBuf
               PROVE  nospace'[connections[g]] \/ (cur = g /\ lpc' = "write")
    BY DEF WaitsForSpace
  <2>1. CASE g = cur
    BY <2>1
  <2>2. CASE g # cur
    <3>1. connections[g] \in Clients /\ connections[g] # c
      BY <1>1, <1>2, <2>2, EntryType
    <3> QED
      BY <1>1, <2>2, <3>1 DEF WaitsForSpace
  <2> QED
    BY <2>1, <2>2
<1>8. CountInv'
  <2> SUFFICES ASSUME NEW d \in Clients PROVE CountOf(d)'
    BY DEF CountInv
  <2>1. CASE d # c
    BY <1>1, <2>1 DEF CountInv, CountOf
  <2> QED
    BY <2>1
<1> QED
  BY <1>3, <1>4, <1>5, <1>6, <1>7, <1>8 DEF Inv

\* The ways in which handle_read closes the connection or has read everything.
LEMMA ReadEndsStep ==
  ASSUME Inv, lpc = "read", NEW c \in Clients, c = connections[cur], ReadAgain(c) \/ ReadClosed(c)
  PROVE  Inv'
<1>1. TypeOK /\ LoopInv /\ Registered /\ CountInv
  BY DEF Inv
<1>2. /\ cur \in Fds /\ c # None /\ running /\ econn[c].st = "READING"
      /\ \A e \in batch : e[1] # cur
  BY InsideHandler DEF InHandler
<1>3. CASE ReadAgain(c)
  <2>1. /\ rx[c] = <<>> /\ ~fin[c] /\ ~rst[c] /\ lpc' = "dispatch"
        /\ UNCHANGED <<conn, rx, tx, nospace, fin, rst, interest, ready, connections, econn,
                       running, listening, cur, batch, sent, asked, got, pipelined, astray, resp, out>>
    BY <1>3 DEF ReadAgain, Goto, kernelVars, epollVars, clientVars, histVars
  <2>2. TypeOK'
    BY <1>1, <2>1 DEF TypeOK
  <2>3. ~Due(c)' /\ econn'[c].st # "WRITING" /\ CountOf(c)'
    BY <1>1, <1>2, <2>1 DEF Due, CountInv, CountOf
  <2>4. interest[cur] = IF econn[c].st = "READING" THEN {"IN"} ELSE {"OUT"}
    BY <1>1, <1>2 DEF Registered
  <2> QED
    BY <2>1, <2>2, <2>3, <2>4, HandlerStep DEF InHandler
<1>4. CASE ReadClosed(c)
  <2>1. /\ CloseConnection(cur) /\ lpc' = "dispatch"
        /\ UNCHANGED <<rx, tx, nospace, fin, rst, econn, running, listening, cur, batch, sent, asked, got, pipelined, astray, resp, out>>
    BY <1>4 DEF ReadClosed, Goto, clientVars, histVars
  <2>2. batch' = {e \in batch : e[1] # cur}
    BY <1>2, <2>1
  <2> QED
    BY <1>2, <2>1, <2>2, Closing DEF InHandler
<1> QED
  BY <1>3, <1>4

\* What EpollConnection holds, and that changing its parts keeps it so.
ConnType == [st : {"READING", "WRITING"}, off : 0..RespLen, keep : BOOLEAN, reqs : Nat]

LEMMA ConnUpdate ==
  ASSUME NEW r \in ConnType, NEW n \in 0..RespLen
  PROVE  /\ [r EXCEPT !.off = n] \in ConnType
         /\ [r EXCEPT !.st = "READING", !.off = n] \in ConnType
BY DEF ConnType

\* The response to a request: the connection changes from reading to writing.
LEMMA RespondStep ==
  ASSUME Inv, lpc = "read", NEW c \in Clients, c = connections[cur],
         NEW keep \in BOOLEAN, NEW count \in {0, 1}, keep => count = 1, Respond(c, keep, count),
         rx' \in [Clients -> Seq(Units)], \A d \in Clients : d # c => rx'[d] = rx[d],
         astray' \in [Clients -> BOOLEAN],
         UNCHANGED <<conn, tx, nospace, fin, rst, connections, sent, asked, got, pipelined, out>>
  PROVE  Inv'
<1>1. TypeOK /\ CountInv
  BY DEF Inv
<1>2. cur \in Fds /\ econn[c].st = "READING"
  BY InsideHandler DEF InHandler
<1>3. /\ econn' = [econn EXCEPT ![c] = [st |-> "WRITING", off |-> 0, keep |-> keep,
                                        reqs |-> econn[c].reqs + count]]
      /\ resp' = [resp EXCEPT ![c] = resp[c] + 1]
      /\ interest' = [interest EXCEPT ![cur] = {"OUT"}]
      /\ ready \subseteq ready' /\ ready' \subseteq ready \cup {cur}
      /\ lpc' = "write" /\ UNCHANGED <<running, listening, cur, batch>>
  BY DEF Respond, ModifyEpoll, Goto
<1>4. /\ RespLen \in Nat /\ Limit \in Nat /\ resp[c] \in Nat /\ econn[c].reqs \in Nat
      /\ out[c] \in Nat /\ 0 \in 0..RespLen
  <2>1. RespLen \in Nat /\ Limit \in Nat /\ 0 \in 0..RespLen
    BY EpollAssumption DEF Limit
  <2>2. resp[c] \in Nat /\ out[c] \in Nat /\ econn[c].reqs \in Nat
    BY <1>1 DEF TypeOK
  <2> QED
    BY <2>1, <2>2
<1>5. /\ econn'[c] = [st |-> "WRITING", off |-> 0, keep |-> keep, reqs |-> econn[c].reqs + count]
      /\ resp'[c] = resp[c] + 1
      /\ \A d \in Clients : d # c => econn'[d] = econn[d] /\ resp'[d] = resp[d]
      /\ interest'[cur] = {"OUT"} /\ \A g \in Fds : g # cur => interest'[g] = interest[g]
  BY <1>1, <1>2, <1>3 DEF TypeOK
<1>6. TypeOK'
  <2>1. econn[c].reqs + count \in Nat /\ resp[c] + 1 \in Nat
    <3>1. \A m \in Nat : m + count \in Nat /\ m + 1 \in Nat
      OBVIOUS
    <3> QED
      BY <1>4, <3>1
  <2>2. econn' \in [Clients -> [st : {"READING", "WRITING"}, off : 0..RespLen,
                                keep : BOOLEAN, reqs : Nat]]
    BY <1>1, <1>3, <1>4, <2>1 DEF TypeOK
  <2>3. /\ resp' \in [Clients -> Nat] /\ interest' \in [Fds -> SUBSET {"IN", "OUT"}]
        /\ ready' \subseteq Fds
    BY <1>1, <1>2, <1>3, <2>1 DEF TypeOK
  <2> QED
    BY <1>1, <1>3, <2>2, <2>3 DEF TypeOK
<1>7. CountOf(c)'
  <2>1. out[c] = RespLen * resp[c] /\ resp[c] = econn[c].reqs /\ resp[c] < Limit
    BY <1>1, <1>2 DEF CountInv, CountOf
  <2>2. resp[c] + 1 - 1 = resp[c] /\ RespLen * resp[c] + 0 = RespLen * resp[c]
    BY <1>4
  <2>3. /\ econn'[c].st = "WRITING" /\ econn'[c].off = 0 /\ econn'[c].keep = keep
        /\ econn'[c].reqs = econn[c].reqs + count
    BY <1>5
  <2>4. out'[c] = RespLen * (resp'[c] - 1) + econn'[c].off
    <3>1. out' = out /\ resp'[c] = resp[c] + 1 /\ econn'[c].off = 0
      BY <1>5, <2>3, Zenon
    <3>2. resp'[c] - 1 = resp[c]
      BY <1>4, <3>1
    <3>3. out'[c] = out[c]
      BY <3>1, Zenon
    <3>4. out'[c] = RespLen * resp[c]
      BY <2>1, <3>3, Zenon
    <3>5. RespLen * (resp'[c] - 1) + econn'[c].off = RespLen * resp[c]
      BY <2>2, <3>1, <3>2, Zenon
    <3> QED
      BY <3>4, <3>5, Zenon
  <2>5. resp'[c] <= Limit /\ (keep => resp'[c] = econn'[c].reqs)
    BY <1>4, <1>5, <2>1, <2>3
  <2> QED
    BY <2>3, <2>4, <2>5 DEF CountOf
<1>8. econn'[c].st = "WRITING"
  BY <1>5
<1>9. /\ lpc \in InHandler
      /\ \A d \in Clients : d # c => /\ rx'[d] = rx[d] /\ tx'[d] = tx[d] /\ nospace'[d] = nospace[d]
                                     /\ econn'[d] = econn[d] /\ resp'[d] = resp[d] /\ out'[d] = out[d]
      /\ UNCHANGED <<conn, fin, rst, connections, running, listening, cur, batch>>
  BY <1>3, <1>5 DEF InHandler
<1>10. /\ interest'[cur] = IF econn'[c].st = "READING" THEN {"IN"} ELSE {"OUT"}
       /\ \A g \in Fds : g # cur => interest'[g] = interest[g]
       /\ ready \subseteq ready' /\ ready' \subseteq ready \cup {cur}
  BY <1>3, <1>5, <1>8
<1> QED
  BY <1>3, <1>6, <1>7, <1>8, <1>9, <1>10, HandlerStep

\* An exception of route() ends the loop: what the loop keeps for itself is over,
\* the rest stays as it is.
LEMMA ThrowStep ==
  ASSUME Inv, lpc = "read", NEW c \in Clients, c = connections[cur], RouteThrows,
         rx' \in [Clients -> Seq(Units)], \A d \in Clients : d # c => rx'[d] = rx[d],
         astray' \in [Clients -> BOOLEAN],
         UNCHANGED <<conn, tx, nospace, fin, rst, connections, sent, asked, got, pipelined, out>>
  PROVE  Inv'
<1>1. TypeOK /\ LoopInv /\ Registered /\ BatchInv /\ WaitsForSpace /\ CountInv
  BY DEF Inv
<1>2. /\ lpc' = "threw"
      /\ UNCHANGED <<econn, resp, interest, ready, running, listening, cur, batch>>
  BY DEF RouteThrows, Goto, epollVars
<1>3. running
  BY InsideHandler DEF InHandler
<1>4. TypeOK'
  BY <1>1, <1>2 DEF TypeOK
<1>5. LoopInv'
  BY <1>1, <1>2, <1>3 DEF LoopInv, InHandler
<1>6. Registered'
  BY <1>1, <1>2 DEF Registered
<1>7. BatchInv'
  BY <1>1, <1>2 DEF BatchInv, NoStaleEvent
<1>8. NoLostEdge' /\ WaitsForSpace'
  BY <1>1, <1>2 DEF NoLostEdge, Defined, WaitsForSpace
<1>9. CountInv'
  BY <1>1, <1>2 DEF CountInv, CountOf
<1> QED
  BY <1>4, <1>5, <1>6, <1>7, <1>8, <1>9 DEF Inv

LEMMA ReadDataStep ==
  ASSUME Inv, lpc = "read", NEW c \in Clients, c = connections[cur], NEW k \in Nat, ReadData(c, k)
  PROVE  Inv'
<1>1. TypeOK /\ Registered /\ CountInv
  BY DEF Inv
<1>2. cur \in Fds /\ c # None /\ econn[c].st = "READING"
  BY InsideHandler DEF InHandler
<1>3. /\ k <= Len(rx[c]) /\ rx' = [rx EXCEPT ![c] = SubSeq(rx[c], k + 1, Len(rx[c]))]
      /\ UNCHANGED <<conn, tx, nospace, fin, rst, connections, sent, asked, got, pipelined, out>>
  BY DEF ReadData, clientVars
<1>4. rx' \in [Clients -> Seq(Units)] /\ \A d \in Clients : d # c => rx'[d] = rx[d]
  <2>1. rx[c] \in Seq(Units) /\ Len(rx[c]) \in Nat
    BY <1>1, LenProperties DEF TypeOK
  <2>2. \A i \in (k + 1)..Len(rx[c]) : rx[c][i] \in Units
    BY <2>1, ElementOfSeq
  <2>3. SubSeq(rx[c], k + 1, Len(rx[c])) \in Seq(Units)
    BY <2>1, <2>2, SubSeqProperties
  <2> QED
    BY <1>1, <1>3, <2>3 DEF TypeOK
<1>5. PICK chunk \in Seen(c, SubSeq(rx[c], 1, k)) :
          \/ /\ Ends(chunk) = {}
             /\ UNCHANGED <<econn, astray, resp, epollVars, loopVars>>
          \/ /\ Ends(chunk) # {} /\ chunk[First(chunk)] # "bad"
             /\ \/ Respond(c, KeepAlive /\ ShouldKeepAlive(chunk[First(chunk)]), 1)
                \/ RouteThrows
             /\ astray' = [astray EXCEPT ![c] = astray[c] \/ Severed(chunk)]
          \/ /\ Ends(chunk) # {} /\ chunk[First(chunk)] = "bad"
             /\ Respond(c, FALSE, 0)
             /\ UNCHANGED astray
  BY DEF ReadData
<1>6. astray \in [Clients -> BOOLEAN]
  BY <1>1 DEF TypeOK
<1>7. astray' \in [Clients -> BOOLEAN]
  BY <1>5, <1>6, Zenon
<1>8. CASE UNCHANGED <<econn, resp, epollVars, loopVars>>
  <2>1. UNCHANGED <<econn, resp, interest, ready, running, listening, lpc, cur, batch>>
    BY <1>8 DEF epollVars, loopVars
  <2>2. TypeOK'
    BY <1>1, <1>3, <1>4, <1>7, <2>1 DEF TypeOK
  <2>3. interest[cur] = IF econn[c].st = "READING" THEN {"IN"} ELSE {"OUT"}
    BY <1>1, <1>2 DEF Registered
  <2>4. CountOf(c)'
    BY <1>1, <1>3, <2>1 DEF CountInv, CountOf
  <2> QED
    BY <1>2, <1>3, <1>4, <2>1, <2>2, <2>3, <2>4, HandlerStep DEF InHandler
<1>9. CASE Respond(c, KeepAlive /\ ShouldKeepAlive(chunk[First(chunk)]), 1)
  <2>1. (KeepAlive /\ ShouldKeepAlive(chunk[First(chunk)])) \in BOOLEAN /\ 1 \in {0, 1}
    BY Zenon, EpollAssumption DEF ShouldKeepAlive
  <2> QED
    BY <1>3, <1>4, <1>7, <1>9, <2>1, RespondStep
<1>10. CASE Respond(c, FALSE, 0)
  BY <1>3, <1>4, <1>7, <1>10, RespondStep
<1>11. CASE RouteThrows
  BY <1>3, <1>4, <1>7, <1>11, ThrowStep
<1> QED
  BY <1>5, <1>8, <1>9, <1>10, <1>11

\* send takes some units, or all that is left.
LEMMA WriteDataStep ==
  ASSUME Inv, lpc = "write", NEW c \in Clients, c = connections[cur], NEW k \in Nat, WriteData(c, k)
  PROVE  Inv'
<1>1. TypeOK /\ Registered /\ CountInv
  BY DEF Inv
<1>2. cur \in Fds /\ c # None /\ econn[c].st = "WRITING"
  BY InsideHandler DEF InHandler
<1>3. /\ econn[c].off + k <= RespLen /\ tx[c] + k <= SndBuf
      /\ econn' = [econn EXCEPT ![c].off = econn[c].off + k]
      /\ tx' = [tx EXCEPT ![c] = tx[c] + k] /\ out' = [out EXCEPT ![c] = out[c] + k]
      /\ UNCHANGED <<conn, rx, nospace, fin, rst, interest, ready, connections, running, listening,
                     lpc, cur, batch, sent, asked, got, pipelined, astray, resp>>
  BY DEF WriteData, epollVars, loopVars, clientVars
<1>4. /\ RespLen \in Nat /\ SndBuf \in Nat /\ tx[c] \in Nat /\ econn[c].off \in Nat /\ out[c] \in Nat
      /\ resp[c] \in Nat
  BY <1>1, EpollAssumption DEF TypeOK
<1>5. /\ econn[c].off + k \in 0..RespLen /\ tx[c] + k \in 0..SndBuf /\ out[c] + k \in Nat
  BY <1>3, <1>4
<1>6. /\ econn'[c] = [econn[c] EXCEPT !.off = econn[c].off + k] /\ out'[c] = out[c] + k
      /\ \A d \in Clients : d # c => econn'[d] = econn[d] /\ tx'[d] = tx[d] /\ out'[d] = out[d]
  BY <1>1, <1>3 DEF TypeOK
<1>7. /\ econn'[c].st = "WRITING" /\ econn'[c].off = econn[c].off + k
      /\ econn'[c].keep = econn[c].keep /\ econn'[c].reqs = econn[c].reqs
  BY <1>1, <1>2, <1>6 DEF TypeOK
<1>8. TypeOK'
  <2>0. econn \in [Clients -> ConnType]
    BY <1>1 DEF TypeOK, ConnType
  <2>1. econn' \in [Clients -> ConnType]
    <3>1. [econn[c] EXCEPT !.off = econn[c].off + k] \in ConnType
      BY <1>5, <2>0, ConnUpdate
    <3> QED
      BY <1>3, <2>0, <3>1
  <2>2. tx' \in [Clients -> 0..SndBuf] /\ out' \in [Clients -> Nat]
    BY <1>1, <1>3, <1>5 DEF TypeOK
  <2> QED
    BY <1>1, <1>3, <2>1, <2>2 DEF TypeOK, ConnType
<1>9. CountOf(c)'
  <2>1. out[c] = RespLen * (resp[c] - 1) + econn[c].off
    BY <1>1, <1>2 DEF CountInv, CountOf
  <2>2. out'[c] = RespLen * (resp[c] - 1) + econn'[c].off
    <3>1. RespLen * (resp[c] - 1) \in Int
      BY <1>4
    <3> QED
      BY <1>4, <1>6, <1>7, <2>1, <3>1
  <2> QED
    BY <1>1, <1>2, <1>3, <1>7, <2>2 DEF CountInv, CountOf
<1>10. interest[cur] = {"OUT"}
  BY <1>1, <1>2 DEF Registered
<1> QED
  BY <1>3, <1>6, <1>7, <1>8, <1>9, <1>10, HandlerStep DEF InHandler

\* send would block: the kernel will tell, as the buffer is full.
LEMMA WriteAgainStep ==
  ASSUME Inv, lpc = "write", NEW c \in Clients, c = connections[cur], WriteAgain(c)
  PROVE  Inv'
<1>1. TypeOK /\ Registered /\ CountInv
  BY DEF Inv
<1>2. cur \in Fds /\ c # None /\ econn[c].st = "WRITING"
  BY InsideHandler DEF InHandler
<1>3. /\ tx[c] = SndBuf /\ ~rst[c] /\ nospace' = [nospace EXCEPT ![c] = TRUE] /\ lpc' = "dispatch"
      /\ UNCHANGED <<conn, rx, tx, fin, rst, interest, ready, connections, econn, running, listening,
                     cur, batch, sent, asked, got, pipelined, astray, resp, out>>
  BY DEF WriteAgain, Goto, epollVars, clientVars, histVars
<1>4. /\ nospace' \in [Clients -> BOOLEAN] /\ nospace'[c]
      /\ \A d \in Clients : d # c => nospace'[d] = nospace[d]
  BY <1>1, <1>3 DEF TypeOK
<1>5. TypeOK'
  BY <1>1, <1>3, <1>4 DEF TypeOK
<1>6. SndBuf \in Nat
  BY EpollAssumption
<1>7. ~Due(c)' /\ CountOf(c)'
  BY <1>1, <1>2, <1>3, <1>6 DEF Due, CountInv, CountOf
<1>8. interest[cur] = IF econn[c].st = "READING" THEN {"IN"} ELSE {"OUT"}
  BY <1>1, <1>2 DEF Registered
<1> QED
  BY <1>3, <1>4, <1>5, <1>7, <1>8, HandlerStep DEF InHandler

\* The response is written, or cannot be: the connection is closed, or goes back
\* to reading and is registered for what may have come in the meantime.
LEMMA WriteEndsStep ==
  ASSUME Inv, lpc = "write", NEW c \in Clients, c = connections[cur], WriteError(c) \/ WriteDone(c)
  PROVE  Inv'
<1>1. TypeOK /\ Registered /\ CountInv
  BY DEF Inv
<1>2. cur \in Fds /\ c # None /\ econn[c].st = "WRITING" /\ \A e \in batch : e[1] # cur
  BY InsideHandler DEF InHandler
<1>3. \/ /\ CloseConnection(cur) /\ econn' = econn
      \/ /\ econn[c].off = RespLen /\ econn[c].keep /\ econn[c].reqs < MaxRequests
         /\ econn' = [econn EXCEPT ![c].st = "READING", ![c].off = 0]
         /\ ModifyEpoll(cur, c, {"IN"}) /\ UNCHANGED <<conn, connections>>
  <2>1. econn[c].reqs \in Nat /\ MaxRequests \in Int
    BY <1>1, EpollAssumption DEF TypeOK
  <2> QED
    BY <2>1 DEF WriteError, WriteDone
<1>4. /\ lpc' = "dispatch"
      /\ UNCHANGED <<rx, tx, nospace, fin, rst, running, listening, cur, batch, sent, asked, got, pipelined, astray, resp, out>>
  BY DEF WriteError, WriteDone, Goto, clientVars, histVars
<1>5. CASE CloseConnection(cur) /\ econn' = econn
  <2>1. batch' = {e \in batch : e[1] # cur}
    BY <1>2, <1>4
  <2> QED
    BY <1>2, <1>4, <1>5, <2>1, Closing DEF InHandler
<1>6. CASE /\ econn[c].off = RespLen /\ econn[c].keep /\ econn[c].reqs < MaxRequests
           /\ econn' = [econn EXCEPT ![c].st = "READING", ![c].off = 0]
           /\ ModifyEpoll(cur, c, {"IN"}) /\ UNCHANGED <<conn, connections>>
  <2>1. /\ interest' = [interest EXCEPT ![cur] = {"IN"}]
        /\ ready \subseteq ready' /\ ready' \subseteq ready \cup {cur}
        /\ "IN" \in Poll(c) => cur \in ready'
    BY <1>6 DEF ModifyEpoll
  <2>2. interest'[cur] = {"IN"} /\ \A g \in Fds : g # cur => interest'[g] = interest[g]
    BY <1>1, <1>2, <2>1 DEF TypeOK
  <2>3. /\ econn'[c].st = "READING" /\ econn'[c].reqs = econn[c].reqs
        /\ \A d \in Clients : d # c => econn'[d] = econn[d]
    BY <1>1, <1>6 DEF TypeOK
  <2>4. TypeOK'
    <3>1. 0 \in 0..RespLen
      BY EpollAssumption
    <3>2. econn' \in [Clients -> ConnType]
      <4>1. econn \in [Clients -> ConnType]
        BY <1>1 DEF TypeOK, ConnType
      <4>2. [econn[c] EXCEPT !.st = "READING", !.off = 0] \in ConnType
        BY <3>1, <4>1, ConnUpdate
      <4> QED
        BY <1>6, <4>1, <4>2
    <3>3. interest' \in [Fds -> SUBSET {"IN", "OUT"}] /\ ready' \subseteq Fds
      BY <1>1, <1>2, <2>1 DEF TypeOK
    <3> QED
      BY <1>1, <1>4, <1>6, <3>2, <3>3 DEF TypeOK, ConnType
  <2>5. CountOf(c)'
    <3>1. /\ out[c] = RespLen * (resp[c] - 1) + RespLen /\ resp[c] = econn[c].reqs
          /\ resp[c] <= Limit
      BY <1>1, <1>2, <1>6 DEF CountInv, CountOf
    <3>2. resp[c] \in Nat /\ RespLen \in Nat /\ MaxRequests \in Int
      BY <1>1, EpollAssumption DEF TypeOK
    <3>3. RespLen * (resp[c] - 1) + RespLen = RespLen * resp[c]
      BY <3>2
    <3> QED
      BY <1>4, <1>6, <2>3, <3>1, <3>2, <3>3 DEF CountOf, Limit
  <2>6. Due(c)' => cur \in ready'
    BY <1>4, <2>1, <2>3 DEF Due, Poll
  <2> QED
    BY <1>4, <1>6, <2>1, <2>2, <2>3, <2>4, <2>5, <2>6, HandlerStep DEF InHandler
<1> QED
  BY <1>3, <1>5, <1>6

-----------------------------------------------------------------------------
(* stop()                                                                  *)

LEMMA StopStep ==
  ASSUME Inv, Stop
  PROVE  Inv'
<1>1. TypeOK /\ LoopInv /\ Registered /\ BatchInv /\ NoLostEdge /\ WaitsForSpace /\ CountInv
  BY DEF Inv
<1>2. /\ ~running' /\ running' \in BOOLEAN /\ ~listening' /\ listening' \in BOOLEAN
      /\ conn' = [c \in Clients |-> IF conn[c] \in {"pending", "accepted"} THEN "closed" ELSE conn[c]]
      /\ connections' = [fd \in Fds |-> None]
      /\ interest' = [fd \in Fds |-> {}]
      /\ ready' = {}
      /\ lpc' = IF lpc \in {"accept", "read", "write"} THEN "undefined" ELSE lpc
      /\ UNCHANGED <<rx, tx, nospace, fin, rst, econn, cur, batch, sent, asked, got, pipelined, astray, resp, out>>
  BY DEF Stop, clientVars, histVars
<1>3. \A c \in Clients : conn'[c] # "accepted" /\ (conn'[c] \in {"new", "pending"} => conn'[c] = conn[c])
  BY <1>1, <1>2 DEF TypeOK
<1>4. TypeOK'
  <2>1. /\ conn' \in [Clients -> {"new", "pending", "accepted", "closed"}]
        /\ connections' \in [Fds -> Clients \cup {None}]
        /\ interest' \in [Fds -> SUBSET {"IN", "OUT"}] /\ ready' \subseteq Fds
    BY <1>1, <1>2 DEF TypeOK
  <2>2. lpc' \in {"init", "listen", "wait", "dispatch", "accept", "read", "write",
                  "exited", "threw", "undefined"}
    BY <1>1, <1>2 DEF TypeOK
  <2> QED
    BY <1>1, <1>2, <2>1, <2>2 DEF TypeOK
<1>5. LoopInv'
  BY <1>1, <1>2 DEF LoopInv, InHandler
<1>6. Registered'
  BY <1>1, <1>2, <1>3 DEF Registered
<1>7. BatchInv'
  BY <1>1, <1>2 DEF BatchInv, NoStaleEvent
<1>8. NoLostEdge' /\ WaitsForSpace'
  BY <1>2 DEF NoLostEdge, WaitsForSpace
<1>9. CountInv'
  BY <1>1, <1>2 DEF CountInv, CountOf
<1> QED
  BY <1>4, <1>5, <1>6, <1>7, <1>8, <1>9 DEF Inv

-----------------------------------------------------------------------------
(* The theorems                                                            *)

LEMMA InitInv == Init => Inv
<1> SUFFICES ASSUME Init PROVE Inv
  OBVIOUS
<1>1. RespLen \in Nat /\ Limit \in Nat \ {0} /\ SndBuf \in Nat /\ RespLen * 0 = 0
  BY EpollAssumption DEF Limit
<1>2. TypeOK
  <2>1. <<>> \in Seq(Units) /\ NewConn \in [st : {"READING", "WRITING"}, off : 0..RespLen,
                                            keep : BOOLEAN, reqs : Nat]
    BY <1>1, EmptySeq DEF NewConn
  <2>2. running \in BOOLEAN /\ listening \in BOOLEAN
    BY Zenon DEF Init
  <2> QED
    BY <1>1, <2>1, <2>2 DEF Init, TypeOK
<1>3. LoopInv
  BY Zenon DEF Init, LoopInv, InHandler
<1>4. Registered
  BY DEF Init, Registered, NewConn
<1>5. BatchInv
  BY DEF Init, BatchInv, NoStaleEvent
<1>6. NoLostEdge /\ WaitsForSpace
  BY DEF Init, NoLostEdge, WaitsForSpace
<1>7. CountInv
  <2> SUFFICES ASSUME NEW c \in Clients PROVE CountOf(c)
    BY DEF CountInv
  <2>1. econn[c].st = "READING" /\ econn[c].reqs = 0 /\ out[c] = 0 /\ resp[c] = 0
    BY DEF Init, NewConn
  <2> QED
    BY <1>1, <2>1 DEF CountOf
<1> QED
  BY <1>2, <1>3, <1>4, <1>5, <1>6, <1>7 DEF Inv

LEMMA InvStep == Inv /\ [Next]_vars => Inv'
<1> SUFFICES ASSUME Inv, [Next]_vars PROVE Inv'
  OBVIOUS
<1>1. CASE Stop
  BY <1>1, StopStep
<1>2. CASE Loop
  <2>1. ASSUME HandleRead PROVE Inv'
    <3>1. PICK c \in Clients :
            /\ lpc = "read" /\ c = connections[cur]
            /\ \/ ReadAgain(c) \/ ReadClosed(c)
               \/ \E k \in 1..MaxUnits : ReadData(c, k)
      BY <2>1 DEF HandleRead
    <3>2. \A k \in 1..MaxUnits : k \in Nat
      BY EpollAssumption
    <3> QED
      BY <3>1, <3>2, ReadEndsStep, ReadDataStep
  <2>2. ASSUME HandleWrite PROVE Inv'
    <3>1. PICK c \in Clients :
            /\ lpc = "write" /\ c = connections[cur]
            /\ \/ WriteAgain(c) \/ WriteError(c) \/ WriteDone(c)
               \/ \E k \in 1..RespLen : WriteData(c, k)
      BY <2>2 DEF HandleWrite
    <3>2. \A k \in 1..RespLen : k \in Nat
      BY EpollAssumption
    <3> QED
      BY <3>1, <3>2, WriteAgainStep, WriteEndsStep, WriteDataStep
  <2> QED
    BY <1>2, <2>1, <2>2, StartStep, EpollWaitStep, DispatchStep, AcceptStep DEF Loop
<1>3. ASSUME NEW c \in Clients, Client(c) PROVE Inv'
  BY <1>3, ConnectStep, ClientCloseStep, ClientResetStep, ClientDrainStep, ClientSendStep DEF Client
<1>4. CASE UNCHANGED vars
  <2>1. UNCHANGED <<conn, rx, tx, nospace, fin, rst, interest, ready, connections, econn, running,
                    listening, lpc, cur, batch, sent, asked, got, pipelined, astray, resp, out>>
    BY <1>4 DEF vars, kernelVars, epollVars, loopVars, clientVars, histVars
  <2>2. TypeOK /\ LoopInv /\ Registered /\ BatchInv /\ NoLostEdge /\ WaitsForSpace /\ CountInv
    BY DEF Inv
  <2>3. TypeOK' /\ LoopInv'
    BY <2>1, <2>2 DEF TypeOK, LoopInv
  <2>4. Registered' /\ BatchInv'
    BY <2>1, <2>2 DEF Registered, BatchInv, NoStaleEvent
  <2>5. NoLostEdge' /\ WaitsForSpace'
    BY <2>1, <2>2 DEF NoLostEdge, Due, Defined, WaitsForSpace
  <2>6. CountInv'
    BY <2>1, <2>2 DEF CountInv, CountOf
  <2> QED
    BY <2>3, <2>4, <2>5, <2>6 DEF Inv
<1> QED
  BY <1>1, <1>2, <1>3, <1>4 DEF Next

\* Inv is an inductive invariant of the epoll server and its clients.
THEOREM Inductive == Spec => []Inv
BY InitInv, InvStep, PTL DEF Spec

\* Every variable of the epoll server keeps its type.
THEOREM TypeCorrect == Spec => []TypeOK
<1>1. Inv => TypeOK
  BY DEF Inv
<1> QED
  BY <1>1, Inductive, PTL

\* connections_, the epoll registrations and the open sockets agree.
THEOREM RegistrationsAgree == Spec => []ConnectionsRegistered
<1>1. Inv => ConnectionsRegistered
  <2> SUFFICES ASSUME TypeOK, Registered PROVE ConnectionsRegistered
    BY DEF Inv
  <2>1. ASSUME NEW c \in Clients, conn[c] = "accepted"
        PROVE  Cardinality({fd \in Fds : connections[fd] = c}) = 1
    <3>1. PICK fd \in Fds : connections[fd] = c
      BY <2>1 DEF Registered
    <3>2. {g \in Fds : connections[g] = c} = {fd}
      BY <3>1, EntryType DEF Registered
    <3> QED
      BY <3>2, FS_Singleton
  <2> QED
    BY <2>1 DEF Registered, ConnectionsRegistered
<1> QED
  BY <1>1, Inductive, PTL

\* An event that the loop dispatches belongs to the connection it was reported
\* for: no descriptor is reused while an event of it is in the batch.
THEOREM EventsAreFresh == Spec => []NoStaleEvent
<1>1. Inv => NoStaleEvent
  BY DEF Inv, BatchInv
<1> QED
  BY <1>1, Inductive, PTL

\* No edge is lost: a connection with something to do is on the ready list, in
\* the batch or in a handler.
THEOREM EdgesAreKept == Spec => []NoLostEdge
<1>1. Inv => NoLostEdge
  BY DEF Inv
<1> QED
  BY <1>1, Inductive, PTL

\* Responses go out whole and one after the other.
THEOREM WholeResponses == Spec => []ResponsesWhole
<1>1. Inv => ResponsesWhole
  BY DEF Inv, CountInv, CountOf, ResponsesWhole
<1> QED
  BY <1>1, Inductive, PTL

\* No connection gets more than max_requests_per_conn_ responses, or more than
\* one where set_keepalive was given zero or a negative number.
THEOREM LimitedRequests == Spec => []RequestLimit
<1>1. Inv => RequestLimit
  BY DEF Inv, CountInv, CountOf, RequestLimit, Limit
<1> QED
  BY <1>1, Inductive, PTL
=============================================================================
