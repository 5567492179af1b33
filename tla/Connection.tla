----------------------------- MODULE Connection -----------------------------
(***************************************************************************)
(* The reading side of net::Connection (src/net/connection.cpp) on a       *)
(* blocking socket: read_some and read_all, which recv() into the caller's *)
(* buffer, and read_until, which collects a line in read_buffer_ and keeps *)
(* what follows the delimiter for its next call.  (The writing side is in  *)
(* ConnectionHandler.)                                                     *)
(*                                                                         *)
(* One thread owns a Connection and makes one call at a time; the peer     *)
(* sends, closes and resets at any moment, and recv() cuts its stream      *)
(* anywhere.  EINTR only repeats the recv() and is a stuttering step.      *)
(***************************************************************************)
EXTENDS Integers, Sequences

CONSTANTS Bytes,        \* what a stream is made of
          Delims,       \* the delimiters callers use
          Limits,       \* the max_size arguments callers use
          ChunkSize,    \* CHUNK_SIZE of read_until
          ReadTimeout,  \* SO_RCVTIMEO in seconds, 0 for none
          MaxStream     \* bound: bytes the peer sends

ASSUME ConnectionAssumption ==
    /\ Delims \subseteq Seq(Bytes) \ {<<>>}
    /\ Limits \subseteq Nat /\ ChunkSize \in Nat \ {0}
    /\ ReadTimeout \in Nat /\ MaxStream \in Nat

VARIABLES
    rx,             \* bytes received by the kernel and not by recv()
    fin, rst,       \* the peer has closed, has reset
    open,           \* is_open()
    read_buffer_,
    pc,             \* "idle", or the call in progress: "until", "all"
    delimiter, max_size,    \* arguments of the last call
    got,            \* read_all: the bytes in the caller's buffer so far
    line, found,    \* the last read_until: its buffer argument, its result
    sent,           \* history: all the peer has sent
    taken,          \* history: all that calls have returned, in order
    disorder,       \* history: a direct read overtook or lost bytes
    widest          \* history: the largest max_size given to read_until

peerVars == <<fin, rst, sent>>
callVars == <<delimiter, max_size>>
untilVars == <<line, found, widest>>
vars == <<rx, peerVars, open, read_buffer_, pc, callVars, got, untilVars,
          taken, disorder>>

First(s, n) == SubSeq(s, 1, n)
Rest(s, n)  == SubSeq(s, n + 1, Len(s))

\* Positions at or after from where d occurs in s.
Occurrences(s, d, from) ==
    {i \in from..(Len(s) - Len(d) + 1) : SubSeq(s, i, i + Len(d) - 1) = d}

\* std::string::find; 0 for npos (positions start at 1).
Find(s, d, from) ==
    LET at == Occurrences(s, d, from)
    IN  IF at = {} THEN 0 ELSE CHOOSE i \in at : \A j \in at : i <= j

Init ==
    /\ rx = <<>> /\ fin = FALSE /\ rst = FALSE /\ sent = <<>>
    /\ open = TRUE /\ read_buffer_ = <<>> /\ pc = "idle"
    /\ delimiter \in Delims /\ max_size = 0 /\ got = <<>>
    /\ line = <<>> /\ found = FALSE /\ widest = 0
    /\ taken = <<>> /\ disorder = FALSE

-----------------------------------------------------------------------------
(* The peer                                                                *)

PeerSend(b) ==
    /\ ~fin /\ ~rst /\ Len(sent) < MaxStream
    /\ rx' = Append(rx, b) /\ sent' = Append(sent, b)
    /\ UNCHANGED <<fin, rst, open, read_buffer_, pc, callVars, got, untilVars,
                   taken, disorder>>

PeerClose ==
    /\ ~fin /\ ~rst
    /\ fin' = TRUE
    /\ UNCHANGED <<rx, rst, sent, open, read_buffer_, pc, callVars, got,
                   untilVars, taken, disorder>>

PeerReset ==
    /\ ~rst
    /\ rst' = TRUE
    /\ UNCHANGED <<rx, fin, sent, open, read_buffer_, pc, callVars, got,
                   untilVars, taken, disorder>>

\* How a recv() that finds nothing can return: 0 after the peer's close, EAGAIN
\* when SO_RCVTIMEO expires, another error after a reset (which may also come
\* before the data that is still queued).
EndOfStream == rx = <<>> /\ fin
TimedOut    == rx = <<>> /\ ReadTimeout > 0
ResetByPeer == rst

-----------------------------------------------------------------------------
(* read_until                                                              *)

\* Mutant: the buffer is cleared with the line.
KeptMutant(buf, n) == <<>>

\* read_buffer_.erase(0, n)
Kept(buf, n) == Rest(buf, n)

\* buffer = read_buffer_.substr(0, pos + n); read_buffer_.erase(0, pos + n);
\* the line ends where the delimiter at position pos of buf does.
ReturnLine(buf, pos, d) ==
    LET n == pos + Len(d) - 1
    IN  /\ line' = First(buf, n)
        /\ read_buffer_' = Kept(buf, n)
        /\ taken' = taken \o First(buf, n)
        /\ found' = TRUE
        /\ pc' = "idle"

ReturnFalse ==
    /\ found' = FALSE /\ pc' = "idle"
    /\ UNCHANGED <<read_buffer_, line, taken>>

\* The delimiter is already in read_buffer_.
InBuffer(d) == Find(read_buffer_, d, 1)

\* The call: a closed connection, a line left over, or the loop.
ReadUntil(d, m) ==
    /\ pc = "idle"
    /\ delimiter' = d /\ max_size' = m
    /\ widest' = IF m > widest THEN m ELSE widest
    /\ \/ ~open /\ ReturnFalse
       \/ open /\ InBuffer(d) # 0 /\ ReturnLine(read_buffer_, InBuffer(d), d)
       \/ /\ open /\ InBuffer(d) = 0
          /\ pc' = "until" /\ found' = FALSE
          /\ UNCHANGED <<read_buffer_, line, taken>>
    /\ UNCHANGED <<rx, peerVars, open, got, disorder>>

\* Mutant: only the new bytes are searched.
StartPosMutant(old_size) == old_size + 1

\* size_t start_pos = old_size >= length ? old_size - length + 1 : 0
StartPos(old_size) ==
    IF old_size >= Len(delimiter) THEN old_size - Len(delimiter) + 2 ELSE 1

\* Mutant: max_size is only tested, not subtracted from what recv() may take.
ToReadMutant == ChunkSize

\* size_t to_read = std::min(CHUNK_SIZE, max_size - read_buffer_.size())
ToRead ==
    LET left == max_size - Len(read_buffer_)
    IN  IF left < ChunkSize THEN left ELSE ChunkSize

\* One turn of the loop in which recv() returns k bytes.
RecvUntil(k) ==
    /\ pc = "until"
    /\ Len(read_buffer_) < max_size
    /\ k <= ToRead /\ k <= Len(rx)
    /\ rx' = Rest(rx, k)
    /\ LET buf == read_buffer_ \o First(rx, k)
           pos == Find(buf, delimiter, StartPos(Len(read_buffer_)))
       IN  \/ pos # 0 /\ ReturnLine(buf, pos, delimiter)
           \/ /\ pos = 0
              /\ read_buffer_' = buf
              /\ UNCHANGED <<pc, line, found, taken>>
    /\ UNCHANGED <<peerVars, open, callVars, got, widest, disorder>>

\* Mutant: EAGAIN is retried like EINTR.
UntilGivesUpMutant == EndOfStream \/ ResetByPeer

\* recv() returned 0 or -1.
UntilGivesUp == EndOfStream \/ TimedOut \/ ResetByPeer

\* The loop ends without the delimiter: max_size, or recv() gave up.
UntilFails ==
    /\ pc = "until"
    /\ Len(read_buffer_) >= max_size \/ UntilGivesUp
    /\ ReturnFalse
    /\ UNCHANGED <<rx, peerVars, open, callVars, got, widest, disorder>>

-----------------------------------------------------------------------------
(* read_some, read_all, close                                              *)

\* read_some: one recv(), of k bytes or without data; read_buffer_ is not used.
ReadSome(m) ==
    /\ pc = "idle" /\ open /\ m > 0
    /\ \/ \E k \in 1..m :
             /\ k <= Len(rx)
             /\ rx' = Rest(rx, k) /\ taken' = taken \o First(rx, k)
             /\ disorder' = (disorder \/ read_buffer_ # <<>>)
       \/ /\ EndOfStream \/ TimedOut \/ ResetByPeer
          /\ UNCHANGED <<rx, taken, disorder>>
    /\ UNCHANGED <<peerVars, open, read_buffer_, pc, callVars, got, untilVars>>

ReadAll(m) ==
    /\ pc = "idle" /\ open /\ m > 0
    /\ pc' = "all" /\ max_size' = m
    /\ UNCHANGED <<rx, peerVars, open, read_buffer_, delimiter, got, untilVars,
                   taken, disorder>>

Remaining == max_size - Len(got)

\* One turn of the loop in which recv() returns k bytes.
RecvAll(k) ==
    /\ pc = "all"
    /\ k <= Remaining /\ k <= Len(rx)
    /\ rx' = Rest(rx, k) /\ got' = got \o First(rx, k)
    /\ disorder' = (disorder \/ read_buffer_ # <<>>)
    /\ UNCHANGED <<peerVars, open, read_buffer_, pc, callVars, untilVars, taken>>

\* read_all returns what it has when its buffer is full, the peer has closed or
\* the timeout expires; on an error it returns -1 and the bytes are forgotten.
AllReturns ==
    /\ pc = "all"
    /\ \/ /\ Len(got) >= max_size \/ EndOfStream \/ TimedOut
          /\ taken' = taken \o got
          /\ UNCHANGED disorder
       \/ /\ Len(got) < max_size /\ ResetByPeer
          /\ disorder' = (disorder \/ got # <<>>)
          /\ UNCHANGED taken
    /\ pc' = "idle" /\ got' = <<>>
    /\ UNCHANGED <<rx, peerVars, open, read_buffer_, callVars, untilVars>>

Close ==
    /\ pc = "idle" /\ open
    /\ open' = FALSE
    /\ UNCHANGED <<rx, peerVars, read_buffer_, pc, callVars, got, untilVars,
                   taken, disorder>>

-----------------------------------------------------------------------------
Call ==
    \/ \E d \in Delims, m \in Limits : ReadUntil(d, m)
    \/ \E m \in Limits : ReadSome(m) \/ ReadAll(m)
    \/ Close

\* Turns of the loops of the call in progress.
Turn ==
    \/ \E k \in 1..MaxStream : RecvUntil(k) \/ RecvAll(k)
    \/ UntilFails \/ AllReturns

Peer == PeerClose \/ PeerReset \/ \E b \in Bytes : PeerSend(b)

Next == Call \/ Turn \/ Peer

Spec == Init /\ [][Next]_vars

\* A call goes on once made; a timeout that is set expires.
FairSpec == Spec /\ WF_vars(Turn)
-----------------------------------------------------------------------------
(* Properties                                                              *)

\* Every variable keeps its type.  read_all stays inside the caller's buffer, and
\* read_buffer_ never outgrows the largest max_size that read_until was given.
TypeOK ==
    /\ {rx, read_buffer_, got, line, sent, taken} \subseteq Seq(Bytes)
    /\ {fin, rst, open, found, disorder} \subseteq BOOLEAN
    /\ pc \in {"idle", "until", "all"}
    /\ delimiter \in Delims /\ {max_size, widest} \subseteq Limits \cup {0}
    /\ pc = "all" => Len(got) <= max_size
    /\ Len(read_buffer_) <= widest

\* A line that read_until returns ends with its delimiter and holds no earlier
\* one, wherever recv() cut the stream and whatever the buffer held before.
\* While it waits the delimiter is not in read_buffer_: searching only near the
\* new data overlooks nothing, and when a failed recv or max_size ends the call
\* with false, no complete line was there.  (On a closed connection false says
\* nothing: it is returned before read_buffer_ is searched.)
LineIsExact ==
    /\ found => Find(line, delimiter, 1) = Len(line) - Len(delimiter) + 1
    /\ pc = "until" => Occurrences(read_buffer_, delimiter, 1) = {}

\* What the calls returned, what they hold and what they have not read is what
\* the peer sent, in order and without loss or duplicates, also when read_until
\* failed and is called again; unless read_some or read_all was used while
\* read_until held bytes, or read_all failed half way.
InOrder == ~disorder => taken \o got \o read_buffer_ \o rx = sent

\* Every call returns, whether the peer is silent, trickles, closes or resets.
CallReturns == pc # "idle" ~> pc = "idle"
=============================================================================
