-------------------------- MODULE ConnectionProofs --------------------------
(***************************************************************************)
(* Proofs, for any delimiters, limits, chunk size and stream, of the safety *)
(* properties of Connection: what the calls return is what the peer sent,  *)
(* and read_until cuts it at the delimiters and nowhere else.              *)
(***************************************************************************)
EXTENDS Connection, SequenceTheorems, WellFoundedInduction, TLAPS

-----------------------------------------------------------------------------
(* Sequences                                                               *)

\* Cutting a buffer in two loses nothing.
LEMMA Cut ==
  ASSUME NEW s \in Seq(Bytes), NEW n \in 0..Len(s)
  PROVE  /\ First(s, n) \in Seq(Bytes) /\ Len(First(s, n)) = n
         /\ Rest(s, n) \in Seq(Bytes) /\ Len(Rest(s, n)) = Len(s) - n
         /\ \A i \in 1..n : First(s, n)[i] = s[i]
         /\ First(s, n) \o Rest(s, n) = s
<1>1. Len(s) \in Nat /\ \A i \in 1..Len(s) : s[i] \in Bytes
  BY LenProperties, ElementOfSeq
<1>2. /\ First(s, n) \in Seq(Bytes) /\ Len(First(s, n)) = n
      /\ \A i \in 1..n : First(s, n)[i] = s[i]
  BY <1>1, SubSeqProperties DEF First
<1>3. Rest(s, n) \in Seq(Bytes) /\ Len(Rest(s, n)) = Len(s) - n
  BY <1>1, SubSeqProperties DEF Rest
<1>4. First(s, n) \o Rest(s, n) = s
  <2>1. 1 \in 1..(Len(s) + 1) /\ n \in (1 - 1)..Len(s) /\ Len(s) \in n..Len(s)
    BY <1>1
  <2>2. SubSeq(s, 1, n) \o SubSeq(s, n + 1, Len(s)) = SubSeq(s, 1, Len(s))
    BY <2>1, ConcatAdjacentSubSeq
  <2> QED
    BY <2>2, SubSeqFull DEF First, Rest
<1> QED
  BY <1>2, <1>3, <1>4

\* A delimiter occurs at a position if its bytes are there, one by one.
LEMMA Match ==
  ASSUME NEW s \in Seq(Bytes), NEW d \in Seq(Bytes), NEW i \in Nat \ {0}, i <= Len(s) - Len(d) + 1
  PROVE  SubSeq(s, i, i + Len(d) - 1) = d <=> \A k \in 1..Len(d) : s[i + k - 1] = d[k]
<1>1. Len(s) \in Nat /\ Len(d) \in Nat /\ \A j \in 1..Len(s) : s[j] \in Bytes
  BY LenProperties, ElementOfSeq
<1> DEFINE t == SubSeq(s, i, i + Len(d) - 1)
<1>2. t \in Seq(Bytes) /\ Len(t) = Len(d) /\ \A k \in 1..Len(d) : t[k] = s[i + k - 1]
  <2>1. i \in Int /\ i + Len(d) - 1 \in Int /\ \A j \in i..(i + Len(d) - 1) : s[j] \in Bytes
    BY <1>1
  <2>2. /\ t \in Seq(Bytes)
        /\ Len(t) = IF i <= i + Len(d) - 1 THEN i + Len(d) - 1 - i + 1 ELSE 0
        /\ \A k \in 1..(i + Len(d) - 1 - i + 1) : t[k] = s[i + k - 1]
    BY <2>1, SubSeqProperties
  <2> QED
    BY <1>1, <2>2
<1> HIDE DEF t
<1>3. t = d <=> \A k \in 1..Len(d) : t[k] = d[k]
  BY <1>1, <1>2, SeqEqual
<1> QED
  BY <1>2, <1>3 DEF t

\* A set of positions has a first one.
LEMMA Least ==
  ASSUME NEW T \in SUBSET Nat, T # {}
  PROVE  \E i \in T : \A j \in T : i <= j
<1>1. PICK i \in T : \A j \in T : ~(<<j, i>> \in OpToRel(<, Nat))
  BY NatLessThanWellFounded, WFMin
<1>2. \A j \in T : ~(j < i)
  BY <1>1 DEF OpToRel
<1> QED
  BY <1>2

\* std::string::find returns the first occurrence, and npos if there is none.
LEMMA FindFirst ==
  ASSUME NEW s \in Seq(Bytes), NEW d \in Seq(Bytes), NEW from \in Nat \ {0}
  PROVE  LET p == Find(s, d, from)
         IN  \/ p = 0 /\ Occurrences(s, d, from) = {}
             \/ /\ p \in Occurrences(s, d, from) /\ p \in Nat \ {0}
                /\ \A j \in Occurrences(s, d, from) : p <= j
<1> DEFINE at == Occurrences(s, d, from)
<1>1. at \subseteq Nat \ {0}
  <2>1. Len(s) \in Nat /\ Len(d) \in Nat
    BY LenProperties
  <2> QED
    BY <2>1 DEF Occurrences
<1>2. CASE at = {}
  BY <1>2 DEF Find
<1>3. CASE at # {}
  <2>1. \E i \in at : \A j \in at : i <= j
    BY <1>1, <1>3, Least
  <2>2. Find(s, d, from) = CHOOSE i \in at : \A j \in at : i <= j
    BY <1>3 DEF Find
  <2> HIDE DEF at
  <2>3. Find(s, d, from) \in at /\ \A j \in at : Find(s, d, from) <= j
    BY <2>1, <2>2
  <2> QED
    BY <1>1, <2>3 DEF at
<1> QED
  BY <1>2, <1>3

\* A line that ends with the first delimiter of the buffer holds no other.
LEMMA LineEnds ==
  ASSUME NEW s \in Seq(Bytes), NEW d \in Seq(Bytes), d # <<>>,
         NEW p \in Occurrences(s, d, 1), \A j \in Occurrences(s, d, 1) : p <= j
  PROVE  LET n == p + Len(d) - 1
         IN  /\ n \in 0..Len(s)
             /\ Find(First(s, n), d, 1) = Len(First(s, n)) - Len(d) + 1
<1> DEFINE n == p + Len(d) - 1
           l == First(s, n)
<1>1. /\ Len(s) \in Nat /\ Len(d) \in Nat \ {0} /\ p \in Nat \ {0}
      /\ p <= Len(s) - Len(d) + 1 /\ n \in 0..Len(s) /\ p = n - Len(d) + 1
  BY LenProperties, EmptySeq DEF Occurrences
<1> HIDE DEF n
<1>2. l \in Seq(Bytes) /\ Len(l) = n /\ \A i \in 1..n : l[i] = s[i]
  BY <1>1, Cut
<1> HIDE DEF l
<1>3. ASSUME NEW i \in 1..p
      PROVE  i \in Occurrences(l, d, 1) <=> i \in Occurrences(s, d, 1)
  <2>1. i <= Len(l) - Len(d) + 1 /\ i <= Len(s) - Len(d) + 1 /\ i \in Nat \ {0}
    BY <1>1, <1>2
  <2>2. \A k \in 1..Len(d) : l[i + k - 1] = s[i + k - 1]
    BY <1>1, <1>2
  <2>3. SubSeq(l, i, i + Len(d) - 1) = d <=> SubSeq(s, i, i + Len(d) - 1) = d
    BY <1>2, <2>1, <2>2, Match
  <2>4. i \in 1..(Len(l) - Len(d) + 1) /\ i \in 1..(Len(s) - Len(d) + 1)
    BY <1>1, <1>2, <2>1
  <2> QED
    BY <2>3, <2>4 DEF Occurrences
<1>4. Occurrences(l, d, 1) = {p}
  <2>1. Occurrences(l, d, 1) \subseteq 1..p
    BY <1>1, <1>2 DEF Occurrences
  <2>2. \A i \in 1..p : i \in Occurrences(s, d, 1) <=> i = p
    BY <1>1
  <2>3. \A i \in 1..p : i \in Occurrences(l, d, 1) <=> i = p
    BY <1>3, <2>2
  <2>4. p \in 1..p
    BY <1>1
  <2> QED
    BY <2>1, <2>3, <2>4
<1>5. Find(l, d, 1) = p
  <2>1. \/ Find(l, d, 1) = 0 /\ Occurrences(l, d, 1) = {}
        \/ Find(l, d, 1) \in Occurrences(l, d, 1)
    BY <1>2, FindFirst
  <2> QED
    BY <1>4, <2>1
<1> QED
  BY <1>1, <1>2, <1>5 DEF l, n

\* No occurrence begins so early that it would end inside the old bytes, if
\* they held none: start_pos may skip those positions.
LEMMA NothingSkipped ==
  ASSUME NEW old \in Seq(Bytes), NEW new \in Seq(Bytes), NEW d \in Seq(Bytes), d # <<>>,
         Occurrences(old, d, 1) = {}
  PROVE  LET from == IF Len(old) >= Len(d) THEN Len(old) - Len(d) + 2 ELSE 1
         IN  /\ from \in Nat \ {0}
             /\ Occurrences(old \o new, d, from) = Occurrences(old \o new, d, 1)
<1> DEFINE from == IF Len(old) >= Len(d) THEN Len(old) - Len(d) + 2 ELSE 1
           s == old \o new
<1>1. /\ Len(old) \in Nat /\ Len(new) \in Nat /\ Len(d) \in Nat \ {0}
      /\ s \in Seq(Bytes) /\ Len(s) = Len(old) + Len(new)
      /\ \A i \in 1..Len(old) : s[i] = old[i]
  BY LenProperties, EmptySeq, ConcatProperties
<1> HIDE DEF s
<1>2. from \in Nat \ {0}
  BY <1>1
<1>3. ASSUME NEW i \in Occurrences(s, d, 1), i < from PROVE FALSE
  <2>1. /\ i \in Nat \ {0} /\ i <= Len(s) - Len(d) + 1 /\ i <= Len(old) - Len(d) + 1
        /\ SubSeq(s, i, i + Len(d) - 1) = d
    BY <1>1, <1>3 DEF Occurrences
  <2>2. \A k \in 1..Len(d) : s[i + k - 1] = d[k]
    BY <1>1, <2>1, Match
  <2>3. \A k \in 1..Len(d) : old[i + k - 1] = d[k]
    <3>1. \A k \in 1..Len(d) : i + k - 1 \in 1..Len(old)
      BY <1>1, <2>1
    <3> QED
      BY <1>1, <2>2, <3>1
  <2>4. SubSeq(old, i, i + Len(d) - 1) = d
    BY <2>1, <2>3, Match
  <2>5. i \in Occurrences(old, d, 1)
    BY <1>1, <2>1, <2>4 DEF Occurrences
  <2> QED
    BY <2>5
<1>4. Occurrences(s, d, from) = Occurrences(s, d, 1)
  <2>1. Occurrences(s, d, from) = {i \in Occurrences(s, d, 1) : i >= from}
    BY <1>1, <1>2 DEF Occurrences
  <2>2. \A i \in Occurrences(s, d, 1) : i \in Nat
    BY <1>1 DEF Occurrences
  <2> HIDE DEF from
  <2> QED
    BY <1>2, <1>3, <2>1, <2>2
<1> QED
  BY <1>2, <1>4 DEF s

\* Concatenation, left unexpanded where only its laws are needed.
Cat(s, t) == s \o t

\* The bytes of a connection from the first returned to the last received.
Stream(t, g, b, r) == Cat(Cat(Cat(t, g), b), r)

\* The laws of concatenation, for sequences of bytes.
LEMMA CatLaws ==
  /\ \A s, t \in Seq(Bytes) : Cat(s, t) \in Seq(Bytes)
  /\ <<>> \in Seq(Bytes) /\ \A s \in Seq(Bytes) : Cat(s, <<>>) = s
  /\ \A s, t, u \in Seq(Bytes) : Cat(Cat(s, t), u) = Cat(s, Cat(t, u))
<1>1. \A s, t \in Seq(Bytes) : s \o t \in Seq(Bytes)
  BY ConcatProperties
<1>2. <<>> \in Seq(Bytes) /\ \A s \in Seq(Bytes) : s \o <<>> = s
  BY ConcatEmptySeq, EmptySeq
<1>3. \A s, t, u \in Seq(Bytes) : (s \o t) \o u = s \o (t \o u)
  BY ConcatAssociative
<1> QED
  BY <1>1, <1>2, <1>3, Zenon DEF Cat

\* Bytes that pass from one stage to the next keep their place in the stream:
\* from the kernel to read_buffer_, from read_buffer_ to the caller of
\* read_until, from the kernel to the caller of read_some or into the buffer of
\* read_all, and from there to its caller.
LEMMA Regroup ==
  \A t, g, x, y, z \in Seq(Bytes) :
     /\ Stream(t, g, Cat(x, y), z) = Stream(t, g, x, Cat(y, z))
     /\ Stream(Cat(t, x), <<>>, y, z) = Stream(t, <<>>, Cat(x, y), z)
     /\ Stream(Cat(t, x), <<>>, <<>>, y) = Stream(t, <<>>, <<>>, Cat(x, y))
     /\ Stream(t, Cat(g, x), <<>>, y) = Stream(t, g, <<>>, Cat(x, y))
     /\ Stream(Cat(t, g), <<>>, x, y) = Stream(t, g, x, y)
     /\ Stream(t, g, x, Cat(y, z)) = Cat(Stream(t, g, x, y), z)
<1> TAKE t, g, x, y, z \in Seq(Bytes)
<1>1. /\ Cat(t, g) \in Seq(Bytes) /\ Cat(x, y) \in Seq(Bytes) /\ Cat(y, z) \in Seq(Bytes)
      /\ Cat(t, x) \in Seq(Bytes) /\ Cat(g, x) \in Seq(Bytes)
      /\ Cat(Cat(t, g), x) \in Seq(Bytes)
  BY CatLaws
<1>2. /\ Cat(Cat(t, g), Cat(x, y)) = Cat(Cat(Cat(t, g), x), y)
      /\ Cat(Cat(Cat(Cat(t, g), x), y), z) = Cat(Cat(Cat(t, g), x), Cat(y, z))
  BY <1>1, CatLaws
<1>3. Cat(Cat(t, x), <<>>) = Cat(t, x) /\ Cat(t, <<>>) = t /\ Cat(Cat(t, x), y) = Cat(t, Cat(x, y))
  BY <1>1, CatLaws
<1>4. /\ Cat(t, Cat(g, x)) = Cat(Cat(t, g), x)
      /\ Cat(Cat(Cat(t, g), x), <<>>) = Cat(Cat(t, g), x)
      /\ Cat(Cat(t, g), <<>>) = Cat(t, g)
      /\ Cat(Cat(Cat(t, g), x), y) = Cat(Cat(t, g), Cat(x, y))
  BY <1>1, CatLaws
<1> QED
  BY <1>2, <1>3, <1>4 DEF Stream

-----------------------------------------------------------------------------
(* The inductive invariant                                                 *)

Types ==
    /\ rx \in Seq(Bytes) /\ read_buffer_ \in Seq(Bytes) /\ got \in Seq(Bytes)
    /\ line \in Seq(Bytes) /\ sent \in Seq(Bytes) /\ taken \in Seq(Bytes)
    /\ fin \in BOOLEAN /\ rst \in BOOLEAN /\ open \in BOOLEAN
    /\ found \in BOOLEAN /\ disorder \in BOOLEAN
    /\ pc \in {"idle", "until", "all"}
    /\ delimiter \in Delims /\ max_size \in Limits \cup {0} /\ widest \in Limits \cup {0}

\* Only read_all has bytes in its caller's buffer and not returned, and never
\* more than fit; read_buffer_ obeys the limit of the call that fills it.
CallInv ==
    /\ pc # "all" => got = <<>>
    /\ pc = "all" => Len(got) <= max_size
    /\ pc = "until" => max_size <= widest
    /\ Len(read_buffer_) <= widest

\* InOrder
Ordered == ~disorder => Stream(taken, got, read_buffer_, rx) = sent

Inv == Types /\ CallInv /\ LineIsExact /\ Ordered

\* What the proofs use of the constants and of the types.
LEMMA Facts ==
  ASSUME Types
  PROVE  /\ Limits \subseteq Nat /\ max_size \in Nat /\ widest \in Nat
         /\ \A d \in Delims : d \in Seq(Bytes) /\ d # <<>>
         /\ Len(rx) \in Nat /\ Len(read_buffer_) \in Nat /\ Len(got) \in Nat
         /\ ChunkSize \in Nat \ {0}
BY ConnectionAssumption, LenProperties DEF Types

\* The line, and what is left in the buffer, when the delimiter of a call is
\* first at pos in buf.
LEMMA LineReturned ==
  ASSUME NEW buf \in Seq(Bytes), NEW d \in Seq(Bytes), d # <<>>,
         NEW pos, pos \in Occurrences(buf, d, 1), \A j \in Occurrences(buf, d, 1) : pos <= j,
         ReturnLine(buf, pos, d)
  PROVE  /\ line' \in Seq(Bytes) /\ read_buffer_' \in Seq(Bytes)
         /\ Cat(line', read_buffer_') = buf
         /\ taken' = Cat(taken, line')
         /\ found' = TRUE /\ pc' = "idle"
         /\ Len(read_buffer_') <= Len(buf)
         /\ Find(line', d, 1) = Len(line') - Len(d) + 1
<1> DEFINE n == pos + Len(d) - 1
<1>1. n \in 0..Len(buf) /\ Find(First(buf, n), d, 1) = Len(First(buf, n)) - Len(d) + 1
  BY LineEnds
<1>2. /\ line' = First(buf, n) /\ read_buffer_' = Rest(buf, n)
      /\ taken' = taken \o First(buf, n) /\ found' = TRUE /\ pc' = "idle"
  BY DEF ReturnLine, Kept
<1> HIDE DEF n
<1>3. /\ First(buf, n) \in Seq(Bytes) /\ Rest(buf, n) \in Seq(Bytes)
      /\ Len(Rest(buf, n)) = Len(buf) - n /\ First(buf, n) \o Rest(buf, n) = buf
  BY <1>1, Cut
<1>4. Len(Rest(buf, n)) <= Len(buf)
  BY <1>1, <1>3, LenProperties
<1> QED
  BY <1>1, <1>2, <1>3, <1>4, Zenon DEF Cat

\* The result of read_until's search in read_buffer_ and in what it receives.
LEMMA Search ==
  ASSUME NEW buf \in Seq(Bytes), NEW d \in Delims, NEW from \in Nat \ {0},
         Occurrences(buf, d, from) = Occurrences(buf, d, 1)
  PROVE  \/ Find(buf, d, from) = 0 /\ Occurrences(buf, d, 1) = {}
         \/ /\ Find(buf, d, from) # 0 /\ Find(buf, d, from) \in Occurrences(buf, d, 1)
            /\ \A j \in Occurrences(buf, d, 1) : Find(buf, d, from) <= j
<1>1. d \in Seq(Bytes)
  BY ConnectionAssumption
<1> QED
  BY <1>1, FindFirst

-----------------------------------------------------------------------------
(* The steps                                                               *)

\* The peer's steps.
LEMMA PeerStep == Inv /\ Peer => Inv'
<1> SUFFICES ASSUME Inv, Peer PROVE Inv'
  OBVIOUS
<1> USE DEF Inv, Types, CallInv, LineIsExact, peerVars, callVars, untilVars
<1>1. CASE PeerClose \/ PeerReset
  <2>1. fin' \in BOOLEAN /\ rst' \in BOOLEAN
    BY <1>1, Zenon DEF PeerClose, PeerReset
  <2> QED
    BY <1>1, <2>1 DEF PeerClose, PeerReset, Ordered
<1>2. ASSUME NEW b \in Bytes, PeerSend(b) PROVE Inv'
  <2>1. rx' \in Seq(Bytes) /\ sent' \in Seq(Bytes)
    BY <1>2, AppendProperties DEF PeerSend
  <2>2. Ordered'
    <3>1. rx' = Cat(rx, <<b>>) /\ sent' = Cat(sent, <<b>>) /\ <<b>> \in Seq(Bytes)
      BY <1>2, AppendIsConcat DEF PeerSend, Cat
    <3> HIDE DEF Inv, Types, CallInv, LineIsExact
    <3>0. /\ taken \in Seq(Bytes) /\ got \in Seq(Bytes) /\ read_buffer_ \in Seq(Bytes)
          /\ rx \in Seq(Bytes) /\ Ordered
      BY DEF Inv, Types
    <3>2. Stream(taken, got, read_buffer_, Cat(rx, <<b>>)) = Cat(Stream(taken, got, read_buffer_, rx), <<b>>)
      <4>1. \A z \in Seq(Bytes) :
               Stream(taken, got, read_buffer_, Cat(rx, z)) = Cat(Stream(taken, got, read_buffer_, rx), z)
        BY <3>0, Regroup
      <4> QED
        BY <3>1, <4>1, Zenon
    <3>3. UNCHANGED <<taken, got, read_buffer_, disorder>>
      BY <1>2 DEF PeerSend
    <3> QED
      BY <3>0, <3>1, <3>2, <3>3, Zenon DEF Ordered
  <2> QED
    BY <1>2, <2>1, <2>2 DEF PeerSend
<1> QED
  BY <1>1, <1>2 DEF Peer

\* The call of read_until.
LEMMA ReadUntilStep ==
  ASSUME Inv, NEW d \in Delims, NEW m \in Limits, ReadUntil(d, m)
  PROVE  Inv'
<1> USE DEF peerVars, callVars, untilVars
<1>0. /\ Types /\ CallInv /\ Ordered /\ got = <<>> /\ pc = "idle"
      /\ d \in Seq(Bytes) /\ d # <<>>
      /\ Limits \subseteq Nat /\ widest \in Nat /\ Len(read_buffer_) \in Nat
  BY Facts DEF Inv, CallInv, ReadUntil
<1>1. /\ widest' \in Limits \cup {0} /\ widest' \in Nat /\ m <= widest' /\ widest <= widest'
      /\ delimiter' = d /\ max_size' = m
      /\ UNCHANGED <<rx, fin, rst, sent, open, got, disorder>>
  BY <1>0 DEF ReadUntil, Types
<1>2. CASE ~open /\ ReturnFalse
  <2>1. /\ pc' = "idle" /\ ~found' /\ found' \in BOOLEAN
        /\ UNCHANGED <<read_buffer_, line, taken>>
    BY <1>2, Zenon DEF ReturnFalse
  <2>2. LineIsExact'
    BY <2>1 DEF LineIsExact
  <2>3. CallInv'
    BY <1>0, <1>1, <2>1 DEF CallInv
  <2> QED
    BY <1>0, <1>1, <2>1, <2>2, <2>3 DEF Inv, Types, Ordered
<1>3. CASE open /\ InBuffer(d) # 0 /\ ReturnLine(read_buffer_, InBuffer(d), d)
  <2>1. /\ InBuffer(d) \in Occurrences(read_buffer_, d, 1)
        /\ \A j \in Occurrences(read_buffer_, d, 1) : InBuffer(d) <= j
    BY <1>0, <1>3, Search DEF InBuffer, Types
  <2>2. /\ line' \in Seq(Bytes) /\ read_buffer_' \in Seq(Bytes)
        /\ Cat(line', read_buffer_') = read_buffer_
        /\ taken' = Cat(taken, line')
        /\ found' = TRUE /\ pc' = "idle"
        /\ Len(read_buffer_') <= Len(read_buffer_)
        /\ Find(line', d, 1) = Len(line') - Len(d) + 1
    BY <1>0, <1>3, <2>1, LineReturned DEF Types
  <2>3. taken' \in Seq(Bytes) /\ Len(read_buffer_') \in Nat /\ found' \in BOOLEAN
    BY <1>0, <2>2, CatLaws, LenProperties DEF Types
  <2>4. Ordered'
    <3>1. Stream(Cat(taken, line'), <<>>, read_buffer_', rx)
             = Stream(taken, <<>>, Cat(line', read_buffer_'), rx)
      <4>1. taken \in Seq(Bytes) /\ rx \in Seq(Bytes)
        BY <1>0 DEF Types
      <4>2. \A t, x, y, z \in Seq(Bytes) :
               Stream(Cat(t, x), <<>>, y, z) = Stream(t, <<>>, Cat(x, y), z)
        BY Regroup
      <4> QED
        BY <2>2, <4>1, <4>2
    <3> QED
      BY <1>0, <1>1, <2>2, <3>1 DEF Ordered
  <2> QED
    BY <1>0, <1>1, <2>2, <2>3, <2>4 DEF Inv, Types, CallInv, LineIsExact
<1>4. CASE /\ open /\ InBuffer(d) = 0
           /\ pc' = "until" /\ found' = FALSE
           /\ UNCHANGED <<read_buffer_, line, taken>>
  <2>1. Occurrences(read_buffer_, d, 1) = {}
    BY <1>0, <1>4, Search DEF InBuffer, Types
  <2>2. ~found' /\ found' \in BOOLEAN
    BY <1>4, Zenon
  <2>3. LineIsExact'
    BY <1>1, <1>4, <2>1, <2>2 DEF LineIsExact
  <2>4. CallInv'
    BY <1>0, <1>1, <1>4 DEF CallInv
  <2> QED
    BY <1>0, <1>1, <1>4, <2>2, <2>3, <2>4 DEF Inv, Types, Ordered
<1> QED
  BY <1>2, <1>3, <1>4 DEF ReadUntil

\* A turn of read_until's loop.  The buffer grows by what recv() took, within
\* the limit of the call; the search near the new bytes finds what there is.
LEMMA RecvUntilStep ==
  ASSUME Inv, NEW k \in Nat \ {0}, RecvUntil(k)
  PROVE  Inv'
<1> DEFINE new == First(rx, k)
           buf == Cat(read_buffer_, new)
           from == StartPos(Len(read_buffer_))
           pos == Find(buf, delimiter, from)
<1>0. /\ Types /\ CallInv /\ Ordered /\ got = <<>> /\ pc = "until"
      /\ delimiter \in Delims /\ delimiter \in Seq(Bytes) /\ delimiter # <<>>
      /\ read_buffer_ \in Seq(Bytes) /\ rx \in Seq(Bytes)
      /\ max_size \in Nat /\ widest \in Nat /\ Len(read_buffer_) \in Nat /\ Len(rx) \in Nat
      /\ ChunkSize \in Nat /\ max_size <= widest
      /\ Occurrences(read_buffer_, delimiter, 1) = {}
  BY Facts DEF Inv, CallInv, RecvUntil, Types, LineIsExact
<1>1. /\ k \in 0..Len(rx) /\ k <= max_size - Len(read_buffer_) /\ rx' = Rest(rx, k)
      /\ UNCHANGED <<fin, rst, sent, open, delimiter, max_size, got, widest, disorder>>
  BY <1>0 DEF RecvUntil, ToRead, peerVars, callVars
<1>2. /\ new \in Seq(Bytes) /\ Len(new) = k
      /\ rx' \in Seq(Bytes) /\ Cat(new, rx') = rx
  BY <1>0, <1>1, Cut DEF Cat
<1>3. \/ pos # 0 /\ ReturnLine(buf, pos, delimiter)
      \/ pos = 0 /\ read_buffer_' = buf /\ UNCHANGED <<pc, line, found, taken>>
  BY DEF RecvUntil, Cat
<1>4. /\ from \in Nat \ {0}
      /\ Occurrences(buf, delimiter, from) = Occurrences(buf, delimiter, 1)
  BY <1>0, <1>2, NothingSkipped DEF StartPos, Cat
<1> HIDE DEF new, from
<1>5. buf \in Seq(Bytes) /\ Len(buf) \in Nat /\ Len(buf) <= widest
  <2>1. buf \in Seq(Bytes) /\ Len(buf) = Len(read_buffer_) + k
    BY <1>0, <1>2, ConcatProperties DEF Cat
  <2> QED
    BY <1>0, <1>1, <2>1
<1>6. \/ pos = 0 /\ Occurrences(buf, delimiter, 1) = {}
      \/ /\ pos # 0 /\ pos \in Occurrences(buf, delimiter, 1)
         /\ \A j \in Occurrences(buf, delimiter, 1) : pos <= j
  BY <1>0, <1>4, <1>5, Search
<1>7. Stream(taken, <<>>, buf, rx') = Stream(taken, <<>>, read_buffer_, rx)
  <2>1. <<>> \in Seq(Bytes) /\ taken \in Seq(Bytes)
    BY <1>0, CatLaws DEF Types
  <2>2. \A g \in Seq(Bytes) :
           Stream(taken, g, Cat(read_buffer_, new), rx')
             = Stream(taken, g, read_buffer_, Cat(new, rx'))
    BY <1>0, <1>2, <2>1, Regroup
  <2> QED
    BY <1>2, <2>1, <2>2, Zenon
<1> HIDE DEF buf, pos
<1>8. CASE pos # 0
  <2>1. ReturnLine(buf, pos, delimiter)
    BY <1>3, <1>8
  <2>2. /\ line' \in Seq(Bytes) /\ read_buffer_' \in Seq(Bytes)
        /\ Cat(line', read_buffer_') = buf
        /\ taken' = Cat(taken, line')
        /\ found' = TRUE /\ pc' = "idle"
        /\ Len(read_buffer_') <= Len(buf)
        /\ Find(line', delimiter, 1) = Len(line') - Len(delimiter) + 1
    BY <1>0, <1>5, <1>6, <1>8, <2>1, LineReturned
  <2>3. taken' \in Seq(Bytes) /\ Len(read_buffer_') \in Nat /\ found' \in BOOLEAN
    BY <1>0, <2>2, CatLaws, LenProperties DEF Types
  <2>4. Ordered'
    <3>1. taken \in Seq(Bytes)
      BY <1>0 DEF Types
    <3>2. Stream(Cat(taken, line'), <<>>, read_buffer_', rx')
             = Stream(taken, <<>>, Cat(line', read_buffer_'), rx')
      BY <1>2, <2>2, <3>1, Regroup
    <3> QED
      BY <1>0, <1>1, <1>7, <2>2, <3>2 DEF Ordered
  <2>5. CallInv' /\ LineIsExact'
    BY <1>0, <1>1, <1>5, <2>2, <2>3 DEF CallInv, LineIsExact
  <2> QED
    BY <1>0, <1>1, <1>2, <2>2, <2>3, <2>4, <2>5 DEF Inv, Types
<1>9. CASE pos = 0
  <2>1. read_buffer_' = buf /\ UNCHANGED <<pc, line, found, taken>>
    BY <1>3, <1>9
  <2>2. LineIsExact'
    <3>1. (found => Find(line, delimiter, 1) = Len(line) - Len(delimiter) + 1)'
      BY <1>1, <2>1 DEF Inv, LineIsExact
    <3> QED
      BY <1>1, <1>6, <1>9, <2>1, <3>1 DEF LineIsExact
  <2>3. Ordered'
    BY <1>0, <1>1, <1>7, <2>1 DEF Ordered
  <2>4. CallInv'
    BY <1>0, <1>1, <1>5, <2>1 DEF CallInv
  <2> QED
    BY <1>0, <1>1, <1>2, <1>5, <2>1, <2>2, <2>3, <2>4 DEF Inv, Types
<1> QED
  BY <1>8, <1>9

\* read_until gives up: it keeps the bytes for the next call.
LEMMA UntilFailsStep ==
  ASSUME Inv, UntilFails
  PROVE  Inv'
<1>1. /\ pc = "until" /\ pc' = "idle" /\ ~found' /\ found' \in BOOLEAN
      /\ UNCHANGED <<rx, fin, rst, sent, open, delimiter, max_size, got, widest, disorder,
                     read_buffer_, line, taken>>
  BY Zenon DEF UntilFails, ReturnFalse, peerVars, callVars
<1>2. CallInv' /\ LineIsExact' /\ Ordered'
  BY <1>1 DEF Inv, CallInv, LineIsExact, Ordered
<1> QED
  BY <1>1, <1>2 DEF Inv, Types

\* Bytes taken from the kernel past read_buffer_: no loss of order while that
\* is empty, and otherwise the step says so in disorder.
LEMMA Direct ==
  ASSUME Inv, NEW k \in Nat, k <= Len(rx), rx' = Rest(rx, k)
  PROVE  /\ First(rx, k) \in Seq(Bytes) /\ Len(First(rx, k)) = k /\ rx' \in Seq(Bytes)
         /\ Cat(First(rx, k), rx') = rx
         /\ Cat(taken, First(rx, k)) \in Seq(Bytes) /\ Cat(got, First(rx, k)) \in Seq(Bytes)
         /\ (disorder \/ read_buffer_ # <<>>) \in BOOLEAN
<1>1. /\ rx \in Seq(Bytes) /\ taken \in Seq(Bytes) /\ got \in Seq(Bytes)
      /\ k \in 0..Len(rx)
  BY Facts DEF Inv, Types
<1>2. /\ First(rx, k) \in Seq(Bytes) /\ Len(First(rx, k)) = k /\ rx' \in Seq(Bytes)
      /\ Cat(First(rx, k), rx') = rx
  BY <1>1, Cut DEF Cat
<1>3. (disorder \/ read_buffer_ # <<>>) \in BOOLEAN
  BY Zenon
<1> QED
  BY <1>1, <1>2, <1>3, CatLaws

\* read_some.
LEMMA ReadSomeStep ==
  ASSUME Inv, NEW m \in Limits, ReadSome(m)
  PROVE  Inv'
<1>1. /\ pc = "idle" /\ got = <<>>
      /\ UNCHANGED <<fin, rst, sent, open, read_buffer_, pc, delimiter, max_size, got, line,
                     found, widest>>
  BY DEF ReadSome, Inv, CallInv, peerVars, callVars, untilVars
<1>2. CASE UNCHANGED <<rx, taken, disorder>>
  BY <1>1, <1>2 DEF Inv, Types, CallInv, LineIsExact, Ordered
<1>3. ASSUME NEW k \in 1..m, k <= Len(rx), rx' = Rest(rx, k), taken' = taken \o First(rx, k),
             disorder' = (disorder \/ read_buffer_ # <<>>)
      PROVE  Inv'
  <2>1. k \in Nat /\ taken' = Cat(taken, First(rx, k))
    BY <1>3, ConnectionAssumption DEF Cat
  <2>2. /\ First(rx, k) \in Seq(Bytes) /\ rx' \in Seq(Bytes) /\ Cat(First(rx, k), rx') = rx
        /\ Cat(taken, First(rx, k)) \in Seq(Bytes) /\ disorder' \in BOOLEAN
    BY <1>3, <2>1, Direct
  <2>3. ASSUME ~disorder' PROVE Stream(taken', got', read_buffer_', rx') = sent'
    <3>1. ~disorder /\ read_buffer_ = <<>>
      BY <1>3, <2>3, Zenon
    <3>2. taken \in Seq(Bytes)
      BY DEF Inv, Types
    <3>3. Stream(taken', <<>>, <<>>, rx') = Stream(taken, <<>>, <<>>, rx)
      BY <2>1, <2>2, <3>2, Regroup
    <3> QED
      BY <1>1, <3>1, <3>3 DEF Inv, Ordered
  <2>4. CallInv' /\ LineIsExact'
    BY <1>1 DEF Inv, CallInv, LineIsExact
  <2> QED
    BY <1>1, <2>1, <2>2, <2>3, <2>4 DEF Inv, Types, Ordered
<1> QED
  BY <1>2, <1>3 DEF ReadSome

\* A turn of read_all's loop.
LEMMA RecvAllStep ==
  ASSUME Inv, NEW k \in Nat, RecvAll(k)
  PROVE  Inv'
<1>1. /\ pc = "all" /\ k <= Len(rx) /\ rx' = Rest(rx, k) /\ got' = Cat(got, First(rx, k))
      /\ k <= max_size - Len(got)
      /\ disorder' = (disorder \/ read_buffer_ # <<>>)
      /\ UNCHANGED <<fin, rst, sent, open, read_buffer_, pc, delimiter, max_size, line, found,
                     widest, taken>>
  BY DEF RecvAll, Remaining, peerVars, callVars, untilVars, Cat
<1>2. /\ First(rx, k) \in Seq(Bytes) /\ Len(First(rx, k)) = k /\ rx' \in Seq(Bytes)
      /\ Cat(First(rx, k), rx') = rx
      /\ got' \in Seq(Bytes) /\ disorder' \in BOOLEAN
  BY <1>1, Direct
<1>3. ASSUME ~disorder' PROVE Stream(taken', got', read_buffer_', rx') = sent'
  <2>1. ~disorder /\ read_buffer_ = <<>>
    BY <1>1, <1>3, Zenon
  <2>2. taken \in Seq(Bytes) /\ got \in Seq(Bytes)
    BY DEF Inv, Types
  <2>3. Stream(taken, got', <<>>, rx') = Stream(taken, got, <<>>, rx)
    BY <1>1, <1>2, <2>2, Regroup
  <2> QED
    BY <1>1, <2>1, <2>3 DEF Inv, Ordered
<1>4. CallInv'
  <2>1. got \in Seq(Bytes) /\ max_size \in Nat /\ Len(got) \in Nat
    BY Facts DEF Inv, Types
  <2>2. Len(got') = Len(got) + k
    BY <1>1, <1>2, <2>1, ConcatProperties DEF Cat
  <2>3. Len(got') <= max_size
    BY <1>1, <2>1, <2>2
  <2> QED
    BY <1>1, <2>3 DEF Inv, CallInv
<1>5. LineIsExact'
  BY <1>1 DEF Inv, LineIsExact
<1> QED
  BY <1>1, <1>2, <1>3, <1>4, <1>5 DEF Inv, Types, Ordered

\* read_all returns, with the bytes or, after an error, without them.
LEMMA AllReturnsStep ==
  ASSUME Inv, AllReturns
  PROVE  Inv'
<1>1. /\ pc = "all" /\ pc' = "idle" /\ got' = <<>>
      /\ UNCHANGED <<rx, fin, rst, sent, open, read_buffer_, delimiter, max_size, line, found,
                     widest>>
  BY DEF AllReturns, peerVars, callVars, untilVars
<1>2. CallInv' /\ LineIsExact'
  BY <1>1 DEF Inv, CallInv, LineIsExact
<1>3. /\ taken \in Seq(Bytes) /\ got \in Seq(Bytes) /\ read_buffer_ \in Seq(Bytes)
      /\ rx \in Seq(Bytes) /\ <<>> \in Seq(Bytes)
  BY CatLaws DEF Inv, Types
<1>4. CASE taken' = taken \o got /\ UNCHANGED disorder
  <2>1. taken' = Cat(taken, got) /\ taken' \in Seq(Bytes)
    BY <1>3, <1>4, CatLaws DEF Cat
  <2>2. Stream(taken', <<>>, read_buffer_, rx) = Stream(taken, got, read_buffer_, rx)
    BY <1>3, <2>1, Regroup
  <2> QED
    BY <1>1, <1>2, <1>3, <1>4, <2>1, <2>2 DEF Inv, Types, Ordered
<1>5. CASE disorder' = (disorder \/ got # <<>>) /\ UNCHANGED taken
  <2>1. disorder' \in BOOLEAN /\ (~disorder' => ~disorder /\ got = <<>>)
    BY <1>5, Zenon
  <2> QED
    BY <1>1, <1>2, <1>3, <1>5, <2>1 DEF Inv, Types, Ordered
<1> QED
  BY <1>4, <1>5 DEF AllReturns

\* read_all is called; close(); nothing happens.
LEMMA OtherStep ==
  ASSUME Inv, \/ \E m \in Limits : ReadAll(m)
              \/ Close \/ UNCHANGED vars
  PROVE  Inv'
<1>1. CASE \E m \in Limits : ReadAll(m)
  <2>1. PICK m \in Limits : ReadAll(m)
    BY <1>1
  <2>2. /\ pc = "idle" /\ got = <<>> /\ pc' = "all" /\ max_size' = m /\ m \in Nat
        /\ UNCHANGED <<rx, fin, rst, sent, open, read_buffer_, delimiter, got, line, found,
                       widest, taken, disorder>>
    BY <2>1, ConnectionAssumption DEF ReadAll, Inv, CallInv, peerVars, untilVars
  <2>3. CallInv'
    <3>1. Len(got') = 0
      BY <2>2, EmptySeq
    <3> QED
      BY <2>2, <3>1 DEF Inv, CallInv
  <2> QED
    BY <2>2, <2>3 DEF Inv, Types, LineIsExact, Ordered
<1>2. CASE Close
  <2>1. open' \in BOOLEAN
    BY <1>2, Zenon DEF Close
  <2> QED
    BY <1>2, <2>1 DEF Close, Inv, Types, CallInv, LineIsExact, Ordered, peerVars, callVars, untilVars
<1>3. CASE UNCHANGED vars
  BY <1>3 DEF vars, Inv, Types, CallInv, LineIsExact, Ordered, peerVars, callVars, untilVars
<1> QED
  BY <1>1, <1>2, <1>3

-----------------------------------------------------------------------------
(* The theorems                                                            *)

\* Inv is an inductive invariant of the connection.
THEOREM Inductive == Spec => []Inv
<1>1. Init => Inv
  <2> SUFFICES ASSUME Init PROVE Inv
    OBVIOUS
  <2>1. <<>> \in Seq(Bytes) /\ Len(<<>>) = 0
    BY EmptySeq
  <2>2. Types
    <3>1. fin \in BOOLEAN /\ rst \in BOOLEAN /\ open \in BOOLEAN /\ found \in BOOLEAN /\ disorder \in BOOLEAN
      BY Zenon DEF Init
    <3> QED
      BY <2>1, <3>1 DEF Init, Types
  <2>3. CallInv /\ LineIsExact
    BY <2>1 DEF Init, CallInv, LineIsExact
  <2>4. Ordered
    BY <2>1, CatLaws DEF Init, Ordered, Stream
  <2> QED
    BY <2>2, <2>3, <2>4 DEF Inv
<1>2. Inv /\ [Next]_vars => Inv'
  <2> SUFFICES ASSUME Inv, [Next]_vars PROVE Inv'
    OBVIOUS
  <2>1. CASE Call
    BY <2>1, ReadUntilStep, ReadSomeStep, OtherStep DEF Call
  <2>2. CASE Turn
    <3>1. \A k \in 1..MaxStream : k \in Nat \ {0} /\ k \in Nat
      BY ConnectionAssumption
    <3> QED
      BY <2>2, <3>1, RecvUntilStep, RecvAllStep, UntilFailsStep, AllReturnsStep DEF Turn
  <2>3. CASE Peer
    BY <2>3, PeerStep
  <2>4. CASE UNCHANGED vars
    BY <2>4, OtherStep
  <2> QED
    BY <2>1, <2>2, <2>3, <2>4 DEF Next
<1> QED
  BY <1>1, <1>2, PTL DEF Spec

\* Every variable keeps its type, read_all stays inside the caller's buffer and
\* read_buffer_ within the largest max_size given to read_until.
THEOREM TypeCorrect == Spec => []TypeOK
<1>1. Inv => TypeOK
  BY DEF Inv, Types, CallInv, TypeOK
<1> QED
  BY <1>1, Inductive, PTL

\* read_until returns a line up to the first delimiter of the stream, wherever
\* recv() cuts it, and never waits for a delimiter it already holds.
THEOREM LinesExact == Spec => []LineIsExact
<1>1. Inv => LineIsExact
  BY DEF Inv
<1> QED
  BY <1>1, Inductive, PTL

\* What was returned, what is held and what is still to be received is what the
\* peer sent, unless a direct read overtook read_until or failed half way.
THEOREM StreamInOrder == Spec => []InOrder
<1>1. Inv => InOrder
  BY DEF Inv, Ordered, InOrder, Stream, Cat
<1> QED
  BY <1>1, Inductive, PTL
=============================================================================
