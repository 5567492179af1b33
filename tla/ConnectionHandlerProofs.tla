----------------------- MODULE ConnectionHandlerProofs -----------------------
(***************************************************************************)
(* Proofs, for any limits, timeouts and buffer sizes, of the safety        *)
(* properties of ConnectionHandler: which requests a connection that is    *)
(* given up for silence still owes its client.                             *)
(***************************************************************************)
EXTENDS ConnectionHandler, FiniteSetTheorems, FunctionTheorems, SequenceTheorems,
        WellFoundedInduction, TLAPS

-----------------------------------------------------------------------------
(* Complete requests in a sequence of units                                *)

\* Where complete requests end in s, and how many do.
Ends(s)  == {i \in DOMAIN s : s[i] \in Valid}
Count(s) == Cardinality(Ends(s))

\* The units that were sent and not read, and the request being answered.
Answering == IF pc = "write" THEN 1 ELSE 0

LEMMA CountFinite ==
  ASSUME NEW s \in Seq(Units)
  PROVE  IsFiniteSet(Ends(s)) /\ Count(s) \in Nat
<1>1. Ends(s) \in SUBSET (1..Len(s)) /\ Len(s) \in Int /\ 1 \in Int
  BY LenProperties DEF Ends
<1>2. IsFiniteSet(1..Len(s))
  BY <1>1, FS_Interval
<1>3. IsFiniteSet(Ends(s))
  BY <1>1, <1>2, FS_Subset
<1> QED
  BY <1>3, FS_CardinalityType DEF Count

\* A unit that is appended adds a request if it completes one.
LEMMA CountAppend ==
  ASSUME NEW s \in Seq(Units), NEW u \in Units
  PROVE  Count(Append(s, u)) = Count(s) + IF u \in Valid THEN 1 ELSE 0
<1> DEFINE t == Append(s, u)
           n == Len(s) + 1
<1>1. /\ t \in Seq(Units) /\ Len(t) = n /\ Len(s) \in Nat
      /\ \A i \in 1..Len(s) : t[i] = s[i]
      /\ t[n] = u
  BY AppendProperties, LenProperties
<1>2. DOMAIN t = 1..n /\ DOMAIN s = 1..Len(s)
  BY <1>1, LenProperties
<1> HIDE DEF t
<1>3. n \notin Ends(s)
  BY <1>1, <1>2 DEF Ends
<1>4. CASE u \in Valid
  <2>1. Ends(t) = Ends(s) \cup {n}
    BY <1>1, <1>2, <1>4 DEF Ends
  <2> HIDE DEF n
  <2> QED
    BY <1>3, <1>4, <2>1, CountFinite, FS_AddElement DEF t, Count
<1>5. CASE u \notin Valid
  <2>1. Ends(t) = Ends(s)
    BY <1>1, <1>2, <1>5 DEF Ends
  <2>2. Count(t) = Count(s) /\ Count(s) \in Nat
    BY <2>1, CountFinite DEF Count
  <2> QED
    BY <1>5, <2>2 DEF t
<1> QED
  BY <1>4, <1>5

\* recv() cuts the units in two; no request is lost or counted twice.
LEMMA CountCut ==
  ASSUME NEW s \in Seq(Units), NEW k \in 0..Len(s)
  PROVE  /\ SubSeq(s, 1, k) \in Seq(Units) /\ Len(SubSeq(s, 1, k)) = k
         /\ SubSeq(s, k + 1, Len(s)) \in Seq(Units)
         /\ Len(SubSeq(s, k + 1, Len(s))) = Len(s) - k
         /\ \A i \in 1..(Len(s) - k) : SubSeq(s, k + 1, Len(s))[i] = s[k + i]
         /\ \A i \in 1..k : SubSeq(s, 1, k)[i] = s[i]
         /\ Count(s) = Count(SubSeq(s, 1, k)) + Count(SubSeq(s, k + 1, Len(s)))
<1> DEFINE a == SubSeq(s, 1, k)
           b == SubSeq(s, k + 1, Len(s))
<1>0. Len(s) \in Nat
  BY LenProperties
<1>k. k \in Nat /\ k <= Len(s) /\ (k + 1 <= Len(s) \/ k = Len(s))
  BY <1>0
<1>1. /\ Len(s) \in Nat /\ k \in Nat /\ k <= Len(s) /\ DOMAIN s = 1..Len(s)
      /\ \A i \in 1..Len(s) : s[i] \in Units
  BY <1>0, LenProperties, ElementOfSeq
<1>2. a \in Seq(Units) /\ Len(a) = k /\ \A i \in 1..k : a[i] = s[i]
  BY <1>1, SubSeqProperties
<1>3. /\ b \in Seq(Units) /\ Len(b) = Len(s) - k
      /\ \A i \in 1..(Len(s) - k) : b[i] = s[k + i]
  <2>1. k + 1 \in Int /\ Len(s) \in Int /\ \A i \in (k + 1)..Len(s) : s[i] \in Units
    BY <1>1
  <2>2. /\ b \in Seq(Units) /\ Len(b) = IF k + 1 <= Len(s) THEN Len(s) - (k + 1) + 1 ELSE 0
        /\ \A i \in 1..(Len(s) - (k + 1) + 1) : b[i] = s[k + 1 + i - 1]
    BY <2>1, SubSeqProperties
  <2>3. \A i \in 1..(Len(s) - k) : i \in 1..(Len(s) - (k + 1) + 1) /\ k + 1 + i - 1 = k + i
    BY <1>1
  <2>4. \A i \in 1..(Len(s) - k) : b[i] = s[k + i]
    BY <2>2, <2>3, Zenon
  <2>5. Len(b) = Len(s) - k
    <3>1. CASE k + 1 <= Len(s)
      BY <1>1, <2>2, <3>1
    <3>2. CASE k = Len(s)
      <4>1. Len(s) - k = 0 /\ ~(k + 1 <= Len(s))
        BY <1>0, <3>2
      <4> QED
        BY <2>2, <4>1
    <3> QED
      BY <1>k, <3>1, <3>2
  <2> QED
    BY <2>2, <2>4, <2>5
<1>4. DOMAIN a = 1..k /\ DOMAIN b = 1..(Len(s) - k)
  BY <1>2, <1>3, LenProperties
<1> HIDE DEF a, b
<1> DEFINE T == {i \in (k + 1)..Len(s) : s[i] \in Valid}
<1>5. Ends(s) = Ends(a) \cup T /\ Ends(a) \cap T = {}
  BY <1>1, <1>2, <1>4 DEF Ends
<1>6. ExistsBijection(Ends(b), T)
  <2> DEFINE f == [i \in Ends(b) |-> k + i]
  <2>1. Ends(b) = {i \in 1..(Len(s) - k) : s[k + i] \in Valid}
    BY <1>1, <1>3, <1>4 DEF Ends
  <2>2. f \in [Ends(b) -> T]
    BY <1>1, <2>1
  <2>3. \A x, y \in Ends(b) : f[x] = f[y] => x = y
    BY <1>1, <2>1
  <2>4. \A y \in T : \E x \in Ends(b) : f[x] = y
    <3> TAKE y \in T
    <3>1. y - k \in Ends(b) /\ k + (y - k) = y
      BY <1>1, <2>1
    <3> QED
      BY <3>1
  <2> HIDE DEF f, T
  <2>5. f \in Bijection(Ends(b), T)
    BY <2>2, <2>3, <2>4, Fun_IsBij
  <2> QED
    BY <2>5 DEF ExistsBijection
<1> HIDE DEF T
<1>7. IsFiniteSet(T) /\ Cardinality(T) = Count(b)
  BY <1>3, <1>6, CountFinite, FS_Bijection DEF Count
<1>8. Count(s) = Count(a) + Count(b)
  <2>1. IsFiniteSet(Ends(a)) /\ Count(a) \in Nat /\ Count(b) \in Nat
    BY <1>2, <1>3, CountFinite
  <2>2. Cardinality(Ends(a) \cup T) = Cardinality(Ends(a)) + Cardinality(T) - 0
    BY <1>5, <1>7, <2>1, FS_Union, FS_EmptySet
  <2> QED
    BY <1>5, <1>7, <2>1, <2>2 DEF Count
<1> QED
  BY <1>2, <1>3, <1>8 DEF a, b

\* A set of positions has a first one.
LEMMA Least ==
  ASSUME NEW T \in SUBSET Nat, T # {}
  PROVE  \E i \in T : \A j \in T : i <= j
<1>1. PICK i \in T : \A j \in T : ~(<<j, i>> \in OpToRel(<, Nat))
  BY NatLessThanWellFounded, WFMin
<1>2. \A j \in T : ~(j < i)
  BY <1>1 DEF OpToRel
<1> QED
  BY <1>2

\* The parser consumes a chunk up to the first unit that ends a request.
LEMMA Stops ==
  ASSUME NEW s \in Seq(Units)
  PROVE  \/ StopsAt(s) = 0 /\ \A i \in DOMAIN s : s[i] = "part"
         \/ /\ StopsAt(s) \in DOMAIN s /\ StopsAt(s) # 0 /\ s[StopsAt(s)] # "part"
            /\ \A i \in DOMAIN s : i < StopsAt(s) => s[i] = "part"
<1> DEFINE ends == {i \in DOMAIN s : s[i] # "part"}
<1>1. DOMAIN s \subseteq Nat \ {0}
  BY LenProperties
<1>2. CASE ends = {}
  BY <1>2 DEF StopsAt
<1>3. CASE ends # {}
  <2>1. \E i \in ends : \A j \in ends : i <= j
    BY <1>1, <1>3, Least
  <2>2. StopsAt(s) = CHOOSE i \in ends : \A j \in ends : i <= j
    BY <1>3 DEF StopsAt
  <2>3. StopsAt(s) \in ends /\ \A j \in ends : StopsAt(s) <= j
    <3> HIDE DEF ends
    <3> QED
      BY <2>1, <2>2
  <2> QED
    BY <1>1, <2>3
<1> QED
  BY <1>2, <1>3

\* A chunk in which the parser finds a complete request holds that one and the
\* ones behind it.
LEMMA CountComplete ==
  ASSUME NEW s \in Seq(Units), RequestComplete(s)
  PROVE  Count(s) = Behind(s) + 1 /\ Behind(s) \in Nat
<1> DEFINE p == StopsAt(s)
           B == {i \in DOMAIN s : i > p /\ s[i] \in Valid}
<1>1. DOMAIN s \subseteq Nat
  BY LenProperties
<1>2. p \in DOMAIN s /\ s[p] \in Valid /\ \A i \in DOMAIN s : i < p => s[i] = "part"
  BY Stops DEF RequestComplete, Verdict, Valid
<1> HIDE DEF p
<1>3. Ends(s) = B \cup {p} /\ p \notin B /\ B \subseteq Ends(s)
  BY <1>1, <1>2 DEF Ends, Valid
<1>4. IsFiniteSet(B) /\ Cardinality(B) \in Nat
  BY <1>3, CountFinite, FS_Subset, FS_CardinalityType
<1> HIDE DEF B
<1>5. Cardinality(B \cup {p}) = Cardinality(B) + 1
  BY <1>3, <1>4, FS_AddElement
<1>6. Behind(s) = Cardinality(B)
  BY DEF Behind, B, p
<1> QED
  BY <1>3, <1>4, <1>5, <1>6 DEF Count

\* A sequence with a unit that completes a request counts one.
LEMMA CountSome ==
  ASSUME NEW s \in Seq(Units), NEW i \in DOMAIN s, s[i] \in Valid
  PROVE  Count(s) > 0
<1>1. i \in Ends(s)
  BY DEF Ends
<1>2. Count(s) # 0 /\ Count(s) \in Nat
  BY <1>1, CountFinite, FS_EmptySet DEF Count
<1> QED
  BY <1>2

\* A chunk that leaves the parser INCOMPLETE is within the limit and completes
\* no request.
LEMMA CountIncomplete ==
  ASSUME NEW s \in Seq(Units), ~RequestComplete(s), Verdict(s) # "bad"
  PROVE  Count(s) = 0 /\ ~TooLong(Len(s))
<1>1. StopsAt(s) = 0 /\ ~TooLong(Len(s)) /\ \A i \in DOMAIN s : s[i] = "part"
  <2>1. ASSUME StopsAt(s) \in DOMAIN s, StopsAt(s) # 0, s[StopsAt(s)] # "part" PROVE FALSE
    <3>1. Verdict(s) = s[StopsAt(s)] /\ s[StopsAt(s)] \in Units
      BY <2>1, ElementOfSeq, LenProperties DEF Verdict
    <3> QED
      BY <2>1, <3>1 DEF RequestComplete, Units, Valid
  <2>2. StopsAt(s) = 0 /\ \A i \in DOMAIN s : s[i] = "part"
    BY <2>1, Stops
  <2> QED
    BY <2>2 DEF Verdict
<1>2. Ends(s) = {}
  BY <1>1 DEF Ends, Valid
<1> QED
  BY <1>1, <1>2, FS_EmptySet DEF Count

-----------------------------------------------------------------------------
(* The inductive invariant                                                 *)

\* While the parser is in step, until an error response, every complete request that was sent and not
\* answered is unread, being answered, or was dropped by reset(); so it is when
\* the handler gives up for silence, and then none is unread.
Known == /\ ~astray
         /\ \/ pc \in {"loop", "read", "write"} /\ ~failed
            \/ pc = "closed" /\ why = "timeout"
Owed  == Known => owed = Count(rx) + dropped + Answering

\* How the variables of the handler's control depend on each other.
Control ==
    /\ dropped > 0 \/ astray => pipelined
    /\ owed > 1 => pipelined
    /\ pc \in {"read", "write"} => request_count < MaxRequests
    /\ pc \in {"loop", "read"} => ~failed
    /\ pc \in {"loop", "read", "write"} => why = "none"
    /\ pc = "closed" /\ why = "timeout" => rx = <<>>
    /\ pc = "closed" /\ why = "done" /\ keep_alive => request_count >= MaxRequests

\* What is behind a complete request has been pipelined.
InStep == pc \in {"loop", "read", "write"} /\ ~failed /\ ~astray
Order  == InStep => \A i, j \in DOMAIN rx : i < j /\ rx[i] \in Valid => pipelined

Inv == TypeOK /\ Control /\ Owed /\ Order

\* What the steps use of the types.
Numbers ==
    /\ rx \in Seq(Units) /\ Len(rx) \in Nat /\ Count(rx) \in Nat
    /\ tx \in Nat /\ owed \in Nat /\ owed <= MaxOwed /\ dropped \in Nat /\ fed \in Nat
    /\ off \in Nat /\ request_count \in Nat
    /\ MaxRequests \in Int /\ ParserLimit \in Nat /\ ReadTimeout \in Nat
    /\ WriteTimeout \in Nat /\ RespLen \in Nat /\ SndBuf \in Nat /\ RcvBuf \in Nat
    /\ MaxOwed \in Nat

LEMMA Facts == Inv => Numbers
BY HandlerAssumption, LenProperties, CountFinite DEF Inv, TypeOK, Numbers

-----------------------------------------------------------------------------
(* The steps                                                               *)

\* The client sends a unit.
LEMMA ClientSendStep ==
  ASSUME Inv, NEW u \in Units, ClientSend(u)
  PROVE  Inv'
<1>0. Numbers
  BY Facts
<1>1. /\ pc \notin {"closed", "killed"} /\ owed < MaxOwed /\ rx' = Append(rx, u)
      /\ owed' = IF u \in Valid THEN owed + 1 ELSE owed
      /\ pipelined' = (pipelined \/ owed > 0)
      /\ UNCHANGED <<tx, pc, fin, rst, fed, request_count, keep_alive, failed, off, astray, why, dropped>>
  BY DEF ClientSend, Connected, clientVars, handlerVars
<1>2. Count(rx') = Count(rx) + (IF u \in Valid THEN 1 ELSE 0) /\ rx' \in Seq(Units)
  BY <1>0, <1>1, CountAppend, AppendProperties DEF Numbers, Inv
<1>3. pipelined' \in BOOLEAN /\ (pipelined \/ owed > 0 => pipelined')
  BY <1>1, Zenon
<1>4. TypeOK'
  <2>1. owed' \in 0..MaxOwed
    BY <1>0, <1>1 DEF Numbers, Inv
  <2> QED
    BY <1>1, <1>2, <1>3, <2>1 DEF Inv, TypeOK
<1>5. Control'
  BY <1>0, <1>1, <1>3 DEF Numbers, Inv, Control, TypeOK
<1>6. Owed'
  BY <1>0, <1>1, <1>2 DEF Numbers, Inv, Owed, Known, Answering
<1>7. Order'
  <2> SUFFICES ASSUME InStep', NEW i \in DOMAIN rx', NEW j \in DOMAIN rx', i < j, rx'[i] \in Valid
               PROVE  pipelined'
    BY DEF Order
  <2>1. i \in DOMAIN rx /\ rx[i] = rx'[i] /\ InStep
    BY <1>0, <1>1, <1>2, AppendProperties, LenProperties DEF Numbers, Inv, InStep
  <2>2. Count(rx) > 0
    BY <1>0, <2>1, CountSome DEF Numbers
  <2>3. owed > 0
    BY <1>0, <2>1, <2>2 DEF Numbers, Inv, Owed, Known, InStep, Answering
  <2> QED
    BY <1>3, <2>3
<1> QED
  BY <1>4, <1>5, <1>6, <1>7 DEF Inv

\* The client closes, resets, or reads.
LEMMA ClientStep ==
  ASSUME Inv, ClientClose \/ ClientReset \/ ClientDrain
  PROVE  Inv'
<1>0. Numbers
  BY Facts
<1>1. /\ UNCHANGED <<rx, owed, pc, fed, request_count, keep_alive, failed, off, astray, why, pipelined, dropped>>
      /\ tx' \in 0..SndBuf
  <2>1. UNCHANGED <<rx, owed, pc, fed, request_count, keep_alive, failed, off, astray, why, pipelined, dropped>>
    BY DEF ClientClose, ClientReset, ClientDrain, clientVars, handlerVars, historyVars
  <2>2. tx' = tx \/ (tx > 0 /\ tx' = tx - 1)
    BY DEF ClientClose, ClientReset, ClientDrain
  <2>3. tx' \in 0..SndBuf
    BY <1>0, <2>2 DEF Numbers, Inv, TypeOK
  <2> QED
    BY <2>1, <2>3
<1>2. fin' \in BOOLEAN /\ rst' \in BOOLEAN
  BY Zenon DEF Inv, TypeOK, ClientClose, ClientReset, ClientDrain, clientVars
<1> QED
  BY <1>1, <1>2 DEF Inv, TypeOK, Control, Owed, Known, Answering, Order, InStep

\* The head of the loop over the requests.
LEMMA IterateStep ==
  ASSUME Inv, Iterate
  PROVE  Inv'
<1>0. Numbers
  BY Facts
<1>1. /\ pc = "loop" /\ UNCHANGED <<rx, tx, owed, request_count, failed, astray, fin, rst, pipelined, dropped>>
      /\ \/ /\ request_count < MaxRequests /\ fed' = 0 /\ keep_alive' = KeepAlive /\ off' = 0
            /\ pc' = "read" /\ why' = why
         \/ /\ request_count >= MaxRequests /\ pc' = "closed" /\ why' = "done"
            /\ UNCHANGED <<fed, keep_alive, off>>
  BY DEF Iterate, Return, clientVars, historyVars
<1>2. keep_alive' \in BOOLEAN
  BY <1>1, HandlerAssumption, Zenon DEF Inv, TypeOK
<1>3. fed' \in 0..ParserLimit /\ off' \in 0..RespLen
  BY <1>0, <1>1 DEF Numbers, Inv, TypeOK
<1>4. TypeOK'
  BY <1>1, <1>2, <1>3 DEF Inv, TypeOK
<1>5. Control'
  BY <1>0, <1>1 DEF Numbers, Inv, Control, TypeOK
<1>6. Owed' /\ Order'
  BY <1>1 DEF Inv, Owed, Known, Answering, Control, Order, InStep
<1> QED
  BY <1>4, <1>5, <1>6 DEF Inv

\* The handler returns before a response is complete, or the process ends.
LEMMA GiveUpStep ==
  ASSUME Inv, ReadEnds \/ ReadTimesOut \/ WriteTimesOut \/ WriteReset
  PROVE  Inv'
<1>1. /\ UNCHANGED <<rx, tx, fed, owed, request_count, keep_alive, failed, off, astray, fin, rst, pipelined, dropped>>
      /\ \/ pc \in {"read", "write"} /\ pc' = "closed" /\ why' \in {"peer", "write"}
         \/ pc = "read" /\ pc' = "closed" /\ why' = "timeout" /\ rx = <<>>
         \/ pc = "write" /\ pc' = "killed" /\ why' = why
  BY DEF ReadEnds, ReadTimesOut, WriteTimesOut, WriteReset, Return, clientVars, historyVars
<1>2. TypeOK'
  BY <1>1 DEF Inv, TypeOK
<1>3. Control'
  BY <1>1 DEF Inv, Control
<1>4. Owed' /\ Order'
  BY <1>1 DEF Inv, Owed, Known, Answering, Control, Order, InStep
<1> QED
  BY <1>2, <1>3, <1>4 DEF Inv

\* A chunk is read and parsed.
LEMMA ReadDataStep ==
  ASSUME Inv, NEW k \in Nat, ReadData(k)
  PROVE  Inv'
<1>0. Numbers
  BY Facts
<1> DEFINE given == SubSeq(rx, 1, k)
<1>1. /\ pc = "read" /\ k \in 0..Len(rx) /\ rx' = SubSeq(rx, k + 1, Len(rx))
      /\ UNCHANGED <<tx, owed, request_count, off, fin, rst, pipelined>>
  BY <1>0 DEF Numbers, ReadData, clientVars, Inv
<1>2. PICK chunk \in Seen(given) :
        \/ /\ RequestComplete(chunk) /\ UNCHANGED <<fed, failed>>
           /\ \/ pc' = "write" /\ why' = why
              \/ pc' = "closed" /\ why' = "threw"
           /\ dropped' = IF astray THEN dropped ELSE dropped + Behind(chunk)
           /\ astray' = (astray \/ Severed(chunk))
           /\ keep_alive' = (KeepAlive /\ ShouldKeepAlive(Verdict(chunk)))
        \/ /\ pc' = "write" /\ failed' = TRUE /\ keep_alive' = FALSE
           /\ UNCHANGED <<fed, astray, why, dropped>>
        \/ /\ ~RequestComplete(chunk) /\ Verdict(chunk) # "bad" /\ fed' = fed + k
           /\ UNCHANGED <<pc, keep_alive, failed, astray, why, dropped>>
  BY DEF ReadData
<1>3. /\ given \in Seq(Units) /\ Len(given) = k /\ rx' \in Seq(Units)
      /\ Count(rx) = Count(given) + Count(rx')
      /\ \A i \in 1..k : given[i] = rx[i]
  BY <1>0, <1>1, CountCut DEF Numbers, Inv
<1>4. Count(given) \in Nat /\ Count(rx') \in Nat
  BY <1>3, CountFinite
<1>5. chunk \in Seq(Units) /\ Len(chunk) = k /\ (~astray => chunk = given)
  <2>1. DOMAIN given = 1..k
    BY <1>3, LenProperties
  <2>2. CASE astray
    <3>1. chunk \in [1..k -> Units]
      BY <2>1, <2>2 DEF Seen
    <3>2. chunk \in Seq(Units) /\ DOMAIN chunk = 1..Len(chunk) /\ Len(chunk) \in Nat
      BY <3>1, SeqDef, LenProperties
    <3> QED
      BY <2>2, <3>1, <3>2
  <2>3. CASE ~astray
    BY <1>3, <2>3 DEF Seen
  <2> QED
    BY <2>2, <2>3
<1>6. Order'
  <2> SUFFICES ASSUME InStep', NEW i \in DOMAIN rx', NEW j \in DOMAIN rx', i < j, rx'[i] \in Valid
               PROVE  pipelined'
    BY DEF Order
  <2>1. ~astray /\ ~failed
    <3>1. astray \in BOOLEAN /\ failed \in BOOLEAN
      BY DEF Inv, TypeOK
    <3> QED
      BY <1>2, <3>1, Zenon DEF InStep
  <2>2. /\ Len(rx) \in Nat /\ DOMAIN rx = 1..Len(rx) /\ rx \in Seq(Units)
        /\ \A n \in 1..Len(rx) : rx[n] \in Units
    BY <1>0, LenProperties, ElementOfSeq DEF Numbers
  <2>3. Len(rx') = Len(rx) - k /\ \A n \in 1..(Len(rx) - k) : rx'[n] = rx[k + n]
    BY <1>0, <1>1, <2>2, CountCut
  <2>4. i \in 1..(Len(rx) - k) /\ j \in 1..(Len(rx) - k)
    BY <1>3, <2>3, LenProperties
  <2>5. k + i \in DOMAIN rx /\ k + j \in DOMAIN rx /\ k + i < k + j /\ rx[k + i] \in Valid
    <3>1. rx[k + i] \in Valid
      BY <2>3, <2>4, Zenon
    <3>2. k + i \in 1..Len(rx) /\ k + j \in 1..Len(rx) /\ k + i < k + j
      <4>1. k \in Nat /\ i \in Nat /\ j \in Nat /\ 1 <= i /\ 1 <= j /\ i <= Len(rx) - k /\ j <= Len(rx) - k
        BY <1>1, <2>2, <2>4
      <4> QED
        BY <2>2, <4>1
    <3> QED
      BY <2>2, <3>1, <3>2
  <2>6. InStep
    BY <1>1, <2>1 DEF InStep
  <2> QED
    BY <1>1, <2>5, <2>6 DEF Inv, Order
<1> HIDE DEF given
<1>7. /\ ~failed /\ why = "none" /\ request_count < MaxRequests
      /\ ~astray => owed = Count(rx) + dropped
  BY <1>0, <1>1 DEF Numbers, Inv, Control, Owed, Known, Answering
<1>8. CASE /\ RequestComplete(chunk) /\ UNCHANGED <<fed, failed>>
           /\ \/ pc' = "write" /\ why' = why
              \/ pc' = "closed" /\ why' = "threw"
           /\ dropped' = IF astray THEN dropped ELSE dropped + Behind(chunk)
           /\ astray' = (astray \/ Severed(chunk))
           /\ keep_alive' = (KeepAlive /\ ShouldKeepAlive(Verdict(chunk)))
  <2>1. keep_alive' \in BOOLEAN /\ astray' \in BOOLEAN
    BY <1>8, Zenon
  <2>2. ASSUME ~astray
        PROVE  /\ dropped' \in Nat /\ dropped' <= owed /\ owed = Count(rx') + dropped' + 1
               /\ (dropped' > dropped => owed > 1)
    <3>1. Count(chunk) = Behind(chunk) + 1 /\ Behind(chunk) \in Nat /\ chunk = given
      BY <1>5, <1>8, <2>2, CountComplete
    <3>2. dropped \in Nat /\ dropped' = dropped + Behind(chunk)
      BY <1>0, <1>8, <2>2 DEF Numbers
    <3>3. owed = Behind(chunk) + 1 + Count(rx') + dropped
      BY <1>3, <1>7, <2>2, <3>1
    <3> QED
      BY <1>4, <3>1, <3>2, <3>3
  <2>3. dropped' \in 0..MaxOwed /\ (dropped' > dropped => owed > 1)
    BY <1>0, <1>8, <2>2 DEF Numbers, Inv, TypeOK
  <2>4. ASSUME ~astray, Severed(chunk) PROVE pipelined
    <3>1. chunk = given
      BY <1>5, <2>4
    <3>2. /\ StopsAt(chunk) \in DOMAIN chunk /\ chunk[StopsAt(chunk)] \in Valid
          /\ DOMAIN chunk = 1..k
      BY <1>5, <1>8, Stops, LenProperties DEF RequestComplete, Verdict, Valid
    <3>3. k \in DOMAIN rx /\ StopsAt(chunk) \in DOMAIN rx /\ StopsAt(chunk) < k
          /\ rx[StopsAt(chunk)] \in Valid
      BY <1>0, <1>1, <1>3, <1>5, <2>4, <3>1, <3>2, LenProperties DEF Severed, Numbers
    <3>4. InStep
      BY <1>1, <1>7, <2>4 DEF InStep
    <3> QED
      BY <3>3, <3>4 DEF Inv, Order
  <2>5. TypeOK'
    BY <1>1, <1>3, <1>8, <2>1, <2>3 DEF Inv, TypeOK
  <2>6. dropped' > 0 \/ astray' => pipelined'
    <3>1. CASE dropped' > dropped
      BY <1>1, <2>3, <3>1 DEF Inv, Control
    <3>2. CASE dropped' = dropped
      BY <1>1, <1>8, <2>4, <3>2 DEF Inv, Control
    <3>3. dropped' > dropped \/ dropped' = dropped
      <4>1. ASSUME ~astray PROVE dropped' >= dropped
        <5>1. Behind(chunk) \in Nat
          BY <1>5, <1>8, CountComplete
        <5> QED
          BY <1>0, <1>8, <4>1, <5>1 DEF Numbers
      <4> QED
        BY <1>0, <1>8, <2>3, <4>1 DEF Numbers, Inv, TypeOK
    <3> QED
      BY <3>1, <3>2, <3>3
  <2>7. Control'
    BY <1>0, <1>1, <1>7, <1>8, <2>6 DEF Numbers, Inv, Control
  <2>8. Owed'
    BY <1>1, <1>7, <1>8, <2>2 DEF Owed, Known, Answering
  <2> QED
    BY <1>6, <2>5, <2>7, <2>8 DEF Inv
<1>9. CASE /\ pc' = "write" /\ failed' = TRUE /\ keep_alive' = FALSE
           /\ UNCHANGED <<fed, astray, why, dropped>>
  <2>1. keep_alive' \in BOOLEAN /\ failed' \in BOOLEAN /\ failed'
    BY <1>9, Zenon
  <2>2. TypeOK'
    BY <1>1, <1>3, <1>9, <2>1 DEF Inv, TypeOK
  <2>3. Control' /\ Owed'
    BY <1>1, <1>7, <1>9, <2>1 DEF Inv, Control, Owed, Known
  <2> QED
    BY <1>6, <2>2, <2>3 DEF Inv
<1>10. CASE /\ ~RequestComplete(chunk) /\ Verdict(chunk) # "bad" /\ fed' = fed + k
            /\ UNCHANGED <<pc, keep_alive, failed, astray, why, dropped>>
  <2>1. Count(chunk) = 0 /\ fed' \in 0..ParserLimit
    <3>1. Count(chunk) = 0 /\ ~(fed + k > ParserLimit)
      BY <1>5, <1>10, CountIncomplete DEF TooLong
    <3> QED
      BY <1>0, <1>10, <3>1 DEF Numbers, Inv
  <2>2. TypeOK'
    BY <1>1, <1>3, <1>10, <2>1 DEF Inv, TypeOK
  <2>3. Control'
    BY <1>1, <1>10 DEF Inv, Control
  <2>4. Owed'
    <3>1. ~astray => owed = Count(rx') + dropped
      BY <1>0, <1>3, <1>4, <1>5, <1>7, <2>1 DEF Numbers
    <3> QED
      BY <1>0, <1>1, <1>4, <1>10, <3>1 DEF Numbers, Owed, Known, Answering
  <2> QED
    BY <1>6, <2>2, <2>3, <2>4 DEF Inv
<1> QED
  BY <1>2, <1>8, <1>9, <1>10

\* A part of the response is sent.
LEMMA WriteDataStep ==
  ASSUME Inv, NEW k \in Nat, WriteData(k)
  PROVE  Inv'
<1>0. Numbers
  BY Facts
<1>1. /\ off + k <= RespLen /\ tx + k <= SndBuf /\ off' = off + k /\ tx' = tx + k
      /\ UNCHANGED <<rx, owed, pc, fed, request_count, keep_alive, failed, astray, why, fin, rst, pipelined, dropped>>
  BY DEF WriteData, clientVars, historyVars
<1>2. off' \in 0..RespLen /\ tx' \in 0..SndBuf
  BY <1>0, <1>1 DEF Numbers, Inv
<1> QED
  BY <1>1, <1>2 DEF Inv, TypeOK, Control, Owed, Known, Answering, Order, InStep

\* The response is written: in step, it was owed.
LEMMA WriteDoneStep ==
  ASSUME Inv, WriteDone
  PROVE  Inv'
<1>0. Numbers
  BY Facts
<1>1. /\ pc = "write"
      /\ UNCHANGED <<rx, tx, fed, keep_alive, failed, off, astray, fin, rst, pipelined, dropped>>
      /\ \/ failed /\ pc' = "closed" /\ why' = "error" /\ UNCHANGED <<owed, request_count>>
         \/ /\ ~failed /\ owed' = (IF owed > 0 THEN owed - 1 ELSE 0)
            /\ request_count' = request_count + 1
            /\ \/ keep_alive /\ pc' = "loop" /\ why' = why
               \/ ~keep_alive /\ pc' = "closed" /\ why' = "done"
  BY DEF WriteDone, Return, clientVars, historyVars
<1>2. Order'
  BY <1>1 DEF Inv, Order, InStep
<1>3. CASE failed
  <2>1. TypeOK'
    BY <1>1, <1>3 DEF Inv, TypeOK
  <2>2. Control' /\ Owed'
    BY <1>1, <1>3 DEF Inv, Control, Owed, Known
  <2> QED
    BY <1>2, <2>1, <2>2 DEF Inv
<1>4. CASE ~failed
  <2>1. /\ request_count < MaxRequests
        /\ ~astray => owed = Count(rx) + dropped + 1
    BY <1>1, <1>4 DEF Inv, Owed, Known, Answering, Control
  <2>2. /\ owed' \in 0..MaxOwed /\ (owed' > 1 => owed > 1)
        /\ ~astray => owed' = Count(rx) + dropped
        /\ request_count' \in Nat /\ request_count' <= MaxRequests
    BY <1>0, <1>1, <1>4, <2>1 DEF Numbers
  <2>3. TypeOK'
    BY <1>1, <1>4, <2>2 DEF Inv, TypeOK
  <2>4. Control'
    BY <1>0, <1>1, <1>4, <2>2 DEF Numbers, Inv, Control
  <2>5. Owed'
    BY <1>0, <1>1, <1>4, <2>2 DEF Numbers, Owed, Known, Answering
  <2> QED
    BY <1>2, <2>3, <2>4, <2>5 DEF Inv
<1> QED
  BY <1>3, <1>4

-----------------------------------------------------------------------------
(* The theorems                                                            *)

\* Inv is an inductive invariant of the handler.
THEOREM Inductive == Spec => []Inv
<1>1. Init => Inv
  <2> SUFFICES ASSUME Init PROVE Inv
    OBVIOUS
  <2>1. <<>> \in Seq(Units) /\ Ends(<<>>) = {}
    BY EmptySeq, LenProperties DEF Ends
  <2>2. Count(<<>>) = 0
    BY <2>1, FS_EmptySet DEF Count
  <2>3. /\ fin \in BOOLEAN /\ rst \in BOOLEAN /\ keep_alive \in BOOLEAN /\ failed \in BOOLEAN
        /\ pipelined \in BOOLEAN /\ ~failed /\ astray \in BOOLEAN /\ ~astray
    BY HandlerAssumption, Zenon DEF Init
  <2>4. TypeOK
    BY <2>1, <2>3, HandlerAssumption DEF Init, TypeOK
  <2>5. Control /\ Owed /\ Order
    BY <2>1, <2>2, <2>3, LenProperties DEF Init, Control, Owed, Known, Answering, Order
  <2> QED
    BY <2>4, <2>5 DEF Inv
<1>2. Inv /\ [Next]_vars => Inv'
  <2> SUFFICES ASSUME Inv, [Next]_vars PROVE Inv'
    OBVIOUS
  <2>1. CASE Handler
    <3>1. \A k \in 1..RcvBuf : k \in Nat
      BY HandlerAssumption
    <3>2. \A k \in 1..RespLen : k \in Nat
      BY HandlerAssumption
    <3> QED
      BY <2>1, <3>1, <3>2, IterateStep, GiveUpStep, ReadDataStep, WriteDataStep, WriteDoneStep
      DEF Handler
  <2>2. CASE Client
    BY <2>2, ClientSendStep, ClientStep DEF Client
  <2>3. CASE UNCHANGED vars
    BY <2>3 DEF vars, clientVars, handlerVars, historyVars, Inv, TypeOK, Control, Owed, Known, Answering,
       Order, InStep
  <2> QED
    BY <2>1, <2>2, <2>3 DEF Next
<1> QED
  BY <1>1, <1>2, PTL DEF Spec

\* Every variable of handle_connection keeps its type: the parser holds no more
\* than its limit and no connection is served more than MaxRequests requests (none if that is not
\* positive).
THEOREM TypeCorrect == Spec => []TypeOK
<1>1. Inv => TypeOK
  BY DEF Inv
<1> QED
  BY <1>1, Inductive, PTL

\* A connection that read_some's timeout ends owes exactly the complete requests
\* that reset() dropped, as long as reset() has not cut one in two; either takes
\* a client that pipelines.  A kept-alive connection whose handler returns after
\* a response has come to the request limit.
THEOREM FairGivingUp == Spec => []GivesUpFairly
<1>1. Inv => GivesUpFairly
  <2> SUFFICES ASSUME Inv PROVE GivesUpFairly
    OBVIOUS
  <2>1. ASSUME pc = "closed", why = "timeout", ~astray PROVE owed = dropped
    <3>1. Ends(<<>>) = {}
      BY EmptySeq, LenProperties DEF Ends
    <3>2. Count(rx) = 0
      BY <2>1, <3>1, FS_EmptySet DEF Inv, Control, Count
    <3> QED
      BY <2>1, <3>2, Facts DEF Inv, Owed, Known, Answering, Numbers
  <2> QED
    BY <2>1 DEF Inv, Control, GivesUpFairly
<1> QED
  BY <1>1, Inductive, PTL
=============================================================================
