-------------------------- MODULE HttpParserProofs --------------------------
(***************************************************************************)
(* Proofs, for any limits and any streams, that the parser keeps its       *)
(* types, that an unfinished request occupies no more than the limits      *)
(* allow, and that feed()'s verdict is the meaning of all it was given.    *)
(* A parser that is done ignores what follows, so its verdict has to be    *)
(* one that nothing that follows could change (FinalError, FinalRequest).  *)
(*                                                                         *)
(* The last one needs the meaning of a text put together from two: the     *)
(* lines erased from buffer_ and the rest of it.  No line end lies across  *)
(* the join, so the lines of the whole are those of the two parts          *)
(* (LinesJoined), what was read keeps its meaning whatever follows         *)
(* (HeadKept, SameHeaders), and one more line adds one header, one mistake *)
(* or the end of the headers (LineAdded, BadLine, HeadersEnd).             *)
(***************************************************************************)
EXTENDS HttpParser, FiniteSetTheorems, SequenceTheorems, WellFoundedInduction, TLAPS

-----------------------------------------------------------------------------
(* Facts about text                                                        *)

\* erase(0, n) leaves a sequence of units.
LEMMA FromType ==
  ASSUME NEW s \in Seq(Units), NEW i \in Nat \ {0}
  PROVE  From(s, i) \in Seq(Units)
<1>1. \A j \in i..Len(s) : s[j] \in Units
  BY ElementOfSeq
<1> QED
  BY <1>1, SubSeqProperties DEF From

\* A chunk of the stream is a sequence of units, no longer than asked for.
LEMMA ChunkType ==
  ASSUME NEW s \in Seq(Units), NEW n \in Nat, NEW k \in Nat, n + k <= Len(s)
  PROVE  SubSeq(s, n + 1, n + k) \in Seq(Units)
<1>1. \A j \in (n + 1)..(n + k) : s[j] \in Units
  BY ElementOfSeq
<1> QED
  BY <1>1, SubSeqProperties

\* A part of a text is text.
LEMMA PartType ==
  ASSUME NEW s \in Seq(Units), NEW m \in Nat \ {0}, NEW n \in Int, n <= Len(s)
  PROVE  SubSeq(s, m, n) \in Seq(Units)
<1>1. \A j \in m..n : s[j] \in Units
  <2>1. \A j \in m..n : j \in 1..Len(s)
    BY LenProperties
  <2> QED
    BY <2>1, ElementOfSeq
<1> QED
  BY <1>1, SubSeqProperties

\* Numbers that are not none have a least one.
LEMMA FirstOne ==
  ASSUME NEW S \in SUBSET Nat, S # {}
  PROVE  \E i \in S : IsFirst(i, S)
<1>1. PICK i \in S : \A j \in S : ~(<<j, i>> \in OpToRel(<, Nat))
  BY NatLessThanWellFounded, WFMin
<1>2. ASSUME NEW j \in S PROVE i <= j
  <2>1. i \in Nat /\ j \in Nat /\ ~(j < i)
    BY <1>1 DEF OpToRel
  <2> QED
    BY <2>1
<1> QED
  BY <1>2 DEF IsFirst

\* The first element of a set of numbers is its least.
LEMMA MinIs ==
  ASSUME NEW S \in SUBSET Int, NEW i, IsFirst(i, S)
  PROVE  MinOf(S) = i /\ i \in S
<1>1. i \in S /\ \A j \in S : i <= j
  BY DEF IsFirst
<1>2. MinOf(S) \in S /\ \A j \in S : MinOf(S) <= j
  <2> DEFINE P(k) == k \in S /\ \A j \in S : k <= j
  <2>1. P(i)
    BY <1>1
  <2>2. MinOf(S) = CHOOSE k \in S : \A j \in S : k <= j
    BY DEF MinOf
  <2> QED
    BY <2>1, <2>2
<1>3. MinOf(S) <= i /\ i <= MinOf(S) /\ MinOf(S) \in Int /\ i \in Int
  BY <1>1, <1>2
<1> QED
  BY <1>1, <1>3

\* The last element of a set of numbers is its greatest.
LEMMA MaxIs ==
  ASSUME NEW S \in SUBSET Int, NEW i \in S, \A j \in S : j <= i
  PROVE  MaxOf(S) = i
<1>1. MaxOf(S) \in S /\ \A j \in S : MaxOf(S) >= j
  <2>1. i \in S /\ \A j \in S : i >= j
    OBVIOUS
  <2>2. MaxOf(S) = CHOOSE k \in S : \A j \in S : k >= j
    BY DEF MaxOf
  <2> QED
    BY <2>1, <2>2
<1>2. MaxOf(S) >= i /\ MaxOf(S) <= i /\ MaxOf(S) \in Int /\ i \in Int
  BY <1>1
<1> QED
  BY <1>2

\* Places of a text that are not none have a last one.
LEMMA LastOne ==
  ASSUME NEW n \in Nat, NEW S \in SUBSET (1..n), S # {}
  PROVE  MaxOf(S) \in S /\ \A j \in S : j <= MaxOf(S)
<1> DEFINE T == {k \in Nat : n - k \in S}
<1>1. T # {} /\ T \subseteq Nat
  <2>1. PICK j \in S : TRUE
    OBVIOUS
  <2>2. n - j \in Nat /\ n - (n - j) = j
    OBVIOUS
  <2> QED
    BY <2>1, <2>2
<1>2. PICK k \in T : \A j \in T : ~(<<j, k>> \in OpToRel(<, Nat))
  BY <1>1, NatLessThanWellFounded, WFMin
<1>3. ASSUME NEW j \in S PROVE j <= n - k
  <2>1. n - j \in T
    BY DEF T
  <2>2. ~(n - j < k)
    BY <1>2, <2>1 DEF OpToRel
  <2> QED
    BY <2>2
<1>4. MaxOf(S) = n - k
  <2>1. n - k \in S
    BY <1>2 DEF T
  <2>2. S \in SUBSET Int
    OBVIOUS
  <2> QED
    BY <2>1, <2>2, <1>3, MaxIs
<1> QED
  BY <1>2, <1>3, <1>4

\* Names and values of headers are text.
LEMMA HeaderType ==
  ASSUME NEW line \in Seq(Units), NEW c \in At(line, COLON)
  PROVE  /\ ToLower(SubSeq(line, 1, c - 1)) \in Seq(Units)
         /\ Trim(From(line, c + 1)) \in Seq(Units)
<1>1. c \in 1..Len(line) /\ Len(line) \in Nat
  BY LenProperties DEF At
<1> DEFINE name == SubSeq(line, 1, c - 1)
           value == From(line, c + 1)
<1>2. name \in Seq(Units)
  <2>1. c - 1 \in Int /\ c - 1 <= Len(line) /\ 1 \in Nat \ {0}
    BY <1>1
  <2> QED
    BY <2>1, PartType
<1>3. value \in Seq(Units)
  BY <1>1, FromType
<1> HIDE DEF name, value
<1>4. ToLower(name) \in Seq(Units)
  <2>1. Len(name) \in Nat /\ \A i \in 1..Len(name) : name[i] \in Units
    BY <1>2, LenProperties, ElementOfSeq
  <2>2. "content-length" \in Units
    BY MessageAssumption
  <2>3. ToLower(name) \in [1..Len(name) -> Units]
    BY <2>1, <2>2 DEF ToLower
  <2> QED
    BY <2>1, <2>3, SeqDef
<1>5. Trim(value) \in Seq(Units)
  <2> DEFINE text == {i \in 1..Len(value) : value[i] \notin {SP, CR, LF}}
  <2>1. CASE text = {}
    <3>1. Trim(value) = <<>>
      BY <2>1 DEF Trim
    <3> QED
      BY <3>1
  <2>2. CASE text # {}
    <3>1. Len(value) \in Nat /\ text \in SUBSET (1..Len(value)) /\ text \in SUBSET Nat
          /\ text \in SUBSET Int
      BY <1>3, LenProperties
    <3>2. Trim(value) = SubSeq(value, MinOf(text), MaxOf(text))
      BY <2>2 DEF Trim
    <3> HIDE DEF text
    <3>3. PICK i \in text : IsFirst(i, text)
      BY <2>2, <3>1, FirstOne
    <3>4. MinOf(text) = i
      BY <3>1, <3>3, MinIs
    <3>5. MaxOf(text) \in text
      BY <2>2, <3>1, LastOne
    <3>6. i \in Nat \ {0} /\ MaxOf(text) \in Int /\ MaxOf(text) <= Len(value)
      <4>1. i \in 1..Len(value) /\ MaxOf(text) \in 1..Len(value)
        BY <3>1, <3>5
      <4> QED
        BY <3>1, <4>1
    <3>7. SubSeq(value, i, MaxOf(text)) \in Seq(Units)
      BY <1>3, <3>6, PartType
    <3> QED
      BY <3>2, <3>4, <3>7
  <2> QED
    BY <2>1, <2>2
<1> QED
  BY <1>4, <1>5 DEF name, value

\* The checks of the request line yield status codes.
LEMMA RequestLineErrorType ==
  ASSUME NEW r PROVE RequestLineError(r) \in Codes
BY DEF RequestLineError, Codes

-----------------------------------------------------------------------------
\* A parser that is not inside feed() stays within MAX_REQUEST_LINE,
\* MAX_TOTAL_HEADERS or MAX_BODY_SIZE, and every step keeps the types: the
\* conjunction is inductive, as feed() only returns INCOMPLETE from the three
\* places that have just compared the sizes.
IInv == TypeOK /\ MemoryBounded

\* The requests and the history keep their types, whatever the step: they are
\* parts of the text, but for the lower-case name.
Held == IsRequest(request) /\ IsRequest(given) /\ cut \in BOOLEAN

LEMMA EmptyRequestType == IsRequest(EmptyRequest)
<1>1. <<>> \in Seq(Units)
  OBVIOUS
<1>2. DOMAIN EmptyRequest.headers = {}
  BY DEF EmptyRequest
<1> QED
  BY <1>1, <1>2 DEF IsRequest, EmptyRequest

LEMMA RequestLineHeld == ASSUME IInv, RequestLine PROVE IsRequest(request')
<1>1. PICK e, m, t :
        LET line  == SubSeq(buffer, 1, e - 1)
            parts == Split(line, m, t)
        IN  /\ IsFirst(e, LineEnds(buffer))
            /\ e - 1 <= MAX_REQUEST_LINE
            /\ IsFirst(m, At(line, SP)) /\ IsFirst(t, At(line, SP) \ {m})
            /\ request' = [request EXCEPT !.method = parts.method,
                                          !.target = parts.target,
                                          !.version = parts.version]
            /\ IF RequestLineError(parts) # "OK"
               THEN Fail(RequestLineError(parts))
               ELSE /\ buffer' = From(buffer, e + 2)
                    /\ state' = "HEADERS"
                    /\ UNCHANGED <<error_code, headers_size, header_count,
                                   pc, clientVars>>
  BY DEF RequestLine
<1> DEFINE line == SubSeq(buffer, 1, e - 1)
           parts == Split(line, m, t)
<1>2. buffer \in Seq(Units) /\ IsRequest(request) /\ e \in LineEnds(buffer)
  BY <1>1 DEF IInv, TypeOK, IsFirst
<1>3. line \in Seq(Units)
  <2>1. e - 1 \in Int /\ e - 1 <= Len(buffer) /\ 1 \in Nat \ {0}
    BY <1>2, LenProperties DEF LineEnds
  <2> QED
    BY <1>2, <2>1, PartType
<1>4. m \in At(line, SP) /\ t \in At(line, SP)
  BY <1>1 DEF IsFirst
<1>5. request' = [request EXCEPT !.method = parts.method, !.target = parts.target,
                                 !.version = parts.version]
  BY <1>1
<1> HIDE DEF line
<1>6. m \in 1..Len(line) /\ t \in 1..Len(line) /\ Len(line) \in Nat
  BY <1>3, <1>4, LenProperties DEF At
<1>7. /\ SubSeq(line, 1, m - 1) \in Seq(Units)
      /\ SubSeq(line, m + 1, t - 1) \in Seq(Units)
      /\ From(line, t + 1) \in Seq(Units)
  <2>1. /\ m - 1 \in Int /\ m - 1 <= Len(line) /\ 1 \in Nat \ {0} /\ m + 1 \in Nat \ {0}
        /\ t - 1 \in Int /\ t - 1 <= Len(line) /\ t + 1 \in Nat \ {0}
    BY <1>6
  <2> QED
    BY <1>3, <2>1, PartType, FromType
<1>8. /\ parts.method \in Seq(Units) /\ parts.target \in Seq(Units)
      /\ parts.version \in Seq(Units)
  BY <1>7 DEF Split
<1> HIDE DEF parts
<1>9. /\ request'.method = parts.method \/ request'.method = request.method
      /\ request'.target = parts.target \/ request'.target = request.target
      /\ request'.version = parts.version \/ request'.version = request.version
      /\ request'.headers = request.headers /\ request'.body = request.body
  BY <1>5
<1> QED
  BY <1>2, <1>8, <1>9 DEF IsRequest

LEMMA HeaderLineHeld == ASSUME IInv, HeaderLine PROVE IsRequest(request')
<1>1. PICK e, c :
        LET line  == SubSeq(buffer, 1, e - 1)
            name  == ToLower(SubSeq(line, 1, c - 1))
            value == Trim(From(line, c + 1))
        IN  /\ IsFirst(e, LineEnds(buffer)) /\ e # 1
            /\ ~HeaderTooLarge(e) /\ ~HeaderMalformed(line)
            /\ IsFirst(c, At(line, COLON))
            /\ request' = [request EXCEPT !.headers =
                  [n \in DOMAIN request.headers \cup {name} |->
                      IF n = name THEN value ELSE request.headers[n]]]
            /\ headers_size' = headers_size + (e + 1)
            /\ header_count' = header_count + 1
            /\ buffer' = From(buffer, e + 2)
  BY DEF HeaderLine
<1> DEFINE line == SubSeq(buffer, 1, e - 1)
           name == ToLower(SubSeq(line, 1, c - 1))
           value == Trim(From(line, c + 1))
           map == [n \in DOMAIN request.headers \cup {name} |->
                      IF n = name THEN value ELSE request.headers[n]]
<1>2. buffer \in Seq(Units) /\ IsRequest(request) /\ e \in LineEnds(buffer)
  BY <1>1 DEF IInv, TypeOK, IsFirst
<1>3. line \in Seq(Units)
  <2>1. e - 1 \in Int /\ e - 1 <= Len(buffer) /\ 1 \in Nat \ {0}
    BY <1>2, LenProperties DEF LineEnds
  <2> QED
    BY <1>2, <2>1, PartType
<1>4. c \in At(line, COLON) /\ request' = [request EXCEPT !.headers = map]
  BY <1>1 DEF IsFirst
<1> HIDE DEF line
<1>5. name \in Seq(Units) /\ value \in Seq(Units)
  BY <1>3, <1>4, HeaderType
<1> HIDE DEF name, value
<1>6. \A n \in DOMAIN map : n \in Seq(Units) /\ map[n] \in Seq(Units)
  BY <1>2, <1>5 DEF IsRequest
<1> HIDE DEF map
<1>7. /\ request'.method = request.method /\ request'.target = request.target
      /\ request'.version = request.version /\ request'.body = request.body
      /\ request'.headers = map \/ request'.headers = request.headers
  BY <1>4
<1> QED
  BY <1>2, <1>6, <1>7 DEF IsRequest

LEMMA BodyHeld == ASSUME IInv, Body PROVE IsRequest(request')
<1> DEFINE n == content_length(request)
           body == SubSeq(buffer, 1, n)
<1>1. request' = [request EXCEPT !.body = body]
  BY DEF Body
<1>2. body \in Seq(Units)
  <2>1. n \in Int /\ n <= Len(buffer) /\ 1 \in Nat \ {0} /\ buffer \in Seq(Units)
    <3>1. n \in Nat
      BY MessageAssumption DEF content_length
    <3> HIDE DEF n
    <3>2. Len(buffer) >= n /\ buffer \in Seq(Units)
      BY DEF Body, IInv, TypeOK, n
    <3> QED
      BY <3>1, <3>2, LenProperties
  <2> HIDE DEF n
  <2> QED
    BY <2>1, PartType
<1> HIDE DEF body
<1>3. /\ request'.method = request.method /\ request'.target = request.target
      /\ request'.version = request.version /\ request'.headers = request.headers
      /\ request'.body = body \/ request'.body = request.body
  BY <1>1
<1> QED
  BY <1>2, <1>3 DEF IsRequest, IInv, TypeOK

LEMMA HeldKept == ASSUME IInv, [Next]_vars PROVE Held'
<1>1. IsRequest(request) /\ IsRequest(given) /\ cut \in BOOLEAN
  BY DEF IInv, TypeOK
<1>2. IsRequest(request')
  <2>1. CASE RequestLine
    BY <2>1, RequestLineHeld
  <2>2. CASE HeaderLine
    BY <2>2, HeaderLineHeld
  <2>3. CASE Body
    BY <2>3, BodyHeld
  <2>4. CASE GetRequest \/ Reset
    BY <2>4, EmptyRequestType DEF GetRequest, Reset
  <2>5. CASE UNCHANGED request
    BY <1>1, <2>5
  <2>6. \/ RequestLine \/ HeaderLine \/ Body \/ GetRequest \/ Reset \/ UNCHANGED request
    BY DEF Next, Parse, Feed, RequestLineMissing, RequestLineRefused, HeadersMissing,
           EndOfHeaders, HeaderLineRefused, BodyRefused, BodyMissing, NeedsMore,
           parserVars, vars
  <2> QED
    BY <2>1, <2>2, <2>3, <2>4, <2>5, <2>6
<1>3. CASE \E k \in 1..Len(stream) : Feed(k)
  <2>1. given' = given
    BY <1>3 DEF Feed
  <2>2. cut' \in BOOLEAN
    <3>1. PICK k : cut' = (cut \/ CutAtLimit(fed'))
      BY <1>3 DEF Feed
    <3> QED
      BY <3>1
  <2> QED
    BY <1>1, <1>2, <2>1, <2>2 DEF Held
<1>4. CASE GetRequest
  BY <1>1, <1>2, <1>4 DEF GetRequest, Held
<1>5. CASE Reset
  BY <1>2, <1>5, EmptyRequestType DEF Reset, NoRequest, Held
<1>6. CASE UNCHANGED <<given, cut>>
  BY <1>1, <1>2, <1>6 DEF Held
<1>7. Parse => UNCHANGED <<given, cut>>
  BY DEF Parse, RequestLineMissing, RequestLineRefused, RequestLine, HeadersMissing,
         EndOfHeaders, HeaderLineRefused, HeaderLine, BodyRefused, BodyMissing, Body,
         NeedsMore, Fail, clientVars
<1>8. UNCHANGED vars => UNCHANGED <<given, cut>>
  BY DEF vars, clientVars
<1> QED
  BY <1>3, <1>4, <1>5, <1>6, <1>7, <1>8 DEF Next

\* Steps of feed()'s loop that end in ERROR satisfy the bound vacuously.
LEMMA FailStep ==
  ASSUME IInv, Held', NEW code \in Codes, Fail(code)
  PROVE  IInv'
BY DEF IInv, Held, TypeOK, MemoryBounded, Fail, States, clientVars

\* The entry of feed() only appends a chunk of the stream.
LEMMA FeedStep ==
  ASSUME IInv, Held', NEW k \in 1..Len(stream), Feed(k)
  PROVE  IInv'
<1> USE DEF IInv, Feed
<1>1. stream \in Seq(Units) /\ sent \in Nat /\ k \in Nat /\ sent + k <= Len(stream)
  BY StreamAssumption DEF TypeOK
<1>2. SubSeq(stream, sent + 1, sent + k) \in Seq(Units)
  BY <1>1, ChunkType
<1>3. sent' \in 0..Len(stream)
  BY <1>1, LenProperties
<1>4. buffer' \in Seq(Units) /\ fed' \in Seq(Units)
  <2>1. PICK data \in Seq(Units) : /\ fed' = fed \o data
                                   /\ buffer' = buffer \/ buffer' = buffer \o data
    BY <1>2
  <2>2. buffer \in Seq(Units) /\ fed \in Seq(Units)
    BY DEF TypeOK
  <2>3. buffer \o data \in Seq(Units) /\ fed \o data \in Seq(Units)
    BY <2>2, ConcatProperties
  <2> QED
    BY <2>1, <2>2, <2>3
<1>5. TypeOK'
  BY <1>3, <1>4 DEF TypeOK, Held
<1>6. MemoryBounded'
  BY DEF MemoryBounded
<1> QED
  BY <1>5, <1>6

\* parse_request_line() keeps the invariant.
LEMMA RequestLineStep ==
  ASSUME IInv, Held', RequestLineMissing \/ RequestLineRefused \/ RequestLine
  PROVE  IInv'
<1>1. CASE RequestLineMissing
  <2>1. CASE Len(buffer) > MAX_REQUEST_LINE
    BY <1>1, <2>1, FailStep DEF RequestLineMissing, Codes
  <2>2. CASE ~(Len(buffer) > MAX_REQUEST_LINE)
    <3>1. /\ NeedsMore /\ state = "REQUEST_LINE"
          /\ Len(buffer) \in Nat /\ Len(buffer) <= MAX_REQUEST_LINE
      BY <1>1, <2>2, MessageAssumption DEF RequestLineMissing, IInv, Held, TypeOK
    <3> QED
      BY <3>1 DEF NeedsMore, IInv, Held, TypeOK, MemoryBounded, parserVars, clientVars
  <2> QED
    BY <2>1, <2>2
<1>2. CASE RequestLineRefused
  BY <1>2, FailStep DEF RequestLineRefused, Codes
<1>3. CASE RequestLine
  <2>1. PICK e \in LineEnds(buffer), code \in Codes :
            \/ Fail(code)
            \/ /\ buffer' = From(buffer, e + 2) /\ state' = "HEADERS"
               /\ UNCHANGED <<error_code, headers_size, header_count, pc, clientVars>>
    BY <1>3, RequestLineErrorType DEF RequestLine
  <2>2. CASE Fail(code)
    BY <2>2, FailStep
  <2>3. CASE /\ buffer' = From(buffer, e + 2) /\ state' = "HEADERS"
             /\ UNCHANGED <<error_code, headers_size, header_count, pc, clientVars>>
    <3>1. buffer' \in Seq(Units)
      BY <2>3, FromType DEF LineEnds, IInv, Held, TypeOK
    <3>2. pc = "parse"
      BY <1>3 DEF RequestLine
    <3> QED
      BY <2>3, <3>1, <3>2 DEF IInv, Held, TypeOK, MemoryBounded, States, clientVars
  <2> QED
    BY <2>1, <2>2, <2>3
<1> QED
  BY <1>1, <1>2, <1>3

\* parse_headers() keeps the invariant.
LEMMA HeadersStep ==
  ASSUME IInv, Held', HeadersMissing \/ EndOfHeaders \/ HeaderLineRefused \/ HeaderLine
  PROVE  IInv'
<1>1. CASE HeadersMissing
  <2>1. CASE headers_size + Len(buffer) > MAX_TOTAL_HEADERS
    BY <1>1, <2>1, FailStep DEF HeadersMissing, Codes
  <2>2. CASE ~(headers_size + Len(buffer) > MAX_TOTAL_HEADERS)
    <3>1. /\ NeedsMore /\ state = "HEADERS"
          /\ headers_size + Len(buffer) <= MAX_TOTAL_HEADERS
      BY <1>1, <2>2, MessageAssumption DEF HeadersMissing, IInv, Held, TypeOK
    <3> QED
      BY <3>1 DEF NeedsMore, IInv, Held, TypeOK, MemoryBounded, parserVars, clientVars
  <2> QED
    BY <2>1, <2>2
<1>2. CASE EndOfHeaders
  <2>1. buffer' \in Seq(Units)
    BY <1>2, FromType DEF EndOfHeaders, IInv, Held, TypeOK
  <2> QED
    BY <1>2, <2>1 DEF EndOfHeaders, IInv, Held, TypeOK, MemoryBounded, States, clientVars
<1>3. CASE HeaderLineRefused
  <2>1. PICK e \in LineEnds(buffer) :
           headers_size' \in {headers_size, headers_size + e + 1}
    BY <1>3 DEF HeaderLineRefused
  <2>2. headers_size' \in Nat
    BY <2>1 DEF LineEnds, IInv, Held, TypeOK
  <2>3. state' = "ERROR" /\ error_code' \in Codes
    BY <1>3 DEF HeaderLineRefused, Codes
  <2> QED
    BY <1>3, <2>2, <2>3
       DEF HeaderLineRefused, IInv, Held, TypeOK, MemoryBounded, States, clientVars
<1>4. CASE HeaderLine
  <2>1. PICK e \in LineEnds(buffer) :
           /\ headers_size' = headers_size + (e + 1)
           /\ header_count' = header_count + 1
           /\ buffer' = From(buffer, e + 2)
    BY <1>4 DEF HeaderLine
  <2>2. headers_size' \in Nat /\ header_count' \in Nat /\ buffer' \in Seq(Units)
    BY <2>1, FromType DEF LineEnds, IInv, Held, TypeOK
  <2> QED
    BY <1>4, <2>2 DEF HeaderLine, IInv, Held, TypeOK, MemoryBounded, clientVars
<1> QED
  BY <1>1, <1>2, <1>3, <1>4

\* parse_body() keeps the invariant: it waits only for a body whose length
\* has been compared with MAX_BODY_SIZE.
LEMMA BodyStep ==
  ASSUME IInv, Held', BodyRefused \/ BodyMissing \/ Body
  PROVE  IInv'
<1>1. CASE BodyRefused
  BY <1>1, FailStep DEF BodyRefused, Codes
<1>2. CASE BodyMissing
  BY <1>2 DEF BodyMissing, BodyAccepted, NeedsMore, IInv, Held, TypeOK, MemoryBounded,
              parserVars, clientVars
<1>3. CASE Body
  <2>1. content_length(request) \in Nat
    BY MessageAssumption DEF content_length
  <2>2. buffer' \in Seq(Units)
    BY <1>3, <2>1, FromType DEF Body, IInv, Held, TypeOK
  <2> QED
    BY <1>3, <2>2 DEF Body, IInv, Held, TypeOK, MemoryBounded, States, clientVars
<1> QED
  BY <1>1, <1>2, <1>3

\* A new parser has the types and the bound.
LEMMA InitHolds == ASSUME Init PROVE IInv
<1>1. IsRequest(request) /\ IsRequest(given)
  BY EmptyRequestType DEF Init, NoRequest
<1>2. /\ buffer = <<>> /\ fed = <<>> /\ state = "REQUEST_LINE" /\ error_code = "OK"
      /\ headers_size = 0 /\ header_count = 0 /\ pc = "idle" /\ cut = FALSE
      /\ stream \in Streams /\ sent = 0
  BY DEF Init
<1>3. stream \in Seq(Units) /\ <<>> \in Seq(Units) /\ Len(<<>>) = 0
  BY <1>2, StreamAssumption
<1>4. sent \in 0..Len(stream)
  BY <1>2, <1>3, LenProperties
<1>5. TypeOK
  BY <1>1, <1>2, <1>3, <1>4 DEF TypeOK, States, Codes
<1>6. MemoryBounded
  BY <1>2, <1>3, MessageAssumption DEF MemoryBounded
<1> QED
  BY <1>5, <1>6 DEF IInv

\* Every step keeps the types and the bound.
LEMMA IInvKept == ASSUME IInv, [Next]_vars PROVE IInv'
<1>0. Held'
  BY HeldKept
<1>1. CASE UNCHANGED vars
  BY <1>1 DEF IInv, TypeOK, MemoryBounded, vars, parserVars, clientVars
<1>2. CASE \E k \in 1..Len(stream) : Feed(k)
  BY <1>0, <1>2, FeedStep
<1>3. CASE Parse
  BY <1>0, <1>3, RequestLineStep, HeadersStep, BodyStep DEF Parse
<1>4. CASE GetRequest
  BY <1>0, <1>4 DEF GetRequest, Held, IInv, TypeOK, MemoryBounded
<1>5. CASE Reset
  BY <1>0, <1>5, MessageAssumption
     DEF Reset, Held, IInv, TypeOK, MemoryBounded, States, Codes
<1> QED
  BY <1>1, <1>2, <1>3, <1>4, <1>5 DEF Next

\* The parser keeps its types, and a parser waiting for more data holds at
\* most MAX_REQUEST_LINE, MAX_TOTAL_HEADERS or MAX_BODY_SIZE bytes of it.
THEOREM BoundedMemory == Spec => [](TypeOK /\ MemoryBounded)
<1>1. Init => IInv
  BY InitHolds
<1>2. IInv /\ [Next]_vars => IInv'
  BY IInvKept
<1> QED
  BY <1>1, <1>2, PTL DEF Spec, IInv

\* Every member of the parser keeps its type.
THEOREM TypeCorrect == Spec => []TypeOK
BY BoundedMemory, PTL

-----------------------------------------------------------------------------
(* The parser's bookkeeping                                                *)

\* Method, target and version of the request line of s.
Parts(s) ==
    LET line == SubSeq(s, 1, RequestLineEnd(s) - 1)
        m    == MinOf(At(line, SP))
    IN  Split(line, m, MinOf(At(line, SP) \ {m}))

\* The request that s means, without its body.
HeadOf(s) == [method |-> Parts(s).method, target |-> Parts(s).target,
              version |-> Parts(s).version, headers |-> HeaderMap(s), body |-> <<>>]

\* Whole lines, the first of them a correct request line, without a mistake.
Correct(s) ==
    /\ s # <<>> /\ s[Len(s)] = LF
    /\ IsFirst(RequestLineEnd(s), LineEnds(s))
    /\ RequestLineCode(s) = "OK"
    /\ BadHeaders(s) = {}

\* What was erased from buffer_: the rest of it is still there.
Read == SubSeq(fed, 1, Len(fed) - Len(buffer))

\* While a request is being read, request_ and the counters are what the lines
\* read so far mean, and these are correct; a parser that is done looks at
\* nothing.
AtRequestLine == state = "REQUEST_LINE" =>
    /\ buffer = fed /\ request = EmptyRequest
    /\ headers_size = 0 /\ header_count = 0
AtHeaders == state = "HEADERS" =>
    /\ fed = Read \o buffer
    /\ Correct(Read) /\ EmptyLines(Read) = {} /\ Len(Read) - 1 \in LineEnds(Read)
    /\ request = HeadOf(Read)
    /\ headers_size = Len(Read) - RequestLineEnd(Read) - 1
    /\ header_count = Cardinality(HeaderEnds(Read))
AtBody == state = "BODY" =>
    /\ fed = Read \o buffer
    /\ Correct(Read) /\ EmptyLines(Read) = {Len(Read) - 1}
    /\ request = HeadOf(Read)
Control ==
    /\ pc = "parse" => state \in {"REQUEST_LINE", "HEADERS", "BODY"}
    /\ state # "COMPLETE" => given = NoRequest
    /\ state # "ERROR" => error_code = "OK"
    /\ state = "COMPLETE" => pc = "idle"

\* Whatever follows s, code is its first mistake; whatever follows, it holds r.
FinalError(s, code) == \A t \in Seq(Units) : ErrorIn(s \o t) = code
FinalRequest(s, r) ==
    \A t \in Seq(Units) : HoldsRequest(s \o t) = TRUE /\ Meaning(s \o t) = r

\* A parser that is done has said what stays true of every longer text, for it
\* ignores what follows; one that is not has seen no mistake and no request.
Verdict ==
    /\ state = "ERROR" /\ ~cut => error_code # "OK" /\ FinalError(fed, error_code)
    /\ state = "COMPLETE" =>
          ~cut /\ FinalRequest(fed, IF given = NoRequest THEN request ELSE given)
    /\ pc = "idle" /\ state \notin {"ERROR", "COMPLETE"} =>
          ErrorIn(fed) = "OK" /\ ~HoldsRequest(fed)
CutSeen ==
    /\ pc = "parse" => cut = CutAtLimit(fed)
    /\ pc = "idle" /\ cut =>
          state = "ERROR" /\ error_code \in {"URITooLong", "HeaderFieldsTooLarge"}

Bookkeeping == AtRequestLine /\ AtHeaders /\ AtBody /\ Control /\ Verdict /\ CutSeen

Inv == IInv /\ Bookkeeping

-----------------------------------------------------------------------------
(* Where lines end                                                         *)

\* What is at a place of a text that was put together from two.
LEMMA Joined ==
  ASSUME NEW u \in Seq(Units), NEW b \in Seq(Units)
  PROVE  /\ u \o b \in Seq(Units) /\ Len(u \o b) = Len(u) + Len(b)
         /\ \A i \in 1..Len(u) : (u \o b)[i] = u[i]
         /\ \A i \in 1..Len(b) : (u \o b)[Len(u) + i] = b[i]
         /\ Len(u) \in Nat /\ Len(b) \in Nat
<1>1. Len(u) \in Nat /\ Len(b) \in Nat
  BY LenProperties
<1>2. /\ u \o b \in Seq(Units) /\ Len(u \o b) = Len(u) + Len(b)
      /\ \A i \in 1 .. Len(u) + Len(b) : (u \o b)[i] =
             IF i <= Len(u) THEN u[i] ELSE b[i - Len(u)]
  BY ConcatProperties
<1>3. ASSUME NEW i \in 1..Len(b) PROVE (u \o b)[Len(u) + i] = b[i]
  <2>1. Len(u) + i \in 1 .. Len(u) + Len(b) /\ ~(Len(u) + i <= Len(u))
        /\ Len(u) + i - Len(u) = i
    BY <1>1
  <2> QED
    BY <2>1, <1>2
<1> QED
  BY <1>1, <1>2, <1>3

\* The lines of a text that begins with whole lines are those of its two parts:
\* no line end lies across the join.
LEMMA LinesJoined ==
  ASSUME NEW u \in Seq(Units), NEW b \in Seq(Units), u # <<>>, u[Len(u)] = LF
  PROVE  /\ LineEnds(u) \subseteq LineEnds(u \o b)
         /\ \A e \in LineEnds(b) : Len(u) + e \in LineEnds(u \o b)
         /\ \A i \in LineEnds(u \o b) : \/ i < Len(u) /\ i \in LineEnds(u)
                                        \/ i > Len(u) /\ i - Len(u) \in LineEnds(b)
<1> DEFINE s == u \o b
<1>1. /\ s \in Seq(Units) /\ Len(s) = Len(u) + Len(b)
      /\ \A i \in 1..Len(u) : s[i] = u[i]
      /\ \A i \in 1..Len(b) : s[Len(u) + i] = b[i]
      /\ Len(u) \in Nat /\ Len(b) \in Nat
  BY Joined
<1> HIDE DEF s
<1>2. ASSUME NEW i \in 1..(Len(u) - 1)
      PROVE  i \in LineEnds(s) <=> i \in LineEnds(u)
  <2>1. i \in 1..Len(u) /\ i + 1 \in 1..Len(u) /\ i \in 1..(Len(s) - 1)
    BY <1>1
  <2>2. s[i] = u[i] /\ s[i + 1] = u[i + 1]
    BY <1>1, <2>1
  <2> QED
    BY <2>1, <2>2 DEF LineEnds
<1>3. ASSUME NEW e \in LineEnds(b) PROVE Len(u) + e \in LineEnds(s)
  <2>1. e \in 1..Len(b) /\ e + 1 \in 1..Len(b) /\ b[e] = CR /\ b[e + 1] = LF
    BY <1>1 DEF LineEnds
  <2>2. s[Len(u) + e] = CR /\ s[Len(u) + (e + 1)] = LF
    BY <1>1, <2>1
  <2>3. Len(u) + (e + 1) = Len(u) + e + 1 /\ Len(u) + e \in 1..(Len(s) - 1)
    BY <1>1, <2>1
  <2> QED
    BY <2>2, <2>3 DEF LineEnds
<1>4. ASSUME NEW i \in LineEnds(s)
      PROVE  \/ i < Len(u) /\ i \in LineEnds(u)
             \/ i > Len(u) /\ i - Len(u) \in LineEnds(b)
  <2>1. i \in 1..(Len(s) - 1) /\ s[i] = CR /\ s[i + 1] = LF
    BY DEF LineEnds
  <2>2. CASE i < Len(u)
    <3>1. i \in 1..(Len(u) - 1)
      BY <1>1, <2>1, <2>2
    <3> QED
      BY <3>1, <1>2, <2>2
  <2>3. CASE i = Len(u)
    <3>1. s[i] = u[Len(u)]
      BY <1>1, <2>1, <2>3
    <3> QED
      BY <3>1, <2>1 DEF CR, LF
  <2>4. CASE i > Len(u)
    <3>1. i - Len(u) \in 1..Len(b) /\ i - Len(u) + 1 \in 1..Len(b)
          /\ Len(u) + (i - Len(u)) = i /\ Len(u) + (i - Len(u) + 1) = i + 1
      BY <1>1, <2>1, <2>4
    <3>2. b[i - Len(u)] = CR /\ b[i - Len(u) + 1] = LF
      BY <1>1, <2>1, <3>1
    <3> QED
      BY <3>1, <3>2, <2>4, <1>1 DEF LineEnds
  <2> QED
    BY <1>1, <2>1, <2>2, <2>3, <2>4
<1>5. LineEnds(u) \subseteq LineEnds(s)
  <2>1. LineEnds(u) \subseteq 1..(Len(u) - 1)
    BY DEF LineEnds
  <2> QED
    BY <2>1, <1>2
<1> QED
  BY <1>3, <1>4, <1>5 DEF s

\* The line ends of a text stay where they are when it grows, and the next one
\* is at its last place at the earliest, where a CR must be.
LEMMA LinesKept ==
  ASSUME NEW s \in Seq(Units), NEW t \in Seq(Units)
  PROVE  /\ LineEnds(s) \subseteq LineEnds(s \o t)
         /\ \A i \in LineEnds(s \o t) : \/ i < Len(s) /\ i \in LineEnds(s)
                                        \/ i = Len(s) /\ s # <<>> /\ s[Len(s)] = CR
                                        \/ i > Len(s)
<1> DEFINE w == s \o t
<1>1. /\ w \in Seq(Units) /\ Len(w) = Len(s) + Len(t)
      /\ \A i \in 1..Len(s) : w[i] = s[i]
      /\ Len(s) \in Nat /\ Len(t) \in Nat
  BY Joined
<1> HIDE DEF w
<1>2. ASSUME NEW i \in 1..(Len(s) - 1)
      PROVE  i \in LineEnds(w) <=> i \in LineEnds(s)
  <2>1. i \in 1..Len(s) /\ i + 1 \in 1..Len(s) /\ i \in 1..(Len(w) - 1)
    BY <1>1
  <2>2. w[i] = s[i] /\ w[i + 1] = s[i + 1]
    BY <1>1, <2>1
  <2> QED
    BY <2>1, <2>2 DEF LineEnds
<1>3. LineEnds(s) \subseteq LineEnds(w)
  <2>1. LineEnds(s) \subseteq 1..(Len(s) - 1)
    BY DEF LineEnds
  <2> QED
    BY <2>1, <1>2
<1>4. ASSUME NEW i \in LineEnds(w)
      PROVE  \/ i < Len(s) /\ i \in LineEnds(s)
             \/ i = Len(s) /\ s # <<>> /\ s[Len(s)] = CR
             \/ i > Len(s)
  <2>1. i \in 1..(Len(w) - 1) /\ w[i] = CR /\ i \in Int /\ 1 <= i
    BY <1>1 DEF LineEnds
  <2>2. CASE i < Len(s)
    <3>1. i \in 1..(Len(s) - 1)
      BY <1>1, <2>1, <2>2
    <3> QED
      BY <3>1, <1>2, <2>2
  <2>3. CASE i = Len(s)
    <3>1. s[i] = w[i] /\ Len(s) # 0
      BY <1>1, <2>1, <2>3
    <3>2. s # <<>>
      BY <3>1, EmptySeq
    <3> QED
      BY <3>1, <3>2, <2>1, <2>3
  <2> QED
    BY <1>1, <2>1, <2>2, <2>3
<1> QED
  BY <1>3, <1>4 DEF w

\* Three parts of a text can be put together in either order.
LEMMA JoinedThrice ==
  ASSUME NEW x \in Seq(Units), NEW y \in Seq(Units), NEW z \in Seq(Units)
  PROVE  (x \o y) \o z = x \o (y \o z)
BY ConcatAssociative

\* A part of a text that ends in its first part.
LEMMA PartOfFirst ==
  ASSUME NEW u \in Seq(Units), NEW b \in Seq(Units),
         NEW m \in Int, NEW n \in Int, 1 <= m, n <= Len(u)
  PROVE  SubSeq(u \o b, m, n) = SubSeq(u, m, n)
<1>1. Len(u) \in Nat
  BY LenProperties
<1>2. CASE n < m
  BY <1>2, SubSeqEmpty
<1>3. CASE m <= n
  BY <1>1, <1>3, SubSeqOfConcat1
<1> QED
  BY <1>2, <1>3

\* A part of a text that begins in its second part.
LEMMA PartOfSecond ==
  ASSUME NEW u \in Seq(Units), NEW b \in Seq(Units),
         NEW m \in Nat \ {0}, NEW n \in Nat, n <= Len(b)
  PROVE  SubSeq(u \o b, Len(u) + m, Len(u) + n) = SubSeq(b, m, n)
<1>1. Len(u) \in Nat /\ Len(b) \in Nat
  BY LenProperties
<1>2. CASE n < m
  BY <1>1, <1>2, SubSeqEmpty
<1>3. CASE m <= n
  <2>1. Len(u) + m \in Len(u) + 1 .. Len(u) + Len(b)
        /\ Len(u) + n \in Len(u) + 1 .. Len(u) + Len(b)
        /\ Len(u) + m - Len(u) = m /\ Len(u) + n - Len(u) = n
    BY <1>1, <1>3
  <2> QED
    BY <2>1, SubSeqOfConcat2
<1> QED
  BY <1>2, <1>3

\* The first line of a text stays what it is when the text grows.
LEMMA FirstKept ==
  ASSUME NEW s \in Seq(Units), NEW t \in Seq(Units), NEW e, IsFirst(e, LineEnds(s))
  PROVE  /\ IsFirst(e, LineEnds(s \o t))
         /\ SubSeq(s \o t, 1, e - 1) = SubSeq(s, 1, e - 1)
<1>1. Len(s) \in Nat /\ e \in LineEnds(s) /\ \A j \in LineEnds(s) : e <= j
  BY LenProperties DEF IsFirst
<1>2. e \in 1..(Len(s) - 1)
  BY <1>1 DEF LineEnds
<1>3. /\ LineEnds(s) \subseteq LineEnds(s \o t)
      /\ \A i \in LineEnds(s \o t) : i \in LineEnds(s) \/ i = Len(s) \/ i > Len(s)
  BY LinesKept
<1>4. ASSUME NEW i \in LineEnds(s \o t) PROVE e <= i
  <2>1. i \in Int
    BY DEF LineEnds
  <2> QED
    BY <1>1, <1>2, <1>3, <2>1
<1>5. IsFirst(e, LineEnds(s \o t))
  BY <1>1, <1>3, <1>4 DEF IsFirst
<1>6. SubSeq(s \o t, 1, e - 1) = SubSeq(s, 1, e - 1)
  <2>1. e - 1 \in Int /\ e - 1 <= Len(s) /\ 1 \in Int
    BY <1>1, <1>2
  <2> QED
    BY <2>1, PartOfFirst
<1> QED
  BY <1>5, <1>6

\* A line end is a place in the text.
LEMMA LineEndsType ==
  ASSUME NEW s \in Seq(Units)
  PROVE  /\ LineEnds(s) \subseteq 1..(Len(s) - 1) /\ LineEnds(s) \subseteq Int
         /\ HeaderEnds(s) \subseteq LineEnds(s) /\ EmptyLines(s) \subseteq LineEnds(s)
         /\ IsFiniteSet(LineEnds(s)) /\ IsFiniteSet(HeaderEnds(s))
         /\ Len(s) \in Nat
<1>1. Len(s) \in Nat
  BY LenProperties
<1>2. LineEnds(s) \subseteq 1..(Len(s) - 1)
  BY DEF LineEnds
<1>3. HeaderEnds(s) \subseteq LineEnds(s) /\ EmptyLines(s) \subseteq LineEnds(s)
  BY DEF HeaderEnds, EmptyLines
<1>4. IsFiniteSet(1..(Len(s) - 1))
  BY <1>1, FS_Interval
<1>5. IsFiniteSet(LineEnds(s))
  BY <1>2, <1>4, FS_Subset
<1>6. IsFiniteSet(HeaderEnds(s))
  BY <1>3, <1>5, FS_Subset
<1> QED
  BY <1>1, <1>2, <1>3, <1>5, <1>6

\* Names and values of header lines come from the last line end before them.
LEMMA PreviousEnd ==
  ASSUME NEW s \in Seq(Units), NEW e \in Int, NEW f \in LineEnds(s), f < e
  PROVE  LET g == MaxOf({h \in LineEnds(s) : h < e})
         IN  g \in LineEnds(s) /\ g < e /\ \A h \in LineEnds(s) : h < e => h <= g
<1> DEFINE S == {h \in LineEnds(s) : h < e}
<1>1. S \in SUBSET (1..Len(s)) /\ S # {} /\ Len(s) \in Nat
  BY LineEndsType
<1>2. MaxOf(S) \in S /\ \A j \in S : j <= MaxOf(S)
  BY <1>1, LastOne
<1> QED
  BY <1>2

\* What follows whole lines, the request line among them, changes nothing about
\* these: neither the request line nor which of them are headers, nor what these
\* say and whether they are too large.
LEMMA HeadKept ==
  ASSUME NEW u \in Seq(Units), NEW b \in Seq(Units), u # <<>>, u[Len(u)] = LF,
         IsFirst(RequestLineEnd(u), LineEnds(u))
  PROVE  /\ IsFirst(RequestLineEnd(u), LineEnds(u \o b))
         /\ RequestLineEnd(u \o b) = RequestLineEnd(u)
         /\ RequestLineCode(u \o b) = RequestLineCode(u)
         /\ Parts(u \o b) = Parts(u)
         /\ \A i \in 1..Len(u) : i \in EmptyLines(u \o b) <=> i \in EmptyLines(u)
         /\ \A i \in 1..Len(u) : i \in HeaderEnds(u \o b) <=> i \in HeaderEnds(u)
         /\ \A e \in HeaderEnds(u) : /\ HeaderText(u \o b, e) = HeaderText(u, e)
                                     /\ OverLimit(u \o b, e) <=> OverLimit(u, e)
<1> DEFINE s == u \o b
           R == RequestLineEnd(u)
<1>1. s \in Seq(Units) /\ Len(s) = Len(u) + Len(b) /\ Len(u) \in Nat /\ Len(b) \in Nat
  BY Joined
<1>2. /\ LineEnds(u) \subseteq LineEnds(s)
      /\ \A i \in LineEnds(s) : \/ i < Len(u) /\ i \in LineEnds(u)
                                \/ i > Len(u)
  BY LinesJoined
<1>3. LineEnds(u) \subseteq 1..(Len(u) - 1) /\ LineEnds(s) \subseteq Int
      /\ EmptyLines(s) \subseteq LineEnds(s) /\ HeaderEnds(u) \subseteq LineEnds(u)
  BY <1>1, LineEndsType
<1>4. R \in LineEnds(u) /\ \A j \in LineEnds(u) : R <= j
  BY DEF IsFirst
<1>5. ASSUME NEW i \in 1..Len(u) PROVE i \in LineEnds(s) <=> i \in LineEnds(u)
  BY <1>1, <1>2
<1>6. IsFirst(R, LineEnds(s))
  BY <1>1, <1>2, <1>3, <1>4 DEF IsFirst
<1>7. RequestLineEnd(s) = R
  BY <1>3, <1>6, MinIs DEF RequestLineEnd
<1>8. SubSeq(s, 1, R - 1) = SubSeq(u, 1, R - 1)
  <2>1. R - 1 \in Int /\ R - 1 <= Len(u)
    BY <1>1, <1>3, <1>4
  <2> QED
    BY <2>1, PartOfFirst
<1>9. RequestLineCode(s) = RequestLineCode(u) /\ Parts(s) = Parts(u)
  <2>1. LineEnds(s) # {} /\ LineEnds(u) # {}
    BY <1>2, <1>4
  <2>2. RequestLineCode(s) = RequestLineCode(u)
    BY <1>7, <1>8, <2>1 DEF RequestLineCode
  <2> QED
    BY <1>7, <1>8, <2>2 DEF Parts
<1>10. ASSUME NEW i \in 1..Len(u) PROVE i \in EmptyLines(s) <=> i \in EmptyLines(u)
  <2>1. i - 2 \in LineEnds(s) <=> i - 2 \in LineEnds(u)
    <3>1. CASE i - 2 \in 1..Len(u)
      BY <3>1, <1>5
    <3>2. CASE i - 2 \notin 1..Len(u)
      <4>1. i - 2 < 1
        BY <1>1, <3>2
      <4>2. LineEnds(s) \subseteq 1..(Len(s) - 1)
        BY <1>1, LineEndsType
      <4> QED
        BY <4>1, <4>2, <1>3, <1>1
    <3> QED
      BY <3>1, <3>2
  <2> QED
    BY <2>1, <1>5 DEF EmptyLines
<1>11. ASSUME NEW i \in 1..Len(u) PROVE i \in HeaderEnds(s) <=> i \in HeaderEnds(u)
  <2>1. ASSUME NEW x \in EmptyLines(s) PROVE x > Len(u) \/ x \in EmptyLines(u)
    <3>1. x \in LineEnds(s)
      BY <1>3
    <3>2. CASE x > Len(u)
      BY <3>2
    <3>3. CASE x < Len(u) /\ x \in LineEnds(u)
      <4>1. x \in 1..Len(u)
        BY <3>3, <1>1, <1>3
      <4> QED
        BY <4>1, <1>10
    <3> QED
      BY <3>1, <3>2, <3>3, <1>2
  <2>2. EmptyLines(u) \subseteq EmptyLines(s)
    <3>1. EmptyLines(u) \subseteq 1..Len(u)
      BY <1>1, <1>3 DEF EmptyLines
    <3> QED
      BY <3>1, <1>10
  <2>3. EmptyLines(s) \subseteq Int
    BY <1>3
  <2>4. (\A x \in EmptyLines(s) : i < x) <=> (\A x \in EmptyLines(u) : i < x)
    BY <2>1, <2>2, <2>3, <1>1
  <2> QED
    BY <2>4, <1>5, <1>7 DEF HeaderEnds
<1>12. ASSUME NEW e \in HeaderEnds(u) PROVE HeaderText(s, e) = HeaderText(u, e)
  <2>1. e \in LineEnds(u) /\ e \in Int /\ e <= Len(u) /\ R < e
    BY <1>1, <1>3 DEF HeaderEnds
  <2>2. {h \in LineEnds(s) : h < e} = {h \in LineEnds(u) : h < e}
    BY <2>1, <1>2, <1>1, <1>3
  <2>3. LET g == MaxOf({h \in LineEnds(u) : h < e}) IN g \in LineEnds(u)
    BY <2>1, <1>4, PreviousEnd
  <2> DEFINE g == MaxOf({h \in LineEnds(u) : h < e})
  <2>4. g + 2 \in Int /\ 1 <= g + 2 /\ e - 1 \in Int /\ e - 1 <= Len(u)
    BY <2>1, <2>3, <1>1, <1>3
  <2>5. SubSeq(s, g + 2, e - 1) = SubSeq(u, g + 2, e - 1)
    <3> HIDE DEF g
    <3> QED
      BY <2>4, PartOfFirst
  <2> QED
    BY <2>2, <2>5 DEF HeaderText
<1>13. ASSUME NEW e \in HeaderEnds(u) PROVE OverLimit(s, e) <=> OverLimit(u, e)
  <2>1. e \in 1..Len(u)
    BY <1>1, <1>3
  <2>2. ASSUME NEW f \in HeaderEnds(s), f <= e PROVE f \in 1..Len(u)
    <3>1. f \in LineEnds(s) /\ f \in 1..(Len(s) - 1)
      BY <1>1, LineEndsType
    <3> QED
      BY <3>1, <2>1, <2>2, <1>1
  <2>3. ASSUME NEW f \in HeaderEnds(u) PROVE f \in 1..Len(u)
    BY <1>1, <1>3
  <2>4. {f \in HeaderEnds(s) : f <= e} = {f \in HeaderEnds(u) : f <= e}
    BY <2>2, <2>3, <1>11
  <2> QED
    BY <2>4, <1>7, <1>12 DEF OverLimit
<1> QED
  BY <1>6, <1>7, <1>9, <1>10, <1>11, <1>12, <1>13

-----------------------------------------------------------------------------
(* What text after whole, correct lines adds                               *)

\* Text that adds no header line and no mistake leaves the headers as they are.
LEMMA SameHeaders ==
  ASSUME NEW u \in Seq(Units), NEW b \in Seq(Units), Correct(u),
         \A e \in HeaderEnds(u \o b) : e <= Len(u)
  PROVE  /\ HeaderEnds(u \o b) = HeaderEnds(u) /\ BadHeaders(u \o b) = {}
         /\ HeadOf(u \o b) = HeadOf(u)
<1> DEFINE s == u \o b
<1>1. s \in Seq(Units) /\ Len(u) \in Nat
  BY Joined
<1>2. /\ Parts(s) = Parts(u)
      /\ \A i \in 1..Len(u) : i \in HeaderEnds(s) <=> i \in HeaderEnds(u)
      /\ \A e \in HeaderEnds(u) : /\ HeaderText(s, e) = HeaderText(u, e)
                                  /\ OverLimit(s, e) <=> OverLimit(u, e)
  BY HeadKept DEF Correct
<1>3. HeaderEnds(s) \subseteq 1..Len(u)
  <2>1. HeaderEnds(s) \subseteq 1..(Len(s) - 1) /\ Len(s) \in Nat
    BY <1>1, LineEndsType
  <2> QED
    BY <2>1, <1>1
<1>4. HeaderEnds(u) \subseteq 1..Len(u)
  <2>1. HeaderEnds(u) \subseteq 1..(Len(u) - 1)
    BY LineEndsType
  <2> QED
    BY <2>1, <1>1
<1>5. HeaderEnds(s) = HeaderEnds(u)
  BY <1>2, <1>3, <1>4
<1>6. BadHeaders(s) = {}
  <2>1. \A e \in HeaderEnds(u) : ~(OverLimit(u, e) \/ HeaderMalformed(HeaderText(u, e)))
    BY DEF Correct, BadHeaders
  <2> QED
    BY <2>1, <1>2, <1>5 DEF BadHeaders
<1> DEFINE N(t, e) == HeaderName(HeaderText(t, e))
           D(t) == {N(t, e) : e \in HeaderEnds(t)}
           L(t, n) == MaxOf({e \in HeaderEnds(t) : N(t, e) = n})
<1>7. \A e \in HeaderEnds(u) : N(s, e) = N(u, e)
  BY <1>2
<1>8. D(s) = D(u) /\ \A n \in D(u) : L(s, n) = L(u, n)
  <2>1. \A n : {e \in HeaderEnds(s) : N(s, e) = n} = {e \in HeaderEnds(u) : N(u, e) = n}
    BY <1>5, <1>7
  <2>2. \A n : L(s, n) = L(u, n)
    BY <2>1
  <2>3. D(s) = D(u)
    BY <1>5, <1>7
  <2> QED
    BY <2>2, <2>3
<1>9. ASSUME NEW n \in D(u)
      PROVE  HeaderValue(HeaderText(s, L(s, n))) = HeaderValue(HeaderText(u, L(u, n)))
  <2> DEFINE S == {e \in HeaderEnds(u) : N(u, e) = n}
  <2>1. S # {} /\ S \in SUBSET (1..Len(u))
    BY <1>4
  <2>2. MaxOf(S) \in S
    BY <2>1, <1>1, LastOne
  <2>3. L(u, n) \in HeaderEnds(u)
    BY <2>2
  <2>4. HeaderText(s, L(u, n)) = HeaderText(u, L(u, n))
    BY <2>3, <1>2
  <2>5. L(s, n) = L(u, n)
    BY <1>8
  <2> QED
    BY <2>4, <2>5
<1>10. HeaderMap(s) = HeaderMap(u)
  <2>1. /\ HeaderMap(s) = [n \in D(s) |-> HeaderValue(HeaderText(s, L(s, n)))]
        /\ HeaderMap(u) = [n \in D(u) |-> HeaderValue(HeaderText(u, L(u, n)))]
    BY DEF HeaderMap
  <2> HIDE DEF D, L
  <2> QED
    BY <2>1, <1>8, <1>9
<1>11. HeadOf(s) = HeadOf(u)
  BY <1>2, <1>10 DEF HeadOf
<1> QED
  BY <1>5, <1>6, <1>11

\* Text without a line end ends no header.
LEMMA NoLine ==
  ASSUME NEW u \in Seq(Units), NEW b \in Seq(Units), Correct(u),
         EmptyLines(u) = {}, LineEnds(b) = {}
  PROVE  /\ EmptyLines(u \o b) = {} /\ BadHeaders(u \o b) = {}
         /\ LineEnds(u \o b) = LineEnds(u)
<1> DEFINE s == u \o b
<1>1. s \in Seq(Units) /\ Len(u) \in Nat
  BY Joined
<1>2. LineEnds(s) = LineEnds(u)
  <2>1. /\ LineEnds(u) \subseteq LineEnds(s)
        /\ \A i \in LineEnds(s) : i \in LineEnds(u) \/ i - Len(u) \in LineEnds(b)
    BY LinesJoined DEF Correct
  <2> QED
    BY <2>1
<1>3. EmptyLines(s) = {}
  BY <1>2 DEF EmptyLines
<1>4. HeaderEnds(s) \subseteq 1..(Len(u) - 1)
  BY <1>1, <1>2, LineEndsType
<1>5. \A e \in HeaderEnds(s) : e <= Len(u)
  BY <1>1, <1>4
<1> QED
  BY <1>2, <1>3, <1>5, SameHeaders

\* The next line of headers: what buffer_ holds up to its first line end. It is
\* the last header line, or the empty one.
LEMMA NextLine ==
  ASSUME NEW u \in Seq(Units), NEW b \in Seq(Units), NEW e, Correct(u),
         EmptyLines(u) = {}, Len(u) - 1 \in LineEnds(u), IsFirst(e, LineEnds(b))
  PROVE  LET s == u \o b
             q == Len(u) + e
         IN  /\ q \in LineEnds(s) /\ e \in Nat \ {0} /\ e + 1 <= Len(b) /\ q \in Nat
             /\ \A i \in LineEnds(s) : i < q <=> i \in LineEnds(u)
             /\ HeaderText(s, q) = SubSeq(b, 1, e - 1)
             /\ e = 1 => /\ q \in EmptyLines(s) /\ \A x \in EmptyLines(s) : q <= x
             /\ e # 1 => /\ \A x \in EmptyLines(s) : q < x
                         /\ {f \in HeaderEnds(s) : f <= q} = HeaderEnds(u) \cup {q}
                         /\ q \in HeaderEnds(s) /\ q \notin HeaderEnds(u)
<1> DEFINE s == u \o b
           q == Len(u) + e
<1>1. /\ s \in Seq(Units) /\ Len(s) = Len(u) + Len(b) /\ Len(u) \in Nat /\ Len(b) \in Nat
      /\ \A i \in 1..Len(u) : s[i] = u[i]
      /\ \A i \in 1..Len(b) : s[Len(u) + i] = b[i]
  BY Joined
<1>2. /\ LineEnds(u) \subseteq LineEnds(s)
      /\ \A i \in LineEnds(b) : Len(u) + i \in LineEnds(s)
      /\ \A i \in LineEnds(s) : \/ i < Len(u) /\ i \in LineEnds(u)
                                \/ i > Len(u) /\ i - Len(u) \in LineEnds(b)
  BY LinesJoined DEF Correct
<1>3. e \in LineEnds(b) /\ \A j \in LineEnds(b) : e <= j
  BY DEF IsFirst
<1>4. /\ LineEnds(u) \subseteq 1..(Len(u) - 1) /\ LineEnds(b) \subseteq 1..(Len(b) - 1)
      /\ LineEnds(s) \subseteq Int /\ HeaderEnds(u) \subseteq LineEnds(u)
      /\ HeaderEnds(s) \subseteq LineEnds(s) /\ EmptyLines(s) \subseteq LineEnds(s)
  BY <1>1, LineEndsType
<1>5. e \in Nat \ {0} /\ e + 1 <= Len(b) /\ q \in Nat /\ q > Len(u) /\ q - Len(u) = e
  BY <1>1, <1>3, <1>4
<1>6. q \in LineEnds(s)
  BY <1>2, <1>3
<1>7. ASSUME NEW i \in LineEnds(s) PROVE i < q <=> i \in LineEnds(u)
  <2>1. CASE i < Len(u) /\ i \in LineEnds(u)
    BY <2>1, <1>1, <1>4, <1>5
  <2>2. CASE i > Len(u) /\ i - Len(u) \in LineEnds(b)
    <3>1. e <= i - Len(u) /\ i \in Int
      BY <2>2, <1>3, <1>4
    <3>2. ~(i < q)
      BY <3>1, <1>1, <1>5
    <3>3. i \notin LineEnds(u)
      BY <2>2, <1>1, <1>4
    <3> QED
      BY <3>2, <3>3
  <2> QED
    BY <2>1, <2>2, <1>2
<1>8. HeaderText(s, q) = SubSeq(b, 1, e - 1)
  <2>1. {f \in LineEnds(s) : f < q} = LineEnds(u)
    BY <1>2, <1>7
  <2>2. MaxOf(LineEnds(u)) = Len(u) - 1
    <3>1. \A j \in LineEnds(u) : j <= Len(u) - 1
      BY <1>1, <1>4
    <3>2. LineEnds(u) \in SUBSET Int
      BY <1>1, <1>4
    <3> QED
      BY <3>1, <3>2, MaxIs
  <2>3. Len(u) - 1 + 2 = Len(u) + 1 /\ q - 1 = Len(u) + (e - 1) /\ 1 \in Nat \ {0}
        /\ e - 1 \in Nat /\ e - 1 <= Len(b)
    BY <1>1, <1>5
  <2>4. SubSeq(s, Len(u) + 1, Len(u) + (e - 1)) = SubSeq(b, 1, e - 1)
    BY <2>3, PartOfSecond
  <2> QED
    BY <2>1, <2>2, <2>3, <2>4 DEF HeaderText
<1>9. ASSUME NEW x \in EmptyLines(s) PROVE q <= x
  <2>1. x \in LineEnds(s) /\ x - 2 \in LineEnds(s) /\ x \in Int
    BY <1>4 DEF EmptyLines
  <2>2. CASE x < q
    <3>1. x - 2 < q
      BY <2>1, <2>2, <1>5
    <3>2. x \in LineEnds(u) /\ x - 2 \in LineEnds(u)
      BY <2>1, <2>2, <3>1, <1>7
    <3> QED
      BY <3>2 DEF EmptyLines
  <2> QED
    BY <2>1, <2>2, <1>5
<1>10. e = 1 => q \in EmptyLines(s)
  <2> SUFFICES ASSUME e = 1 PROVE q \in EmptyLines(s)
    OBVIOUS
  <2>1. q - 2 = Len(u) - 1
    BY <1>1
  <2> QED
    BY <2>1, <1>2, <1>6 DEF EmptyLines
<1>11. ASSUME e # 1, NEW x \in EmptyLines(s) PROVE q < x
  <2>1. CASE x = q
    <3>1. q - 2 \in LineEnds(s) /\ q - 2 < q
      BY <2>1, <1>5 DEF EmptyLines
    <3>2. q - 2 \in LineEnds(u)
      BY <3>1, <1>7
    <3>3. q - 2 <= Len(u) - 1
      BY <3>2, <1>1, <1>4
    <3>4. e <= 1
      BY <3>3, <1>1, <1>5
    <3> QED
      BY <3>4, <1>5, <1>11
  <2>2. x \in Int
    BY <1>4
  <2> QED
    BY <2>1, <2>2, <1>5, <1>9
<1>12. q \notin HeaderEnds(u)
  BY <1>1, <1>4, <1>5
<1>13. ASSUME e # 1 PROVE /\ q \in HeaderEnds(s)
                          /\ {f \in HeaderEnds(s) : f <= q} = HeaderEnds(u) \cup {q}
  <2>1. /\ RequestLineEnd(s) = RequestLineEnd(u) /\ RequestLineEnd(u) \in LineEnds(u)
        /\ \A i \in 1..Len(u) : i \in HeaderEnds(s) <=> i \in HeaderEnds(u)
    BY HeadKept DEF Correct, IsFirst
  <2>2. RequestLineEnd(u) < q
    BY <2>1, <1>1, <1>4, <1>5
  <2>3. q \in HeaderEnds(s)
    BY <2>1, <2>2, <1>6, <1>11, <1>13 DEF HeaderEnds
  <2>4. ASSUME NEW f \in HeaderEnds(s), f <= q, f # q PROVE f \in HeaderEnds(u)
    <3>1. f \in LineEnds(s) /\ f < q
      BY <2>4, <1>4, <1>5
    <3>2. f \in 1..Len(u)
      BY <3>1, <1>7, <1>1, <1>4
    <3> QED
      BY <3>2, <2>1
  <2>5. ASSUME NEW f \in HeaderEnds(u) PROVE f \in HeaderEnds(s) /\ f <= q
    <3>1. f \in 1..Len(u)
      BY <1>1, <1>4
    <3> QED
      BY <3>1, <2>1, <1>5, <1>1
  <2> QED
    BY <2>3, <2>4, <2>5, <1>5
<1> QED
  BY <1>5, <1>6, <1>7, <1>8, <1>9, <1>10, <1>11, <1>12, <1>13

-----------------------------------------------------------------------------
(* What the reference says of the text at each place of the parser         *)

\* An error and a request exclude each other.
LEMMA ErrorOrRequest ==
  ASSUME NEW s
  PROVE  /\ HoldsRequest(s) \in BOOLEAN
         /\ HoldsRequest(s) => ErrorIn(s) = "OK" /\ EmptyLines(s) # {}
BY DEF HoldsRequest

\* A text that holds a request does not end in the middle of a line end.
LEMMA NoCutInRequest ==
  ASSUME NEW s, HoldsRequest(s) PROVE ~CutAtLimit(s)
<1>1. EmptyLines(s) # {}
  BY ErrorOrRequest
<1>2. LineEnds(s) # {}
  BY <1>1 DEF EmptyLines
<1> QED
  BY <1>1, <1>2 DEF CutAtLimit

\* Before the first line end.
LEMMA NoLineYet ==
  ASSUME NEW s \in Seq(Units), LineEnds(s) = {}
  PROVE  /\ ErrorIn(s) = IF Shown(s) > MAX_REQUEST_LINE THEN "URITooLong" ELSE "OK"
         /\ ~HoldsRequest(s)
         /\ CutAtLimit(s) <=> ErrorIn(s) = "OK" /\ Len(s) > MAX_REQUEST_LINE
         /\ Len(s) \in Nat /\ Shown(s) \in Int /\ Shown(s) <= Len(s) /\ Len(s) - 1 <= Shown(s)
<1>1. EmptyLines(s) = {}
  BY DEF EmptyLines
<1>2. RequestLineCode(s) = IF Shown(s) > MAX_REQUEST_LINE THEN "URITooLong" ELSE "OK"
  BY DEF RequestLineCode
<1>3. ErrorIn(s) = IF Shown(s) > MAX_REQUEST_LINE THEN "URITooLong" ELSE "OK"
  BY <1>2 DEF ErrorIn
<1>4. CutAtLimit(s) <=> ErrorIn(s) = "OK" /\ Len(s) > MAX_REQUEST_LINE
  BY DEF CutAtLimit
<1>5. Len(s) \in Nat
  BY LenProperties
<1>6. Shown(s) \in Int /\ Shown(s) <= Len(s) /\ Len(s) - 1 <= Shown(s)
  BY <1>5 DEF Shown
<1> QED
  BY <1>1, <1>3, <1>4, <1>5, <1>6, ErrorOrRequest

\* The request line is there.
LEMMA RequestLineThere ==
  ASSUME NEW s \in Seq(Units), NEW e, IsFirst(e, LineEnds(s))
  PROVE  /\ e \in Nat \ {0} /\ e + 1 <= Len(s) /\ RequestLineEnd(s) = e
         /\ SubSeq(s, 1, e - 1) \in Seq(Units) /\ Len(SubSeq(s, 1, e - 1)) = e - 1
         /\ e - 1 > MAX_REQUEST_LINE => RequestLineCode(s) = "URITooLong"
         /\ e - 1 <= MAX_REQUEST_LINE /\ Cardinality(At(SubSeq(s, 1, e - 1), SP)) < 2 =>
               RequestLineCode(s) = "BadRequest"
<1>1. e \in LineEnds(s) /\ e \in 1..(Len(s) - 1) /\ Len(s) \in Nat /\ LineEnds(s) \subseteq Int
  BY LineEndsType DEF IsFirst
<1>2. RequestLineEnd(s) = e
  BY <1>1, MinIs DEF RequestLineEnd
<1> DEFINE line == SubSeq(s, 1, e - 1)
<1>3. line \in Seq(Units) /\ Len(line) = e - 1
  <2>1. \A j \in 1..(e - 1) : s[j] \in Units
    BY <1>1, ElementOfSeq
  <2>2. 1 \in Int /\ e - 1 \in Int /\ (1 <= e - 1 => e - 1 - 1 + 1 = e - 1) /\ (~(1 <= e - 1) => e - 1 = 0)
    BY <1>1
  <2> QED
    BY <2>1, <2>2, SubSeqProperties
<1>4. RequestLineCode(s) =
        IF Len(line) > MAX_REQUEST_LINE THEN "URITooLong"
        ELSE IF Cardinality(At(line, SP)) < 2 THEN "BadRequest"
        ELSE RequestLineError(Split(line, MinOf(At(line, SP)),
                                    MinOf(At(line, SP) \ {MinOf(At(line, SP))})))
  BY <1>1, <1>2 DEF RequestLineCode
<1> HIDE DEF line
<1>5. ~(e - 1 > MAX_REQUEST_LINE /\ e - 1 <= MAX_REQUEST_LINE)
  BY <1>1, MessageAssumption
<1> QED
  BY <1>1, <1>2, <1>3, <1>4, <1>5 DEF line

\* An unfinished request line that is too long is too long whatever follows.
LEMMA LineTooLong ==
  ASSUME NEW s \in Seq(Units), LineEnds(s) = {}, Shown(s) > MAX_REQUEST_LINE
  PROVE  FinalError(s, "URITooLong")
<1>1. SUFFICES ASSUME NEW t \in Seq(Units) PROVE ErrorIn(s \o t) = "URITooLong"
  BY DEF FinalError
<1> DEFINE w == s \o t
<1>2. w \in Seq(Units) /\ Len(w) = Len(s) + Len(t) /\ Len(s) \in Nat /\ Len(t) \in Nat
      /\ MAX_REQUEST_LINE \in Nat
  BY Joined, MessageAssumption
<1>3. \A i \in LineEnds(w) : (i = Len(s) /\ s # <<>> /\ s[Len(s)] = CR) \/ i > Len(s)
  BY LinesKept
<1>4. Shown(s) \in Int /\ Shown(s) <= Len(s)
  BY NoLineYet
<1>5. CASE LineEnds(w) = {}
  <2>1. /\ ErrorIn(w) = IF Shown(w) > MAX_REQUEST_LINE THEN "URITooLong" ELSE "OK"
        /\ Shown(w) \in Int /\ Len(w) - 1 <= Shown(w)
    BY <1>2, <1>5, NoLineYet
  <2>2. CASE t = <<>>
    <3>1. w = s
      BY <2>2, ConcatEmptySeq
    <3> QED
      BY <2>1, <3>1
  <2>3. CASE t # <<>>
    <3>1. Len(t) # 0
      BY <2>3, EmptySeq
    <3> HIDE DEF w
    <3>2. Shown(w) > MAX_REQUEST_LINE
      BY <1>2, <1>4, <2>1, <3>1
    <3> QED
      BY <2>1, <3>2 DEF w
  <2> QED
    BY <2>2, <2>3
<1>6. CASE LineEnds(w) # {}
  <2>1. LineEnds(w) \in SUBSET Nat
    BY <1>2 DEF LineEnds
  <2>2. PICK e \in LineEnds(w) : IsFirst(e, LineEnds(w))
    BY <1>6, <2>1, FirstOne
  <2>3. /\ e \in Nat
        /\ e - 1 > MAX_REQUEST_LINE => RequestLineCode(w) = "URITooLong"
    BY <1>2, <2>2, RequestLineThere
  <2>4. e - 1 >= Shown(s)
    <3>1. CASE e = Len(s) /\ s # <<>> /\ s[Len(s)] = CR
      BY <3>1, <1>2 DEF Shown
    <3>2. CASE e > Len(s)
      BY <3>2, <1>2, <1>4, <2>3
    <3> QED
      BY <1>3, <3>1, <3>2
  <2>5. RequestLineCode(w) = "URITooLong"
    BY <1>2, <1>4, <2>3, <2>4
  <2> QED
    BY <2>5 DEF ErrorIn
<1> QED
  BY <1>5, <1>6

\* A wrong request line stays wrong.
LEMMA RequestLineFinal ==
  ASSUME NEW s \in Seq(Units), NEW e, IsFirst(e, LineEnds(s)), RequestLineCode(s) # "OK"
  PROVE  FinalError(s, RequestLineCode(s))
<1>1. SUFFICES ASSUME NEW t \in Seq(Units) PROVE ErrorIn(s \o t) = RequestLineCode(s)
  BY DEF FinalError
<1> DEFINE w == s \o t
<1>2. w \in Seq(Units)
  BY Joined
<1>3. IsFirst(e, LineEnds(w)) /\ SubSeq(w, 1, e - 1) = SubSeq(s, 1, e - 1)
  BY FirstKept
<1> HIDE DEF w
<1>4. RequestLineEnd(s) = e /\ RequestLineEnd(w) = e
  BY <1>2, <1>3, RequestLineThere
<1>5. LineEnds(s) # {} /\ LineEnds(w) # {}
  BY <1>3 DEF IsFirst
<1>6. RequestLineCode(w) = RequestLineCode(s)
  BY <1>3, <1>4, <1>5 DEF RequestLineCode
<1>7. ErrorIn(w) = RequestLineCode(s)
  BY <1>6 DEF ErrorIn
<1> QED
  BY <1>7 DEF w

\* The request line has its two spaces.
LEMMA RequestLineParts ==
  ASSUME NEW s \in Seq(Units), NEW e, IsFirst(e, LineEnds(s)), e - 1 <= MAX_REQUEST_LINE,
         NEW m, NEW t, IsFirst(m, At(SubSeq(s, 1, e - 1), SP)),
         IsFirst(t, At(SubSeq(s, 1, e - 1), SP) \ {m})
  PROVE  /\ Parts(s) = Split(SubSeq(s, 1, e - 1), m, t)
         /\ RequestLineCode(s) = RequestLineError(Parts(s))
<1> DEFINE line == SubSeq(s, 1, e - 1)
           sp == At(line, SP)
<1>1. /\ RequestLineEnd(s) = e /\ line \in Seq(Units) /\ Len(line) = e - 1
      /\ e \in Nat \ {0} /\ MAX_REQUEST_LINE \in Nat
  BY RequestLineThere, MessageAssumption
<1>2. sp \subseteq 1..Len(line) /\ sp \in SUBSET Int /\ Len(line) \in Nat
  BY <1>1 DEF At
<1>3. MinOf(sp) = m /\ m \in sp
  BY <1>2, MinIs
<1>4. MinOf(sp \ {m}) = t /\ t \in sp \ {m}
  <2>1. sp \ {m} \in SUBSET Int
    BY <1>2
  <2> QED
    BY <2>1, MinIs
<1>5. ~(Cardinality(sp) < 2)
  <2> HIDE DEF sp, line
  <2>1. IsFiniteSet(sp)
    <3>1. IsFiniteSet(1..Len(line))
      BY <1>2, FS_Interval
    <3> QED
      BY <3>1, <1>2, FS_Subset
  <2>2. IsFiniteSet({m}) /\ Cardinality({m}) = 1
    BY FS_Singleton
  <2>3. Cardinality({m} \cup {t}) = 2
    <3>1. t \notin {m}
      BY <1>4
    <3>2. Cardinality({m} \cup {t}) = Cardinality({m}) + 1
      BY <2>2, <3>1, FS_AddElement
    <3>3. Cardinality({m} \cup {t}) = 1 + 1
      BY <2>2, <3>2
    <3>4. 1 + 1 = 2
      OBVIOUS
    <3> HIDE DEF sp, line
    <3> QED
      BY ONLY <3>3, <3>4
  <2>4. {m} \cup {t} \in SUBSET sp
    BY <1>3, <1>4
  <2>5. Cardinality({m} \cup {t}) <= Cardinality(sp) /\ Cardinality(sp) \in Nat
    BY <2>1, <2>4, FS_Subset, FS_CardinalityType
  <2>6. \A n \in Nat : 2 <= n => ~(n < 2)
    OBVIOUS
  <2> QED
    BY <2>3, <2>5, <2>6
<1>6. Parts(s) = Split(line, m, t)
  BY <1>1, <1>3, <1>4 DEF Parts
<1>7. LineEnds(s) # {}
  BY DEF IsFirst
<1> HIDE DEF line
<1>8. ~(Len(line) > MAX_REQUEST_LINE)
  BY <1>1
<1>9. RequestLineCode(s) = RequestLineError(Split(line, m, t))
  BY <1>1, <1>3, <1>4, <1>5, <1>7, <1>8 DEF RequestLineCode, line
<1> QED
  BY <1>6, <1>9 DEF line

\* A text is what was read of it and the rest.
LEMMA CutText ==
  ASSUME NEW s \in Seq(Units), NEW n \in 0..Len(s)
  PROVE  /\ SubSeq(s, 1, n) \in Seq(Units) /\ Len(SubSeq(s, 1, n)) = n
         /\ From(s, n + 1) \in Seq(Units)
         /\ s = SubSeq(s, 1, n) \o From(s, n + 1)
         /\ \A i \in 1..n : SubSeq(s, 1, n)[i] = s[i]
<1>1. Len(s) \in Nat /\ n \in Nat /\ n <= Len(s)
  BY LenProperties
<1>2. \A j \in 1..n : s[j] \in Units
  BY <1>1, ElementOfSeq
<1>3. /\ SubSeq(s, 1, n) \in Seq(Units)
      /\ Len(SubSeq(s, 1, n)) = IF 1 <= n THEN n - 1 + 1 ELSE 0
      /\ \A i \in 1 .. n - 1 + 1 : SubSeq(s, 1, n)[i] = s[1 + i - 1]
  BY <1>1, <1>2, SubSeqProperties
<1>4. n - 1 + 1 = n /\ (~(1 <= n) => n = 0) /\ \A i \in 1..n : 1 + i - 1 = i
  BY <1>1
<1>5. From(s, n + 1) \in Seq(Units)
  BY <1>1, FromType
<1>6. s = SubSeq(s, 1, n) \o From(s, n + 1)
  <2>1. SubSeq(s, 1, n) \o SubSeq(s, n + 1, Len(s)) = SubSeq(s, 1, Len(s))
    <3>1. 1 \in 1 .. Len(s) + 1 /\ n \in 1 - 1 .. Len(s) /\ Len(s) \in n .. Len(s)
      BY <1>1
    <3> QED
      BY <3>1, ConcatAdjacentSubSeq
  <2> QED
    BY <2>1, SubSeqFull DEF From
<1> QED
  BY <1>3, <1>4, <1>5, <1>6

\* The text up to and with its first line end has no other.
LEMMA FirstLine ==
  ASSUME NEW s \in Seq(Units), NEW e, IsFirst(e, LineEnds(s))
  PROVE  LET u == SubSeq(s, 1, e + 1)
         IN  /\ u \in Seq(Units) /\ Len(u) = e + 1 /\ u[Len(u)] = LF /\ u # <<>>
             /\ LineEnds(u) = {e} /\ IsFirst(e, LineEnds(u))
             /\ From(s, e + 2) \in Seq(Units) /\ s = u \o From(s, e + 2)
             /\ SubSeq(u, 1, e - 1) = SubSeq(s, 1, e - 1)
<1> DEFINE u == SubSeq(s, 1, e + 1)
<1>1. /\ e \in 1..(Len(s) - 1) /\ Len(s) \in Nat /\ LineEnds(s) \subseteq 1..(Len(s) - 1)
      /\ s[e] = CR /\ s[e + 1] = LF /\ \A j \in LineEnds(s) : e <= j
  BY LineEndsType DEF IsFirst, LineEnds
<1>2. /\ u \in Seq(Units) /\ Len(u) = e + 1 /\ From(s, e + 2) \in Seq(Units)
      /\ s = u \o From(s, e + 2) /\ \A i \in 1..(e + 1) : u[i] = s[i]
  <2> DEFINE n == e + 1
  <2>1. n \in 0..Len(s) /\ n + 1 = e + 2
    BY <1>1
  <2> HIDE DEF n
  <2>2. /\ SubSeq(s, 1, n) \in Seq(Units) /\ Len(SubSeq(s, 1, n)) = n
        /\ From(s, n + 1) \in Seq(Units) /\ s = SubSeq(s, 1, n) \o From(s, n + 1)
        /\ \A i \in 1..n : SubSeq(s, 1, n)[i] = s[i]
    BY <2>1, CutText
  <2>3. u = SubSeq(s, 1, n)
    BY DEF n
  <2> HIDE DEF u
  <2>4. /\ u \in Seq(Units) /\ Len(u) = n /\ From(s, e + 2) \in Seq(Units)
        /\ s = u \o From(s, e + 2) /\ \A i \in 1..n : u[i] = s[i]
    BY <2>1, <2>2, <2>3
  <2> QED
    BY <2>4 DEF n
<1> HIDE DEF u
<1>3. u[Len(u)] = LF /\ u # <<>>
  <2>1. u[e + 1] = s[e + 1]
    BY <1>1, <1>2
  <2> QED
    BY <2>1, <1>1, <1>2, EmptySeq
<1>4. e \in LineEnds(u)
  <2>1. u[e] = s[e] /\ u[e + 1] = s[e + 1] /\ e \in 1..(Len(u) - 1)
    BY <1>1, <1>2
  <2> QED
    BY <2>1, <1>1 DEF LineEnds
<1>5. ASSUME NEW i \in LineEnds(u) PROVE i = e
  <2>1. i \in 1..e /\ u[i] = CR /\ u[i + 1] = LF
    BY <1>1, <1>2 DEF LineEnds
  <2>2. s[i] = CR /\ s[i + 1] = LF /\ i \in 1..(Len(s) - 1)
    BY <2>1, <1>1, <1>2
  <2>3. i \in LineEnds(s)
    BY <2>2 DEF LineEnds
  <2> QED
    BY <2>1, <2>3, <1>1
<1>6. LineEnds(u) = {e}
  BY <1>4, <1>5
<1>7. IsFirst(e, LineEnds(u))
  BY <1>1, <1>6 DEF IsFirst
<1>8. SubSeq(u, 1, e - 1) = SubSeq(s, 1, e - 1)
  <2>1. e - 1 \in Int /\ e - 1 <= Len(u)
    BY <1>1, <1>2
  <2> QED
    BY <2>1, <1>2, PartOfFirst
<1> QED
  BY <1>2, <1>3, <1>6, <1>7, <1>8 DEF u

\* After a correct request line: no headers yet.
LEMMA HeadersBegin ==
  ASSUME NEW s \in Seq(Units), NEW e, IsFirst(e, LineEnds(s)), e - 1 <= MAX_REQUEST_LINE,
         NEW m, NEW t, IsFirst(m, At(SubSeq(s, 1, e - 1), SP)),
         IsFirst(t, At(SubSeq(s, 1, e - 1), SP) \ {m}),
         RequestLineError(Split(SubSeq(s, 1, e - 1), m, t)) = "OK"
  PROVE  LET u == SubSeq(s, 1, e + 1)
         IN  /\ Correct(u) /\ EmptyLines(u) = {} /\ HeaderEnds(u) = {}
             /\ Len(u) - 1 \in LineEnds(u) /\ Len(u) - RequestLineEnd(u) - 1 = 0
             /\ Parts(u) = Split(SubSeq(s, 1, e - 1), m, t) /\ HeaderMap(u) = <<>>
<1> DEFINE u == SubSeq(s, 1, e + 1)
           parts == Split(SubSeq(s, 1, e - 1), m, t)
<1>1. /\ u \in Seq(Units) /\ Len(u) = e + 1 /\ u[Len(u)] = LF /\ u # <<>>
      /\ LineEnds(u) = {e} /\ IsFirst(e, LineEnds(u))
      /\ SubSeq(u, 1, e - 1) = SubSeq(s, 1, e - 1)
  BY FirstLine
<1>2. e \in Nat \ {0}
  BY RequestLineThere
<1> HIDE DEF u
<1>3. RequestLineEnd(u) = e
  BY <1>1, RequestLineThere
<1>4. IsFirst(m, At(SubSeq(u, 1, e - 1), SP)) /\ IsFirst(t, At(SubSeq(u, 1, e - 1), SP) \ {m})
  BY <1>1
<1>5. Parts(u) = parts /\ RequestLineCode(u) = "OK"
  <2>1. Parts(u) = Split(SubSeq(u, 1, e - 1), m, t) /\ RequestLineCode(u) = RequestLineError(Parts(u))
    BY <1>1, <1>4, RequestLineParts
  <2> QED
    BY <2>1, <1>1
<1>6. EmptyLines(u) = {}
  BY <1>1, <1>2 DEF EmptyLines
<1>7. HeaderEnds(u) = {}
  BY <1>1, <1>2, <1>3 DEF HeaderEnds
<1>8. BadHeaders(u) = {}
  BY <1>7 DEF BadHeaders
<1>9. HeaderMap(u) = <<>>
  <2>1. {HeaderName(HeaderText(u, f)) : f \in HeaderEnds(u)} = {}
    BY <1>7
  <2>2. DOMAIN HeaderMap(u) = {} /\ HeaderMap(u) = [n \in {} |-> HeaderMap(u)[n]]
    BY <2>1 DEF HeaderMap
  <2> QED
    BY <2>2
<1>10. Correct(u)
  BY <1>1, <1>3, <1>5, <1>8 DEF Correct
<1>11. Len(u) - 1 \in LineEnds(u) /\ Len(u) - RequestLineEnd(u) - 1 = 0
  BY <1>1, <1>2, <1>3
<1> QED
  BY <1>5, <1>6, <1>7, <1>9, <1>10, <1>11 DEF u

\* In the headers, the next line has not ended.
LEMMA HeadersOpen ==
  ASSUME NEW u \in Seq(Units), NEW b \in Seq(Units), Correct(u),
         EmptyLines(u) = {}, LineEnds(b) = {}
  PROVE  LET s    == u \o b
             size == Len(u) + Len(b) - RequestLineEnd(u) - 1
         IN  /\ ErrorIn(s) = IF size > MAX_TOTAL_HEADERS /\ ~HalfEmptyLine(s)
                             THEN "HeaderFieldsTooLarge" ELSE "OK"
             /\ CutAtLimit(s) <=> ErrorIn(s) = "OK" /\ size > MAX_TOTAL_HEADERS
             /\ ~HoldsRequest(s)
             /\ size \in Int
<1> DEFINE s == u \o b
           size == Len(u) + Len(b) - RequestLineEnd(u) - 1
<1>1. Len(s) = Len(u) + Len(b)
  BY Joined
<1>2. EmptyLines(s) = {} /\ BadHeaders(s) = {} /\ LineEnds(s) = LineEnds(u)
  BY NoLine
<1>3. RequestLineEnd(s) = RequestLineEnd(u) /\ RequestLineCode(s) = "OK"
  BY HeadKept DEF Correct
<1>4. LineEnds(s) # {}
  BY <1>2 DEF Correct, IsFirst
<1>5. Len(s) - RequestLineEnd(s) - 1 = size /\ size \in Int
  <2>1. Len(u) \in Nat /\ Len(b) \in Nat /\ RequestLineEnd(u) \in Int
    BY LineEndsType DEF Correct, IsFirst
  <2> QED
    BY <1>1, <1>3, <2>1
<1> HIDE DEF s, size
<1>6. ErrorIn(s) = IF size > MAX_TOTAL_HEADERS /\ ~HalfEmptyLine(s)
                   THEN "HeaderFieldsTooLarge" ELSE "OK"
  BY <1>2, <1>3, <1>4, <1>5 DEF ErrorIn
<1>7. CutAtLimit(s) <=> ErrorIn(s) = "OK" /\ size > MAX_TOTAL_HEADERS
  BY <1>2, <1>4, <1>5 DEF CutAtLimit
<1>8. ~HoldsRequest(s)
  BY <1>2, ErrorOrRequest
<1> QED
  BY <1>5, <1>6, <1>7, <1>8 DEF s, size

\* Whole lines without a mistake are within the limit of the headers.
LEMMA HeadFits ==
  ASSUME NEW u \in Seq(Units), Correct(u), EmptyLines(u) = {}, Len(u) - 1 \in LineEnds(u)
  PROVE  Len(u) - RequestLineEnd(u) - 1 <= MAX_TOTAL_HEADERS
<1> DEFINE R == RequestLineEnd(u)
           e == Len(u) - 1
<1>1. /\ Len(u) \in Nat /\ R \in LineEnds(u) /\ R \in Int /\ R <= e
      /\ MAX_TOTAL_HEADERS \in Nat
  BY LineEndsType, MessageAssumption DEF Correct, IsFirst
<1>2. CASE R = e
  BY <1>1, <1>2
<1>3. CASE R # e
  <2>1. e > R
    BY <1>1, <1>3
  <2>2. e \in HeaderEnds(u)
    BY <2>1 DEF HeaderEnds
  <2>3. ~OverLimit(u, e)
    BY <2>2 DEF Correct, BadHeaders
  <2>4. ~(e - R > MAX_TOTAL_HEADERS)
    BY <2>3 DEF OverLimit
  <2> QED
    BY <1>1, <2>4
<1> QED
  BY <1>2, <1>3

\* The limits that the code compares for the next line are those of its place.
LEMMA NextLineLimits ==
  ASSUME NEW u \in Seq(Units), NEW b \in Seq(Units), NEW e, Correct(u),
         EmptyLines(u) = {}, Len(u) - 1 \in LineEnds(u), IsFirst(e, LineEnds(b)), e # 1
  PROVE  OverLimit(u \o b, Len(u) + e) <=>
            \/ e - 1 > MAX_HEADER_SIZE
            \/ Cardinality(HeaderEnds(u)) >= MAX_HEADER_COUNT
            \/ Len(u) - RequestLineEnd(u) - 1 + (e + 1) > MAX_TOTAL_HEADERS
<1> DEFINE s == u \o b
           q == Len(u) + e
<1>1. /\ e \in Nat \ {0} /\ HeaderText(s, q) = SubSeq(b, 1, e - 1)
      /\ {f \in HeaderEnds(s) : f <= q} = HeaderEnds(u) \cup {q}
      /\ q \notin HeaderEnds(u)
  BY NextLine
<1>2. Len(SubSeq(b, 1, e - 1)) = e - 1
  BY RequestLineThere
<1>3. /\ RequestLineEnd(s) = RequestLineEnd(u) /\ RequestLineEnd(u) \in LineEnds(u)
  BY HeadKept DEF Correct, IsFirst
<1>4. /\ Len(u) \in Nat /\ RequestLineEnd(u) \in Int /\ IsFiniteSet(HeaderEnds(u))
  BY <1>3, LineEndsType
<1>5. /\ Cardinality(HeaderEnds(u) \cup {q}) = Cardinality(HeaderEnds(u)) + 1
      /\ Cardinality(HeaderEnds(u)) \in Nat
  BY <1>1, <1>4, FS_AddElement, FS_CardinalityType
<1>6. \A n, x \in Nat : n + 1 > x <=> n >= x
  OBVIOUS
<1>7. Cardinality(HeaderEnds(u) \cup {q}) > MAX_HEADER_COUNT
         <=> Cardinality(HeaderEnds(u)) >= MAX_HEADER_COUNT
  BY <1>5, <1>6, MessageAssumption
<1>8. q - RequestLineEnd(u) = Len(u) - RequestLineEnd(u) - 1 + (e + 1)
  BY <1>1, <1>4
<1>9. OverLimit(s, q) <=> \/ Len(HeaderText(s, q)) > MAX_HEADER_SIZE
                          \/ Cardinality({f \in HeaderEnds(s) : f <= q}) > MAX_HEADER_COUNT
                          \/ q - RequestLineEnd(s) > MAX_TOTAL_HEADERS
  BY DEF OverLimit
<1> QED
  BY <1>1, <1>2, <1>3, <1>7, <1>8, <1>9

\* A line that breaks a limit or is malformed is the first mistake.
LEMMA BadLine ==
  ASSUME NEW u \in Seq(Units), NEW b \in Seq(Units), NEW e, Correct(u),
         EmptyLines(u) = {}, Len(u) - 1 \in LineEnds(u), IsFirst(e, LineEnds(b)), e # 1,
         OverLimit(u \o b, Len(u) + e) \/ HeaderMalformed(SubSeq(b, 1, e - 1))
  PROVE  ErrorIn(u \o b) = IF OverLimit(u \o b, Len(u) + e)
                           THEN "HeaderFieldsTooLarge" ELSE "BadRequest"
<1> DEFINE s == u \o b
           q == Len(u) + e
<1>1. /\ q \in LineEnds(s) /\ q \in Nat /\ HeaderText(s, q) = SubSeq(b, 1, e - 1)
      /\ {f \in HeaderEnds(s) : f <= q} = HeaderEnds(u) \cup {q} /\ q \in HeaderEnds(s)
  BY NextLine
<1>2. /\ RequestLineEnd(s) = RequestLineEnd(u) /\ RequestLineCode(s) = "OK"
      /\ \A f \in HeaderEnds(u) : /\ HeaderText(s, f) = HeaderText(u, f)
                                  /\ OverLimit(s, f) <=> OverLimit(u, f)
  BY HeadKept DEF Correct
<1>3. s \in Seq(Units) /\ HeaderEnds(s) \subseteq Int
  <2>1. s \in Seq(Units)
    BY Joined
  <2> QED
    BY <2>1, LineEndsType
<1>4. q \in BadHeaders(s)
  BY <1>1 DEF BadHeaders
<1>5. ASSUME NEW f \in BadHeaders(s) PROVE q <= f
  <2>1. f \in HeaderEnds(s) /\ f \in Int
    BY <1>3 DEF BadHeaders
  <2>2. CASE f \in HeaderEnds(u)
    <3>1. ~(OverLimit(u, f) \/ HeaderMalformed(HeaderText(u, f)))
      BY <2>2 DEF Correct, BadHeaders
    <3>2. OverLimit(s, f) \/ HeaderMalformed(HeaderText(s, f))
      BY DEF BadHeaders
    <3> QED
      BY <2>2, <3>1, <3>2, <1>2
  <2>3. CASE f \notin HeaderEnds(u)
    BY <2>1, <2>3, <1>1
  <2> QED
    BY <2>2, <2>3
<1>6. MinOf(BadHeaders(s)) = q
  <2>1. BadHeaders(s) \in SUBSET Int
    BY <1>3 DEF BadHeaders
  <2>2. IsFirst(q, BadHeaders(s))
    BY <1>4, <1>5 DEF IsFirst
  <2> QED
    BY <2>1, <2>2, MinIs
<1>7. LineEnds(s) # {} /\ BadHeaders(s) # {}
  BY <1>1, <1>4
<1> HIDE DEF s, q
<1>8. ErrorIn(s) = IF OverLimit(s, q) THEN "HeaderFieldsTooLarge" ELSE "BadRequest"
  BY <1>2, <1>6, <1>7 DEF ErrorIn
<1> QED
  BY <1>8 DEF s, q

\* It stays the first mistake.
LEMMA BadLineFinal ==
  ASSUME NEW u \in Seq(Units), NEW b \in Seq(Units), NEW e, Correct(u),
         EmptyLines(u) = {}, Len(u) - 1 \in LineEnds(u), IsFirst(e, LineEnds(b)), e # 1,
         OverLimit(u \o b, Len(u) + e) \/ HeaderMalformed(SubSeq(b, 1, e - 1))
  PROVE  FinalError(u \o b, IF OverLimit(u \o b, Len(u) + e)
                            THEN "HeaderFieldsTooLarge" ELSE "BadRequest")
<1>1. ASSUME NEW t \in Seq(Units)
      PROVE  ErrorIn((u \o b) \o t) = IF OverLimit(u \o b, Len(u) + e)
                                      THEN "HeaderFieldsTooLarge" ELSE "BadRequest"
  <2> DEFINE w == b \o t
  <2>1. w \in Seq(Units) /\ (u \o b) \o t = u \o w
    <3>1. (u \o b) \o t = u \o w
      BY JoinedThrice
    <3>2. w \in Seq(Units)
      BY Joined
    <3> QED
      BY <3>1, <3>2
  <2>2. IsFirst(e, LineEnds(w)) /\ SubSeq(w, 1, e - 1) = SubSeq(b, 1, e - 1)
    BY FirstKept
  <2> HIDE DEF w
  <2>3. OverLimit(u \o w, Len(u) + e) <=> OverLimit(u \o b, Len(u) + e)
    <3>1. OverLimit(u \o w, Len(u) + e) <=>
            \/ e - 1 > MAX_HEADER_SIZE
            \/ Cardinality(HeaderEnds(u)) >= MAX_HEADER_COUNT
            \/ Len(u) - RequestLineEnd(u) - 1 + (e + 1) > MAX_TOTAL_HEADERS
      BY <2>1, <2>2, NextLineLimits
    <3>2. OverLimit(u \o b, Len(u) + e) <=>
            \/ e - 1 > MAX_HEADER_SIZE
            \/ Cardinality(HeaderEnds(u)) >= MAX_HEADER_COUNT
            \/ Len(u) - RequestLineEnd(u) - 1 + (e + 1) > MAX_TOTAL_HEADERS
      BY NextLineLimits
    <3> QED
      BY <3>1, <3>2
  <2>4. OverLimit(u \o w, Len(u) + e) \/ HeaderMalformed(SubSeq(w, 1, e - 1))
    BY <2>2, <2>3
  <2>5. ErrorIn(u \o w) = IF OverLimit(u \o w, Len(u) + e)
                          THEN "HeaderFieldsTooLarge" ELSE "BadRequest"
    BY <2>1, <2>2, <2>4, BadLine
  <2> QED
    BY <2>1, <2>3, <2>5
<1> QED
  BY <1>1 DEF FinalError

\* Unfinished headers that are too large are too large whatever follows: the next
\* line end, if it comes, is beyond the limit and ends no empty line.
LEMMA HeadersTooLarge ==
  ASSUME NEW u \in Seq(Units), NEW b \in Seq(Units), Correct(u),
         EmptyLines(u) = {}, Len(u) - 1 \in LineEnds(u), LineEnds(b) = {},
         Len(u) + Len(b) - RequestLineEnd(u) - 1 > MAX_TOTAL_HEADERS,
         ~HalfEmptyLine(u \o b)
  PROVE  FinalError(u \o b, "HeaderFieldsTooLarge")
<1>1. /\ Len(u) \in Nat /\ Len(b) \in Nat /\ RequestLineEnd(u) \in Int
      /\ MAX_TOTAL_HEADERS \in Nat /\ LineEnds(u) \subseteq 1..(Len(u) - 1)
  BY LineEndsType, MessageAssumption DEF Correct, IsFirst
<1>2. Len(b) # 0
  <2>1. Len(u) - RequestLineEnd(u) - 1 <= MAX_TOTAL_HEADERS
    BY HeadFits
  <2> QED
    BY <1>1, <2>1
<1>3. ASSUME NEW t \in Seq(Units)
      PROVE  ErrorIn((u \o b) \o t) = "HeaderFieldsTooLarge"
  <2> DEFINE w == b \o t
             s == u \o w
  <2>1. /\ w \in Seq(Units) /\ (u \o b) \o t = s /\ Len(w) = Len(b) + Len(t)
        /\ Len(t) \in Nat /\ \A i \in 1..Len(b) : w[i] = b[i]
    <3>1. (u \o b) \o t = s
      BY JoinedThrice
    <3>2. /\ w \in Seq(Units) /\ Len(w) = Len(b) + Len(t)
          /\ Len(t) \in Nat /\ \A i \in 1..Len(b) : w[i] = b[i]
      BY Joined
    <3> QED
      BY <3>1, <3>2
  <2>2. \A i \in LineEnds(w) : (i = Len(b) /\ b[Len(b)] = CR) \/ i > Len(b)
    BY LinesKept
  <2>3. /\ s \in Seq(Units) /\ Len(s) = Len(u) + Len(w)
        /\ \A i \in 1..Len(w) : s[Len(u) + i] = w[i]
    BY <2>1, Joined
  <2>4. CASE LineEnds(w) = {}
    <3>1. LineEnds(s) = LineEnds(u)
      BY <2>1, <2>4, NoLine
    <3>2. ~HalfEmptyLine(s)
      <4> SUFFICES ASSUME HalfEmptyLine(s) PROVE FALSE
        OBVIOUS
      <4>1. Len(s) - 2 \in LineEnds(u)
        BY <3>1 DEF HalfEmptyLine
      <4>2. Len(t) = 0
        <5>1. Len(s) - 2 <= Len(u) - 1
          BY <1>1, <4>1
        <5> HIDE DEF s, w
        <5> QED
          BY <1>1, <1>2, <2>1, <2>3, <5>1
      <4>3. w = b
        BY <4>2, EmptySeq, ConcatEmptySeq
      <4> QED
        BY <4>3
    <3>3. ErrorIn(s) = IF Len(u) + Len(w) - RequestLineEnd(u) - 1 > MAX_TOTAL_HEADERS
                          /\ ~HalfEmptyLine(s)
                       THEN "HeaderFieldsTooLarge" ELSE "OK"
      BY <2>1, <2>4, HeadersOpen
    <3>4. Len(u) + Len(w) - RequestLineEnd(u) - 1 > MAX_TOTAL_HEADERS
      <4> HIDE DEF w
      <4> QED
        BY <1>1, <2>1
    <3> HIDE DEF s, w
    <3> QED
      BY <2>1, <3>2, <3>3, <3>4
  <2>5. CASE LineEnds(w) # {}
    <3>1. LineEnds(w) \in SUBSET Nat
      BY <2>1 DEF LineEnds
    <3>2. PICK e \in LineEnds(w) : IsFirst(e, LineEnds(w))
      BY <2>5, <3>1, FirstOne
    <3>3. e \in Nat /\ e >= Len(b)
      BY <1>1, <2>2, <3>1
    <3>4. e # 1
      <4> SUFFICES ASSUME e = 1 PROVE FALSE
        OBVIOUS
      <4>1. Len(b) = 1
        <5>1. 1 >= Len(b)
          BY <3>3
        <5>2. \A n \in Nat : n # 0 /\ 1 >= n => n = 1
          OBVIOUS
        <5>3. Len(b) \in Nat
          BY <1>1
        <5> QED
          BY ONLY <1>2, <5>1, <5>2, <5>3
      <4>2. b[1] = CR
        BY <2>2, <4>1
      <4>3. /\ Len(u \o b) = Len(u) + 1 /\ (u \o b)[Len(u) + 1] = b[1]
        <5>1. /\ Len(u \o b) = Len(u) + Len(b)
              /\ \A i \in 1..Len(b) : (u \o b)[Len(u) + i] = b[i]
          BY Joined
        <5>2. 1 \in 1..Len(b)
          BY <4>1
        <5> QED
          BY <4>1, <5>1, <5>2
      <4>4. Len(u \o b) - 2 = Len(u) - 1 /\ (u \o b)[Len(u \o b)] = CR
        BY <1>1, <4>2, <4>3
      <4>5. LineEnds(u) \subseteq LineEnds(u \o b)
        BY LinesKept
      <4> QED
        BY <4>4, <4>5 DEF HalfEmptyLine
    <3>5. OverLimit(s, Len(u) + e)
      <4>1. Len(u) - RequestLineEnd(u) - 1 + (e + 1) > MAX_TOTAL_HEADERS
        BY <1>1, <3>3
      <4> QED
        BY <2>1, <3>2, <3>4, <4>1, NextLineLimits
    <3>6. ErrorIn(s) = IF OverLimit(s, Len(u) + e) THEN "HeaderFieldsTooLarge" ELSE "BadRequest"
      BY <2>1, <3>2, <3>4, <3>5, BadLine
    <3> HIDE DEF s
    <3> QED
      BY <2>1, <3>5, <3>6
  <2> QED
    BY <2>4, <2>5
<1> QED
  BY <1>3 DEF FinalError

\* Map g is map f with value x for key k.
IsUpdate(g, f, k, x) ==
    /\ DOMAIN g = DOMAIN f \cup {k}
    /\ \A n \in DOMAIN f \cup {k} : g[n] = IF n = k THEN x ELSE f[n]

\* A good header line joins those read so far, and its value replaces an
\* earlier one of the same name.
LEMMA LineAdded ==
  ASSUME NEW u \in Seq(Units), NEW b \in Seq(Units), NEW e, Correct(u),
         EmptyLines(u) = {}, Len(u) - 1 \in LineEnds(u), IsFirst(e, LineEnds(b)), e # 1,
         ~(\/ e - 1 > MAX_HEADER_SIZE
           \/ Cardinality(HeaderEnds(u)) >= MAX_HEADER_COUNT
           \/ Len(u) - RequestLineEnd(u) - 1 + (e + 1) > MAX_TOTAL_HEADERS),
         ~HeaderMalformed(SubSeq(b, 1, e - 1))
  PROVE  LET v     == u \o SubSeq(b, 1, e + 1)
             name  == HeaderName(SubSeq(b, 1, e - 1))
             value == HeaderValue(SubSeq(b, 1, e - 1))
         IN  /\ v \in Seq(Units) /\ Correct(v) /\ EmptyLines(v) = {}
             /\ Len(v) - 1 \in LineEnds(v) /\ Len(v) = Len(u) + e + 1
             /\ RequestLineEnd(v) = RequestLineEnd(u)
             /\ Cardinality(HeaderEnds(v)) = Cardinality(HeaderEnds(u)) + 1
             /\ Parts(v) = Parts(u)
             /\ IsUpdate(HeaderMap(v), HeaderMap(u), name, value)
<1> DEFINE b2 == SubSeq(b, 1, e + 1)
           line == SubSeq(b, 1, e - 1)
           v == u \o b2
           q == Len(u) + e
<1>1. /\ b2 \in Seq(Units) /\ Len(b2) = e + 1 /\ b2[Len(b2)] = LF
      /\ IsFirst(e, LineEnds(b2)) /\ SubSeq(b2, 1, e - 1) = line
  BY FirstLine
<1>2. e \in Nat \ {0}
  BY RequestLineThere
<1> HIDE DEF b2
<1>3. /\ v \in Seq(Units) /\ Len(v) = Len(u) + e + 1 /\ Len(u) \in Nat
      /\ v[Len(u) + (e + 1)] = b2[e + 1]
  <2>1. e + 1 \in 1..Len(b2)
    BY <1>1, <1>2
  <2>2. /\ v \in Seq(Units) /\ Len(v) = Len(u) + Len(b2) /\ Len(u) \in Nat
        /\ \A i \in 1..Len(b2) : v[Len(u) + i] = b2[i]
    BY <1>1, Joined
  <2> QED
    BY <1>1, <1>2, <2>1, <2>2
<1>4. /\ q \in LineEnds(v) /\ q \in Nat /\ HeaderText(v, q) = line
      /\ \A x \in EmptyLines(v) : q < x
      /\ {f \in HeaderEnds(v) : f <= q} = HeaderEnds(u) \cup {q}
      /\ q \in HeaderEnds(v) /\ q \notin HeaderEnds(u)
  BY <1>1, NextLine
<1>5. /\ IsFirst(RequestLineEnd(u), LineEnds(v)) /\ RequestLineEnd(v) = RequestLineEnd(u)
      /\ RequestLineCode(v) = "OK" /\ Parts(v) = Parts(u)
      /\ \A f \in HeaderEnds(u) : /\ HeaderText(v, f) = HeaderText(u, f)
                                  /\ OverLimit(v, f) <=> OverLimit(u, f)
  BY <1>1, HeadKept DEF Correct
<1> HIDE DEF v
<1>6. /\ LineEnds(v) \subseteq 1..(Len(v) - 1) /\ HeaderEnds(v) \subseteq LineEnds(v)
      /\ EmptyLines(v) \subseteq LineEnds(v)
      /\ HeaderEnds(u) \subseteq 1..(Len(u) - 1) /\ IsFiniteSet(HeaderEnds(u))
  BY <1>3, LineEndsType
<1>7. \A x \in LineEnds(v) : x <= q /\ x \in Int
  BY <1>2, <1>3, <1>6
<1>8. EmptyLines(v) = {}
  BY <1>4, <1>6, <1>7
<1>9. HeaderEnds(v) = HeaderEnds(u) \cup {q}
  BY <1>4, <1>6, <1>7
<1>10. Cardinality(HeaderEnds(v)) = Cardinality(HeaderEnds(u)) + 1
  BY <1>4, <1>6, <1>9, FS_AddElement
<1>11. ~OverLimit(v, q)
  <2>1. OverLimit(u \o b2, Len(u) + e) <=>
            \/ e - 1 > MAX_HEADER_SIZE
            \/ Cardinality(HeaderEnds(u)) >= MAX_HEADER_COUNT
            \/ Len(u) - RequestLineEnd(u) - 1 + (e + 1) > MAX_TOTAL_HEADERS
    BY <1>1, NextLineLimits
  <2> QED
    BY <2>1 DEF v
<1>12. BadHeaders(v) = {}
  <2>1. ~(OverLimit(v, q) \/ HeaderMalformed(HeaderText(v, q)))
    BY <1>4, <1>11
  <2>2. \A f \in HeaderEnds(u) : ~(OverLimit(u, f) \/ HeaderMalformed(HeaderText(u, f)))
    BY DEF Correct, BadHeaders
  <2>3. \A f \in HeaderEnds(u) : ~(OverLimit(v, f) \/ HeaderMalformed(HeaderText(v, f)))
    BY <2>2, <1>5
  <2>4. \A f \in HeaderEnds(v) : ~(OverLimit(v, f) \/ HeaderMalformed(HeaderText(v, f)))
    BY <2>1, <2>3, <1>9
  <2> QED
    BY <2>4 DEF BadHeaders
<1>13. Correct(v)
  <2>1. v[Len(v)] = LF /\ v # <<>>
    <3>1. Len(v) = Len(u) + (e + 1) /\ Len(v) # 0
      BY <1>2, <1>3
    <3>2. b2[e + 1] = LF
      BY <1>1
    <3> QED
      BY <1>3, <3>1, <3>2, EmptySeq
  <2> QED
    BY <2>1, <1>5, <1>12 DEF Correct
<1>14. Len(v) - 1 \in LineEnds(v)
  BY <1>2, <1>3, <1>4
<1> DEFINE N(t, f) == HeaderName(HeaderText(t, f))
           D(t) == {N(t, f) : f \in HeaderEnds(t)}
           S(t, n) == {f \in HeaderEnds(t) : N(t, f) = n}
           M(t) == [n \in D(t) |-> HeaderValue(HeaderText(t, MaxOf(S(t, n))))]
           name == HeaderName(line)
<1>15. N(v, q) = name /\ \A f \in HeaderEnds(u) : N(v, f) = N(u, f)
  BY <1>4, <1>5
<1>16. D(v) = D(u) \cup {name}
  <2> HIDE DEF N, name
  <2> QED
    BY <1>9, <1>15
<1>17. MaxOf(S(v, name)) = q
  <2>1. q \in S(v, name) /\ S(v, name) \in SUBSET Int
    BY <1>4, <1>6, <1>7, <1>15
  <2>2. \A f \in S(v, name) : f <= q
    BY <1>6, <1>7
  <2> HIDE DEF S
  <2> QED
    BY <2>1, <2>2, MaxIs
<1>18. ASSUME NEW n \in D(u), n # name
       PROVE  /\ MaxOf(S(v, n)) = MaxOf(S(u, n)) /\ MaxOf(S(u, n)) \in HeaderEnds(u)
  <2>1. S(v, n) = S(u, n)
    <3> HIDE DEF N, name
    <3> QED
      BY <1>9, <1>15, <1>18
  <2>2. S(u, n) # {} /\ S(u, n) \in SUBSET (1..Len(u)) /\ S(u, n) \subseteq HeaderEnds(u)
    <3>1. HeaderEnds(u) \subseteq 1..Len(u)
      BY <1>3, <1>6
    <3> HIDE DEF N
    <3> QED
      BY <3>1
  <2> HIDE DEF S, D
  <2>3. MaxOf(S(u, n)) \in S(u, n)
    BY <2>2, <1>3, LastOne
  <2> QED
    BY <2>1, <2>2, <2>3
<1>19. HeaderMap(v) = M(v) /\ HeaderMap(u) = M(u)
  BY DEF HeaderMap
<1>20. M(v) = [n \in D(u) \cup {name} |-> IF n = name THEN HeaderValue(line) ELSE M(u)[n]]
  <2>1. ASSUME NEW n \in D(u) \cup {name}
        PROVE  HeaderValue(HeaderText(v, MaxOf(S(v, n))))
                  = IF n = name THEN HeaderValue(line) ELSE M(u)[n]
    <3>1. CASE n = name
      BY <3>1, <1>4, <1>17
    <3>2. CASE n # name
      <4>1. n \in D(u)
        BY <3>2
      <4>2. M(u)[n] = HeaderValue(HeaderText(u, MaxOf(S(u, n))))
        <5> HIDE DEF D, S
        <5> QED
          BY <4>1
      <4>3. HeaderText(v, MaxOf(S(v, n))) = HeaderText(u, MaxOf(S(u, n)))
        <5>1. /\ MaxOf(S(v, n)) = MaxOf(S(u, n)) /\ MaxOf(S(u, n)) \in HeaderEnds(u)
          BY <3>2, <4>1, <1>18
        <5> HIDE DEF S
        <5> QED
          BY <5>1, <1>5
      <4> HIDE DEF M, S, D
      <4> QED
        BY <3>2, <4>2, <4>3
    <3> QED
      BY <3>1, <3>2
  <2> HIDE DEF S, D, N, name, line
  <2> QED
    BY <2>1, <1>16
<1>21. DOMAIN M(u) = D(u)
  <2> HIDE DEF S, D
  <2> QED
    OBVIOUS
<1>22. IsUpdate(HeaderMap(v), HeaderMap(u), name, HeaderValue(line))
  <2> HIDE DEF M, D, name, line
  <2> QED
    BY <1>19, <1>20, <1>21 DEF IsUpdate
<1> QED
  BY <1>3, <1>5, <1>8, <1>10, <1>13, <1>14, <1>22 DEF v, b2

\* The empty line after the headers.
LEMMA HeadersEnd ==
  ASSUME NEW u \in Seq(Units), NEW b \in Seq(Units), Correct(u),
         EmptyLines(u) = {}, Len(u) - 1 \in LineEnds(u), 1 \in LineEnds(b)
  PROVE  LET v == u \o SubSeq(b, 1, 2)
         IN  /\ v \in Seq(Units) /\ Correct(v) /\ Len(v) = Len(u) + 2
             /\ EmptyLines(v) = {Len(v) - 1} /\ HeadOf(v) = HeadOf(u)
<1> DEFINE b2 == SubSeq(b, 1, 1 + 1)
           v == u \o b2
<1>1. IsFirst(1, LineEnds(b))
  <2>1. LineEnds(b) \subseteq 1..(Len(b) - 1)
    BY LineEndsType
  <2> QED
    BY <2>1 DEF IsFirst
<1>2. /\ b2 \in Seq(Units) /\ Len(b2) = 2 /\ b2[Len(b2)] = LF /\ IsFirst(1, LineEnds(b2))
  <2>1. /\ b2 \in Seq(Units) /\ Len(b2) = 1 + 1 /\ b2[Len(b2)] = LF /\ IsFirst(1, LineEnds(b2))
    BY <1>1, FirstLine
  <2> QED
    BY <2>1
<1> HIDE DEF b2
<1>3. /\ v \in Seq(Units) /\ Len(v) = Len(u) + 2 /\ Len(u) \in Nat /\ v[Len(u) + 2] = b2[2]
  <2>1. /\ v \in Seq(Units) /\ Len(v) = Len(u) + Len(b2) /\ Len(u) \in Nat
        /\ \A i \in 1..Len(b2) : v[Len(u) + i] = b2[i]
    BY <1>2, Joined
  <2>2. 2 \in 1..Len(b2)
    BY <1>2
  <2> QED
    BY <1>2, <2>1, <2>2
<1>4. /\ Len(u) + 1 \in EmptyLines(v) /\ \A x \in EmptyLines(v) : Len(u) + 1 <= x
      /\ \A i \in LineEnds(v) : i < Len(u) + 1 <=> i \in LineEnds(u)
  BY <1>2, NextLine
<1>5. /\ IsFirst(RequestLineEnd(u), LineEnds(v)) /\ RequestLineEnd(v) = RequestLineEnd(u)
      /\ RequestLineCode(v) = "OK"
  BY <1>2, HeadKept DEF Correct
<1>6. /\ LineEnds(v) \subseteq 1..(Len(v) - 1) /\ HeaderEnds(v) \subseteq LineEnds(v)
      /\ EmptyLines(v) \subseteq LineEnds(v)
  BY <1>3, LineEndsType
<1>7. EmptyLines(v) = {Len(v) - 1}
  <2>1. \A x \in EmptyLines(v) : x = Len(u) + 1
    BY <1>3, <1>4, <1>6
  <2>2. Len(v) - 1 = Len(u) + 1
    BY <1>3
  <2> QED
    BY <1>4, <2>1, <2>2
<1>8. \A f \in HeaderEnds(v) : f <= Len(u)
  <2>1. \A f \in HeaderEnds(v) : f < Len(u) + 1
    BY <1>4 DEF HeaderEnds
  <2> QED
    BY <2>1, <1>3, <1>6
<1>9. BadHeaders(v) = {} /\ HeadOf(v) = HeadOf(u)
  BY <1>2, <1>8, SameHeaders
<1>10. v[Len(v)] = LF /\ v # <<>>
  <2>1. v[Len(v)] = b2[2] /\ b2[2] = LF /\ Len(v) # 0
    BY <1>2, <1>3
  <2> QED
    BY <2>1, <1>3, EmptySeq
<1> HIDE DEF v
<1>11. Correct(v)
  BY <1>5, <1>9, <1>10 DEF Correct
<1>12. 1 + 1 = 2
  OBVIOUS
<1> QED
  BY <1>3, <1>7, <1>9, <1>11, <1>12 DEF v, b2

\* In the body: the headers are over, and the request is complete when the
\* buffer holds as much as content_length() says.
LEMMA InBody ==
  ASSUME NEW u \in Seq(Units), NEW b \in Seq(Units), Correct(u),
         EmptyLines(u) = {Len(u) - 1}
  PROVE  LET r == HeadOf(u)
             s == u \o b
             n == content_length(r)
         IN  /\ n \in Nat
             /\ ErrorIn(s) = IF n > MAX_BODY_SIZE THEN "PayloadTooLarge"
                             ELSE IF r.method = <<"POST">> /\ ~HasContentLength(r)
                             THEN "BadRequest" ELSE "OK"
             /\ Len(b) >= n => Meaning(s) = [r EXCEPT !.body = SubSeq(b, 1, n)]
             /\ HoldsRequest(s) <=> ErrorIn(s) = "OK" /\ Len(b) >= n
<1> DEFINE s == u \o b
           r == HeadOf(u)
           n == content_length(r)
           start == MinOf(EmptyLines(s)) + 2
           body == SubSeq(s, start, MinOf({Len(s), start + n - 1}))
<1>1. s \in Seq(Units) /\ Len(s) = Len(u) + Len(b) /\ Len(u) \in Nat /\ Len(b) \in Nat
  BY Joined
<1>2. /\ RequestLineEnd(s) = RequestLineEnd(u) /\ RequestLineCode(s) = "OK"
      /\ IsFirst(RequestLineEnd(u), LineEnds(s))
      /\ \A i \in 1..Len(u) : i \in EmptyLines(s) <=> i \in EmptyLines(u)
  BY HeadKept DEF Correct
<1>3. /\ EmptyLines(s) \subseteq LineEnds(s) /\ LineEnds(s) \subseteq 1..(Len(s) - 1)
      /\ HeaderEnds(s) \subseteq LineEnds(s)
      /\ LineEnds(u) \subseteq 1..(Len(u) - 1) /\ EmptyLines(u) \subseteq LineEnds(u)
  BY <1>1, LineEndsType
<1>4. Len(u) - 1 \in EmptyLines(s) /\ \A x \in EmptyLines(s) : Len(u) - 1 <= x
  <2>1. Len(u) - 1 \in 1..Len(u)
    BY <1>1, <1>3
  <2>2. Len(u) - 1 \in EmptyLines(s)
    BY <2>1, <1>2
  <2>3. ASSUME NEW x \in EmptyLines(s) PROVE Len(u) - 1 <= x
    <3>1. x \in 1..Len(u) => x = Len(u) - 1
      BY <1>2
    <3>2. x \in Nat \ {0}
      BY <1>1, <1>3
    <3> QED
      BY <3>1, <3>2, <1>1
  <2> QED
    BY <2>2, <2>3
<1>5. start = Len(u) + 1
  <2>1. EmptyLines(s) \in SUBSET Int
    BY <1>1, <1>3
  <2>2. MinOf(EmptyLines(s)) = Len(u) - 1
    BY <2>1, <1>4, MinIs DEF IsFirst
  <2> QED
    BY <2>2, <1>1
<1>6. \A e \in HeaderEnds(s) : e <= Len(u)
  <2>1. \A e \in HeaderEnds(s) : e < Len(u) - 1
    BY <1>4 DEF HeaderEnds
  <2> QED
    BY <2>1, <1>1, <1>3
<1>7. BadHeaders(s) = {} /\ HeadOf(s) = r
  BY <1>6, SameHeaders
<1>8. n \in Nat
  BY MessageAssumption DEF content_length
<1>9. Meaning(s) = [r EXCEPT !.body = body]
  <2> DEFINE h == [method |-> Parts(s).method, target |-> Parts(s).target,
                   version |-> Parts(s).version, headers |-> HeaderMap(s), body |-> <<>>]
  <2>1. h = r
    BY <1>7 DEF HeadOf
  <2>2. Meaning(s) = [h EXCEPT !.body =
            SubSeq(s, start, MinOf({Len(s), start + content_length(h) - 1}))]
    BY DEF Meaning, Parts
  <2> HIDE DEF h
  <2> QED
    BY <2>1, <2>2
<1>10. /\ Meaning(s).method = r.method /\ Meaning(s).headers = r.headers
       /\ Meaning(s).body = body
  <2>1. r = [method |-> Parts(u).method, target |-> Parts(u).target,
             version |-> Parts(u).version, headers |-> HeaderMap(u), body |-> <<>>]
    BY DEF HeadOf
  <2> HIDE DEF r, body
  <2> QED
    BY <2>1, <1>9
<1>11. content_length(Meaning(s)) = n /\ (HasContentLength(Meaning(s)) <=> HasContentLength(r))
  BY <1>10 DEF content_length, HasContentLength
<1>12. /\ Len(b) >= n => body = SubSeq(b, 1, n) /\ Len(body) = n
       /\ Len(b) < n => Len(body) = Len(b)
  <2> DEFINE end == IF Len(b) >= n THEN n ELSE Len(b)
  <2>1. end \in Nat /\ end <= Len(b)
    BY <1>1, <1>8
  <2>2. MinOf({Len(s), start + n - 1}) = Len(u) + end
    <3>1. start + n - 1 = Len(u) + n
      BY <1>1, <1>5, <1>8
    <3>2. {Len(s), Len(u) + n} \in SUBSET Int
      BY <1>1, <1>8
    <3>3. IsFirst(Len(u) + end, {Len(s), Len(u) + n})
      BY <1>1, <1>8 DEF IsFirst
    <3> HIDE DEF start, end, n, s
    <3> QED
      BY <3>1, <3>2, <3>3, MinIs
  <2> HIDE DEF end
  <2>3. body = SubSeq(b, 1, end)
    <3>1. SubSeq(u \o b, Len(u) + 1, Len(u) + end) = SubSeq(b, 1, end)
      <4>1. 1 \in Nat \ {0}
        OBVIOUS
      <4> QED
        BY <2>1, <4>1, PartOfSecond
    <3>2. body = SubSeq(u \o b, Len(u) + 1, Len(u) + end)
      BY <2>2, <1>5
    <3> QED
      BY <3>1, <3>2
  <2>4. Len(SubSeq(b, 1, end)) = end
    <3>1. end \in 0..Len(b)
      BY <2>1, <1>1
    <3> QED
      BY <3>1, CutText
  <2> HIDE DEF body, n
  <2>5. Len(b) >= n => end = n
    BY DEF end
  <2>6. Len(b) < n => end = Len(b)
    BY <1>1, <1>8 DEF end
  <2> QED
    BY <2>3, <2>4, <2>5, <2>6
<1>13. ErrorIn(s) = IF n > MAX_BODY_SIZE THEN "PayloadTooLarge"
                    ELSE IF r.method = <<"POST">> /\ ~HasContentLength(r)
                    THEN "BadRequest" ELSE "OK"
  <2>1. LineEnds(s) # {} /\ EmptyLines(s) # {}
    BY <1>3, <1>4
  <2> HIDE DEF s, r, n
  <2> QED
    BY <2>1, <1>2, <1>7, <1>10, <1>11 DEF ErrorIn
<1>14. HoldsRequest(s) <=> ErrorIn(s) = "OK" /\ Len(b) >= n
  <2>1. EmptyLines(s) # {}
    BY <1>4
  <2>2. Len(body) = n <=> Len(b) >= n
    <3> HIDE DEF body, n
    <3> QED
      BY <1>1, <1>8, <1>12
  <2>3. Len(Meaning(s).body) = content_length(Meaning(s)) <=> Len(b) >= n
    <3> HIDE DEF body, n, s
    <3> QED
      BY <1>10, <1>11, <2>2
  <2> HIDE DEF s, n
  <2> QED
    BY <2>1, <2>3 DEF HoldsRequest
<1>15. Len(b) >= n => Meaning(s) = [r EXCEPT !.body = SubSeq(b, 1, n)]
  <2> HIDE DEF s, n, body, r
  <2> QED
    BY <1>9, <1>12
<1> QED
  BY <1>8, <1>13, <1>14, <1>15

\* Whatever follows, the headers mean the same, and so does a complete body.
LEMMA BodyFinal ==
  ASSUME NEW u \in Seq(Units), NEW b \in Seq(Units), Correct(u),
         EmptyLines(u) = {Len(u) - 1}
  PROVE  LET r == HeadOf(u)
             s == u \o b
             n == content_length(r)
         IN  /\ FinalError(s, ErrorIn(s))
             /\ HoldsRequest(s) => FinalRequest(s, [r EXCEPT !.body = SubSeq(b, 1, n)])
             /\ ~CutAtLimit(s)
<1> DEFINE r == HeadOf(u)
           s == u \o b
           n == content_length(r)
           code == IF n > MAX_BODY_SIZE THEN "PayloadTooLarge"
                   ELSE IF r.method = <<"POST">> /\ ~HasContentLength(r)
                   THEN "BadRequest" ELSE "OK"
           full == [r EXCEPT !.body = SubSeq(b, 1, n)]
<1>1. /\ n \in Nat /\ ErrorIn(s) = code
      /\ HoldsRequest(s) <=> ErrorIn(s) = "OK" /\ Len(b) >= n
  BY InBody
<1>2. Len(b) \in Nat
  BY LenProperties
<1>3. ASSUME NEW t \in Seq(Units)
      PROVE  /\ ErrorIn(s \o t) = code
             /\ HoldsRequest(s) => HoldsRequest(s \o t) = TRUE /\ Meaning(s \o t) = full
  <2> DEFINE w == b \o t
  <2>1. w \in Seq(Units) /\ s \o t = u \o w /\ Len(w) = Len(b) + Len(t) /\ Len(t) \in Nat
    <3>1. s \o t = u \o w
      BY JoinedThrice
    <3>2. w \in Seq(Units) /\ Len(w) = Len(b) + Len(t) /\ Len(t) \in Nat
      BY Joined
    <3> QED
      BY <3>1, <3>2
  <2>2. /\ ErrorIn(u \o w) = code
        /\ Len(w) >= n => Meaning(u \o w) = [r EXCEPT !.body = SubSeq(w, 1, n)]
        /\ HoldsRequest(u \o w) <=> ErrorIn(u \o w) = "OK" /\ Len(w) >= n
    BY <2>1, InBody
  <2>3. Len(b) >= n => Len(w) >= n /\ SubSeq(w, 1, n) = SubSeq(b, 1, n)
    <3> SUFFICES ASSUME Len(b) >= n PROVE Len(w) >= n /\ SubSeq(w, 1, n) = SubSeq(b, 1, n)
      OBVIOUS
    <3> HIDE DEF n
    <3>1. n \in Int /\ n <= Len(b) /\ 1 \in Int
      BY <1>1, <1>2
    <3>2. SubSeq(w, 1, n) = SubSeq(b, 1, n)
      BY <3>1, PartOfFirst
    <3> HIDE DEF w
    <3>3. Len(w) >= n
      BY <1>1, <1>2, <2>1
    <3> QED
      BY <3>2, <3>3
  <2>4. HoldsRequest(s \o t) \in BOOLEAN
    BY ErrorOrRequest
  <2> HIDE DEF w, s, n, r, code
  <2>5. HoldsRequest(s) => HoldsRequest(s \o t) = TRUE
    BY <1>1, <2>1, <2>2, <2>3, <2>4
  <2>6. HoldsRequest(s) => Meaning(s \o t) = full
    BY <1>1, <2>1, <2>2, <2>3
  <2> QED
    BY <2>1, <2>2, <2>5, <2>6
<1>4. ~CutAtLimit(s)
  <2>1. Len(u) \in Nat /\ Len(u) - 1 \in LineEnds(u) /\ LineEnds(u) \subseteq 1..(Len(u) - 1)
    BY LineEndsType
  <2>2. \A i \in 1..Len(u) : i \in EmptyLines(s) <=> i \in EmptyLines(u)
    BY HeadKept DEF Correct
  <2>3. Len(u) - 1 \in EmptyLines(s)
    BY <2>1, <2>2
  <2>4. LineEnds(s) # {}
    BY <2>3 DEF EmptyLines
  <2> HIDE DEF s
  <2> QED
    BY <2>3, <2>4 DEF CutAtLimit
<1> HIDE DEF s, code, full
<1>5. FinalError(s, ErrorIn(s))
  BY <1>1, <1>3 DEF FinalError
<1>6. HoldsRequest(s) => FinalRequest(s, full)
  BY <1>3 DEF FinalRequest
<1> QED
  BY <1>4, <1>5, <1>6 DEF s, full

\* What is final is true now, and stays final.
LEMMA Finally ==
  ASSUME NEW s \in Seq(Units), NEW d \in Seq(Units), NEW x
  PROVE  /\ FinalError(s, x) => ErrorIn(s) = x /\ ErrorIn(s \o d) = x
                                /\ FinalError(s \o d, x)
         /\ FinalRequest(s, x) => /\ HoldsRequest(s) = TRUE /\ Meaning(s) = x
                                  /\ HoldsRequest(s \o d) = TRUE
                                  /\ FinalRequest(s \o d, x)
<1>1. s \o <<>> = s /\ <<>> \in Seq(Units)
  BY ConcatEmptySeq
<1>2. \A t \in Seq(Units) : d \o t \in Seq(Units) /\ (s \o d) \o t = s \o (d \o t)
  BY Joined, JoinedThrice
<1>3. ASSUME FinalError(s, x) PROVE ErrorIn(s) = x /\ ErrorIn(s \o d) = x /\ FinalError(s \o d, x)
  <2>1. \A t \in Seq(Units) : ErrorIn(s \o t) = x
    BY <1>3 DEF FinalError
  <2>2. ErrorIn(s) = x
    BY <1>1, <2>1
  <2>3. \A t \in Seq(Units) : ErrorIn((s \o d) \o t) = x
    BY <1>2, <2>1
  <2> QED
    BY <2>1, <2>2, <2>3 DEF FinalError
<1>4. ASSUME FinalRequest(s, x)
      PROVE  /\ HoldsRequest(s) = TRUE /\ Meaning(s) = x
             /\ HoldsRequest(s \o d) = TRUE /\ FinalRequest(s \o d, x)
  <2>1. \A t \in Seq(Units) : HoldsRequest(s \o t) = TRUE /\ Meaning(s \o t) = x
    BY <1>4 DEF FinalRequest
  <2>2. HoldsRequest(s) = TRUE /\ Meaning(s) = x
    BY <1>1, <2>1
  <2>3. \A t \in Seq(Units) : HoldsRequest((s \o d) \o t) = TRUE /\ Meaning((s \o d) \o t) = x
    BY <1>2, <2>1
  <2> QED
    BY <2>1, <2>2, <2>3 DEF FinalRequest
<1> QED
  BY <1>3, <1>4

-----------------------------------------------------------------------------
(* What each step does to the bookkeeping                                  *)

\* Taking the rest off a text leaves its first part.
LEMMA ReadIs ==
  ASSUME NEW u \in Seq(Units), NEW b \in Seq(Units)
  PROVE  SubSeq(u \o b, 1, Len(u \o b) - Len(b)) = u
<1>1. Len(u \o b) - Len(b) = Len(u) /\ Len(u) \in Int /\ Len(u) <= Len(u) /\ 1 \in Int
  BY Joined
<1>2. SubSeq(u \o b, 1, Len(u)) = SubSeq(u, 1, Len(u))
  BY <1>1, PartOfFirst
<1> QED
  BY <1>1, <1>2, SubSeqFull

\* What was read is text.
LEMMA ReadType == ASSUME TypeOK PROVE Read \in Seq(Units)
<1>1. Len(fed) \in Nat /\ Len(buffer) \in Nat /\ fed \in Seq(Units)
  BY LenProperties DEF TypeOK
<1>2. \A j \in 1..(Len(fed) - Len(buffer)) : fed[j] \in Units
  BY <1>1, ElementOfSeq
<1> QED
  BY <1>1, <1>2, SubSeqProperties DEF Read

\* What was read, after a step.
LEMMA ReadAfter ==
  ASSUME NEW u \in Seq(Units), buffer' \in Seq(Units), fed' = u \o buffer'
  PROVE  Read' = u
BY ReadIs DEF Read

\* Lines that are taken off buffer_ join those read.
LEMMA ReadMore ==
  ASSUME NEW u \in Seq(Units), NEW b \in Seq(Units), NEW n \in 0..Len(b),
         fed' = u \o b, buffer' = From(b, n + 1)
  PROVE  LET v == u \o SubSeq(b, 1, n)
         IN  v \in Seq(Units) /\ fed' = v \o buffer' /\ Read' = v
<1> DEFINE h == SubSeq(b, 1, n)
           v == u \o h
<1>1. h \in Seq(Units) /\ From(b, n + 1) \in Seq(Units) /\ b = h \o From(b, n + 1)
  BY CutText
<1> HIDE DEF h
<1>2. v \in Seq(Units)
  BY <1>1, ConcatProperties
<1>3. fed' = v \o buffer'
  <2> DEFINE r == From(b, n + 1)
  <2>1. r \in Seq(Units) /\ h \in Seq(Units) /\ fed' = u \o (h \o r) /\ buffer' = r
    BY <1>1
  <2> HIDE DEF r
  <2>2. (u \o h) \o r = u \o (h \o r)
    BY <2>1, JoinedThrice
  <2> QED
    BY <2>1, <2>2
<1> HIDE DEF v
<1>4. Read' = v
  BY <1>1, <1>2, <1>3, ReadAfter
<1> QED
  BY <1>2, <1>3, <1>4 DEF v, h

\* ERROR is the right verdict on a text that stays wrong with that code, or that
\* ends where the parser counts half a line end.
LEMMA FailVerdict ==
  ASSUME Inv, pc = "parse", NEW code, code # "OK",
         FinalError(fed, code) \/ /\ CutAtLimit(fed)
                                  /\ code \in {"URITooLong", "HeaderFieldsTooLarge"},
         state' = "ERROR", error_code' = code, pc' = "idle", UNCHANGED <<fed, given, cut>>
  PROVE  Bookkeeping'
<1>1. given = NoRequest /\ cut = CutAtLimit(fed) /\ fed \in Seq(Units)
  BY DEF Inv, IInv, TypeOK, Bookkeeping, Control, CutSeen
<1>2. AtRequestLine' /\ AtHeaders' /\ AtBody'
  BY DEF AtRequestLine, AtHeaders, AtBody
<1>3. Control'
  BY <1>1 DEF Control
<1>4. CASE FinalError(fed, code)
  <2>1. ErrorIn(fed) = code
    BY <1>1, <1>4, Finally
  <2>2. ~cut
    BY <1>1, <2>1 DEF CutAtLimit
  <2>3. Verdict' /\ CutSeen'
    BY <1>4, <2>2 DEF Verdict, CutSeen
  <2> QED
    BY <1>2, <1>3, <2>3 DEF Bookkeeping
<1>5. CASE CutAtLimit(fed) /\ code \in {"URITooLong", "HeaderFieldsTooLarge"}
  <2>1. cut
    BY <1>1, <1>5
  <2>2. Verdict' /\ CutSeen'
    BY <1>5, <2>1 DEF Verdict, CutSeen
  <2> QED
    BY <1>2, <1>3, <2>2 DEF Bookkeeping
<1> QED
  BY <1>4, <1>5

\* INCOMPLETE is the right verdict on text without a mistake or a request.
LEMMA WaitVerdict ==
  ASSUME Inv, pc = "parse", NeedsMore, ErrorIn(fed) = "OK", ~HoldsRequest(fed),
         ~CutAtLimit(fed)
  PROVE  Bookkeeping'
<1> USE DEF NeedsMore, parserVars, clientVars
<1>1. Bookkeeping
  BY DEF Inv
<1>2. AtRequestLine' /\ AtHeaders' /\ AtBody'
  <2>1. Read' = Read
    BY DEF Read
  <2> QED
    BY <1>1, <2>1 DEF Bookkeeping, AtRequestLine, AtHeaders, AtBody
<1>3. state # "COMPLETE" /\ state # "ERROR" /\ error_code = "OK" /\ ~cut
  BY <1>1 DEF Bookkeeping, Control, CutSeen
<1>4. Control'
  BY <1>1, <1>3 DEF Bookkeeping, Control
<1>5. Verdict' /\ CutSeen'
  BY <1>3 DEF Verdict, CutSeen
<1> QED
  BY <1>2, <1>4, <1>5 DEF Bookkeeping

\* feed() is entered: the text grows at its end, or the parser is done and what
\* it said stays true.
LEMMA FeedVerdict ==
  ASSUME Inv, NEW k \in 1..Len(stream), Feed(k)
  PROVE  Bookkeeping'
<1> DEFINE data == SubSeq(stream, sent + 1, sent + k)
<1>1. TypeOK /\ Bookkeeping
  BY DEF Inv, IInv
<1>2. UNCHANGED <<state, request, error_code, headers_size, header_count, given>>
      /\ pc = "idle" /\ fed' = fed \o data /\ cut' = (cut \/ CutAtLimit(fed'))
  BY DEF Feed
<1>3. data \in Seq(Units) /\ fed \in Seq(Units) /\ cut \in BOOLEAN
  <2>1. stream \in Seq(Units) /\ sent \in Nat /\ k \in Nat /\ sent + k <= Len(stream)
    BY <1>1, StreamAssumption DEF TypeOK, Feed
  <2> QED
    BY <1>1, <2>1, ChunkType DEF TypeOK
<1>4. CASE state \in {"ERROR", "COMPLETE"}
  <2>1. UNCHANGED <<buffer, pc>>
    BY <1>4 DEF Feed
  <2> HIDE DEF data
  <2>2. AtRequestLine' /\ AtHeaders' /\ AtBody'
    BY <1>2, <1>4 DEF AtRequestLine, AtHeaders, AtBody
  <2>3. Control'
    BY <1>1, <1>2, <2>1 DEF Bookkeeping, Control
  <2>4. Verdict /\ CutSeen
    BY <1>1 DEF Bookkeeping
  <2>5. CASE state = "ERROR" /\ ~cut
    <3>1. error_code # "OK" /\ FinalError(fed, error_code)
      BY <2>4, <2>5 DEF Verdict
    <3>2. ErrorIn(fed') = error_code /\ FinalError(fed', error_code)
      BY <1>2, <1>3, <3>1, Finally
    <3>3. ~CutAtLimit(fed')
      BY <3>1, <3>2 DEF CutAtLimit
    <3>4. ~cut'
      BY <1>2, <2>5, <3>3
    <3>5. Verdict' /\ CutSeen'
      BY <1>2, <2>1, <2>5, <3>1, <3>2, <3>4 DEF Verdict, CutSeen
    <3> QED
      BY <2>2, <2>3, <3>5 DEF Bookkeeping
  <2>6. CASE state = "ERROR" /\ cut
    <3>1. error_code \in {"URITooLong", "HeaderFieldsTooLarge"} /\ cut'
      BY <1>2, <2>4, <2>6 DEF CutSeen
    <3>2. Verdict' /\ CutSeen'
      BY <1>2, <2>1, <2>6, <3>1 DEF Verdict, CutSeen
    <3> QED
      BY <2>2, <2>3, <3>2 DEF Bookkeeping
  <2>7. CASE state = "COMPLETE"
    <3> DEFINE r == IF given = NoRequest THEN request ELSE given
    <3>1. ~cut /\ FinalRequest(fed, r)
      BY <2>4, <2>7 DEF Verdict
    <3> HIDE DEF r
    <3>2. HoldsRequest(fed') = TRUE /\ FinalRequest(fed', r)
      BY <1>2, <1>3, <3>1, Finally
    <3>3. ~CutAtLimit(fed')
      BY <3>2, NoCutInRequest
    <3>4. ~cut'
      BY <1>2, <3>1, <3>3
    <3>5. r' = r
      BY <1>2 DEF r
    <3>6. Verdict' /\ CutSeen'
      BY <1>2, <2>1, <2>7, <3>2, <3>4, <3>5 DEF Verdict, CutSeen, r
    <3> QED
      BY <2>2, <2>3, <3>6 DEF Bookkeeping
  <2> QED
    BY <1>3, <1>4, <2>5, <2>6, <2>7
<1>5. CASE state \notin {"ERROR", "COMPLETE"}
  <2>1. buffer' = buffer \o data /\ pc' = "parse"
    BY <1>5 DEF Feed
  <2> HIDE DEF data
  <2>2. Read \in Seq(Units) /\ buffer \in Seq(Units) /\ buffer' \in Seq(Units)
    BY <1>1, <1>3, <2>1, ReadType, ConcatProperties DEF TypeOK
  <2>3. fed = Read \o buffer => fed' = Read \o buffer' /\ Read' = Read
    <3> SUFFICES ASSUME fed = Read \o buffer PROVE fed' = Read \o buffer' /\ Read' = Read
      OBVIOUS
    <3>1. (Read \o buffer) \o data = Read \o (buffer \o data)
      <4>1. Read \in Seq(Units) /\ buffer \in Seq(Units) /\ data \in Seq(Units)
        BY <1>3, <2>2
      <4> QED
        BY <4>1, JoinedThrice
    <3>2. fed' = Read \o buffer'
      BY <1>2, <2>1, <3>1
    <3>3. \A u \in Seq(Units) : fed' = u \o buffer' => Read' = u
      BY <2>2, ReadAfter
    <3> QED
      BY <2>2, <3>2, <3>3
  <2>4. AtRequestLine'
    BY <1>1, <1>2, <2>1 DEF Bookkeeping, AtRequestLine
  <2>5. AtHeaders' /\ AtBody'
    BY <1>1, <1>2, <2>3 DEF Bookkeeping, AtHeaders, AtBody
  <2>6. Control'
    BY <1>1, <1>2, <1>5, <2>1 DEF Bookkeeping, Control, TypeOK, States
  <2>7. cut = FALSE
    BY <1>1, <1>2, <1>3, <1>5 DEF Bookkeeping, CutSeen
  <2>8. CutSeen'
    BY <1>2, <2>1, <2>7 DEF CutSeen, CutAtLimit
  <2>9. Verdict'
    BY <1>2, <1>5, <2>1 DEF Verdict
  <2> QED
    BY <2>4, <2>5, <2>6, <2>8, <2>9 DEF Bookkeeping
<1> QED
  BY <1>4, <1>5

\* A step of feed()'s loop that neither fails nor ends says nothing yet.
LEMMA GoesOn ==
  ASSUME Inv, pc = "parse", UNCHANGED <<pc, fed, cut>>,
         state' \in {"REQUEST_LINE", "HEADERS", "BODY"}
  PROVE  Verdict' /\ CutSeen'
<1>1. cut = CutAtLimit(fed)
  BY DEF Inv, Bookkeeping, CutSeen
<1> QED
  BY <1>1 DEF Verdict, CutSeen

\* parse_request_line(): nothing was read before it.
LEMMA RequestLineVerdict ==
  ASSUME Inv, RequestLineMissing \/ RequestLineRefused \/ RequestLine
  PROVE  Bookkeeping'
<1>1. pc = "parse" /\ state = "REQUEST_LINE" /\ buffer = fed /\ buffer \in Seq(Units)
      /\ request = EmptyRequest /\ headers_size = 0 /\ header_count = 0
      /\ given = NoRequest /\ error_code = "OK"
  <2>1. pc = "parse" /\ state = "REQUEST_LINE"
    BY DEF RequestLineMissing, RequestLineRefused, RequestLine
  <2> QED
    BY <2>1 DEF Inv, IInv, TypeOK, Bookkeeping, AtRequestLine, Control
<1>2. ASSUME NEW code, code # "OK", Fail(code),
             FinalError(fed, code) \/ /\ CutAtLimit(fed)
                                      /\ code \in {"URITooLong", "HeaderFieldsTooLarge"}
      PROVE  Bookkeeping'
  BY <1>1, <1>2, FailVerdict DEF Fail, clientVars
<1>3. CASE RequestLineMissing
  <2>1. /\ ErrorIn(fed) = IF Shown(fed) > MAX_REQUEST_LINE THEN "URITooLong" ELSE "OK"
        /\ ~HoldsRequest(fed)
        /\ CutAtLimit(fed) <=> ErrorIn(fed) = "OK" /\ Len(fed) > MAX_REQUEST_LINE
        /\ Len(fed) \in Nat /\ Shown(fed) \in Int /\ Shown(fed) <= Len(fed)
        /\ MAX_REQUEST_LINE \in Nat
    BY <1>1, <1>3, NoLineYet, MessageAssumption DEF RequestLineMissing
  <2>2. CASE Len(fed) > MAX_REQUEST_LINE
    <3>1. Fail("URITooLong")
      BY <1>1, <1>3, <2>2 DEF RequestLineMissing
    <3>2. CASE Shown(fed) > MAX_REQUEST_LINE
      <4>1. FinalError(fed, "URITooLong")
        BY <1>1, <1>3, <3>2, LineTooLong DEF RequestLineMissing
      <4> QED
        BY <3>1, <4>1, <1>2
    <3>3. CASE ~(Shown(fed) > MAX_REQUEST_LINE)
      <4>1. CutAtLimit(fed)
        BY <2>1, <2>2, <3>3
      <4> QED
        BY <3>1, <4>1, <1>2
    <3> QED
      BY <3>2, <3>3
  <2>3. CASE ~(Len(fed) > MAX_REQUEST_LINE)
    <3>1. NeedsMore
      BY <1>1, <1>3, <2>3 DEF RequestLineMissing
    <3>2. ~(Shown(fed) > MAX_REQUEST_LINE)
      BY <2>1, <2>3
    <3> QED
      BY <3>1, <3>2, <1>1, <2>1, <2>3, WaitVerdict
  <2> QED
    BY <2>2, <2>3
<1>4. ASSUME RequestLineCode(buffer) # "OK", NEW e, IsFirst(e, LineEnds(buffer))
      PROVE  FinalError(fed, RequestLineCode(buffer))
  BY <1>1, <1>4, RequestLineFinal
<1>5. CASE RequestLineRefused
  <2>1. PICK e \in LineEnds(buffer) :
            /\ IsFirst(e, LineEnds(buffer))
            /\ \/ e - 1 > MAX_REQUEST_LINE /\ Fail("URITooLong")
               \/ /\ e - 1 <= MAX_REQUEST_LINE
                  /\ Cardinality(At(SubSeq(buffer, 1, e - 1), SP)) < 2
                  /\ Fail("BadRequest")
    BY <1>5 DEF RequestLineRefused
  <2>2. /\ e - 1 > MAX_REQUEST_LINE => RequestLineCode(buffer) = "URITooLong"
        /\ e - 1 <= MAX_REQUEST_LINE /\ Cardinality(At(SubSeq(buffer, 1, e - 1), SP)) < 2 =>
              RequestLineCode(buffer) = "BadRequest"
    BY <1>1, <2>1, RequestLineThere
  <2>3. CASE e - 1 > MAX_REQUEST_LINE /\ Fail("URITooLong")
    <3>1. FinalError(fed, "URITooLong")
      BY <2>1, <2>2, <2>3, <1>4
    <3> QED
      BY <2>3, <3>1, <1>2
  <2>4. CASE /\ e - 1 <= MAX_REQUEST_LINE
             /\ Cardinality(At(SubSeq(buffer, 1, e - 1), SP)) < 2
             /\ Fail("BadRequest")
    <3>1. FinalError(fed, "BadRequest")
      BY <2>1, <2>2, <2>4, <1>4
    <3> QED
      BY <2>4, <3>1, <1>2
  <2> QED
    BY <2>1, <2>3, <2>4
<1>6. CASE RequestLine
  <2>1. PICK e, m, t :
          LET line  == SubSeq(buffer, 1, e - 1)
              parts == Split(line, m, t)
          IN  /\ IsFirst(e, LineEnds(buffer)) /\ e - 1 <= MAX_REQUEST_LINE
              /\ IsFirst(m, At(line, SP)) /\ IsFirst(t, At(line, SP) \ {m})
              /\ request' = [request EXCEPT !.method = parts.method,
                                            !.target = parts.target,
                                            !.version = parts.version]
              /\ IF RequestLineError(parts) # "OK"
                 THEN Fail(RequestLineError(parts))
                 ELSE /\ buffer' = From(buffer, e + 2)
                      /\ state' = "HEADERS"
                      /\ UNCHANGED <<error_code, headers_size, header_count,
                                     pc, clientVars>>
    BY <1>6 DEF RequestLine
  <2> DEFINE line == SubSeq(buffer, 1, e - 1)
             parts == Split(line, m, t)
             u == SubSeq(buffer, 1, e + 1)
  <2>2. /\ IsFirst(e, LineEnds(buffer)) /\ e - 1 <= MAX_REQUEST_LINE
        /\ IsFirst(m, At(line, SP)) /\ IsFirst(t, At(line, SP) \ {m})
    BY <2>1
  <2>3. RequestLineCode(buffer) = RequestLineError(parts)
    BY <1>1, <2>2, RequestLineParts
  <2>4. CASE RequestLineError(parts) # "OK"
    <3>1. Fail(RequestLineError(parts))
      BY <2>1, <2>4
    <3>2. FinalError(fed, RequestLineError(parts))
      BY <2>2, <2>3, <2>4, <1>4
    <3> QED
      BY <2>4, <3>1, <3>2, <1>2
  <2>5. CASE RequestLineError(parts) = "OK"
    <3>1. /\ buffer' = From(buffer, e + 2) /\ state' = "HEADERS"
          /\ UNCHANGED <<error_code, headers_size, header_count, pc, given, fed, cut>>
      BY <2>1, <2>5 DEF clientVars
    <3>2. /\ u \in Seq(Units) /\ From(buffer, e + 2) \in Seq(Units)
          /\ buffer = u \o From(buffer, e + 2)
      BY <1>1, <2>2, FirstLine
    <3>3. /\ Correct(u) /\ EmptyLines(u) = {} /\ HeaderEnds(u) = {}
          /\ Len(u) - 1 \in LineEnds(u) /\ Len(u) - RequestLineEnd(u) - 1 = 0
          /\ Parts(u) = parts /\ HeaderMap(u) = <<>>
      BY <1>1, <2>2, <2>5, HeadersBegin
    <3>4. request' = HeadOf(u)
      <4> DEFINE r == [EmptyRequest EXCEPT !.method = parts.method]
                 q == [r EXCEPT !.target = parts.target]
      <4>1. request' = [EmptyRequest EXCEPT !.method = parts.method,
                                            !.target = parts.target,
                                            !.version = parts.version]
        BY <1>1, <2>1
      <4> HIDE DEF parts, u
      <4>2. request' = [q EXCEPT !.version = parts.version]
        BY <4>1
      <4>3. r = [method |-> parts.method, target |-> <<>>, version |-> <<>>,
                 headers |-> <<>>, body |-> <<>>]
        BY DEF EmptyRequest
      <4> HIDE DEF r
      <4>4. q = [method |-> parts.method, target |-> parts.target, version |-> <<>>,
                 headers |-> <<>>, body |-> <<>>]
        BY <4>3
      <4> HIDE DEF q
      <4>5. request' = [method |-> parts.method, target |-> parts.target,
                        version |-> parts.version, headers |-> <<>>, body |-> <<>>]
        BY <4>2, <4>4
      <4> QED
        BY <3>3, <4>5 DEF HeadOf
    <3> HIDE DEF u
    <3>5. Read' = u /\ fed' = u \o buffer'
      BY <1>1, <3>1, <3>2, ReadAfter
    <3>6. Cardinality(HeaderEnds(u)) = 0
      BY <3>3, FS_EmptySet
    <3>7. AtHeaders'
      BY <1>1, <3>1, <3>3, <3>4, <3>5, <3>6 DEF AtHeaders
    <3>8. AtRequestLine' /\ AtBody'
      BY <3>1 DEF AtRequestLine, AtBody
    <3>9. Control'
      BY <1>1, <3>1 DEF Control
    <3>10. Verdict' /\ CutSeen'
      BY <1>1, <3>1, GoesOn
    <3> QED
      BY <3>7, <3>8, <3>9, <3>10 DEF Bookkeeping
  <2> QED
    BY <2>4, <2>5
<1> QED
  BY <1>3, <1>5, <1>6

\* parse_headers(): the lines read are correct, and the next one is added to
\* them or is the first mistake.
LEMMA HeadersVerdict ==
  ASSUME Inv, HeadersMissing \/ EndOfHeaders \/ HeaderLineRefused \/ HeaderLine
  PROVE  Bookkeeping'
<1>1. PICK u \in Seq(Units) :
        /\ Correct(u) /\ EmptyLines(u) = {} /\ Len(u) - 1 \in LineEnds(u)
        /\ fed = u \o buffer /\ request = HeadOf(u)
        /\ headers_size = Len(u) - RequestLineEnd(u) - 1
        /\ header_count = Cardinality(HeaderEnds(u))
  <2>1. state = "HEADERS" /\ Read \in Seq(Units)
    BY ReadType DEF HeadersMissing, EndOfHeaders, HeaderLineRefused, HeaderLine, Inv, IInv
  <2>2. AtHeaders
    BY DEF Inv, Bookkeeping
  <2> QED
    BY <2>1, <2>2 DEF AtHeaders
<1>2. /\ pc = "parse" /\ state = "HEADERS" /\ buffer \in Seq(Units)
      /\ given = NoRequest /\ error_code = "OK"
  <2>1. pc = "parse" /\ state = "HEADERS"
    BY DEF HeadersMissing, EndOfHeaders, HeaderLineRefused, HeaderLine
  <2> QED
    BY <2>1 DEF Inv, IInv, TypeOK, Bookkeeping, Control
<1>3. ASSUME NEW code, code # "OK", Fail(code),
             FinalError(fed, code) \/ /\ CutAtLimit(fed)
                                      /\ code \in {"URITooLong", "HeaderFieldsTooLarge"}
      PROVE  Bookkeeping'
  BY <1>2, <1>3, FailVerdict DEF Fail, clientVars
<1>4. CASE HeadersMissing
  <2> DEFINE size == Len(u) + Len(buffer) - RequestLineEnd(u) - 1
  <2>1. /\ ErrorIn(fed) = IF size > MAX_TOTAL_HEADERS /\ ~HalfEmptyLine(fed)
                          THEN "HeaderFieldsTooLarge" ELSE "OK"
        /\ CutAtLimit(fed) <=> ErrorIn(fed) = "OK" /\ size > MAX_TOTAL_HEADERS
        /\ ~HoldsRequest(fed)
    BY <1>1, <1>2, <1>4, HeadersOpen DEF HeadersMissing
  <2>2. headers_size + Len(buffer) = size
    <3>1. Len(u) \in Nat /\ Len(buffer) \in Nat /\ RequestLineEnd(u) \in Int
      BY <1>1, <1>2, LineEndsType DEF Correct, IsFirst
    <3> QED
      BY <1>1, <3>1
  <2>3. CASE size > MAX_TOTAL_HEADERS
    <3>1. Fail("HeaderFieldsTooLarge")
      BY <1>4, <2>2, <2>3 DEF HeadersMissing
    <3>2. CASE HalfEmptyLine(fed)
      <4>1. CutAtLimit(fed)
        BY <2>1, <2>3, <3>2
      <4> QED
        BY <3>1, <4>1, <1>3
    <3>3. CASE ~HalfEmptyLine(fed)
      <4>1. FinalError(fed, "HeaderFieldsTooLarge")
        BY <1>1, <1>2, <1>4, <2>3, <3>3, HeadersTooLarge DEF HeadersMissing
      <4> QED
        BY <3>1, <4>1, <1>3
    <3> QED
      BY <3>2, <3>3
  <2>4. CASE ~(size > MAX_TOTAL_HEADERS)
    <3>1. NeedsMore
      BY <1>4, <2>2, <2>4 DEF HeadersMissing
    <3> QED
      BY <3>1, <1>2, <2>1, <2>4, WaitVerdict
  <2> QED
    BY <2>3, <2>4
<1>5. CASE EndOfHeaders
  <2> DEFINE v == u \o SubSeq(buffer, 1, 2)
  <2>1. 1 \in LineEnds(buffer) /\ buffer' = From(buffer, 2 + 1) /\ state' = "BODY"
        /\ UNCHANGED <<request, error_code, pc, given, fed, cut>>
    BY <1>5 DEF EndOfHeaders, clientVars
  <2>2. v \in Seq(Units) /\ Correct(v) /\ EmptyLines(v) = {Len(v) - 1} /\ HeadOf(v) = HeadOf(u)
    BY <1>1, <1>2, <2>1, HeadersEnd
  <2>3. 2 \in 0..Len(buffer)
    <3>1. LineEnds(buffer) \subseteq 1..(Len(buffer) - 1) /\ Len(buffer) \in Nat
      BY <1>2, LineEndsType
    <3> QED
      BY <2>1, <3>1
  <2>4. fed' = v \o buffer' /\ Read' = v
    BY <1>1, <1>2, <2>1, <2>3, ReadMore
  <2> HIDE DEF v
  <2>5. AtBody'
    BY <1>1, <2>1, <2>2, <2>4 DEF AtBody
  <2>6. AtRequestLine' /\ AtHeaders'
    BY <2>1 DEF AtRequestLine, AtHeaders
  <2>7. Control'
    BY <1>2, <2>1 DEF Control
  <2>8. Verdict' /\ CutSeen'
    BY <1>2, <2>1, GoesOn
  <2> QED
    BY <2>5, <2>6, <2>7, <2>8 DEF Bookkeeping
<1>6. ASSUME NEW e, IsFirst(e, LineEnds(buffer)), e # 1
      PROVE  HeaderTooLarge(e) <=> OverLimit(fed, Len(u) + e)
  <2>1. OverLimit(u \o buffer, Len(u) + e) <=>
            \/ e - 1 > MAX_HEADER_SIZE
            \/ Cardinality(HeaderEnds(u)) >= MAX_HEADER_COUNT
            \/ Len(u) - RequestLineEnd(u) - 1 + (e + 1) > MAX_TOTAL_HEADERS
    BY <1>1, <1>2, <1>6, NextLineLimits
  <2> QED
    BY <1>1, <2>1 DEF HeaderTooLarge
<1>7. CASE HeaderLineRefused
  <2>1. PICK e \in LineEnds(buffer) :
           /\ IsFirst(e, LineEnds(buffer)) /\ e # 1
           /\ state' = "ERROR" /\ pc' = "idle"
           /\ \/ /\ HeaderTooLarge(e)
                 /\ error_code' = "HeaderFieldsTooLarge"
              \/ /\ ~HeaderTooLarge(e)
                 /\ HeaderMalformed(SubSeq(buffer, 1, e - 1))
                 /\ error_code' = "BadRequest"
    BY <1>7 DEF HeaderLineRefused
  <2>2. UNCHANGED <<fed, given, cut>>
    BY <1>7 DEF HeaderLineRefused, clientVars
  <2>3. FinalError(u \o buffer, IF OverLimit(u \o buffer, Len(u) + e)
                               THEN "HeaderFieldsTooLarge" ELSE "BadRequest")
    <3>1. OverLimit(u \o buffer, Len(u) + e) \/ HeaderMalformed(SubSeq(buffer, 1, e - 1))
      BY <1>1, <1>6, <2>1
    <3> QED
      BY <1>1, <1>2, <2>1, <3>1, BadLineFinal
  <2>4. FinalError(fed, error_code') /\ error_code' # "OK"
    <3>1. HeaderTooLarge(e) <=> OverLimit(u \o buffer, Len(u) + e)
      BY <1>1, <1>6, <2>1
    <3> QED
      BY <1>1, <2>1, <2>3, <3>1
  <2> QED
    BY <1>2, <2>1, <2>2, <2>4, FailVerdict
<1>8. CASE HeaderLine
  <2>1. PICK e, c :
          LET line  == SubSeq(buffer, 1, e - 1)
              name  == ToLower(SubSeq(line, 1, c - 1))
              value == Trim(From(line, c + 1))
          IN  /\ IsFirst(e, LineEnds(buffer)) /\ e # 1
              /\ ~HeaderTooLarge(e) /\ ~HeaderMalformed(line)
              /\ IsFirst(c, At(line, COLON))
              /\ request' = [request EXCEPT !.headers =
                    [n \in DOMAIN request.headers \cup {name} |->
                        IF n = name THEN value ELSE request.headers[n]]]
              /\ headers_size' = headers_size + (e + 1)
              /\ header_count' = header_count + 1
              /\ buffer' = From(buffer, e + 2)
    BY <1>8 DEF HeaderLine
  <2>2. UNCHANGED <<state, error_code, pc, given, fed, cut>>
    BY <1>8 DEF HeaderLine, clientVars
  <2> DEFINE line == SubSeq(buffer, 1, e - 1)
             v == u \o SubSeq(buffer, 1, e + 1)
             name == HeaderName(line)
             value == HeaderValue(line)
  <2>3. /\ v \in Seq(Units) /\ Correct(v) /\ EmptyLines(v) = {}
        /\ Len(v) - 1 \in LineEnds(v) /\ Len(v) = Len(u) + e + 1
        /\ RequestLineEnd(v) = RequestLineEnd(u)
        /\ Cardinality(HeaderEnds(v)) = Cardinality(HeaderEnds(u)) + 1
        /\ Parts(v) = Parts(u)
        /\ IsUpdate(HeaderMap(v), HeaderMap(u), name, value)
    <3>1. ~(\/ e - 1 > MAX_HEADER_SIZE
            \/ Cardinality(HeaderEnds(u)) >= MAX_HEADER_COUNT
            \/ Len(u) - RequestLineEnd(u) - 1 + (e + 1) > MAX_TOTAL_HEADERS)
      BY <1>1, <2>1 DEF HeaderTooLarge
    <3>2. IsFirst(e, LineEnds(buffer)) /\ e # 1 /\ ~HeaderMalformed(line)
      BY <2>1
    <3> QED
      BY <1>1, <1>2, <3>1, <3>2, LineAdded
  <2>4. e + 1 \in 0..Len(buffer) /\ e + 1 + 1 = e + 2 /\ e \in Int
    BY <1>2, <2>1, RequestLineThere
  <2>5. fed' = v \o buffer' /\ Read' = v
    <3>1. buffer' = From(buffer, e + 1 + 1) /\ fed' = u \o buffer
      BY <1>1, <2>1, <2>2, <2>4
    <3> QED
      BY <1>2, <2>4, <3>1, ReadMore
  <2>6. name = ToLower(SubSeq(line, 1, c - 1)) /\ value = Trim(From(line, c + 1))
    <3>1. IsFirst(c, At(line, COLON))
      BY <2>1
    <3> HIDE DEF line
    <3>2. At(line, COLON) \in SUBSET Int
      BY DEF At
    <3>3. MinOf(At(line, COLON)) = c
      BY <3>1, <3>2, MinIs
    <3> QED
      BY <3>3 DEF HeaderName, HeaderValue
  <2>7. request' = HeadOf(v)
    <3> DEFINE map == [n \in DOMAIN request.headers \cup {name} |->
                           IF n = name THEN value ELSE request.headers[n]]
    <3>1. request' = [request EXCEPT !.headers = map]
      BY <2>1, <2>6
    <3>2. request = [method |-> Parts(u).method, target |-> Parts(u).target,
                     version |-> Parts(u).version, headers |-> HeaderMap(u), body |-> <<>>]
      BY <1>1 DEF HeadOf
    <3>3. map = HeaderMap(v)
      <4> HIDE DEF name, value, v
      <4>1. request.headers = HeaderMap(u)
        BY <3>2
      <4>2. HeaderMap(v) = [n \in DOMAIN HeaderMap(v) |-> HeaderMap(v)[n]]
        BY DEF HeaderMap
      <4> QED
        BY <2>3, <4>1, <4>2 DEF IsUpdate
    <3> HIDE DEF map, v
    <3>4. request' = [method |-> Parts(u).method, target |-> Parts(u).target,
                      version |-> Parts(u).version, headers |-> map, body |-> <<>>]
      BY <3>1, <3>2
    <3> QED
      BY <2>3, <3>3, <3>4 DEF HeadOf
  <2>8. /\ headers_size' = Len(v) - RequestLineEnd(v) - 1
        /\ header_count' = Cardinality(HeaderEnds(v))
    <3>1. Len(u) \in Nat /\ RequestLineEnd(u) \in Int
      BY <1>1, LineEndsType DEF Correct, IsFirst
    <3>2. headers_size' = headers_size + (e + 1) /\ header_count' = header_count + 1
      BY <2>1
    <3>3. /\ Len(v) = Len(u) + e + 1 /\ RequestLineEnd(v) = RequestLineEnd(u)
          /\ Cardinality(HeaderEnds(v)) = Cardinality(HeaderEnds(u)) + 1
      BY <2>3
    <3> HIDE DEF v
    <3> QED
      BY <1>1, <2>4, <3>1, <3>2, <3>3
  <2> HIDE DEF v
  <2>9. AtHeaders'
    BY <1>2, <2>2, <2>3, <2>5, <2>7, <2>8 DEF AtHeaders
  <2>10. AtRequestLine' /\ AtBody'
    BY <1>2, <2>2 DEF AtRequestLine, AtBody
  <2>11. Control'
    BY <1>2, <2>2 DEF Control
  <2>12. Verdict' /\ CutSeen'
    BY <1>2, <2>2, GoesOn
  <2> QED
    BY <2>9, <2>10, <2>11, <2>12 DEF Bookkeeping
<1> QED
  BY <1>4, <1>5, <1>7, <1>8

\* parse_body(): the headers were read whole.
LEMMA BodyVerdict ==
  ASSUME Inv, BodyRefused \/ BodyMissing \/ Body
  PROVE  Bookkeeping'
<1>1. PICK u \in Seq(Units) :
        /\ Correct(u) /\ EmptyLines(u) = {Len(u) - 1}
        /\ fed = u \o buffer /\ request = HeadOf(u)
  <2>1. state = "BODY" /\ Read \in Seq(Units)
    BY ReadType DEF BodyRefused, BodyMissing, Body, Inv, IInv
  <2>2. AtBody
    BY DEF Inv, Bookkeeping
  <2> QED
    BY <2>1, <2>2 DEF AtBody
<1>2. /\ pc = "parse" /\ state = "BODY" /\ buffer \in Seq(Units)
      /\ given = NoRequest /\ error_code = "OK"
  <2>1. pc = "parse" /\ state = "BODY"
    BY DEF BodyRefused, BodyMissing, Body
  <2> QED
    BY <2>1 DEF Inv, IInv, TypeOK, Bookkeeping, Control
<1> DEFINE n == content_length(request)
<1>3. /\ n \in Nat
      /\ ErrorIn(fed) = IF n > MAX_BODY_SIZE THEN "PayloadTooLarge"
                        ELSE IF request.method = <<"POST">> /\ ~HasContentLength(request)
                        THEN "BadRequest" ELSE "OK"
      /\ Len(buffer) >= n => Meaning(fed) = [request EXCEPT !.body = SubSeq(buffer, 1, n)]
      /\ HoldsRequest(fed) <=> ErrorIn(fed) = "OK" /\ Len(buffer) >= n
  BY <1>1, <1>2, InBody
<1>10. /\ FinalError(fed, ErrorIn(fed)) /\ ~CutAtLimit(fed)
       /\ HoldsRequest(fed) =>
             FinalRequest(fed, [request EXCEPT !.body = SubSeq(buffer, 1, n)])
  BY <1>1, <1>2, BodyFinal
<1> HIDE DEF n
<1>4. ASSUME NEW code, code # "OK", ErrorIn(fed) = code, Fail(code) PROVE Bookkeeping'
  BY <1>2, <1>4, <1>10, FailVerdict DEF Fail, clientVars
<1>5. n > MAX_BODY_SIZE <=> ~(n <= MAX_BODY_SIZE)
  BY <1>3, MessageAssumption
<1>6. ASSUME BodyAccepted PROVE ErrorIn(fed) = "OK"
  BY <1>3, <1>5, <1>6 DEF BodyAccepted, n
<1>7. CASE BodyRefused
  <2>1. CASE n > MAX_BODY_SIZE /\ Fail("PayloadTooLarge")
    BY <2>1, <1>3, <1>4
  <2>2. CASE /\ n <= MAX_BODY_SIZE /\ request.method = <<"POST">>
             /\ ~HasContentLength(request) /\ Fail("BadRequest")
    <3>1. ErrorIn(fed) = "BadRequest"
      BY <2>2, <1>3, <1>5
    <3> QED
      BY <2>2, <3>1, <1>4
  <2> QED
    BY <1>7, <2>1, <2>2 DEF BodyRefused, n
<1>8. CASE BodyMissing
  <2>1. NeedsMore /\ BodyAccepted /\ Len(buffer) < n
    BY <1>8 DEF BodyMissing, n
  <2>2. ~HoldsRequest(fed)
    <3>1. Len(buffer) \in Nat
      BY <1>2, LenProperties
    <3> QED
      BY <2>1, <3>1, <1>3
  <2> QED
    BY <2>1, <2>2, <1>2, <1>6, <1>10, WaitVerdict
<1>9. CASE Body
  <2>1. /\ BodyAccepted /\ Len(buffer) >= n
        /\ request' = [request EXCEPT !.body = SubSeq(buffer, 1, n)]
        /\ state' = "COMPLETE" /\ pc' = "idle"
        /\ UNCHANGED <<error_code, given, fed, cut>>
    BY <1>9 DEF Body, clientVars, n
  <2>2. FinalRequest(fed, request')
    <3>1. HoldsRequest(fed)
      BY <2>1, <1>3, <1>6
    <3> QED
      BY <2>1, <3>1, <1>10
  <2>3. AtRequestLine' /\ AtHeaders' /\ AtBody'
    BY <2>1 DEF AtRequestLine, AtHeaders, AtBody
  <2>4. Control'
    BY <1>2, <2>1 DEF Control
  <2>5. ~cut
    BY <1>2, <1>10 DEF Inv, Bookkeeping, CutSeen
  <2>6. Verdict' /\ CutSeen'
    BY <1>2, <2>1, <2>2, <2>5 DEF Verdict, CutSeen
  <2> QED
    BY <2>3, <2>4, <2>6 DEF Bookkeeping
<1> QED
  BY <1>7, <1>8, <1>9

\* A request that was read has a method.
LEMMA MethodThere ==
  ASSUME NEW s, HoldsRequest(s)
  PROVE  Meaning(s) # NoRequest
<1>1. ErrorIn(s) = "OK" /\ LineEnds(s) # {}
  BY DEF HoldsRequest, EmptyLines
<1>2. RequestLineCode(s) = "OK"
  BY <1>1 DEF ErrorIn
<1>3. RequestLineError(Parts(s)) = "OK"
  BY <1>1, <1>2 DEF RequestLineCode, Parts
<1>4. Parts(s).method \in Methods
  BY <1>3 DEF RequestLineError
<1>5. Meaning(s).method = Parts(s).method
  BY DEF Meaning, Parts
<1>6. <<>> \notin Methods
  BY DEF Methods
<1>7. NoRequest.method = <<>>
  BY DEF NoRequest, EmptyRequest
<1> QED
  BY <1>4, <1>5, <1>6, <1>7

\* The request is handed out: its verdict stands.
LEMMA GetRequestVerdict == ASSUME Inv, GetRequest PROVE Bookkeeping'
<1>1. /\ pc = "idle" /\ state = "COMPLETE" /\ given = NoRequest /\ given' = request
      /\ UNCHANGED <<state, error_code, pc, fed, cut>> /\ fed \in Seq(Units)
  BY DEF GetRequest, Inv, IInv, TypeOK
<1>2. Verdict /\ Control /\ CutSeen
  BY DEF Inv, Bookkeeping
<1>3. ~cut /\ FinalRequest(fed, request)
  BY <1>1, <1>2 DEF Verdict
<1>4. request # NoRequest
  <2>1. <<>> \in Seq(Units)
    OBVIOUS
  <2>2. HoldsRequest(fed) = TRUE /\ Meaning(fed) = request
    BY <1>1, <1>3, <2>1, Finally
  <2> QED
    BY <2>2, MethodThere
<1>5. AtRequestLine' /\ AtHeaders' /\ AtBody'
  BY <1>1 DEF AtRequestLine, AtHeaders, AtBody
<1>6. Control'
  BY <1>1, <1>2 DEF Control
<1>7. Verdict' /\ CutSeen'
  BY <1>1, <1>3, <1>4 DEF Verdict, CutSeen
<1> QED
  BY <1>5, <1>6, <1>7 DEF Bookkeeping

\* A fresh parser has been fed nothing, which is no mistake and no request.
LEMMA NothingFed == ErrorIn(<<>>) = "OK" /\ ~HoldsRequest(<<>>)
<1>1. Len(<<>>) = 0 /\ <<>> \in Seq(Units)
  OBVIOUS
<1>2. LineEnds(<<>>) = {}
  BY <1>1 DEF LineEnds
<1>3. Shown(<<>>) <= 0 /\ Shown(<<>>) \in Int
  BY <1>1, <1>2, NoLineYet
<1>4. ~(Shown(<<>>) > MAX_REQUEST_LINE)
  BY <1>3, MessageAssumption
<1> QED
  BY <1>1, <1>2, <1>4, NoLineYet

\* reset() leaves a fresh parser.
LEMMA ResetVerdict == ASSUME Reset PROVE Bookkeeping'
<1>1. /\ fed' = <<>> /\ buffer' = <<>> /\ state' = "REQUEST_LINE" /\ request' = EmptyRequest
      /\ error_code' = "OK" /\ headers_size' = 0 /\ header_count' = 0
      /\ given' = NoRequest /\ pc' = "idle" /\ cut' = FALSE
  BY DEF Reset
<1>2. AtRequestLine' /\ AtHeaders' /\ AtBody'
  BY <1>1 DEF AtRequestLine, AtHeaders, AtBody
<1>3. Control'
  BY <1>1 DEF Control
<1>4. Verdict' /\ CutSeen'
  BY <1>1, NothingFed DEF Verdict, CutSeen
<1> QED
  BY <1>2, <1>3, <1>4 DEF Bookkeeping

\* The verdict a parser has given is that on all it was given.
LEMMA VerdictFollows == ASSUME Inv PROVE VerdictIsMeaning
<1>1. Verdict /\ CutSeen /\ Control /\ fed \in Seq(Units) /\ state \in States
  BY DEF Inv, IInv, TypeOK, Bookkeeping
<1>2. <<>> \in Seq(Units)
  OBVIOUS
<1>3. CASE pc = "idle" /\ cut
  BY <1>1, <1>3 DEF CutSeen, VerdictIsMeaning
<1>4. CASE pc = "idle" /\ ~cut /\ state = "ERROR"
  <2>1. error_code # "OK" /\ ErrorIn(fed) = error_code
    BY <1>1, <1>2, <1>4, Finally DEF Verdict
  <2>2. HoldsRequest(fed) = FALSE
    BY <2>1, ErrorOrRequest
  <2> QED
    BY <1>4, <2>1, <2>2 DEF VerdictIsMeaning
<1>5. CASE pc = "idle" /\ ~cut /\ state = "COMPLETE"
  <2> DEFINE r == IF given = NoRequest THEN request ELSE given
  <2>1. FinalRequest(fed, r)
    BY <1>1, <1>5 DEF Verdict
  <2> HIDE DEF r
  <2>2. HoldsRequest(fed) = TRUE /\ Meaning(fed) = r
    BY <1>1, <1>2, <2>1, Finally
  <2>3. ErrorIn(fed) = "OK" /\ error_code = "OK"
    BY <1>1, <1>5, <2>2, ErrorOrRequest DEF Control
  <2> QED
    BY <1>5, <2>2, <2>3 DEF VerdictIsMeaning, r
<1>6. CASE pc = "idle" /\ ~cut /\ state \notin {"ERROR", "COMPLETE"}
  <2>1. ErrorIn(fed) = "OK" /\ HoldsRequest(fed) = FALSE /\ error_code = "OK"
    BY <1>1, <1>6, ErrorOrRequest DEF Verdict, Control
  <2> QED
    BY <1>6, <2>1 DEF VerdictIsMeaning
<1>7. CASE pc # "idle"
  BY <1>7 DEF VerdictIsMeaning
<1> QED
  BY <1>3, <1>4, <1>5, <1>6, <1>7

\* Whatever the limits and the chunks, feed()'s verdict is what the bytes it was
\* given mean as a whole, and the request it hands out is the one they hold; the
\* one cut that makes a difference, between the CR and the LF that keep the line
\* or the headers at their limit, is answered with ERROR and the code of that
\* limit.
THEOREM VerdictExact == Spec => []VerdictIsMeaning
<1>1. Init => Inv
  <2> SUFFICES ASSUME Init PROVE Inv
    OBVIOUS
  <2>1. IInv
    BY InitHolds
  <2>2. AtRequestLine /\ AtHeaders /\ AtBody /\ Control
    BY DEF Init, AtRequestLine, AtHeaders, AtBody, Control
  <2>3. Verdict /\ CutSeen
    BY NothingFed DEF Init, Verdict, CutSeen
  <2> QED
    BY <2>1, <2>2, <2>3 DEF Inv, Bookkeeping
<1>2. Inv /\ [Next]_vars => Inv'
  <2> SUFFICES ASSUME Inv, [Next]_vars PROVE Inv'
    OBVIOUS
  <2>1. IInv'
    BY IInvKept DEF Inv
  <2>2. CASE UNCHANGED vars
    <3>1. Bookkeeping'
      BY <2>2 DEF Inv, Bookkeeping, AtRequestLine, AtHeaders, AtBody, Control, Read,
                  Verdict, CutSeen, vars, parserVars, clientVars
    <3> QED
      BY <2>1, <3>1 DEF Inv
  <2>3. CASE Next
    <3>1. ASSUME \E k \in 1..Len(stream) : Feed(k) PROVE Bookkeeping'
      BY <3>1, FeedVerdict
    <3>2. ASSUME Parse PROVE Bookkeeping'
      BY <3>2, RequestLineVerdict, HeadersVerdict, BodyVerdict DEF Parse
    <3>3. ASSUME GetRequest PROVE Bookkeeping'
      BY <3>3, GetRequestVerdict
    <3>4. ASSUME Reset PROVE Bookkeeping'
      BY <3>4, ResetVerdict
    <3>5. Bookkeeping'
      BY <2>3, <3>1, <3>2, <3>3, <3>4 DEF Next
    <3> QED
      BY <2>1, <3>5 DEF Inv
  <2> QED
    BY <2>2, <2>3
<1>3. Inv => VerdictIsMeaning
  BY VerdictFollows
<1> QED
  BY <1>1, <1>2, <1>3, PTL DEF Spec
=============================================================================
