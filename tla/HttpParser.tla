----------------------------- MODULE HttpParser -----------------------------
(***************************************************************************)
(* http::HttpParser (src/http/parser.cpp): the incremental HTTP/1.1        *)
(* request parser that handle_connection() and the epoll server feed with  *)
(* whatever recv() returned.                                               *)
(*                                                                         *)
(* A chunk boundary inside a unit of text makes no difference to find(),   *)
(* so chunks end between units; they may end between CR and LF.            *)
(*                                                                         *)
(* Feed is the entry of feed(); each iteration of its loop, and of the     *)
(* loop over header lines, is one step.                                    *)
(***************************************************************************)
EXTENDS HttpMessage

CONSTANT Streams    \* what a client may send on one connection

ASSUME StreamAssumption == Streams \subseteq Seq(Units)

VARIABLES
    buffer,        \* buffer_
    state,         \* state_
    request,       \* request_
    error_code,    \* error_code_
    headers_size,  \* headers_size_
    header_count,  \* header_count_
    pc,            \* "idle", or "parse" inside the loop of feed()
    given,         \* what get_request() moved out of request_, or NoRequest
    stream,        \* what the client sends
    sent,          \* how much of it has been handed to feed()
    fed,           \* history: what feed() was given since reset()
    cut            \* history: a chunk has ended in CutAtLimit since reset()

parserVars == <<buffer, state, request, error_code, headers_size, header_count>>
clientVars == <<given, stream, sent, fed, cut>>
vars == <<parserVars, pc, clientVars>>

States == {"REQUEST_LINE", "HEADERS", "BODY", "COMPLETE", "ERROR"}
Codes  == {"OK", "BadRequest", "MethodNotAllowed", "URITooLong",
           "HeaderFieldsTooLarge", "PayloadTooLarge"}

\* No request has been handed out: a complete one has a method.
NoRequest == EmptyRequest

-----------------------------------------------------------------------------
Init ==
    /\ buffer = <<>> /\ state = "REQUEST_LINE" /\ request = EmptyRequest
    /\ error_code = "OK" /\ headers_size = 0 /\ header_count = 0
    /\ pc = "idle" /\ given = NoRequest
    /\ stream \in Streams /\ sent = 0 /\ fed = <<>> /\ cut = FALSE

\* feed(data), with the next k units: a parser that is done ignores them.
Feed(k) ==
    /\ pc = "idle"
    /\ sent + k <= Len(stream)
    /\ sent' = sent + k
    /\ LET data == SubSeq(stream, sent + 1, sent + k)
       IN  /\ fed' = fed \o data
           /\ IF state \in {"ERROR", "COMPLETE"}
              THEN UNCHANGED <<buffer, pc>>
              ELSE /\ buffer' = buffer \o data
                   /\ pc' = "parse"
    /\ cut' = (cut \/ CutAtLimit(fed'))
    /\ UNCHANGED <<state, request, error_code, headers_size, header_count,
                   given, stream>>

\* feed() returns INCOMPLETE: the loop breaks as state_ has not changed.
NeedsMore ==
    /\ pc' = "idle"
    /\ UNCHANGED <<parserVars, clientVars>>

\* state_ = ERROR, error_code_ = code, and feed() returns ERROR.
Fail(code) ==
    /\ state' = "ERROR"
    /\ error_code' = code
    /\ pc' = "idle"
    /\ UNCHANGED <<buffer, headers_size, header_count, clientVars>>

\* parse_request_line(), no "\r\n" yet.
RequestLineMissing ==
    /\ pc = "parse" /\ state = "REQUEST_LINE"
    /\ LineEnds(buffer) = {}
    /\ IF Len(buffer) > MAX_REQUEST_LINE
       THEN Fail("URITooLong") /\ UNCHANGED request
       ELSE NeedsMore

\* The line is too long, or has fewer than two spaces.
RequestLineRefused ==
    /\ pc = "parse" /\ state = "REQUEST_LINE"
    /\ \E e \in LineEnds(buffer) :
          /\ IsFirst(e, LineEnds(buffer))
          /\ \/ e - 1 > MAX_REQUEST_LINE /\ Fail("URITooLong")
             \/ /\ e - 1 <= MAX_REQUEST_LINE
                /\ Cardinality(At(SubSeq(buffer, 1, e - 1), SP)) < 2
                /\ Fail("BadRequest")
    /\ UNCHANGED request

\* Method, target and version are stored, then checked.
RequestLine ==
    /\ pc = "parse" /\ state = "REQUEST_LINE"
    /\ \E e \in LineEnds(buffer) :
         LET line == SubSeq(buffer, 1, e - 1) IN
         \E m \in At(line, SP), t \in At(line, SP) :
           /\ IsFirst(e, LineEnds(buffer))
           /\ e - 1 <= MAX_REQUEST_LINE
           /\ IsFirst(m, At(line, SP)) /\ IsFirst(t, At(line, SP) \ {m})
           /\ LET parts == Split(line, m, t) IN
              /\ request' = [request EXCEPT !.method = parts.method,
                                            !.target = parts.target,
                                            !.version = parts.version]
              /\ IF RequestLineError(parts) # "OK"
                 THEN Fail(RequestLineError(parts))
                 ELSE /\ buffer' = From(buffer, e + 2)
                      /\ state' = "HEADERS"
                      /\ UNCHANGED <<error_code, headers_size, header_count,
                                     pc, clientVars>>

-----------------------------------------------------------------------------
(* parse_headers(), one iteration                                          *)

\* Mutant: only the unread part is held against the limit.
HeadersMissingMutant ==
    /\ pc = "parse" /\ state = "HEADERS"
    /\ LineEnds(buffer) = {}
    /\ IF Len(buffer) > MAX_TOTAL_HEADERS
       THEN Fail("HeaderFieldsTooLarge") /\ UNCHANGED request
       ELSE NeedsMore

\* No "\r\n" yet.
HeadersMissing ==
    /\ pc = "parse" /\ state = "HEADERS"
    /\ LineEnds(buffer) = {}
    /\ IF headers_size + Len(buffer) > MAX_TOTAL_HEADERS
       THEN Fail("HeaderFieldsTooLarge") /\ UNCHANGED request
       ELSE NeedsMore

\* An empty line: end of headers.
EndOfHeaders ==
    /\ pc = "parse" /\ state = "HEADERS"
    /\ 1 \in LineEnds(buffer)
    /\ buffer' = From(buffer, 3)
    /\ state' = "BODY"
    /\ UNCHANGED <<request, error_code, headers_size, header_count, pc, clientVars>>

\* The limits, checked before the line is looked at.
HeaderTooLarge(e) ==
    \/ e - 1 > MAX_HEADER_SIZE
    \/ header_count >= MAX_HEADER_COUNT
    \/ headers_size + (e + 1) > MAX_TOTAL_HEADERS

\* The size is added before it is compared, and stays when the line fails.
HeaderLineRefused ==
    /\ pc = "parse" /\ state = "HEADERS"
    /\ \E e \in LineEnds(buffer) :
          /\ IsFirst(e, LineEnds(buffer)) /\ e # 1
          /\ state' = "ERROR" /\ pc' = "idle"
          /\ \/ /\ HeaderTooLarge(e)
                /\ error_code' = "HeaderFieldsTooLarge"
             \/ /\ ~HeaderTooLarge(e)
                /\ HeaderMalformed(SubSeq(buffer, 1, e - 1))
                /\ error_code' = "BadRequest"
          /\ headers_size' = IF e - 1 > MAX_HEADER_SIZE
                                \/ header_count >= MAX_HEADER_COUNT
                             THEN headers_size
                             ELSE headers_size + e + 1
    /\ UNCHANGED <<buffer, request, header_count, clientVars>>

\* Mutant: the size of the line is subtracted.
HeaderLineMutant ==
    /\ pc = "parse" /\ state = "HEADERS"
    /\ \E e \in LineEnds(buffer) :
         LET line == SubSeq(buffer, 1, e - 1) IN
         \E c \in At(line, COLON) :
           /\ IsFirst(e, LineEnds(buffer)) /\ e # 1
           /\ ~HeaderTooLarge(e) /\ ~HeaderMalformed(line)
           /\ IsFirst(c, At(line, COLON))
           /\ LET name  == ToLower(SubSeq(line, 1, c - 1))
                  value == Trim(From(line, c + 1))
              IN  request' = [request EXCEPT !.headers =
                     [n \in DOMAIN request.headers \cup {name} |->
                         IF n = name THEN value ELSE request.headers[n]]]
           /\ headers_size' = headers_size - (e + 1)
           /\ header_count' = header_count + 1
           /\ buffer' = From(buffer, e + 2)
    /\ UNCHANGED <<state, error_code, pc, clientVars>>

\* headers[name_lower] = val_trimmed: a later line replaces an earlier one.
HeaderLine ==
    /\ pc = "parse" /\ state = "HEADERS"
    /\ \E e \in LineEnds(buffer) :
         LET line == SubSeq(buffer, 1, e - 1) IN
         \E c \in At(line, COLON) :
           /\ IsFirst(e, LineEnds(buffer)) /\ e # 1
           /\ ~HeaderTooLarge(e) /\ ~HeaderMalformed(line)
           /\ IsFirst(c, At(line, COLON))
           /\ LET name  == ToLower(SubSeq(line, 1, c - 1))
                  value == Trim(From(line, c + 1))
              IN  request' = [request EXCEPT !.headers =
                     [n \in DOMAIN request.headers \cup {name} |->
                         IF n = name THEN value ELSE request.headers[n]]]
           /\ headers_size' = headers_size + (e + 1)
           /\ header_count' = header_count + 1
           /\ buffer' = From(buffer, e + 2)
    /\ UNCHANGED <<state, error_code, pc, clientVars>>

-----------------------------------------------------------------------------
(* parse_body()                                                            *)

BodyRefused ==
    /\ pc = "parse" /\ state = "BODY"
    /\ \/ /\ content_length(request) > MAX_BODY_SIZE
          /\ Fail("PayloadTooLarge")
       \/ /\ content_length(request) <= MAX_BODY_SIZE
          /\ request.method = <<"POST">> /\ ~HasContentLength(request)
          /\ Fail("BadRequest")
    /\ UNCHANGED request

BodyAccepted ==
    /\ content_length(request) <= MAX_BODY_SIZE
    /\ request.method = <<"POST">> => HasContentLength(request)

\* Mutant: the loop of feed() does not break when state_ is unchanged.
BodyMissingMutant ==
    /\ pc = "parse" /\ state = "BODY"
    /\ BodyAccepted
    /\ Len(buffer) < content_length(request)
    /\ UNCHANGED <<pc, parserVars, clientVars>>

BodyMissing ==
    /\ pc = "parse" /\ state = "BODY"
    /\ BodyAccepted
    /\ Len(buffer) < content_length(request)
    /\ NeedsMore

\* The body is complete; what follows it stays in buffer_.
Body ==
    /\ pc = "parse" /\ state = "BODY"
    /\ BodyAccepted
    /\ Len(buffer) >= content_length(request)
    /\ request' = [request EXCEPT !.body = SubSeq(buffer, 1, content_length(request))]
    /\ buffer' = From(buffer, content_length(request) + 1)
    /\ state' = "COMPLETE"
    /\ pc' = "idle"
    /\ UNCHANGED <<error_code, headers_size, header_count, clientVars>>

-----------------------------------------------------------------------------
\* get_request() moves the request out; its callers do so once, on COMPLETE.
GetRequest ==
    /\ pc = "idle" /\ state = "COMPLETE" /\ given = NoRequest
    /\ given' = request
    /\ request' = EmptyRequest
    /\ UNCHANGED <<buffer, state, error_code, headers_size, header_count,
                   pc, stream, sent, fed, cut>>

\* Mutant: the counters of the headers are not reset.
ResetMutant ==
    /\ pc = "idle" /\ given # NoRequest
    /\ buffer' = <<>> /\ state' = "REQUEST_LINE" /\ request' = EmptyRequest
    /\ error_code' = "OK"
    /\ given' = NoRequest /\ fed' = <<>> /\ cut' = FALSE
    /\ UNCHANGED <<headers_size, header_count, pc, stream, sent>>

\* reset(), which the callers use between the requests of a connection.
Reset ==
    /\ pc = "idle" /\ given # NoRequest
    /\ buffer' = <<>> /\ state' = "REQUEST_LINE" /\ request' = EmptyRequest
    /\ error_code' = "OK" /\ headers_size' = 0 /\ header_count' = 0
    /\ given' = NoRequest /\ fed' = <<>> /\ cut' = FALSE
    /\ UNCHANGED <<pc, stream, sent>>

\* The body of the loop of feed().
Parse ==
    \/ RequestLineMissing \/ RequestLineRefused \/ RequestLine
    \/ HeadersMissing \/ EndOfHeaders \/ HeaderLineRefused \/ HeaderLine
    \/ BodyRefused \/ BodyMissing \/ Body

Next ==
    \/ \E k \in 1..Len(stream) : Feed(k)
    \/ Parse \/ GetRequest \/ Reset

Spec == Init /\ [][Next]_vars

\* The thread that is inside feed() keeps running.
FairSpec == Spec /\ WF_vars(Parse)

-----------------------------------------------------------------------------
(* Properties                                                              *)

IsRequest(r) ==
    /\ r.method \in Seq(Units) /\ r.target \in Seq(Units) /\ r.version \in Seq(Units)
    /\ r.body \in Seq(Units)
    /\ \A n \in DOMAIN r.headers : n \in Seq(Units) /\ r.headers[n] \in Seq(Units)

\* Every member of the parser keeps its type.
TypeOK ==
    /\ IsRequest(request) /\ IsRequest(given) /\ cut \in BOOLEAN
    /\ buffer \in Seq(Units) /\ fed \in Seq(Units)
    /\ state \in States /\ error_code \in Codes
    /\ headers_size \in Nat /\ header_count \in Nat
    /\ pc \in {"idle", "parse"}
    /\ stream \in Streams /\ sent \in 0..Len(stream)

\* A parser that waits for more data holds no more than its limits allow,
\* however the bytes were cut: this is the memory a slow client can pin.
MemoryBounded ==
    pc = "idle" =>
        /\ state = "REQUEST_LINE" => Len(buffer) <= MAX_REQUEST_LINE
        /\ state = "HEADERS" => headers_size + Len(buffer) <= MAX_TOTAL_HEADERS
        /\ state = "BODY" => Len(buffer) < content_length(request)
                             /\ content_length(request) <= MAX_BODY_SIZE

\* Whenever feed() returns, its verdict is what all the bytes it was given
\* mean as a whole: COMPLETE exactly when they hold a request, with that
\* request; ERROR exactly when they are wrong, with the code of the first
\* mistake; INCOMPLETE otherwise.  Bytes of an earlier request on the connection
\* leave no trace, and neither does the way the bytes were cut into chunks, but
\* for one cut: when a chunk ends between the CR and the LF that keep the
\* request line, or the headers, at the limit exactly, the verdict is ERROR, 414
\* or 431, where any other cut of the same bytes is accepted.
VerdictIsMeaning ==
    pc = "idle" =>
        IF cut
        THEN state = "ERROR" /\ error_code \in {"URITooLong", "HeaderFieldsTooLarge"}
        ELSE /\ (state = "COMPLETE") = HoldsRequest(fed)
             /\ state = "COMPLETE" =>
                   Meaning(fed) = IF given = NoRequest THEN request ELSE given
             /\ error_code = ErrorIn(fed)
             /\ (state = "ERROR") = (error_code # "OK")

\* Each call of feed() returns: every turn of its loops changes state_ or
\* shortens buffer_, or is the last.
FeedReturns == pc = "parse" ~> pc = "idle"
=============================================================================
