---------------------------- MODULE HttpMessage ----------------------------
(***************************************************************************)
(* The text of an HTTP/1.1 request as src/http/parser.cpp reads it, and,   *)
(* in the second half, what a whole byte stream means: the reference the   *)
(* incremental parser of HttpParser is compared with.                      *)
(*                                                                         *)
(* Text is a sequence of units.  CR, LF, SP and COLON are the bytes the    *)
(* parser searches for; every other unit is a run of bytes it only         *)
(* compares or copies (a method, a name, a numeral, a piece of text) and   *)
(* counts as one byte against the limits.                                  *)
(***************************************************************************)
EXTENDS Integers, Sequences, FiniteSets

CONSTANTS Units,            \* the units text is made of
          Numeral,          \* unit -> the value std::stoull gives it
          MAX_REQUEST_LINE, MAX_HEADER_SIZE, MAX_TOTAL_HEADERS,
          MAX_HEADER_COUNT, MAX_BODY_SIZE

CR == "CR"
LF == "LF"
SP == "SP"
COLON == "COLON"

ASSUME MessageAssumption ==
    /\ {CR, LF, SP, COLON, "GET", "HEAD", "POST", "DELETE", "HTTP/1.1",
        "Content-Length", "content-length"} \subseteq Units
    /\ DOMAIN Numeral \subseteq Units
    /\ \A u \in DOMAIN Numeral : Numeral[u] \in Nat
    /\ MAX_REQUEST_LINE \in Nat /\ MAX_HEADER_SIZE \in Nat
    /\ MAX_TOTAL_HEADERS \in Nat /\ MAX_HEADER_COUNT \in Nat
    /\ MAX_BODY_SIZE \in Nat

\* A default-constructed http::Request.
EmptyRequest == [method |-> <<>>, target |-> <<>>, version |-> <<>>,
                 headers |-> <<>>, body |-> <<>>]

-----------------------------------------------------------------------------
(* Text                                                                    *)

MinOf(S) == CHOOSE i \in S : \A j \in S : i <= j
MaxOf(S) == CHOOSE i \in S : \A j \in S : i >= j

\* Where "\r\n" begins in s, and the first of these places: buffer_.find.
LineEnds(s) == {i \in 1..(Len(s) - 1) : s[i] = CR /\ s[i + 1] = LF}
IsFirst(i, S) == i \in S /\ \A j \in S : i <= j

\* erase(0, n)
From(s, i) == SubSeq(s, i, Len(s))

\* Where unit u occurs in s.
At(s, u) == {i \in 1..Len(s) : s[i] = u}

\* to_lower, on the only name whose case matters.
ToLower(s) == [i \in 1..Len(s) |->
                  IF s[i] = "Content-Length" THEN "content-length" ELSE s[i]]

\* trim: isspace holds of SP, CR and LF.
Trim(s) ==
    LET text == {i \in 1..Len(s) : s[i] \notin {SP, CR, LF}}
    IN  IF text = {} THEN <<>>
        ELSE SubSeq(s, MinOf(text), MaxOf(text))

\* Request::content_length(): std::stoull reads a leading numeral and ignores
\* what follows; it throws on anything else, which counts as 0.
ContentLengthName == <<"content-length">>
HasContentLength(r) == ContentLengthName \in DOMAIN r.headers
content_length(r) ==
    IF /\ HasContentLength(r)
       /\ r.headers[ContentLengthName] # <<>>
       /\ r.headers[ContentLengthName][1] \in DOMAIN Numeral
    THEN Numeral[r.headers[ContentLengthName][1]]
    ELSE 0

-----------------------------------------------------------------------------
(* The request line                                                        *)

Methods == {<<"GET">>, <<"HEAD">>, <<"POST">>, <<"DELETE">>}

\* target[0] == '/'
SlashUnits == {"/", "/a"}

\* method, target and version of a line whose first two spaces are at m, t.
Split(line, m, t) == [method  |-> SubSeq(line, 1, m - 1),
                      target  |-> SubSeq(line, m + 1, t - 1),
                      version |-> From(line, t + 1)]

\* The checks on the three parts, in the order the code makes them.
RequestLineError(r) ==
    IF r.method \notin Methods THEN "MethodNotAllowed"
    ELSE IF r.target = <<>> \/ r.target[1] \notin SlashUnits THEN "BadRequest"
    ELSE IF r.version # <<"HTTP/1.1">> THEN "BadRequest"
    ELSE "OK"

\* No colon, or a space before it.
HeaderMalformed(line) ==
    \/ At(line, COLON) = {}
    \/ \E c \in At(line, COLON) : /\ IsFirst(c, At(line, COLON))
                                  /\ \E i \in 1..(c - 1) : line[i] = SP

-----------------------------------------------------------------------------
(* What a byte stream means, as a whole: the reference the incremental      *)
(* parser is compared with.                                                 *)

\* The end of the request line; the header lines, each named by its end; the
\* empty line, the first line end that directly follows another.
RequestLineEnd(s) == MinOf(LineEnds(s))
EmptyLines(s) == {e \in LineEnds(s) : e - 2 \in LineEnds(s)}
HeaderEnds(s) == {e \in LineEnds(s) : /\ e > RequestLineEnd(s)
                                      /\ \A b \in EmptyLines(s) : e < b}
HeaderText(s, e) == SubSeq(s, MaxOf({f \in LineEnds(s) : f < e}) + 2, e - 1)

\* A line breaks a limit: its own length, its rank, or where it ends.
OverLimit(s, e) ==
    \/ Len(HeaderText(s, e)) > MAX_HEADER_SIZE
    \/ Cardinality({f \in HeaderEnds(s) : f <= e}) > MAX_HEADER_COUNT
    \/ e - RequestLineEnd(s) > MAX_TOTAL_HEADERS
BadHeaders(s) ==
    {e \in HeaderEnds(s) : OverLimit(s, e) \/ HeaderMalformed(HeaderText(s, e))}

HeaderName(line)  == ToLower(SubSeq(line, 1, MinOf(At(line, COLON)) - 1))
HeaderValue(line) == Trim(From(line, MinOf(At(line, COLON)) + 1))
HeaderMap(s) ==
    LET Name(e) == HeaderName(HeaderText(s, e))
    IN  [n \in {Name(e) : e \in HeaderEnds(s)} |->
            HeaderValue(HeaderText(s, MaxOf({e \in HeaderEnds(s) : Name(e) = n})))]

\* How much of an unfinished line is sure to stay in it: a CR at its end may be
\* half a line end.
Shown(s) == IF s # <<>> /\ s[Len(s)] = CR THEN Len(s) - 1 ELSE Len(s)

\* s ends in half an empty line: what is there of it is no header.
HalfEmptyLine(s) == Len(s) - 2 \in LineEnds(s) /\ s[Len(s)] = CR

RequestLineCode(s) ==
    LET line == SubSeq(s, 1, RequestLineEnd(s) - 1)
        sp   == At(line, SP)
        m    == MinOf(sp)
    IN  IF LineEnds(s) = {}
        THEN IF Shown(s) > MAX_REQUEST_LINE THEN "URITooLong" ELSE "OK"
        ELSE IF Len(line) > MAX_REQUEST_LINE THEN "URITooLong"
        ELSE IF Cardinality(sp) < 2 THEN "BadRequest"
        ELSE RequestLineError(Split(line, m, MinOf(sp \ {m})))

\* The request that s holds, if its headers are complete, with as much of its
\* body as is there.
Meaning(s) ==
    LET line  == SubSeq(s, 1, RequestLineEnd(s) - 1)
        m     == MinOf(At(line, SP))
        parts == Split(line, m, MinOf(At(line, SP) \ {m}))
        r     == [method |-> parts.method, target |-> parts.target,
                  version |-> parts.version, headers |-> HeaderMap(s), body |-> <<>>]
        start == MinOf(EmptyLines(s)) + 2
    IN  [r EXCEPT !.body = SubSeq(s, start, MinOf({Len(s), start + content_length(r) - 1}))]

\* What feed() has to say once it has been given s, and with which code.  A text
\* is wrong as soon as nothing that follows could make it right, so this says
\* the same of a text however it was cut.
ErrorIn(s) ==
    IF RequestLineCode(s) # "OK" THEN RequestLineCode(s)
    ELSE IF LineEnds(s) = {} THEN "OK"
    ELSE IF BadHeaders(s) # {}
         THEN IF OverLimit(s, MinOf(BadHeaders(s)))
              THEN "HeaderFieldsTooLarge" ELSE "BadRequest"
    ELSE IF EmptyLines(s) = {}
         THEN IF /\ Len(s) - RequestLineEnd(s) - 1 > MAX_TOTAL_HEADERS
                 /\ ~HalfEmptyLine(s)
              THEN "HeaderFieldsTooLarge" ELSE "OK"
    ELSE IF content_length(Meaning(s)) > MAX_BODY_SIZE THEN "PayloadTooLarge"
    ELSE IF Meaning(s).method = <<"POST">> /\ ~HasContentLength(Meaning(s))
         THEN "BadRequest" ELSE "OK"

HoldsRequest(s) ==
    /\ ErrorIn(s) = "OK"
    /\ EmptyLines(s) # {}
    /\ Len(Meaning(s).body) = content_length(Meaning(s))

\* Nothing is wrong with s, but it ends between the CR and the LF that would keep
\* its line, or its headers, at the limit exactly: the parser counts that CR
\* (buffer_.size(), parser.cpp:83 and 143).
CutAtLimit(s) ==
    /\ ErrorIn(s) = "OK"
    /\ IF LineEnds(s) = {}
       THEN Len(s) > MAX_REQUEST_LINE
       ELSE /\ EmptyLines(s) = {}
            /\ Len(s) - RequestLineEnd(s) - 1 > MAX_TOTAL_HEADERS
=============================================================================
