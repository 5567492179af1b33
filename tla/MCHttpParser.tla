---------------------------- MODULE MCHttpParser ----------------------------
(* Streams for HttpParser: every combination of a request line, up to two   *)
(* header lines and a body, some of them wrong in each way the parser       *)
(* checks for, some exactly at a limit and some one past it; and            *)
(* connections that carry a second request.                                 *)
EXTENDS HttpParser, TLC

CRLF == <<CR, LF>>

\* "-1" is what stoull wraps around; "9" is beyond MAX_BODY_SIZE.
MCNumeral == ("0" :> 0) @@ ("2" :> 2) @@ ("9" :> 9) @@ ("-1" :> 1000)

MCUnits == {CR, LF, SP, COLON, "GET", "HEAD", "POST", "DELETE", "PUT", "/", "/a", "a",
            "HTTP/1.1", "HTTP/1.0", "Content-Length", "content-length"}
              \cup DOMAIN MCNumeral

Line(method, target) == <<method, SP>> \o target \o <<SP, "HTTP/1.1">>

\* MAX_REQUEST_LINE is 6 in the configurations.
RequestLines ==
    {Line(m, <<"/a">>) : m \in {"GET", "POST", "PUT"}}
      \cup {Line("GET", <<"/a", "a">>), Line("GET", <<"/a", "a", "a">>),
            Line("GET", <<>>), Line("GET", <<"a">>), Line("GET", <<"/", CR>>),
            <<"GET", SP, "/a">>, <<"GET">>, <<>>,
            <<"GET", SP, "/a", SP, "HTTP/1.0">>}

\* MAX_HEADER_SIZE is 4.
HeaderLines ==
    {<<"Content-Length", COLON, "2">>, <<"content-length", COLON, SP, "0">>,
     <<"Content-Length", COLON, "9">>, <<"Content-Length", COLON, "-1">>,
     <<"Content-Length", COLON, "a">>, <<"Content-Length", COLON>>,
     <<"a", COLON, SP, CR>>, <<"a", COLON, "a", COLON, "a">>,
     <<"a", LF>>, <<"a", SP, COLON, "a">>}

Bodies == {<<>>, <<"a">>, <<"a", "a">>, <<CR, LF, "a">>}

Headers(n) == IF n = 0 THEN {<<>>}
              ELSE IF n = 1 THEN {h \o CRLF : h \in HeaderLines}
              ELSE {g \o CRLF \o h \o CRLF : g, h \in HeaderLines}

\* Every request line alone and with one header line; two header lines only
\* with two good request lines.
Requests ==
    {r \o CRLF \o h \o CRLF \o b : r \in RequestLines, h \in Headers(0) \cup Headers(1),
                                   b \in Bodies}
      \cup {Line(m, <<"/a">>) \o CRLF \o h \o CRLF \o b :
               m \in {"GET", "POST"}, h \in Headers(2), b \in Bodies}

\* One header line more than MAX_HEADER_COUNT; a header that never ends; and
\* a second request after one that leaves the header counters at work.
Short == <<"a", COLON>> \o CRLF
Post  == Line("POST", <<"/a">>) \o CRLF \o <<"Content-Length", COLON, "2">> \o CRLF
           \o Short \o CRLF \o <<"a", "a">>
MCStreams ==
    Requests
      \cup {Line("GET", <<"/a">>) \o CRLF \o Short \o Short \o Short \o CRLF,
            Line("GET", <<"/a">>) \o CRLF \o Short \o [i \in 1..12 |-> "a"],
            [i \in 1..8 |-> "a"]}
      \cup {Post \o Post, Post \o Line("GET", <<"/a">>) \o CRLF \o Short \o Short \o CRLF}
=============================================================================
