------------------------------ MODULE Response ------------------------------
(***************************************************************************)
(* http::Response, its factory functions and http::HttpSerializer          *)
(* (src/http/response.cpp, status.cpp and serializer.cpp), as operators.   *)
(*                                                                         *)
(* A body is a sequence of units, a header's value the set of its words.   *)
(* headers is a function from the names exactly as they were given, as the *)
(* code's unordered_map compares them case-sensitively; Lowercase says     *)
(* what std::tolower makes of words that are not lower-case already.       *)
(***************************************************************************)
EXTENDS Naturals, Sequences, FiniteSets, TLC

CONSTANTS Lowercase     \* [words with a capital -> their lower case]

\* Response{}: 200, no headers, no body, keep-alive.
NewResponse == [status |-> 200, headers |-> << >>, body |-> << >>, keep_alive |-> TRUE]

\* r has the members of a Response, with any values.
IsResponse(r) ==
    r = [status |-> r.status, headers |-> r.headers, body |-> r.body,
         keep_alive |-> r.keep_alive]

\* reason_phrase
Phrases ==
    (200 :> "OK") @@ (204 :> "No Content") @@ (400 :> "Bad Request")
    @@ (403 :> "Forbidden") @@ (404 :> "Not Found") @@ (405 :> "Method Not Allowed")
    @@ (413 :> "Payload Too Large") @@ (414 :> "URI Too Long")
    @@ (431 :> "Request Header Fields Too Large")
    @@ (500 :> "Internal Server Error") @@ (503 :> "Service Unavailable")

ReasonPhrase(code) == IF code \in DOMAIN Phrases THEN Phrases[code] ELSE "Unknown"

SetHeader(res, key, value) == [res EXCEPT !.headers = (key :> value) @@ res.headers]

SetBody(res, body, content_type) ==
    SetHeader([res EXCEPT !.body = body], "Content-Type", {content_type})

Ok(body, content_type) == SetBody(NewResponse, body, content_type)

JsonResponse(body) == Ok(body, "application/json")

\* Response::error; without a message the reason phrase is the body.
ErrorResponse(code, message) ==
    SetBody([NewResponse EXCEPT !.status = code],
            <<IF message # "" THEN message ELSE ReasonPhrase(code)>>, "text/plain")

NotFound == ErrorResponse(404, "Not Found")

\* Response::error(500), with the default message.
InternalError == ErrorResponse(500, "")

MethodNotAllowed(allowed) ==
    SetBody(SetHeader([NewResponse EXCEPT !.status = 405], "Allow", allowed),
            <<"Method Not Allowed">>, "text/plain")

MakeResponse(code) ==
    LET res == [NewResponse EXCEPT !.status = code]
    IN  IF code = 204 THEN res ELSE SetBody(res, <<ReasonPhrase(code)>>, "text/plain")

-----------------------------------------------------------------------------
\* k_lower
Lower(key) == IF key \in DOMAIN Lowercase THEN Lowercase[key] ELSE key

\* The headers that the serializer writes itself.
Automatic == {"server", "date", "content-length", "connection"}

ASSUME ResponseAssumption == DOMAIN Lowercase \cap Automatic = {}

\* HttpSerializer::serialize: the header lines in the order they are written
\* (the handler's own as a set: an unordered_map has no order), then the body.
Serialize(res) ==
    [status |-> res.status,
     reason |-> ReasonPhrase(res.status),
     length |-> Len(res.body),
     connection |-> IF res.keep_alive THEN "keep-alive" ELSE "close",
     others |-> {key \in DOMAIN res.headers : Lower(key) \notin Automatic},
     body |-> res.body]
=============================================================================
