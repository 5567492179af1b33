--------------------------- MODULE MCApplication ----------------------------
(* A small instance of Application: the directory ./static with a page and  *)
(* two links, and what other processes may make of it.                      *)
EXTENDS Application

MCNumbers == "-1" :> -1 @@ "big" :> 200000

MCRoot == <<"/w/static">>
MCPage == <<"/w/static", "/", "f", ".HTML">>
MCBeside == <<"/w/static", "2", "/", "x">>
MCOutside == <<"/etc", "/", "y">>
MCMoved == <<"/v">>
MCMovedPage == <<"/v", "/", "f", ".HTML">>
MCPaths == {MCRoot, MCPage, MCBeside, <<"/etc">>, MCOutside, MCMoved, MCMovedPage}

MCKinds == MCRoot :> "dir" @@ MCPage :> "file" @@ MCBeside :> "gone" @@ <<"/etc">> :> "dir"
           @@ MCOutside :> "file" @@ MCMoved :> "dir" @@ MCMovedPage :> "file"
MCLinks == [path \in MCPaths |-> path]
           @@ <<"./static">> :> MCRoot @@ <<"./static", "/">> :> MCRoot
           @@ <<"./static", "/", "f", ".HTML">> :> MCPage
           @@ <<"./static", "/", "sibling">> :> MCBeside
           @@ <<"./static", "/", "outside">> :> MCOutside
MCBelow == {MCPage} \cup {name \in DOMAIN MCLinks : name[1] = "./static" /\ Len(name) > 1}

MCState(links, kinds) ==
    [name \in DOMAIN links |-> [path |-> links[name], kind |-> kinds[links[name]]]]
MCWith(path, kind) == MCState(MCLinks, path :> kind @@ MCKinds)

\* A state in which nothing below ./static can be reached.
MCClosed(kind, root) ==
    [name \in DOMAIN MCLinks |->
        IF name \in MCBelow THEN [path |-> MCLinks[name], kind |-> kind]
        ELSE IF MCLinks[name] = MCRoot THEN [path |-> MCRoot, kind |-> root]
        ELSE [path |-> MCLinks[name], kind |-> MCKinds[MCLinks[name]]]]

MCAtStart == MCState(MCLinks, MCKinds)
MCFileSystems ==
    {MCAtStart,
     \* the page is removed, protected, replaced by a directory or by a link
     MCWith(MCPage, "gone"), MCWith(MCPage, "locked"), MCWith(MCPage, "dir"),
     MCState([name \in DOMAIN MCLinks |-> IF MCLinks[name] = MCPage THEN MCOutside
                                          ELSE MCLinks[name]], MCKinds),
     \* a directory beside ./static is made, its link is pointed at the page
     MCWith(MCBeside, "file"),
     MCState(<<"./static", "/", "outside">> :> MCPage @@ MCLinks, MCKinds),
     \* ./static is removed, protected, replaced by a link to another directory
     MCClosed("gone", "gone"), MCClosed("denied", "dir"),
     MCState([name \in DOMAIN MCLinks |-> IF MCLinks[name] = MCRoot THEN MCMoved
                                          ELSE IF MCLinks[name] = MCPage THEN MCMovedPage
                                          ELSE MCLinks[name]], MCKinds)}

MCReturned ==
    {[NewResponse EXCEPT !.status = 204, !.body = <<"own">>],
     SetHeader(SetHeader(Ok(<<"own">>, "text/plain"), "Content-Length", {"9"}),
               "connection", {"upgrade"}),
     [NewResponse EXCEPT !.status = 302, !.keep_alive = FALSE]}

MCTokens == {"/", "health", "api", "info", "echo", "data", "none", "static", "f", ".HTML",
             "sibling", "outside", "..", "x"}
MCTargets ==
    {<<"/">>, <<"/", "health">>, <<"/", "api", "/", "info">>, <<"/", "api", "/", "echo">>,
     <<"/", "api", "/", "data">>, <<"/", "none">>}
MCStaticTargets ==
    {<<"/", "static">> \o t : t \in
        {<< >>, <<"/", "f", ".HTML">>, <<"/", "/", "f", ".HTML">>, <<"f", ".HTML">>,
         <<"/", "sibling">>, <<"/", "outside">>, <<"/", "none">>, <<"/", "..", "/", "x">>}}
MCAllTargets == MCTargets \cup MCStaticTargets
MCExtraRoutes ==
    [method : {"GET", "POST"}, path : {<<"/", "health">>}, func : {"custom"}]
    \cup [method : {"POST"}, path : {<<"/", "static", "/", "f", ".HTML">>}, func : {"throws"}]
MCServed ==
    {<< >>, <<"--no-keepalive">>, <<"--workers", "-1">>, <<"--static-dir", "x">>}
MCPrefixes == {<<"/">>}
MCLowercase == "Content-Length" :> "content-length" @@ "Content-Type" :> "content-type"
               @@ "Allow" :> "allow" @@ "X-Id" :> "x-id" @@ ".HTML" :> ".html"
=============================================================================
