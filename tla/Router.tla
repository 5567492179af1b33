------------------------------- MODULE Router -------------------------------
(***************************************************************************)
(* router::Router (src/router/router.cpp): registered routes, mounts of    *)
(* static directories, and route().                                        *)
(*                                                                         *)
(* Targets and file names are sequences of tokens, so that starts_with and *)
(* the prefix comparison of canonical paths are comparisons of sequences   *)
(* that do not care where a path component ends, as the code's are.        *)
(*                                                                         *)
(* route() runs in one thread, but serve_static_file asks the file system  *)
(* four times, and other processes change it in between: each question is  *)
(* a step.  The file system is external: its state says of every name (and *)
(* a canonical path is one) which canonical path it resolves to, and what  *)
(* is there.  A change of state may swap links and directories, too.       *)
(***************************************************************************)
EXTENDS Response, FiniteSetsExt

CONSTANTS Methods,
          Tokens,       \* what targets are made of
          Targets,
          ExtraRoutes,  \* routes registered besides the server's own
          Prefixes,     \* prefixes of mounts registered besides the server's own
          Returned,     \* what handlers of the embedding program return
          FileSystems,  \* states of the file system: [names -> [path, kind]]
          AtStart,      \* the first of them
          MaxStates,    \* bound: states of the file system during a request
          MaxExtra      \* bound: routes and mounts added by the embedding program

VARIABLES
    routes_,        \* sequence of [method, path, func]
    static_mounts_, \* sequence of [prefix, directory]
    disk,           \* the state of the file system
    pc,             \* "idle", or the next step of route(); "done", "thrown"
    req,            \* the request: [method, target]
    mount, canonical,   \* locals of serve_static_file
    res,            \* the response
    during          \* history: the states of the file system during the request

routerVars == <<routes_, static_mounts_>>
localVars  == <<mount, canonical>>

NoMount == [prefix |-> << >>, directory |-> << >>]

-----------------------------------------------------------------------------
(* Routes                                                                  *)

Handlers == {"root", "health", "info", "echo", "delete", "custom", "throws"}

Routes == [method : Methods, path : Targets, func : Handlers]

StartsWith(s, prefix) == Len(s) >= Len(prefix) /\ SubSeq(s, 1, Len(prefix)) = prefix

\* What may be at a path: a file, one that cannot be opened ("locked"), a
\* directory; or nothing ("gone"), or nobody can tell, as a directory above it
\* may not be searched ("denied").
Found == {"file", "locked", "dir"}
Kinds == Found \cup {"gone", "denied"}

\* A canonical path is a name of what is there; and who finds a name below a
\* directory has found the directory.
ASSUME RouterAssumption ==
    /\ ExtraRoutes \subseteq Routes /\ {MaxExtra, MaxStates} \subseteq Nat
    /\ Targets \subseteq Seq(Tokens) /\ Prefixes \subseteq Seq(Tokens)
    /\ {"/", "static"} \subseteq Tokens
    /\ \A r \in Returned : IsResponse(r)
    /\ AtStart \in FileSystems
    /\ \A f \in FileSystems : \A name \in DOMAIN f :
          /\ f[name].kind \in Kinds
          /\ f[name].kind \in Found =>
                /\ f[name].path \in DOMAIN f /\ f[f[name].path] = f[name]
                /\ f[name].path # << >>
                /\ Len(name) > 1 /\ name[2] = "/" =>
                      /\ <<name[1]>> \in DOMAIN f
                      /\ f[<<name[1]>>].kind \in Found

\* A handler registered by the embedding program may return any response, or
\* throw; the others are those of Server::setup_routes.
Throws(func) == func = "throws"

Results(func) ==
    CASE func = "root"   -> {Ok(<<"welcome">>, "text/html")}
      [] func = "health" -> {JsonResponse(<<"ok">>)}
      [] func = "info"   -> {JsonResponse(<<"name", "version">>)}
      [] func = "echo"   -> {JsonResponse(<<"body">>)}
      [] func = "delete" -> {MakeResponse(204)}
      [] func = "custom" -> Returned

\* What the call of a handler gives: exceptions are caught.
Called(func) ==
    IF Throws(func) THEN {ErrorResponse(500, "Internal Server Error")} ELSE Results(func)

\* A loop that returns at any of these indices returns at the first; 0: at none.
FirstOf(indices) == IF indices = {} THEN 0 ELSE Min(indices)

\* The index of the route that the first loop of route() returns from, or 0.
FirstRoute(method, target) ==
    FirstOf({i \in DOMAIN routes_ : routes_[i].path = target /\ routes_[i].method = method})

PathFound(target) == \E i \in DOMAIN routes_ : routes_[i].path = target

\* Mutant: only the first route of the path is listed.
AllowMethodsMutant(target) ==
    LET i == CHOOSE i \in DOMAIN routes_ :
                routes_[i].path = target /\ \A j \in 1..(i - 1) : routes_[j].path # target
    IN  {routes_[i].method}

\* allow_methods, the methods of all routes of the path.
AllowMethods(target) ==
    {routes_[i].method : i \in {j \in DOMAIN routes_ : routes_[j].path = target}}

\* The index of the mount that the last loop of route() returns from, or 0.
FirstMount(target) ==
    FirstOf({i \in DOMAIN static_mounts_ : StartsWith(target, static_mounts_[i].prefix)})

\* What route() does with a request: the order of its three parts.
Decision(method, target) ==
    IF FirstRoute(method, target) # 0
        THEN [does |-> "call", with |-> FirstRoute(method, target), allow |-> {}]
    ELSE IF PathFound(target)
        THEN [does |-> "refuse", with |-> 0, allow |-> AllowMethods(target)]
    ELSE IF FirstMount(target) = 0
        THEN [does |-> "miss", with |-> 0, allow |-> {}]
    ELSE IF method \in {"GET", "HEAD"}
        THEN [does |-> "serve", with |-> FirstMount(target), allow |-> {}]
    ELSE [does |-> "refuse", with |-> 0, allow |-> {"GET", "HEAD"}]

\* Mutant: a new route is put before the others.
AddRouteMutant(method, path, func) ==
    routes_' = <<[method |-> method, path |-> path, func |-> func]>> \o routes_

AddRoute(method, path, func) ==
    routes_' = Append(routes_, [method |-> method, path |-> path, func |-> func])

AddStatic(prefix, directory) ==
    static_mounts_' = Append(static_mounts_, [prefix |-> prefix, directory |-> directory])

-----------------------------------------------------------------------------
(* serve_static_file                                                       *)

\* rel_path begins with "/" whatever the prefix of the mount ended with.
RelPath(prefix, target) ==
    LET rest == SubSeq(target, Len(prefix) + 1, Len(target))
    IN  IF rest = << >> \/ rest[1] # "/" THEN <<"/">> \o rest ELSE rest

\* is_path_safe; NUL is the null byte.  That rel_path begins with "/" was just
\* made sure of.
IsPathSafe(rel_path) ==
    \A i \in DOMAIN rel_path : rel_path[i] \notin {"..", "NUL"}

\* fs::path(directory) / fs::path(rel_path).relative_path(): the slashes that
\* rel_path begins with become one.
FullPath(directory, rel_path) ==
    LET name == {i \in DOMAIN rel_path : rel_path[i] # "/"}
        first == IF name = {} THEN Len(rel_path) + 1 ELSE Min(name)
    IN  directory \o <<"/">> \o SubSeq(rel_path, first, Len(rel_path))

FileAsked == FullPath(mount.directory, RelPath(mount.prefix, req.target))

\* What the file system f says of a name now, and what it says while it is disk.
LookIn(f, name) == IF name \in DOMAIN f THEN f[name] ELSE [path |-> << >>, kind |-> "gone"]
Look(name) == LookIn(disk, name)

\* fs::canonical succeeds: the name resolves, and what it names can be reached.
Resolves(name) == Look(name).kind \in Found

MimeTypes ==
    ".html" :> "text/html" @@ ".htm" :> "text/html" @@ ".txt" :> "text/plain"
    @@ ".css" :> "text/css" @@ ".js" :> "application/javascript"
    @@ ".json" :> "application/json" @@ ".png" :> "image/png"
    @@ ".jpg" :> "image/jpeg" @@ ".jpeg" :> "image/jpeg" @@ ".gif" :> "image/gif"
    @@ ".svg" :> "image/svg+xml" @@ ".ico" :> "image/x-icon"

\* get_mime_type: an extension in any case is a token of its own, and decides if
\* it ends the path.
MimeType(path) ==
    LET ext == Lower(path[Len(path)])
    IN  IF ext \in DOMAIN MimeTypes THEN MimeTypes[ext] ELSE "application/octet-stream"

Finish(response) ==
    /\ res' = response /\ pc' = "done"

\* route(): what it answers without the file system; is_path_safe included.
Dispatch ==
    /\ pc = "route"
    /\ LET d == Decision(req.method, req.target)
       IN  \/ /\ d.does = "call"
              /\ \E response \in Called(routes_[d.with].func) : Finish(response)
              /\ UNCHANGED mount
           \/ /\ d.does = "refuse"
              /\ Finish(MethodNotAllowed(d.allow))
              /\ UNCHANGED mount
           \/ /\ d.does = "miss"
              /\ Finish(NotFound)
              /\ UNCHANGED mount
           \/ /\ d.does = "serve"
              /\ mount' = static_mounts_[d.with]
              /\ IF IsPathSafe(RelPath(mount'.prefix, req.target))
                 THEN pc' = "canonical" /\ UNCHANGED res
                 ELSE Finish(ErrorResponse(403, "Forbidden"))
    /\ UNCHANGED <<routerVars, disk, req, canonical, during>>

\* fs::canonical(full_path, ec)
Canonical ==
    /\ pc = "canonical"
    /\ IF Resolves(FileAsked)
       THEN canonical' = Look(FileAsked).path /\ pc' = "root" /\ UNCHANGED res
       ELSE Finish(NotFound) /\ UNCHANGED canonical
    /\ UNCHANGED <<routerVars, disk, req, mount, during>>

\* Mutant: the prefix is not compared.
WithinMutant(path, root) == TRUE

\* file_str.substr(0, root_str.size()) == root_str
Within(path, root) == StartsWith(path, root)

\* fs::canonical(mount.directory, ec), and the comparison with it.
CanonicalRoot ==
    /\ pc = "root"
    /\ IF ~Resolves(mount.directory) THEN Finish(InternalError)
       ELSE IF ~Within(canonical, Look(mount.directory).path)
            THEN Finish(ErrorResponse(403, "Forbidden"))
       ELSE pc' = "regular" /\ UNCHANGED res
    /\ UNCHANGED <<routerVars, disk, req, localVars, during>>

\* fs::is_regular_file(canonical), which is false if nothing is there and throws
\* filesystem_error if it cannot tell.
IsRegularFile ==
    /\ pc = "regular"
    /\ \/ Look(canonical).kind = "denied" /\ pc' = "thrown" /\ UNCHANGED res
       \/ Look(canonical).kind \in {"dir", "gone"} /\ Finish(NotFound)
       \/ Look(canonical).kind \in {"file", "locked"} /\ pc' = "open" /\ UNCHANGED res
    /\ UNCHANGED <<routerVars, disk, req, localVars, during>>

\* What an ifstream reads: the content of a file, which its path stands for.  A
\* directory can be opened, but not read: the failure goes unnoticed.
Content(file) == IF file.kind = "file" THEN <<file.path>> ELSE << >>

\* std::ifstream(canonical) and the response with its content.
OpenFile ==
    /\ pc = "open"
    /\ Finish(IF Look(canonical).kind \in {"file", "dir"}
              THEN SetHeader(Ok(Content(Look(canonical)), "text/plain"),
                             "Content-Type", {MimeType(canonical)})
              ELSE InternalError)
    /\ UNCHANGED <<routerVars, disk, req, localVars, during>>

\* Other processes remove, restore, protect or swap files, directories and links
\* between two questions (and between two requests: Receive in Application).
DiskChange(f) ==
    /\ pc \in {"canonical", "root", "regular", "open"} /\ f # disk
    /\ disk' = f /\ during' = during \cup {f}
    /\ Cardinality(during') <= MaxStates
    /\ UNCHANGED <<routerVars, pc, req, localVars, res>>

RouteStep == Dispatch \/ Canonical \/ CanonicalRoot \/ IsRegularFile \/ OpenFile

Disk == \E f \in FileSystems : DiskChange(f)
=============================================================================
