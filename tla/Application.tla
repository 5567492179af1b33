---------------------------- MODULE Application -----------------------------
(***************************************************************************)
(* From the command line to the response: Config::parse_args               *)
(* (src/server/config.cpp), Server::setup_routes, routes and mounts that   *)
(* the embedding program adds through Server::router(), and what           *)
(* handle_connection does with a parsed request: route() it, set           *)
(* keep_alive, serialize (src/server/server.cpp).                          *)
(*                                                                         *)
(* route() is const: requests share nothing but the file system, whose     *)
(* changes interleave with the steps of one (module Router).  One request  *)
(* after any registration and any changes therefore stands for them all.   *)
(***************************************************************************)
EXTENDS Router, Integers

CONSTANTS Words,        \* words of a command line
          MaxArgs,      \* bound: words of a command line
          Served,       \* bound: the other command lines are parsed, not served
          Numbers,      \* [words that begin with a number -> the number]
          IntMax,       \* the largest int
          SizeModulus,  \* 2 to the width of size_t and of unsigned long long
          Default       \* the default static_dir, a word

ASSUME ApplicationAssumption ==
    /\ MaxArgs \in Nat
    /\ SizeModulus \in Nat /\ SizeModulus >= 65536 /\ IntMax \in Nat
    /\ DOMAIN Numbers \subseteq Words \ {"none"}
    /\ \A word \in DOMAIN Numbers : Numbers[word] \in Int

VARIABLES
    argv, i,        \* the command line without argv[0], and the loop's index
    config,
    wire,           \* the last response written, serialized
    extra           \* bound: routes and mounts added so far

appVars == <<argv, i, config, wire, extra>>
vars == <<routerVars, disk, pc, req, localVars, res, during, appVars>>

TakesValue == {"--port", "--workers", "--queue-size", "--static-dir", "--timeout"}

\* The defaults of struct Config; one field for the three timeouts.
DefaultConfig ==
    [port |-> 8080, num_workers |-> 4, max_queue_size |-> 256,
     timeout_sec |-> 30, static_dir |-> Default, enable_keepalive |-> TRUE]

NoRequest == [method |-> "GET", target |-> << >>]
NoWire == Serialize(NewResponse)

Init ==
    /\ argv \in UNION {[1..n -> Words] : n \in 0..MaxArgs} /\ i = 1
    /\ config = DefaultConfig /\ pc = "args" /\ extra = 0
    /\ routes_ = << >> /\ static_mounts_ = << >>
    /\ disk = AtStart /\ during = {AtStart}
    /\ req = NoRequest /\ mount = NoMount /\ canonical = << >>
    /\ res = NewResponse /\ wire = NoWire

-----------------------------------------------------------------------------
(* Config::parse_args                                                      *)

\* Mutant: the value is not skipped.
NextArgMutant == i + 1

\* argv[++i], and the ++i of the loop.
NextArg == i + 2

\* Mutant: the cast is forgotten.
ToPortMutant(n) == n

\* static_cast<uint16_t>
ToPort(n) == n % 65536

\* std::stoull takes a sign, too, and wraps.
ToSize(n) == n % SizeModulus

\* std::stoi and std::stoull accept a word that begins with a number, if that
\* fits; of a negative number, stoull tests the magnitude.
Accepted(option, word) ==
    /\ word \in DOMAIN Numbers
    /\ IF option = "--queue-size"
       THEN -SizeModulus < Numbers[word] /\ Numbers[word] < SizeModulus
       ELSE -IntMax - 1 <= Numbers[word] /\ Numbers[word] <= IntMax

\* What an option with a number does to the configuration.
Assign(option, n) ==
    CASE option = "--port"       -> [config EXCEPT !.port = ToPort(n)]
      [] option = "--workers"    -> [config EXCEPT !.num_workers = n]
      [] option = "--queue-size" -> [config EXCEPT !.max_queue_size = ToSize(n)]
      [] option = "--timeout"    -> [config EXCEPT !.timeout_sec = n]

\* One turn of the loop.  An option without its value, and an unknown word, are
\* ignored; a value that is no number, or too large a one, ends the program with an
\* exception.
ParseArg ==
    /\ pc = "args" /\ i <= Len(argv)
    /\ \/ /\ argv[i] = "--help"
          /\ pc' = "exit" /\ UNCHANGED <<i, config>>
       \/ /\ argv[i] \in TakesValue /\ i + 1 <= Len(argv)
          /\ \/ /\ argv[i] = "--static-dir"
                /\ config' = [config EXCEPT !.static_dir = argv[i + 1]]
                /\ i' = NextArg /\ UNCHANGED pc
             \/ /\ argv[i] # "--static-dir" /\ Accepted(argv[i], argv[i + 1])
                /\ config' = Assign(argv[i], Numbers[argv[i + 1]])
                /\ i' = NextArg /\ UNCHANGED pc
             \/ /\ argv[i] # "--static-dir" /\ ~Accepted(argv[i], argv[i + 1])
                /\ pc' = "abort" /\ UNCHANGED <<i, config>>
       \/ /\ argv[i] = "--no-keepalive"
          /\ config' = [config EXCEPT !.enable_keepalive = FALSE]
          /\ i' = i + 1 /\ UNCHANGED pc
       \/ /\ argv[i] \notin {"--help", "--no-keepalive"}
          /\ argv[i] \in TakesValue => i + 1 > Len(argv)
          /\ i' = i + 1 /\ UNCHANGED <<config, pc>>
    /\ UNCHANGED <<routerVars, disk, req, localVars, res, during, argv, wire, extra>>

ParseReturns ==
    /\ pc = "args" /\ i > Len(argv)
    /\ pc' = "parsed"
    /\ UNCHANGED <<routerVars, disk, req, localVars, res, during, appVars>>

-----------------------------------------------------------------------------
(* Server                                                                  *)

OwnRoutes ==
    <<[method |-> "GET", path |-> <<"/">>, func |-> "root"],
      [method |-> "GET", path |-> <<"/", "health">>, func |-> "health"],
      [method |-> "GET", path |-> <<"/", "api", "/", "info">>, func |-> "info"],
      [method |-> "POST", path |-> <<"/", "api", "/", "echo">>, func |-> "echo"],
      [method |-> "DELETE", path |-> <<"/", "api", "/", "data">>, func |-> "delete"]>>

ASSUME OwnRoutesAssumption == \A k \in DOMAIN OwnRoutes : OwnRoutes[k] \in Routes

\* main() makes the Server and calls setup_routes(); argv is not used again.
SetupRoutes ==
    /\ pc = "parsed" /\ argv \in Served
    /\ routes_' = OwnRoutes
    /\ AddStatic(<<"/", "static">>, <<config.static_dir>>)
    /\ pc' = "idle" /\ argv' = << >> /\ i' = 1
    /\ UNCHANGED <<disk, req, localVars, res, during, config, wire, extra>>

\* Server::router().add_route or add_static, before start().
Register ==
    /\ pc = "idle" /\ extra < MaxExtra
    /\ extra' = extra + 1
    /\ \/ /\ \E r \in ExtraRoutes : AddRoute(r.method, r.path, r.func)
          /\ UNCHANGED static_mounts_
       \/ /\ \E prefix \in Prefixes : AddStatic(prefix, <<Default>>)
          /\ UNCHANGED routes_
    /\ UNCHANGED <<disk, pc, req, localVars, res, during, argv, i, config, wire>>

\* A worker has parsed a request; the file system is in any of its states.
Receive(method, target) ==
    /\ pc = "idle"
    /\ req' = [method |-> method, target |-> target]
    /\ pc' = "route" /\ disk' \in FileSystems /\ during' = {disk'}
    /\ UNCHANGED <<routerVars, localVars, res, appVars>>

\* res.keep_alive = keep_alive; serialize; write_all.  should_keep_alive is what
\* the request asked for.
Respond(should_keep_alive) ==
    /\ pc = "done"
    /\ wire' = Serialize([res EXCEPT
                  !.keep_alive = config.enable_keepalive /\ should_keep_alive])
    /\ pc' = "answered"
    /\ UNCHANGED <<routerVars, disk, req, localVars, res, during, argv, i, config, extra>>

\* route() has thrown.  A worker of the pool catches it, and the client's
\* connection is closed without an answer; a thread of the baseline mode does
\* not, which ends the process.
Unwind ==
    /\ pc = "thrown"
    /\ pc' = IF config.num_workers > 0 THEN "closed" ELSE "abort"
    /\ UNCHANGED <<routerVars, disk, req, localVars, res, during, appVars>>

-----------------------------------------------------------------------------
Next ==
    \/ ParseArg \/ ParseReturns \/ SetupRoutes \/ Register
    \/ \E m \in Methods, t \in Targets : Receive(m, t)
    \/ RouteStep /\ UNCHANGED appVars
    \/ Disk /\ UNCHANGED appVars
    \/ \E keep \in BOOLEAN : Respond(keep)
    \/ Unwind

Spec == Init /\ [][Next]_vars
-----------------------------------------------------------------------------
(* Properties                                                              *)

Registered == pc = "idle"
Answered == pc = "answered"

\* Every variable keeps its type; the port fits its sixteen bits.
TypeOK ==
    /\ config.port \in Nat /\ config.port <= 65535 /\ config.num_workers \in Int
    /\ config.max_queue_size \in 0..(SizeModulus - 1) /\ config.timeout_sec \in Int
    /\ config.static_dir \in Words \cup {Default} /\ config.enable_keepalive \in BOOLEAN
    /\ routes_ \in Seq(Routes)
    /\ i \in 1..(MaxArgs + 1) /\ extra \in 0..MaxExtra
    /\ disk \in FileSystems /\ during \subseteq FileSystems
    /\ pc \in {"args", "parsed", "exit", "abort", "closed", "idle", "route", "canonical", "root",
               "regular", "open", "done", "thrown", "answered"}

\* A word of the command line is an option or the value of the one before it.
Roles(words) ==
    CHOOSE role \in [DOMAIN words -> {"option", "value"}] :
        \A n \in DOMAIN words :
            role[n] = "value" <=>
                n > 1 /\ role[n - 1] = "option" /\ words[n - 1] \in TakesValue

\* What a command line means for an option: its last value, or the default.
LastValue(option, default) ==
    LET at == {n \in DOMAIN argv : /\ Roles(argv)[n] = "option"
                                   /\ argv[n] = option /\ n < Len(argv)}
    IN  IF at = {} THEN default
        ELSE argv[CHOOSE n \in {m + 1 : m \in at} : \A m \in at : m + 1 <= n]

LastNumber(option, default) ==
    LET value == LastValue(option, "none")
    IN  IF value = "none" THEN default ELSE Numbers[value]

\* parse_args gives each setting the last value that the command line has for
\* it and leaves the others alone, however options and values are mixed: an
\* option's value is never taken for an option, and a last option without its
\* value changes nothing.
ConfigIsMeaning ==
    pc = "parsed" => config =
        [port |-> LastNumber("--port", 8080) % 65536,
         num_workers |-> LastNumber("--workers", 4),
         max_queue_size |-> LastNumber("--queue-size", 256) % SizeModulus,
         timeout_sec |-> LastNumber("--timeout", 30),
         static_dir |-> LastValue("--static-dir", Default),
         enable_keepalive |-> \A n \in DOMAIN argv :
              argv[n] = "--no-keepalive" => Roles(argv)[n] = "value"]

\* The Allow header is exact: a method is listed if and only if a request with
\* it on the same target is not refused, for routes, mounts and routes that
\* shadow files of a mount alike.
AllowIsExact ==
    Registered => \A m \in Methods, t \in Targets :
        LET d == Decision(m, t)
        IN  d.does = "refuse" =>
              \A n \in Methods :
                 n \in d.allow <=> Decision(n, t).does # "refuse"

\* Registering more never takes a request away from the handler that answers
\* it, and never turns a served or refused target into an unknown one.
LaterRoutesOnlyExtend ==
    [][ Registered => \A m \in Methods, t \in Targets :
          LET d == Decision(m, t)
          IN  /\ d.does = "call" =>
                    /\ Decision(m, t)'.does = "call"
                    /\ routes_'[Decision(m, t)'.with] = routes_[d.with]
              /\ d.does # "miss" => Decision(m, t)'.does # "miss" ]_<<routes_, static_mounts_>>

\* path is root or lies below it.
Inside(path, root) ==
    /\ StartsWith(path, root)
    /\ \/ Len(path) = Len(root) \/ path[Len(root) + 1] = "/" \/ root[Len(root)] = "/"

\* path lies below a neighbour of root whose name begins with root's own, like
\* static2 beside static: the comparison of the two strings does not notice.
Namesake(path, root) == StartsWith(path, root) /\ ~Inside(path, root)

\* No such path can be found in f.
NoNamesake(f, root) ==
    \A name \in DOMAIN f : f[name].kind \in Found => ~Namesake(f[name].path, root)

\* Served with a content, whatever became of the file system in the meantime: at
\* one moment of the request its target named a file; at one moment that file
\* was in the mount, if no neighbour of the mount's directory had a name that
\* begins with the directory's; and at one moment it was a regular file.  (What
\* is read in the end need not be that file: a link may have taken its place.)
ServedWasAsked ==
    \E f, g, h \in during :
        LET root == LookIn(g, mount.directory).path
        IN  /\ LookIn(f, FileAsked).kind \in Found /\ canonical = LookIn(f, FileAsked).path
            /\ LookIn(g, mount.directory).kind \in Found
            /\ NoNamesake(f, root) => Inside(canonical, root)
            /\ LookIn(h, canonical).kind \in {"file", "locked"}

\* What one look at the file system says of the file that was asked for.
OneLook ==
    LET file == Look(FileAsked)
    IN  IF ~IsPathSafe(RelPath(mount.prefix, req.target)) THEN 403
        ELSE IF file.kind \notin Found THEN 404
        ELSE IF ~Inside(file.path, Look(mount.directory).path) THEN 403
        ELSE CASE file.kind = "file" -> 200
               [] file.kind = "locked" -> 500
               [] file.kind = "dir" -> 404

\* What a mount serves while others change the files under it; and if nobody
\* does so meanwhile, the answer is what one look says, the content is that of
\* the file, and route() does not throw.  (A namesake's file is refused by one
\* look, and served by the code.)
StaticAnswerIsTrue ==
    /\ during = {disk} => pc # "thrown"
    /\ Answered /\ Decision(req.method, req.target).does = "serve" =>
          /\ wire.status = 200 => ServedWasAsked
          /\ /\ during = {disk}
             /\ ~Namesake(Look(FileAsked).path, Look(mount.directory).path)
             => /\ wire.status = OneLook
                /\ wire.status = 200 => wire.body = <<Look(FileAsked).path>>
=============================================================================
