-------------------------- MODULE ApplicationProofs --------------------------
(***************************************************************************)
(* Proofs, for any words, command lines, routes, mounts, targets and files *)
(* of a mount, of the properties of Application.                           *)
(***************************************************************************)
EXTENDS Application, SequenceTheorems, WellFoundedInduction, TLAPS

-----------------------------------------------------------------------------
(* The order of the loops of route()                                       *)

\* A non-empty set of numbers has a least one.
LEMMA LeastNumber ==
  ASSUME NEW T \in SUBSET Nat, T # {}
  PROVE  \E n \in T : \A m \in T : n <= m
<1>1. PICK n \in T : \A m \in T : ~(<<m, n>> \in OpToRel(<, Nat))
  BY NatLessThanWellFounded, WFMin
<1>2. \A m \in T : ~(m < n)
  BY <1>1 DEF OpToRel
<1> QED
  BY <1>2

\* An index of a sequence is a positive number.
LEMMA IndexType ==
  ASSUME NEW S, NEW s \in Seq(S)
  PROVE  \A n \in DOMAIN s : n \in Nat \ {0}
BY LenProperties

\* A loop returns at the first index that lets it return.
LEMMA FirstIsFirst ==
  ASSUME NEW indices, \A n \in indices : n \in Nat \ {0}
  PROVE  /\ FirstOf(indices) = 0 <=> indices = {}
         /\ indices # {} => /\ FirstOf(indices) \in indices
                            /\ \A n \in indices : FirstOf(indices) <= n
<1>1. CASE indices = {}
  BY <1>1 DEF FirstOf
<1>2. CASE indices # {}
  <2>1. \E n \in indices : \A m \in indices : n <= m
    <3>1. indices \in SUBSET Nat
      OBVIOUS
    <3> QED
      BY <1>2, <3>1, LeastNumber
  <2>2. Min(indices) \in indices /\ \A m \in indices : Min(indices) <= m
    BY <2>1 DEF Min
  <2> QED
    BY <1>2, <2>2 DEF FirstOf
<1> QED
  BY <1>1, <1>2

\* The routes and the mounts that a request matches.
Matching(m, t) == {n \in DOMAIN routes_ : routes_[n].path = t /\ routes_[n].method = m}
MatchingMounts(t) == {n \in DOMAIN static_mounts_ : StartsWith(t, static_mounts_[n].prefix)}

Mounts == [prefix : Prefixes \cup {<<"/", "static">>},
           directory : {<<word>> : word \in Words \cup {Default}}]

RouterTypes == routes_ \in Seq(Routes) /\ static_mounts_ \in Seq(Mounts)

LEMMA RouteFound ==
  ASSUME RouterTypes, NEW m, NEW t
  PROVE  /\ FirstRoute(m, t) = 0 <=> Matching(m, t) = {}
         /\ FirstRoute(m, t) # 0 => /\ FirstRoute(m, t) \in Matching(m, t)
                                    /\ \A n \in Matching(m, t) : FirstRoute(m, t) <= n
<1>1. DOMAIN routes_ = 1..Len(routes_) /\ Len(routes_) \in Nat
  BY LenProperties DEF RouterTypes
<1>2. \A n \in Matching(m, t) : n \in Nat \ {0}
  BY <1>1 DEF Matching
<1>3. FirstRoute(m, t) = FirstOf(Matching(m, t))
  BY DEF FirstRoute, Matching
<1> QED
  BY <1>2, <1>3, FirstIsFirst

LEMMA MountFound ==
  ASSUME RouterTypes, NEW t
  PROVE  /\ FirstMount(t) = 0 <=> MatchingMounts(t) = {}
         /\ FirstMount(t) # 0 => FirstMount(t) \in MatchingMounts(t)
<1>1. DOMAIN static_mounts_ = 1..Len(static_mounts_) /\ Len(static_mounts_) \in Nat
  BY LenProperties DEF RouterTypes
<1>2. \A n \in MatchingMounts(t) : n \in Nat \ {0}
  BY <1>1 DEF MatchingMounts
<1>3. FirstMount(t) = FirstOf(MatchingMounts(t))
  BY DEF FirstMount, MatchingMounts
<1> QED
  BY <1>2, <1>3, FirstIsFirst

\* The Allow header lists the methods of the routes of the path, and no other:
\* those for which the first loop would have returned.
LEMMA AllowExact ==
  ASSUME RouterTypes
  PROVE  AllowIsExact
<1> SUFFICES ASSUME NEW m \in Methods, NEW t \in Targets, NEW n \in Methods,
                    Decision(m, t).does = "refuse"
             PROVE  n \in Decision(m, t).allow <=> Decision(n, t).does # "refuse"
  BY DEF AllowIsExact
<1>1. FirstRoute(m, t) = 0
  BY DEF Decision
<1>2. CASE PathFound(t)
  <2>1. Decision(m, t).allow = AllowMethods(t)
    BY <1>1, <1>2 DEF Decision
  <2>2. Decision(n, t).does # "refuse" <=> FirstRoute(n, t) # 0
    BY <1>2 DEF Decision
  <2>3. n \in AllowMethods(t) <=> Matching(n, t) # {}
    BY DEF AllowMethods, Matching
  <2> QED
    BY <2>1, <2>2, <2>3, RouteFound
<1>3. CASE ~PathFound(t)
  <2>1. Decision(m, t).allow = {"GET", "HEAD"} /\ FirstMount(t) # 0
    BY <1>1, <1>3 DEF Decision
  <2>2. FirstRoute(n, t) = 0
    <3>1. Matching(n, t) = {}
      BY <1>3 DEF PathFound, Matching
    <3> QED
      BY <3>1, RouteFound
  <2>3. Decision(n, t).does = IF n \in {"GET", "HEAD"} THEN "serve" ELSE "refuse"
    BY <1>3, <2>1, <2>2 DEF Decision
  <2> QED
    BY <2>1, <2>3
<1> QED
  BY <1>2, <1>3

\* A request whose handler was found keeps it when routes are only added at the
\* end, and a target that was known stays known.
LEMMA AddedAtTheEnd ==
  ASSUME RouterTypes, RouterTypes', NEW m, NEW t,
         \/ (\E r \in Routes : routes_' = Append(routes_, r)) /\ UNCHANGED static_mounts_
         \/ (\E d \in Mounts : static_mounts_' = Append(static_mounts_, d)) /\ UNCHANGED routes_
  PROVE  /\ Decision(m, t).does = "call" =>
              /\ Decision(m, t)'.does = "call"
              /\ routes_'[Decision(m, t)'.with] = routes_[Decision(m, t).with]
         /\ Decision(m, t).does # "miss" => Decision(m, t)'.does # "miss"
<1>1. /\ Len(routes_) \in Nat /\ DOMAIN routes_ = 1..Len(routes_)
      /\ Len(static_mounts_) \in Nat /\ DOMAIN static_mounts_ = 1..Len(static_mounts_)
  BY LenProperties DEF RouterTypes
<1>2. /\ DOMAIN routes_ \subseteq DOMAIN routes_'
      /\ \A n \in DOMAIN routes_ : routes_'[n] = routes_[n]
      /\ \A n \in DOMAIN routes_' \ DOMAIN routes_ : n = Len(routes_) + 1
  <2>1. CASE UNCHANGED routes_
    BY <2>1
  <2>2. CASE \E r \in Routes : routes_' = Append(routes_, r)
    <3>1. PICK r \in Routes : routes_' = Append(routes_, r)
      BY <2>2
    <3>2. /\ Len(routes_') = Len(routes_) + 1 /\ DOMAIN routes_' = 1..Len(routes_')
          /\ \A n \in 1..Len(routes_) : routes_'[n] = routes_[n]
      BY <3>1, AppendProperties, LenProperties DEF RouterTypes
    <3> QED
      BY <1>1, <3>2
  <2> QED
    BY <2>1, <2>2
<1>3. /\ DOMAIN static_mounts_ \subseteq DOMAIN static_mounts_'
      /\ \A n \in DOMAIN static_mounts_ : static_mounts_'[n] = static_mounts_[n]
  <2>1. CASE UNCHANGED static_mounts_
    BY <2>1
  <2>2. CASE \E d \in Mounts : static_mounts_' = Append(static_mounts_, d)
    <3>1. PICK d \in Mounts : static_mounts_' = Append(static_mounts_, d)
      BY <2>2
    <3>2. /\ Len(static_mounts_') = Len(static_mounts_) + 1
          /\ DOMAIN static_mounts_' = 1..Len(static_mounts_')
          /\ \A n \in 1..Len(static_mounts_) : static_mounts_'[n] = static_mounts_[n]
      BY <3>1, AppendProperties, LenProperties DEF RouterTypes
    <3> QED
      BY <1>1, <3>2
  <2> QED
    BY <2>1, <2>2
<1>4. /\ FirstRoute(m, t)' = 0 <=> Matching(m, t)' = {}
      /\ FirstRoute(m, t)' # 0 => /\ FirstRoute(m, t)' \in Matching(m, t)'
                                  /\ \A n \in Matching(m, t)' : FirstRoute(m, t)' <= n
  <2>1. \A n \in DOMAIN routes_' : n \in Nat \ {0}
    BY IndexType DEF RouterTypes
  <2>2. \A n \in Matching(m, t)' : n \in Nat \ {0}
    <3>1. \A n \in Matching(m, t)' : n \in DOMAIN routes_'
      BY DEF Matching
    <3> QED
      BY <2>1, <3>1, Zenon
  <2>3. FirstRoute(m, t)' = FirstOf(Matching(m, t)')
    BY DEF FirstRoute, Matching
  <2> QED
    BY <2>2, <2>3, FirstIsFirst
<1>5. FirstMount(t)' = 0 <=> MatchingMounts(t)' = {}
  <2>1. \A n \in DOMAIN static_mounts_' : n \in Nat \ {0}
    BY IndexType DEF RouterTypes
  <2>2. \A n \in MatchingMounts(t)' : n \in Nat \ {0}
    <3>1. \A n \in MatchingMounts(t)' : n \in DOMAIN static_mounts_'
      BY DEF MatchingMounts
    <3> QED
      BY <2>1, <3>1, Zenon
  <2>3. FirstMount(t)' = FirstOf(MatchingMounts(t)')
    BY DEF FirstMount, MatchingMounts
  <2> QED
    BY <2>2, <2>3, FirstIsFirst
<1>6. FirstRoute(m, t) # 0 => FirstRoute(m, t)' = FirstRoute(m, t)
  <2> SUFFICES ASSUME FirstRoute(m, t) # 0
               PROVE  FirstRoute(m, t)' = FirstRoute(m, t)
    OBVIOUS
  <2>1. /\ FirstRoute(m, t) \in Matching(m, t)
        /\ \A n \in Matching(m, t) : FirstRoute(m, t) <= n
    BY RouteFound
  <2>2. /\ Matching(m, t) \subseteq Matching(m, t)'
        /\ \A n \in Matching(m, t)' : n \in Matching(m, t) \/ n = Len(routes_) + 1
    BY <1>2 DEF Matching
  <2>3. \A n \in Matching(m, t) : n \in 1..Len(routes_)
    BY <1>1 DEF Matching
  <2>4. /\ FirstRoute(m, t)' \in Matching(m, t)'
        /\ \A n \in Matching(m, t)' : FirstRoute(m, t)' <= n
    BY <1>4, <2>1, <2>2
  <2> HIDE DEF Matching
  <2>5. FirstRoute(m, t)' <= FirstRoute(m, t) /\ FirstRoute(m, t) \in 1..Len(routes_)
    BY <2>1, <2>2, <2>3, <2>4
  <2>6. FirstRoute(m, t)' \in Matching(m, t)
    BY <1>1, <2>2, <2>4, <2>5
  <2> QED
    BY <1>1, <2>1, <2>3, <2>5, <2>6
<1>7. PathFound(t) => PathFound(t)'
  BY <1>2 DEF PathFound
<1>8. FirstMount(t) # 0 => FirstMount(t)' # 0
  <2>1. MatchingMounts(t) \subseteq MatchingMounts(t)'
    BY <1>3 DEF MatchingMounts
  <2> QED
    BY <1>5, <2>1, MountFound
<1>9. Decision(m, t).does = "call" =>
        /\ Decision(m, t)'.does = "call"
        /\ routes_'[Decision(m, t)'.with] = routes_[Decision(m, t).with]
  <2> SUFFICES ASSUME Decision(m, t).does = "call"
               PROVE  /\ Decision(m, t)'.does = "call"
                      /\ routes_'[Decision(m, t)'.with] = routes_[Decision(m, t).with]
    OBVIOUS
  <2>1. FirstRoute(m, t) # 0 /\ Decision(m, t).with = FirstRoute(m, t)
    BY DEF Decision
  <2>2. Decision(m, t)'.does = "call" /\ Decision(m, t)'.with = FirstRoute(m, t)
    BY <1>6, <2>1 DEF Decision
  <2>3. FirstRoute(m, t) \in DOMAIN routes_
    BY <2>1, RouteFound DEF Matching
  <2> QED
    BY <1>2, <2>1, <2>2, <2>3
<1>10. Decision(m, t).does # "miss" => Decision(m, t)'.does # "miss"
  BY <1>6, <1>7, <1>8 DEF Decision
<1> QED
  BY <1>9, <1>10

-----------------------------------------------------------------------------
(* The inductive invariant                                                 *)

IsConfig(c) ==
    /\ c = [port |-> c.port, num_workers |-> c.num_workers,
            max_queue_size |-> c.max_queue_size, timeout_sec |-> c.timeout_sec,
            static_dir |-> c.static_dir, enable_keepalive |-> c.enable_keepalive]
    /\ c.port \in Nat /\ c.port <= 65535 /\ c.num_workers \in Int
    /\ c.max_queue_size \in 0..(SizeModulus - 1) /\ c.timeout_sec \in Int
    /\ c.static_dir \in Words \cup {Default} /\ c.enable_keepalive \in BOOLEAN

\* Where a request may be inside serve_static_file.
InServe == {"canonical", "root", "regular", "open"}

Types ==
    /\ IsConfig(config) /\ RouterTypes
    /\ argv \in Seq(Words) /\ Len(argv) <= MaxArgs
    /\ i \in Nat \ {0} /\ i <= MaxArgs + 1
    /\ pc = "args" => i <= Len(argv) + 1
    /\ extra \in 0..MaxExtra
    /\ pc \in {"args", "parsed", "exit", "abort", "closed", "idle", "route", "done",
               "thrown", "answered"} \cup InServe
    /\ disk \in FileSystems /\ during \subseteq FileSystems
    /\ req.target \in Seq(Tokens)

\* What was written is the response that route() returned.
ResponseInv ==
    /\ IsResponse(res)
    /\ Answered => \E keep \in BOOLEAN : wire = Serialize([res EXCEPT !.keep_alive = keep])

\* What a step of serve_static_file learns of the file system f.
AskedIn(f) == LookIn(f, FileAsked).kind \in Found /\ canonical = LookIn(f, FileAsked).path
MountIn(f) == /\ LookIn(f, mount.directory).kind \in Found
              /\ StartsWith(canonical, LookIn(f, mount.directory).path)
FileIn(f) == LookIn(f, canonical).kind \in {"file", "locked"}

WasAsked == \E f \in during : AskedIn(f)
WasInMount == \E f \in during : MountIn(f)
WasFile == \E f \in during : FileIn(f)

\* The answer is what one look says, if there is nothing that the comparison of
\* strings does not notice.
OneLookAnswer ==
    ~Namesake(Look(FileAsked).path, Look(mount.directory).path) =>
        /\ res.status = OneLook
        /\ res.status = 200 => res.body = <<Look(FileAsked).path>>

\* serve_static_file knows at each step what was so when a step before it looked;
\* and if nothing has changed since the request came, is so.
ServeInv ==
    /\ pc \in InServe \cup {"route"} => disk \in during
    /\ pc \in InServe =>
          /\ Decision(req.method, req.target).does = "serve"
          /\ mount = static_mounts_[Decision(req.method, req.target).with]
          /\ mount \in Mounts
          /\ IsPathSafe(RelPath(mount.prefix, req.target))
    /\ pc \in {"root", "regular", "open"} => WasAsked
    /\ pc \in {"regular", "open"} => WasInMount
    /\ pc = "open" => WasFile
    /\ pc = "thrown" => during # {disk}
    /\ pc \in {"done", "answered"} /\ Decision(req.method, req.target).does = "serve" =>
          /\ res.status = 200 => WasAsked /\ WasInMount /\ WasFile
          /\ during = {disk} => OneLookAnswer

\* What the first k - 1 words of a command line mean (see ConfigIsMeaning).
OptionsBefore(words, option, k) ==
    {n \in DOMAIN words : /\ Roles(words)[n] = "option" /\ words[n] = option
                          /\ n < Len(words) /\ n < k}

LastOf(words, at, default) ==
    IF at = {} THEN default
    ELSE words[CHOOSE n \in {m + 1 : m \in at} : \A m \in at : m + 1 <= n]

ValueBefore(words, option, default, k) ==
    LastOf(words, OptionsBefore(words, option, k), default)

NumberBefore(words, option, default, k) ==
    LET value == ValueBefore(words, option, "none", k)
    IN  IF value = "none" THEN default ELSE Numbers[value]

KeepBefore(words, k) ==
    \A n \in DOMAIN words :
        n < k /\ words[n] = "--no-keepalive" => Roles(words)[n] = "value"

Settings(port, workers, size, timeout, dir, keep) ==
    [port |-> port, num_workers |-> workers, max_queue_size |-> size,
     timeout_sec |-> timeout, static_dir |-> dir, enable_keepalive |-> keep]

MeaningBefore(words, k) ==
    Settings(ToPort(NumberBefore(words, "--port", 8080, k)),
             NumberBefore(words, "--workers", 4, k),
             ToSize(NumberBefore(words, "--queue-size", 256, k)),
             NumberBefore(words, "--timeout", 30, k),
             ValueBefore(words, "--static-dir", Default, k),
             KeepBefore(words, k))

\* The loop of parse_args is at an option, and the configuration is what the
\* words before it mean.
MeaningInv ==
    /\ pc \in {"args", "parsed"} => config = MeaningBefore(argv, i)
    /\ pc = "args" /\ i <= Len(argv) => Roles(argv)[i] = "option"
    /\ pc = "parsed" => i > Len(argv)

Inv == Types /\ ResponseInv /\ ServeInv /\ MeaningInv

-----------------------------------------------------------------------------
(* Types                                                                   *)

\* A word that is a number, cut to the width of its setting.
LEMMA CutNumbers ==
  ASSUME NEW n \in Int
  PROVE  /\ ToPort(n) \in Nat /\ ToPort(n) <= 65535
         /\ ToSize(n) \in 0..(SizeModulus - 1)
<1>1. ToPort(n) \in Nat /\ ToPort(n) <= 65535
  BY DEF ToPort
<1>2. ToSize(n) \in 0..(SizeModulus - 1)
  BY ApplicationAssumption DEF ToSize
<1> QED
  BY <1>1, <1>2

LEMMA SetFlag ==
  ASSUME NEW c, IsConfig(c), NEW flag \in BOOLEAN
  PROVE  IsConfig([c EXCEPT !.enable_keepalive = flag])
BY DEF IsConfig

LEMMA ParseArgTypes ==
  ASSUME Types, ParseArg
  PROVE  Types'
<1>1. /\ i \in Nat \ {0} /\ i <= Len(argv) /\ Len(argv) \in Nat /\ Len(argv) <= MaxArgs
      /\ MaxArgs \in Nat /\ pc = "args" /\ DOMAIN argv = 1..Len(argv)
  BY ApplicationAssumption, LenProperties DEF Types, ParseArg
<1>2. \A n \in 1..Len(argv) : argv[n] \in Words
  BY ElementOfSeq DEF Types
<1>3. /\ UNCHANGED <<routes_, static_mounts_, disk, during, argv, extra, req>>
      /\ pc' \in {"args", "exit", "abort"}
      /\ i' \in {i, i + 1} \/ (i' = i + 2 /\ i + 1 <= Len(argv))
  BY <1>1 DEF ParseArg, routerVars, NextArg
<1>4. IsConfig(config')
  <2>0. IsConfig(config)
    BY DEF Types
  <2>1. CASE UNCHANGED config
    BY <2>0, <2>1
  <2>2. CASE /\ i + 1 <= Len(argv)
             /\ config' = [config EXCEPT !.static_dir = argv[i + 1]]
    <3>1. argv[i + 1] \in Words
      BY <1>1, <1>2, <2>2
    <3> QED
      BY <2>0, <2>2, <3>1 DEF IsConfig
  <2>3. CASE config' = [config EXCEPT !.enable_keepalive = FALSE]
    <3>1. FALSE \in BOOLEAN
      BY Zenon
    <3> QED
      BY <2>0, <2>3, <3>1, SetFlag, Zenon
  <2>4. CASE /\ argv[i] \in TakesValue \ {"--static-dir"}
             /\ argv[i + 1] \in DOMAIN Numbers
             /\ config' = Assign(argv[i], Numbers[argv[i + 1]])
    <3> DEFINE n == Numbers[argv[i + 1]]
    <3>1. n \in Int
      BY <2>4, ApplicationAssumption
    <3>2. /\ ToPort(n) \in Nat /\ ToPort(n) <= 65535
          /\ ToSize(n) \in 0..(SizeModulus - 1)
      BY <3>1, CutNumbers
    <3>3. config' \in {[config EXCEPT !.port = ToPort(n)], [config EXCEPT !.num_workers = n],
                       [config EXCEPT !.max_queue_size = ToSize(n)],
                       [config EXCEPT !.timeout_sec = n]}
      BY <2>4 DEF Assign, TakesValue
    <3> HIDE DEF n
    <3> QED
      BY <2>0, <3>1, <3>2, <3>3 DEF IsConfig
  <2> QED
    BY <2>1, <2>2, <2>3, <2>4 DEF ParseArg, Accepted
<1>5. i' \in Nat \ {0} /\ i' <= Len(argv) + 1
  BY <1>1, <1>3
<1> QED
  BY <1>1, <1>3, <1>4, <1>5 DEF Types, RouterTypes

LEMMA SetupTypes ==
  ASSUME Types, SetupRoutes
  PROVE  Types'
<1>1. routes_' \in Seq(Routes)
  <2>1. OwnRoutes \in Seq(Routes)
    <3>1. OwnRoutes = [k \in 1..5 |-> OwnRoutes[k]]
      BY DEF OwnRoutes
    <3>2. DOMAIN OwnRoutes = 1..5
      BY <3>1
    <3>3. \A k \in 1..5 : OwnRoutes[k] \in Routes
      BY <3>2, OwnRoutesAssumption
    <3> QED
      BY <3>1, <3>3, IsASeq
  <2> QED
    BY <2>1 DEF SetupRoutes
<1>2. static_mounts_' \in Seq(Mounts)
  <2>1. [prefix |-> <<"/", "static">>, directory |-> <<config.static_dir>>] \in Mounts
    <3>1. config.static_dir \in Words \cup {Default}
      BY DEF Types, IsConfig
    <3> QED
      BY <3>1 DEF Mounts
  <2> QED
    BY <2>1, AppendProperties DEF Types, RouterTypes, SetupRoutes, AddStatic
<1>3. argv' \in Seq(Words) /\ Len(argv') = 0 /\ i' = 1
  BY DEF SetupRoutes
<1> QED
  BY <1>1, <1>2, <1>3, ApplicationAssumption DEF Types, RouterTypes, SetupRoutes

LEMMA RegisterTypes ==
  ASSUME Types, Register
  PROVE  Types' /\ RouterTypes
         /\ \/ (\E r \in Routes : routes_' = Append(routes_, r)) /\ UNCHANGED static_mounts_
            \/ (\E d \in Mounts : static_mounts_' = Append(static_mounts_, d)) /\ UNCHANGED routes_
<1>1. \/ (\E r \in Routes : routes_' = Append(routes_, r)) /\ UNCHANGED static_mounts_
      \/ (\E d \in Mounts : static_mounts_' = Append(static_mounts_, d)) /\ UNCHANGED routes_
  <2>1. CASE /\ \E r \in ExtraRoutes : AddRoute(r.method, r.path, r.func)
             /\ UNCHANGED static_mounts_
    <3>1. PICK r \in ExtraRoutes : AddRoute(r.method, r.path, r.func)
      BY <2>1
    <3>2. r \in Routes
      BY RouterAssumption
    <3>3. r = [method |-> r.method, path |-> r.path, func |-> r.func]
      BY <3>2 DEF Routes
    <3> QED
      BY <2>1, <3>1, <3>2, <3>3 DEF AddRoute
  <2>2. CASE /\ \E prefix \in Prefixes : AddStatic(prefix, <<Default>>)
             /\ UNCHANGED routes_
    <3>1. PICK prefix \in Prefixes : AddStatic(prefix, <<Default>>)
      BY <2>2
    <3>2. [prefix |-> prefix, directory |-> <<Default>>] \in Mounts
      BY DEF Mounts
    <3> QED
      BY <2>2, <3>1, <3>2 DEF AddStatic
  <2> QED
    BY <2>1, <2>2 DEF Register
<1>2. RouterTypes
  BY DEF Types
<1>3. RouterTypes'
  <2>1. CASE (\E r \in Routes : routes_' = Append(routes_, r)) /\ UNCHANGED static_mounts_
    BY <1>2, <2>1, AppendProperties DEF RouterTypes
  <2>2. CASE (\E d \in Mounts : static_mounts_' = Append(static_mounts_, d)) /\ UNCHANGED routes_
    BY <1>2, <2>2, AppendProperties DEF RouterTypes
  <2> QED
    BY <1>1, <2>1, <2>2
<1>4. extra' \in 0..MaxExtra
  BY RouterAssumption DEF Types, Register
<1> QED
  BY <1>1, <1>2, <1>3, <1>4 DEF Types, Register

\* The other steps touch neither the command line, the configuration nor the
\* router.
LEMMA RequestTypes ==
  ASSUME Types,
         \/ ParseReturns
         \/ \E m \in Methods, t \in Targets : Receive(m, t)
         \/ RouteStep /\ UNCHANGED appVars
         \/ \E keep \in BOOLEAN : Respond(keep)
         \/ Unwind
  PROVE  Types'
<1>1. CASE ParseReturns
  BY <1>1 DEF ParseReturns, Types, RouterTypes, routerVars, appVars
<1>2. CASE \E m \in Methods, t \in Targets : Receive(m, t)
  <2>1. /\ UNCHANGED <<config, routes_, static_mounts_, argv, i, extra>>
        /\ disk' \in FileSystems /\ during' = {disk'}
        /\ pc' = "route" /\ req'.target \in Targets
    BY <1>2 DEF Receive, routerVars, appVars
  <2> QED
    BY <2>1, RouterAssumption DEF Types, RouterTypes
<1>3. CASE RouteStep /\ UNCHANGED appVars
  <2>1. /\ UNCHANGED <<config, routes_, static_mounts_, argv, i, extra, disk, during, req>>
        /\ pc' \in {"done", "thrown"} \cup InServe
    <3>1. CASE Dispatch
      BY <1>3, <3>1 DEF Dispatch, Finish, routerVars, appVars, InServe
    <3>2. CASE Canonical
      BY <1>3, <3>2 DEF Canonical, Finish, routerVars, appVars, InServe
    <3>3. CASE CanonicalRoot
      BY <1>3, <3>3 DEF CanonicalRoot, Finish, routerVars, appVars, InServe
    <3>4. CASE IsRegularFile
      BY <1>3, <3>4 DEF IsRegularFile, Finish, routerVars, appVars, InServe
    <3>5. CASE OpenFile
      BY <1>3, <3>5 DEF OpenFile, Finish, routerVars, appVars, InServe
    <3> QED
      BY <1>3, <3>1, <3>2, <3>3, <3>4, <3>5 DEF RouteStep
  <2> QED
    BY <2>1 DEF Types, RouterTypes, InServe
<1>4. CASE \E keep \in BOOLEAN : Respond(keep)
  BY <1>4 DEF Respond, Types, RouterTypes, routerVars
<1>5. CASE Unwind
  BY <1>5 DEF Unwind, Types, RouterTypes, routerVars, appVars
<1> QED
  BY <1>1, <1>2, <1>3, <1>4, <1>5

LEMMA DiskTypes ==
  ASSUME Types, Disk, UNCHANGED appVars
  PROVE  /\ Types' /\ pc \in InServe
         /\ UNCHANGED <<routes_, static_mounts_, pc, req, mount, canonical, res>>
         /\ disk' # disk /\ during' = during \cup {disk'}
<1>1. /\ UNCHANGED <<config, routes_, static_mounts_, argv, i, extra, pc, req, mount, canonical, res>>
      /\ disk' \in FileSystems /\ disk' # disk /\ during' = during \cup {disk'}
      /\ pc \in InServe
  BY DEF Disk, DiskChange, routerVars, localVars, appVars, InServe
<1> QED
  BY <1>1 DEF Types, RouterTypes

LEMMA TypesInit ==
  ASSUME Init
  PROVE  Types
<1>1. argv \in Seq(Words) /\ Len(argv) <= MaxArgs
  <2>1. PICK n \in 0..MaxArgs : argv \in [1..n -> Words]
    BY DEF Init
  <2>2. n \in Nat /\ n <= MaxArgs
    BY ApplicationAssumption
  <2>3. argv \in Seq(Words)
    BY <2>1, <2>2, IsASeq
  <2>4. Len(argv) = n
    BY <2>1, <2>2, <2>3, LenProperties
  <2> QED
    BY <2>2, <2>3, <2>4
<1>2. IsConfig(config)
  BY ApplicationAssumption DEF Init, DefaultConfig, IsConfig
<1>3. disk \in FileSystems /\ during \subseteq FileSystems
  BY RouterAssumption DEF Init
<1>5. /\ routes_ \in Seq(Routes) /\ static_mounts_ \in Seq(Mounts)
      /\ i = 1 /\ pc = "args" /\ extra \in 0..MaxExtra /\ Len(argv) \in Nat
      /\ req.target \in Seq(Tokens)
  BY <1>1, RouterAssumption, LenProperties DEF Init, NoRequest
<1> QED
  BY <1>1, <1>2, <1>3, <1>5, ApplicationAssumption DEF Types, RouterTypes

-----------------------------------------------------------------------------
(* Responses                                                               *)

LEMMA SetHeaderMade ==
  ASSUME NEW r, IsResponse(r), NEW key, NEW value
  PROVE  /\ IsResponse(SetHeader(r, key, value))
         /\ SetHeader(r, key, value).status = r.status
         /\ SetHeader(r, key, value).body = r.body
<1>1. SetHeader(r, key, value) =
        [status |-> r.status, headers |-> (key :> value) @@ r.headers, body |-> r.body,
         keep_alive |-> r.keep_alive]
  BY DEF SetHeader, IsResponse
<1> QED
  BY <1>1 DEF IsResponse

LEMMA SetBodyMade ==
  ASSUME NEW r, IsResponse(r), NEW body, NEW content_type
  PROVE  /\ IsResponse(SetBody(r, body, content_type))
         /\ SetBody(r, body, content_type).status = r.status
         /\ SetBody(r, body, content_type).body = body
<1> DEFINE b == [r EXCEPT !.body = body]
<1>1. IsResponse(b) /\ b.status = r.status /\ b.body = body
  BY DEF IsResponse
<1>2. SetBody(r, body, content_type) = SetHeader(b, "Content-Type", {content_type})
  BY DEF SetBody
<1> HIDE DEF b
<1> QED
  BY <1>1, <1>2, SetHeaderMade

LEMMA NewMade == IsResponse(NewResponse) /\ NewResponse.status = 200
BY DEF IsResponse, NewResponse

LEMMA StatusMade ==
  ASSUME NEW r, IsResponse(r), NEW code \in Nat
  PROVE  IsResponse([r EXCEPT !.status = code]) /\ [r EXCEPT !.status = code].status = code
BY DEF IsResponse

LEMMA OkMade ==
  ASSUME NEW body, NEW content_type
  PROVE  /\ IsResponse(Ok(body, content_type)) /\ Ok(body, content_type).status = 200
         /\ Ok(body, content_type).body = body
BY NewMade, SetBodyMade DEF Ok

LEMMA ErrorMade ==
  ASSUME NEW code \in {403, 404, 500}, NEW message
  PROVE  IsResponse(ErrorResponse(code, message)) /\ ErrorResponse(code, message).status = code
<1> DEFINE r == [NewResponse EXCEPT !.status = code]
           b == <<IF message # "" THEN message ELSE ReasonPhrase(code)>>
<1>1. IsResponse(r) /\ r.status = code
  <2>1. code \in Nat
    OBVIOUS
  <2> QED
    BY <2>1, NewMade, StatusMade
<1>2. ErrorResponse(code, message) = SetBody(r, b, "text/plain")
  BY DEF ErrorResponse
<1> HIDE DEF r, b
<1> QED
  BY <1>1, <1>2, SetBodyMade

\* The errors that route() returns.
LEMMA ErrorsMade ==
  /\ IsResponse(NotFound) /\ NotFound.status = 404
  /\ IsResponse(ErrorResponse(403, "Forbidden")) /\ ErrorResponse(403, "Forbidden").status = 403
  /\ IsResponse(InternalError) /\ InternalError.status = 500
<1>1. IsResponse(NotFound) /\ NotFound.status = 404
  <2> DEFINE c == 404
             text == "Not Found"
  <2>1. NotFound = ErrorResponse(c, text)
    BY DEF NotFound
  <2>2. c \in {403, 404, 500} /\ c = 404
    OBVIOUS
  <2> HIDE DEF c, text
  <2>3. IsResponse(ErrorResponse(c, text)) /\ ErrorResponse(c, text).status = c
    BY <2>2, ErrorMade
  <2> QED
    BY <2>1, <2>2, <2>3
<1>2. IsResponse(ErrorResponse(403, "Forbidden")) /\ ErrorResponse(403, "Forbidden").status = 403
  <2> DEFINE c == 403
             text == "Forbidden"
  <2>1. ErrorResponse(403, "Forbidden") = ErrorResponse(c, text)
    BY DEF NotFound
  <2>2. c \in {403, 404, 500} /\ c = 403
    OBVIOUS
  <2> HIDE DEF c, text
  <2>3. IsResponse(ErrorResponse(c, text)) /\ ErrorResponse(c, text).status = c
    BY <2>2, ErrorMade
  <2> QED
    BY <2>1, <2>2, <2>3
<1>3. IsResponse(InternalError) /\ InternalError.status = 500
  <2> DEFINE c == 500
             text == ""
  <2>1. InternalError = ErrorResponse(c, text)
    BY DEF InternalError
  <2>2. c \in {403, 404, 500} /\ c = 500
    OBVIOUS
  <2> HIDE DEF c, text
  <2>3. IsResponse(ErrorResponse(c, text)) /\ ErrorResponse(c, text).status = c
    BY <2>2, ErrorMade
  <2> QED
    BY <2>1, <2>2, <2>3
<1> QED
  BY <1>1, <1>2, <1>3

\* What route() returns for a handler that throws.
LEMMA ThrownMade == IsResponse(ErrorResponse(500, "Internal Server Error"))
<1> DEFINE c == 500
           text == "Internal Server Error"
<1>1. ErrorResponse(500, "Internal Server Error") = ErrorResponse(c, text)
  OBVIOUS
<1>2. c \in {403, 404, 500}
  OBVIOUS
<1> HIDE DEF c, text
<1>3. IsResponse(ErrorResponse(c, text))
  BY <1>2, ErrorMade
<1> QED
  BY <1>1, <1>3

LEMMA NotAllowedMade ==
  ASSUME NEW allowed
  PROVE  IsResponse(MethodNotAllowed(allowed)) /\ MethodNotAllowed(allowed).status = 405
<1> DEFINE r == [NewResponse EXCEPT !.status = 405]
           h == SetHeader(r, "Allow", allowed)
           b == <<"Method Not Allowed">>
<1>1. IsResponse(r) /\ r.status = 405
  <2>1. \A code \in Nat : LET s == [NewResponse EXCEPT !.status = code]
                          IN  IsResponse(s) /\ s.status = code
    BY NewMade, StatusMade
  <2>2. 405 \in Nat
    OBVIOUS
  <2> QED
    BY <2>1, <2>2
<1>2. MethodNotAllowed(allowed) = SetBody(h, b, "text/plain")
  BY DEF MethodNotAllowed
<1> HIDE DEF r, b
<1>3. IsResponse(h) /\ h.status = 405
  BY <1>1, SetHeaderMade
<1> HIDE DEF h
<1> QED
  BY <1>2, <1>3, SetBodyMade

\* What the handlers return, those of the embedding program included.
LEMMA ResultMade ==
  ASSUME NEW func \in Handlers, NEW response \in Called(func)
  PROVE  IsResponse(response)
<1>1. CASE func \in {"root", "health", "info", "echo"}
  <2>1. response \in Results(func)
    BY <1>1, Zenon DEF Called, Throws
  <2>2. \E body, type : response = Ok(body, type)
    BY <1>1, <2>1 DEF Results, JsonResponse
  <2> QED
    BY <2>2, OkMade
<1>2. CASE func = "delete"
  <2>1. response = [NewResponse EXCEPT !.status = 204]
    BY <1>2 DEF Called, Throws, Results, MakeResponse
  <2> QED
    BY <2>1, NewMade, StatusMade
<1>3. CASE func = "custom"
  BY <1>3, RouterAssumption DEF Called, Throws, Results
<1>4. CASE func = "throws"
  BY <1>4, ThrownMade DEF Called, Throws
<1> QED
  BY <1>1, <1>2, <1>3, <1>4 DEF Handlers

LEMMA RouteResponds ==
  ASSUME RouterTypes, IsResponse(res), RouteStep
  PROVE  IsResponse(res') /\ pc' # "answered"
<1>1. CASE Dispatch
  <2> DEFINE d == Decision(req.method, req.target)
  <2>1. CASE d.does = "call"
    <3>1. d.with \in DOMAIN routes_
      <4>1. FirstRoute(req.method, req.target) # 0 /\ d.with = FirstRoute(req.method, req.target)
        BY <2>1 DEF Decision
      <4> QED
        BY <4>1, RouteFound DEF Matching
    <3>2. routes_[d.with].func \in Handlers
      <4>1. routes_[d.with] \in Routes
        BY <3>1, ElementOfSeq, LenProperties DEF RouterTypes
      <4> QED
        BY <4>1 DEF Routes
    <3>3. /\ res' \in Called(routes_[d.with].func)
          /\ pc' = "done"
      BY <1>1, <2>1 DEF Dispatch, Finish
    <3> DEFINE func == routes_[d.with].func
    <3> HIDE DEF d, func
    <3> QED
      BY <3>2, <3>3, ResultMade DEF func
  <2>2. CASE d.does # "call"
    <3>1. /\ pc' \in {"done", "canonical"}
          /\ \/ UNCHANGED res
             \/ res' = MethodNotAllowed(d.allow)
             \/ res' = NotFound
             \/ res' = ErrorResponse(403, "Forbidden")
      BY <1>1, <2>2 DEF Dispatch, Finish
    <3>2. IsResponse(MethodNotAllowed(d.allow))
      BY NotAllowedMade
    <3>3. IsResponse(NotFound) /\ IsResponse(ErrorResponse(403, "Forbidden"))
      BY ErrorsMade
    <3> HIDE DEF d
    <3> QED
      BY <3>1, <3>2, <3>3
  <2> QED
    BY <2>1, <2>2
<1>2. CASE Canonical
  BY <1>2, ErrorsMade DEF Canonical, Finish
<1>3. CASE CanonicalRoot
  BY <1>3, ErrorsMade DEF CanonicalRoot, Finish
<1>4. CASE IsRegularFile
  BY <1>4, ErrorsMade DEF IsRegularFile, Finish
<1>5. CASE OpenFile
  <2> DEFINE file == Ok(Content(Look(canonical)), "text/plain")
             type == {MimeType(canonical)}
  <2>1. /\ pc' = "done"
        /\ \/ res' = SetHeader(file, "Content-Type", type)
           \/ res' = InternalError
    BY <1>5 DEF OpenFile, Finish
  <2>2. IsResponse(file)
    BY OkMade
  <2> HIDE DEF file, type
  <2> QED
    BY <2>1, <2>2, SetHeaderMade, ErrorsMade
<1> QED
  BY <1>1, <1>2, <1>3, <1>4, <1>5 DEF RouteStep

LEMMA ResponseStep ==
  ASSUME Types, ResponseInv, [Next]_vars
  PROVE  ResponseInv'
<1>1. CASE UNCHANGED <<res, wire, pc>>
  BY <1>1 DEF ResponseInv, Answered
<1>2. CASE ParseArg \/ ParseReturns \/ SetupRoutes \/ Register \/ Unwind
  <2>1. UNCHANGED res /\ pc' # "answered"
    BY <1>2 DEF ParseArg, ParseReturns, SetupRoutes, Register, Unwind
  <2> QED
    BY <2>1 DEF ResponseInv, Answered
<1>3. CASE \E m \in Methods, t \in Targets : Receive(m, t)
  BY <1>3 DEF Receive, ResponseInv, Answered
<1>4. CASE RouteStep
  BY <1>4, RouteResponds DEF ResponseInv, Answered, Types
<1>5. CASE Disk /\ UNCHANGED appVars
  BY <1>5 DEF Disk, DiskChange, appVars, ResponseInv, Answered
<1>6. CASE \E keep \in BOOLEAN : Respond(keep)
  <2>1. PICK keep \in BOOLEAN : Respond(keep)
    BY <1>6
  <2>2. config.enable_keepalive \in BOOLEAN
    BY DEF Types, IsConfig
  <2>3. (config.enable_keepalive /\ keep) \in BOOLEAN
    BY <2>2, Zenon
  <2>4. \E k \in BOOLEAN : wire' = Serialize([res EXCEPT !.keep_alive = k])
    BY <2>1, <2>3, Zenon DEF Respond
  <2>5. UNCHANGED res
    BY <2>1 DEF Respond
  <2> QED
    BY <2>4, <2>5 DEF ResponseInv
<1> QED
  BY <1>1, <1>2, <1>3, <1>4, <1>5, <1>6 DEF Next, vars, appVars

\* What was written is the response that route() returned, framed.
LEMMA WrittenAsMade ==
  ASSUME ResponseInv, Answered
  PROVE  wire.status = res.status /\ wire.body = res.body
<1>1. PICK keep \in BOOLEAN : wire = Serialize([res EXCEPT !.keep_alive = keep])
  BY DEF ResponseInv
<1> DEFINE r == [res EXCEPT !.keep_alive = keep]
<1>2. r.status = res.status /\ r.body = res.body
  BY DEF ResponseInv, IsResponse
<1>3. wire.status = r.status /\ wire.body = r.body
  BY <1>1 DEF Serialize
<1> QED
  BY <1>2, <1>3

-----------------------------------------------------------------------------
(* serve_static_file                                                       *)

LEMMA ShortSeq == <<"/">> \in Seq(Tokens) /\ <<"/", "static">> \in Seq(Tokens)
BY RouterAssumption

LEMMA RelPathType ==
  ASSUME NEW prefix \in Seq(Tokens), NEW target \in Seq(Tokens)
  PROVE  RelPath(prefix, target) \in Seq(Tokens)
<1> DEFINE rest == SubSeq(target, Len(prefix) + 1, Len(target))
<1>1. rest \in Seq(Tokens)
  <2>1. Len(prefix) \in Nat /\ Len(target) \in Nat
    BY LenProperties
  <2>2. CASE Len(prefix) + 1 <= Len(target) + 1
    BY <2>1, <2>2, SubSeqProperties
  <2>3. CASE Len(prefix) + 1 > Len(target) + 1
    <3>1. rest = << >>
      BY <2>1, <2>3
    <3> QED
      BY <3>1
  <2> QED
    BY <2>1, <2>2, <2>3
<1>2. <<"/">> \o rest \in Seq(Tokens)
  <2>1. <<"/">> \in Seq(Tokens)
    BY ShortSeq
  <2> HIDE DEF rest
  <2> QED
    BY <1>1, <2>1, ConcatProperties
<1>3. RelPath(prefix, target) \in {rest, <<"/">> \o rest}
  BY DEF RelPath
<1> HIDE DEF rest
<1> QED
  BY <1>1, <1>2, <1>3

\* A name that is looked up begins with the directory of the mount.
LEMMA NameInMount ==
  ASSUME NEW word, NEW rel_path \in Seq(Tokens)
  PROVE  /\ FullPath(<<word>>, rel_path)[1] = word
         /\ FullPath(<<word>>, rel_path)[2] = "/" /\ Len(FullPath(<<word>>, rel_path)) > 1
<1> DEFINE name == {k \in DOMAIN rel_path : rel_path[k] # "/"}
           first == IF name = {} THEN Len(rel_path) + 1 ELSE Min(name)
           rest == SubSeq(rel_path, first, Len(rel_path))
<1>1. Len(rel_path) \in Nat /\ DOMAIN rel_path = 1..Len(rel_path)
  BY LenProperties
<1>2. first \in 1..(Len(rel_path) + 1)
  <2>1. CASE name = {}
    BY <1>1, <2>1
  <2>2. CASE name # {}
    <3>1. name \in SUBSET Nat
      BY <1>1
    <3>2. \E n \in name : \A m \in name : n <= m
      BY <2>2, <3>1, LeastNumber
    <3>3. Min(name) \in name
      BY <3>2 DEF Min
    <3> QED
      BY <1>1, <2>2, <3>3
  <2> QED
    BY <2>1, <2>2
<1>3. FullPath(<<word>>, rel_path) = <<word>> \o <<"/">> \o rest
  BY DEF FullPath
<1> HIDE DEF first
<1>4. rest \in Seq(Tokens)
  BY <1>1, <1>2, SubSeqProperties
<1>5. Len(rest) \in Nat
  BY <1>4, LenProperties
<1> HIDE DEF rest
<1> DEFINE whole == <<word>> \o <<"/">> \o rest
<1>6. Len(whole) = Len(rest) + 2 /\ whole[1] = word /\ whole[2] = "/"
  BY <1>4, <1>5
<1> HIDE DEF whole
<1>7. FullPath(<<word>>, rel_path) = whole
  BY <1>3 DEF whole
<1> QED
  BY <1>5, <1>6, <1>7

\* What the file system says of the names that it finds.
LEMMA FoundNames ==
  ASSUME NEW f \in FileSystems, NEW name, LookIn(f, name).kind \in Found
  PROVE  /\ name \in DOMAIN f /\ LookIn(f, name) = f[name]
         /\ LookIn(f, LookIn(f, name).path) = LookIn(f, name)
         /\ Len(name) > 1 /\ name[2] = "/" => LookIn(f, <<name[1]>>).kind \in Found
<1>1. name \in DOMAIN f
  BY DEF LookIn, Found
<1>2. LookIn(f, name) = f[name] /\ f[name].kind \in Found
  BY <1>1 DEF LookIn
<1>3. /\ f[name].path \in DOMAIN f /\ f[f[name].path] = f[name]
      /\ Len(name) > 1 /\ name[2] = "/" =>
            <<name[1]>> \in DOMAIN f /\ f[<<name[1]>>].kind \in Found
  BY <1>1, <1>2, RouterAssumption
<1>4. LookIn(f, LookIn(f, name).path) = LookIn(f, name)
  BY <1>2, <1>3 DEF LookIn
<1>5. Len(name) > 1 /\ name[2] = "/" => LookIn(f, <<name[1]>>).kind \in Found
  BY <1>3 DEF LookIn
<1> QED
  BY <1>1, <1>2, <1>4, <1>5

\* What one name is, is one of five things.
LEMMA KindOf ==
  ASSUME NEW f \in FileSystems, NEW name
  PROVE  LookIn(f, name).kind \in Kinds
<1>1. name \in DOMAIN f => f[name].kind \in Kinds
  BY RouterAssumption
<1>2. "gone" \in Kinds
  BY DEF Kinds
<1> QED
  BY <1>1, <1>2 DEF LookIn

\* Where a file of a mount resolves, so does the mount's directory.
LEMMA DirectoryResolves ==
  ASSUME Types, mount \in Mounts, NEW f \in FileSystems, LookIn(f, FileAsked).kind \in Found
  PROVE  LookIn(f, mount.directory).kind \in Found
<1>1. PICK word \in Words \cup {Default} : mount.directory = <<word>>
  BY DEF Mounts
<1>2. mount.prefix \in Seq(Tokens)
  <2>1. <<"/", "static">> \in Seq(Tokens)
    BY ShortSeq
  <2>2. mount.prefix \in Prefixes \cup {<<"/", "static">>}
    BY DEF Mounts
  <2> QED
    BY <2>1, <2>2, RouterAssumption
<1>3. RelPath(mount.prefix, req.target) \in Seq(Tokens)
  BY <1>2, RelPathType DEF Types
<1>4. FileAsked[1] = word /\ Len(FileAsked) > 1 /\ FileAsked[2] = "/"
  BY <1>1, <1>3, NameInMount DEF FileAsked
<1>5. <<FileAsked[1]>> = mount.directory
  BY <1>1, <1>4
<1>6. LookIn(f, <<FileAsked[1]>>).kind \in Found
  BY <1>4, FoundNames
<1> QED
  BY <1>5, <1>6

\* What serve_static_file relies on is a matter of the router, the mount and the
\* request; and of the file system's states.
LEMMA Stable ==
  ASSUME UNCHANGED <<routes_, static_mounts_, mount, req>>
  PROVE  /\ Decision(req.method, req.target)' = Decision(req.method, req.target)
         /\ FileAsked' = FileAsked
         /\ UNCHANGED canonical /\ during \subseteq during' =>
              /\ WasAsked => WasAsked'
              /\ WasInMount => WasInMount'
              /\ WasFile => WasFile'
         /\ UNCHANGED <<disk, res>> => (OneLookAnswer => OneLookAnswer')
<1>1. Decision(req.method, req.target)' = Decision(req.method, req.target)
  BY DEF Decision, FirstRoute, FirstMount, PathFound, AllowMethods
<1>2. FileAsked' = FileAsked
  BY DEF FileAsked
<1>3. ASSUME UNCHANGED canonical, during \subseteq during'
      PROVE  /\ WasAsked => WasAsked'
             /\ WasInMount => WasInMount'
             /\ WasFile => WasFile'
  <2>1. ASSUME WasAsked PROVE WasAsked'
    <3>1. PICK f \in during : AskedIn(f)
      BY <2>1 DEF WasAsked
    <3>2. LookIn(f, FileAsked').kind \in Found /\ canonical' = LookIn(f, FileAsked').path
      BY <1>2, <1>3, <3>1 DEF AskedIn
    <3>3. f \in during'
      BY <1>3
    <3> QED
      BY <3>2, <3>3 DEF WasAsked, AskedIn
  <2>2. ASSUME WasInMount PROVE WasInMount'
    <3>1. PICK f \in during : MountIn(f)
      BY <2>2 DEF WasInMount
    <3>2. /\ LookIn(f, mount'.directory).kind \in Found
          /\ StartsWith(canonical', LookIn(f, mount'.directory).path)
      BY <1>3, <3>1 DEF MountIn
    <3>3. f \in during'
      BY <1>3
    <3> QED
      BY <3>2, <3>3 DEF WasInMount, MountIn
  <2>3. ASSUME WasFile PROVE WasFile'
    <3>1. PICK f \in during : FileIn(f)
      BY <2>3 DEF WasFile
    <3>2. LookIn(f, canonical').kind \in {"file", "locked"}
      BY <1>3, <3>1 DEF FileIn
    <3>3. f \in during'
      BY <1>3
    <3> QED
      BY <3>2, <3>3 DEF WasFile, FileIn
  <2> QED
    BY <2>1, <2>2, <2>3
<1>4. ASSUME UNCHANGED <<disk, res>>, OneLookAnswer PROVE OneLookAnswer'
  <2>1. Look(FileAsked)' = Look(FileAsked) /\ Look(mount.directory)' = Look(mount.directory)
    BY <1>2, <1>4 DEF Look
  <2>2. OneLook' = OneLook
    BY <2>1 DEF OneLook
  <2> QED
    BY <1>4, <2>1, <2>2 DEF OneLookAnswer
<1> QED
  BY <1>1, <1>2, <1>3, <1>4

LEMMA DispatchServes ==
  ASSUME Types, ServeInv, Dispatch
  PROVE  ServeInv'
<1> DEFINE d == Decision(req.method, req.target)
<1>1. /\ pc = "route" /\ UNCHANGED <<routes_, static_mounts_, disk, req, during>>
      /\ disk \in during
  BY DEF Dispatch, ServeInv, routerVars
<1>2. d' = d
  BY <1>1 DEF Decision, FirstRoute, FirstMount, PathFound, AllowMethods
<1>3. CASE d.does # "serve"
  <2>1. pc' = "done"
    BY <1>3 DEF Dispatch, Finish
  <2> HIDE DEF d
  <2>2. d'.does # "serve"
    BY <1>2, <1>3
  <2> QED
    BY <1>1, <2>1, <2>2 DEF ServeInv, InServe, d
<1>4. CASE d.does = "serve"
  <2>1. /\ mount' = static_mounts_[d.with]
        /\ IF IsPathSafe(RelPath(mount'.prefix, req.target))
           THEN pc' = "canonical" /\ UNCHANGED res
           ELSE Finish(ErrorResponse(403, "Forbidden"))
    BY <1>4 DEF Dispatch
  <2>2. mount' \in Mounts
    <3>1. FirstMount(req.target) # 0 /\ d.with = FirstMount(req.target)
      BY <1>4 DEF Decision
    <3>2. d.with \in DOMAIN static_mounts_
      BY <3>1, MountFound DEF MatchingMounts, Types
    <3> HIDE DEF d
    <3> QED
      BY <2>1, <3>2, ElementOfSeq, LenProperties DEF Types, RouterTypes
  <2>3. mount' = static_mounts_'[d'.with] /\ d'.does = "serve"
    <3> HIDE DEF d
    <3> QED
      BY <1>1, <1>2, <1>4, <2>1
  <2>4. CASE IsPathSafe(RelPath(mount'.prefix, req.target))
    <3>1. pc' = "canonical" /\ IsPathSafe(RelPath(mount'.prefix, req'.target))
      BY <1>1, <2>1, <2>4
    <3> QED
      BY <1>1, <2>2, <2>3, <3>1 DEF ServeInv, InServe
  <2>5. CASE ~IsPathSafe(RelPath(mount'.prefix, req.target))
    <3>1. pc' = "done" /\ res' = ErrorResponse(403, "Forbidden")
      BY <2>1, <2>5 DEF Finish
    <3>2. OneLook' = 403
      BY <1>1, <2>5 DEF OneLook
    <3>3. res'.status = 403
      BY <3>1, ErrorsMade
    <3>4. OneLookAnswer'
      BY <3>2, <3>3 DEF OneLookAnswer
    <3> QED
      BY <1>1, <3>1, <3>3, <3>4 DEF ServeInv, InServe
  <2> QED
    BY <2>4, <2>5
<1> QED
  BY <1>3, <1>4

\* If nothing has changed, what was so is so.
LEMMA StillSo ==
  ASSUME Types, mount \in Mounts, during = {disk}
  PROVE  /\ WasAsked => /\ Resolves(FileAsked) /\ canonical = Look(FileAsked).path
                        /\ Look(canonical) = Look(FileAsked) /\ Resolves(mount.directory)
         /\ WasInMount => StartsWith(canonical, Look(mount.directory).path)
         /\ WasFile => Look(canonical).kind \in {"file", "locked"}
<1>1. disk \in FileSystems
  BY DEF Types
<1>2. ASSUME WasAsked
      PROVE  /\ Resolves(FileAsked) /\ canonical = Look(FileAsked).path
             /\ Look(canonical) = Look(FileAsked) /\ Resolves(mount.directory)
  <2>1. LookIn(disk, FileAsked).kind \in Found /\ canonical = LookIn(disk, FileAsked).path
    BY <1>2 DEF WasAsked, AskedIn
  <2>2. LookIn(disk, canonical) = LookIn(disk, FileAsked)
    BY <1>1, <2>1, FoundNames
  <2>3. LookIn(disk, mount.directory).kind \in Found
    BY <1>1, <2>1, DirectoryResolves
  <2> QED
    BY <2>1, <2>2, <2>3 DEF Look, Resolves
<1>3. WasInMount => StartsWith(canonical, Look(mount.directory).path)
  BY DEF WasInMount, MountIn, Look
<1>4. WasFile => Look(canonical).kind \in {"file", "locked"}
  BY DEF WasFile, FileIn, Look
<1> QED
  BY <1>2, <1>3, <1>4

\* The steps that look at the file system.
LEMMA LookServes ==
  ASSUME Types, ServeInv, Canonical \/ CanonicalRoot \/ IsRegularFile \/ OpenFile
  PROVE  ServeInv'
<1> DEFINE d == Decision(req.method, req.target)
<1>1. /\ UNCHANGED <<routes_, static_mounts_, disk, mount, req, during>>
      /\ pc \in InServe /\ disk \in during /\ disk \in FileSystems
  BY DEF Canonical, CanonicalRoot, IsRegularFile, OpenFile, routerVars, localVars, InServe,
         ServeInv, Types
<1>2. /\ d' = d /\ FileAsked' = FileAsked
      /\ UNCHANGED canonical => /\ WasAsked => WasAsked'
                                /\ WasInMount => WasInMount'
                                /\ WasFile => WasFile'
  BY <1>1, Stable
<1>3. /\ d.does = "serve" /\ mount = static_mounts_[d.with] /\ mount \in Mounts
      /\ IsPathSafe(RelPath(mount.prefix, req.target))
  BY <1>1 DEF ServeInv
<1>4. d'.does = "serve" /\ mount' = static_mounts_'[d'.with] /\ mount' \in Mounts
  <2> HIDE DEF d
  <2> QED
    BY <1>1, <1>2, <1>3
<1>5. IsPathSafe(RelPath(mount'.prefix, req'.target)) /\ disk' \in during'
  BY <1>1, <1>3
<1>6. /\ Look(FileAsked)' = Look(FileAsked) /\ Look(mount.directory)' = Look(mount.directory)
      /\ OneLook' = OneLook
  <2>1. Look(FileAsked)' = Look(FileAsked) /\ Look(mount.directory)' = Look(mount.directory)
    BY <1>1, <1>2 DEF Look
  <2> QED
    BY <1>1, <2>1 DEF OneLook
<1>7. during' = {disk'} <=> during = {disk}
  BY <1>1
<1>8. ASSUME pc' = "done", res'.status # 200, during = {disk} => OneLook = res'.status
      PROVE  ServeInv'
  <2>1. during' = {disk'} => OneLookAnswer'
    BY <1>6, <1>7, <1>8 DEF OneLookAnswer
  <2> QED
    BY <1>8, <2>1 DEF ServeInv, InServe
<1> HIDE DEF d
<1>9. CASE Canonical
  <2>1. CASE Resolves(FileAsked)
    <3>1. canonical' = Look(FileAsked).path /\ pc' = "root"
      BY <1>9, <2>1 DEF Canonical
    <3>2. LookIn(disk, FileAsked').kind \in Found /\ canonical' = LookIn(disk, FileAsked').path
      BY <1>2, <2>1, <3>1 DEF Resolves, Look
    <3>3. WasAsked'
      BY <1>1, <3>2 DEF WasAsked, AskedIn
    <3> QED
      BY <1>4, <1>5, <3>1, <3>3 DEF ServeInv, InServe, d
  <2>2. CASE ~Resolves(FileAsked)
    <3>1. pc' = "done" /\ res' = NotFound
      BY <1>9, <2>2 DEF Canonical, Finish
    <3>2. OneLook = 404
      BY <1>3, <2>2 DEF OneLook, Resolves
    <3>3. res'.status = 404
      BY <3>1, ErrorsMade
    <3> QED
      BY <1>8, <3>1, <3>2, <3>3
  <2> QED
    BY <2>1, <2>2
<1>10. CASE CanonicalRoot
  <2>1. /\ WasAsked /\ canonical' = canonical
        /\ during = {disk} => /\ Resolves(FileAsked) /\ canonical = Look(FileAsked).path
                              /\ Resolves(mount.directory)
    BY <1>3, <1>10, StillSo DEF CanonicalRoot, ServeInv, localVars
  <2>2. CASE ~Resolves(mount.directory)
    <3>1. pc' = "done" /\ res' = InternalError
      BY <1>10, <2>2 DEF CanonicalRoot, Finish
    <3>2. pc' = "done" /\ res'.status = 500
      BY <3>1, ErrorsMade
    <3> QED
      BY <1>8, <2>1, <2>2, <3>2
  <2>3. CASE Resolves(mount.directory) /\ ~Within(canonical, Look(mount.directory).path)
    <3>1. pc' = "done" /\ res' = ErrorResponse(403, "Forbidden")
      BY <1>10, <2>3 DEF CanonicalRoot, Finish
    <3>2. res'.status = 403
      BY <3>1, ErrorsMade
    <3>3. during = {disk} => OneLook = 403
      BY <1>3, <2>1, <2>3 DEF OneLook, Within, Inside, Resolves
    <3> QED
      BY <1>8, <3>1, <3>2, <3>3
  <2>4. CASE Resolves(mount.directory) /\ Within(canonical, Look(mount.directory).path)
    <3>1. pc' = "regular" /\ StartsWith(canonical, Look(mount.directory).path)
      BY <1>10, <2>4 DEF CanonicalRoot, Within
    <3>2. MountIn(disk)
      BY <2>4, <3>1 DEF MountIn, Look, Resolves
    <3>3. WasInMount
      BY <1>1, <3>2 DEF WasInMount
    <3> QED
      BY <1>2, <1>4, <1>5, <2>1, <3>1, <3>3 DEF ServeInv, InServe, d
  <2> QED
    BY <2>2, <2>3, <2>4
<1>11. CASE IsRegularFile
  <2>1. /\ WasAsked /\ WasInMount /\ canonical' = canonical
        /\ during = {disk} => /\ Resolves(FileAsked) /\ canonical = Look(FileAsked).path
                              /\ Look(canonical) = Look(FileAsked)
                              /\ StartsWith(canonical, Look(mount.directory).path)
    BY <1>3, <1>11, StillSo DEF IsRegularFile, ServeInv, localVars
  <2>2. CASE Look(canonical).kind = "denied"
    <3>1. pc' = "thrown" /\ during # {disk}
      BY <1>11, <2>1, <2>2 DEF IsRegularFile, Resolves, Found
    <3> QED
      BY <1>7, <3>1 DEF ServeInv, InServe
  <2>3. CASE Look(canonical).kind \in {"dir", "gone"}
    <3>1. pc' = "done" /\ res' = NotFound
      BY <1>11, <2>3 DEF IsRegularFile, Finish
    <3>2. res'.status = 404
      BY <3>1, ErrorsMade
    <3>3. ASSUME during = {disk},
                 ~Namesake(Look(FileAsked).path, Look(mount.directory).path)
          PROVE  OneLook = 404
      <4>1. Look(FileAsked).kind = "dir"
        BY <2>1, <2>3, <3>3 DEF Resolves, Found
      <4>2. Inside(Look(FileAsked).path, Look(mount.directory).path)
        BY <2>1, <3>3 DEF Namesake
      <4> QED
        BY <1>3, <2>1, <3>3, <4>1, <4>2 DEF OneLook, Resolves
    <3>4. during' = {disk'} => OneLookAnswer'
      BY <1>6, <1>7, <3>2, <3>3 DEF OneLookAnswer
    <3> QED
      BY <3>1, <3>2, <3>4 DEF ServeInv, InServe
  <2>4. CASE Look(canonical).kind \in {"file", "locked"}
    <3>1. pc' = "open"
      BY <1>11, <2>4 DEF IsRegularFile, Finish
    <3>2. WasFile
      BY <1>1, <2>4 DEF WasFile, FileIn, Look
    <3> QED
      BY <1>2, <1>4, <1>5, <2>1, <3>1, <3>2 DEF ServeInv, InServe, d
  <2> QED
    BY <1>11, <2>2, <2>3, <2>4 DEF IsRegularFile
<1>12. CASE OpenFile
  <2>1. /\ WasAsked /\ WasInMount /\ WasFile /\ canonical' = canonical /\ pc' = "done"
        /\ during = {disk} => /\ Resolves(FileAsked) /\ canonical = Look(FileAsked).path
                              /\ Look(canonical) = Look(FileAsked)
                              /\ StartsWith(canonical, Look(mount.directory).path)
                              /\ Look(canonical).kind \in {"file", "locked"}
    BY <1>3, <1>12, StillSo DEF OpenFile, Finish, ServeInv, localVars
  <2>2. ASSUME during = {disk},
               ~Namesake(Look(FileAsked).path, Look(mount.directory).path)
        PROVE  OneLook = IF Look(canonical).kind = "file" THEN 200 ELSE 500
    <3>1. Inside(Look(FileAsked).path, Look(mount.directory).path)
      BY <2>1, <2>2 DEF Namesake
    <3> QED
      BY <1>3, <2>1, <2>2, <3>1 DEF OneLook, Resolves
  <2>3. CASE Look(canonical).kind \in {"file", "dir"}
    <3>1. res'.status = 200 /\ res'.body = Content(Look(canonical))
      <4> DEFINE file == Ok(Content(Look(canonical)), "text/plain")
                 type == {MimeType(canonical)}
      <4>1. res' = SetHeader(file, "Content-Type", type)
        BY <1>12, <2>3 DEF OpenFile, Finish
      <4>2. IsResponse(file) /\ file.status = 200 /\ file.body = Content(Look(canonical))
        BY OkMade
      <4> HIDE DEF file, type
      <4> QED
        BY <4>1, <4>2, SetHeaderMade
    <3>2. ASSUME during = {disk},
                 ~Namesake(Look(FileAsked).path, Look(mount.directory).path)
          PROVE  OneLook = 200 /\ res'.body = <<Look(FileAsked).path>>
      <4>1. Look(canonical).kind = "file"
        BY <2>1, <2>3, <3>2
      <4> QED
        BY <2>1, <2>2, <3>1, <3>2, <4>1 DEF Content
    <3>3. during' = {disk'} => OneLookAnswer'
      BY <1>6, <1>7, <3>1, <3>2 DEF OneLookAnswer
    <3> QED
      BY <1>2, <2>1, <3>3 DEF ServeInv, InServe
  <2>4. CASE Look(canonical).kind \notin {"file", "dir"}
    <3>1. res' = InternalError
      BY <1>12, <2>4 DEF OpenFile, Finish
    <3>2. res'.status = 500
      BY <3>1, ErrorsMade
    <3>3. during' = {disk'} => OneLookAnswer'
      BY <1>6, <1>7, <2>2, <2>4, <3>2 DEF OneLookAnswer
    <3> QED
      BY <2>1, <3>2, <3>3 DEF ServeInv, InServe
  <2> QED
    BY <2>3, <2>4
<1> QED
  BY <1>9, <1>10, <1>11, <1>12

LEMMA ServeStep ==
  ASSUME Types, ServeInv, [Next]_vars
  PROVE  ServeInv'
<1>1. CASE UNCHANGED vars
  <2>1. UNCHANGED <<routes_, static_mounts_, disk, mount, req, during, pc, canonical, res>>
    BY <1>1 DEF vars, routerVars, localVars
  <2> QED
    BY <2>1, Stable DEF ServeInv, InServe
<1>2. CASE ParseArg \/ ParseReturns \/ SetupRoutes \/ Register
  <2>1. pc' \in {"args", "parsed", "idle", "exit", "abort"}
    BY <1>2 DEF ParseArg, ParseReturns, SetupRoutes, Register, localVars
  <2> QED
    BY <2>1 DEF ServeInv, InServe
<1>3. CASE \E m \in Methods, t \in Targets : Receive(m, t)
  <2>1. pc' = "route" /\ disk' \in during'
    BY <1>3 DEF Receive, localVars
  <2> QED
    BY <2>1 DEF ServeInv, InServe
<1>4. CASE RouteStep
  BY <1>4, DispatchServes, LookServes DEF RouteStep
<1>5. CASE Disk /\ UNCHANGED appVars
  <2>1. /\ pc \in InServe
        /\ UNCHANGED <<routes_, static_mounts_, pc, req, mount, canonical, res>>
        /\ disk' # disk /\ during' = during \cup {disk'}
    BY <1>5, DiskTypes
  <2>2. /\ Decision(req.method, req.target)' = Decision(req.method, req.target)
        /\ WasAsked => WasAsked'
        /\ WasInMount => WasInMount'
        /\ WasFile => WasFile'
    BY <2>1, Stable
  <2> QED
    BY <2>1, <2>2 DEF ServeInv, InServe
<1>6. CASE \E keep \in BOOLEAN : Respond(keep)
  <2>1. /\ pc = "done" /\ pc' = "answered"
        /\ UNCHANGED <<routes_, static_mounts_, disk, mount, req, during, canonical, res>>
    BY <1>6 DEF Respond, routerVars, localVars
  <2>2. /\ Decision(req.method, req.target)' = Decision(req.method, req.target)
        /\ WasAsked => WasAsked'
        /\ WasInMount => WasInMount'
        /\ WasFile => WasFile'
        /\ OneLookAnswer => OneLookAnswer'
    BY <2>1, Stable
  <2> QED
    BY <2>1, <2>2 DEF ServeInv, InServe
<1>7. CASE Unwind
  <2>1. pc' \in {"closed", "abort"}
    BY <1>7 DEF Unwind
  <2> QED
    BY <2>1 DEF ServeInv, InServe
<1> QED
  BY <1>1, <1>2, <1>3, <1>4, <1>5, <1>6, <1>7 DEF Next

\* What serve_static_file knew is what the client was told.
LEMMA StaticTrue ==
  ASSUME Types, ResponseInv, ServeInv
  PROVE  StaticAnswerIsTrue
<1>1. during = {disk} => pc # "thrown"
  BY DEF ServeInv
<1> SUFFICES ASSUME Answered, Decision(req.method, req.target).does = "serve"
             PROVE  /\ wire.status = 200 => ServedWasAsked
                    /\ /\ during = {disk}
                       /\ ~Namesake(Look(FileAsked).path, Look(mount.directory).path)
                       => /\ wire.status = OneLook
                          /\ wire.status = 200 => wire.body = <<Look(FileAsked).path>>
  BY <1>1 DEF StaticAnswerIsTrue
<1>2. wire.status = res.status /\ wire.body = res.body
  BY WrittenAsMade
<1>3. /\ res.status = 200 => WasAsked /\ WasInMount /\ WasFile
      /\ during = {disk} => OneLookAnswer
  BY DEF ServeInv, Answered
<1>4. ASSUME wire.status = 200 PROVE ServedWasAsked
  <2>1. WasAsked /\ WasInMount /\ WasFile
    BY <1>2, <1>3, <1>4
  <2>2. PICK f \in during : AskedIn(f)
    BY <2>1 DEF WasAsked
  <2>3. PICK g \in during : MountIn(g)
    BY <2>1 DEF WasInMount
  <2>4. PICK h \in during : FileIn(h)
    BY <2>1 DEF WasFile
  <2> DEFINE root == LookIn(g, mount.directory).path
  <2>5. /\ LookIn(f, FileAsked).kind \in Found /\ canonical = LookIn(f, FileAsked).path
        /\ LookIn(g, mount.directory).kind \in Found /\ StartsWith(canonical, root)
        /\ LookIn(h, canonical).kind \in {"file", "locked"}
    BY <2>2, <2>3, <2>4 DEF AskedIn, MountIn, FileIn
  <2>6. f \in FileSystems
    BY <2>2 DEF Types
  <2>7. FileAsked \in DOMAIN f /\ f[FileAsked].kind \in Found /\ canonical = f[FileAsked].path
    BY <2>5, <2>6, FoundNames
  <2>8. NoNamesake(f, root) => Inside(canonical, root)
    BY <2>5, <2>7 DEF NoNamesake, Namesake
  <2> QED
    BY <2>2, <2>3, <2>4, <2>5, <2>8 DEF ServedWasAsked
<1> QED
  BY <1>2, <1>3, <1>4 DEF OneLookAnswer

-----------------------------------------------------------------------------
(* Config::parse_args                                                      *)

\* role says which of the first k words are options and which are values.
AreRoles(words, k, role) ==
    \A n \in 1..k : role[n] = "value" <=>
        n > 1 /\ role[n - 1] = "option" /\ words[n - 1] \in TakesValue

\* Every command line has such roles: the roles of its words one by one.
LEMMA RolesExist ==
  ASSUME NEW words
  PROVE  \A k \in Nat : \E role \in [1..k -> {"option", "value"}] : AreRoles(words, k, role)
<1> DEFINE Bad == {k \in Nat :
                     ~\E role \in [1..k -> {"option", "value"}] : AreRoles(words, k, role)}
<1>1. SUFFICES ASSUME Bad # {} PROVE FALSE
  OBVIOUS
<1>2. PICK k \in Bad : \A j \in Bad : k <= j
  <2>1. Bad \in SUBSET Nat
    OBVIOUS
  <2> HIDE DEF Bad
  <2> QED
    BY <1>1, <2>1, LeastNumber
<1>3. CASE k = 0
  <2>1. [n \in 1..0 |-> "option"] \in [1..0 -> {"option", "value"}]
    OBVIOUS
  <2>2. AreRoles(words, 0, [n \in 1..0 |-> "option"])
    BY DEF AreRoles
  <2> QED
    BY <1>2, <1>3, <2>1, <2>2
<1>4. CASE k # 0
  <2>1. k \in Nat /\ k - 1 \in Nat /\ k - 1 \notin Bad
    BY <1>2, <1>4
  <2>2. PICK role \in [1..(k - 1) -> {"option", "value"}] : AreRoles(words, k - 1, role)
    BY <2>1
  <2> DEFINE last == IF k > 1 /\ role[k - 1] = "option" /\ words[k - 1] \in TakesValue
                     THEN "value" ELSE "option"
             longer == [n \in 1..k |-> IF n = k THEN last ELSE role[n]]
  <2>3. longer \in [1..k -> {"option", "value"}]
    BY <2>1, <2>2
  <2>4. longer[k] = last /\ \A n \in 1..(k - 1) : longer[n] = role[n]
    BY <2>1
  <2>5. ASSUME NEW n \in 1..k
        PROVE  longer[n] = "value" <=>
                 n > 1 /\ longer[n - 1] = "option" /\ words[n - 1] \in TakesValue
    <3>1. CASE n = k
      <4>1. k > 1 => longer[k - 1] = role[k - 1]
        BY <2>1, <2>4
      <4> HIDE DEF longer
      <4> QED
        BY <2>1, <2>4, <3>1, <4>1
    <3>2. CASE n # k
      <4>1. n \in 1..(k - 1) /\ longer[n] = role[n] /\ (n > 1 => longer[n - 1] = role[n - 1])
        BY <2>1, <2>4, <3>2
      <4> HIDE DEF longer
      <4> QED
        BY <2>2, <4>1 DEF AreRoles
    <3> QED
      BY <3>1, <3>2
  <2>6. AreRoles(words, k, longer)
    BY <2>5 DEF AreRoles
  <2> QED
    BY <1>2, <2>3, <2>6
<1> QED
  BY <1>3, <1>4

LEMMA RolesAre ==
  ASSUME NEW words \in Seq(Words)
  PROVE  /\ Roles(words) \in [DOMAIN words -> {"option", "value"}]
         /\ AreRoles(words, Len(words), Roles(words))
<1>1. Len(words) \in Nat /\ DOMAIN words = 1..Len(words)
  BY LenProperties
<1>2. \E role \in [DOMAIN words -> {"option", "value"}] :
         \A n \in DOMAIN words :
            role[n] = "value" <=>
                n > 1 /\ role[n - 1] = "option" /\ words[n - 1] \in TakesValue
  <2>1. PICK role \in [1..Len(words) -> {"option", "value"}] : AreRoles(words, Len(words), role)
    BY <1>1, RolesExist
  <2>2. \A n \in 1..Len(words) : role[n] = "value" <=>
           n > 1 /\ role[n - 1] = "option" /\ words[n - 1] \in TakesValue
    BY <2>1 DEF AreRoles
  <2>3. WITNESS role \in [DOMAIN words -> {"option", "value"}]
  <2> QED
    BY <1>1, <2>2
<1>3. /\ Roles(words) \in [DOMAIN words -> {"option", "value"}]
      /\ \A n \in DOMAIN words :
            Roles(words)[n] = "value" <=>
                n > 1 /\ Roles(words)[n - 1] = "option" /\ words[n - 1] \in TakesValue
  BY <1>2 DEF Roles
<1> QED
  BY <1>1, <1>3 DEF AreRoles

\* After an option comes its value, if it takes one, and then an option again.
LEMMA NextRole ==
  ASSUME NEW words \in Seq(Words), NEW n \in 1..Len(words)
  PROVE  /\ n = 1 => Roles(words)[n] = "option"
         /\ Roles(words)[n] = "option" /\ n + 1 <= Len(words) =>
              Roles(words)[n + 1] = IF words[n] \in TakesValue THEN "value" ELSE "option"
         /\ Roles(words)[n] = "value" /\ n + 1 <= Len(words) => Roles(words)[n + 1] = "option"
<1>1. /\ Len(words) \in Nat /\ DOMAIN words = 1..Len(words) /\ n \in Nat
      /\ Roles(words) \in [1..Len(words) -> {"option", "value"}]
      /\ \A m \in 1..Len(words) :
            Roles(words)[m] = "value" <=>
                m > 1 /\ Roles(words)[m - 1] = "option" /\ words[m - 1] \in TakesValue
  BY RolesAre, LenProperties DEF AreRoles
<1>2. n = 1 => Roles(words)[n] = "option"
  BY <1>1
<1>3. ASSUME n + 1 <= Len(words)
      PROVE  /\ Roles(words)[n + 1] \in {"option", "value"}
             /\ Roles(words)[n + 1] = "value" <=>
                  Roles(words)[n] = "option" /\ words[n] \in TakesValue
  <2>1. n + 1 \in 1..Len(words) /\ (n + 1) - 1 = n /\ n + 1 > 1
    BY <1>1, <1>3
  <2> QED
    BY <1>1, <2>1
<1> QED
  BY <1>2, <1>3

\* The value after the last of some options.
LEMMA LastIs ==
  ASSUME NEW words, NEW at, \A n \in at : n \in Nat, NEW k \in Nat, \A n \in at : n < k,
         NEW default
  PROVE  LastOf(words, at \cup {k}, default) = words[k + 1]
<1> DEFINE all == at \cup {k}
           c == CHOOSE n \in {m + 1 : m \in all} : \A m \in all : m + 1 <= n
<1>1. k + 1 \in {m + 1 : m \in all} /\ \A m \in all : m + 1 <= k + 1
  OBVIOUS
<1>2. c \in {m + 1 : m \in all} /\ \A m \in all : m + 1 <= c
  BY <1>1
<1>3. \A n \in {m + 1 : m \in all} : n \in Nat /\ n <= k + 1
  OBVIOUS
<1> HIDE DEF c
<1>4. k + 1 <= c /\ c <= k + 1 /\ c \in Nat
  BY <1>2, <1>3
<1>5. c = k + 1
  BY <1>4
<1>6. LastOf(words, all, default) = words[c]
  BY DEF LastOf, c
<1> QED
  BY <1>5, <1>6

\* A word that sets nothing leaves the meaning as it was: one that takes no
\* value, or the last one.
LEMMA WordIgnored ==
  ASSUME NEW words \in Seq(Words), NEW k \in 1..Len(words),
         words[k] \in TakesValue => k + 1 > Len(words)
  PROVE  \A option \in TakesValue :
            OptionsBefore(words, option, k + 1) = OptionsBefore(words, option, k)
<1>1. Len(words) \in Nat /\ DOMAIN words = 1..Len(words) /\ k \in Nat
  BY LenProperties
<1> SUFFICES ASSUME NEW option \in TakesValue, NEW n \in 1..Len(words)
             PROVE  n \in OptionsBefore(words, option, k + 1) <=>
                    n \in OptionsBefore(words, option, k)
  <2>1. \A option \in TakesValue : \A j : OptionsBefore(words, option, j) \subseteq 1..Len(words)
    BY <1>1 DEF OptionsBefore
  <2> QED
    BY <2>1
<1>2. n = k => ~(words[n] = option /\ n < Len(words))
  BY <1>1
<1>3. n < k + 1 <=> n < k \/ n = k
  BY <1>1
<1> QED
  BY <1>2, <1>3 DEF OptionsBefore

\* An option with its value sets what it says, and nothing else.
LEMMA WordSets ==
  ASSUME NEW words \in Seq(Words), NEW k \in 1..Len(words), k + 1 <= Len(words),
         Roles(words)[k] = "option", words[k] \in TakesValue
  PROVE  /\ \A option \in TakesValue \ {words[k]} :
               OptionsBefore(words, option, k + 2) = OptionsBefore(words, option, k)
         /\ OptionsBefore(words, words[k], k + 2) = OptionsBefore(words, words[k], k) \cup {k}
<1>1. Len(words) \in Nat /\ DOMAIN words = 1..Len(words) /\ k \in Nat
  BY LenProperties
<1>2. Roles(words)[k + 1] = "value"
  BY NextRole
<1>3. ASSUME NEW option, NEW n \in 1..Len(words)
      PROVE  n \in OptionsBefore(words, option, k + 2) <=>
             n \in OptionsBefore(words, option, k) \/ (n = k /\ option = words[k])
  <2>1. n < k + 2 <=> n < k \/ n = k \/ n = k + 1
    BY <1>1
  <2>2. n = k => n < Len(words)
    BY <1>1
  <2>3. CASE n = k + 1
    <3>1. Roles(words)[n] # "option" /\ ~(n < k) /\ n # k
      BY <1>1, <1>2, <2>3
    <3> QED
      BY <3>1 DEF OptionsBefore
  <2>4. CASE n = k
    BY <1>1, <2>1, <2>2, <2>4 DEF OptionsBefore
  <2>5. CASE n # k /\ n # k + 1
    BY <2>1, <2>5 DEF OptionsBefore
  <2> QED
    BY <2>3, <2>4, <2>5
<1>4. \A option : \A j : OptionsBefore(words, option, j) \subseteq 1..Len(words)
  BY <1>1 DEF OptionsBefore
<1>5. ASSUME NEW option \in TakesValue \ {words[k]}
      PROVE  OptionsBefore(words, option, k + 2) = OptionsBefore(words, option, k)
  BY <1>3, <1>4
<1>6. OptionsBefore(words, words[k], k + 2) = OptionsBefore(words, words[k], k) \cup {k}
  BY <1>3, <1>4
<1> QED
  BY <1>5, <1>6

\* --no-keepalive counts where it is an option, and only there.
LEMMA KeepChanges ==
  ASSUME NEW words \in Seq(Words), NEW k \in 1..Len(words), Roles(words)[k] = "option"
  PROVE  /\ words[k] # "--no-keepalive" => KeepBefore(words, k + 1) = KeepBefore(words, k)
         /\ words[k] = "--no-keepalive" => KeepBefore(words, k + 1) = FALSE
         /\ words[k] \in TakesValue /\ k + 1 <= Len(words) =>
              KeepBefore(words, k + 2) = KeepBefore(words, k)
<1>1. Len(words) \in Nat /\ DOMAIN words = 1..Len(words) /\ k \in Nat
  BY LenProperties
<1>2. /\ \A n \in 1..Len(words) : n < k + 1 <=> n < k \/ n = k
      /\ \A n \in 1..Len(words) : n < k + 2 <=> n < k \/ n = k \/ n = k + 1
  BY <1>1
<1>3. ASSUME words[k] # "--no-keepalive"
      PROVE  KeepBefore(words, k + 1) = KeepBefore(words, k)
  BY <1>1, <1>2, <1>3 DEF KeepBefore
<1>4. ASSUME words[k] = "--no-keepalive"
      PROVE  KeepBefore(words, k + 1) = FALSE
  BY <1>1, <1>2, <1>4 DEF KeepBefore
<1>5. ASSUME words[k] \in TakesValue, k + 1 <= Len(words)
      PROVE  KeepBefore(words, k + 2) = KeepBefore(words, k)
  <2>1. Roles(words)[k + 1] = "value"
    BY <1>5, NextRole
  <2>2. words[k] # "--no-keepalive"
    BY <1>5 DEF TakesValue
  <2> QED
    BY <1>1, <1>2, <2>1, <2>2 DEF KeepBefore
<1> QED
  BY <1>3, <1>4, <1>5

LEMMA ParseArgMeans ==
  ASSUME Types, MeaningInv, ParseArg
  PROVE  MeaningInv'
<1> DEFINE P(k) == ToPort(NumberBefore(argv, "--port", 8080, k))
           W(k) == NumberBefore(argv, "--workers", 4, k)
           Q(k) == ToSize(NumberBefore(argv, "--queue-size", 256, k))
           T(k) == NumberBefore(argv, "--timeout", 30, k)
           D(k) == ValueBefore(argv, "--static-dir", Default, k)
           K(k) == KeepBefore(argv, k)
<1>1. /\ argv \in Seq(Words) /\ i \in 1..Len(argv) /\ Len(argv) \in Nat /\ pc = "args"
      /\ argv' = argv /\ Roles(argv)[i] = "option"
      /\ pc' \in {"args", "exit", "abort"}
  BY LenProperties DEF Types, MeaningInv, ParseArg
<1>2. config = Settings(P(i), W(i), Q(i), T(i), D(i), K(i))
  BY <1>1 DEF MeaningInv, MeaningBefore
<1>3. MeaningBefore(argv, i)' = Settings(P(i'), W(i'), Q(i'), T(i'), D(i'), K(i'))
  BY <1>1 DEF MeaningBefore
<1>4. CASE argv[i] = "--help" \/ pc' # "args"
  <2>1. pc' \in {"exit", "abort"}
    BY <1>1, <1>4 DEF ParseArg, TakesValue
  <2> QED
    BY <2>1 DEF MeaningInv
<1>5. CASE /\ argv[i] # "--no-keepalive"
           /\ argv[i] \in TakesValue => i + 1 > Len(argv)
           /\ i' = i + 1 /\ UNCHANGED <<config, pc>>
  <2>1. \A o \in TakesValue : OptionsBefore(argv, o, i + 1) = OptionsBefore(argv, o, i)
    BY <1>1, <1>5, WordIgnored
  <2>2. /\ P(i + 1) = P(i) /\ W(i + 1) = W(i) /\ Q(i + 1) = Q(i) /\ T(i + 1) = T(i)
        /\ D(i + 1) = D(i)
    BY <2>1 DEF NumberBefore, ValueBefore, TakesValue
  <2>3. K(i + 1) = K(i)
    BY <1>1, <1>5, KeepChanges
  <2>4. i + 1 <= Len(argv) => Roles(argv)[i + 1] = "option"
    BY <1>1, <1>5, NextRole
  <2> HIDE DEF P, W, Q, T, D, K
  <2>5. config' = MeaningBefore(argv, i)'
    BY <1>2, <1>3, <1>5, <2>2, <2>3
  <2> QED
    BY <1>1, <1>5, <2>4, <2>5 DEF MeaningInv
<1>6. CASE /\ argv[i] = "--no-keepalive" /\ i' = i + 1 /\ UNCHANGED pc
           /\ config' = [config EXCEPT !.enable_keepalive = FALSE]
  <2>0. argv[i] \notin TakesValue
    BY <1>6 DEF TakesValue
  <2>1. \A o \in TakesValue : OptionsBefore(argv, o, i + 1) = OptionsBefore(argv, o, i)
    BY <1>1, <2>0, WordIgnored
  <2>2. /\ P(i + 1) = P(i) /\ W(i + 1) = W(i) /\ Q(i + 1) = Q(i) /\ T(i + 1) = T(i)
        /\ D(i + 1) = D(i)
    BY <2>1 DEF NumberBefore, ValueBefore, TakesValue
  <2>3. K(i + 1) = FALSE
    BY <1>1, <1>6, KeepChanges
  <2>4. i + 1 <= Len(argv) => Roles(argv)[i + 1] = "option"
    BY <1>1, <2>0, NextRole
  <2> HIDE DEF P, W, Q, T, D, K
  <2>5. config' = [config EXCEPT !.enable_keepalive = K(i + 1)]
    BY <1>6, <2>3, Zenon
  <2>6. config' = Settings(P(i), W(i), Q(i), T(i), D(i), K(i + 1))
    BY <1>2, <2>5 DEF Settings
  <2>7. config' = MeaningBefore(argv, i)'
    BY <1>3, <1>6, <2>2, <2>6
  <2> QED
    BY <1>1, <1>6, <2>4, <2>7 DEF MeaningInv
<1>7. CASE /\ argv[i] \in TakesValue /\ i + 1 <= Len(argv)
           /\ i' = i + 2 /\ UNCHANGED pc
           /\ \/ /\ argv[i] = "--static-dir"
                 /\ config' = [config EXCEPT !.static_dir = argv[i + 1]]
              \/ /\ argv[i] # "--static-dir" /\ argv[i + 1] \in DOMAIN Numbers
                 /\ config' = Assign(argv[i], Numbers[argv[i + 1]])
  <2> DEFINE n == Numbers[argv[i + 1]]
  <2>1. \A o \in TakesValue \ {argv[i]} : OptionsBefore(argv, o, i + 2) = OptionsBefore(argv, o, i)
    BY <1>1, <1>7, WordSets
  <2>2. \A default : ValueBefore(argv, argv[i], default, i + 2) = argv[i + 1]
    <3>1. OptionsBefore(argv, argv[i], i + 2) = OptionsBefore(argv, argv[i], i) \cup {i}
      BY <1>1, <1>7, WordSets
    <3>2. \A m \in OptionsBefore(argv, argv[i], i) : m \in Nat /\ m < i
      BY <1>1, LenProperties DEF OptionsBefore
    <3> DEFINE at == OptionsBefore(argv, argv[i], i)
    <3> HIDE DEF at
    <3>3. i \in Nat
      BY <1>1
    <3>4. \A default : LastOf(argv, at \cup {i}, default) = argv[i + 1]
      BY <3>2, <3>3, LastIs DEF at
    <3> QED
      BY <3>1, <3>4 DEF ValueBefore, at
  <2>3. K(i + 2) = K(i)
    BY <1>1, <1>7, KeepChanges
  <2>4. i + 2 <= Len(argv) => Roles(argv)[i + 2] = "option"
    <3>1. Roles(argv)[i + 1] = "value"
      BY <1>1, <1>7, NextRole
    <3>2. i + 1 \in 1..Len(argv) /\ (i + 1) + 1 = i + 2
      BY <1>1, <1>7
    <3> QED
      BY <1>1, <3>1, <3>2, NextRole
  <2>5. /\ argv[i] # "--port" => P(i + 2) = P(i)
        /\ argv[i] # "--workers" => W(i + 2) = W(i)
        /\ argv[i] # "--queue-size" => Q(i + 2) = Q(i)
        /\ argv[i] # "--timeout" => T(i + 2) = T(i)
        /\ argv[i] # "--static-dir" => D(i + 2) = D(i)
    BY <2>1 DEF NumberBefore, ValueBefore, TakesValue
  <2>6. argv[i] = "--static-dir" => D(i + 2) = argv[i + 1]
    BY <2>2
  <2>7. argv[i + 1] \in DOMAIN Numbers =>
          /\ argv[i] = "--port" => P(i + 2) = ToPort(n)
          /\ argv[i] = "--workers" => W(i + 2) = n
          /\ argv[i] = "--queue-size" => Q(i + 2) = ToSize(n)
          /\ argv[i] = "--timeout" => T(i + 2) = n
    <3>1. argv[i + 1] \in DOMAIN Numbers => argv[i + 1] # "none"
      BY ApplicationAssumption
    <3> QED
      BY <2>2, <3>1 DEF NumberBefore
  <2>8. config' = Settings(P(i + 2), W(i + 2), Q(i + 2), T(i + 2), D(i + 2), K(i + 2))
    <3> HIDE DEF P, W, Q, T, D, K, n
    <3>1. CASE argv[i] = "--static-dir"
      <4>1. config' = [config EXCEPT !.static_dir = D(i + 2)]
        BY <1>7, <2>6, <3>1
      <4>2. config' = Settings(P(i), W(i), Q(i), T(i), D(i + 2), K(i))
        BY <1>2, <4>1 DEF Settings
      <4> QED
        BY <2>3, <2>5, <3>1, <4>2
    <3>2. CASE argv[i] = "--port"
      <4>1. config' = [config EXCEPT !.port = P(i + 2)]
        BY <1>7, <2>7, <3>2 DEF Assign, n
      <4>2. config' = Settings(P(i + 2), W(i), Q(i), T(i), D(i), K(i))
        BY <1>2, <4>1 DEF Settings
      <4> QED
        BY <2>3, <2>5, <3>2, <4>2
    <3>3. CASE argv[i] = "--workers"
      <4>1. config' = [config EXCEPT !.num_workers = W(i + 2)]
        BY <1>7, <2>7, <3>3 DEF Assign, n
      <4>2. config' = Settings(P(i), W(i + 2), Q(i), T(i), D(i), K(i))
        BY <1>2, <4>1 DEF Settings
      <4> QED
        BY <2>3, <2>5, <3>3, <4>2
    <3>4. CASE argv[i] = "--queue-size"
      <4>1. config' = [config EXCEPT !.max_queue_size = Q(i + 2)]
        BY <1>7, <2>7, <3>4 DEF Assign, n
      <4>2. config' = Settings(P(i), W(i), Q(i + 2), T(i), D(i), K(i))
        BY <1>2, <4>1 DEF Settings
      <4> QED
        BY <2>3, <2>5, <3>4, <4>2
    <3>5. CASE argv[i] = "--timeout"
      <4>1. config' = [config EXCEPT !.timeout_sec = T(i + 2)]
        BY <1>7, <2>7, <3>5 DEF Assign, n
      <4>2. config' = Settings(P(i), W(i), Q(i), T(i + 2), D(i), K(i))
        BY <1>2, <4>1 DEF Settings
      <4> QED
        BY <2>3, <2>5, <3>5, <4>2
    <3> QED
      BY <1>7, <3>1, <3>2, <3>3, <3>4, <3>5 DEF TakesValue
  <2> HIDE DEF P, W, Q, T, D, K
  <2>9. config' = MeaningBefore(argv, i)'
    BY <1>3, <1>7, <2>8
  <2> QED
    BY <1>1, <1>7, <2>4, <2>9 DEF MeaningInv
<1> QED
  BY <1>4, <1>5, <1>6, <1>7 DEF ParseArg, NextArg, Accepted

LEMMA MeaningStep ==
  ASSUME Types, MeaningInv, [Next]_vars
  PROVE  MeaningInv'
<1>1. CASE UNCHANGED vars
  BY <1>1 DEF vars, appVars, MeaningInv
<1>2. CASE ParseArg
  BY <1>2, ParseArgMeans
<1>3. CASE ParseReturns
  BY <1>3 DEF ParseReturns, appVars, MeaningInv
<1>4. CASE SetupRoutes \/ Register \/ Unwind \/ RouteStep
           \/ (\E m \in Methods, t \in Targets : Receive(m, t))
           \/ (\E keep \in BOOLEAN : Respond(keep))
  <2>1. pc' \notin {"args", "parsed"}
    <3>1. CASE RouteStep
      BY <3>1 DEF RouteStep, Dispatch, Canonical, CanonicalRoot, IsRegularFile, OpenFile, Finish
    <3>2. CASE SetupRoutes \/ Register \/ Unwind
      BY <3>2 DEF SetupRoutes, Register, Unwind
    <3>3. CASE \E m \in Methods, t \in Targets : Receive(m, t)
      BY <3>3 DEF Receive
    <3>4. CASE \E keep \in BOOLEAN : Respond(keep)
      BY <3>4 DEF Respond
    <3> QED
      BY <1>4, <3>1, <3>2, <3>3, <3>4
  <2> QED
    BY <2>1 DEF MeaningInv
<1>5. CASE Disk /\ UNCHANGED appVars
  <2>1. pc' \notin {"args", "parsed"}
    BY <1>5, DiskTypes DEF InServe
  <2> QED
    BY <2>1 DEF MeaningInv
<1> QED
  BY <1>1, <1>2, <1>3, <1>4, <1>5 DEF Next

\* Before the first word the configuration is the default one.
LEMMA MeaningInit ==
  ASSUME Init, Types
  PROVE  MeaningInv
<1>1. /\ argv \in Seq(Words) /\ Len(argv) \in Nat /\ DOMAIN argv = 1..Len(argv)
      /\ i = 1 /\ pc = "args" /\ config = DefaultConfig
  BY LenProperties DEF Init, Types
<1>2. \A option : OptionsBefore(argv, option, 1) = {}
  BY <1>1 DEF OptionsBefore
<1>3. /\ NumberBefore(argv, "--port", 8080, 1) = 8080
      /\ NumberBefore(argv, "--workers", 4, 1) = 4
      /\ NumberBefore(argv, "--queue-size", 256, 1) = 256
      /\ NumberBefore(argv, "--timeout", 30, 1) = 30
      /\ ValueBefore(argv, "--static-dir", Default, 1) = Default
  BY <1>2 DEF NumberBefore, ValueBefore, LastOf
<1>4. KeepBefore(argv, 1) = TRUE
  BY <1>1 DEF KeepBefore
<1>5. ToPort(8080) = 8080 /\ ToSize(256) = 256
  BY ApplicationAssumption DEF ToPort, ToSize
<1>6. MeaningBefore(argv, 1) = Settings(8080, 4, 256, 30, Default, KeepBefore(argv, 1))
  BY <1>3, <1>5 DEF MeaningBefore
<1>7. config = MeaningBefore(argv, i)
  <2> DEFINE S(e) == Settings(8080, 4, 256, 30, Default, e)
  <2>1. DefaultConfig = S(TRUE)
    BY DEF DefaultConfig, Settings
  <2>2. MeaningBefore(argv, 1) = S(KeepBefore(argv, 1))
    BY <1>6
  <2> HIDE DEF S
  <2> QED
    BY <1>1, <1>4, <2>1, <2>2, Zenon
<1>8. i <= Len(argv) => Roles(argv)[i] = "option"
  BY <1>1, NextRole
<1> QED
  BY <1>1, <1>7, <1>8 DEF MeaningInv

\* At the end of the command line all its words have been taken into account.
LEMMA MeaningAtEnd ==
  ASSUME Types, MeaningInv
  PROVE  ConfigIsMeaning
<1> SUFFICES ASSUME pc = "parsed" PROVE ConfigIsMeaning
  BY DEF ConfigIsMeaning
<1>1. /\ argv \in Seq(Words) /\ Len(argv) \in Nat /\ DOMAIN argv = 1..Len(argv)
      /\ i \in Nat /\ i > Len(argv) /\ config = MeaningBefore(argv, i)
  BY LenProperties DEF Types, MeaningInv
<1>2. \A n \in DOMAIN argv : n < i
  BY <1>1
<1>3. ASSUME NEW option
      PROVE  OptionsBefore(argv, option, i) =
               {n \in DOMAIN argv : /\ Roles(argv)[n] = "option"
                                    /\ argv[n] = option /\ n < Len(argv)}
  BY <1>2 DEF OptionsBefore
<1>4. ASSUME NEW option, NEW default
      PROVE  ValueBefore(argv, option, default, i) = LastValue(option, default)
  <2> DEFINE at == {n \in DOMAIN argv : /\ Roles(argv)[n] = "option"
                                        /\ argv[n] = option /\ n < Len(argv)}
  <2>1. LastValue(option, default) = LastOf(argv, at, default)
    BY DEF LastValue, LastOf
  <2>2. ValueBefore(argv, option, default, i) = LastOf(argv, at, default)
    BY <1>3 DEF ValueBefore
  <2> QED
    BY <2>1, <2>2
<1>5. /\ NumberBefore(argv, "--port", 8080, i) = LastNumber("--port", 8080)
      /\ NumberBefore(argv, "--workers", 4, i) = LastNumber("--workers", 4)
      /\ NumberBefore(argv, "--queue-size", 256, i) = LastNumber("--queue-size", 256)
      /\ NumberBefore(argv, "--timeout", 30, i) = LastNumber("--timeout", 30)
      /\ ValueBefore(argv, "--static-dir", Default, i) = LastValue("--static-dir", Default)
  BY <1>4 DEF NumberBefore, LastNumber
<1> DEFINE keep == \A n \in DOMAIN argv :
                      argv[n] = "--no-keepalive" => Roles(argv)[n] = "value"
<1>6. KeepBefore(argv, i) = keep
  BY <1>2 DEF KeepBefore
<1>7. ConfigIsMeaning <=> config = Settings(LastNumber("--port", 8080) % 65536,
         LastNumber("--workers", 4), LastNumber("--queue-size", 256) % SizeModulus,
         LastNumber("--timeout", 30), LastValue("--static-dir", Default), keep)
  BY DEF ConfigIsMeaning, Settings
<1> HIDE DEF keep
<1>8. config = Settings(ToPort(LastNumber("--port", 8080)), LastNumber("--workers", 4),
         ToSize(LastNumber("--queue-size", 256)), LastNumber("--timeout", 30),
         LastValue("--static-dir", Default), keep)
  BY <1>1, <1>5, <1>6 DEF MeaningBefore
<1> QED
  BY <1>7, <1>8 DEF ToPort, ToSize

-----------------------------------------------------------------------------
(* Theorems                                                                *)

LEMMA InvInit ==
  ASSUME Init
  PROVE  Inv
<1>1. Types
  BY TypesInit
<1>2. MeaningInv
  BY <1>1, MeaningInit
<1>3. ResponseInv /\ ServeInv
  BY NewMade DEF Init, ResponseInv, ServeInv, Answered, InServe
<1> QED
  BY <1>1, <1>2, <1>3 DEF Inv

LEMMA InvStep ==
  ASSUME Inv, [Next]_vars
  PROVE  Inv'
<1>1. Types /\ ResponseInv /\ ServeInv /\ MeaningInv
  BY DEF Inv
<1>2. Types'
  <2>1. CASE UNCHANGED vars
    BY <1>1, <2>1 DEF vars, routerVars, appVars, Types, RouterTypes
  <2>2. CASE ParseArg
    BY <1>1, <2>2, ParseArgTypes
  <2>3. CASE SetupRoutes
    BY <1>1, <2>3, SetupTypes
  <2>4. CASE Register
    BY <1>1, <2>4, RegisterTypes
  <2>5. CASE Disk /\ UNCHANGED appVars
    BY <1>1, <2>5, DiskTypes
  <2> QED
    BY <1>1, <2>1, <2>2, <2>3, <2>4, <2>5, RequestTypes DEF Next
<1> QED
  BY <1>1, <1>2, ResponseStep, ServeStep, MeaningStep DEF Inv

\* The inductive invariant holds in every reachable state.
THEOREM Inductive == Spec => []Inv
<1>1. Init => Inv
  BY InvInit
<1>2. Inv /\ [Next]_vars => Inv'
  BY InvStep
<1> QED
  BY <1>1, <1>2, PTL DEF Spec

\* Every variable keeps its type: whatever numbers the command line has, the
\* port fits uint16_t and the size of the queue size_t.
THEOREM TypeCorrect == Spec => []TypeOK
<1>1. Inv => TypeOK
  <2> SUFFICES ASSUME Types PROVE TypeOK
    BY DEF Inv
  <2>1. config.port \in Nat /\ config.port <= 65535
    BY DEF Types, IsConfig
  <2>2. /\ config.num_workers \in Int /\ config.max_queue_size \in 0..(SizeModulus - 1)
        /\ config.timeout_sec \in Int /\ config.static_dir \in Words \cup {Default}
        /\ config.enable_keepalive \in BOOLEAN
    BY DEF Types, IsConfig
  <2>3. i \in 1..(MaxArgs + 1)
    BY ApplicationAssumption DEF Types
  <2> QED
    BY <2>1, <2>2, <2>3 DEF Types, TypeOK, RouterTypes, InServe
<1> QED
  BY <1>1, Inductive, PTL

\* parse_args gives every setting the last value that the command line has for
\* it, for command lines of any length.
THEOREM ConfigMeaning == Spec => []ConfigIsMeaning
<1>1. Inv => ConfigIsMeaning
  BY MeaningAtEnd DEF Inv
<1> QED
  BY <1>1, Inductive, PTL

\* The Allow header of a 405 lists exactly the methods that are not refused,
\* whatever routes and mounts are registered.
THEOREM ExactAllow == Spec => []AllowIsExact
<1>1. Inv => AllowIsExact
  BY AllowExact DEF Inv, Types
<1> QED
  BY <1>1, Inductive, PTL

\* Whatever other processes do to files, directories and links between the steps
\* of serve_static_file: a file that is served was asked for, in the mount but for
\* a neighbour with a namesake, and regular, each at a moment of the request; and
\* if nothing changes, the answer and its content are what one look at the file
\* says and route() does not throw.
THEOREM StaticTruth == Spec => []StaticAnswerIsTrue
<1>1. Inv => StaticAnswerIsTrue
  BY StaticTrue DEF Inv
<1> QED
  BY <1>1, Inductive, PTL

\* add_route and add_static never take a request from the handler that answers
\* it, and never make a known target unknown.
THEOREM RoutesExtend == Spec => LaterRoutesOnlyExtend
<1>1. Inv /\ [Next]_vars =>
        [ Registered => \A m \in Methods, t \in Targets :
            LET d == Decision(m, t)
            IN  /\ d.does = "call" =>
                      /\ Decision(m, t)'.does = "call"
                      /\ routes_'[Decision(m, t)'.with] = routes_[d.with]
                /\ d.does # "miss" => Decision(m, t)'.does # "miss" ]_<<routes_, static_mounts_>>
  <2> SUFFICES ASSUME Inv, [Next]_vars, Registered,
                      ~UNCHANGED <<routes_, static_mounts_>>,
                      NEW m \in Methods, NEW t \in Targets
               PROVE  /\ Decision(m, t).does = "call" =>
                            /\ Decision(m, t)'.does = "call"
                            /\ routes_'[Decision(m, t)'.with] = routes_[Decision(m, t).with]
                      /\ Decision(m, t).does # "miss" => Decision(m, t)'.does # "miss"
    OBVIOUS
  <2>1. Register
    BY DEF Registered, Next, vars, routerVars, ParseArg, ParseReturns, SetupRoutes, Receive,
           RouteStep, Dispatch, Canonical, CanonicalRoot, IsRegularFile, OpenFile, Disk,
           DiskChange, Respond, Unwind
  <2>2. /\ Types' /\ RouterTypes
        /\ \/ (\E r \in Routes : routes_' = Append(routes_, r)) /\ UNCHANGED static_mounts_
           \/ (\E d \in Mounts : static_mounts_' = Append(static_mounts_, d)) /\ UNCHANGED routes_
    BY <2>1, RegisterTypes DEF Inv
  <2>3. RouterTypes'
    BY <2>2 DEF Types
  <2> QED
    BY <2>2, <2>3, AddedAtTheEnd
<1> QED
  BY <1>1, Inductive, PTL DEF Spec, LaterRoutesOnlyExtend
=============================================================================
