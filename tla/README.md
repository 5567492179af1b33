# TLA+ models of High-Performance-HTTP-Server

Models of the server's concurrent and stateful parts, the TLC runs that check
them on small instances, and TLAPS proofs of the properties that matter most.
`PROJECT.json` lists the runs, the source lines behind each definition, the
hazards, the findings and the theorems. Paths such as `thread_pool.cpp` mean
the files of the repository's `src/` and `include/` directories.

## The system

| Component | State | Operations | Interacts with |
|---|---|---|---|
| `server::ThreadPool` | `tasks_`, `mutex_`, `cv_`, `stop_`, `active_count_`, `workers_` | `enqueue`, `worker_loop`, `shutdown`, destructor | `Server::accept_loop` enqueues `handle_connection`; `Server::stop` shuts down |
| `http::HttpParser` | `buffer_`, `state_`, `request_`, `error_code_`, `headers_size_`, `header_count_` | `feed`, `get_request`, `reset` | fed by `handle_connection` and by `EpollServer::handle_read` with whatever `recv` returned |
| `http::Request` | method, target, version, headers, body | `header`, `content_length`, `should_keep_alive` | filled by the parser |
| `server::EpollServer` | `connections_`, per connection the parser, `write_buffer`, `write_offset`, `request_count`, `keep_alive`, `state`; `running_` | `start` (the loop), `accept_connections`, `handle_read`, `handle_write`, `close_connection`, `stop` | the kernel's epoll and sockets; parser; router |
| `Server::handle_connection` | `request_count`, the parser | one loop over requests | `net::Connection` on a blocking socket with timeouts, parser, router |
| `server::Server`, `main` | `running_`, `listener_`, `pool_`, `router_` | `start`, `stop`, the two accept loops, the signal handler | listener, pool |
| `net::Connection`, `Listener`, `Socket` | a descriptor, `read_buffer_` | `read_some`, `read_until`, `write_all`, `accept`, ... | the kernel |
| `router::Router` | routes, static mounts | `route`, `serve_static_file` | called by both servers |
| `Response`, `HttpSerializer`, status | none | formatting | |
| `Config` | the settings | `parse_args` | |

What is hard here, and what correctness means:

* **Thread pool**: an atomic `stop_` written outside the mutex that everybody
  else reads inside it; a condition variable; joins. Tasks must be started
  once and in order, the queue bounded, wake-ups not lost, shutdown must wait
  and return.
* **Parser**: the stream is cut anywhere. The verdict must depend on the bytes
  only, the memory be bounded by the limits, `feed` return, and `reset` leave
  no trace.
* **Epoll server**: edges are reported once; descriptors are reused; responses
  are written in pieces. No connection may be forgotten, no event misattributed,
  no response cut short or overwritten.
* **Connection handler**: one client must not hold a worker for ever, and must
  get its answers, up to the request limit.
* **Server**: the order of `start` and `stop`, a signal handler that joins
  threads on the thread it interrupted, a blocked `accept` that nothing wakes. A
  client's descriptor must have one owner until it is closed; a stop must end
  the process.
* **Connection**: `read_until` keeps bytes between calls and searches only the
  end of its buffer again. No line may be overlooked, no byte lost or reread.
* **Router and static files**: the order of registration decides who answers;
  the file system changes between the questions asked about one file.
* **Configuration**: conversions that wrap or throw, options without a value.

## Modules

| Module | Contents |
|---|---|
| `TaskQueue` | what a bounded task queue promises: the abstract specification |
| `ThreadPool` | the pool, its properties, the mapping to `TaskQueue` |
| `MCThreadPool` | symmetry for TLC |
| `ThreadPoolProofs` | inductive invariant and theorems |
| `ThreadPoolRefinement` | the pool implements `TaskQueue`, proved |
| `HttpMessage` | text as the parser reads it; what a whole stream means (the reference) |
| `HttpParser` | the incremental parser, its properties |
| `MCHttpParser` | the streams TLC feeds it |
| `HttpParserProofs` | types, the memory bound, and that the verdict is the meaning, proved |
| `EpollServer` | the event loop, its clients and the kernel's side |
| `MCEpollServer` | symmetry for TLC |
| `EpollServerProofs` | inductive invariant and theorems |
| `ConnectionHandler` | `handle_connection` with one client; the writing side of `net::Connection` |
| `ConnectionHandlerProofs` | inductive invariant and theorems; counting requests in a stream |
| `Server` | `main`, the signal handler, `Server::start` and `stop`, both accept loops, the listener; extends `ThreadPool` |
| `ServerProofs` | the server uses the pool as `ThreadPool` allows; inductive invariant and theorems; extends `ThreadPoolProofs` |
| `Connection` | the reading side of `net::Connection` |
| `MCConnection` | the delimiters |
| `ConnectionProofs` | the search for a delimiter; inductive invariant and theorems |
| `Response` | `Response`, its factory functions, `HttpSerializer` as operators |
| `Router` | routes, mounts, `route` and `serve_static_file` over a changing file system |
| `Application` | `parse_args`, `setup_routes`, a request from `route` to its serialized response; extends `Router` |
| `MCApplication` | paths, links, routes and command-line words for TLC |
| `ApplicationProofs` | inductive invariant and theorems |

The definitions whose names end in `Mutant` are plausible mistakes in the
action they precede. No specification uses them; each shows that the property it
is paired with in `PROJECT.json` would notice the mistake.

### ThreadPool

A step is what another thread can observe. `wpc`, `epc` and `spc` say where each
thread is in `worker_loop`, `enqueue` and `shutdown`. `enqueue` is
`EnqueueLock`, `EnqueueTestStop`, `EnqueueFull` or `EnqueuePush`,
`EnqueueNotifyOne`; the test of `stop_` and the push are separate steps as
`shutdown` does not take the mutex. `cv_.wait` is `WorkerPredicateFalse` (still
holding the mutex), `WorkerBlock` (release and sleep in one step), and a
re-acquisition by `WorkerLock`; `SpuriousWake` is always possible and nobody may
count on it. `workers_.clear()` is, for each worker in any order,
`ShutdownRequestStop` and `ShutdownJoin`. `Destroy` is the end of the destructor.
`accepted`, `started`, `dropped`, `done`, `rejected` and `late` are history.

*Fairness* (`FairSpec`): a thread that can step does, a worker that waits for the
mutex gets it if it is free again and again, tasks terminate
(`ConnectionHandler!WorkerReleased`). Nobody has to call `enqueue` or `shutdown`.

*Refinement.* `TaskQueue` has one atomic action per operation: submit, refuse,
start, finish, close, discard. `RefinesTaskQueue` maps the pool's state to it: a
task is running from its pop until it is done, and the queue is closed from the
moment at which `stop_` is set and no call of `enqueue` is between its test of
`stop_` and its push (`Closed`). That moment, not the exchange, is where
`shutdown` takes effect: an `enqueue` that overlaps it is ordered before it. The
mapping is what makes precise that the race on `stop_` is harmless to users of
`enqueue`.

### HttpMessage, HttpParser

Text is a sequence of units. CR, LF, SP and COLON are the bytes the parser
looks for; any other unit is a run of bytes that it compares or copies, counted
as one byte. `Feed(k)` is the entry of `feed` with the next `k` units; each turn
of the loop in `feed`, and of the one in `parse_headers`, is one action, with the
guards and the order of the code. `Numeral` is what `stoull` makes of a numeral, a
sign that wraps included.

`HttpMessage` defines separately, and not incrementally, what a stream means:
`ErrorIn`, `HoldsRequest`, `Meaning`. It does not depend on where a text was cut:
a text is wrong as soon as nothing that follows could make it right (a CR at its
end may still be half a line end, `Shown`, `HalfEmptyLine`). `VerdictIsMeaning`
compares the two whenever `feed` returns. One cut makes a difference in the code,
and the history `cut` marks it: a chunk that ends between the CR and the LF that
keep the request line, or the headers, at the limit exactly (`CutAtLimit`). There
the property says what the code does instead: an error, 414 or 431.

### EpollServer

The loop's steps are its system calls; between two of them clients connect, send,
read, close or reset, and `stop()` may be called. The kernel's side is external:
an edge puts a descriptor on `ready` if the registration asks for it, `EpollWait`
takes up to `MaxEvents` off and reports what holds now, ADD and MOD look again.
Descriptors are reused, lowest first; `accept` may fail at any time. The parser is represented by the verdicts
it can give (`"part"`, `"end"`, `"last"`, `"bad"`), the router and serializer by a
response of `RespLen` units, or an exception (`RouteThrows`: only `is_regular_file`
throws out of `route()`), which leaves `start()`. A request that `reset()` has cut
in two leaves the parser out of step with its client: `astray`, from when on a
chunk may be taken for any other. `stop()` during a handler is a data race on
`connections_`; it leads to `lpc = "undefined"`, where the loop takes no further
step. `epoll_wait` failing for good (a closed epoll descriptor) is left out.

*Fairness*: the loop's thread runs and clients read what they are sent; nothing
makes a client send or close.

### ConnectionHandler

`Iterate` is the loop test with `parser.reset()`; `ReadEnds`, `ReadTimesOut` and
`ReadData` are the outcomes of `read_some` with what the handler does about them;
`WriteData`, `WriteTimesOut`, `WriteReset` and `WriteDone` those of `write_all`. The
client is unrestricted and may send for ever. `MaxOwed` is the number of requests
it leaves outstanding. `pipelined` and `dropped` are histories: whether the client sent past an unanswered
request, and the complete requests that `parser.reset()` threw away. If it threw
away the beginning of a request whose rest was still to come, the parser is
`astray`: it may take what follows for anything, an unfinished request included.
`route()` may throw. `GivesUpFairly` states what a client is owed when a timeout
strikes, and when a connection that was promised to be kept alive is closed after
a response. (`why` tells the ends apart; a client cut off by an exception out of
`route()` has `"threw"`.)

*Fairness*: the thread runs, and a timeout that is set fires if nothing else
happens. Nothing is assumed of the client.

### Server

A composition: `Server` extends `ThreadPool`, whose only producer is the main
thread (`Main`) and whose tasks are client connections; a caller of `shutdown`
is a signal handler, another thread's `stop()` or `~Server()`. `mpc` follows the
main thread through `main`, `start` and the accept loop, `hpc` each caller through
`stop()`. A signal handler runs on the main thread: while `nested` is not empty
the main thread's own steps wait, and a second signal nests inside the first.
(The kernel may also pick a worker for a signal that is blocked on the main
thread; that worker would join itself, which is not modelled.) Connections are
external: `conn` is `"new"`, `"pending"` in the backlog, `"taken"` by `accept` or
`"reset"`. A thread inside `::accept` is not woken when another thread closes
the descriptor, and keeps the kernel's socket alive; a signal interrupts it
(`sa_flags = 0`). `Refuse503` is the 503 path, with the write as one step, which may fail without
consequence or raise SIGPIPE. In the
baseline mode (`num_workers = 0`) connections go to threads of their own,
joined at the end. `pool_` and the listener's descriptor are plain members that
`stop()` on another thread reads without a lock; each access counts as atomic. The workers are assumed to be created.

`fate` is the process's: `"returned"` from `main`, or cut off in the middle of
everything. `Terminate` is an exception in a thread of the baseline mode, or in
`emplace_back` there (`std::terminate`); `SigPipe` a write to a client that has
gone, by a worker, a baseline thread or the 503 path; `TakeSignalLate` a signal
after `~Server()`, when `g_server` still points to what was the server and anything
may happen. `CleanExit` says which of them may leave a client half served, and that
a stop does not.

*Fairness*: as in `ThreadPool`; and `accept` does not fail for ever while
connections wait. Nobody need connect, and nobody need stop.

### Connection

One call is in progress at a time. `ReadUntil` is the entry with its search of the
leftover, `RecvUntil` a turn of the loop with `k` more bytes, `UntilFails` each
way out without a line; `ReadSome`, `RecvAll`, `AllReturns` and `Close` the other
calls. `disorder` remembers that `read_some` or `read_all` was used while
`read_until` held bytes, which overtakes them (no caller in the repository does),
or that `read_all` failed half way and forgot what it had.

*Fairness*: a call that was made goes on; a timeout that is set expires.

### Response, Router, Application

Targets and file names are sequences of tokens and prefixes are compared as the
code does, without regard to path components. A loop that looks for the first
match is the least index with one, and the values of a header (those of `Allow`
above all) are sets of words: no property depends on their order. `Decision` is what `route` makes
of a method and a target: call a handler, serve a file, refuse with an `Allow`,
or miss. Handlers of the embedding program return any response (`Returned`) or
throw. `serve_static_file` asks the file system four times (`fs::canonical` of
the file, of the root, `is_regular_file`, the `ifstream`), each an atomic step, and
between them files, directories and links vanish, come back, are protected and take
each other's place. A state of the file system is a function that says of every
name to which canonical path it resolves and what is there; `during` remembers the
states of a request, so that `StaticAnswerIsTrue` can say at which moments what was
served was asked for, in the mount and regular. `Inside` goes by path components;
the code's comparison is of strings (`Within`), and lets a neighbour pass whose name
begins with that of the mount's directory (`Namesake`).
`Application` runs `parse_args` one word at a time, registers the server's routes
and one more by the embedding program, and answers one request. One is enough:
`route` is const, so requests share nothing but the file system, which is in any
state when it starts. The file system (`FileSystems`, `disk`) is external. `Accepted`
keeps the ranges of `stoi` and `stoull` apart.

## Runs

| Run | Result | Shows |
|---|---|---|
| `pool_safety` | passes | bounded, FIFO, exactly once, exact count, no lost wake-up, no worker asleep beside a task, shutdown waits for what is in flight; its races touch at most one task and one worker; the pool implements `TaskQueue` |
| `pool_hang` | violated | `shutdown` may wait for ever |
| `pool_drain` | violated | accepted tasks may never run after `shutdown` |
| `parser` | passes | verdict = meaning for all cuts but one, memory bounded, `feed` returns |
| `epoll_safety` | passes | map, epoll and sockets agree; no event for the wrong connection; no lost edge; whole responses |
| `epoll_live` | passes | every request answered, whole, unless the client or the server has had its last; request limit; stop |
| `handler` | passes | worker released; a client is given up only for a reason, and only what was pipelined is dropped |
| `handler_sigpipe` | violated | a write to a reset connection ends the process |
| `server` | passes | one owner per descriptor; no thread and no client left behind at exit; only SIGPIPE and, in the baseline mode, an exception cut a client off; at most one connection taken after a stop; every client answered while the server runs; when exactly a stop ends the process |
| `server_graceful` | violated | a signal during `enqueue` may hang the process: the handler joins a worker that waits for the mutex which the interrupted thread holds |
| `connection` | passes | `read_until` returns exact lines for every cut, nothing is lost or reread, calls return |
| `application` | passes | the configuration is what the command line means; `Allow` is exact; later routes take nothing away; a file served was asked for and in the mount, and a static answer is that of one look at the file unless it changed meanwhile |

Each violated run checks one statement of the documentation, a comment or a test;
its finding in `PROJECT.json` quotes it. Not among them, but visible in
`ShutdownExchange`: a second, concurrent call of `shutdown` returns at once, while
tasks may still run.

Divergences that are part of what the passing runs describe, and have no run of
their own:

* A request line of exactly the permitted length is refused with 414 when a chunk
  ends between its CR and LF, as the CR is counted (`parser.cpp:83`); headers of
  exactly the permitted size with 431 when one ends inside the
  empty line (`parser.cpp:143`). Any other cut of the same bytes is accepted; the limits
  are in `docs/requirements_traceability.md`. `VerdictIsMeaning` names the case.
* `fs::is_regular_file` without an `error_code` throws (`router.cpp:105`). In a worker
  the client is closed without an answer, in the baseline mode the process ends
  (`server.cpp:116`), in the epoll server `start()` is left with the connections open
  (`epoll_server.cpp:144`).
* The containment check compares strings (`router.cpp:100`), so a link into a
  directory beside the mount whose name begins with the mount's is followed, where
  `docs/architecture.md:111` has "resolved path must be within mount directory" and
  the comments at `router.cpp:84` and `:97` say "within". `StaticAnswerIsTrue` excepts such
  neighbours by name, and claims containment by components otherwise.
* The epoll server has no timeout (`epoll_server.cpp:32` stores one and nothing
  reads it), where `docs/architecture.md:182` speaks of timeouts.
* What arrives in the same chunk as the end of a request is dropped by `reset()`
  (`server.cpp:138`): complete requests, for which the client waits until the
  timeout, and the beginning of one that was still arriving, whose rest is then
  read as a request of its own. `GivesUpFairly` says that nothing else is dropped.
* A response to HEAD carries a body (`router.cpp:56`), which its client takes for
  the beginning of the next response, and one of a handler with status 204 may do so,
  too; no property speaks of framing.
* A signal after `~Server()` calls `stop()` on a destroyed object (`main.cpp:27` never
  resets `g_server`); a client that has closed and reset the connection ends the
  process also from the 503 path (`server.cpp:100`).
* With a limit of requests of zero or less the epoll server still answers one
  request (`epoll_server.cpp:201` compares after the response), `handle_connection`
  none (`server.cpp:137`). `RequestLimit` states it.
* `write_all` on a connection that is closed already sends nothing and returns
  true (`connection.cpp:107`); `read_until` may return a line longer than `max_size` if an
  earlier call with a larger limit left it in the buffer.
* `--timeout 0` means no timeout, as does one that `setsockopt` refuses;
  `WorkerReleased` assumes the timeouts are set.

### Bounds, and why they are enough

* `pool_safety`: 2 workers, 2 producers, 2 callers of `shutdown`, 3 tasks, queue
  of 2: full and empty queue, two threads in every race, one thread more than
  needed for each claim of "at most one". The invariants and the refinement are
  also proved without these bounds.
* `parser`: 1333 streams with every kind of mistake, each limit met exactly and
  exceeded by one (lines of 6, headers of 4, 10 units and 2 lines in all, bodies
  of 3), and second requests on a connection; all chunkings of each.
* `epoll_safety`: 2 clients on 2 descriptors, 2 units each, responses of 2 units
  through a buffer of 1, so that every response meets EAGAIN; batches of one or
  two events, so that some stay on the ready list, and the listener and a
  connection, or two connections, share a batch. The units are `"part"` and `"end"`;
  `"last"` and `"bad"`, which close the connection after a response, are in
  `epoll_live`: 1 client, 4 units, limit 2. Limits below 1 are covered by the proof.
* `handler`: limit of 2 requests, 3 units per request, 3 units per `recv`, so that
  a chunk can hold the end of one request and the whole of the next, and 2
  requests outstanding. The client's sending is not bounded in time.
* `server`: 1 worker, 2 clients, a queue of 1, 2 signals or 1 other thread: a
  full queue while the worker is busy, a connection in hand at every point of a
  stop, nested stops. With more workers the pool's own races are the same; an
  instance with 2 workers and 1 signal passes too.
* `connection`: every stream of up to 5 bytes over CR and LF, the delimiters CRLF
  and CRLFCRLF (one is part of the other and of itself shifted), limits 2 and 4,
  chunks of up to 3: a delimiter cut in every place, a limit met inside one.
* `application`: all command lines of up to 4 words out of 10, which has two options with
  their values in every arrangement, one number beyond `int`; four of them are served,
  with different workers, keep-alive and directory, as the others lead to no other
  behaviour of a request; one more route or mount; 14 targets; ten states of the
  file system, up to three of them during one request: the page removed, protected,
  made a directory or a link to the outside, its directory removed, protected or
  replaced by a link, a link re-pointed into the mount, a neighbour whose name
  extends the root's.

Deadlock is not checked: the pool ends destroyed, the loop ends stopped, the
handler and the process end, and a client may fall silent for ever. That the
system does not stop elsewhere is what the liveness properties are for.

## Proofs

Every proof follows one scheme: an inductive invariant that TLC checked first,
one lemma per action (or per conjunct, in the pool), and theorems that follow
from the invariant. The only hypotheses are the named assumptions about the
constants, given with each module below; TLC evaluates them in the runs. The
proofs hold for every value of the bounds in the models. Where a proof needs a
least number (the first delimiter, the first route, the lowest descriptor, a
least counterexample in place of an induction), it comes from `WFMin` of the
library.

### Thread pool

`ThreadPoolProofs`, from `PoolAssumption` (a finite, non-empty set of workers,
disjoint from the producers; any queue size): `TypeCorrect`,
`Backpressure`, `ExactlyOnce`, `CountExact`, `Wakeup`, `ShutdownWaits`,
`RaceIsBounded` and `WorkConserving`. None of the properties is inductive as it
stands. `IInv` adds

* `MutexInv`: the mutex is held exactly inside the locked scopes; this is what
  makes a push see the size it tested and confines both races of `shutdown`;
* `ArgInv`: the task a call is about to push is new, so the history stays free
  of duplicates;
* `StopInv`: one call of `shutdown` gets past the exchange, and workers leave
  only after it;
* `AliveInv`: after destruction nothing runs and nothing is queued;
* `LateInv`: after a late push no other call is between its test and its push,
  and none gets there any more;
* `BlockInv`: a worker about to sleep holds the mutex and the queue is empty;
  with `MutexInv` this carries `NoLostWakeup` over the step into sleep.

`NoIdleSleeper` counts: while `stop_` is not set and a worker sleeps, no more
tasks are queued than there are idle workers awake and calls about to notify.
`IdleInv` adds that these calls are finitely many, as nothing bounds the number of
producers. The step into sleep is covered by `BlockInv`; a `notify_one` that finds
no sleeper leaves nobody for the property to speak of.

`ThreadPoolRefinement!Implements` is `Spec => RefinesTaskQueue`, from the same
assumption and under `IInv`: `EnqueuePush` is a submission; `EnqueueFull`, and an
`EnqueueTestStop` that sees `stop_`, are refusals; the pop is a start,
`WorkerRunTask` a finish, `Destroy` a discard. A submission or refusal may also
close the queue: `Closed` becomes true when the last call that got past its test
before the exchange ends. The exchange itself closes the queue if there is no
such call and otherwise stutters, like all other steps (`InvisibleStep`). `IInv` is
needed: the task submitted is new and no other worker runs the one that ends
(`ArgInv`), and only one call at a time is past its test (`MutexInv`).

### Server

`ServerProofs`, from `PoolAssumption` and `ServerAssumption`.
`PoolIsUsedCorrectly`, `ServerSpec => Spec`, is the composition's theorem: whatever
main, the handlers, `stop()` and the destructor do is a step that `ThreadPool`
allows, so the pool's invariant is available here. On it rest `ServerTypeCorrect`,
`SingleOwner`, `ExitIsClean` and `StopIsPrompt`, with `ServerInv`:

* `HandInv`: a worker's local variable holds a task exactly from its pop to the
  end of the iteration, which says in whose hands a started task is;
* `ControlInv`: the accept loop has a connection exactly while it hands it on;
  `pool_` is there whenever it is used; nothing comes back after `main` returned;
* `OwnInv`: a connection taken from the backlog is in one place: in hand, in the
  pool's history, with a baseline thread, served, or refused;
* `AfterInv`: a connection taken after `running_` was cleared leaves the loop no
  second turn.

### Connection

`ConnectionProofs`, from `ConnectionAssumption` (delimiters are not empty; any
stream, limit and chunk size): `TypeCorrect`, `LinesExact`, `StreamInOrder`.
`LineIsExact` rests on a lemma about data (`NothingSkipped`): if the buffer had
no delimiter before `k` bytes were appended, the first one now begins in the part
that `read_until` searches again. `InOrder` is inductive with
`CallInv`: only `read_all` has bytes outside the leftover while it is under way.

### Connection handler

`ConnectionHandlerProofs`, from `HandlerAssumption`: `TypeCorrect` and
`FairGivingUp`. `GivesUpFairly` says something about the moment of a timeout, and
needs to know what became of every request. `Owed` keeps the account: as long as
there was no error and no request was cut in two, what the client is owed are the
complete requests not yet read, those `reset()` threw away, and the one being
answered. The lemmas
`CountAppend` and `CountCut` say how the number of complete requests in a stream
changes when it grows at the end and is cut where the parser stops.

### Epoll server

`EpollServerProofs`, from `EpollAssumption` (any number of clients, any finite
set of descriptors, any batch, response and buffer size): `TypeCorrect`,
`RegistrationsAgree`, `EventsAreFresh`, `EdgesAreKept`, `WholeResponses`,
`LimitedRequests`, from one invariant, because each needs the others:

* `LoopInv`: what each place of the loop relies on; a handler's connection has
  no second event in the batch;
* `Registered`: what a descriptor is registered for is what its connection waits
  for, and no two entries share a client;
* `BatchInv`: one event per descriptor, and it is not stale. It survives the
  reuse of a descriptor as a connection is closed only by its own event, after
  that has left the batch;
* `NoLostEdge` with `WaitsForSpace`: a writer that found the buffer full
  is told when there is room;
* `CountInv`: bytes written are whole responses and the progress of one, and
  responses are requests counted. `LimitedRequests` holds for every `int`.

### Application

`ApplicationProofs`, from `ApplicationAssumption`, `RouterAssumption`,
`OwnRoutesAssumption` and `ResponseAssumption`: `size_t` is wider than `uint16_t`;
routes and targets are made of tokens; in each state of the file system a canonical
path is a name of what it names, and who finds a name below a directory finds the
directory; what a handler returns has the members of a `Response`; the names of the
serializer's own headers are in lower case.
Nothing is assumed of the status, headers and body that a handler returns, nor of the
way the file system changes. `TypeCorrect`, `ConfigMeaning`, `ExactAllow`, `StaticTruth`
and the action property `RoutesExtend`, with

* `ResponseInv`: what was written is the response that `route` made;
* `ServeInv`: what `serve_static_file` knows after each question, and in which state
  of the file system it was true; only if nothing changed is it still true;
* `MeaningInv`: in the loop of `parse_args`, the configuration is what the words
  before `i` mean. That words have a role at all (`RolesExist`) is an
  induction over the command line, done by a least counterexample.

### Parser

`HttpParserProofs`, from `MessageAssumption` and `StreamAssumption`:
`BoundedMemory`, `TypeCorrect` and `VerdictExact`, for every stream, chunking and
value of the limits. `TypeOK /\ MemoryBounded` is inductive, as `feed` returns
INCOMPLETE only from the places that have just compared the sizes.

`VerdictExact` is `Spec => []VerdictIsMeaning`: the incremental parser agrees with
the reference of `HttpMessage`. As that does not depend on cuts, an error must stay
one, with the same code, and a request the same one, whatever follows (`FinalError`,
`FinalRequest`): what arrives after a verdict is ignored by the code and must not
change the meaning. Its invariant is `Bookkeeping`. What was fed since
`reset()` is what was erased from `buffer_` (`Read`) and the rest of it; in each
state, `Read` consists of whole, correct lines, and `request_`, `headers_size_` and
`header_count_` are what the reference finds in them (`AtRequestLine`, `AtHeaders`,
`AtBody`). The steps then need the meaning of a text put together from two parts:

* no line end lies across the join, so the lines of the whole are those of the
  parts (`LinesJoined`), and what was read keeps its meaning whatever follows
  (`HeadKept`, `SameHeaders`);
* the next line is the empty one (`HeadersEnd`), the first mistake (`BadLine`), or
  one more header that replaces an earlier one of its name (`LineAdded`);
  the running sum and count that the code compares are those of the reference
  (`NextLineLimits`);
* with no line end in the buffer, all that can be wrong is its length
  (`NoLineYet`, `HeadersOpen`), and the code and the reference count it alike unless
  the last chunk ended in `CutAtLimit`; after the headers, the body is what the buffer
  begins with (`InBody`).

### Model-checked only

* Liveness, which is out of the proof system's reach: `FeedReturns`,
  `EveryRequestAnswered`, `StopEndsLoop`, `WorkerReleased`, `CallReturns`,
  `EveryClientAnswered`, `StopEndsServer`.
* The violated runs: a counterexample needs no proof.

## Not modelled, and the plan

All parts of the server are modelled, and every safety property that a passing
run checks is proved. What could still be added are properties for the hazards
that have none; `PROJECT.json` gives the reason with each.

Left out for good: the text of responses, logs and the `Date` header (`gmtime`'s
shared buffer is a data race on text); the option setters of `Socket`, one system
call each whose failure nobody tests; adding routes while requests are served,
a data race that nothing in the repository commits; tests and benchmarks.
