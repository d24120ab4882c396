# A verification development for HTTP Storm (hphttp)

HTTP Storm is a C++ HTTP/1.1 server: one thread waits in `epoll_wait`, a pool of
threads reads, parses, answers and writes. This directory holds TLA+ modules
translated from its source, the TLC configurations that check them on small
instances, and TLAPS proofs about them. Paths below are relative to
`src/HTTP SERVER/HTTP Server/`.

Contents: [inventory](#the-system) - [modules](#modules) - [runs](#runs-and-bounds) -
[fairness](#fairness) - [proofs](#what-is-proved) - [what the runs found](#what-the-runs-found) -
[what is left out](#what-is-not-modelled) - [plan](#plan)

## The system

| component | state | operations | interacts with |
|---|---|---|---|
| `ThreadPool` (thread_pool.cpp/.hpp) | `tasks_`, `queue_mutex_`, `condition_`, `stop_`, `active_tasks_`, the threads | `submit`, `worker_loop`, `shutdown` | called by the event loop; runs its lambdas |
| `Server` (server.cpp) | `connections_` and its mutex, `active_connections_`, `running_`, `epoll_fd_`, `server_fd_` | `event_loop`, `accept_connection`, `handle_connection_event`, `remove_connection`, `cleanup_timed_out_connections`, `stop` | kernel (epoll, sockets), pool, every `Connection` |
| `Connection` (connection.cpp) | `fd_`, `state_`, `parser_`, `write_buffer_`, `write_offset_`, `requests_handled_`, `last_activity_` | `handle_read`, `handle_write`, `close`, `is_alive`, `is_timed_out` | called by workers and by the event loop; calls parser and `on_request_` |
| `HttpParser` (http_parser.cpp) | `request_`, `state_`, `buffer_`, `body_bytes_read_` | `feed`, `reset` | owned by one `Connection` |
| rate limiter (middleware.cpp) | `buckets`: tokens and `window_start` per key, a mutex | one lambda per request | shared by all workers |
| middleware chain, `Router`, handlers | tables fixed at start-up | `execute`, `dispatch` | run by workers inside `on_request_` |
| `StaticFileServer` | files on disk, changed by others | `resolve_file`, `serve_file` | run by workers |
| `TlsContext`, `ConfigLoader`, `Logger` | set up once; the console sink's lock | constructor, `create_ssl`, `load` | any of them may fail at start-up, `create_ssl` also in the event loop |
| the process (main.cpp, `Server::start`, `stop`, the signal handler, `~Server`) | `running_`, the descriptors, the threads, who holds which lock | `main`, `stop` on any thread a signal interrupts, destruction of the members | everything above |

What is hard about it:

* Nothing serialises the tasks of one connection (no `EPOLLONESHOT`, no lock in
  `Connection`), and descriptors are edge-triggered: an edge that is missed never
  comes again.
* A connection is known by its descriptor *number*. Workers and the event loop keep
  numbers across unlocks, and the kernel gives a closed number out again.
* `stop_` is written outside the mutex of the condition variable that waits for it,
  and `stop()` is called from a signal handler, on whichever thread the kernel
  interrupts, with the locks that thread holds.
* A TLS handshake takes several flights, any of which may stop half-way, and goes on
  only when input comes.
* The parser keeps state over arbitrary cuts of the stream.
* The rate limiter samples the clock before it takes its mutex.
* A static file is looked at in several system calls while others may replace it.

What makes each component correct: the pool runs every accepted task once and
loses no wake-up; a connection sends whole responses, one per request, keeps its
limits, and is closed and forgotten exactly once; the server keeps its map, its
counter, its limit and the kernel's table in step; the parser's result does not
depend on the cuts; a signal ends the process with nothing left open and nobody
using what is gone; a bucket never passes on more than burst plus rate; a request
gets to the handler its path means, and what is sent has the length it says.

## Modules

| module | what it is | source |
|---|---|---|
| `TaskPool` | what a pool promises: FIFO, once, nothing accepted after a worker has left | thread_pool.hpp, thread_pool.cpp |
| `ThreadPool` | the pool at the grain of its mutex, condition variable and atomics; implements `TaskPool` | the same |
| `ThreadPoolProofs`, `ConnectionProofs`, `ServerProofs`, `LifecycleProofs`, `RateLimiterProofs`, `HttpParserProofs`, `DispatchProofs` | theorems about the module of that name (`DispatchProofs` about `Router` too) | |
| `InductionLemmas` | induction over numbers and loops, in a form the provers can use | |
| `Exchange` | what a connection promises: requests handled in order, one at a time, each answered in full before the next, nothing after a refusal or a close | connection.cpp:41-96, 178-242 |
| `Connection` | one connection, plaintext or TLS, the workers, the event loop, the socket and a client; implements `Exchange` | connection.cpp, server.cpp:192-342 |
| `Server` | many connections, descriptor numbers, the registry and its counter | server.cpp:192-342, connection.cpp:81-112 |
| `Lifecycle` | the process from main's first line to its return: start, signals, stop, destruction | main.cpp, server.cpp:22-342, thread_pool.cpp, config_loader.cpp, tls_context.cpp |
| `HttpParser` | feed and reset against any cutting of the stream, query strings and escapes | http_parser.cpp:35-272 |
| `RateLimiter` | the token bucket | middleware.cpp:122-159 |
| `Router` | the table of routes: operators only | router.cpp |
| `Dispatch` | `on_request_`: middleware chain, router, handlers, static files against a process that writes them | server.cpp:344-468, middleware.cpp, static_file_server.cpp, main.cpp:48-64 |
| `MC*` | symmetry sets, scripts and streams for TLC | |

`PROJECT.json` maps each definition to its lines. Definitions whose comment
begins with `mutant` are not part of a model: each is the definition below it as a
plausible bug would have it, and shows that a property of a run can fail.

**ThreadPool.** `condition_.wait(lock, pred)` is the standard's loop, in the steps
`TestPredicate`, `Sleep` (release and block at once), `SpuriousWakeup`, `Reacquire`.
`submit` and `shutdown` are split at every operation another thread can see.
`fate[t]` is the future. `ImplementsTaskPool` maps `tasks_` to `pending`, the tasks
of workers between `TakeTask` and `ExecuteTask` to `exec`, `stop_` to `closed`, and
"some worker has left" to `sealed`.

**Connection.** A request is a header unit and body units, a response `size` units
(`ErrorLen` for a 400 or 413), each labelled with the request it belongs to; the
socket has a send buffer of `SendCap` units and one `recv` returns at most `ReadBuf`.
A peer is a script of requests, whether it pipelines them, and the length of the
server's TLS flight (0: plaintext). The worker's steps are those of the task lambda:
`handle_read` (`HandleRead`, `Handshake`, `Recv`, `FeedParser`, `Dispatch`,
`PrepareResponse`), `handle_write` (`HandleWrite`, `Send`, `Advance`, `FinishWrite`),
`close` and the `is_alive` check. `SSL_write` remembers in `flushed` how far it got,
as OpenSSL does without partial writes. A handler may throw; the exception stays in
the `packaged_task` and skips the rest of the task. `sock.armed` is epoll's ready
list: `HandleEvent` takes the edge with all the events then ready. The unit-level
`Feed` is a coarser view of `feed`; that cuts do not matter to the parser is what
`HttpParser` checks. The history flags `refed`, `dropped`, `unread` and `wantWrite`
say that a defect of the code described [below](#what-the-runs-found) has bitten;
the properties hold until then. `ImplementsExchange` maps the requests in `served` to
`handled`, the responses of which the client has or will have a unit to `responses`,
and `refed` to `void`. When two workers run, shared fields are data races; steps are
then interleavings of whole field accesses, so a run that finds a violation shows an
outcome the build has, and a run that passes with two workers (`conn_cleanup`) covers
these interleavings and not torn values.

**Lifecycle.** `main` is the main thread's place, from `configure` through
`Server::start` and the event loop to `~Server`, the destruction of the members in
reverse order of declaration, and the return. `stopper[a]` is the place in `stop()` of
actor `a`: the signal handler, or main in `~Server` and `~ThreadPool`. `Interrupt(t)`
starts the handler on thread `t`; until it returns `t` takes no step and keeps its
locks. A connection is named by its client; the event loop and the workers are those
of `Server` and `ThreadPool`, split only where a lock is held or where `stop()` may
come between. Exceptions (`Throw`) go where the code lets them: out of `submit` after
a stop, out of `create_ssl`, out of the set-up, to main's `catch`.

**Server.** The question is which connection a number stands for. A client connects with
a request and may ask again on the connection (`Ask`) or leave. A step holding `connections_mutex_` is one action;
`Connection::close` called by a task is `CloseStart`, `CloseFd`, `CloseEnd`;
`remove_connection` of a worker is `DeleteInterest`, `Erase`. `accept4` returns the
lowest free number. `batch` is what `epoll_wait` reported and the loop has not yet
handled, in any order; `of` in its records and in those of `expired`, and `loop.cut`,
are history. The sweep of timed-out connections is two steps: `CollectTimedOut` under the
mutex finds any set of connections (only the age of `last_activity_` counts, which a
request that is queued or in a handler does not renew), `RemoveTimedOut` closes what stands
for each number by then. With `MayFail`, `accept4` may return any error (`AcceptNothing`).

**HttpParser.** Tokens instead of characters: CR, LF, SP, `:`, `?` and words; in a
query string each character. `Parse` is the loop of `feed`: `Turn` takes one line, or what
there is of the body, and `Parse` is as many turns as the buffer can give. The loops of
`parse_query_string` and `url_decode` have the same form (`QueryTurn`, `DecodeTurn`;
`FromHex` is `std::from_chars`, which takes one digit or a sign for a number). `Meaning`
says what all bytes fed since the last reset mean as one text, by the positions of CRLF
and without any state; `Parameters` and `Decoded` say by positions what a well-formed
query string means. `ParseRequestLine`, `Field` and `FinalizeHeaders` look at one
line or one table and are shared by the loop and by `Meaning`.

**RateLimiter.** Integer arithmetic in ticks; the cast of a double to
`std::size_t` truncates, and for a value of -1 or less (undefined in C++) is either 0
(saturating conversion) or wraps modulo `SizeRange`, 2^64 there (the x86-64 sequence).

**Dispatch.** One worker takes a request down the chain (`Begin`), through the static
handler's system calls if it is for a file (`StatSize`, `StatTime`, `GenerateETag`,
`ServeFile`) and the response back up (`Send`), where `Connection` completes the
headers. `ReplaceFile` and `RemoveFile` are another process. A file's content is its
version; `past` is the history of versions the file had during the request, and
`sized` the one that `file_size` saw. What a middleware does with a response is one
operator each. The rate limiter's decision is a choice here (`RateLimiter` decides
it). `Router` walks the table in order (`TryRoute`) and states what the table means
without an order of steps (`MeansHandler`); `MeansFile` does the same for
`sanitize_path`. Sizes and modification times of the versions are constants, any numbers: a
younger version may have the time of an older one, or an earlier one. `BitXor`, the
exclusive-or of `generate_etag`, is a constant too, which the run gives its value;
`DispatchAssumption` says of it only that it gives a number, so that any two versions may
have the same tag.

## Runs and bounds

| run | checks | bounds, and why they are enough |
|---|---|---|
| `pool` | types, exact `active_tasks_`, no pop of an empty queue, drained exit, enough workers awake, once-only, accepted tasks run, shutdown returns, implements `TaskPool` | 2 workers, 2 callers, 3 tasks, 1 shutdown: one worker can block while the other takes a task for which a second notification is under way, and both callers can be inside `submit` when `stop_` is set |
| `conn_serial` | framing, request limit, body limit, reasons for a close, no lost edge, handshakes completed, implements `Exchange` | 1 worker, `ReadBuf` 2, `SendCap` 2 < responses of 3, so that they block and continue; one request more than the limit of 2, bodies at and over `MaxBody` 1 and over what one read may add, a malformed request, a throwing handler; two and three pipelined requests, in one read and in several; TLS flights of 2 (fits) and 3 (does not); one task queued behind the running one (`MaxTasks`): more carry no other information, as a task reads all there is |
| `conn_cleanup` | an open descriptor is registered, a closed connection is forgotten | 2 workers, hang-up, time-out, throwing handler |
| `server` | limit, counter, map against kernel table, backlog, what may close a waiting client | 3 clients that may ask again, 3 numbers, a limit of 2 and 2 workers, sweeps and errors of `accept4` at any time: numbers are reused while tasks, events and sweeps hold them, and the limit is reached (a backlog behind it: `server_shedding`) |
| `parser` | independence of the cuts, query parameters | 14 streams of one or two requests, every cut; a body containing CRLF, repeated and non-numeric Content-Length, a lone CR, errors in each line; escapes next to each other and to delimiters, repeated and empty parameters, broken escapes |
| `rate` | bucket bound, Retry-After honoured | 2 workers, 1 key (buckets of two keys share the mutex only), half-token ticks, 8 ticks: enough to empty the bucket, refill it and apply samples in the other order |
| `dispatch` | framing, 304, routing, headers | 1 worker (workers share the files only, and these change at every step anyway); every default route and README's, 14 requests with and without gzip, one file with 4 versions: for what was kept, the stat and the opening one each, and one more; sizes 2 and 0, an older time, an equal time, and two versions with one tag (4 ^ 2 = 6 ^ 0) |
| `lifecycle` | lock discipline, signals end the process, nothing served or open afterwards, members outlive workers | 1 worker, 2 connections (one accepted while the other is served or cleared), 2 signals on main or the worker: the second may come during destruction or find the first already done |
| `conn_parallel`, `server_reuse`, `server_shedding`, `lifecycle_signal` | violated, see [below](#what-the-runs-found) | the smallest instance that shows it |

Deadlock is not checked: every model really stops (all workers left, the client has
no more to send, time is up). Symmetry is used only in runs without liveness.

## Fairness

`ThreadPool`: each worker and each caller inside `submit` is scheduled, tasks
return, a mutex that is free again and again is obtained (weak fairness of the
whole worker step suffices, for the model lets any waiting thread take it; the
checked properties hold under this assumption). Nothing is assumed about spurious
wake-ups or about when `shutdown` is called, or that callers call.
`Connection`: workers, the event loop and the removal of what the sweep collected
go on; the client reads what it is sent and completes a request or a handshake it has
begun. It need not begin one, hang up, or be quiet for `keepalive_timeout_ms`.
`Server` (`FairSpec`, used by `server_shedding`): the event loop and the workers.
`Lifecycle`: main, the workers and the handler's thread are scheduled; a thread
interrupted by a signal is not enabled until the handler returns, so nothing is
assumed about it. Signals and clients come when they like.

## What is proved

With TLAPS, for every value of the constants that the module's assumption allows. Each
theorem `<Property>Holds` (`TypeCorrect` for `TypeOK`) states the property of that name,
which a run checks on a small instance. The other theorems are the inductive
invariants they follow from; each was checked with TLC before it was proved.

**ThreadPool** (`PoolAssumption`: a finite non-empty set of workers and a finite set of
callers, disjoint; `NoThread` and `NoTask` are neither).

* `ControlInvariant`: the inductive invariant `ControlInv`. It says who holds
  `queue_mutex_` (exactly the thread inside its critical section), that a worker in
  `taking` saw the predicate true and that it still is, that one in `sleeping` saw
  an empty queue and that it still is, that a worker that left saw `stop_`, and
  that a caller past its check of `stop_` holds the mutex. Without these
  `DrainedAtExit` and `NeverTakesNothing` are not inductive: the predicate is
  tested in one step and relied on in another.
* `NeverTakesNothingHolds`, `DrainedAtExitHolds`, `TypeCorrect` from it;
  `ActiveCountHolds` by cardinality of the set of counting workers;
  `WorkConservingHolds`: queued tasks against workers and notifications on their way.
* `FateInvariant` links `tasks_`, the workers' and callers' local tasks and the
  futures (a queued task is in the queue once, a running one at one worker);
  from it `RunsOnceHolds` and `PoolImplementsTaskPool`: `Init` maps to `Init`, and each
  of the steps maps to a step of `TaskPool` or a stutter.

**Server** (`ServerAssumption`: finite sets of clients and of positive descriptor
numbers, any limit, any workers): every property of the run `server`.

* `SocketInvariant`. `OpenIsMapped` alone is not inductive: that the insertion overwrites
  only an entry of a closed socket, and that a worker's `::close` and `erase` never
  part an open socket from its entry, needs to know that the `Connection` of an open
  socket has that socket's number (`OwnerKnown`), that a connection in the backlog has
  none (`NotYetAccepted`), that the map and the queue name accepted ones only
  (`NamedAreAccepted`), and what the event loop and each worker hold between two steps
  (`LoopInv`, `WorkerInv`).
* `CountInvariant` adds to the limit and the counter that the room seen at the test of
  the limit is still there at the insertion: nobody else inserts.
* `ClosedForCauseHolds` from `HoldersInv`, who may hold which number: an entry is that of
  its own connection or of a closed one, a worker closes its own connection only after
  it has answered a request on it, and while a sweep lasts nobody gives numbers out, so that
  what it found is still there or gone (`SweepKnows`). So a client that waits can be hit
  only by a number kept for somebody else, by a sweep that found its own connection, or,
  if it asked again, by the close after its last answer.
* `BacklogServedHolds` from `EdgeInv`, which says the same while an edge is being handled.

**Connection** (`ConnectionAssumption`: any peers, limits and buffers, a finite non-empty set
of workers, which may all be at work on the one object).

* `ConnectionInvariant`: a CLOSED connection has given up its descriptor (its state may be
  overwritten after that, `ClosedInv`), and one that is READING has room for a request
  (`RoomInv`); neither `RequestLimit` nor `OpenIsRegistered` is inductive without. From it
  `RequestLimitHolds` and `OpenIsRegisteredHolds`: these two survive the data races that
  break `WholeResponses`.
* With one worker (`OneWorker`), any peers and any limits: `TypeInv` gives every field its
  type, and says what a task has in its hands at each of its places: units of requests
  between `recv` and `feed`, and between `send` and the move of `write_offset_` a number that
  does not lead past `write_buffer_` (`WorkOf`). It needs the order of the handshake's units in
  the socket (`SockType`): a parser that is fed one of them has no request. From it
  `SerialTypes`, where two workers would move the offset past the end of a buffer
  the other has replaced.
* `SerialBoundedBody` from `BodyInv`: as long as the state is READING, the body under way is
  below `max_request_size_`, or the refusal is on its way. With two workers it does not
  hold: the state is still READING between the feed that goes over the limit and
  `prepare_response`, and another task may feed the same parser in between.
* Two invariants say where the units of requests are. `GreetingInv`: none is sent before the
  client's handshake is done, and until the server's is done the Connection only reads and the
  task is at none of the places past `recv`. `InputInv`: what the parser has still to see, in
  `buffer_`, in the task's hands, in the socket and with the client, is contiguous
  (`Contiguous`), and its first unit is the one the parser's stage calls for (`Awaits`).
* `SerialWholeResponses` from these and `StreamInv`, which follows each response on its way. The
  Connection's state says whose response is due: that of the request at the head of the input or
  in the parser (`Reading`), of the one that is handled (`Processing`), or the one under way
  (`Writing`), of which the client's stream ends with as much as `write_offset_`, what
  `SSL_write` has flushed and what the task has still to add up say (`Written`).
  `parser_.reset()` is where input and stream meet: what is left in `buffer_` is lost, so that the
  response to a later request may come next. The attempt to prove the property without
  `conn.dropped` failed here, and TLC then found the client that pipelines three requests
  and gets responses to the first and the third.
* `SerialCloseJustified` from the same two and `CauseInv`: unless one of the reasons that last
  is there already (`Excused`: a refusal sent, the limit of requests, a hang-up), a task is on its
  way to `close` only after a first unit that is no handshake, or when the client's last request
  asked for `Connection: close` and its whole response is in the stream (`Concluded`); and a task
  that is not is at a place where what has been sent of the response agrees with `Written`
  (`Underway`). `KeepsInv` adds that a client which has been told so sends no further
  request, so the request the server closes after is the last one sent. No assumption is made
  about `conn.refed`: unlike the contents of the stream, the reasons for closing survive input
  that meets a request whose response is under way.
* `SerialExchange`: `Connection` implements `Exchange`, step by step. The mapping compares two
  histories, the requests in `served` and the responses begun in the client's stream, which
  the code never has side by side; `HandledInv` keeps them together. While the Connection
  reads, or is about to handle or to refuse a request, the last handled request is the last
  one answered (`Settled`); when it writes a handler's response, it is that of the last
  handled request; and a request on its way to its handler is later than all of those. With
  `StreamInv` a `Send` is then a `Begin`, a `Complete` or a stutter by where in the response
  it starts and ends, `Dispatch` is a `Handle`, and closing the socket a `Close`.
  The attempt showed that `Requests`, first mapped to one number more than the limit and
  its refusal need, was too small for a long pipeline: `parser_.reset()` skips the
  requests in the same chunk, so that the number of a request handled is not bounded by
  how many were; TLC then found it with five pipelined requests. `Requests` now is the
  numbers in the peers' scripts.

**RateLimiter** (`RateAssumption`: positive rate and burst, and a range of `std::size_t` that
the arithmetic does not leave). `RateBound` needs a potential: `PaidFor` says that the requests
admitted and the tokens left are paid for by the first full bucket and by the time
up to `window_start`. Truncation only loses tokens, so each decision keeps it.
`RetryAfterHonouredHolds` needs that `window_start` is never later than the last answer.

**Lifecycle** (`LifecycleAssumption`: finite sets of workers and connections, any number of
signals, on any of the threads). `LifecycleInv` is inductive and has six parts besides the
types: a thread has a lock exactly at the places inside that lock's critical sections,
interrupted or not (`LockInv`); where the handler's `stop()` and main's can be (`OrderInv`); a
worker that left saw `stop_` and an empty queue and nobody is past the check of
`submit` (`QuietInv`); a cleared `running_` means that nothing was ever served, or that the pool
was joined, or that a `stop()` is between its store and its return (`SettledInv`); every open
socket is in `connections_`, in main's hands or leaked (`OwnedInv`); and who will still
close the two descriptors (`FdsInv`). From it every invariant of the run `lifecycle`;
`MembersOutliveWorkersHolds` is the one that depends on all of the order: the destructor's
`stop()` returns at once when `running_` is already false, so by then either a handler's
`stop()` has joined the workers or there was never a task.

**HttpParser** (`ParserAssumption`: any streams, any longest chunk).

* `StreamsParsedAsWhole` is `ParsedAsWhole` for streams of any length and any cuts. The
  property compares two ways of reading one text, so the invariant `ParserInv` has to say
  how far the parser has come in it: `Parsed(parser, fed)` cuts what has been fed in the lines
  already taken and `buffer_`, where a line ends only at a CRLF of the whole text
  (`AtStart`, `InHeaders`, `InBody`, `Completed`, `Failed`, one for each state), and `Settled` says
  that no further turn is possible. A chunk added to `buffer_` keeps `Parsed`, as a CRLF cut
  in two is not yet an end (`EndsOfJoin`); every `Turn` keeps it; and a loop of as many turns as
  the buffer is long ends in a settled state, for each turn but the last takes two bytes or
  leaves the loop. A settled parser is what `Meaning` says.
* `TypesHold` from the same invariant: in the state BODY `body_bytes_read_` is the length of
  the body taken so far, which is short of `content_length`.
* `DecodedAsMeant` and `QueryAsMeant`: `url_decode` and `parse_query_string` compute, for every
  well-formed input, what `Decoded` and `Parameters` say by positions.

**Dispatch** and **Router** (`DispatchAssumption`: any table, chain, directories, number of
files and versions, any sizes and times; `ChainAssumption`: the chain begins as the constructor of `Server` builds
it and `main` may append to it).

* `RoutesAsMeant` and `PathsAsMeant`: the loops of `match` and `sanitize_path` find what
  `MeansHandler` and `MeansFile` say without a loop, for every table and every path.
* `DispatchInvariant`: what a worker's place implies for the file it looks at (`sized` is a
  version the file had, `etag` is that of a version between the first look and now), and that
  an ETag a client has kept is that of content the file had. From it every invariant of the run
  `dispatch`. `FreshnessHolds` assumes nothing of sizes, times and exclusive-or: an `etag` is
  a tag of the version kept and of one the file had during the request, and if these differ
  two versions share it, which the property excepts (`Coincides`).

**InductionLemmas.** The library's induction theorems take an operator as a parameter, which no
installed prover can instantiate. These lemmas take a set of numbers or a function instead:
`InductionUpTo`, `InductionDownFrom`, and for a loop written as a function of the number of its
turns `Iteration` (the function exists), `LoopExists` and `LoopEnds` (with a bound on the turns
left the loop has ended). `HttpParserProofs`, `DispatchProofs` and `ConnectionProofs` rest on them.

**Only model-checked.** The liveness properties (`AcceptedTaskRuns`, `ShutdownReturns`, `Answered`,
`Secured`, `Unregistered`, `StopCompletes`) are out of the prover's reach.

## What the runs found

* `conn_parallel`: two events of one connection become two tasks on two workers; both
  send from `write_buffer_` and advance `write_offset_`, and the client reads a
  corrupted response.
* `server_reuse`: a worker's `::close(fd)` or `remove_connection(fd)`, or an event of
  the same batch, hits a number that meanwhile stands for another client. `ClosedForCause`
  in `server` shows that there are two other causes only for which a client that waits is
  closed: the sweep, which closes a connection it found too old although its request may be
  queued, in a handler, or have come in since (server.cpp:332, connection.cpp:114), and the
  close after the last response of a connection on which the client, told `keep-alive`, has
  asked again (connection.cpp:71).
* `server_shedding`: after shedding, the accept loop is left with a backlog and no
  further edge. `BacklogServed` in `server` shows that it happens only when the accept
  loop is left early, there or at an error of `accept4`.
* `lifecycle_signal`: Ctrl+C while main is in a critical section of
  `connections_mutex_` (it enters one at every accept, event, removal and sweep):
  the handler's `stop()` waits for the lock of the thread it runs on.

Others are the exceptions that passing properties name; without the exception the
run fails:

* `ShutdownReturns` (`pool`) and `StopCompletes` (`missed`, `lifecycle`): `shutdown()` sets
  `stop_` and calls `notify_all` without `queue_mutex_`. A worker between its test of
  the predicate and its blocking misses both, and `join()` waits for ever. That
  accepted tasks are still run (`AcceptedTaskRuns`) shows that only the join is
  affected.
* `StopCompletes`, further: a signal after `install_signal_handlers` and before
  `running_` is set is lost (`stop()` returns at once, then `start()` serves); one
  that interrupts a thread holding any of the locks never returns. A signal on a
  worker reaches `join()` of itself: `std::system_error` in a handler, and the
  process aborts (`JoinItself`).
* `NothingOpen`: `create_ssl` throwing in `accept_connection` (`leaked`) leaves the accepted
  socket without an owner, and ends the whole server.
* `conn.refed`: input that arrives while a response is blocked finds the parser COMPLETE
  or in its error, or a refused body still incomplete: the request already served is
  dispatched again, or a second refusal overwrites the half-sent one. So a body of
  any length reaches its handler, `max_request_size` notwithstanding, if its 413 is
  blocked while the rest arrives (`BoundedBody` without the exception fails).
* `conn.dropped`: pipelined bytes left in `buffer_` are discarded by `parser_.reset()`. What
  follows them in the socket is served, so a client that pipelines three requests may
  get the first and the third response and take one for the other (`WholeResponses`
  without the exception fails), or wait for ever (`Answered`). `conn.unread`: `read_data` returns at the end of a request without reading until
  `EAGAIN`, so a pipelined request left in the socket waits for an edge that may never
  come (`Answered`).
* `conn.wantWrite`: a handshake that met a full send buffer is continued by `handle_read`
  only, which room in the buffer does not cause (`Secured`).
* `RateBound` and `TypeOK` in `rate` except a bucket whose `window_start` was moved back:
  two samples of `now` applied in the other order give a negative elapsed time, and
  the cast of a negative double to `std::size_t` (undefined; it wraps on x86-64)
  refills the bucket beyond `burst_size`. Without `rewound` the run fails.
* `Framed` in `dispatch` excepts a file replaced between `file_size` and the opening:
  Content-Length is the old size, the body the new content. `NotModifiedIsFresh`
  excepts the tag `"unknown"`: a file that is missing at the second
  `last_write_time` and back at the opening is sent with it, and any later request
  that meets the same moment is told that this content is still current. It also excepts
  a tag that two versions share, as `ns ^ size` may be the same for both
  (static_file_server.cpp:173): the client is then told that an older version is current.

Also met, and described here only: the rate limiter's key contains the port
(server.cpp:258), so that a client has a bucket per connection although README.md:22
says "per-client" and middleware.cpp:128 names it `client_ip`; entries of `buckets` are
never removed; the last response within the limit says `Connection: keep-alive` and is
followed by a close (connection.cpp:188 and 71); a parameter without `=` is not decoded
and an escape with one digit swallows the character after it (http_parser.cpp:189, 253);
the 400, 413 and 429 responses do not pass the security
header middleware although README.md:143 says all do, and no response has the
Strict-Transport-Security of README.md:146; no route is registered for HEAD, so that
`serve_file`'s branch for it is never reached and a HEAD request is answered 405 with
a body; `/static/x` is looked for at `static/static/x`, as the prefix is not removed;
the parameters that `match` collects are dropped by `dispatch`; README.md:118 names a
key `threads` that the loader does not read, and `gzip_min_size` is read and not used.

## What is not modelled

* `Server::wait()` (nobody calls it); the close_notify of `SSL_shutdown`; what OpenSSL
  itself does; the choice of ciphers and certificates; the values of configuration
  keys (they are the constants).
* In `Lifecycle`: the lock of the allocator, which a handler may also find held; a signal
  after `~Server`, when `g_server_instance` dangles (the memory is main's stack and
  `running_` still reads false in practice; the standard leaves it undefined);
  spurious wake-ups and reuse of descriptor numbers, which `ThreadPool` and `Server`
  have; several connections timing out in one sweep; concurrent `join` by `~ThreadPool`
  and a handler on a worker, beyond the abort it leads to.
* `close()` freeing `ssl_` while another worker is inside an SSL call on it: undefined
  behaviour, with no outcome to enumerate.
* In `Lifecycle`: `Logger::init` (main.cpp:41), which may throw outside main's `try`; the
  process then ends before anything is built.
* In `Dispatch`: files written in place; `Vary`, media
  types and the text of JSON bodies; the values of route parameters; patterns with
  characters that `std::regex` treats specially.
* Memory exhaustion; the text of logs; `StaticFileServer::can_serve` and
  `method_to_string`, which change nothing.
* Torn values and compiler reordering of racy fields of `Connection`.

## Plan

In order; each later item builds on the earlier ones.

1. Done: `TaskPool`, `ThreadPool` and their proofs; `Exchange`, `Connection`; `Server`;
   `Lifecycle`; `HttpParser`; `RateLimiter`; `Router`, `Dispatch`.
2. Done: proofs about `Server`, `RateLimiter`, `Connection` and `Lifecycle`.
3. Done: `Connection` with one worker, `TypeOK` and `BoundedBody`; `Dispatch`, `Router` and
   `HttpParser`, every invariant their runs check.
4. Done: `WholeResponses`, `CloseJustified` and the refinement of `Exchange` for one worker.
5. Left: nothing that the prover can reach; the liveness properties stay with TLC.
