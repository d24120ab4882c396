----------------------------- MODULE Lifecycle -----------------------------
(***************************************************************************)
(* The life of the process: main(), Server's construction, start(), stop()  *)
(* and destruction, with the signal handler that runs stop() on whichever   *)
(* thread the kernel interrupts.  That thread's own steps are suspended, the *)
(* locks it holds stay held.                                                 *)
(*                                                                          *)
(* Locks are connections_mutex_, queue_mutex_ and the mutex of the logger's *)
(* console sink.  The event loop and the workers are those of Server.tla    *)
(* and ThreadPool.tla, coarser except where a lock is held or a member of   *)
(* the Server is used.  Descriptor numbers are the subject of Server.tla:   *)
(* here a connection is named by its client.  A definition whose comment    *)
(* begins with `mutant' is not part of the model: it is the definition      *)
(* after it as a plausible bug would have it.                                *)
(***************************************************************************)
EXTENDS Integers, Sequences, FiniteSets

CONSTANTS
  Main, Workers,  \* the threads
  Clients,        \* connections that will be attempted
  Victims,        \* the threads that a signal may interrupt
  MaxSignals,     \* bound: signals delivered
  NoThread, NoClient, Listener

ASSUME LifecycleAssumption ==
  /\ IsFiniteSet(Workers) /\ Workers # {} /\ IsFiniteSet(Clients)
  /\ Main \notin Workers /\ NoThread \notin Workers \cup {Main}
  /\ Victims \subseteq Workers \cup {Main}
  /\ NoClient \notin Clients /\ Listener \notin Clients \cup {NoClient}
  /\ MaxSignals \in Nat

VARIABLES
  main,         \* the main thread: where it is, the connection and the batch of
                \* events in its hands, and where an exception, if any, came from
  stopper,      \* stopper[a]: where the stop() of the handler, and that of ~Server
                \* or the shutdown() of ~ThreadPool, are
  signal,       \* the interrupted thread, how many signals were delivered, and
                \* whether the last came before running_ was set (history)
  running,      \* running_
  fds,          \* which of epoll_fd_ and server_fd_ are open
  mutex,        \* mutex[m]: the holder of each lock, or NoThread
  pool,         \* stop_ and tasks_; history: `missed' when notify_all found a worker
                \* between its test and its blocking, `joined' by a stop()
  worker,       \* worker[w]: where it is in worker_loop, and the connection of its task
  sock,         \* sock[c]: the client's connection as the kernel has it
  interest,     \* sockets registered in epoll_fd_ ...
  ready,        \* ... and those among them with an event to report
  connections,  \* connections_
  leaked,       \* accepted sockets that belong to no object any more (history)
  outcome       \* of the process

vars == <<main, stopper, signal, running, fds, mutex, pool, worker, sock, interest, ready,
          connections, leaked, outcome>>
netVars == <<sock, interest, ready, connections, leaked>>

Locks == {"connections", "queue", "log"}
Actors == {"handler", "main"}

Init ==
  /\ main = [pc |-> "configure", conn |-> NoClient, batch |-> {}, failed |-> "no"]
  /\ stopper = [a \in Actors |-> "none"]
  /\ signal = [thread |-> NoThread, count |-> 0, lost |-> FALSE]
  /\ running = FALSE
  /\ fds = {}
  /\ mutex = [m \in Locks |-> NoThread]
  /\ pool = [stop |-> FALSE, tasks |-> <<>>, missed |-> FALSE, joined |-> FALSE]
  /\ worker = [w \in Workers |-> [pc |-> "unborn", conn |-> NoClient]]
  /\ sock = [c \in Clients |-> "new"]
  /\ interest = {} /\ ready = {} /\ connections = {} /\ leaked = {}
  /\ outcome = "alive"

MainRuns == outcome = "alive" /\ signal.thread # Main
WorkerRuns(w) == outcome = "alive" /\ signal.thread # w

At(pc) == MainRuns /\ main.pc = pc
Goto(pc) == main' = [main EXCEPT !.pc = pc]
GotoWith(pc, c) == main' = [main EXCEPT !.pc = pc, !.conn = c]
\* an exception leaves start(), and main's try block destroys the Server
Throw == main' = [main EXCEPT !.pc = "destruct", !.conn = NoClient, !.batch = {},
                              !.failed = main.pc]

Lock(m, t) == mutex[m] = NoThread /\ mutex' = [mutex EXCEPT ![m] = t]
\* mutant: a critical section that is left without unlocking
KeepLocked(m) == UNCHANGED mutex
Unlock(m) == mutex' = [mutex EXCEPT ![m] = NoThread]

-----------------------------------------------------------------------------
(* main, Server::Server and Server::start up to the event loop *)

\* --help ends main, and so does a file that is there but that ConfigLoader cannot
\* open, parse or convert; without a file there are defaults.  Either way the pool
\* gets at least one thread.
Configure ==
  /\ At("configure")
  /\ \/ Goto("construct")
     \/ main' = [main EXCEPT !.pc = "gone", !.failed = "help"]
     \/ main' = [main EXCEPT !.pc = "gone", !.failed = "configure"]
  /\ UNCHANGED <<stopper, signal, running, fds, mutex, pool, worker, netVars, outcome>>

\* the pool is the first member to exist; TlsContext may throw after it, and then
\* ~Server does not run but ~ThreadPool does
Construct ==
  /\ At("construct")
  /\ worker' = [w \in Workers |-> [pc |-> "idle", conn |-> NoClient]]
  /\ \/ Goto("install") /\ UNCHANGED stopper
     \/ /\ main' = [main EXCEPT !.pc = "unpool", !.failed = "construct"]
        /\ stopper' = [stopper EXCEPT !["main"] = "stop"]
  /\ UNCHANGED <<signal, running, fds, mutex, pool, netVars, outcome>>

InstallSignalHandlers ==
  /\ At("install")
  /\ Goto("setup")
  /\ UNCHANGED <<stopper, signal, running, fds, mutex, pool, worker, netVars, outcome>>

\* socket, bind, listen, epoll_create1, epoll_ctl: any of them may throw
Setup ==
  /\ At("setup")
  /\ \/ Goto("set running") /\ fds' = {"listener", "epoll"}
     \/ Throw /\ fds' \in {{}, {"listener"}, {"listener", "epoll"}}
  /\ UNCHANGED <<stopper, signal, running, mutex, pool, worker, netVars, outcome>>

SetRunning ==
  /\ At("set running")
  /\ running' = TRUE
  /\ Goto("announce")
  /\ UNCHANGED <<stopper, signal, fds, mutex, pool, worker, netVars, outcome>>

Announce ==
  /\ At("announce")
  /\ Lock("log", Main)
  /\ Goto("announcing")
  /\ UNCHANGED <<stopper, signal, running, fds, pool, worker, netVars, outcome>>

Announced ==
  /\ At("announcing")
  /\ Unlock("log")
  /\ Goto("loop")
  /\ UNCHANGED <<stopper, signal, running, fds, pool, worker, netVars, outcome>>

-----------------------------------------------------------------------------
(* Server::event_loop *)

LeaveLoop == main' = [main EXCEPT !.pc = "destruct", !.conn = NoClient, !.batch = {}]

TestRunning ==
  /\ At("loop")
  /\ IF running THEN Goto("poll") ELSE LeaveLoop
  /\ UNCHANGED <<stopper, signal, running, fds, mutex, pool, worker, netVars, outcome>>

\* epoll_wait fails on a closed descriptor; a second passes, or the call is
\* interrupted, without an event; or there are events
Poll ==
  /\ At("poll")
  /\ \/ "epoll" \notin fds /\ LeaveLoop /\ UNCHANGED ready
     \/ Goto("loop") /\ UNCHANGED ready
     \/ /\ "epoll" \in fds
        /\ LET waiting == {Listener : c \in {d \in Clients : sock[d] = "backlog"}} IN
             /\ ready \cup waiting # {}
             /\ main' = [main EXCEPT !.pc = "batch", !.batch = ready \cup waiting]
        /\ ready' = {}
  /\ UNCHANGED <<stopper, signal, running, fds, mutex, pool, worker, sock, interest,
                 connections, leaked, outcome>>

\* the next event of the batch, or the end of it
NextEvent ==
  /\ At("batch")
  /\ \/ \E e \in main.batch :
          main' = [main EXCEPT !.batch = @ \ {e},
                               !.pc = IF e = Listener THEN "accept" ELSE "find",
                               !.conn = IF e = Listener THEN NoClient ELSE e]
     \/ main.batch = {} /\ Goto("loop")
  /\ UNCHANGED <<stopper, signal, running, fds, mutex, pool, worker, netVars, outcome>>

\* cleanup_timed_out_connections finds one that timed out
Sweep ==
  /\ At("batch") /\ main.batch = {}
  /\ Lock("connections", Main)
  /\ \E c \in connections : GotoWith("swept", c)
  /\ UNCHANGED <<stopper, signal, running, fds, pool, worker, netVars, outcome>>

\* accept4, on -1 too
Accept ==
  /\ At("accept")
  /\ \/ /\ "listener" \in fds
        /\ \E c \in Clients :
             /\ sock[c] = "backlog"
             /\ sock' = [sock EXCEPT ![c] = "open"]
             /\ GotoWith("check limit", c)
     \/ /\ "listener" \notin fds \/ \A c \in Clients : sock[c] # "backlog"
        /\ GotoWith("batch", NoClient)
        /\ UNCHANGED sock
  /\ UNCHANGED <<stopper, signal, running, fds, mutex, pool, worker, interest, ready,
                 connections, leaked, outcome>>

CheckLimit ==
  /\ At("check limit")
  /\ Lock("connections", Main)
  /\ Goto("checked")
  /\ UNCHANGED <<stopper, signal, running, fds, pool, worker, netVars, outcome>>

\* SSL_new fails: the exception leaves the event loop, and the socket, which no
\* Connection owns, stays open
CreateConnection ==
  /\ At("create")
  /\ \/ Goto("insert") /\ UNCHANGED leaked
     \/ Throw /\ leaked' = leaked \cup {main.conn}
  /\ UNCHANGED <<stopper, signal, running, fds, mutex, pool, worker, sock, interest, ready,
                 connections, outcome>>

Insert ==
  /\ At("insert")
  /\ Lock("connections", Main)
  /\ connections' = connections \cup {main.conn}
  /\ Goto("inserted")
  /\ UNCHANGED <<stopper, signal, running, fds, pool, worker, sock, interest, ready, leaked,
                 outcome>>

\* epoll_ctl on -1 fails, and nobody looks
Register ==
  /\ At("register")
  /\ IF "epoll" \in fds /\ sock[main.conn] = "open"
     THEN interest' = interest \cup {main.conn} /\ ready' = ready \cup {main.conn}
     ELSE UNCHANGED <<interest, ready>>
  /\ GotoWith("accept", NoClient)
  /\ UNCHANGED <<stopper, signal, running, fds, mutex, pool, worker, sock, connections,
                 leaked, outcome>>

\* handle_connection_event
Find ==
  /\ At("find")
  /\ Lock("connections", Main)
  /\ Goto(IF main.conn \in connections THEN "found" ELSE "not found")
  /\ UNCHANGED <<stopper, signal, running, fds, pool, worker, netVars, outcome>>

\* the end of each critical section of connections_mutex_
AfterUnlock ==
  [pc \in {"swept", "checked", "inserted", "found", "not found", "erased"} |->
     CASE pc = "swept" -> "erase" [] pc = "checked" -> "create" [] pc = "inserted" -> "register"
       [] pc = "found" -> "event" [] OTHER -> "batch"]

UnlockConnections ==
  /\ MainRuns /\ main.pc \in DOMAIN AfterUnlock
  /\ Unlock("connections")
  /\ IF AfterUnlock[main.pc] = "batch" THEN GotoWith("batch", NoClient)
                                       ELSE Goto(AfterUnlock[main.pc])
  /\ UNCHANGED <<stopper, signal, running, fds, pool, worker, netVars, outcome>>

Event ==
  /\ At("event")
  /\ Goto(IF sock[main.conn] = "hung up" THEN "erase" ELSE "submit")
  /\ UNCHANGED <<stopper, signal, running, fds, mutex, pool, worker, netVars, outcome>>

CloseSockets(S) ==
  /\ sock' = [c \in Clients |-> IF c \in S THEN "closed" ELSE sock[c]]
  /\ interest' = interest \ S
  /\ ready' = ready \ S

\* remove_connection: find, close, erase
Erase ==
  /\ At("erase")
  /\ Lock("connections", Main)
  /\ CloseSockets(connections \cap {main.conn})
  /\ connections' = connections \ {main.conn}
  /\ Goto("erased")
  /\ UNCHANGED <<stopper, signal, running, fds, pool, worker, leaked, outcome>>

\* mutant: a stopped pool still accepts
AcceptsAlways == TRUE
Accepts == ~pool.stop

\* ThreadPool::submit: its exception is nobody's before main
Submit ==
  /\ At("submit")
  /\ mutex["queue"] = NoThread
  /\ IF Accepts
     THEN mutex' = [mutex EXCEPT !["queue"] = Main] /\ Goto("emplace")
     ELSE Throw /\ UNCHANGED mutex
  /\ UNCHANGED <<stopper, signal, running, fds, pool, worker, netVars, outcome>>

Emplace ==
  /\ At("emplace")
  /\ pool' = [pool EXCEPT !.tasks = Append(@, main.conn)]
  /\ Unlock("queue")
  /\ GotoWith("notify", NoClient)
  /\ UNCHANGED <<stopper, signal, running, fds, worker, netVars, outcome>>

Waiting == {w \in Workers : worker[w].pc = "waiting"}

NotifyOne ==
  /\ At("notify")
  /\ \/ \E w \in Waiting : worker' = [worker EXCEPT ![w].pc = "idle"]
     \/ Waiting = {} /\ UNCHANGED worker
  /\ Goto("batch")
  /\ UNCHANGED <<stopper, signal, running, fds, mutex, pool, netVars, outcome>>

-----------------------------------------------------------------------------
(* The end of main: ~Server, the destruction of its members, EXIT_*          *)

Destruct ==
  /\ At("destruct")
  /\ stopper["main"] = "none"
  /\ stopper' = [stopper EXCEPT !["main"] = "load"]
  /\ UNCHANGED <<main, signal, running, fds, mutex, pool, worker, netVars, outcome>>

\* mutant: ~Connection leaves its descriptor open
ForgetEntries == UNCHANGED <<sock, interest, ready>>
DestroyEntries == CloseSockets(connections)

\* the members go in the reverse order of their declaration: connections_, whose
\* Connections close what is still open, before thread_pool_
DestroyConnections ==
  /\ At("unmap")
  /\ DestroyEntries
  /\ connections' = {}
  /\ Goto("unpool")
  /\ stopper' = [stopper EXCEPT !["main"] = "stop"]
  /\ UNCHANGED <<signal, running, fds, mutex, pool, worker, leaked, outcome>>

Exit ==
  /\ At("gone")
  /\ outcome' = IF main.failed \in {"no", "help"} THEN "success" ELSE "failure"
  /\ UNCHANGED <<main, stopper, signal, running, fds, mutex, pool, worker, netVars>>

-----------------------------------------------------------------------------
(* Server::stop, by actor a: the signal handler on the thread it interrupts, *)
(* or ~Server.  ThreadPool::shutdown is its last part, and ~ThreadPool's.     *)

Doing(a, pc) ==
  /\ stopper[a] = pc
  /\ outcome = "alive" /\ (a = "main" => MainRuns)
Proceed(a, pc) == stopper' = [stopper EXCEPT ![a] = pc]

\* stop() returns, or ~ThreadPool's shutdown()
Return(a) ==
  /\ Proceed(a, "none")
  /\ IF a = "handler"
     THEN signal' = [signal EXCEPT !.thread = NoThread] /\ UNCHANGED main
     ELSE Goto(IF main.pc = "destruct" THEN "unmap" ELSE "gone") /\ UNCHANGED signal

StopLoad(a) ==
  /\ Doing(a, "load")
  /\ IF running THEN Proceed(a, "store") /\ UNCHANGED <<main, signal>> ELSE Return(a)
  /\ UNCHANGED <<running, fds, mutex, pool, worker, netVars, outcome>>

StopStore(a) ==
  /\ Doing(a, "store")
  /\ running' = FALSE
  /\ Proceed(a, "log")
  /\ UNCHANGED <<main, signal, fds, mutex, pool, worker, netVars, outcome>>

\* "Initiating graceful shutdown..."
StopLog(a) ==
  /\ Doing(a, "log")
  /\ mutex["log"] = NoThread
  /\ Proceed(a, "close all")
  /\ UNCHANGED <<main, signal, running, fds, mutex, pool, worker, netVars, outcome>>

StopCloseAll(a) ==
  /\ Doing(a, "close all")
  /\ mutex["connections"] = NoThread
  /\ CloseSockets(connections)
  /\ connections' = {}
  /\ Proceed(a, "close epoll")
  /\ UNCHANGED <<main, signal, running, fds, mutex, pool, worker, leaked, outcome>>

StopCloseEpoll(a) ==
  /\ Doing(a, "close epoll")
  /\ fds' = fds \ {"epoll"}
  /\ interest' = {} /\ ready' = {}
  /\ Proceed(a, "close listener")
  /\ UNCHANGED <<main, signal, running, mutex, pool, worker, sock, connections, leaked, outcome>>

\* mutant: the pool is left to its destructor
LeavePool == "end"
ShutPoolDown == "stop"

\* the kernel resets what is still in the backlog
StopCloseListener(a) ==
  /\ Doing(a, "close listener")
  /\ fds' = fds \ {"listener"}
  /\ sock' = [c \in Clients |-> IF sock[c] = "backlog" THEN "closed" ELSE sock[c]]
  /\ Proceed(a, ShutPoolDown)
  /\ UNCHANGED <<main, signal, running, mutex, pool, worker, interest, ready, connections,
                 leaked, outcome>>

PoolStop(a) ==
  /\ Doing(a, "stop")
  /\ pool' = [pool EXCEPT !.stop = TRUE]
  /\ Proceed(a, "notify all")
  /\ UNCHANGED <<main, signal, running, fds, mutex, worker, netVars, outcome>>

PoolNotifyAll(a) ==
  /\ Doing(a, "notify all")
  /\ worker' = [w \in Workers |-> IF w \in Waiting THEN [worker[w] EXCEPT !.pc = "idle"]
                                                  ELSE worker[w]]
  /\ pool' = [pool EXCEPT !.missed = @ \/ \E w \in Workers : worker[w].pc = "sleeping"]
  /\ Proceed(a, "join")
  /\ UNCHANGED <<main, signal, running, fds, mutex, netVars, outcome>>

PoolJoin(a) ==
  /\ Doing(a, "join")
  /\ \A w \in Workers : worker[w].pc = "exited"
  /\ pool' = [pool EXCEPT !.joined = TRUE]
  /\ Proceed(a, "end")
  /\ UNCHANGED <<main, signal, running, fds, mutex, worker, netVars, outcome>>

\* a worker that comes to join itself: std::system_error in a signal handler
JoinItself ==
  /\ Doing("handler", "join")
  /\ signal.thread \in Workers
  /\ outcome' = "aborted"
  /\ UNCHANGED <<main, stopper, signal, running, fds, mutex, pool, worker, netVars>>

\* "Server stopped."
StopEnd(a) ==
  /\ Doing(a, "end")
  /\ mutex["log"] = NoThread
  /\ Return(a)
  /\ UNCHANGED <<running, fds, mutex, pool, worker, netVars, outcome>>

-----------------------------------------------------------------------------
(* A worker: worker_loop and the task of handle_connection_event *)

GotoW(w, pc) == worker' = [worker EXCEPT ![w].pc = pc]

\* mutant: only a task ends the wait
TaskOnly == pool.tasks # <<>>
WaitIsOver == pool.stop \/ pool.tasks # <<>>

AwaitTask(w) ==
  /\ WorkerRuns(w) /\ worker[w].pc = "idle"
  /\ Lock("queue", w)
  /\ GotoW(w, IF WaitIsOver THEN "taking" ELSE "sleeping")
  /\ UNCHANGED <<main, stopper, signal, running, fds, pool, netVars, outcome>>

Sleep(w) ==
  /\ WorkerRuns(w) /\ worker[w].pc = "sleeping"
  /\ Unlock("queue")
  /\ GotoW(w, "waiting")
  /\ UNCHANGED <<main, stopper, signal, running, fds, pool, netVars, outcome>>

TakeTask(w) ==
  /\ WorkerRuns(w) /\ worker[w].pc = "taking"
  /\ Unlock("queue")
  /\ IF pool.tasks = <<>>
     THEN GotoW(w, "exited") /\ UNCHANGED pool
     ELSE /\ worker' = [worker EXCEPT ![w] = [pc |-> "log", conn |-> Head(pool.tasks)]]
          /\ pool' = [pool EXCEPT !.tasks = Tail(@)]
  /\ UNCHANGED <<main, stopper, signal, running, fds, netVars, outcome>>

\* the access log
LogAccess(w) ==
  /\ WorkerRuns(w) /\ worker[w].pc = "log"
  /\ Lock("log", w)
  /\ GotoW(w, "logging")
  /\ UNCHANGED <<main, stopper, signal, running, fds, pool, netVars, outcome>>

Logged(w) ==
  /\ WorkerRuns(w) /\ worker[w].pc = "logging"
  /\ Unlock("log")
  /\ GotoW(w, "serve")
  /\ UNCHANGED <<main, stopper, signal, running, fds, pool, netVars, outcome>>

\* handle_read, handle_write: the connection is kept or closed, and then removed
Serve(w) ==
  /\ WorkerRuns(w) /\ worker[w].pc = "serve"
  /\ \/ sock[worker[w].conn] # "closed" /\ GotoW(w, "idle") /\ UNCHANGED <<sock, interest, ready>>
     \/ CloseSockets({worker[w].conn}) /\ GotoW(w, "erase")
  /\ UNCHANGED <<main, stopper, signal, running, fds, mutex, pool, connections, leaked, outcome>>

RemoveConnection(w) ==
  /\ WorkerRuns(w) /\ worker[w].pc = "erase"
  /\ Lock("connections", w)
  /\ connections' = connections \ {worker[w].conn}
  /\ GotoW(w, "erased")
  /\ UNCHANGED <<main, stopper, signal, running, fds, pool, sock, interest, ready, leaked, outcome>>

Removed(w) ==
  /\ WorkerRuns(w) /\ worker[w].pc = "erased"
  /\ Unlock("connections")
  /\ GotoW(w, "idle")
  /\ UNCHANGED <<main, stopper, signal, running, fds, pool, netVars, outcome>>

-----------------------------------------------------------------------------
(* Clients and the kernel: external *)

Connect(c) ==
  /\ sock[c] = "new" /\ "listener" \in fds
  /\ sock' = [sock EXCEPT ![c] = "backlog"]
  /\ UNCHANGED <<main, stopper, signal, running, fds, mutex, pool, worker, interest, ready,
                 connections, leaked, outcome>>

HangUp(c) ==
  /\ sock[c] = "open"
  /\ sock' = [sock EXCEPT ![c] = "hung up"]
  /\ ready' = ready \cup ({c} \cap interest)
  /\ UNCHANGED <<main, stopper, signal, running, fds, mutex, pool, worker, interest,
                 connections, leaked, outcome>>

HandlerInstalled ==
  /\ main.pc \notin {"configure", "construct", "install"}
  /\ main.failed \notin {"configure", "construct", "help"}

\* SIGINT or SIGTERM, one at a time; the thread stops where it is
Interrupt(t) ==
  /\ outcome = "alive" /\ HandlerInstalled
  /\ signal.thread = NoThread /\ signal.count < MaxSignals
  /\ t \in Workers => worker[t].pc # "exited"
  /\ signal' = [thread |-> t, count |-> signal.count + 1,
                lost |-> main.pc \in {"setup", "set running"}]
  /\ stopper' = [stopper EXCEPT !["handler"] = "load"]
  /\ UNCHANGED <<main, running, fds, mutex, pool, worker, netVars, outcome>>

-----------------------------------------------------------------------------
MainStep ==
  \/ Configure \/ Construct \/ InstallSignalHandlers \/ Setup \/ SetRunning \/ Announce
  \/ Announced \/ TestRunning \/ Poll \/ NextEvent \/ Sweep \/ Accept \/ CheckLimit
  \/ CreateConnection \/ Insert \/ Register \/ Find \/ UnlockConnections \/ Event \/ Erase
  \/ Submit \/ Emplace \/ NotifyOne \/ Destruct \/ DestroyConnections \/ Exit

StopStep(a) ==
  \/ StopLoad(a) \/ StopStore(a) \/ StopLog(a) \/ StopCloseAll(a) \/ StopCloseEpoll(a)
  \/ StopCloseListener(a) \/ PoolStop(a) \/ PoolNotifyAll(a) \/ PoolJoin(a) \/ StopEnd(a)

WorkerStep(w) ==
  \/ AwaitTask(w) \/ Sleep(w) \/ TakeTask(w) \/ LogAccess(w) \/ Logged(w) \/ Serve(w)
  \/ RemoveConnection(w) \/ Removed(w)

Next ==
  \/ MainStep
  \/ \E a \in Actors : StopStep(a)
  \/ JoinItself
  \/ \E w \in Workers : WorkerStep(w)
  \/ \E c \in Clients : Connect(c) \/ HangUp(c)
  \/ \E t \in Victims : Interrupt(t)

Spec == Init /\ [][Next]_vars

\* Every thread is scheduled unless the handler runs on it, and the handler is.
Fairness ==
  /\ WF_vars(MainStep)
  /\ \A a \in Actors : WF_vars(StopStep(a))
  /\ WF_vars(JoinItself)
  /\ \A w \in Workers : WF_vars(WorkerStep(w))

FairSpec == Spec /\ Fairness

-----------------------------------------------------------------------------
(* Properties *)

MainPC == {"configure", "construct", "install", "setup", "set running", "announce",
           "announcing", "loop", "poll", "batch", "accept", "check limit", "create", "insert",
           "register", "find", "event", "erase", "submit", "emplace", "notify", "destruct",
           "unmap", "unpool", "gone"} \cup DOMAIN AfterUnlock
StopPC == {"none", "load", "store", "log", "close all", "close epoll", "close listener",
           "stop", "notify all", "join", "end"}
WorkerPC == {"unborn", "idle", "sleeping", "waiting", "taking", "log", "logging", "serve",
             "erase", "erased", "exited"}

Inside(m) ==
  {t \in Workers \cup {Main} :
     IF t = Main
     THEN CASE m = "connections" -> main.pc \in DOMAIN AfterUnlock
            [] m = "queue" -> main.pc = "emplace"
            [] OTHER -> main.pc = "announcing"
     ELSE CASE m = "connections" -> worker[t].pc = "erased"
            [] m = "queue" -> worker[t].pc \in {"sleeping", "taking"}
            [] OTHER -> worker[t].pc = "logging"}

\* Every variable has its type, and a lock is held by the one thread inside its
\* critical section.
TypeOK ==
  /\ main.pc \in MainPC /\ main.conn \in Clients \cup {NoClient}
  /\ main.batch \subseteq Clients \cup {Listener}
  /\ main.failed \in {"no", "help", "configure", "construct", "setup", "create", "submit"}
  /\ stopper \in [Actors -> StopPC]
  /\ signal.thread \in Victims \cup {NoThread} /\ signal.count \in 0..MaxSignals
  /\ running \in BOOLEAN /\ fds \subseteq {"listener", "epoll"}
  /\ \A m \in Locks : Inside(m) = {mutex[m]} \ {NoThread}
  /\ pool.tasks \in Seq(Clients)
  /\ \A w \in Workers : worker[w].pc \in WorkerPC
  /\ sock \in [Clients -> {"new", "backlog", "open", "hung up", "closed"}]
  /\ ready \subseteq interest /\ connections \subseteq Clients
  /\ outcome \in {"alive", "success", "failure", "aborted"}

Over == outcome # "alive"
Handling == signal.thread # NoThread
HoldsLock == \E m \in Locks : mutex[m] = signal.thread

\* A signal ends the process, one way or the other, unless it came before
\* running_ was set, interrupted a thread that holds a lock, or notify_all found a
\* worker about to block.
StopCompletes == Handling ~> (Over \/ signal.lost \/ (Handling /\ HoldsLock) \/ pool.missed)

\* The handler always returns.
HandlerReturns == Handling ~> ~Handling

\* The members that the tasks use, destroyed before thread_pool_, are not
\* destroyed while a task runs or waits: stop() has joined the workers by then,
\* unless it is running on one of them.
Working == {w \in Workers : worker[w].pc \in {"log", "logging", "serve", "erase", "erased"}}
MembersOutliveWorkers ==
  main.pc \in {"unpool", "gone"} =>
    (Working = {} /\ pool.tasks = <<>>) \/ signal.thread \in Workers

\* When main ends no accepted connection is open, those that were inserted after
\* stop() had cleared connections_ included, except one whose Connection could not
\* be made; and no other descriptor, except after a failed set-up.
NothingOpen ==
  outcome \in {"success", "failure"} =>
    /\ {c \in Clients : sock[c] \in {"open", "hung up"}} \subseteq leaked
    /\ fds # {} => main.failed = "setup"

\* Once a stop() has joined the workers nothing is served any more: no task is
\* queued, whatever the interrupted event loop still does with its batch.
QuietAfterStop ==
  pool.joined => pool.tasks = <<>> /\ \A w \in Workers : worker[w].pc = "exited"
=============================================================================
