------------------------------- MODULE Server -------------------------------
(***************************************************************************)
(* hphttp::Server: the event loop that accepts connections, keeps them in   *)
(* connections_ under their descriptor, hands their events to the pool and  *)
(* removes them, together with the workers' half of that work.  What        *)
(* happens to the bytes of one connection is the subject of Connection.tla; *)
(* here a task answers the request that is waiting, and the question is     *)
(* which connection a descriptor number stands for, and when.               *)
(*                                                                          *)
(* A client is also the name of its socket and of its Connection object.    *)
(* A step that holds connections_mutex_ is one action; Connection::close    *)
(* called by a task outside that mutex is three (CloseStart, CloseFd,       *)
(* CloseEnd).                                                               *)
(***************************************************************************)
EXTENDS Integers, Sequences, FiniteSets

CONSTANTS
  Clients,         \* connections that will be attempted
  Workers,         \* threads of the pool
  Fds,             \* descriptor numbers the process may have
  MaxConnections,  \* config_.max_connections
  MayTimeout,      \* time may pass: keepalive_timeout_ms
  MayFail,         \* accept4 may fail although a descriptor number is free
  NoClient, Listener

ASSUME ServerAssumption ==
  /\ IsFiniteSet(Clients) /\ NoClient \notin Clients /\ Listener \notin Fds
  /\ Fds \subseteq Nat \ {0} /\ IsFiniteSet(Fds)
  /\ MaxConnections \in Nat
  /\ MayTimeout \in BOOLEAN /\ MayFail \in BOOLEAN

VARIABLES
  peer,         \* the clients' side: what each has sent and seen
  backlog,      \* established connections not yet accepted, oldest first
  listenArmed,  \* the listening socket is on epoll's ready list
  owner,        \* owner[fd]: the socket the kernel has open under fd
  interest,     \* sockets registered in epoll_fd_
  ready,        \* registered sockets on epoll's ready list
  object,       \* object[c]: the Connection: its fd_ (0 for -1) and whether it is CLOSED
  connections,  \* connections_
  active,       \* active_connections_
  loop,         \* the event loop: where it is and the connection it is accepting;
                \* `cut': its last accept loop left a backlog behind (history)
  batch,        \* events of the current epoll_wait not yet handled; `of' is the
                \* socket that was meant, which the program does not know
  expired,      \* timed_out_fds of the sweep under way; `of' is the connection that
                \* was found there, which the program does not keep
  tasks,        \* the pool's queue
  work          \* work[w]: what worker w is doing

kernelVars == <<peer, backlog, listenArmed, owner, interest, ready>>
vars == <<kernelVars, object, connections, active, loop, batch, expired, tasks, work>>

IdleLoop == [pc |-> "wait", client |-> NoClient, fd |-> 0, cut |-> FALSE]
IdleWorker == [pc |-> "idle", client |-> NoClient, fd |-> 0, closing |-> 0]

Mapped == {fd \in Fds : connections[fd] # NoClient}
Free == {fd \in Fds : owner[fd] = NoClient}

Init ==
  /\ peer = [c \in Clients |-> "new"]
  /\ backlog = <<>> /\ listenArmed = FALSE
  /\ owner = [fd \in Fds |-> NoClient]
  /\ interest = {} /\ ready = {}
  /\ object = [c \in Clients |-> [fd |-> 0, dead |-> FALSE]]
  /\ connections = [fd \in Fds |-> NoClient]
  /\ active = 0
  /\ loop = IdleLoop /\ batch = {} /\ expired = {}
  /\ tasks = <<>> /\ work = [w \in Workers |-> IdleWorker]

-----------------------------------------------------------------------------
(* Clients: external.  Each connects, sends a request and waits, and once it *)
(* is answered it may ask again on the same connection, or leave.            *)

Connect(c) ==
  /\ peer[c] = "new"
  /\ peer' = [peer EXCEPT ![c] = "waiting"]
  /\ backlog' = Append(backlog, c)
  /\ listenArmed' = TRUE
  /\ UNCHANGED <<owner, interest, ready, object, connections, active, loop, batch, expired,
                 tasks, work>>

Ask(c) ==
  /\ peer[c] = "answered"
  /\ peer' = [peer EXCEPT ![c] = "again"]
  /\ ready' = ready \cup ({c} \cap interest)
  /\ UNCHANGED <<backlog, listenArmed, owner, interest, object, connections, active,
                 loop, batch, expired, tasks, work>>

HangUp(c) ==
  /\ peer[c] = "answered"
  /\ peer' = [peer EXCEPT ![c] = "gone"]
  /\ ready' = ready \cup ({c} \cap interest)
  /\ UNCHANGED <<backlog, listenArmed, owner, interest, object, connections, active,
                 loop, batch, expired, tasks, work>>

-----------------------------------------------------------------------------
(* The kernel's half of ::close.  A definition whose comment begins with    *)
(* `mutant' is not part of the model: it is the definition after it as a    *)
(* plausible bug would have it.                                              *)

\* a client waits for the answer to its first request, or to another
Waits(c) == peer[c] \in {"waiting", "again"}

Reset(c) == IF c \in Clients /\ Waits(c) THEN [peer EXCEPT ![c] = "reset"] ELSE peer

\* closing fd, whichever socket has it: epoll forgets the socket, and a client
\* that was waiting for an answer sees its connection reset
KernelClose(fd) ==
  IF fd \in Fds
  THEN /\ owner' = [owner EXCEPT ![fd] = NoClient]
       /\ interest' = interest \ {owner[fd]}
       /\ ready' = ready \ {owner[fd]}
       /\ peer' = Reset(owner[fd])
  ELSE UNCHANGED <<owner, interest, ready, peer>>

\* mutant: fd_ keeps the number that was closed
KeepsNumber(c) == object' = [object EXCEPT ![c].dead = TRUE]
CloseObject(c) == object' = [object EXCEPT ![c] = [fd |-> 0, dead |-> TRUE]]

\* mutant: active_connections_ is decremented whether or not the entry was found
DecrementAlways(fd) == active - 1
Decremented(fd) == IF connections[fd] = NoClient THEN active ELSE active - 1

\* mutant: the entry is erased without closing its connection
EraseEntryOnly(fd) == UNCHANGED <<owner, interest, ready, peer, object>>
CloseEntry(fd) ==
  IF connections[fd] = NoClient
  THEN UNCHANGED <<owner, interest, ready, peer, object>>
  ELSE /\ KernelClose(object[connections[fd]].fd)
       /\ CloseObject(connections[fd])

\* remove_connection from its lock on: find, close, erase, decrement
EraseConnection(fd) ==
  /\ CloseEntry(fd)
  /\ connections' = [connections EXCEPT ![fd] = NoClient]
  /\ active' = Decremented(fd)

-----------------------------------------------------------------------------
(* event_loop and accept_connection, one thread *)

\* epoll_wait: every descriptor on the ready list, with RDHUP or without
PollEvents ==
  /\ loop.pc = "wait"
  /\ ready # {} \/ listenArmed
  /\ batch' = {[fd |-> fd, of |-> owner[fd], hup |-> peer[owner[fd]] = "gone"] :
                 fd \in {f \in Fds : owner[f] \in ready}}
               \cup (IF listenArmed THEN {[fd |-> Listener, of |-> NoClient, hup |-> FALSE]} ELSE {})
  /\ ready' = {} /\ listenArmed' = FALSE
  /\ loop' = [loop EXCEPT !.pc = "dispatch"]
  /\ UNCHANGED <<peer, backlog, owner, interest, object, connections, active, expired, tasks, work>>

EndBatch ==
  /\ loop.pc = "dispatch" /\ batch = {}
  /\ loop' = [loop EXCEPT !.pc = "wait"]
  /\ UNCHANGED <<kernelVars, object, connections, active, batch, expired, tasks, work>>

\* mutant: the mask catches every event
EveryEvent(e) == TRUE
EndsConnection(e) == e.hup

\* handle_connection_event; epoll_ctl(DEL) and the erase are one step here,
\* for nobody but this thread can give the number out again in between
HandleEvent(e) ==
  /\ loop.pc = "dispatch" /\ e \in batch /\ e.fd # Listener
  /\ batch' = batch \ {e}
  /\ IF EndsConnection(e)
     THEN EraseConnection(e.fd) /\ UNCHANGED tasks
     ELSE /\ tasks' = IF connections[e.fd] = NoClient THEN tasks
                      ELSE Append(tasks, [client |-> connections[e.fd], fd |-> e.fd])
          /\ UNCHANGED <<owner, interest, ready, peer, object, connections, active>>
  /\ UNCHANGED <<backlog, listenArmed, loop, expired, work>>

HandleListener ==
  /\ loop.pc = "dispatch"
  /\ \E e \in batch : e.fd = Listener /\ batch' = batch \ {e}
  /\ loop' = [loop EXCEPT !.pc = "accept"]
  /\ UNCHANGED <<kernelVars, object, connections, active, expired, tasks, work>>

\* mutant: off by one
MaxReachedLate == Cardinality(Mapped) > MaxConnections
MaxReached == Cardinality(Mapped) >= MaxConnections

\* EAGAIN, EMFILE, or any other error: the loop of accept_connection ends
AcceptNothing ==
  /\ loop.pc = "accept"
  /\ backlog = <<>> \/ Free = {} \/ MayFail
  /\ loop' = [loop EXCEPT !.pc = "dispatch", !.cut = backlog # <<>>]
  /\ UNCHANGED <<kernelVars, object, connections, active, batch, expired, tasks, work>>

\* the limit is reached: close this one and leave the loop
AcceptAndShed ==
  /\ loop.pc = "accept"
  /\ backlog # <<>> /\ Free # {} /\ MaxReached
  /\ backlog' = Tail(backlog)
  /\ peer' = Reset(Head(backlog))
  /\ loop' = [loop EXCEPT !.pc = "dispatch", !.cut = Len(backlog) > 1]
  /\ UNCHANGED <<listenArmed, owner, interest, ready, object, connections, active,
                 batch, expired, tasks, work>>

\* accept4 gives out the lowest free number
Accept ==
  /\ loop.pc = "accept"
  /\ backlog # <<>> /\ ~MaxReached
  /\ \E fd \in Free :
       /\ \A g \in Free : fd <= g
       /\ owner' = [owner EXCEPT ![fd] = Head(backlog)]
       /\ object' = [object EXCEPT ![Head(backlog)].fd = fd]
       /\ loop' = [loop EXCEPT !.pc = "insert", !.client = Head(backlog), !.fd = fd]
  /\ backlog' = Tail(backlog)
  /\ UNCHANGED <<peer, listenArmed, interest, ready, connections, active, batch, expired,
                 tasks, work>>

\* connections_[client_fd] = conn, whatever the entry held
Insert ==
  /\ loop.pc = "insert"
  /\ connections' = [connections EXCEPT ![loop.fd] = loop.client]
  /\ loop' = [loop EXCEPT !.pc = "count"]
  /\ UNCHANGED <<kernelVars, object, active, batch, expired, tasks, work>>

Count ==
  /\ loop.pc = "count"
  /\ active' = active + 1
  /\ loop' = [loop EXCEPT !.pc = "register"]
  /\ UNCHANGED <<kernelVars, object, connections, batch, expired, tasks, work>>

\* mutant: one connection per edge of the listening socket
AcceptOnce == "dispatch"
AcceptMore == "accept"

\* epoll_ctl(ADD): the socket is writable, so it is ready at once
Register ==
  /\ loop.pc = "register"
  /\ interest' = interest \cup ({owner[loop.fd]} \ {NoClient})
  /\ ready' = ready \cup ({owner[loop.fd]} \ {NoClient})
  /\ loop' = [loop EXCEPT !.pc = AcceptMore, !.client = NoClient, !.fd = 0]
  /\ UNCHANGED <<peer, backlog, listenArmed, owner, object, connections, active, batch,
                 expired, tasks, work>>

\* cleanup_timed_out_connections, first half: is_timed_out looks at the age of
\* last_activity_ and at nothing else, and only the start of a read or a write renews
\* it, so that any connection may be found: one that is idle, but also one whose
\* request is queued or in a handler, or whose client is about to ask again
CollectTimedOut ==
  /\ MayTimeout /\ loop.pc = "wait"
  /\ \E found \in SUBSET Mapped :
       /\ found # {}
       /\ expired' = {[fd |-> fd, of |-> connections[fd]] : fd \in found}
  /\ loop' = [loop EXCEPT !.pc = "sweep"]
  /\ UNCHANGED <<kernelVars, object, connections, active, batch, tasks, work>>

\* ... second half, for one of the descriptors, which is not looked at again
RemoveTimedOut(t) ==
  /\ loop.pc = "sweep" /\ t \in expired
  /\ EraseConnection(t.fd)
  /\ expired' = expired \ {t}
  /\ loop' = [loop EXCEPT !.pc = IF expired = {t} THEN "wait" ELSE "sweep"]
  /\ UNCHANGED <<backlog, listenArmed, batch, tasks, work>>

-----------------------------------------------------------------------------
(* A worker: the task of one event *)

StartTask(w) ==
  /\ work[w].pc = "idle" /\ tasks # <<>>
  /\ work' = [work EXCEPT ![w] = [pc |-> "serve", client |-> Head(tasks).client,
                                  fd |-> Head(tasks).fd, closing |-> 0]]
  /\ tasks' = Tail(tasks)
  /\ UNCHANGED <<kernelVars, object, connections, active, loop, batch, expired>>

\* handle_read and handle_write on whatever socket fd_ stands for now: answer
\* the request waiting there and keep the connection or not; find nothing to
\* read; or find the end of the stream or no socket at all, and close
Serve(w) ==
  /\ work[w].pc = "serve"
  /\ LET o == object[work[w].client]
         s == IF o.fd \in Fds THEN owner[o.fd] ELSE NoClient
         input == IF o.dead THEN "nothing" ELSE IF s = NoClient THEN "error" ELSE peer[s]
     IN \/ /\ input \in {"waiting", "again"}
           /\ peer' = [peer EXCEPT ![s] = "answered"]
           /\ \E pc \in {"check", "close"} : work' = [work EXCEPT ![w].pc = pc]
        \/ /\ input \in {"nothing", "answered"}
           /\ work' = [work EXCEPT ![w].pc = "check"] /\ UNCHANGED peer
        \/ /\ input \in {"error", "gone"}
           /\ work' = [work EXCEPT ![w].pc = "close"] /\ UNCHANGED peer
  /\ UNCHANGED <<backlog, listenArmed, owner, interest, ready, object, connections,
                 active, loop, batch, expired, tasks>>

\* Connection::close outside the mutex: state_ and fd_ are read ...
CloseStart(w) ==
  /\ work[w].pc = "close"
  /\ work' = IF object[work[w].client].dead
             THEN [work EXCEPT ![w].pc = "check"]
             ELSE [work EXCEPT ![w].pc = "closefd", ![w].closing = object[work[w].client].fd]
  /\ UNCHANGED <<kernelVars, object, connections, active, loop, batch, expired, tasks>>

\* ... ::close(fd_) frees the number ...
CloseFd(w) ==
  /\ work[w].pc = "closefd"
  /\ KernelClose(work[w].closing)
  /\ work' = [work EXCEPT ![w].pc = "closed", ![w].closing = 0]
  /\ UNCHANGED <<backlog, listenArmed, object, connections, active, loop, batch, expired, tasks>>

\* ... and fd_ and state_ are written
CloseEnd(w) ==
  /\ work[w].pc = "closed"
  /\ CloseObject(work[w].client)
  /\ work' = [work EXCEPT ![w].pc = "check"]
  /\ UNCHANGED <<kernelVars, connections, active, loop, batch, expired, tasks>>

IsAlive(o) == ~o.dead /\ o.fd # 0

CheckAlive(w) ==
  /\ work[w].pc = "check"
  /\ work' = IF IsAlive(object[work[w].client]) THEN [work EXCEPT ![w] = IdleWorker]
             ELSE [work EXCEPT ![w].pc = "delete"]
  /\ UNCHANGED <<kernelVars, object, connections, active, loop, batch, expired, tasks>>

\* remove_connection(fd): epoll_ctl(DEL) before the lock ...
DeleteInterest(w) ==
  /\ work[w].pc = "delete"
  /\ interest' = interest \ {owner[work[w].fd]}
  /\ ready' = ready \ {owner[work[w].fd]}
  /\ work' = [work EXCEPT ![w].pc = "erase"]
  /\ UNCHANGED <<peer, backlog, listenArmed, owner, object, connections, active, loop,
                 batch, expired, tasks>>

\* ... then the entry of that number, whoever it belongs to by now
Erase(w) ==
  /\ work[w].pc = "erase"
  /\ EraseConnection(work[w].fd)
  /\ work' = [work EXCEPT ![w] = IdleWorker]
  /\ UNCHANGED <<backlog, listenArmed, loop, batch, expired, tasks>>

-----------------------------------------------------------------------------
LoopStep ==
  \/ PollEvents \/ EndBatch \/ (\E e \in batch : HandleEvent(e)) \/ HandleListener
  \/ AcceptNothing \/ AcceptAndShed \/ Accept \/ Insert \/ Count \/ Register
  \/ \E t \in expired : RemoveTimedOut(t)

WorkerStep(w) ==
  \/ StartTask(w) \/ Serve(w) \/ CloseStart(w) \/ CloseFd(w) \/ CloseEnd(w)
  \/ CheckAlive(w) \/ DeleteInterest(w) \/ Erase(w)

Next ==
  \/ \E c \in Clients : Connect(c) \/ Ask(c) \/ HangUp(c)
  \/ LoopStep
  \/ CollectTimedOut
  \/ \E w \in Workers : WorkerStep(w)

Spec == Init /\ [][Next]_vars

\* Every thread is scheduled.  Clients and time do as they like.
Fairness == WF_vars(LoopStep) /\ \A w \in Workers : WF_vars(WorkerStep(w))

FairSpec == Spec /\ Fairness

-----------------------------------------------------------------------------
(* Properties *)

\* Every variable has its type, and a CLOSED connection holds no number;
\* active_connections_ may be transiently negative (an unsigned counter just
\* below zero), see CounterCovers.
TypeOK ==
  /\ peer \in [Clients -> {"new", "waiting", "answered", "again", "gone", "reset"}]
  /\ backlog \in Seq(Clients) /\ listenArmed \in BOOLEAN
  /\ owner \in [Fds -> Clients \cup {NoClient}]
  /\ interest \subseteq Clients /\ ready \subseteq interest
  /\ object \in [Clients -> [fd : Fds \cup {0}, dead : BOOLEAN]]
  /\ \A c \in Clients : object[c].dead => object[c].fd = 0
  /\ connections \in [Fds -> Clients \cup {NoClient}]
  /\ active \in Int
  /\ loop \in [pc : {"wait", "dispatch", "accept", "insert", "count", "register", "sweep"},
               client : Clients \cup {NoClient}, fd : Fds \cup {0}, cut : BOOLEAN]
  /\ batch \subseteq [fd : Fds \cup {Listener}, of : Clients \cup {NoClient}, hup : BOOLEAN]
  /\ expired \subseteq [fd : Fds, of : Clients]
  /\ tasks \in Seq([client : Clients, fd : Fds])
  /\ work \in [Workers -> [pc : {"idle", "serve", "close", "closefd", "closed", "check",
                                 "delete", "erase"},
                           client : Clients \cup {NoClient}, fd : Fds \cup {0},
                           closing : Fds \cup {0}]]

\* connections_ never holds more than max_connections entries, although the
\* size is checked in one critical section and the entry added in another.
ConnectionLimit == Cardinality(Mapped) <= MaxConnections

\* active_connections_, counting the increment still to come, never reports
\* fewer connections than connections_ holds, however many threads remove the
\* same connection.
CounterCovers == active + (IF loop.pc = "count" THEN 1 ELSE 0) >= Cardinality(Mapped)

\* No accepted socket is open without an entry in connections_: whatever the
\* event loop and the workers close and erase, nothing leaks.
OpenIsMapped ==
  \A fd \in Fds :
    owner[fd] # NoClient =>
      connections[fd] = owner[fd] \/ (loop.pc = "insert" /\ loop.fd = fd)

\* A client with a request that was accepted is not closed before it is
\* answered.
WaitingIsNotClosed ==
  [][\A c \in Clients, fd \in Fds :
       (owner[fd] = c /\ peer[c] = "waiting") => peer'[c] # "reset"]_vars

\* A client that waits, for its first answer or for another, is closed for one of
\* three causes only.  Its descriptor number had another connection before, and a task
\* of that connection, or an event reported for it, still holds the number; or the
\* sweep that removes it found its own connection too old, not another that had the
\* number then; or it asked again while a task of its own connection, which had
\* answered it before, was closing that.
HoldsStale(fd, c) ==
  \/ \E w \in Workers : /\ work[w].client # c
                        /\ \/ work[w].pc = "closefd" /\ work[w].closing = fd
                           \/ work[w].pc = "erase" /\ work[w].fd = fd
  \/ \E e \in batch : e.fd = fd /\ e.of # c /\ e.hup
FoundTooOld(fd, c) == loop.pc = "sweep" /\ [fd |-> fd, of |-> c] \in expired
LastAnswered(fd, c) ==
  /\ peer[c] = "again"
  /\ \E w \in Workers : work[w].client = c /\ work[w].pc = "closefd" /\ work[w].closing = fd
ClosedForCause ==
  [][\A c \in Clients, fd \in Fds :
       (owner[fd] = c /\ Waits(c) /\ peer'[c] = "reset") =>
         HoldsStale(fd, c) \/ FoundTooOld(fd, c) \/ LastAnswered(fd, c)]_vars

\* Every connection in the backlog is taken from it: accepted, or shed.
InBacklog(c) == \E i \in 1..Len(backlog) : backlog[i] = c
AcceptedOrShed == \A c \in Clients : InBacklog(c) ~> ~InBacklog(c)

\* ... and is at once when the event loop waits again, unless its last accept
\* loop ended early, at the limit or at an error of accept4: the edges of the
\* listening socket are not lost otherwise.
BacklogServed ==
  loop.pc = "wait" => backlog = <<>> \/ listenArmed \/ loop.cut
=============================================================================
