---------------------------- MODULE ServerProofs ----------------------------
(***************************************************************************)
(* Proofs about Server for any number of clients, workers and descriptors.  *)
(***************************************************************************)
EXTENDS Server, FiniteSetTheorems, SequenceTheorems, TLAPS

-----------------------------------------------------------------------------
(* Sockets, objects and the map                                              *)

\* The Connection of c has been made: accept_connection has given it a number.
Accepted(c) == object[c].dead \/ object[c].fd # 0

\* The Connection of an open socket knows the socket's number.
OwnerKnown == \A fd \in Fds : owner[fd] # NoClient => object[owner[fd]].fd = fd

\* A connection that is still to be accepted has no number, and waits once.
NotYetAccepted ==
  /\ \A c \in Clients : peer[c] = "new" => ~Accepted(c)
  /\ \A i \in 1..Len(backlog) : ~Accepted(backlog[i]) /\ peer[backlog[i]] # "new"
  /\ \A i, j \in 1..Len(backlog) : backlog[i] = backlog[j] => i = j

\* Whatever the map and the queue name has been accepted.
NamedAreAccepted ==
  /\ \A fd \in Fds : connections[fd] # NoClient => Accepted(connections[fd])
  /\ \A i \in 1..Len(tasks) : Accepted(tasks[i].client)

\* The event loop inside accept_connection: its connection has been accepted, and
\* until it is in the map nobody else can have been given its number.
LoopInv ==
  /\ loop.pc \in {"insert", "count", "register"} =>
       loop.client \in Clients /\ loop.fd \in Fds /\ Accepted(loop.client)
  /\ loop.pc = "insert" => owner[loop.fd] \in {loop.client, NoClient}

\* A worker inside Connection::close, between its three steps, closes the number
\* of its own connection if that is still open; then its socket is gone.
WorkerKnows(w) ==
  /\ work[w].pc # "idle" =>
       work[w].client \in Clients /\ work[w].fd \in Fds /\ Accepted(work[w].client)
  /\ work[w].pc = "closefd" =>
       \A fd \in Fds : owner[fd] = work[w].client => work[w].closing = fd
  /\ work[w].pc = "closed" => \A fd \in Fds : owner[fd] # work[w].client

WorkerInv == \A w \in Workers : WorkerKnows(w)

\* The inductive invariant.
SocketInv ==
  /\ TypeOK /\ OwnerKnown /\ NotYetAccepted /\ NamedAreAccepted /\ LoopInv /\ WorkerInv
  /\ OpenIsMapped

\* The two counts; until its connection is in the map, the event loop still has the
\* room that it saw when it tested the limit.
CountInv ==
  /\ ConnectionLimit /\ CounterCovers
  /\ loop.pc = "insert" => Cardinality(Mapped) < MaxConnections

\* The event loop is the only one that gives numbers out, and it is sweeping.
SweepKnows ==
  /\ expired # {} => loop.pc = "sweep"
  /\ \A t \in expired : connections[t.fd] \in {t.of, NoClient}

\* Who may hold which number: an entry is that of its own connection or of a closed
\* one, a worker closes its connection after the request was answered only and
\* removes it when it is closed, an event with RDHUP is of a client that left, and a
\* number that the sweep has found has not been given to another connection since.
HoldersInv ==
  /\ \A fd \in Fds : connections[fd] # NoClient => object[connections[fd]].fd \in {fd, 0}
  /\ loop.pc = "insert" => object[loop.client].fd \in {loop.fd, 0}
  /\ \A w \in Workers :
       /\ work[w].pc \in {"close", "closefd"} =>
            \A fd \in Fds : owner[fd] = work[w].client => peer[work[w].client] # "waiting"
       /\ work[w].pc \in {"delete", "erase"} => object[work[w].client].dead
  /\ \A e \in batch : e.hup => e.of \in Clients /\ peer[e.of] = "gone"
  /\ SweepKnows

\* An edge of the listening socket that was taken is pending until the accept loop
\* has found nothing more, or has given up.
EdgeInv ==
  /\ loop.pc \in {"wait", "sweep"} => batch = {}
  /\ loop.pc \in {"wait", "sweep", "dispatch"} /\ (\A e \in batch : e.fd # Listener) =>
       backlog = <<>> \/ listenArmed \/ loop.cut

-----------------------------------------------------------------------------
(* Steps that close                                                          *)

KernelTypes ==
  /\ peer' \in [Clients -> {"new", "waiting", "answered", "again", "gone", "reset"}]
  /\ owner' \in [Fds -> Clients \cup {NoClient}]
  /\ interest' \subseteq Clients /\ ready' \subseteq interest'

\* What every step but Accept does with the sockets and the Connections.
OnlyCloses ==
  /\ \A fd \in Fds : owner'[fd] \in {owner[fd], NoClient}
  /\ \A c \in Clients : peer'[c] = "new" => peer[c] = "new"
  /\ object' \in [Clients -> [fd : Fds \cup {0}, dead : BOOLEAN]]
  /\ \A c \in Clients :
       \/ object'[c] = object[c]
       \/ Accepted(c) /\ object'[c] = [fd |-> 0, dead |-> TRUE] /\ \A fd \in Fds : owner'[fd] # c

\* The kernel's half of a close gives back a number and does nothing else.
LEMMA KernelCloseFacts ==
  ASSUME TypeOK, NEW fd \in Fds \cup {0}, KernelClose(fd)
  PROVE  /\ KernelTypes
         /\ \A f \in Fds : owner'[f] = IF f = fd THEN NoClient ELSE owner[f]
         /\ \A c \in Clients : peer'[c] = "new" => peer[c] = "new"
<1> USE ServerAssumption DEF TypeOK
<1>1. CASE fd \in Fds
  <2>1. /\ peer' \in [Clients -> {"new", "waiting", "answered", "again", "gone", "reset"}]
        /\ \A c \in Clients : peer'[c] = "new" => peer[c] = "new"
    BY <1>1 DEF KernelClose, Reset, Waits
  <2>2. QED BY <1>1, <2>1 DEF KernelClose, KernelTypes
<1>2. CASE fd \notin Fds BY <1>2 DEF KernelClose, KernelTypes
<1>3. QED BY <1>1, <1>2

\* remove_connection closes the socket of the entry it finds, if that is the
\* entry's own, and in any case no socket of that connection stays open.
LEMMA CloseEntryFacts ==
  ASSUME TypeOK, OwnerKnown, NamedAreAccepted, NEW fd \in Fds, CloseEntry(fd)
  PROVE  /\ KernelTypes /\ OnlyCloses
         /\ connections[fd] # NoClient => \A f \in Fds : owner'[f] # connections[fd]
<1> DEFINE c == connections[fd]
<1>1. CASE c = NoClient
  BY <1>1 DEF CloseEntry, KernelTypes, OnlyCloses, TypeOK
<1>2. CASE c # NoClient
  <2>1. c \in Clients /\ Accepted(c) BY <1>2 DEF TypeOK, NamedAreAccepted
  <2>2. object[c].fd \in Fds \cup {0} BY <2>1 DEF TypeOK
  <2>3. KernelClose(object[c].fd) /\ CloseObject(c) BY <1>2 DEF CloseEntry
  <2>4. /\ KernelTypes
        /\ \A f \in Fds : owner'[f] = IF f = object[c].fd THEN NoClient ELSE owner[f]
        /\ \A d \in Clients : peer'[d] = "new" => peer[d] = "new"
    BY <2>2, <2>3, KernelCloseFacts
  <2>5. \A f \in Fds : owner'[f] # c
    BY <1>2, <2>4, ServerAssumption DEF OwnerKnown
  <2>6. /\ object' \in [Clients -> [fd : Fds \cup {0}, dead : BOOLEAN]]
        /\ \A d \in Clients : IF d = c THEN object'[d] = [fd |-> 0, dead |-> TRUE]
                              ELSE object'[d] = object[d]
    BY <2>1, <2>3 DEF CloseObject, TypeOK
  <2>7. OnlyCloses BY <2>1, <2>4, <2>5, <2>6 DEF OnlyCloses
  <2>8. QED BY <2>4, <2>5, <2>7
<1>3. QED BY <1>1, <1>2

\* ... and with the connection that the event loop is accepting, if it is.
SameAccepting ==
  /\ loop'.client = loop.client /\ loop'.fd = loop.fd
  /\ \A pc \in {"insert", "count", "register"} : loop'.pc = pc <=> loop.pc = pc

\* A connection that was accepted remains so, and one that was not does too.
LEMMA AcceptedStable ==
  ASSUME TypeOK, OnlyCloses, NEW c \in Clients
  PROVE  Accepted(c)' = Accepted(c)
BY ServerAssumption DEF Accepted, OnlyCloses

\* A step that only closes leaves OwnerKnown as it is.
LEMMA OwnerKnownStable ==
  ASSUME TypeOK, OwnerKnown, OnlyCloses
  PROVE  OwnerKnown'
<1> SUFFICES ASSUME NEW fd \in Fds, owner'[fd] # NoClient
             PROVE  object'[owner'[fd]].fd = fd
  BY DEF OwnerKnown
<1>1. owner'[fd] = owner[fd] /\ owner[fd] \in Clients BY DEF OnlyCloses, TypeOK
<1>2. object'[owner[fd]] = object[owner[fd]] BY <1>1 DEF OnlyCloses
<1>3. QED BY <1>1, <1>2 DEF OwnerKnown

\* ... and NotYetAccepted, if it leaves the backlog alone.
LEMMA NotYetStable ==
  ASSUME TypeOK, NotYetAccepted, OnlyCloses, backlog' = backlog
  PROVE  NotYetAccepted'
<1>1. \A c \in Clients : Accepted(c)' = Accepted(c) BY AcceptedStable
<1>2. \A i \in 1..Len(backlog) : backlog[i] \in Clients BY DEF TypeOK
<1>3. QED BY <1>1, <1>2 DEF NotYetAccepted, OnlyCloses

\* ... and what the map and the queue name, if it adds nothing to them.
LEMMA NamedStable ==
  ASSUME TypeOK, NamedAreAccepted, OnlyCloses, tasks' = tasks,
         \A fd \in Fds : connections'[fd] \in {connections[fd], NoClient}
  PROVE  NamedAreAccepted'
<1>1. \A c \in Clients : Accepted(c)' = Accepted(c) BY AcceptedStable
<1>2. \A i \in 1..Len(tasks) : tasks[i].client \in Clients
  <2>1. tasks \in Seq([client : Clients, fd : Fds]) BY DEF TypeOK
  <2>2. \A i \in 1..Len(tasks) : tasks[i] \in [client : Clients, fd : Fds]
    BY <2>1, ElementOfSeq
  <2>3. QED BY <2>2
<1>3. \A fd \in Fds : connections[fd] \in Clients \cup {NoClient} BY DEF TypeOK
<1>4. QED BY <1>1, <1>2, <1>3 DEF NamedAreAccepted

\* ... and the places of the event loop and of the workers.
LEMMA LoopStable ==
  ASSUME TypeOK, LoopInv, OnlyCloses, SameAccepting
  PROVE  LoopInv'
<1>1. \A c \in Clients : Accepted(c)' = Accepted(c) BY AcceptedStable
<1>2. QED BY <1>1 DEF LoopInv, OnlyCloses, SameAccepting

\* Likewise for what a worker that does not move knows.
LEMMA WorkerStable ==
  ASSUME TypeOK, OnlyCloses, NEW w \in Workers, work'[w] = work[w], WorkerKnows(w)
  PROVE  WorkerKnows(w)'
<1>1. \A c \in Clients : Accepted(c)' = Accepted(c) BY AcceptedStable
<1>2. work[w].pc # "idle" => work[w].client \in Clients /\ work[w].client # NoClient
  BY ServerAssumption DEF WorkerKnows
<1>3. QED BY <1>1, <1>2 DEF WorkerKnows, OnlyCloses

-----------------------------------------------------------------------------
(* The inductive invariant                                                   *)

\* The initial state satisfies it.
LEMMA InitSocket == Init => SocketInv
<1> SUFFICES ASSUME Init PROVE SocketInv OBVIOUS
<1>1. TypeOK
  <2>1. backlog \in Seq(Clients) /\ tasks \in Seq([client : Clients, fd : Fds])
    BY EmptySeq DEF Init
  <2>2. /\ object \in [Clients -> [fd : Fds \cup {0}, dead : BOOLEAN]]
        /\ \A c \in Clients : object[c].dead => object[c].fd = 0
    BY DEF Init
  <2>3. work \in [Workers -> [pc : {"idle", "serve", "close", "closefd", "closed", "check",
                                    "delete", "erase"},
                              client : Clients \cup {NoClient}, fd : Fds \cup {0},
                              closing : Fds \cup {0}]]
    BY DEF Init, IdleWorker
  <2>4. loop \in [pc : {"wait", "dispatch", "accept", "insert", "count", "register", "sweep"},
                  client : Clients \cup {NoClient}, fd : Fds \cup {0}, cut : BOOLEAN]
    BY DEF Init, IdleLoop
  <2>5. /\ peer \in [Clients -> {"new", "waiting", "answered", "again", "gone", "reset"}]
        /\ owner \in [Fds -> Clients \cup {NoClient}]
        /\ connections \in [Fds -> Clients \cup {NoClient}]
    BY DEF Init
  <2>6. listenArmed \in BOOLEAN BY Zenon DEF Init
  <2>7. interest = {} /\ ready = {} /\ active = 0 /\ batch = {} /\ expired = {} BY DEF Init
  <2>8. QED BY <2>1, <2>2, <2>3, <2>4, <2>5, <2>6, <2>7 DEF TypeOK
<1>2. OwnerKnown /\ NamedAreAccepted /\ OpenIsMapped
  BY DEF Init, OwnerKnown, NamedAreAccepted, OpenIsMapped
<1>3. NotYetAccepted BY DEF Init, NotYetAccepted, Accepted
<1>4. LoopInv BY DEF Init, LoopInv, IdleLoop
<1>5. WorkerInv BY DEF Init, WorkerInv, WorkerKnows, IdleWorker
<1>6. QED BY <1>1, <1>2, <1>3, <1>4, <1>5 DEF SocketInv

\* remove_connection preserves it, apart from what its caller does besides.
LEMMA EraseFacts ==
  ASSUME SocketInv, NEW fd \in Fds, EraseConnection(fd)
  PROVE  /\ KernelTypes /\ OnlyCloses
         /\ connections' \in [Fds -> Clients \cup {NoClient}] /\ active' \in Int
         /\ \A c \in Clients : object'[c].dead => object'[c].fd = 0
         /\ \A f \in Fds : connections'[f] \in {connections[f], NoClient}
         /\ SameAccepting => OpenIsMapped'
<1> USE DEF SocketInv
<1>1. /\ KernelTypes /\ OnlyCloses
      /\ connections[fd] # NoClient => \A f \in Fds : owner'[f] # connections[fd]
  BY CloseEntryFacts DEF EraseConnection
<1>2. /\ connections' \in [Fds -> Clients \cup {NoClient}]
      /\ \A f \in Fds : connections'[f] = IF f = fd THEN NoClient ELSE connections[f]
  BY DEF EraseConnection, TypeOK
<1>3. active' \in Int BY DEF EraseConnection, Decremented, TypeOK
<1>4. \A c \in Clients : object'[c].dead => object'[c].fd = 0
  BY <1>1 DEF OnlyCloses, TypeOK
<1>5. ASSUME SameAccepting PROVE OpenIsMapped'
  BY <1>1, <1>2, <1>5 DEF OpenIsMapped, OnlyCloses, SameAccepting
<1>6. QED BY <1>1, <1>2, <1>3, <1>4, <1>5

\* The clients' steps preserve it.
LEMMA ClientSocket ==
  ASSUME SocketInv, NEW c \in Clients, Connect(c) \/ Ask(c) \/ HangUp(c)
  PROVE  SocketInv'
<1> USE DEF SocketInv
<1>1. OnlyCloses BY DEF Connect, Ask, HangUp, OnlyCloses, TypeOK
<1>2. /\ UNCHANGED <<owner, object, connections, tasks, loop, work>>
      /\ SameAccepting
  BY DEF Connect, Ask, HangUp, SameAccepting
<1>3. OwnerKnown' /\ NamedAreAccepted' /\ LoopInv' /\ OpenIsMapped'
  BY <1>1, <1>2, OwnerKnownStable, NamedStable, LoopStable DEF OpenIsMapped
<1>4. WorkerInv' BY <1>1, <1>2, WorkerStable DEF WorkerInv
<1>5. CASE Connect(c)
  <2>1. /\ backlog' = Append(backlog, c) /\ backlog' \in Seq(Clients)
        /\ Len(backlog') = Len(backlog) + 1
        /\ \A i \in 1..Len(backlog) : backlog'[i] = backlog[i]
        /\ backlog'[Len(backlog) + 1] = c
    BY <1>5, AppendProperties DEF Connect, TypeOK
  <2>2. TypeOK' BY <1>5, <2>1 DEF Connect, TypeOK
  <2>3. Len(backlog) \in Nat /\ \A i \in 1..Len(backlog) : backlog[i] \in Clients
    BY LenProperties, ElementOfSeq DEF TypeOK
  <2>4. \A i \in 1..Len(backlog) : backlog[i] # c BY <1>5 DEF Connect, NotYetAccepted
  <2>5. NotYetAccepted'
    BY <1>2, <1>5, <2>1, <2>3, <2>4 DEF Connect, NotYetAccepted, Accepted, TypeOK
  <2>6. QED BY <1>3, <1>4, <2>2, <2>5
<1>6. CASE Ask(c) \/ HangUp(c)
  <2>1. TypeOK' BY <1>6 DEF Ask, HangUp, TypeOK
  <2>2. NotYetAccepted' BY <1>1, <1>6, NotYetStable DEF Ask, HangUp
  <2>3. QED BY <1>3, <1>4, <2>1, <2>2
<1>7. QED BY <1>5, <1>6

\* The event loop's handling of an event, and of a connection found too old, preserve
\* it.
LEMMA EventSocket ==
  ASSUME SocketInv,
         (\E e \in batch : HandleEvent(e)) \/ (\E t \in expired : RemoveTimedOut(t))
  PROVE  SocketInv'
<1> USE DEF SocketInv
<1> DEFINE LoopType ==
             [pc : {"wait", "dispatch", "accept", "insert", "count", "register", "sweep"},
              client : Clients \cup {NoClient}, fd : Fds \cup {0}, cut : BOOLEAN]
<1>1. ASSUME NEW fd \in Fds, EraseConnection(fd), batch' \subseteq batch,
             expired' \subseteq expired, loop' \in LoopType, SameAccepting,
             UNCHANGED <<backlog, listenArmed, tasks, work>>
      PROVE  SocketInv'
  <2>1. /\ KernelTypes /\ OnlyCloses
        /\ connections' \in [Fds -> Clients \cup {NoClient}] /\ active' \in Int
        /\ \A c \in Clients : object'[c].dead => object'[c].fd = 0
        /\ \A f \in Fds : connections'[f] \in {connections[f], NoClient}
        /\ OpenIsMapped'
    BY <1>1, EraseFacts
  <2>2. TypeOK' BY <1>1, <2>1 DEF KernelTypes, OnlyCloses, TypeOK
  <2>3. OwnerKnown' /\ NotYetAccepted' /\ NamedAreAccepted' /\ LoopInv'
    BY <1>1, <2>1, OwnerKnownStable, NotYetStable, NamedStable, LoopStable
  <2>4. WorkerInv' BY <1>1, <2>1, WorkerStable DEF WorkerInv
  <2>5. QED BY <2>1, <2>2, <2>3, <2>4
<1>2. ASSUME NEW t \in expired, RemoveTimedOut(t) PROVE SocketInv'
  <2>1. t.fd \in Fds BY DEF TypeOK
  <2>2. PICK pc \in {"wait", "sweep"} : loop' = [loop EXCEPT !.pc = pc] /\ loop.pc = "sweep"
    BY <1>2 DEF RemoveTimedOut
  <2>3. loop' \in LoopType /\ SameAccepting BY <2>2 DEF TypeOK, SameAccepting
  <2>4. QED BY <1>1, <1>2, <2>1, <2>3 DEF RemoveTimedOut
<1>3. ASSUME NEW e \in batch, HandleEvent(e) PROVE SocketInv'
  <2>1. e.fd \in Fds BY <1>3 DEF HandleEvent, TypeOK
  <2>2. CASE EndsConnection(e)
    <3>1. loop' = loop /\ loop' \in LoopType /\ SameAccepting
      BY <1>3 DEF HandleEvent, SameAccepting, TypeOK
    <3>2. QED BY <1>1, <1>3, <2>1, <2>2, <3>1 DEF HandleEvent
  <2>3. CASE ~EndsConnection(e) /\ connections[e.fd] = NoClient
    <3>1. /\ batch' \subseteq batch
          /\ UNCHANGED <<backlog, listenArmed, loop, expired, work, tasks, owner, interest, ready, peer,
                         object, connections, active>>
      BY <1>3, <2>3 DEF HandleEvent
    <3>2. QED
      BY <3>1 DEF TypeOK, OwnerKnown, NotYetAccepted, NamedAreAccepted, LoopInv, WorkerInv,
                  WorkerKnows, Accepted, OpenIsMapped
  <2>4. CASE ~EndsConnection(e) /\ connections[e.fd] # NoClient
    <3> DEFINE task == [client |-> connections[e.fd], fd |-> e.fd]
    <3>1. /\ batch' \subseteq batch /\ tasks' = Append(tasks, task)
          /\ UNCHANGED <<backlog, listenArmed, loop, expired, work, owner, interest, ready, peer,
                         object, connections, active>>
      BY <1>3, <2>4 DEF HandleEvent
    <3>2. task \in [client : Clients, fd : Fds] /\ Accepted(task.client)
      BY <2>1, <2>4 DEF TypeOK, NamedAreAccepted
    <3>3. /\ tasks' \in Seq([client : Clients, fd : Fds])
          /\ Len(tasks) \in Nat /\ Len(tasks') = Len(tasks) + 1
          /\ \A i \in 1..Len(tasks) : tasks'[i] = tasks[i]
          /\ tasks'[Len(tasks) + 1] = task
      BY <3>1, <3>2, AppendProperties, LenProperties DEF TypeOK
    <3>4. TypeOK' BY <3>1, <3>3 DEF TypeOK
    <3>5. NamedAreAccepted' BY <3>1, <3>2, <3>3 DEF NamedAreAccepted, Accepted
    <3>6. OwnerKnown' /\ NotYetAccepted' /\ LoopInv' /\ WorkerInv' /\ OpenIsMapped'
      BY <3>1 DEF OwnerKnown, NotYetAccepted, LoopInv, WorkerInv, WorkerKnows, Accepted,
                  OpenIsMapped
    <3>7. QED BY <3>4, <3>5, <3>6
  <2>5. QED BY <2>2, <2>3, <2>4
<1>4. QED BY <1>2, <1>3

\* The other steps of the event loop preserve it.
LEMMA LoopSocket ==
  ASSUME SocketInv,
         \/ PollEvents \/ EndBatch \/ HandleListener \/ AcceptNothing \/ AcceptAndShed
         \/ Accept \/ Insert \/ Count \/ Register \/ CollectTimedOut
  PROVE  SocketInv'
<1> USE ServerAssumption DEF SocketInv
<1> DEFINE LoopType ==
             [pc : {"wait", "dispatch", "accept", "insert", "count", "register", "sweep"},
              client : Clients \cup {NoClient}, fd : Fds \cup {0}, cut : BOOLEAN]
           BatchType == [fd : Fds \cup {Listener}, of : Clients \cup {NoClient}, hup : BOOLEAN]
<1>1. ASSUME UNCHANGED <<peer, backlog, owner, interest, object, connections, tasks, work>>,
             ready' \subseteq ready, active' \in Int, listenArmed' \in BOOLEAN,
             batch' \subseteq BatchType, expired' \subseteq [fd : Fds, of : Clients],
             loop' \in LoopType,
             loop'.client = loop.client, loop'.fd = loop.fd,
             loop'.pc = "insert" <=> loop.pc = "insert",
             loop'.pc = "register" => loop.pc = "count", loop'.pc # "count"
      PROVE  SocketInv'
  <2>1. TypeOK' BY <1>1 DEF TypeOK
  <2>2. OwnerKnown' /\ NotYetAccepted' /\ NamedAreAccepted' /\ WorkerInv'
    BY <1>1 DEF OwnerKnown, NotYetAccepted, NamedAreAccepted, WorkerInv, WorkerKnows, Accepted
  <2>3. LoopInv' /\ OpenIsMapped' BY <1>1 DEF LoopInv, OpenIsMapped, Accepted
  <2>4. QED BY <2>1, <2>2, <2>3
<1>a. CASE PollEvents
  <2>1. batch' \subseteq BatchType
    <3>1. \A f \in Fds : [fd |-> f, of |-> owner[f], hup |-> peer[owner[f]] = "gone"] \in BatchType
      BY DEF TypeOK
    <3>2. [fd |-> Listener, of |-> NoClient, hup |-> FALSE] \in BatchType OBVIOUS
    <3>3. batch' = {[fd |-> fd, of |-> owner[fd], hup |-> peer[owner[fd]] = "gone"] :
                      fd \in {f \in Fds : owner[f] \in ready}}
                   \cup (IF listenArmed THEN {[fd |-> Listener, of |-> NoClient, hup |-> FALSE]}
                         ELSE {})
      BY <1>a DEF PollEvents
    <3> HIDE DEF BatchType
    <3>4. QED BY <3>1, <3>2, <3>3
  <2>2. loop' \in LoopType /\ loop'.client = loop.client /\ loop'.fd = loop.fd
        /\ loop.pc = "wait" /\ loop'.pc = "dispatch"
    BY <1>a DEF PollEvents, TypeOK
  <2>3. /\ UNCHANGED <<peer, backlog, owner, interest, object, connections, tasks, work>>
        /\ ready' \subseteq ready /\ active' = active /\ listenArmed' \in BOOLEAN
        /\ expired' = expired
    BY <1>a DEF PollEvents
  <2>4. active \in Int /\ expired \subseteq [fd : Fds, of : Clients] BY DEF TypeOK
  <2>5. QED BY <1>1, <2>1, <2>2, <2>3, <2>4
<1>b. CASE EndBatch BY <1>1, <1>b DEF EndBatch, kernelVars, TypeOK
<1>c. CASE HandleListener BY <1>1, <1>c DEF HandleListener, kernelVars, TypeOK
<1>d. CASE AcceptNothing
  <2>1. /\ UNCHANGED <<kernelVars, object, connections, active, batch, expired, tasks, work>>
        /\ loop' = [loop EXCEPT !.pc = "dispatch", !.cut = backlog # <<>>] /\ loop.pc = "accept"
    BY <1>d DEF AcceptNothing
  <2>2. PICK b \in BOOLEAN : b = (backlog # <<>>) OBVIOUS
  <2>3. loop' = [loop EXCEPT !.pc = "dispatch", !.cut = b] BY <2>1, <2>2
  <2>4. loop' \in LoopType /\ loop'.pc = "dispatch" /\ loop'.client = loop.client
        /\ loop'.fd = loop.fd
    BY <2>3 DEF TypeOK
  <2>5. QED BY <1>1, <2>1, <2>4 DEF kernelVars, TypeOK
<1>e. CASE Count
  <2>1. /\ UNCHANGED <<kernelVars, object, connections, batch, expired, tasks, work>>
        /\ active' \in Int
    BY <1>e DEF Count, TypeOK
  <2>2. /\ loop' \in LoopType /\ loop'.client = loop.client /\ loop'.fd = loop.fd
        /\ loop.pc = "count" /\ loop'.pc = "register"
    BY <1>e DEF Count, TypeOK
  <2>3. QED BY <1>1, <2>1, <2>2 DEF kernelVars, TypeOK
<1>f. CASE CollectTimedOut
  <2>1. /\ UNCHANGED <<kernelVars, object, connections, active, batch, tasks, work>>
        /\ loop.pc = "wait" /\ loop' = [loop EXCEPT !.pc = "sweep"]
    BY <1>f DEF CollectTimedOut
  <2>2. loop' \in LoopType /\ loop'.client = loop.client /\ loop'.fd = loop.fd
        /\ loop'.pc = "sweep"
    BY <2>1 DEF TypeOK
  <2>3. expired' \subseteq [fd : Fds, of : Clients]
    <3>1. PICK found \in SUBSET Mapped :
            expired' = {[fd |-> fd, of |-> connections[fd]] : fd \in found}
      BY <1>f DEF CollectTimedOut
    <3>2. \A fd \in found : fd \in Fds /\ connections[fd] \in Clients
      BY DEF Mapped, TypeOK
    <3>3. QED BY <3>1, <3>2
  <2>4. QED BY <1>1, <2>1, <2>2, <2>3 DEF kernelVars, TypeOK
<1>2. CASE AcceptAndShed
  <2>1. /\ UNCHANGED <<listenArmed, owner, interest, ready, object, connections, active,
                       batch, expired, tasks, work>>
        /\ backlog # <<>> /\ backlog' = Tail(backlog)
        /\ peer' = Reset(Head(backlog))
        /\ loop' = [loop EXCEPT !.pc = "dispatch", !.cut = Len(backlog) > 1]
        /\ loop.pc = "accept"
    BY <1>2 DEF AcceptAndShed
  <2>2. /\ backlog' \in Seq(Clients) /\ Len(backlog) \in Nat
        /\ Len(backlog') = Len(backlog) - 1
        /\ \A i \in 1..Len(backlog') : backlog'[i] = backlog[i + 1]
    BY <2>1, HeadTailProperties, LenProperties DEF TypeOK
  <2>3. /\ peer' \in [Clients -> {"new", "waiting", "answered", "again", "gone", "reset"}]
        /\ \A c \in Clients : peer'[c] = "new" => peer[c] = "new"
    BY <2>1 DEF Reset, Waits, TypeOK
  <2>4. loop' \in LoopType /\ loop'.pc = "dispatch"
    <3>1. PICK b \in BOOLEAN : b = (Len(backlog) > 1)
      <4>1. (Len(backlog) > 1) \in BOOLEAN BY <2>2
      <4>2. QED BY <4>1
    <3>2. loop' = [loop EXCEPT !.pc = "dispatch", !.cut = b] BY <2>1, <3>1
    <3>3. QED BY <3>2 DEF TypeOK
  <2>. HIDE DEF LoopType
  <2>a. TypeOK' BY <2>1, <2>2, <2>3, <2>4 DEF TypeOK, LoopType
  <2>5. \A i \in 1..Len(backlog) : backlog[i] \in Clients BY ElementOfSeq DEF TypeOK
  <2>6. NotYetAccepted' BY <2>1, <2>2, <2>3, <2>5 DEF NotYetAccepted, Accepted
  <2>7. OwnerKnown' /\ NamedAreAccepted' /\ WorkerInv'
    BY <2>1 DEF OwnerKnown, NamedAreAccepted, WorkerInv, WorkerKnows, Accepted
  <2>8. LoopInv' /\ OpenIsMapped' BY <2>1, <2>4 DEF LoopInv, OpenIsMapped
  <2>9. QED BY <2>a, <2>6, <2>7, <2>8
<1>3. CASE Accept
  <2>1. /\ UNCHANGED <<peer, listenArmed, interest, ready, connections, active, batch, expired,
                       tasks, work>>
        /\ backlog # <<>> /\ backlog' = Tail(backlog) /\ loop.pc = "accept"
    BY <1>3 DEF Accept
  <2>c. PICK c \in Clients : c = Head(backlog) BY <2>1, HeadTailProperties DEF TypeOK
  <2>2. PICK fd \in Free : /\ owner' = [owner EXCEPT ![fd] = c]
                           /\ object' = [object EXCEPT ![c].fd = fd]
                           /\ loop' = [loop EXCEPT !.pc = "insert", !.client = c, !.fd = fd]
    BY <1>3, <2>c DEF Accept
  <2>3. /\ c = backlog[1] /\ 1 \in 1..Len(backlog)
        /\ backlog' \in Seq(Clients) /\ Len(backlog) \in Nat
        /\ Len(backlog') = Len(backlog) - 1
        /\ \A i \in 1..Len(backlog') : backlog'[i] = backlog[i + 1]
        /\ \A i \in 1..Len(backlog) : backlog[i] \in Clients
    BY <2>1, <2>c, HeadTailProperties, LenProperties, ElementOfSeq DEF TypeOK
  <2>4. /\ ~Accepted(c) /\ peer[c] # "new"
        /\ \A i \in 1..Len(backlog') : backlog'[i] # c
    BY <2>3 DEF NotYetAccepted
  <2>5. /\ fd \in Fds /\ owner[fd] = NoClient /\ fd # 0 /\ \A f \in Fds : owner[f] # c
    BY <2>3, <2>4 DEF Free, OwnerKnown, Accepted
  <2>6. /\ object' \in [Clients -> [fd : Fds \cup {0}, dead : BOOLEAN]]
        /\ object'[c].fd = fd /\ ~object'[c].dead
        /\ \A d \in Clients : d # c => object'[d] = object[d]
    <3>1. object' = [object EXCEPT ![c] = [object[c] EXCEPT !.fd = fd]] BY <2>2
    <3>2. object[c] \in [fd : Fds \cup {0}, dead : BOOLEAN] BY DEF TypeOK
    <3>3. ~object[c].dead BY <2>4 DEF Accepted
    <3>4. [object[c] EXCEPT !.fd = fd] \in [fd : Fds \cup {0}, dead : BOOLEAN]
      BY <2>5, <3>2
    <3>5. [object[c] EXCEPT !.fd = fd].fd = fd /\ ~[object[c] EXCEPT !.fd = fd].dead
      BY <3>2, <3>3
    <3>6. QED BY <3>1, <3>4, <3>5 DEF TypeOK
  <2>7. /\ \A f \in Fds : owner'[f] = IF f = fd THEN c ELSE owner[f]
        /\ owner' \in [Fds -> Clients \cup {NoClient}]
    BY <2>2, <2>3, <2>5 DEF TypeOK
  <2>l. /\ loop' \in LoopType
        /\ loop'.pc = "insert" /\ loop'.client = c /\ loop'.fd = fd
    BY <2>2, <2>5 DEF TypeOK
  <2> HIDE DEF LoopType
  <2>8. TypeOK'
    <3>1. \A d \in Clients : object'[d].dead => object'[d].fd = 0 BY <2>6 DEF TypeOK
    <3>2. QED BY <2>1, <2>3, <2>6, <2>7, <2>l, <3>1 DEF TypeOK, LoopType
  <2>9. OwnerKnown' BY <2>3, <2>5, <2>6, <2>7 DEF OwnerKnown, TypeOK
  <2>10. NotYetAccepted'
    <3>1. \A d \in Clients : d # c => Accepted(d)' = Accepted(d) BY <2>6 DEF Accepted
    <3>2. \A i \in 1..Len(backlog') :
            /\ i + 1 \in 1..Len(backlog) /\ backlog'[i] \in Clients
            /\ ~Accepted(backlog[i + 1]) /\ peer[backlog[i + 1]] # "new"
      BY <2>3 DEF NotYetAccepted
    <3>3. \A i \in 1..Len(backlog') : (~Accepted(backlog[i]))' /\ peer'[backlog'[i]] # "new"
      <4> SUFFICES ASSUME NEW i \in 1..Len(backlog')
                   PROVE  (~Accepted(backlog[i]))' /\ peer'[backlog'[i]] # "new"
        OBVIOUS
      <4>1. PICK d \in Clients : d = backlog'[i] BY <3>2
      <4>2. d # c /\ d = backlog[i + 1] /\ ~Accepted(d) /\ peer[d] # "new"
        BY <2>3, <2>4, <3>2, <4>1
      <4>3. ~Accepted(d)' BY <3>1, <4>2
      <4>4. QED BY <2>1, <4>1, <4>2, <4>3 DEF Accepted
    <3>4. \A i, j \in 1..Len(backlog') : backlog'[i] = backlog'[j] => i = j
      <4> SUFFICES ASSUME NEW i \in 1..Len(backlog'), NEW j \in 1..Len(backlog'),
                          backlog'[i] = backlog'[j]
                   PROVE  i = j
        OBVIOUS
      <4>1. /\ i + 1 \in 1..Len(backlog) /\ j + 1 \in 1..Len(backlog)
            /\ backlog[i + 1] = backlog[j + 1]
        BY <2>3, <3>2
      <4>2. i + 1 = j + 1 BY <4>1 DEF NotYetAccepted
      <4>3. QED BY <4>2
    <3>a. \A d \in Clients : peer'[d] = "new" => ~Accepted(d)'
      BY <2>1, <2>4, <3>1 DEF NotYetAccepted
    <3>5. QED BY <3>a, <3>3, <3>4 DEF NotYetAccepted
  <2>11. /\ \A d \in Clients : Accepted(d) => Accepted(d)'
         /\ Accepted(c)'
    BY <2>3, <2>5, <2>6 DEF Accepted
  <2>12. NamedAreAccepted'
    <3>1. \A i \in 1..Len(tasks) : tasks[i] \in [client : Clients, fd : Fds]
      BY ElementOfSeq DEF TypeOK
    <3>2. QED BY <2>1, <2>11, <3>1 DEF NamedAreAccepted, TypeOK
  <2>13. LoopInv' BY <2>l, <2>5, <2>7, <2>11 DEF LoopInv
  <2>14. WorkerInv' BY <2>1, <2>4, <2>7, <2>11 DEF WorkerInv, WorkerKnows
  <2>15. OpenIsMapped' BY <2>1, <2>l, <2>5, <2>7 DEF OpenIsMapped
  <2>16. QED BY <2>8, <2>9, <2>10, <2>12, <2>13, <2>14, <2>15
<1>4. CASE Insert
  <2>1. /\ UNCHANGED <<peer, backlog, listenArmed, owner, interest, ready, object, active,
                       batch, expired, tasks, work>>
        /\ connections' = [connections EXCEPT ![loop.fd] = loop.client]
        /\ loop' = [loop EXCEPT !.pc = "count"] /\ loop.pc = "insert"
    BY <1>4 DEF Insert, kernelVars
  <2>2. loop.client \in Clients /\ loop.fd \in Fds /\ Accepted(loop.client)
    BY <2>1 DEF LoopInv
  <2>3. TypeOK' BY <2>1, <2>2 DEF TypeOK
  <2>4. OwnerKnown' /\ NotYetAccepted' /\ WorkerInv'
    BY <2>1 DEF OwnerKnown, NotYetAccepted, WorkerInv, WorkerKnows, Accepted
  <2>5. NamedAreAccepted' BY <2>1, <2>2 DEF NamedAreAccepted, Accepted, TypeOK
  <2>6. LoopInv' BY <2>1, <2>2 DEF LoopInv, Accepted, TypeOK
  <2>7. OpenIsMapped' BY <2>1, <2>2 DEF OpenIsMapped, LoopInv, TypeOK
  <2>8. QED BY <2>3, <2>4, <2>5, <2>6, <2>7
<1>5. CASE Register
  <2>1. /\ UNCHANGED <<peer, backlog, listenArmed, owner, object, connections, active, batch,
                       expired, tasks, work>>
        /\ interest' = interest \cup ({owner[loop.fd]} \ {NoClient})
        /\ ready' = ready \cup ({owner[loop.fd]} \ {NoClient})
        /\ loop' = [loop EXCEPT !.pc = "accept", !.client = NoClient, !.fd = 0]
        /\ loop.pc = "register"
    BY <1>5 DEF Register, AcceptMore
  <2>2. owner[loop.fd] \in Clients \cup {NoClient} BY <2>1 DEF LoopInv, TypeOK
  <2>3. TypeOK' BY <2>1, <2>2 DEF TypeOK
  <2>4. OwnerKnown' /\ NotYetAccepted' /\ NamedAreAccepted' /\ WorkerInv'
    BY <2>1 DEF OwnerKnown, NotYetAccepted, NamedAreAccepted, WorkerInv, WorkerKnows, Accepted
  <2>5. LoopInv' /\ OpenIsMapped' BY <2>1 DEF LoopInv, OpenIsMapped, TypeOK
  <2>6. QED BY <2>3, <2>4, <2>5
<1>6. QED BY <1>a, <1>b, <1>c, <1>d, <1>e, <1>f, <1>2, <1>3, <1>4, <1>5

\* The steps of a worker preserve it.
LEMMA WorkerSocket ==
  ASSUME SocketInv, NEW w \in Workers, WorkerStep(w)
  PROVE  SocketInv'
<1> USE ServerAssumption DEF SocketInv
<1> DEFINE WorkType ==
             [pc : {"idle", "serve", "close", "closefd", "closed", "check", "delete", "erase"},
              client : Clients \cup {NoClient}, fd : Fds \cup {0}, closing : Fds \cup {0}]
<1>t. work \in [Workers -> WorkType] BY DEF TypeOK
<1>k. ASSUME OnlyCloses, KernelTypes, WorkerKnows(w)', loop' = loop,
             \A c \in Clients : object'[c].dead => object'[c].fd = 0,
             connections' \in [Fds -> Clients \cup {NoClient}], active' \in Int,
             \A f \in Fds : connections'[f] \in {connections[f], NoClient},
             NEW r \in WorkType, work' = [work EXCEPT ![w] = r],
             OpenIsMapped', UNCHANGED <<backlog, listenArmed, batch, expired, tasks>>
      PROVE  SocketInv'
  <2>1. TypeOK' BY <1>k, <1>t DEF TypeOK, KernelTypes, OnlyCloses
  <2>2. OwnerKnown' /\ NotYetAccepted' /\ NamedAreAccepted' /\ LoopInv'
    <3>1. SameAccepting BY <1>k DEF SameAccepting
    <3>2. QED BY <1>k, <3>1, OwnerKnownStable, NotYetStable, NamedStable, LoopStable
  <2>3. ASSUME NEW v \in Workers, v # w PROVE WorkerKnows(v)'
    <3>1. work'[v] = work[v] BY <1>k, <1>t, <2>3
    <3>2. QED BY <1>k, <3>1, WorkerStable DEF WorkerInv
  <2>4. WorkerInv' BY <1>k, <2>3 DEF WorkerInv
  <2>5. QED BY <1>k, <2>1, <2>2, <2>4
<1>q. ASSUME UNCHANGED <<owner, object, connections, active, loop, backlog, listenArmed, batch,
                       expired, tasks>>,
             KernelTypes, \A c \in Clients : peer'[c] = "new" => peer[c] = "new",
             WorkerKnows(w)', NEW r \in WorkType, work' = [work EXCEPT ![w] = r]
      PROVE  SocketInv'
  <2>1. OnlyCloses BY <1>q DEF OnlyCloses, TypeOK
  <2>2. OpenIsMapped' BY <1>q DEF OpenIsMapped
  <2>3. /\ \A c \in Clients : object'[c].dead => object'[c].fd = 0
        /\ connections' \in [Fds -> Clients \cup {NoClient}] /\ active' \in Int
        /\ \A f \in Fds : connections'[f] \in {connections[f], NoClient}
    BY <1>q DEF TypeOK
  <2>4. QED BY <1>k, <1>q, <2>1, <2>2, <2>3
<1>1. CASE StartTask(w)
  <2> DEFINE r == [pc |-> "serve", client |-> Head(tasks).client, fd |-> Head(tasks).fd,
                   closing |-> 0]
  <2>1. /\ UNCHANGED <<kernelVars, object, connections, active, loop, batch, expired>>
        /\ tasks # <<>> /\ tasks' = Tail(tasks) /\ work' = [work EXCEPT ![w] = r]
    BY <1>1 DEF StartTask
  <2>2. /\ Head(tasks) \in [client : Clients, fd : Fds]
        /\ Head(tasks) = tasks[1] /\ 1 \in 1..Len(tasks)
        /\ tasks' \in Seq([client : Clients, fd : Fds])
        /\ Len(tasks) \in Nat /\ Len(tasks') = Len(tasks) - 1
        /\ \A i \in 1..Len(tasks') : tasks'[i] = tasks[i + 1]
    <3> DEFINE T == [client : Clients, fd : Fds]
    <3>1. tasks \in Seq(T) BY DEF TypeOK
    <3> HIDE DEF T
    <3>2. /\ Head(tasks) \in T /\ Tail(tasks) \in Seq(T) /\ Len(tasks) \in Nat
          /\ Len(Tail(tasks)) = Len(tasks) - 1
          /\ \A i \in 1..Len(Tail(tasks)) : Tail(tasks)[i] = tasks[i + 1]
      BY <2>1, <3>1, HeadTailProperties, LenProperties
    <3>3. Head(tasks) = tasks[1] /\ 1 \in 1..Len(tasks)
      BY <2>1, <3>1, <3>2, EmptySeq, LenProperties
    <3>4. QED BY <2>1, <3>2, <3>3 DEF T
  <2>3. r \in WorkType BY <2>2
  <2>4. TypeOK' BY <1>t, <2>1, <2>2, <2>3 DEF TypeOK, kernelVars
  <2>5. OwnerKnown' /\ NotYetAccepted' /\ LoopInv' /\ OpenIsMapped'
    BY <2>1 DEF OwnerKnown, NotYetAccepted, LoopInv, OpenIsMapped, Accepted, kernelVars
  <2>6. NamedAreAccepted' BY <2>1, <2>2 DEF NamedAreAccepted, Accepted
  <2>7. ASSUME NEW v \in Workers PROVE WorkerKnows(v)'
    <3>1. CASE v = w
      <4>1. Accepted(Head(tasks).client) BY <2>2 DEF NamedAreAccepted
      <4>2. work'[w] = r BY <1>t, <2>1
      <4>3. (Accepted(work[w].client))' BY <2>1, <4>1, <4>2 DEF Accepted
      <4>4. QED BY <2>2, <3>1, <4>2, <4>3 DEF WorkerKnows
    <3>2. CASE v # w BY <1>t, <2>1, <3>2 DEF WorkerInv, WorkerKnows, Accepted, kernelVars
    <3>3. QED BY <3>1, <3>2
  <2>8. QED BY <2>4, <2>5, <2>6, <2>7 DEF WorkerInv
<1>2. CASE Serve(w) \/ CloseStart(w) \/ CheckAlive(w) \/ DeleteInterest(w)
  <2>1. /\ UNCHANGED <<owner, object, connections, active, loop, backlog, listenArmed, batch,
                     expired, tasks>>
        /\ work[w].pc # "idle"
    BY <1>2 DEF Serve, CloseStart, CheckAlive, DeleteInterest, kernelVars
  <2>2. KernelTypes /\ \A c \in Clients : peer'[c] = "new" => peer[c] = "new"
    <3>1. /\ peer' \in [Clients -> {"new", "waiting", "answered", "again", "gone", "reset"}]
          /\ \A c \in Clients : peer'[c] = "new" => peer[c] = "new"
      <4>1. CASE Serve(w)
        <5>1. \/ peer' = peer
              \/ \E s : peer' = [peer EXCEPT ![s] = "answered"]
          BY <4>1 DEF Serve
        <5>2. QED BY <5>1 DEF TypeOK
      <4>2. CASE CloseStart(w) \/ CheckAlive(w) \/ DeleteInterest(w)
        <5>1. peer' = peer BY <4>2 DEF CloseStart, CheckAlive, DeleteInterest, kernelVars
        <5>2. QED BY <5>1 DEF TypeOK
      <4>3. QED BY <1>2, <4>1, <4>2
    <3>2. interest' \subseteq Clients /\ ready' \subseteq interest'
      <4>1. CASE DeleteInterest(w) BY <4>1 DEF DeleteInterest, TypeOK
      <4>2. CASE Serve(w) \/ CloseStart(w) \/ CheckAlive(w)
        <5>1. interest' = interest /\ ready' = ready
          BY <4>2 DEF Serve, CloseStart, CheckAlive, kernelVars
        <5>2. QED BY <5>1 DEF TypeOK
      <4>3. QED BY <1>2, <4>1, <4>2
    <3>3. QED BY <2>1, <3>1, <3>2 DEF KernelTypes, TypeOK
  <2>3. /\ work[w] \in WorkType /\ work[w].client \in Clients /\ work[w].fd \in Fds
        /\ Accepted(work[w].client)
    BY <1>t, <2>1 DEF WorkerInv, WorkerKnows
  <2>4. CASE Serve(w) \/ DeleteInterest(w)
    <3>1. PICK pc \in {"check", "close", "erase"} : work' = [work EXCEPT ![w].pc = pc]
      BY <2>4 DEF Serve, DeleteInterest
    <3>2. PICK r \in WorkType : r = [work[w] EXCEPT !.pc = pc] BY <2>3
    <3>3. work' = [work EXCEPT ![w] = r] BY <3>1, <3>2
    <3>4. work'[w] = r BY <1>t, <3>3
    <3>5. WorkerKnows(w)' BY <2>1, <2>3, <3>2, <3>4 DEF WorkerKnows, Accepted
    <3>6. QED BY <1>q, <2>1, <2>2, <3>3, <3>5
  <2>5. CASE CloseStart(w)
    <3> DEFINE o == object[work[w].client]
    <3>1. o.fd \in Fds \cup {0} /\ (o.dead => o.fd = 0) BY <2>3 DEF TypeOK
    <3>2. \A fd \in Fds : owner[fd] = work[w].client => o.fd = fd
      BY <2>3 DEF OwnerKnown
    <3>3. CASE o.dead
      <4>1. PICK r \in WorkType : r = [work[w] EXCEPT !.pc = "check"] BY <2>3
      <4>2. work' = [work EXCEPT ![w] = r] BY <2>5, <3>3, <4>1 DEF CloseStart
      <4>3. work'[w] = r BY <1>t, <4>2
      <4>4. WorkerKnows(w)' BY <2>1, <2>3, <4>1, <4>3 DEF WorkerKnows, Accepted
      <4>5. QED BY <1>q, <2>1, <2>2, <4>2, <4>4
    <3>4. CASE ~o.dead
      <4>1. PICK r \in WorkType : r = [work[w] EXCEPT !.pc = "closefd", !.closing = o.fd]
        BY <2>3, <3>1
      <4>2. work' = [work EXCEPT ![w] = r] BY <2>5, <3>4, <4>1 DEF CloseStart
      <4>3. work'[w] = r BY <1>t, <4>2
      <4>4. r.client = work[w].client /\ r.fd = work[w].fd /\ r.pc = "closefd" /\ r.closing = o.fd
        BY <2>3, <4>1
      <4>5. WorkerKnows(w)' BY <2>1, <2>3, <3>2, <4>3, <4>4 DEF WorkerKnows, Accepted
      <4>6. QED BY <1>q, <2>1, <2>2, <4>2, <4>5
    <3>5. QED BY <3>3, <3>4
  <2>6. CASE CheckAlive(w)
    <3>1. IdleWorker \in WorkType BY DEF IdleWorker
    <3>2. PICK r \in WorkType : r = [work[w] EXCEPT !.pc = "delete"] BY <2>3
    <3>3. PICK s \in {r, IdleWorker} : work' = [work EXCEPT ![w] = s]
      BY <2>6, <3>2 DEF CheckAlive
    <3>4. work'[w] = s /\ s \in WorkType BY <1>t, <3>1, <3>3
    <3>5. WorkerKnows(w)' BY <2>1, <2>3, <3>2, <3>4 DEF WorkerKnows, Accepted, IdleWorker
    <3>6. QED BY <1>q, <2>1, <2>2, <3>3, <3>4, <3>5
  <2>7. QED BY <1>2, <2>4, <2>5, <2>6
<1>3. CASE CloseFd(w)
  <2> DEFINE fd == work[w].closing
  <2>1. /\ KernelClose(fd) /\ work[w].pc = "closefd"
        /\ work' = [work EXCEPT ![w].pc = "closed", ![w].closing = 0]
        /\ UNCHANGED <<backlog, listenArmed, object, connections, active, loop, batch, expired, tasks>>
    BY <1>3 DEF CloseFd
  <2>2. /\ work[w] \in WorkType /\ work[w].client \in Clients /\ work[w].fd \in Fds
        /\ Accepted(work[w].client)
        /\ \A f \in Fds : owner[f] = work[w].client => fd = f
    BY <1>t, <2>1 DEF WorkerInv, WorkerKnows
  <2>3. /\ KernelTypes
        /\ \A f \in Fds : owner'[f] = IF f = fd THEN NoClient ELSE owner[f]
        /\ \A c \in Clients : peer'[c] = "new" => peer[c] = "new"
    BY <2>1, <2>2, KernelCloseFacts
  <2>4. OnlyCloses BY <2>1, <2>3 DEF OnlyCloses, TypeOK
  <2>5. PICK r \in WorkType : r = [work[w] EXCEPT !.pc = "closed", !.closing = 0] BY <2>2
  <2>6. work' = [work EXCEPT ![w] = r] /\ work'[w] = r
    <3>1. work' = [work EXCEPT ![w] = [work[w] EXCEPT !.pc = "closed", !.closing = 0]]
      BY <1>t, <2>1
    <3>2. work' = [work EXCEPT ![w] = r] BY <2>5, <3>1
    <3>3. QED BY <1>t, <3>2
  <2>7. WorkerKnows(w)'
    <3>1. r.pc = "closed" /\ r.client = work[w].client /\ r.fd = work[w].fd BY <2>2, <2>5
    <3>2. \A f \in Fds : owner'[f] # work[w].client BY <2>2, <2>3
    <3>3. object'[work[w].client].dead \/ object'[work[w].client].fd # 0
      BY <2>1, <2>2 DEF Accepted
    <3>4. QED BY <2>2, <2>6, <3>1, <3>2, <3>3 DEF WorkerKnows, Accepted
  <2>8. OpenIsMapped' BY <2>1, <2>3 DEF OpenIsMapped
  <2>9. /\ \A c \in Clients : object'[c].dead => object'[c].fd = 0
        /\ connections' \in [Fds -> Clients \cup {NoClient}] /\ active' \in Int
        /\ \A f \in Fds : connections'[f] \in {connections[f], NoClient}
    BY <2>1 DEF TypeOK
  <2>10. QED BY <1>k, <2>1, <2>3, <2>4, <2>6, <2>7, <2>8, <2>9
<1>4. CASE CloseEnd(w)
  <2> DEFINE c == work[w].client
  <2>1. /\ CloseObject(c) /\ work[w].pc = "closed"
        /\ work' = [work EXCEPT ![w].pc = "check"]
        /\ UNCHANGED <<kernelVars, connections, active, loop, batch, expired, tasks>>
    BY <1>4 DEF CloseEnd
  <2>2. /\ work[w] \in WorkType /\ c \in Clients /\ work[w].fd \in Fds
        /\ Accepted(c) /\ \A f \in Fds : owner[f] # c
    BY <1>t, <2>1 DEF WorkerInv, WorkerKnows
  <2>3. /\ object' \in [Clients -> [fd : Fds \cup {0}, dead : BOOLEAN]]
        /\ \A d \in Clients : IF d = c THEN object'[d] = [fd |-> 0, dead |-> TRUE]
                              ELSE object'[d] = object[d]
    BY <2>1, <2>2 DEF CloseObject, TypeOK
  <2>4. OnlyCloses /\ KernelTypes
    BY <2>1, <2>2, <2>3 DEF OnlyCloses, KernelTypes, TypeOK, kernelVars
  <2>5. PICK r \in WorkType : r = [work[w] EXCEPT !.pc = "check"] BY <2>2
  <2>6. work' = [work EXCEPT ![w] = r] /\ work'[w] = r BY <1>t, <2>1, <2>5
  <2>7. WorkerKnows(w)' BY <2>2, <2>3, <2>5, <2>6 DEF WorkerKnows, Accepted
  <2>8. OpenIsMapped' BY <2>1 DEF OpenIsMapped, kernelVars
  <2>9. /\ \A d \in Clients : object'[d].dead => object'[d].fd = 0
        /\ connections' \in [Fds -> Clients \cup {NoClient}] /\ active' \in Int
        /\ \A f \in Fds : connections'[f] \in {connections[f], NoClient}
    BY <2>1, <2>3 DEF TypeOK
  <2>10. QED BY <1>k, <2>1, <2>4, <2>6, <2>7, <2>8, <2>9 DEF kernelVars
<1>5. CASE Erase(w)
  <2>1. /\ EraseConnection(work[w].fd) /\ work[w].pc = "erase"
        /\ work' = [work EXCEPT ![w] = IdleWorker]
        /\ UNCHANGED <<backlog, listenArmed, loop, batch, expired, tasks>>
        /\ SameAccepting
    BY <1>5 DEF Erase, SameAccepting
  <2>2. work[w].fd \in Fds BY <2>1 DEF WorkerInv, WorkerKnows
  <2>3. /\ KernelTypes /\ OnlyCloses
        /\ connections' \in [Fds -> Clients \cup {NoClient}] /\ active' \in Int
        /\ \A c \in Clients : object'[c].dead => object'[c].fd = 0
        /\ \A f \in Fds : connections'[f] \in {connections[f], NoClient}
        /\ OpenIsMapped'
    BY <2>1, <2>2, EraseFacts
  <2>4. IdleWorker \in WorkType BY DEF IdleWorker
  <2>5. work'[w] = IdleWorker BY <1>t, <2>1
  <2>6. WorkerKnows(w)' BY <2>5 DEF WorkerKnows, IdleWorker
  <2>7. QED BY <1>k, <2>1, <2>3, <2>4, <2>6
<1>6. QED BY <1>1, <1>2, <1>3, <1>4, <1>5 DEF WorkerStep

\* The sockets, the objects and the map are always as SocketInv says.
THEOREM SocketInvariant == Spec => []SocketInv
<1>1. SocketInv /\ UNCHANGED vars => SocketInv'
  BY DEF SocketInv, TypeOK, OwnerKnown, NotYetAccepted, NamedAreAccepted, LoopInv, WorkerInv,
         WorkerKnows, Accepted, OpenIsMapped, vars, kernelVars
<1>2. SocketInv /\ [Next]_vars => SocketInv'
  BY <1>1, ClientSocket, EventSocket, LoopSocket, WorkerSocket DEF Next, LoopStep
<1>3. QED BY InitSocket, <1>2, PTL DEF Spec

\* Every variable has its type.
THEOREM TypeCorrect == Spec => []TypeOK
<1>1. SocketInv => TypeOK BY DEF SocketInv
<1>2. QED BY <1>1, SocketInvariant, PTL

\* No accepted socket is open without an entry in connections_.
THEOREM OpenIsMappedHolds == Spec => []OpenIsMapped
<1>1. SocketInv => OpenIsMapped BY DEF SocketInv
<1>2. QED BY <1>1, SocketInvariant, PTL

-----------------------------------------------------------------------------
(* The limit and the counter                                                 *)

\* The entries of the map can be counted.
LEMMA MappedFinite == IsFiniteSet(Mapped) /\ Cardinality(Mapped) \in Nat
BY ServerAssumption, FS_Subset, FS_CardinalityType DEF Mapped

\* The initial state satisfies CountInv.
LEMMA InitCount == Init => CountInv
<1> SUFFICES ASSUME Init PROVE CountInv OBVIOUS
<1>1. Mapped = {} BY DEF Init, Mapped
<1>2. Cardinality(Mapped) = 0 BY <1>1, FS_EmptySet
<1>3. loop.pc = "wait" /\ active = 0 BY DEF Init, IdleLoop
<1>4. QED BY <1>2, <1>3, ServerAssumption DEF CountInv, ConnectionLimit, CounterCovers

\* remove_connection preserves it, whether or not it finds an entry: the counter
\* goes down with the map, never on its own.
LEMMA EraseCount ==
  ASSUME TypeOK, CountInv, NEW fd \in Fds, EraseConnection(fd), SameAccepting
  PROVE  CountInv'
<1>1. Mapped' = Mapped \ {fd} BY DEF EraseConnection, Mapped, TypeOK
<1>2. Cardinality(Mapped') = IF fd \in Mapped THEN Cardinality(Mapped) - 1
                             ELSE Cardinality(Mapped)
  BY <1>1, MappedFinite, FS_RemoveElement
<1>3. active' = IF fd \in Mapped THEN active - 1 ELSE active
  BY DEF EraseConnection, Decremented, Mapped
<1>4. active \in Int /\ MaxConnections \in Nat BY ServerAssumption DEF TypeOK
<1>5. QED
  BY <1>2, <1>3, <1>4, MappedFinite DEF CountInv, ConnectionLimit, CounterCovers, SameAccepting

\* A step that leaves the map and the counter alone preserves it, if it goes to
\* `insert' under the limit only and neither enters nor leaves `count'.
LEMMA QuietCount ==
  ASSUME CountInv, UNCHANGED <<connections, active>>,
         loop'.pc = "count" <=> loop.pc = "count",
         loop'.pc = "insert" => loop.pc = "insert" \/ Cardinality(Mapped) < MaxConnections
  PROVE  CountInv'
<1>1. Mapped' = Mapped BY DEF Mapped
<1>2. QED BY <1>1 DEF CountInv, ConnectionLimit, CounterCovers

\* Every step preserves it.
LEMMA StepCount ==
  ASSUME SocketInv, CountInv, [Next]_vars
  PROVE  CountInv'
<1> USE DEF SocketInv
<1>t. TypeOK /\ loop \in [pc : {"wait", "dispatch", "accept", "insert", "count", "register", "sweep"},
                          client : Clients \cup {NoClient}, fd : Fds \cup {0}, cut : BOOLEAN]
  BY DEF TypeOK
<1>1. CASE UNCHANGED vars BY <1>1, QuietCount DEF vars
<1>2. CASE \E c \in Clients : Connect(c) \/ Ask(c) \/ HangUp(c)
  BY <1>2, QuietCount DEF Connect, Ask, HangUp
<1>3. CASE \/ PollEvents \/ EndBatch \/ HandleListener \/ AcceptNothing \/ AcceptAndShed
           \/ Register \/ CollectTimedOut
  <2>1. UNCHANGED <<connections, active>>
    BY <1>3 DEF PollEvents, EndBatch, HandleListener, AcceptNothing, AcceptAndShed, Register,
                CollectTimedOut
  <2>2. loop.pc \notin {"insert", "count"} /\ loop'.pc \notin {"insert", "count"}
    BY <1>3, <1>t DEF PollEvents, EndBatch, HandleListener, AcceptNothing, AcceptAndShed,
                      Register, AcceptMore, CollectTimedOut
  <2>3. QED BY <2>1, <2>2, QuietCount
<1>4. ASSUME NEW e \in batch, HandleEvent(e) PROVE CountInv'
  <2>1. e.fd \in Fds /\ loop' = loop /\ SameAccepting
    BY <1>4 DEF HandleEvent, TypeOK, SameAccepting
  <2>2. CASE EndsConnection(e) BY <1>4, <2>1, <2>2, EraseCount DEF HandleEvent
  <2>3. CASE ~EndsConnection(e) BY <1>4, <2>1, <2>3, QuietCount DEF HandleEvent
  <2>4. QED BY <2>2, <2>3
<1>5. CASE Accept
  <2>1. UNCHANGED <<connections, active>> /\ loop.pc = "accept" /\ ~MaxReached
    BY <1>5 DEF Accept
  <2>2. loop'.pc = "insert" BY <1>5, <1>t DEF Accept
  <2>3. Cardinality(Mapped) < MaxConnections
    BY <2>1, MappedFinite, ServerAssumption DEF MaxReached
  <2>4. QED BY <2>1, <2>2, <2>3, QuietCount
<1>6. CASE Insert
  <2>1. /\ connections' = [connections EXCEPT ![loop.fd] = loop.client] /\ active' = active
        /\ loop.pc = "insert" /\ loop'.pc = "count"
    BY <1>6, <1>t DEF Insert
  <2>2. loop.fd \in Fds /\ loop.client \in Clients BY <2>1 DEF LoopInv
  <2>3. Mapped' = Mapped \cup {loop.fd}
    BY <2>1, <2>2, ServerAssumption DEF Mapped, TypeOK
  <2>4. Cardinality(Mapped') <= Cardinality(Mapped) + 1 /\ Cardinality(Mapped') \in Nat
    <3>1. Cardinality(Mapped \cup {loop.fd}) =
            IF loop.fd \in Mapped THEN Cardinality(Mapped) ELSE Cardinality(Mapped) + 1
      BY MappedFinite, FS_AddElement, Zenon
    <3>2. Cardinality(Mapped') = Cardinality(Mapped \cup {loop.fd}) BY <2>3
    <3> HIDE DEF Mapped
    <3>3. QED BY <3>1, <3>2, MappedFinite
  <2>5. active \in Int /\ MaxConnections \in Nat BY ServerAssumption DEF TypeOK
  <2>6. QED
    BY <2>1, <2>4, <2>5, MappedFinite DEF CountInv, ConnectionLimit, CounterCovers
<1>7. CASE Count
  <2>1. /\ connections' = connections /\ active' = active + 1
        /\ loop.pc = "count" /\ loop'.pc = "register"
    BY <1>7, <1>t DEF Count
  <2>2. Mapped' = Mapped /\ active \in Int BY <2>1 DEF Mapped, TypeOK
  <2>3. QED BY <2>1, <2>2 DEF CountInv, ConnectionLimit, CounterCovers
<1>8. ASSUME NEW t \in expired, RemoveTimedOut(t) PROVE CountInv'
  <2>1. t.fd \in Fds BY DEF TypeOK
  <2>2. PICK pc \in {"wait", "sweep"} : loop' = [loop EXCEPT !.pc = pc] /\ loop.pc = "sweep"
    BY <1>8 DEF RemoveTimedOut
  <2>3. SameAccepting BY <1>t, <2>2 DEF SameAccepting
  <2>4. QED BY <1>8, <2>1, <2>3, EraseCount DEF RemoveTimedOut
<1>9. ASSUME NEW w \in Workers, WorkerStep(w) PROVE CountInv'
  <2>1. CASE Erase(w)
    <3>1. work[w].fd \in Fds /\ SameAccepting
      BY <2>1 DEF Erase, WorkerInv, WorkerKnows, SameAccepting
    <3>2. QED BY <2>1, <3>1, EraseCount DEF Erase
  <2>2. CASE ~Erase(w)
    <3>1. UNCHANGED <<connections, active, loop>>
      BY <1>9, <2>2 DEF WorkerStep, StartTask, Serve, CloseStart, CloseFd, CloseEnd,
                        CheckAlive, DeleteInterest
    <3>2. QED BY <3>1, QuietCount
  <2>3. QED BY <2>1, <2>2
<1>10. QED
  BY <1>1, <1>2, <1>3, <1>4, <1>5, <1>6, <1>7, <1>8, <1>9 DEF Next, LoopStep

\* The counts are always as CountInv says.
THEOREM CountInvariant == Spec => []CountInv
<1>1. SocketInv /\ CountInv /\ [Next]_vars => CountInv' BY StepCount
<1>2. QED BY InitCount, SocketInvariant, <1>1, PTL DEF Spec

\* connections_ never holds more than max_connections entries.
THEOREM ConnectionLimitHolds == Spec => []ConnectionLimit
<1>1. CountInv => ConnectionLimit BY DEF CountInv
<1>2. QED BY <1>1, CountInvariant, PTL

\* active_connections_ never reports fewer connections than the map holds.
THEOREM CounterCoversHolds == Spec => []CounterCovers
<1>1. CountInv => CounterCovers BY DEF CountInv
<1>2. QED BY <1>1, CountInvariant, PTL

-----------------------------------------------------------------------------
(* The backlog                                                               *)

\* The initial state satisfies EdgeInv.
LEMMA InitEdge == Init => EdgeInv
BY DEF Init, EdgeInv, IdleLoop

\* Every step preserves it.
LEMMA StepEdge ==
  ASSUME TypeOK, EdgeInv, [Next]_vars
  PROVE  EdgeInv'
<1>t. /\ loop \in [pc : {"wait", "dispatch", "accept", "insert", "count", "register", "sweep"},
                   client : Clients \cup {NoClient}, fd : Fds \cup {0}, cut : BOOLEAN]
      /\ backlog \in Seq(Clients)
      /\ \A e \in batch : e.fd \in Fds \cup {Listener}
  BY DEF TypeOK
<1>1. CASE UNCHANGED vars BY <1>1 DEF vars, kernelVars, EdgeInv
<1>2. ASSUME NEW c \in Clients, Connect(c) \/ Ask(c) \/ HangUp(c) PROVE EdgeInv'
  BY <1>2 DEF Connect, Ask, HangUp, EdgeInv
<1>3. CASE PollEvents
  <2>1. /\ backlog' = backlog /\ loop.pc = "wait"
        /\ loop'.pc = "dispatch" /\ loop'.cut = loop.cut
    BY <1>3, <1>t DEF PollEvents
  <2>2. CASE listenArmed
    <3> DEFINE edge == [fd |-> Listener, of |-> NoClient, hup |-> FALSE]
    <3>1. edge \in batch' /\ edge.fd = Listener BY <1>3, <2>2 DEF PollEvents
    <3>2. QED BY <2>1, <3>1 DEF EdgeInv
  <2>3. CASE ~listenArmed
    <3>1. backlog = <<>> \/ loop.cut
      <4>1. \A e \in batch : e.fd # Listener BY <2>1 DEF EdgeInv
      <4>2. QED BY <2>1, <2>3, <4>1 DEF EdgeInv
    <3>2. QED BY <2>1, <3>1 DEF EdgeInv
  <2>4. QED BY <2>2, <2>3
<1>4. CASE EndBatch BY <1>4, <1>t DEF EndBatch, kernelVars, EdgeInv
<1>5. ASSUME NEW e \in batch, HandleEvent(e) PROVE EdgeInv'
  <2>1. /\ e.fd # Listener /\ batch' = batch \ {e} /\ loop.pc = "dispatch"
        /\ UNCHANGED <<backlog, listenArmed, loop>>
    BY <1>5 DEF HandleEvent
  <2>2. QED BY <2>1 DEF EdgeInv
<1>6. CASE HandleListener \/ Accept \/ Insert \/ Count \/ Register
  <2>1. loop'.pc \notin {"wait", "sweep", "dispatch"}
    BY <1>6, <1>t DEF HandleListener, Accept, Insert, Count, Register, AcceptMore
  <2>2. QED BY <2>1 DEF EdgeInv
<1>7. CASE AcceptNothing
  <2>1. /\ backlog' = backlog /\ loop'.pc = "dispatch" /\ loop'.cut = (backlog # <<>>)
    BY <1>7, <1>t DEF AcceptNothing, kernelVars
  <2>2. backlog' = <<>> \/ loop'.cut BY <2>1
  <2>3. QED BY <2>1, <2>2 DEF EdgeInv
<1>8. CASE AcceptAndShed
  <2>1. /\ backlog # <<>> /\ backlog' = Tail(backlog)
        /\ loop'.pc = "dispatch" /\ loop'.cut = (Len(backlog) > 1)
    BY <1>8, <1>t DEF AcceptAndShed
  <2>2. Tail(backlog) \in Seq(Clients) /\ Len(Tail(backlog)) = Len(backlog) - 1
    BY <1>t, <2>1, HeadTailProperties
  <2>3. Len(backlog) \in Nat /\ (Len(Tail(backlog)) = 0 => Tail(backlog) = <<>>)
    BY <1>t, <2>2, LenProperties, EmptySeq
  <2>4. Len(backlog) > 1 \/ Len(backlog) <= 1 BY <2>3
  <2>5. CASE Len(backlog) > 1 BY <2>1, <2>5 DEF EdgeInv
  <2>6. CASE Len(backlog) <= 1
    <3>1. Tail(backlog) = <<>> BY <1>t, <2>1, <2>2, <2>3, <2>6, EmptySeq
    <3>2. QED BY <2>1, <3>1 DEF EdgeInv
  <2>7. QED BY <2>4, <2>5, <2>6
<1>9. ASSUME CollectTimedOut \/ \E t \in expired : RemoveTimedOut(t) PROVE EdgeInv'
  <2>1. UNCHANGED <<batch, backlog, listenArmed>>
    BY <1>9 DEF CollectTimedOut, RemoveTimedOut, kernelVars
  <2>2. PICK pc \in {"wait", "sweep"} :
          loop' = [loop EXCEPT !.pc = pc] /\ loop.pc \in {"wait", "sweep"}
    BY <1>9 DEF CollectTimedOut, RemoveTimedOut
  <2>3. loop'.pc \in {"wait", "sweep"} /\ loop'.cut = loop.cut BY <1>t, <2>2
  <2>4. QED BY <2>1, <2>2, <2>3 DEF EdgeInv
<1>10. ASSUME NEW w \in Workers, WorkerStep(w) PROVE EdgeInv'
  <2>1. UNCHANGED <<loop, batch, backlog, listenArmed>>
    BY <1>10 DEF WorkerStep, StartTask, Serve, CloseStart, CloseFd, CloseEnd, CheckAlive,
                 DeleteInterest, Erase, kernelVars
  <2>2. QED BY <2>1 DEF EdgeInv
<1>11. QED
  BY <1>1, <1>2, <1>3, <1>4, <1>5, <1>6, <1>7, <1>8, <1>9, <1>10 DEF Next, LoopStep

\* The event loop waits with a backlog only after an accept loop that ended early.
THEOREM BacklogServedHolds == Spec => []BacklogServed
<1>1. SocketInv /\ EdgeInv /\ [Next]_vars => EdgeInv' BY StepEdge DEF SocketInv
<1>2. EdgeInv => BacklogServed BY DEF EdgeInv, BacklogServed
<1>3. QED BY InitEdge, SocketInvariant, <1>1, <1>2, PTL DEF Spec

-----------------------------------------------------------------------------
(* Who closes a client that waits                                            *)

\* What no step does: bring a client that left or was answered back to waiting for its
\* first answer, or give a connection that was accepted another number or a socket.
Forward ==
  \A c \in Clients :
    /\ peer'[c] = "waiting" => peer[c] \in {"new", "waiting"}
    /\ peer[c] = "gone" => peer'[c] = "gone"
    /\ Accepted(c) =>
         /\ object'[c].fd \in {object[c].fd, 0} /\ (object[c].dead => object'[c].dead)
         /\ \A fd \in Fds : owner'[fd] = c => owner[fd] = c

\* The kernel's close resets the client whose socket it closes, and only if it waits.
LEMMA KernelClosePeers ==
  ASSUME TypeOK, NEW fd \in Fds \cup {0}, KernelClose(fd), NEW c \in Clients
  PROVE  \/ peer'[c] = peer[c]
         \/ Waits(c) /\ peer'[c] = "reset" /\ fd \in Fds /\ owner[fd] = c
BY ServerAssumption DEF KernelClose, Reset, Waits, TypeOK

\* remove_connection resets nobody, or the client whose socket has the number that
\* the Connection it found knows.
LEMMA ErasePeers ==
  ASSUME SocketInv, NEW fd \in Fds, EraseConnection(fd), NEW c \in Clients
  PROVE  \/ peer'[c] = peer[c]
         \/ /\ Waits(c) /\ peer'[c] = "reset" /\ connections[fd] # NoClient
            /\ object[connections[fd]].fd \in Fds
            /\ owner[object[connections[fd]].fd] = c
<1>1. CASE connections[fd] = NoClient BY <1>1 DEF EraseConnection, CloseEntry
<1>2. CASE connections[fd] # NoClient
  <2>1. connections[fd] \in Clients /\ object[connections[fd]].fd \in Fds \cup {0}
    BY <1>2 DEF SocketInv, TypeOK
  <2>2. KernelClose(object[connections[fd]].fd)
    BY <1>2 DEF EraseConnection, CloseEntry
  <2>3. QED BY <1>2, <2>1, <2>2, KernelClosePeers DEF SocketInv
<1>3. QED BY <1>1, <1>2

\* How a step may change what a client has sent and seen.
Moves(c) ==
  \/ peer'[c] = peer[c]
  \/ Waits(c) /\ peer'[c] \in {"reset", "answered"}
  \/ peer[c] = "answered" /\ peer'[c] \in {"again", "gone"}
  \/ peer[c] = "new" /\ peer'[c] = "waiting"

\* A step that only closes, and resets waiting clients at most, goes forward.
LEMMA ClosesForward ==
  ASSUME TypeOK, OnlyCloses, \A c \in Clients : Moves(c)
  PROVE  Forward
<1> SUFFICES ASSUME NEW c \in Clients
             PROVE  /\ peer'[c] = "waiting" => peer[c] \in {"new", "waiting"}
                    /\ peer[c] = "gone" => peer'[c] = "gone"
                    /\ Accepted(c) =>
                         /\ object'[c].fd \in {object[c].fd, 0}
                         /\ object[c].dead => object'[c].dead
                         /\ \A fd \in Fds : owner'[fd] = c => owner[fd] = c
  BY DEF Forward
<1>1. \A fd \in Fds : owner'[fd] = c => owner[fd] = c
  BY ServerAssumption DEF OnlyCloses
<1>2. object'[c].fd \in {object[c].fd, 0} /\ (object[c].dead => object'[c].dead)
  BY DEF OnlyCloses
<1>3. QED BY <1>1, <1>2 DEF Moves, Waits

\* Every step goes forward.
LEMMA StepForward ==
  ASSUME SocketInv, [Next]_vars
  PROVE  Forward
<1> USE ServerAssumption DEF SocketInv
<1>q. ASSUME UNCHANGED <<owner, object>>, \A c \in Clients : Moves(c)
      PROVE  Forward
  BY <1>q DEF Forward, Moves, Waits
<1>e. ASSUME NEW fd \in Fds, EraseConnection(fd) PROVE Forward
  <2>1. OnlyCloses BY <1>e, EraseFacts
  <2>2. \A c \in Clients : Moves(c) BY <1>e, ErasePeers DEF Moves
  <2>3. QED BY <2>1, <2>2, ClosesForward
<1>1. CASE UNCHANGED vars BY <1>1, <1>q DEF vars, kernelVars, Moves
<1>2. ASSUME NEW c \in Clients, Connect(c) \/ Ask(c) \/ HangUp(c) PROVE Forward
  BY <1>2, <1>q DEF Connect, Ask, HangUp, TypeOK, Moves
<1>3. CASE \/ PollEvents \/ EndBatch \/ HandleListener \/ AcceptNothing \/ Insert \/ Count
           \/ Register \/ CollectTimedOut
  BY <1>3, <1>q DEF PollEvents, EndBatch, HandleListener, AcceptNothing, Insert, Count,
                    Register, CollectTimedOut, kernelVars, Moves
<1>4. CASE AcceptAndShed
  <2>1. UNCHANGED <<owner, object>> /\ peer' = Reset(Head(backlog)) BY <1>4 DEF AcceptAndShed
  <2>2. \A c \in Clients : Moves(c) BY <2>1 DEF Reset, Waits, TypeOK, Moves
  <2>3. QED BY <1>q, <2>1, <2>2
<1>5. ASSUME NEW e \in batch, HandleEvent(e) PROVE Forward
  <2>1. e.fd \in Fds BY <1>5 DEF HandleEvent, TypeOK
  <2>2. CASE EndsConnection(e) BY <1>5, <1>e, <2>1, <2>2 DEF HandleEvent
  <2>3. CASE ~EndsConnection(e) BY <1>5, <1>q, <2>3 DEF HandleEvent, Moves
  <2>4. QED BY <2>2, <2>3
<1>6. CASE Accept
  <2>1. peer' = peer /\ backlog # <<>> BY <1>6 DEF Accept
  <2>2. PICK d \in Clients : d = Head(backlog) BY <2>1, HeadTailProperties DEF TypeOK
  <2>3. ~Accepted(d)
    <3>1. d = backlog[1] /\ 1 \in 1..Len(backlog)
      BY <2>1, <2>2, HeadTailProperties, LenProperties, EmptySeq DEF TypeOK
    <3>2. QED BY <3>1 DEF NotYetAccepted
  <2>4. PICK f \in Fds : /\ owner' = [owner EXCEPT ![f] = d]
                         /\ object' = [object EXCEPT ![d].fd = f]
    BY <1>6, <2>2 DEF Accept, Free
  <2>5. \A c \in Clients : c # d => object'[c] = object[c] BY <2>4 DEF TypeOK
  <2>6. \A c \in Clients, g \in Fds : c # d /\ owner'[g] = c => owner[g] = c
    BY <2>4 DEF TypeOK
  <2>7. QED BY <2>1, <2>3, <2>5, <2>6 DEF Forward
<1>7. ASSUME NEW t \in expired, RemoveTimedOut(t) PROVE Forward
  <2>1. t.fd \in Fds BY DEF TypeOK
  <2>2. QED BY <1>7, <1>e, <2>1 DEF RemoveTimedOut
<1>8. ASSUME NEW w \in Workers, WorkerStep(w) PROVE Forward
  <2>1. CASE StartTask(w) \/ CloseStart(w) \/ CheckAlive(w) \/ DeleteInterest(w)
    BY <1>q, <2>1 DEF StartTask, CloseStart, CheckAlive, DeleteInterest, kernelVars, Moves
  <2>2. CASE Serve(w)
    <3>1. UNCHANGED <<owner, object>> BY <2>2 DEF Serve
    <3>2. \/ peer' = peer
          \/ \E s : Waits(s) /\ peer' = [peer EXCEPT ![s] = "answered"]
      <4> DEFINE o == object[work[w].client]
                 s == IF o.fd \in Fds THEN owner[o.fd] ELSE NoClient
                 input == IF o.dead THEN "nothing"
                          ELSE IF s = NoClient THEN "error" ELSE peer[s]
      <4>1. \/ input \in {"waiting", "again"} /\ peer' = [peer EXCEPT ![s] = "answered"]
            \/ peer' = peer
        BY <2>2 DEF Serve
      <4>2. input \in {"waiting", "again"} => Waits(s) BY DEF Waits
      <4>3. QED BY <4>1, <4>2
    <3>3. \A c \in Clients : Moves(c) BY <3>2 DEF TypeOK, Moves, Waits
    <3>4. QED BY <1>q, <3>1, <3>3
  <2>3. CASE CloseFd(w)
    <3>1. KernelClose(work[w].closing) /\ object' = object BY <2>3 DEF CloseFd
    <3>2. work[w].closing \in Fds \cup {0} BY DEF TypeOK
    <3>3. OnlyCloses BY <3>1, <3>2, KernelCloseFacts DEF OnlyCloses, TypeOK
    <3>4. \A c \in Clients : Moves(c) BY <3>1, <3>2, KernelClosePeers DEF Moves
    <3>5. QED BY <3>3, <3>4, ClosesForward
  <2>4. CASE CloseEnd(w)
    <3>1. /\ CloseObject(work[w].client) /\ UNCHANGED <<owner, peer>>
      BY <2>4 DEF CloseEnd, kernelVars
    <3>2. \A c \in Clients : object'[c] = object[c] \/ object'[c] = [fd |-> 0, dead |-> TRUE]
      BY <3>1 DEF CloseObject, TypeOK
    <3>3. QED BY <3>1, <3>2 DEF Forward
  <2>5. CASE Erase(w)
    <3>1. work[w].fd \in Fds BY <2>5 DEF Erase, WorkerInv, WorkerKnows
    <3>2. QED BY <1>e, <2>5, <3>1 DEF Erase
  <2>6. QED BY <1>8, <2>1, <2>2, <2>3, <2>4, <2>5 DEF WorkerStep
<1>9. QED
  BY <1>1, <1>2, <1>3, <1>4, <1>5, <1>6, <1>7, <1>8 DEF Next, LoopStep

\* The initial state satisfies HoldersInv.
LEMMA InitHolders == Init => HoldersInv
BY DEF Init, HoldersInv, SweepKnows, IdleLoop, IdleWorker

\* A worker that has not moved still holds what it held.
HolderKnows(w) ==
  /\ work[w].pc \in {"close", "closefd"} =>
       \A fd \in Fds : owner[fd] = work[w].client => peer[work[w].client] # "waiting"
  /\ work[w].pc \in {"delete", "erase"} => object[work[w].client].dead

\* That stays so while the other threads move.
LEMMA HolderStable ==
  ASSUME SocketInv, Forward, NEW w \in Workers, HolderKnows(w), work'[w] = work[w]
  PROVE  HolderKnows(w)'
<1>1. CASE work[w].pc = "idle" BY <1>1 DEF HolderKnows
<1>2. CASE work[w].pc # "idle"
  <2>1. PICK c \in Clients : c = work[w].client /\ Accepted(c) /\ c # NoClient
    BY <1>2, ServerAssumption DEF SocketInv, WorkerInv, WorkerKnows
  <2>2. peer[c] # "new" BY <2>1 DEF SocketInv, NotYetAccepted
  <2>3. /\ peer'[c] = "waiting" => peer[c] = "waiting"
        /\ object[c].dead => object'[c].dead
        /\ \A fd \in Fds : owner'[fd] = c => owner[fd] = c
    BY <2>1, <2>2 DEF Forward
  <2>4. QED BY <2>1, <2>3 DEF HolderKnows
<1>3. QED BY <1>1, <1>2

\* What a worker does itself.
LEMMA HolderStep ==
  ASSUME SocketInv, Forward, NEW w \in Workers, HolderKnows(w), WorkerStep(w)
  PROVE  HolderKnows(w)'
<1> USE ServerAssumption DEF SocketInv
<1> DEFINE c == work[w].client
           WorkType ==
             [pc : {"idle", "serve", "close", "closefd", "closed", "check", "delete", "erase"},
              client : Clients \cup {NoClient}, fd : Fds \cup {0}, closing : Fds \cup {0}]
<1>t. work \in [Workers -> WorkType] /\ work[w] \in WorkType BY DEF TypeOK
<1>k. work[w].pc # "idle" => c \in Clients /\ c # NoClient /\ Accepted(c) /\ peer[c] # "new"
  BY DEF WorkerInv, WorkerKnows, NotYetAccepted
<1>1. CASE StartTask(w) \/ CloseFd(w) \/ CloseEnd(w) \/ Erase(w)
  <2>1. work'[w].pc \notin {"close", "closefd", "delete", "erase"}
    BY <1>t, <1>1 DEF StartTask, CloseFd, CloseEnd, Erase, IdleWorker
  <2>2. QED BY <2>1 DEF HolderKnows
<1>2. CASE Serve(w)
  <2> DEFINE o == object[c]
             s == IF o.fd \in Fds THEN owner[o.fd] ELSE NoClient
             input == IF o.dead THEN "nothing"
                      ELSE IF s = NoClient THEN "error" ELSE peer[s]
  <2>1. work[w].pc = "serve" /\ UNCHANGED <<owner, object>> BY <1>2 DEF Serve
  <2>2. work'[w].client = c /\ work'[w].pc \in {"check", "close"}
    <3>1. PICK pc \in {"check", "close"} : work' = [work EXCEPT ![w].pc = pc]
      <4> HIDE DEF input, s
      <4>1. \/ \E pc \in {"check", "close"} : work' = [work EXCEPT ![w].pc = pc]
            \/ work' = [work EXCEPT ![w].pc = "check"]
            \/ work' = [work EXCEPT ![w].pc = "close"]
        BY <1>2 DEF Serve
      <4>2. QED BY <4>1
    <3>2. QED BY <1>t, <3>1
  <2>3. work'[w].pc = "close" =>
          \/ input \in {"waiting", "again"} /\ peer' = [peer EXCEPT ![s] = "answered"]
          \/ input \in {"error", "gone"} /\ peer' = peer
    <3>1. \/ input \in {"waiting", "again"} /\ peer' = [peer EXCEPT ![s] = "answered"]
          \/ work' = [work EXCEPT ![w].pc = "check"]
          \/ input \in {"error", "gone"} /\ peer' = peer
      BY <1>2 DEF Serve
    <3> HIDE DEF input
    <3>2. work' = [work EXCEPT ![w].pc = "check"] => work'[w].pc = "check" BY <1>t
    <3>3. QED BY <3>1, <3>2
  <2>4. ASSUME NEW fd \in Fds, owner[fd] = c, work'[w].pc = "close"
        PROVE  peer'[c] # "waiting"
    <3>1. o.fd = fd /\ s = c BY <1>k, <2>1, <2>4 DEF OwnerKnown
    <3>2. ~o.dead
      <4>1. o.dead => o.fd = 0 BY <1>k, <2>1 DEF TypeOK
      <4>2. fd # 0 OBVIOUS
      <4>3. QED BY <3>1, <4>1, <4>2
    <3>3. input = peer[c] BY <1>k, <2>1, <3>1, <3>2
    <3>4. peer[c] # "error" /\ peer \in [Clients -> {"new", "waiting", "answered", "again", "gone", "reset"}]
      BY <1>k, <2>1 DEF TypeOK
    <3>5. CASE peer' = [peer EXCEPT ![s] = "answered"] BY <1>k, <2>1, <3>1, <3>4, <3>5
    <3>6. CASE input \in {"error", "gone"} /\ peer' = peer BY <3>3, <3>4, <3>6
    <3>7. QED BY <2>3, <2>4, <3>5, <3>6
  <2>5. QED BY <2>1, <2>2, <2>4 DEF HolderKnows
<1>3. CASE CloseStart(w)
  <2>1. UNCHANGED <<owner, object, peer>> /\ work[w].pc = "close"
    BY <1>3 DEF CloseStart, kernelVars
  <2>2. work'[w].client = c /\ work'[w].pc \in {"check", "closefd"}
    BY <1>t, <1>3 DEF CloseStart
  <2>3. QED BY <2>1, <2>2 DEF HolderKnows
<1>4. CASE CheckAlive(w)
  <2>1. UNCHANGED <<owner, object, peer>> /\ work[w].pc = "check"
    BY <1>4 DEF CheckAlive, kernelVars
  <2>2. CASE IsAlive(object[c])
    <3>1. work'[w] = IdleWorker BY <1>t, <1>4, <2>2 DEF CheckAlive
    <3>2. QED BY <3>1 DEF HolderKnows, IdleWorker
  <2>3. CASE ~IsAlive(object[c])
    <3>1. work'[w].client = c /\ work'[w].pc = "delete"
      BY <1>t, <1>4, <2>3 DEF CheckAlive
    <3>2. object[c].dead BY <1>k, <2>1, <2>3 DEF IsAlive, Accepted, TypeOK
    <3>3. QED BY <2>1, <3>1, <3>2 DEF HolderKnows
  <2>4. QED BY <2>2, <2>3
<1>5. CASE DeleteInterest(w)
  <2>1. UNCHANGED <<owner, object, peer>> /\ work[w].pc = "delete"
    BY <1>5 DEF DeleteInterest
  <2>2. work'[w].client = c /\ work'[w].pc = "erase" BY <1>t, <1>5 DEF DeleteInterest
  <2>3. QED BY <2>1, <2>2 DEF HolderKnows
<1>6. QED BY <1>1, <1>2, <1>3, <1>4, <1>5 DEF WorkerStep

\* Every step preserves HoldersInv.
LEMMA StepHolders ==
  ASSUME SocketInv, HoldersInv, [Next]_vars
  PROVE  HoldersInv'
<1> USE ServerAssumption DEF SocketInv
<1>f. Forward BY StepForward
<1>1. \A w \in Workers : HolderKnows(w)'
  <2>1. \A w \in Workers : HolderKnows(w) BY DEF HoldersInv, HolderKnows
  <2>2. CASE \E v \in Workers : WorkerStep(v)
    <3>1. PICK v \in Workers : WorkerStep(v) BY <2>2
    <3>2. HolderKnows(v)' BY <1>f, <2>1, <3>1, HolderStep
    <3>3. \A w \in Workers : w # v => work'[w] = work[w]
      BY <3>1 DEF WorkerStep, StartTask, Serve, CloseStart, CloseFd, CloseEnd, CheckAlive,
                  DeleteInterest, Erase, TypeOK
    <3>4. QED BY <1>f, <2>1, <3>2, <3>3, HolderStable
  <2>3. CASE ~\E v \in Workers : WorkerStep(v)
    <3>1. work' = work
      BY <2>3 DEF Next, LoopStep, Connect, Ask, HangUp, PollEvents, EndBatch, HandleEvent,
                  HandleListener, AcceptNothing, AcceptAndShed, Accept, Insert, Count,
                  Register, CollectTimedOut, RemoveTimedOut, vars
    <3>2. QED BY <1>f, <2>1, <3>1, HolderStable
  <2>4. QED BY <2>2, <2>3
<1>2. \A e \in batch' : e.hup => e.of \in Clients /\ peer'[e.of] = "gone"
  <2>1. CASE PollEvents
    <3>1. peer' = peer BY <2>1 DEF PollEvents
    <3>2. ASSUME NEW e \in batch', e.hup PROVE e.of \in Clients /\ peer[e.of] = "gone"
      <4>1. CASE \E f \in {g \in Fds : owner[g] \in ready} :
                   e = [fd |-> f, of |-> owner[f], hup |-> peer[owner[f]] = "gone"]
        <5>1. PICK f \in Fds :
                /\ owner[f] \in ready
                /\ e = [fd |-> f, of |-> owner[f], hup |-> peer[owner[f]] = "gone"]
          BY <4>1
        <5>2. e.of = owner[f] /\ e.hup = (peer[owner[f]] = "gone") BY <5>1
        <5>3. QED BY <3>2, <5>1, <5>2 DEF TypeOK
      <4>2. CASE e = [fd |-> Listener, of |-> NoClient, hup |-> FALSE] BY <3>2, <4>2
      <4>3. QED BY <2>1, <3>2, <4>1, <4>2 DEF PollEvents
    <3>3. QED BY <3>1, <3>2
  <2>2. CASE ~PollEvents
    <3>1. batch' \subseteq batch
      BY <2>2 DEF Next, LoopStep, Connect, Ask, HangUp, EndBatch, HandleEvent, HandleListener,
                  AcceptNothing, AcceptAndShed, Accept, Insert, Count, Register,
                  CollectTimedOut, RemoveTimedOut, WorkerStep, StartTask, Serve, CloseStart, CloseFd, CloseEnd, CheckAlive,
                  DeleteInterest, Erase, vars
    <3>2. QED BY <1>f, <3>1 DEF HoldersInv, Forward
  <2>3. QED BY <2>1, <2>2
<1>m. ASSUME ~Insert
      PROVE  \A fd \in Fds : connections'[fd] \in {connections[fd], NoClient}
  <2>1. ASSUME NEW g \in Fds, EraseConnection(g)
        PROVE  \A fd \in Fds : connections'[fd] \in {connections[fd], NoClient}
    BY <2>1, EraseFacts
  <2>2. CASE \E e \in batch : HandleEvent(e)
    <3>1. PICK e \in batch : HandleEvent(e) BY <2>2
    <3>2. e.fd \in Fds BY <3>1 DEF HandleEvent, TypeOK
    <3>3. connections' = connections \/ EraseConnection(e.fd) BY <3>1 DEF HandleEvent
    <3>4. QED BY <2>1, <3>2, <3>3
  <2>3. CASE \E t \in expired : RemoveTimedOut(t)
    <3>1. PICK t \in expired : RemoveTimedOut(t) BY <2>3
    <3>2. t.fd \in Fds BY DEF TypeOK
    <3>3. QED BY <2>1, <3>1, <3>2 DEF RemoveTimedOut
  <2>4. CASE \E w \in Workers : Erase(w)
    <3>1. PICK w \in Workers : Erase(w) BY <2>4
    <3>2. work[w].fd \in Fds BY <3>1 DEF Erase, WorkerInv, WorkerKnows
    <3>3. QED BY <2>1, <3>1, <3>2 DEF Erase
  <2>5. CASE /\ ~\E e \in batch : HandleEvent(e)
             /\ ~\E t \in expired : RemoveTimedOut(t)
             /\ ~\E w \in Workers : Erase(w)
    <3>1. connections' = connections
      BY <1>m, <2>5 DEF Next, LoopStep, Connect, Ask, HangUp, PollEvents, EndBatch,
         HandleListener, AcceptNothing, AcceptAndShed, Accept, Count, Register,
         WorkerStep, StartTask, Serve, CloseStart, CloseFd, CloseEnd, CheckAlive,
         DeleteInterest, CollectTimedOut, vars
    <3>2. QED BY <3>1
  <2>6. QED BY <2>2, <2>3, <2>4, <2>5
<1>3. \A fd \in Fds :
        connections'[fd] # NoClient => object'[connections'[fd]].fd \in {fd, 0}
  <2>1. \A c \in Clients : Accepted(c) => object'[c].fd \in {object[c].fd, 0}
    BY <1>f DEF Forward
  <2>2. CASE Insert
    <3>1. /\ connections' = [connections EXCEPT ![loop.fd] = loop.client] /\ object' = object
          /\ loop.pc = "insert"
      BY <2>2 DEF Insert
    <3>2. QED BY <3>1 DEF HoldersInv, TypeOK
  <2>3. CASE ~Insert
    <3>1. \A fd \in Fds : connections'[fd] \in {connections[fd], NoClient} BY <1>m, <2>3
    <3>2. ASSUME NEW fd \in Fds, connections'[fd] # NoClient
          PROVE  object'[connections'[fd]].fd \in {fd, 0}
      <4>1. PICK c \in Clients : c = connections[fd] /\ connections'[fd] = c
        BY <3>1, <3>2 DEF TypeOK
      <4>2. Accepted(c) /\ object[c].fd \in {fd, 0}
        BY <4>1 DEF NamedAreAccepted, HoldersInv
      <4>3. QED BY <2>1, <4>1, <4>2
    <3>3. QED BY <3>2
  <2>4. QED BY <2>2, <2>3
<1>4. loop'.pc = "insert" => object'[loop'.client].fd \in {loop'.fd, 0}
  <2>t. loop \in [pc : {"wait", "dispatch", "accept", "insert", "count", "register", "sweep"},
                  client : Clients \cup {NoClient}, fd : Fds \cup {0}, cut : BOOLEAN]
    BY DEF TypeOK
  <2>1. CASE Accept
    <3>1. PICK c \in Clients : c = Head(backlog)
      BY <2>1, HeadTailProperties DEF Accept, TypeOK
    <3>2. PICK fd \in Fds :
            /\ object' = [object EXCEPT ![c].fd = fd]
            /\ loop' = [loop EXCEPT !.pc = "insert", !.client = c, !.fd = fd]
      BY <2>1, <3>1 DEF Accept, Free
    <3>3. object'[c].fd = fd BY <3>2 DEF TypeOK
    <3>4. loop'.client = c /\ loop'.fd = fd BY <2>t, <3>2
    <3>5. QED BY <3>3, <3>4
  <2>2. CASE loop' = loop
    <3>1. ASSUME loop.pc = "insert" PROVE object'[loop.client].fd \in {loop.fd, 0}
      <4>1. loop.client \in Clients /\ Accepted(loop.client) BY <3>1 DEF LoopInv
      <4>2. object[loop.client].fd \in {loop.fd, 0} BY <3>1 DEF HoldersInv
      <4>3. QED BY <1>f, <4>1, <4>2 DEF Forward
    <3>2. QED BY <2>2, <3>1
  <2>3. CASE ~Accept /\ loop' # loop
    <3>1. loop'.pc # "insert"
      BY <2>t, <2>3 DEF Next, LoopStep, Connect, Ask, HangUp, PollEvents, EndBatch, HandleEvent,
         HandleListener, AcceptNothing, AcceptAndShed, Insert, Count, Register, AcceptMore,
         CollectTimedOut, RemoveTimedOut, WorkerStep, StartTask, Serve, CloseStart, CloseFd, CloseEnd, CheckAlive,
         DeleteInterest, Erase, vars
    <3>2. QED BY <3>1
  <2>4. QED BY <2>1, <2>2, <2>3
<1>5. SweepKnows'
  <2>1. SweepKnows BY DEF HoldersInv
  <2>2. \A t \in expired : t.fd \in Fds BY DEF TypeOK
  <2>3. CASE CollectTimedOut
    <3>1. PICK found \in SUBSET Mapped :
            expired' = {[fd |-> fd, of |-> connections[fd]] : fd \in found}
      BY <2>3 DEF CollectTimedOut
    <3>2. connections' = connections /\ loop' = [loop EXCEPT !.pc = "sweep"]
      BY <2>3 DEF CollectTimedOut
    <3>3. loop'.pc = "sweep" BY <3>2 DEF TypeOK
    <3>4. \A t \in expired' : connections[t.fd] = t.of BY <3>1
    <3>5. QED BY <3>2, <3>3, <3>4 DEF SweepKnows
  <2>4. CASE \E t \in expired : RemoveTimedOut(t)
    <3>1. PICK t \in expired : RemoveTimedOut(t) BY <2>4
    <3>2. /\ expired' = expired \ {t} /\ loop.pc = "sweep"
          /\ loop' = [loop EXCEPT !.pc = IF expired = {t} THEN "wait" ELSE "sweep"]
      BY <3>1 DEF RemoveTimedOut
    <3>3. ~Insert BY <3>2 DEF Insert
    <3>4. \A s \in expired' : connections'[s.fd] \in {s.of, NoClient}
      BY <1>m, <2>1, <2>2, <3>2, <3>3 DEF SweepKnows
    <3>5. CASE expired = {t} BY <3>2, <3>4, <3>5 DEF SweepKnows
    <3>6. CASE expired # {t}
      <4>1. loop' = [loop EXCEPT !.pc = "sweep"] BY <3>2, <3>6
      <4>2. loop'.pc = "sweep" BY <4>1 DEF TypeOK
      <4>3. QED BY <3>4, <4>2 DEF SweepKnows
    <3>7. QED BY <3>5, <3>6
  <2>5. CASE ~CollectTimedOut /\ ~\E t \in expired : RemoveTimedOut(t)
    <3>1. /\ expired' = expired
          /\ loop.pc = "sweep" => loop' = loop
      BY <2>5 DEF Next, LoopStep, Connect, Ask, HangUp, PollEvents, EndBatch, HandleEvent,
         HandleListener, AcceptNothing, AcceptAndShed, Accept, Insert, Count, Register,
         WorkerStep, StartTask, Serve, CloseStart, CloseFd, CloseEnd, CheckAlive,
         DeleteInterest, Erase, vars
    <3>2. CASE expired = {} BY <3>1, <3>2 DEF SweepKnows
    <3>3. CASE expired # {}
      <4>1. loop.pc = "sweep" /\ loop' = loop /\ ~Insert
        BY <2>1, <3>1, <3>3 DEF SweepKnows, Insert
      <4>2. \A t \in expired : connections'[t.fd] \in {t.of, NoClient}
        BY <1>m, <2>1, <2>2, <4>1 DEF SweepKnows
      <4>3. QED BY <3>1, <4>1, <4>2 DEF SweepKnows
    <3>4. QED BY <3>2, <3>3
  <2>6. QED BY <2>3, <2>4, <2>5
<1>6. QED BY <1>1, <1>2, <1>3, <1>4, <1>5 DEF HoldersInv, HolderKnows

\* A step that resets a client that waits has one of the three causes.
LEMMA StepCause ==
  ASSUME SocketInv, HoldersInv, [Next]_vars, NEW c \in Clients, NEW fd \in Fds,
         owner[fd] = c, Waits(c), peer'[c] = "reset"
  PROVE  HoldsStale(fd, c) \/ FoundTooOld(fd, c) \/ LastAnswered(fd, c)
<1> USE ServerAssumption DEF SocketInv
<1>w. peer[c] \in {"waiting", "again"} BY DEF Waits
<1>k. object[c].fd = fd /\ Accepted(c) /\ ~object[c].dead
  <2>1. object[c].fd = fd BY DEF OwnerKnown
  <2>2. fd # 0 /\ (object[c].dead => object[c].fd = 0) BY DEF TypeOK
  <2>3. QED BY <2>1, <2>2 DEF Accepted
<1>u. \A g \in Fds : owner[g] = c => g = fd BY <1>k DEF OwnerKnown
<1>e. ASSUME NEW g \in Fds, EraseConnection(g)
      PROVE  connections[g] # NoClient /\ object[connections[g]].fd = fd /\ g = fd
  <2>1. /\ connections[g] # NoClient /\ object[connections[g]].fd \in Fds
        /\ owner[object[connections[g]].fd] = c
    BY <1>e, <1>w, ErasePeers
  <2>2. object[connections[g]].fd = fd BY <1>u, <2>1
  <2>3. object[connections[g]].fd \in {g, 0} BY <2>1 DEF HoldersInv
  <2>4. QED BY <2>1, <2>2, <2>3
<1>1. CASE \E e \in batch : HandleEvent(e)
  <2>1. PICK e \in batch : HandleEvent(e) BY <1>1
  <2>2. e.fd \in Fds BY <2>1 DEF HandleEvent, TypeOK
  <2>3. EndsConnection(e) /\ EraseConnection(e.fd) BY <1>w, <2>1 DEF HandleEvent
  <2>4. e.fd = fd BY <1>e, <2>2, <2>3
  <2>5. e.hup /\ e.of # c BY <1>w, <2>3 DEF EndsConnection, HoldersInv
  <2>6. QED BY <2>4, <2>5 DEF HoldsStale
<1>2. CASE \E t \in expired : RemoveTimedOut(t)
  <2>1. PICK t \in expired : RemoveTimedOut(t) BY <1>2
  <2>2. EraseConnection(t.fd) /\ loop.pc = "sweep" BY <2>1 DEF RemoveTimedOut
  <2>3. t.fd \in Fds /\ t.of \in Clients /\ t = [fd |-> t.fd, of |-> t.of]
    <3>1. expired \subseteq [fd : Fds, of : Clients] BY DEF TypeOK
    <3>2. t \in [fd : Fds, of : Clients] BY <3>1
    <3>3. QED BY <3>2
  <2>4. t.fd = fd /\ connections[fd] # NoClient BY <1>e, <2>2, <2>3
  <2>5. connections[fd] = c BY <2>2 DEF OpenIsMapped
  <2>6. connections[fd] = t.of BY <2>4 DEF HoldersInv, SweepKnows
  <2>7. [fd |-> fd, of |-> c] \in expired BY <2>3, <2>4, <2>5, <2>6
  <2>8. QED BY <2>2, <2>7 DEF FoundTooOld
<1>3. CASE \E w \in Workers : CloseFd(w)
  <2>1. PICK w \in Workers : CloseFd(w) BY <1>3
  <2>2. KernelClose(work[w].closing) /\ work[w].pc = "closefd" BY <2>1 DEF CloseFd
  <2>3. work[w].closing \in Fds \cup {0} BY DEF TypeOK
  <2>4. work[w].closing \in Fds /\ owner[work[w].closing] = c
    BY <1>w, <2>2, <2>3, KernelClosePeers
  <2>5. work[w].closing = fd BY <1>u, <2>4
  <2>6. work[w].client = c => peer[c] = "again" BY <1>w, <2>2 DEF HoldersInv
  <2>7. QED BY <2>2, <2>5, <2>6 DEF HoldsStale, LastAnswered
<1>4. CASE \E w \in Workers : Erase(w)
  <2>1. PICK w \in Workers : Erase(w) BY <1>4
  <2>2. EraseConnection(work[w].fd) /\ work[w].pc = "erase" BY <2>1 DEF Erase
  <2>3. work[w].fd \in Fds BY <2>2 DEF WorkerInv, WorkerKnows
  <2>4. work[w].fd = fd BY <1>e, <2>2, <2>3
  <2>5. work[w].client # c BY <1>k, <2>2 DEF HoldersInv
  <2>6. QED BY <2>2, <2>4, <2>5 DEF HoldsStale
<1>5. CASE AcceptAndShed
  <2>1. backlog # <<>> /\ peer' = Reset(Head(backlog)) BY <1>5 DEF AcceptAndShed
  <2>2. Head(backlog) = backlog[1] /\ 1 \in 1..Len(backlog)
    BY <2>1, HeadTailProperties, LenProperties, EmptySeq DEF TypeOK
  <2>3. Head(backlog) # c BY <1>k, <2>2 DEF NotYetAccepted
  <2>4. peer'[c] = peer[c] BY <2>1, <2>3 DEF Reset, TypeOK
  <2>5. QED BY <1>w, <2>4
<1>6. CASE \E d \in Clients : Connect(d) \/ Ask(d) \/ HangUp(d)
  BY <1>6, <1>w DEF Connect, Ask, HangUp, TypeOK
<1>7. CASE \E w \in Workers : Serve(w)
  <2>1. PICK w \in Workers : Serve(w) BY <1>7
  <2>2. peer' = peer \/ \E s : peer' = [peer EXCEPT ![s] = "answered"] BY <2>1 DEF Serve
  <2>3. peer'[c] \in {peer[c], "answered"} BY <2>2 DEF TypeOK
  <2>4. QED BY <1>w, <2>3
<1>8. CASE /\ ~(\E e \in batch : HandleEvent(e)) /\ ~(\E t \in expired : RemoveTimedOut(t))
           /\ ~(\E w \in Workers : CloseFd(w) \/ Erase(w) \/ Serve(w))
           /\ ~AcceptAndShed /\ ~(\E d \in Clients : Connect(d) \/ Ask(d) \/ HangUp(d))
  <2>1. peer' = peer
    BY <1>8 DEF Next, LoopStep, PollEvents, EndBatch, HandleListener, AcceptNothing, Accept,
       Insert, Count, Register, CollectTimedOut, WorkerStep, StartTask, CloseStart, CloseEnd,
       CheckAlive, DeleteInterest, vars, kernelVars
  <2>2. QED BY <1>w, <2>1
<1>9. QED BY <1>1, <1>2, <1>3, <1>4, <1>5, <1>6, <1>7, <1>8

\* A client that waits is closed by a number kept for a connection that had it before,
\* by the sweep that found its own connection too old, or, when it asked again, by a
\* task of its own connection that had answered it.
THEOREM ClosedForCauseHolds == Spec => ClosedForCause
<1>1. SocketInv /\ HoldersInv /\ [Next]_vars => HoldersInv' BY StepHolders
<1>2. SocketInv /\ HoldersInv /\ [Next]_vars =>
        [\A c \in Clients, fd \in Fds :
           (owner[fd] = c /\ Waits(c) /\ peer'[c] = "reset") =>
             HoldsStale(fd, c) \/ FoundTooOld(fd, c) \/ LastAnswered(fd, c)]_vars
  BY StepCause
<1>3. QED BY InitHolders, SocketInvariant, <1>1, <1>2, PTL DEF Spec, ClosedForCause
=============================================================================
