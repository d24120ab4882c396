------ MODULE ConnectionProofs ------
(*****************************************************************************)
(* Proofs about Connection for any peers and any limits: first for any       *)
(* number of workers, then when the pool has one, so that the tasks of a     *)
(* connection are serialised.  For one worker, TypeInv says what each field  *)
(* holds and BodyInv bounds the body under way; GreetingInv keeps requests   *)
(* behind the handshake, and InputInv follows their units in order from the  *)
(* client through the socket to the parser.  On these rest StreamInv, which  *)
(* follows the units of responses from the handler back to the client,       *)
(* CauseInv, which finds the reason for which a Connection is to be closed,  *)
(* and HandledInv, which compares what the handlers were given with what the *)
(* stream answers: by it a connection implements Exchange.                   *)
(*****************************************************************************)
EXTENDS Connection, SequenceTheorems, InductionLemmas, TLAPS

-----------------------------------------------------------------------------
(* The inductive invariants                                                  *)

\* The Connection and the event loop have the fields that the invariants look at.
Fields ==
  /\ {"open", "state", "handled", "refed"} \subseteq DOMAIN conn
  /\ conn.handled \in Nat /\ conn.refed \in BOOLEAN /\ conn.open \in BOOLEAN
  /\ "registered" \in DOMAIN main

\* A CLOSED Connection has given up its descriptor; its state may be overwritten by
\* another worker after that, the descriptor never comes back.
ClosedInv == conn.state = "CLOSED" => ~conn.open

\* A Connection that reads has room for one more request.
RoomInv == conn.refed \/ (conn.state = "READING" => conn.handled < MaxRequests)

ConnectionInv == Fields /\ ClosedInv /\ OpenIsRegistered /\ RequestLimit /\ RoomInv

\* The initial state satisfies the invariant.
LEMMA InitConnection == Init => ConnectionInv
<1> SUFFICES ASSUME Init PROVE ConnectionInv OBVIOUS
<1>1. /\ {"open", "state", "handled", "refed"} \subseteq DOMAIN conn
      /\ conn.open = TRUE /\ conn.state = "READING" /\ conn.handled = 0 /\ conn.refed = FALSE
  BY DEF Init
<1>2. "registered" \in DOMAIN main /\ main.registered BY DEF Init
<1>3. Fields /\ ClosedInv
  <2>1. conn.refed \in BOOLEAN /\ conn.open \in BOOLEAN BY <1>1, Zenon
  <2>2. conn.handled \in Nat /\ conn.state # "CLOSED" BY <1>1
  <2>3. QED BY <1>1, <1>2, <2>1, <2>2, Zenon DEF Fields, ClosedInv
<1>4. OpenIsRegistered BY <1>2 DEF OpenIsRegistered
<1>5. 0 < MaxRequests /\ 0 <= MaxRequests BY ConnectionAssumption
<1>6. RequestLimit /\ RoomInv BY <1>1, <1>5 DEF RequestLimit, RoomInv
<1>7. QED BY <1>3, <1>4, <1>6 DEF ConnectionInv

-----------------------------------------------------------------------------
(* Closing                                                                   *)

\* Connection::close gives up the descriptor and leaves the counts alone.
LEMMA CloseObjectFacts ==
  ASSUME ConnectionInv
  PROVE  LET c == CloseObject(conn) IN
         /\ {"open", "state", "handled", "refed"} \subseteq DOMAIN c
         /\ c.open = FALSE /\ c.state = "CLOSED"
         /\ c.handled = conn.handled /\ c.refed = conn.refed
<1> USE DEF ConnectionInv, Fields, ClosedInv
<1>1. CASE conn.state = "CLOSED" BY <1>1 DEF CloseObject
<1>2. CASE conn.state # "CLOSED" BY <1>2 DEF CloseObject
<1>3. QED BY <1>1, <1>2

\* A step that closes the Connection preserves the invariant, whether or not it leaves
\* the Connection registered.
LEMMA ClosePreserves ==
  ASSUME ConnectionInv, conn' = CloseObject(conn), "registered" \in DOMAIN main'
  PROVE  ConnectionInv'
<1>1. /\ {"open", "state", "handled", "refed"} \subseteq DOMAIN conn'
      /\ conn'.open = FALSE /\ conn'.state = "CLOSED"
      /\ conn'.handled = conn.handled /\ conn'.refed = conn.refed
  BY CloseObjectFacts
<1>2. QED
  BY <1>1 DEF ConnectionInv, Fields, ClosedInv, OpenIsRegistered, RequestLimit, RoomInv

\* A step that keeps the four fields, and the registration, does.
LEMMA KeepPreserves ==
  ASSUME ConnectionInv,
         {"open", "state", "handled", "refed"} \subseteq DOMAIN conn',
         conn'.open = conn.open, conn'.state = conn.state,
         conn'.handled = conn.handled, conn'.refed = conn.refed,
         "registered" \in DOMAIN main', main'.registered = main.registered
  PROVE  ConnectionInv'
BY DEF ConnectionInv, Fields, ClosedInv, OpenIsRegistered, RequestLimit, RoomInv

\* remove_connection preserves it: what it erases it has closed, and what it does
\* not find is closed already.
LEMMA RemovePreserves ==
  ASSUME ConnectionInv, RemoveConnection, main' \in {[main EXCEPT !.registered = FALSE],
                                            [main EXCEPT !.registered = FALSE, !.timedOut = FALSE]}
  PROVE  ConnectionInv'
<1>0. "registered" \in DOMAIN main' /\ main'.registered = FALSE
  BY DEF ConnectionInv, Fields
<1>1. CASE main.registered
  <2>1. conn' = CloseObject(conn) BY <1>1 DEF RemoveConnection, CloseConnection
  <2>2. QED BY <1>0, <2>1, ClosePreserves
<1>2. CASE ~main.registered
  <2>1. conn' = conn BY <1>2 DEF RemoveConnection
  <2>2. ~conn.open BY <1>2 DEF ConnectionInv, OpenIsRegistered
  <2>3. QED
    BY <1>0, <2>1, <2>2
       DEF ConnectionInv, Fields, ClosedInv, OpenIsRegistered, RequestLimit, RoomInv
<1>3. QED BY <1>1, <1>2

-----------------------------------------------------------------------------
(* The steps                                                                 *)

\* The steps of a worker that leave the four fields as they are.
LEMMA QuietSteps ==
  ASSUME ConnectionInv, NEW w \in Workers,
         \/ StartTask(w) \/ HandleRead(w) \/ Handshake(w) \/ Recv(w) \/ Dispatch(w)
         \/ HandleWrite(w) \/ Send(w) \/ Advance(w)
  PROVE  ConnectionInv'
<1> USE DEF ConnectionInv, Fields
<1>1. CASE StartTask(w)
  <2>1. conn' = conn /\ main' = [main EXCEPT !.tasks = Tail(@)] BY <1>1 DEF StartTask
  <2>2. QED BY <2>1, KeepPreserves
<1>2. CASE HandleRead(w)
  <2>1. main' = main /\ (conn' = conn \/ conn' = [conn EXCEPT !.quiet = FALSE])
    BY <1>2 DEF HandleRead
  <2>2. QED BY <2>1, KeepPreserves
<1>3. CASE Handshake(w)
  <2>1. main' = main BY <1>3 DEF Handshake
  <2>2. \/ conn' = conn
        \/ conn' = [conn EXCEPT !.ssl = "finish", !.flushed = 0]
        \/ \E n : conn' = [conn EXCEPT !.flushed = n, !.wantWrite = TRUE]
        \/ conn' = [conn EXCEPT !.ssl = "flight"]
        \/ conn' = [conn EXCEPT !.ssl = "done", !.quiet = FALSE]
    BY <1>3 DEF Handshake
  <2>3. QED BY <2>1, <2>2, KeepPreserves
<1>4. CASE Recv(w)
  <2>1. main' = main /\ conn' = [conn EXCEPT !.unread = FALSE] BY <1>4 DEF Recv
  <2>2. QED BY <2>1, KeepPreserves
<1>5. CASE Dispatch(w) BY <1>5, KeepPreserves DEF Dispatch
<1>6. CASE HandleWrite(w)
  <2>1. main' = main /\ (conn' = conn \/ conn' = [conn EXCEPT !.quiet = FALSE])
    BY <1>6 DEF HandleWrite
  <2>2. QED BY <2>1, KeepPreserves
<1>7. CASE Send(w)
  <2>1. main' = main BY <1>7 DEF Send
  <2>2. conn' = conn \/ \E n : conn' = [conn EXCEPT !.flushed = n] BY <1>7 DEF Send
  <2>3. QED BY <2>1, <2>2, KeepPreserves
<1>8. CASE Advance(w)
  <2>1. main' = main /\ \E n : conn' = [conn EXCEPT !.offset = n] BY <1>8 DEF Advance
  <2>2. QED BY <2>1, KeepPreserves
<1>9. QED BY <1>1, <1>2, <1>3, <1>4, <1>5, <1>6, <1>7, <1>8

\* The end of feed: a request is counted when it is complete, and only a Connection
\* that reads does so without being `refed'.
LEMMA FeedPreserves ==
  ASSUME ConnectionInv, NEW w \in Workers, FeedParser(w)
  PROVE  ConnectionInv'
<1> USE DEF ConnectionInv, Fields
<1>1. main' = main BY DEF FeedParser
<1> DEFINE Ended(p) == [conn EXCEPT !.parser = p, !.unread = sock.rx # <<>>,
                                    !.refed = @ \/ conn.state # "READING"]
<1>2. \/ \E p : conn' = [conn EXCEPT !.parser = p]
      \/ \E p : conn' = Ended(p)
      \/ \E p : conn' = [Ended(p) EXCEPT !.state = "PROCESSING", !.handled = @ + 1]
  BY DEF FeedParser
<1>3. \A p : /\ {"open", "state", "handled", "refed"} \subseteq DOMAIN Ended(p)
             /\ Ended(p).open = conn.open /\ Ended(p).state = conn.state
             /\ Ended(p).handled = conn.handled
             /\ Ended(p).refed = (conn.refed \/ conn.state # "READING")
  OBVIOUS
<1>4. CASE \E p : conn' = [conn EXCEPT !.parser = p]
  <2>1. PICK p : conn' = [conn EXCEPT !.parser = p] BY <1>4
  <2>2. QED BY <1>1, <2>1, KeepPreserves
<1>5. CASE \E p : conn' = Ended(p)
  <2>1. /\ {"open", "state", "handled", "refed"} \subseteq DOMAIN conn'
        /\ conn'.open = conn.open /\ conn'.state = conn.state
        /\ conn'.handled = conn.handled
        /\ conn'.refed = (conn.refed \/ conn.state # "READING")
    BY <1>3, <1>5
  <2>2. QED BY <1>1, <2>1 DEF ClosedInv, OpenIsRegistered, RequestLimit, RoomInv
<1>6. CASE \E p : conn' = [Ended(p) EXCEPT !.state = "PROCESSING", !.handled = @ + 1]
  <2>1. PICK p : conn' = [Ended(p) EXCEPT !.state = "PROCESSING", !.handled = @ + 1]
    BY <1>6
  <2>2. PICK e : e = Ended(p) OBVIOUS
  <2>3. /\ {"open", "state", "handled", "refed"} \subseteq DOMAIN e
        /\ e.open = conn.open /\ e.state = conn.state /\ e.handled = conn.handled
        /\ e.refed = (conn.refed \/ conn.state # "READING")
        /\ conn' = [e EXCEPT !.state = "PROCESSING", !.handled = @ + 1]
    BY <1>3, <2>1, <2>2
  <2>4. /\ {"open", "state", "handled", "refed"} \subseteq DOMAIN conn'
        /\ conn'.open = conn.open /\ conn'.state = "PROCESSING"
        /\ conn'.handled = conn.handled + 1
        /\ conn'.refed = (conn.refed \/ conn.state # "READING")
    BY <2>3
  <2>5. conn'.handled \in Nat /\ conn'.state # "CLOSED" /\ conn'.state # "READING" BY <2>4
  <2>6. conn'.refed \in BOOLEAN /\ conn'.open \in BOOLEAN BY <2>4, Zenon
  <2>7. Fields' /\ ClosedInv' /\ RoomInv' BY <1>1, <2>4, <2>5, <2>6, Zenon DEF ClosedInv, RoomInv
  <2>8. OpenIsRegistered' BY <1>1, <2>4, Zenon DEF OpenIsRegistered
  <2>9. conn'.refed \/ conn'.handled <= MaxRequests
    <3>1. CASE conn.refed \/ conn.state # "READING" BY <2>4, <3>1, Zenon
    <3>2. CASE ~conn.refed /\ conn.state = "READING"
      <4>1. conn.handled < MaxRequests BY <3>2, Zenon DEF RoomInv
      <4>2. QED BY <2>4, <4>1, ConnectionAssumption
    <3>3. QED BY <3>1, <3>2, Zenon
  <2>10. QED BY <2>7, <2>8, <2>9, Zenon DEF RequestLimit
<1>7. QED BY <1>2, <1>4, <1>5, <1>6

\* The end of a response: a Connection reads again only below the limit.
LEMMA WritePreserves ==
  ASSUME ConnectionInv, NEW w \in Workers, PrepareResponse(w) \/ FinishWrite(w)
  PROVE  ConnectionInv'
<1> USE DEF ConnectionInv, Fields
<1>1. main' = main BY DEF PrepareResponse, FinishWrite
<1>2. CASE PrepareResponse(w)
  <2>1. \E a : conn' = [conn EXCEPT !.out = a, !.offset = 0, !.state = "WRITING"]
    BY <1>2 DEF PrepareResponse
  <2>2. /\ {"open", "state", "handled", "refed"} \subseteq DOMAIN conn'
        /\ conn'.open = conn.open /\ conn'.state = "WRITING"
        /\ conn'.handled = conn.handled /\ conn'.refed = conn.refed
    BY <2>1
  <2>3. QED BY <1>1, <2>2 DEF ClosedInv, OpenIsRegistered, RequestLimit, RoomInv
<1>3. CASE FinishWrite(w)
  <2>1. PICK c : c = Cleared(conn) OBVIOUS
  <2>2. /\ {"open", "state", "handled", "refed"} \subseteq DOMAIN c
        /\ c.open = conn.open /\ c.state = conn.state
        /\ c.handled = conn.handled /\ c.refed = conn.refed
    BY <2>1 DEF Cleared
  <2>3. \/ conn' = conn
        \/ conn' = c
        \/ /\ UnderLimit(conn.handled)
           /\ \E p, d : conn' = [c EXCEPT !.parser = p, !.state = "READING", !.dropped = d]
    BY <1>3, <2>1, ZenonT(30) DEF FinishWrite, KeepsAlive
  <2>4. CASE conn' = conn \/ conn' = c BY <1>1, <2>2, <2>4, KeepPreserves
  <2>5. CASE /\ UnderLimit(conn.handled)
             /\ \E p, d : conn' = [c EXCEPT !.parser = p, !.state = "READING", !.dropped = d]
    <3>1. /\ {"open", "state", "handled", "refed"} \subseteq DOMAIN conn'
          /\ conn'.open = conn.open /\ conn'.state = "READING"
          /\ conn'.handled = conn.handled /\ conn'.refed = conn.refed
      BY <2>2, <2>5
    <3>2. conn.handled < MaxRequests BY <2>5 DEF UnderLimit
    <3>3. QED BY <1>1, <3>1, <3>2 DEF ClosedInv, OpenIsRegistered, RequestLimit, RoomInv
  <2>6. QED BY <2>3, <2>4, <2>5
<1>4. QED BY <1>2, <1>3

\* The steps that close or remove.
LEMMA RemovalPreserves ==
  ASSUME ConnectionInv,
         (\E w \in Workers : CloseInTask(w) \/ CheckAlive(w)) \/ HandleEvent \/ RemoveTimedOut
  PROVE  ConnectionInv'
<1> USE DEF ConnectionInv, Fields
<1>1. CASE \E w \in Workers : CloseInTask(w)
  <2>1. conn' = CloseObject(conn) /\ main' = main BY <1>1 DEF CloseInTask, CloseConnection
  <2>2. QED BY <2>1, ClosePreserves
<1>2. CASE \E w \in Workers : CheckAlive(w)
  <2>1. CASE IsAlive(conn) BY <1>2, <2>1, KeepPreserves DEF CheckAlive
  <2>2. CASE ~IsAlive(conn) BY <1>2, <2>2, RemovePreserves DEF CheckAlive
  <2>3. QED BY <2>1, <2>2
<1>3. CASE HandleEvent
  <2>1. CASE "RDHUP" \in Ready BY <1>3, <2>1, RemovePreserves DEF HandleEvent
  <2>2. CASE "RDHUP" \notin Ready
    <3>1. conn' = conn /\ (main' = main \/ \E r : main' = [main EXCEPT !.tasks = r])
      BY <1>3, <2>2 DEF HandleEvent
    <3>2. QED BY <3>1, KeepPreserves
  <2>3. QED BY <2>1, <2>2
<1>4. CASE RemoveTimedOut BY <1>4, RemovePreserves DEF RemoveTimedOut
<1>5. QED BY <1>1, <1>2, <1>3, <1>4

\* Time, the network and the peer leave the four fields alone.
LEMMA OutsidePreserves ==
  ASSUME ConnectionInv,
         Quieten \/ CollectTimedOut \/ Greet \/ SendUnit \/ Receive \/ HangUp \/ UNCHANGED vars
  PROVE  ConnectionInv'
<1> USE DEF ConnectionInv, Fields
<1>1. /\ conn' = conn \/ conn' = [conn EXCEPT !.quiet = TRUE]
      /\ main' = main \/ main' = [main EXCEPT !.timedOut = TRUE]
  BY DEF Quieten, CollectTimedOut, Greet, SendUnit, Receive, HangUp, vars
<1>2. QED BY <1>1, KeepPreserves

\* Every step preserves the invariant.
LEMMA ConnectionStep ==
  ASSUME ConnectionInv, [Next]_vars
  PROVE  ConnectionInv'
BY QuietSteps, FeedPreserves, WritePreserves, RemovalPreserves, OutsidePreserves
   DEF Next, WorkerStep

\* The Connection is always as ConnectionInv says.
THEOREM ConnectionInvariant == Spec => []ConnectionInv
<1>1. ConnectionInv /\ [Next]_vars => ConnectionInv' BY ConnectionStep
<1>2. QED BY InitConnection, <1>1, PTL DEF Spec

\* A descriptor is never left open outside connections_.
THEOREM OpenIsRegisteredHolds == Spec => []OpenIsRegistered
<1>1. ConnectionInv => OpenIsRegistered BY DEF ConnectionInv
<1>2. QED BY <1>1, ConnectionInvariant, PTL

\* A connection serves at most keepalive_max_requests_ requests.
THEOREM RequestLimitHolds == Spec => []RequestLimit
<1>1. ConnectionInv => RequestLimit BY DEF ConnectionInv
<1>2. QED BY <1>1, ConnectionInvariant, PTL

-----------------------------------------------------------------------------
(* One worker: the inductive invariants                                      *)

OneWorker == \A v, w \in Workers : v = w

\* What a client sends and what it is sent.
RequestUnit == Request \X Nat
ResponseUnit == Request \X Nat \X Status
Wire == Nat \X Nat \X (Status \cup {"flight"})

ClientType ==
  /\ \E p \in Peers : client.script = p.script /\ client.flight = p.flight
  /\ {"script", "flight", "hs", "seen", "req", "pos", "got"} \subseteq DOMAIN client
  /\ client.hs \in {"start", "hello", "done"}
  /\ client.req \in 1..(Len(client.script) + 1) /\ client.pos \in Nat

\* A parser past a request line knows whose it is, and holds nothing back before the
\* request is complete.
ParserOf(p) ==
  /\ {"stage", "req", "read", "buffer"} \subseteq DOMAIN p
  /\ p.stage \in {"head", "body", "complete", "error"} /\ p.read \in Nat
  /\ p.buffer \in Seq(RequestUnit)
  /\ p.stage \in {"head", "body"} => p.buffer = <<>>
  /\ p.stage # "head" => p.req \in Request
  /\ p.stage = "body" => p.read <= Kind(p.req).body

\* write_offset_ stays within write_buffer_.
ConnType ==
  /\ {"open", "state", "parser", "ssl", "flushed", "out", "offset", "handled", "quiet", "refed",
      "dropped", "unread", "wantWrite"} \subseteq DOMAIN conn
  /\ conn.open \in BOOLEAN /\ conn.quiet \in BOOLEAN
  /\ conn.state \in {"READING", "PROCESSING", "WRITING", "CLOSED"}
  /\ conn.ssl \in {"none", "hello", "flight", "finish", "done"}
  /\ conn.flushed \in Nat /\ (conn.ssl = "none" => conn.flushed = 0) /\ conn.handled \in Nat
  /\ conn.out \in Seq(ResponseUnit) /\ conn.offset \in 0..Len(conn.out)

\* Units of the handshake precede those of requests in the socket, and none are left
\* when it is done.
Handshaking == {Hello, Garbage, Finished}
SockType ==
  /\ {"rx", "tx", "fin", "armed", "noSpace"} \subseteq DOMAIN sock
  /\ sock.rx \in Seq(RequestUnit \cup Handshaking) /\ sock.tx \in Seq(Wire)
  /\ Len(sock.tx) <= SendCap
  /\ client.hs = "start" => conn.ssl = "hello" /\ sock.rx = <<>>
  /\ client.hs = "hello" => /\ ~Shaken(conn) /\ Len(sock.rx) <= 1
                            /\ conn.ssl # "hello" => sock.rx = <<>>
  /\ \A i \in 1..Len(sock.rx) :
       \/ sock.rx[i] \in RequestUnit
       \/ conn.ssl = "hello" /\ i = 1
       \/ conn.ssl = "hello" /\ i = 2 /\ sock.rx[i] = Finished
       \/ conn.ssl \in {"flight", "finish"} /\ i = 1

MainType ==
  {"registered", "tasks", "timedOut"} \subseteq DOMAIN main /\ main.tasks \in Seq(SUBSET Events)

\* What a worker has in its hands.
WorkOf(w) ==
  /\ {"pc", "events", "arg", "inRead"} \subseteq DOMAIN work[w]
  /\ work[w].pc \in WorkPC /\ work[w].events \subseteq Events
  /\ work[w].pc = "accept" => ~Shaken(conn)
  /\ work[w].pc \in {"recv", "feed"} => Shaken(conn)
  /\ work[w].pc = "feed" => work[w].arg \in Seq(RequestUnit) /\ Len(work[w].arg) \in 1..ReadBuf
  /\ work[w].pc = "dispatch" => work[w].arg \in [req : Request, body : Nat]
  /\ work[w].pc = "prepare" => work[w].arg \in Seq(ResponseUnit)
  /\ work[w].pc = "advance" =>
       work[w].arg \in Nat /\ conn.offset + work[w].arg <= Len(conn.out)

WorkType ==
  /\ Workers \subseteq DOMAIN work /\ \A w \in Workers : WorkOf(w)
  /\ served \in Seq([req : Nat, body : Nat])

TypeInv == ClientType /\ ParserOf(conn.parser) /\ ConnType /\ SockType /\ MainType /\ WorkType

\* The body under way is within the limit as long as the Connection reads, and so is
\* one on its way to its handler.
Bounded(request) == request.body <= MaxBody + ReadBuf - 1
BodyInv ==
  \/ conn.refed
  \/ /\ \A i \in 1..Len(served) : Bounded(served[i])
     /\ \A w \in Workers : work[w].pc = "dispatch" => Bounded(work[w].arg)
     /\ \/ conn.state # "READING" \/ conn.parser.stage = "head"
        \/ conn.parser.stage = "body" /\ conn.parser.read < MaxBody
        \/ \E w \in Workers : work[w].pc = "prepare"

-----------------------------------------------------------------------------
(* Take and Drop                                                             *)

\* What Drop leaves.
LEMMA DropFacts ==
  ASSUME NEW S, NEW s, s \in Seq(S), NEW k \in 0..Len(s)
  PROVE  /\ Drop(s, k) \in Seq(S) /\ Len(Drop(s, k)) = Len(s) - k
         /\ \A i \in 1..(Len(s) - k) : Drop(s, k)[i] = s[k + i]
<1> DEFINE d == Drop(s, k)
           n == Len(s)
<1>1. n \in Nat /\ k \in Nat /\ k <= n BY LenProperties
<1>2. \A i \in (k + 1)..n : s[i] \in S BY <1>1, ElementOfSeq
<1>3. /\ d \in Seq(S)
      /\ Len(d) = IF k + 1 <= n THEN n - (k + 1) + 1 ELSE 0
      /\ \A i \in 1..n - (k + 1) + 1 : d[i] = s[(k + 1) + i - 1]
  <2> HIDE DEF n
  <2>1. k + 1 \in Int /\ n \in Int BY <1>1
  <2>2. QED BY <1>2, <2>1, SubSeqProperties DEF Drop, n
<1> HIDE DEF d
<1>4. Len(d) = n - k BY <1>1, <1>3
<1>5. ASSUME NEW i \in 1..(n - k) PROVE d[i] = s[k + i]
  <2>1. i \in 1..n - (k + 1) + 1 /\ (k + 1) + i - 1 = k + i BY <1>1
  <2>2. QED BY <1>3, <2>1
<1>6. QED BY <1>3, <1>4, <1>5 DEF d

\* What Take takes.
LEMMA TakeFacts ==
  ASSUME NEW S, NEW s, s \in Seq(S), NEW k \in 0..Len(s)
  PROVE  /\ Take(s, k) \in Seq(S) /\ Len(Take(s, k)) = k
         /\ \A i \in 1..k : Take(s, k)[i] = s[i]
<1> DEFINE d == Take(s, k)
<1>1. Len(s) \in Nat /\ k \in Nat /\ k <= Len(s) BY LenProperties
<1>2. \A i \in 1..k : s[i] \in S BY <1>1, ElementOfSeq
<1>3. /\ d \in Seq(S) /\ Len(d) = IF 1 <= k THEN k - 1 + 1 ELSE 0
      /\ \A i \in 1..k - 1 + 1 : d[i] = s[1 + i - 1]
  <2>1. k \in Int /\ 1 \in Int BY <1>1
  <2>2. QED BY <1>2, <2>1, SubSeqProperties DEF Take
<1> HIDE DEF d
<1>4. Len(d) = k BY <1>1, <1>3
<1>5. ASSUME NEW i \in 1..k PROVE d[i] = s[i]
  <2>1. i \in 1..k - 1 + 1 /\ 1 + i - 1 = i BY <1>1
  <2>2. QED BY <1>3, <2>1
<1>6. QED BY <1>3, <1>4, <1>5 DEF d

\* Nothing is dropped, or everything.
LEMMA DropEnds ==
  ASSUME NEW S, NEW s, s \in Seq(S)
  PROVE  Drop(s, 0) = s /\ Drop(s, Len(s)) = <<>>
<1>1. Len(s) \in Nat /\ 0 \in 0..Len(s) /\ Len(s) \in 0..Len(s) BY LenProperties
<1>2. Drop(s, 0) = s
  <2> DEFINE d == Drop(s, 0)
             k == 0
  <2>0. k \in 0..Len(s) BY <1>1
  <2> HIDE DEF k
  <2>1. /\ Drop(s, k) \in Seq(S) /\ Len(Drop(s, k)) = Len(s) - k
        /\ \A i \in 1..(Len(s) - k) : Drop(s, k)[i] = s[k + i]
    BY <2>0, DropFacts
  <2>2. d \in Seq(S) /\ Len(d) = Len(s) BY <1>1, <2>1 DEF k
  <2>3. \A i \in 1..Len(s) : d[i] = s[i]
    <3>1. ASSUME NEW i \in 1..Len(s) PROVE d[i] = s[i]
      <4>1. i \in 1..(Len(s) - k) /\ k + i = i BY <1>1 DEF k
      <4>2. Drop(s, k)[i] = s[k + i] BY <2>1, <4>1
      <4>3. QED BY <4>1, <4>2 DEF k
    <3>2. QED BY <3>1
  <2> HIDE DEF d
  <2>4. d = s BY <2>2, <2>3, SeqEqual
  <2>5. QED BY <2>4 DEF d
<1>3. Drop(s, Len(s)) = <<>>
  <2> DEFINE d == Drop(s, Len(s))
             k == Len(s)
  <2>1. k \in 0..Len(s) BY <1>1
  <2> HIDE DEF k
  <2>2. /\ Drop(s, k) \in Seq(S) /\ Len(Drop(s, k)) = Len(s) - k
    BY <2>1, DropFacts
  <2>3. d \in Seq(S) /\ Len(d) = 0 BY <1>1, <2>2 DEF k
  <2> HIDE DEF d
  <2>4. d = <<>> BY <2>3, EmptySeq
  <2>5. QED BY <2>4 DEF d
<1>4. QED BY <1>2, <1>3

\* What is dropped from the first part leaves the second alone.
LEMMA DropOfConcat ==
  ASSUME NEW S, NEW h, NEW c, h \in Seq(S), c \in Seq(S), NEW k \in 0..Len(h)
  PROVE  Drop(h \o c, k) = Drop(h, k) \o c
<1> DEFINE hc == h \o c
           d == Drop(h, k)
           x == Drop(hc, k)
           y == d \o c
<1>1. /\ hc \in Seq(S) /\ Len(hc) = Len(h) + Len(c) /\ Len(h) \in Nat /\ Len(c) \in Nat
      /\ \A i \in 1..Len(h) + Len(c) : hc[i] = IF i <= Len(h) THEN h[i] ELSE c[i - Len(h)]
  BY ConcatProperties, LenProperties
<1>2. /\ d \in Seq(S) /\ Len(d) = Len(h) - k /\ \A i \in 1..(Len(h) - k) : d[i] = h[k + i]
  BY DropFacts
<1> HIDE DEF hc, d
<1>3. k \in 0..Len(hc) /\ k \in Nat /\ k <= Len(h) BY <1>1
<1>4. /\ x \in Seq(S) /\ Len(x) = Len(hc) - k /\ \A i \in 1..(Len(hc) - k) : x[i] = hc[k + i]
  <2>1. hc \in Seq(S) /\ k \in 0..Len(hc) BY <1>1, <1>3
  <2>2. QED BY <2>1, DropFacts
<1>5. /\ y \in Seq(S) /\ Len(y) = Len(d) + Len(c)
      /\ \A i \in 1..Len(d) + Len(c) : y[i] = IF i <= Len(d) THEN d[i] ELSE c[i - Len(d)]
  BY <1>2, ConcatProperties
<1> HIDE DEF x, y
<1>6. Len(x) = Len(y) BY <1>1, <1>2, <1>3, <1>4, <1>5
<1>7. ASSUME NEW i \in 1..Len(x) PROVE x[i] = y[i]
  <2>1. i \in 1..(Len(hc) - k) /\ i \in 1..Len(d) + Len(c) BY <1>4, <1>5, <1>6
  <2>2. k + i \in 1..Len(h) + Len(c) BY <1>1, <1>3, <2>1
  <2>3. x[i] = IF k + i <= Len(h) THEN h[k + i] ELSE c[(k + i) - Len(h)] BY <1>1, <1>4, <2>1, <2>2
  <2>4. y[i] = IF i <= Len(d) THEN d[i] ELSE c[i - Len(d)] BY <1>5, <2>1
  <2>5. i \in Nat /\ i >= 1 BY <2>1
  <2>6. CASE k + i <= Len(h)
    <3>1. i <= Len(d) /\ i \in 1..(Len(h) - k) BY <1>1, <1>2, <1>3, <2>5, <2>6
    <3>2. QED BY <1>2, <2>3, <2>4, <2>6, <3>1
  <2>7. CASE ~(k + i <= Len(h))
    <3>1. ~(i <= Len(d)) /\ (k + i) - Len(h) = i - Len(d) BY <1>1, <1>2, <1>3, <2>5, <2>7
    <3>2. QED BY <2>3, <2>4, <2>7, <3>1
  <2>8. QED BY <2>6, <2>7
<1>8. x = y BY <1>4, <1>5, <1>6, <1>7, SeqEqual
<1>9. QED BY <1>8 DEF x, y, hc, d

\* What is taken and what is left are the whole.
LEMMA TakeAndDrop ==
  ASSUME NEW S, NEW s, s \in Seq(S), NEW k \in 0..Len(s)
  PROVE  Take(s, k) \o Drop(s, k) = s
<1> DEFINE t == Take(s, k)
           d == Drop(s, k)
           x == t \o d
<1>1. /\ t \in Seq(S) /\ Len(t) = k /\ \A i \in 1..k : t[i] = s[i] BY TakeFacts
<1>2. /\ d \in Seq(S) /\ Len(d) = Len(s) - k /\ \A i \in 1..(Len(s) - k) : d[i] = s[k + i]
  BY DropFacts
<1> HIDE DEF t, d
<1>3. /\ x \in Seq(S) /\ Len(x) = Len(t) + Len(d)
      /\ \A i \in 1..Len(t) + Len(d) : x[i] = IF i <= Len(t) THEN t[i] ELSE d[i - Len(t)]
  BY <1>1, <1>2, ConcatProperties
<1> HIDE DEF x
<1>4. Len(s) \in Nat /\ k \in Nat /\ k <= Len(s) BY LenProperties
<1>5. Len(x) = Len(s) BY <1>1, <1>2, <1>3, <1>4
<1>6. ASSUME NEW i \in 1..Len(x) PROVE x[i] = s[i]
  <2>1. i \in 1..Len(t) + Len(d) /\ i \in Nat /\ i >= 1 /\ i <= Len(s) BY <1>3, <1>4, <1>5
  <2>2. CASE i <= k BY <1>1, <1>3, <2>1, <2>2
  <2>3. CASE ~(i <= k)
    <3>1. i - k \in 1..(Len(s) - k) /\ k + (i - k) = i BY <1>4, <2>1, <2>3
    <3>2. x[i] = d[i - k] BY <1>1, <1>3, <2>1, <2>3
    <3>3. d[i - k] = s[k + (i - k)] BY <1>2, <3>1
    <3>4. QED BY <3>1, <3>2, <3>3
  <2>4. QED BY <2>2, <2>3
<1>7. x = s BY <1>3, <1>5, <1>6, SeqEqual
<1>8. QED BY <1>7 DEF x, t, d

\* Dropping commutes with what comes at the end.
LEMMA DropOfAppend ==
  ASSUME NEW S, NEW s, NEW u, s \in Seq(S), u \in S, NEW k \in 0..Len(s)
  PROVE  Drop(Append(s, u), k) = Append(Drop(s, k), u)
<1> DEFINE c == <<u>>
           d == Drop(s, k)
<1>1. c \in Seq(S) OBVIOUS
<1>2. d \in Seq(S) BY DropFacts
<1>3. Append(s, u) = s \o c /\ Append(d, u) = d \o c
  <2> HIDE DEF d
  <2>1. QED BY <1>2, AppendIsConcat
<1> HIDE DEF c, d
<1>4. Drop(s \o c, k) = Drop(s, k) \o c BY <1>1, DropOfConcat
<1>5. QED BY <1>3, <1>4 DEF d

\* Dropping the first unit before the others.
LEMMA DropOfTail ==
  ASSUME NEW S, NEW s, s \in Seq(S), s # <<>>, NEW k \in 1..Len(s)
  PROVE  Drop(Tail(s), k - 1) = Drop(s, k)
<1> DEFINE t == Tail(s)
           m == k - 1
           x == Drop(t, m)
           y == Drop(s, k)
<1>1. Len(s) \in Nat /\ k \in 0..Len(s) /\ k \in Nat /\ k >= 1 /\ k <= Len(s) BY LenProperties
<1>2. t \in Seq(S) /\ Len(t) = Len(s) - 1 /\ \A i \in 1..Len(t) : t[i] = s[i + 1]
  BY HeadTailProperties
<1>3. m \in 0..Len(t) /\ m + 1 = k BY <1>1, <1>2
<1> HIDE DEF t, m
<1>4. x \in Seq(S) /\ Len(x) = Len(t) - m /\ \A i \in 1..(Len(t) - m) : x[i] = t[m + i]
  <2>1. t \in Seq(S) /\ m \in 0..Len(t) BY <1>2, <1>3
  <2>2. QED BY <2>1, DropFacts
<1>5. y \in Seq(S) /\ Len(y) = Len(s) - k /\ \A i \in 1..(Len(s) - k) : y[i] = s[k + i]
  BY <1>1, DropFacts
<1> HIDE DEF x, y
<1>6. Len(x) = Len(y)
  <2>1. Len(x) = Len(t) - m /\ Len(y) = Len(s) - k /\ Len(t) = Len(s) - 1 BY <1>2, <1>4, <1>5
  <2>2. m + 1 = k /\ m \in Int BY <1>3
  <2>3. QED BY <1>1, <2>1, <2>2
<1>7. ASSUME NEW i \in 1..Len(x) PROVE x[i] = y[i]
  <2>1. /\ i \in 1..(Len(t) - m) /\ i \in 1..(Len(s) - k) /\ m + i \in 1..Len(t)
        /\ (m + i) + 1 = k + i
    BY <1>1, <1>2, <1>3, <1>4, <1>5, <1>6
  <2>2. t[m + i] = s[(m + i) + 1] BY <1>2, <2>1
  <2>3. QED BY <1>4, <1>5, <2>1, <2>2
<1>8. x = y BY <1>4, <1>5, <1>6, <1>7, SeqEqual
<1>9. QED BY <1>8 DEF x, y, t, m

-----------------------------------------------------------------------------
(* Types                                                                     *)

\* The units of requests and responses.
LEMMA ScriptFacts ==
  ASSUME ClientType
  PROVE  /\ client.flight \in Nat /\ Request \subseteq Nat \ {0}
         /\ \A r \in Request : Kind(r).body \in Nat
         /\ \A r \in Request, status \in Status : Response(r, status) \in Seq(ResponseUnit)
<1>1. PICK p \in Peers : client.script = p.script /\ client.flight = p.flight BY DEF ClientType
<1>2. /\ p.script \in Seq([body : Nat, keep : BOOLEAN, how : {"ok", "bad", "throws"},
                           size : Nat \ {0}])
      /\ p.flight \in Nat /\ ErrorLen \in Nat
  BY ConnectionAssumption
<1>3. Request \subseteq Nat \ {0} BY <1>1, <1>2 DEF Request
<1>4. \A r \in Request : Kind(r).body \in Nat /\ Kind(r).size \in Nat
  <2>1. \A r \in 1..Len(p.script) :
          p.script[r] \in [body : Nat, keep : BOOLEAN, how : {"ok", "bad", "throws"},
                          size : Nat \ {0}]
    BY <1>2, ElementOfSeq
  <2>2. QED BY <1>1, <2>1 DEF Request, Kind
<1>5. ASSUME NEW r \in Request, NEW status \in Status
      PROVE  Response(r, status) \in Seq(ResponseUnit)
  <2>1. Length(r, status) \in Nat BY <1>2, <1>4 DEF Length
  <2>2. \A i \in 1..Length(r, status) : <<r, i, status>> \in ResponseUnit
    BY <2>1 DEF ResponseUnit
  <2>3. QED BY <2>1, <2>2 DEF Response
<1>6. QED BY <1>1, <1>2, <1>3, <1>4, <1>5

\* The peer stays who it is, and only its own steps change it.
Steady == /\ client'.script = client.script /\ Request' = Request
          /\ RequestUnit' = RequestUnit /\ ResponseUnit' = ResponseUnit

\* No step changes who the client is, and each keeps the types of what it knows.
LEMMA ClientKept ==
  ASSUME ClientType, [Next]_vars
  PROVE  ClientType' /\ Steady
<1>1. CASE client' = client BY <1>1 DEF ClientType, Steady, Request, RequestUnit, ResponseUnit
<1>2. CASE Greet \/ SendUnit \/ Receive
  <2>1. /\ client'.script = client.script /\ client'.flight = client.flight
        /\ {"script", "flight", "hs", "seen", "req", "pos", "got"} \subseteq DOMAIN client'
        /\ client'.hs \in {"start", "hello", "done"}
        /\ client'.req \in 1..(Len(client.script) + 1) /\ client'.pos \in Nat
    <3>1. CASE Greet BY <1>2, <3>1 DEF ClientType, Greet
    <3>2. CASE SendUnit
      <4>1. Len(client.script) \in Nat BY ConnectionAssumption DEF ClientType
      <4>2. \/ client' = [client EXCEPT !.pos = @ + 1]
            \/ client' = [client EXCEPT !.pos = 0, !.req = @ + 1]
        BY <3>2 DEF SendUnit
      <4>3. client.req \in 1..Len(client.script) BY <3>2 DEF SendUnit, Request
      <4>4. CASE client' = [client EXCEPT !.pos = @ + 1] BY <4>1, <4>4 DEF ClientType
      <4>5. CASE client' = [client EXCEPT !.pos = 0, !.req = @ + 1]
        BY <4>1, <4>3, <4>5 DEF ClientType
      <4>6. QED BY <4>2, <4>4, <4>5
    <3>3. CASE Receive
      <4>1. \/ \E n : client' = [client EXCEPT !.seen = n]
            \/ \E g : client' = [client EXCEPT !.got = g]
        BY <3>3 DEF Receive
      <4>2. QED BY <4>1 DEF ClientType
    <3>4. QED BY <1>2, <3>1, <3>2, <3>3
  <2>2. QED BY <2>1 DEF ClientType, Steady, Request, RequestUnit, ResponseUnit
<1>3. ASSUME NEW w \in Workers, WorkerStep(w) PROVE client' = client
  BY <1>3 DEF WorkerStep, StartTask, HandleRead, Handshake, Recv, FeedParser, Dispatch,
     PrepareResponse, HandleWrite, Send, Advance, FinishWrite, CloseInTask, CheckAlive
<1>4. CASE HandleEvent \/ Quieten \/ CollectTimedOut \/ RemoveTimedOut \/ HangUp \/ UNCHANGED vars
  BY <1>1, <1>4 DEF HandleEvent, Quieten, CollectTimedOut, RemoveTimedOut, HangUp, vars
<1>5. QED BY <1>1, <1>2, <1>3, <1>4 DEF Next

\* What leaves the fields of a type alone keeps it.
LEMMA ConnFrame ==
  ASSUME ParserOf(conn.parser), ConnType, Steady, conn' = conn
  PROVE  ParserOf(conn.parser)' /\ ConnType'
BY DEF ParserOf, ConnType, Steady, Kind

\* Likewise for the socket: what leaves it and the handshake alone keeps its types.
LEMMA SockFrame ==
  ASSUME SockType, Steady, sock' = sock, client'.hs = client.hs, conn'.ssl = conn.ssl
  PROVE  SockType'
<1>1. Shaken(conn') = Shaken(conn) BY DEF Shaken
<1>2. QED BY <1>1, Zenon DEF SockType, Steady, Handshaking, Hello, Garbage, Finished, Wire

\* With one worker, what it has in its hands is all the work there is.
LEMMA WorkOne ==
  ASSUME OneWorker, NEW w \in Workers, WorkOf(w)', Workers \subseteq DOMAIN work',
         served' \in Seq([req : Nat, body : Nat])
  PROVE  WorkType'
<1>1. \A v \in Workers : v = w BY DEF OneWorker
<1>2. QED BY <1>1, Zenon DEF WorkType

\* A worker's way to a place where it has nothing in its hands.
PlainPC == WorkPC \ {"accept", "recv", "feed", "dispatch", "prepare", "advance"}

\* A worker that goes to such a place, or back to its queue, keeps the types of its work.
LEMMA PlainWork ==
  ASSUME OneWorker, WorkType, NEW w \in Workers, served' = served,
         \/ Leave(w) \/ work' = [work EXCEPT ![w] = IdleWorker]
         \/ \E pc \in PlainPC : Goto(w, pc) \/ \E arg : GotoWith(w, pc, arg)
  PROVE  WorkType'
<1> USE DEF WorkType
<1>1. WorkOf(w) /\ Workers \subseteq DOMAIN work' BY DEF Leave, Goto, GotoWith
<1>2. /\ {"pc", "events", "arg", "inRead"} \subseteq DOMAIN work'[w]
      /\ work'[w].pc \in PlainPC /\ work'[w].events \subseteq Events
  <2>1. CASE Leave(w)
    <3>1. AfterRead(work[w].events) \in PlainPC /\ "check" \in PlainPC
      BY DEF AfterRead, PlainPC, WorkPC
    <3>2. QED BY <1>1, <2>1, <3>1 DEF Leave, WorkOf
  <2>2. CASE work' = [work EXCEPT ![w] = IdleWorker]
    BY <1>1, <2>2 DEF WorkOf, IdleWorker, PlainPC, WorkPC
  <2>3. ASSUME NEW pc \in PlainPC, Goto(w, pc) \/ \E arg : GotoWith(w, pc, arg)
        PROVE  /\ {"pc", "events", "arg", "inRead"} \subseteq DOMAIN work'[w]
               /\ work'[w].pc \in PlainPC /\ work'[w].events \subseteq Events
    <3>1. CASE Goto(w, pc) BY <1>1, <3>1 DEF WorkOf, Goto
    <3>2. ASSUME NEW arg, GotoWith(w, pc, arg)
          PROVE  /\ {"pc", "events", "arg", "inRead"} \subseteq DOMAIN work'[w]
                 /\ work'[w].pc = pc /\ work'[w].events = work[w].events
      BY <1>1, <3>2 DEF WorkOf, GotoWith
    <3>3. QED BY <1>1, <2>3, <3>1, <3>2 DEF WorkOf
  <2>4. QED BY <2>1, <2>2, <2>3
<1>3. WorkOf(w)' BY <1>2 DEF WorkOf, PlainPC
<1>4. QED BY <1>1, <1>3, WorkOne

-----------------------------------------------------------------------------
(* The parser                                                                *)

\* feed leaves the parser in a state that its result tells, with no more of the body
\* read than was there.
LEMMA FeedFacts ==
  ASSUME ClientType, NEW p, ParserOf(p), NEW chunk \in Seq(RequestUnit), Len(chunk) > 0,
         NEW fed, fed = Feed(p, chunk)
  PROVE  /\ ParserOf(fed.parser) /\ fed.parser.req \in Request
         /\ fed.result \in {"ERROR", "COMPLETE", "NEED_MORE_DATA"}
         /\ fed.result = "ERROR" => fed.parser.stage = "error"
         /\ fed.result = "COMPLETE" => fed.parser.stage = "complete"
         /\ fed.result = "NEED_MORE_DATA" => fed.parser.stage = "body"
         /\ fed.result # "ERROR" /\ p.stage = "head" => fed.parser.read <= Len(chunk) - 1
         /\ fed.result # "ERROR" /\ p.stage = "body" => fed.parser.read <= p.read + Len(chunk)
<1> DEFINE b == p.buffer \o chunk
           first == Head(b)
           inBody == IF p.stage = "head"
                     THEN [stage |-> "body", req |-> first[1], read |-> 0, buffer |-> Tail(b)]
                     ELSE [p EXCEPT !.buffer = b]
           need == Kind(inBody.req).body - inBody.read
           have == Len(inBody.buffer)
<1>1. /\ b \in Seq(RequestUnit) /\ Len(b) = Len(p.buffer) + Len(chunk)
      /\ p.stage \in {"head", "body"} => Len(b) = Len(chunk)
  <2>1. p.buffer \in Seq(RequestUnit) BY DEF ParserOf
  <2>2. Len(p.buffer) \in Nat /\ Len(chunk) \in Nat BY <2>1
  <2>3. p.stage \in {"head", "body"} => Len(p.buffer) = 0 BY DEF ParserOf
  <2>4. QED BY <2>1, <2>2, <2>3, ConcatProperties
<1>2. /\ first \in RequestUnit /\ first[1] \in Request
      /\ Tail(b) \in Seq(RequestUnit) /\ Len(Tail(b)) = Len(b) - 1
  <2>1. b # <<>> /\ Len(b) > 0
    <3>1. Len(p.buffer) \in Nat BY DEF ParserOf
    <3>2. QED BY <1>1, <3>1
  <2>2. first \in RequestUnit BY <1>1, <2>1, HeadTailProperties
  <2>3. QED BY <1>1, <2>1, <2>2, HeadTailProperties DEF RequestUnit
<1>3. /\ {"stage", "req", "read", "buffer"} \subseteq DOMAIN inBody
      /\ inBody.stage = (IF p.stage = "head" THEN "body" ELSE p.stage)
      /\ inBody.req \in Request /\ inBody.buffer \in Seq(RequestUnit)
      /\ inBody.read = (IF p.stage = "head" THEN 0 ELSE p.read) /\ inBody.read \in Nat
      /\ inBody.buffer = (IF p.stage = "head" THEN Tail(b) ELSE b)
  <2>1. CASE p.stage = "head" BY <1>1, <1>2, <2>1
  <2>2. CASE p.stage # "head" BY <1>1, <2>2 DEF ParserOf
  <2>3. QED BY <2>1, <2>2
<1>4. /\ need \in Int /\ have \in Nat /\ need = Kind(inBody.req).body - inBody.read
      /\ Kind(inBody.req).body \in Nat /\ have = Len(inBody.buffer)
      /\ p.stage \in {"head", "body"} => need >= 0
  <2>1. Kind(inBody.req).body \in Nat BY <1>3, ScriptFacts
  <2>2. p.stage = "body" => inBody.req = p.req /\ inBody.read = p.read BY DEF ParserOf
  <2>3. QED BY <1>3, <2>1, <2>2 DEF ParserOf
<1> DEFINE wrong == \/ p.stage = "error"
                    \/ p.stage = "head" /\ (first[2] # 0 \/ Kind(first[1]).how = "bad")
<1>5. fed = CASE p.stage = "complete" -> [result |-> "COMPLETE", parser |-> inBody]
              [] wrong ->
                   [result |-> "ERROR", parser |-> [inBody EXCEPT !.stage = "error"]]
              [] p.stage # "complete" /\ ~wrong /\ have < need ->
                   [result |-> "NEED_MORE_DATA",
                    parser |-> [inBody EXCEPT !.read = @ + have, !.buffer = <<>>]]
              [] OTHER ->
                   [result |-> "COMPLETE",
                    parser |-> [inBody EXCEPT !.stage = "complete", !.read = @ + need,
                                              !.buffer = Drop(@, need)]]
  BY DEF Feed
<1> HIDE DEF b, first, inBody, need, have
<1>6. CASE p.stage = "complete"
  <2>1. fed.result = "COMPLETE" /\ fed.parser = inBody BY <1>5, <1>6
  <2>2. QED BY <1>3, <1>6, <2>1 DEF ParserOf
<1>7. CASE p.stage # "complete" /\ wrong
  <2>1. fed.result = "ERROR" /\ fed.parser = [inBody EXCEPT !.stage = "error"] BY <1>5, <1>7
  <2>2. QED BY <1>3, <2>1 DEF ParserOf
<1>8. CASE p.stage # "complete" /\ ~wrong /\ have < need
  <2>1. /\ fed.result = "NEED_MORE_DATA"
        /\ fed.parser = [inBody EXCEPT !.read = @ + have, !.buffer = <<>>]
    BY <1>5, <1>8
  <2>2. PICK q : q = fed.parser OBVIOUS
  <2>3. /\ {"stage", "req", "read", "buffer"} \subseteq DOMAIN q
        /\ q.stage = inBody.stage /\ q.req = inBody.req /\ q.read = inBody.read + have
        /\ q.buffer = <<>>
    BY <1>3, <2>1, <2>2
  <2>4. q.stage = "body" BY <1>3, <1>8, <2>3 DEF ParserOf
  <2>5. q.read \in Nat /\ q.read <= Kind(q.req).body BY <1>3, <1>4, <1>8, <2>3
  <2>6. ParserOf(q) BY <1>3, <2>3, <2>4, <2>5 DEF ParserOf
  <2>7. have <= Len(chunk) /\ (p.stage = "head" => have = Len(chunk) - 1)
    BY <1>1, <1>2, <1>3, <1>4, <1>8 DEF ParserOf
  <2>8. Len(chunk) \in Nat OBVIOUS
  <2>9. QED BY <1>3, <1>4, <2>1, <2>2, <2>3, <2>4, <2>6, <2>7, <2>8
<1>9. CASE p.stage # "complete" /\ ~wrong /\ ~(have < need)
  <2>1. /\ fed.result = "COMPLETE"
        /\ fed.parser = [inBody EXCEPT !.stage = "complete", !.read = @ + need,
                                       !.buffer = Drop(@, need)]
    BY <1>5, <1>9
  <2>2. PICK q : q = fed.parser OBVIOUS
  <2>3. /\ {"stage", "req", "read", "buffer"} \subseteq DOMAIN q
        /\ q.stage = "complete" /\ q.req = inBody.req /\ q.read = inBody.read + need
        /\ q.buffer = Drop(inBody.buffer, need)
    BY <1>3, <2>1, <2>2
  <2>4. p.stage \in {"head", "body"} BY <1>9 DEF ParserOf
  <2>5. q.read \in Nat /\ q.read <= inBody.read + have BY <1>3, <1>4, <1>9, <2>3
  <2>6. q.buffer \in Seq(RequestUnit)
    <3>1. need \in 0..Len(inBody.buffer) BY <1>4, <1>9, <2>4
    <3>2. \A i \in (need + 1)..Len(inBody.buffer) : inBody.buffer[i] \in RequestUnit
      BY <1>3, <1>4, <3>1, ElementOfSeq
    <3>3. QED BY <1>3, <1>4, <2>3, <3>1, <3>2, SubSeqProperties DEF Drop
  <2>7. ParserOf(q) BY <1>3, <2>3, <2>5, <2>6 DEF ParserOf
  <2>8. have <= Len(chunk) /\ (p.stage = "head" => have = Len(chunk) - 1)
    BY <1>1, <1>2, <1>3, <1>4, <2>4
  <2>9. Len(chunk) \in Nat OBVIOUS
  <2>10. QED BY <1>3, <1>4, <2>1, <2>2, <2>3, <2>4, <2>5, <2>7, <2>8, <2>9
<1>10. QED BY <1>6, <1>7, <1>8, <1>9 DEF ParserOf

-----------------------------------------------------------------------------
(* The steps of a worker                                                     *)

WorkerTypes == ParserOf(conn.parser) /\ ConnType /\ SockType /\ MainType /\ WorkType

\* The task is taken.
LEMMA StartTaskTypes ==
  ASSUME TypeInv, OneWorker, NEW w \in Workers, StartTask(w), Steady
  PROVE  WorkerTypes'
<1> USE DEF TypeInv
<1>1. UNCHANGED <<conn, sock, client, served>> /\ main.tasks # <<>> BY DEF StartTask
<1>2. Head(main.tasks) \in SUBSET Events /\ Tail(main.tasks) \in Seq(SUBSET Events)
  BY <1>1, HeadTailProperties DEF MainType
<1>3. main' = [main EXCEPT !.tasks = Tail(@)] BY DEF StartTask
<1>4. MainType' BY <1>2, <1>3 DEF MainType
<1>5. PICK events \in SUBSET Events :
        work' = [work EXCEPT ![w] =
          [pc |-> IF "IN" \in events THEN "read" ELSE AfterRead(events),
           events |-> events, arg |-> <<>>, inRead |-> "IN" \in events]]
  BY <1>2 DEF StartTask
<1>6. /\ {"pc", "events", "arg", "inRead"} \subseteq DOMAIN work'[w]
      /\ work'[w].pc \in {"read", "write", "check"} /\ work'[w].events = events
      /\ Workers \subseteq DOMAIN work'
  BY <1>5 DEF WorkType, AfterRead
<1>7. WorkOf(w)' BY <1>6 DEF WorkOf, WorkPC
<1>8. WorkType' BY <1>1, <1>6, <1>7, WorkOne DEF WorkType
<1>9. QED BY <1>1, <1>4, <1>8, ConnFrame, SockFrame DEF WorkerTypes

\* handle_read goes on to the handshake or to the socket.
LEMMA HandleReadTypes ==
  ASSUME TypeInv, OneWorker, NEW w \in Workers, HandleRead(w), Steady
  PROVE  WorkerTypes'
<1> USE DEF TypeInv
<1>1. UNCHANGED <<sock, main, client, served>> BY DEF HandleRead
<1>2. conn' = conn \/ conn' = [conn EXCEPT !.quiet = FALSE] BY DEF HandleRead
<1>3. ParserOf(conn.parser)' /\ ConnType' /\ conn'.ssl = conn.ssl
  <2>1. CASE conn' = conn BY <2>1, ConnFrame
  <2>2. CASE conn' = [conn EXCEPT !.quiet = FALSE]
    BY <2>2 DEF ParserOf, ConnType, Steady, Kind
  <2>3. QED BY <1>2, <2>1, <2>2
<1>4. SockType' BY <1>1, <1>3, SockFrame
<1>5. WorkType'
  <2>1. CASE Leave(w) BY <1>1, <2>1, PlainWork
  <2>2. CASE (Goto(w, "recv") /\ Shaken(conn)) \/ (Goto(w, "accept") /\ ~Shaken(conn))
    <3>1. Shaken(conn') = Shaken(conn) BY <1>3 DEF Shaken
    <3>2. /\ {"pc", "events", "arg", "inRead"} \subseteq DOMAIN work'[w]
          /\ work'[w].pc = (IF Shaken(conn) THEN "recv" ELSE "accept")
          /\ work'[w].events = work[w].events
          /\ Workers \subseteq DOMAIN work'
      BY <2>2 DEF Goto, WorkType, WorkOf
    <3>3. WorkOf(w)' BY <3>1, <3>2 DEF WorkOf, WorkPC, WorkType
    <3>4. QED BY <1>1, <3>2, <3>3, WorkOne DEF WorkType
  <2>3. QED BY <2>1, <2>2 DEF HandleRead
<1>6. MainType' BY <1>1 DEF MainType
<1>7. QED BY <1>3, <1>4, <1>5, <1>6 DEF WorkerTypes

\* A chunk that is received without TLS, or after its handshake, is of requests.
LEMMA RecvTypes ==
  ASSUME TypeInv, OneWorker, NEW w \in Workers, Recv(w), Steady
  PROVE  WorkerTypes'
<1> USE DEF TypeInv
<1>1. /\ UNCHANGED <<main, client, served>> /\ conn' = [conn EXCEPT !.unread = FALSE]
      /\ work[w].pc = "recv"
  BY DEF Recv
<1>2. ParserOf(conn.parser)' /\ ConnType' /\ conn'.ssl = conn.ssl
  BY <1>1 DEF ParserOf, ConnType, Steady, Kind
<1>3. Shaken(conn) /\ Shaken(conn') BY <1>1, <1>2 DEF WorkType, WorkOf, Shaken
<1>4. MainType' BY <1>1 DEF MainType
<1>5. CASE conn.open /\ sock.rx # <<>>
  <2> DEFINE n == Least(ReadBuf, Len(sock.rx))
  <2>1. /\ GotoWith(w, "feed", Take(sock.rx, n))
        /\ sock' = [sock EXCEPT !.rx = Drop(@, n)]
    BY <1>5 DEF Recv
  <2>2. /\ sock.rx \in Seq(RequestUnit \cup Handshaking) /\ Len(sock.rx) > 0
        /\ \A i \in 1..Len(sock.rx) : sock.rx[i] \in RequestUnit
    BY <1>3, <1>5 DEF SockType, Shaken
  <2>3. n \in 1..Len(sock.rx) /\ n <= ReadBuf BY <2>2, ConnectionAssumption DEF Least
  <2> HIDE DEF n
  <2>4. Take(sock.rx, n) \in Seq(RequestUnit) /\ Len(Take(sock.rx, n)) = n
    BY <2>2, <2>3, SubSeqProperties DEF Take
  <2>5. Drop(sock.rx, n) \in Seq(RequestUnit)
    BY <2>2, <2>3, SubSeqProperties DEF Drop
  <2>6. SockType'
    <3>1. /\ {"rx", "tx", "fin", "armed", "noSpace"} \subseteq DOMAIN sock'
          /\ sock'.rx = Drop(sock.rx, n) /\ sock'.tx = sock.tx
      BY <2>1 DEF SockType
    <3>2. sock'.rx \in Seq(RequestUnit \cup Handshaking)
      BY <2>5, <3>1, SeqMonotonic, RequestUnit \subseteq RequestUnit \cup Handshaking
    <3>3. \A i \in 1..Len(sock'.rx) : sock'.rx[i] \in RequestUnit
      BY <2>5, <3>1, ElementOfSeq
    <3>4. client.hs = "done" BY <1>3, <1>5 DEF SockType, Shaken, ClientType
    <3>5. (RequestUnit \cup Handshaking)' = RequestUnit \cup Handshaking /\ Wire' = Wire
      BY DEF Steady, Handshaking, Hello, Garbage, Finished, Wire
    <3>6. QED BY <1>1, <3>1, <3>2, <3>3, <3>4, <3>5 DEF SockType, Steady
  <2>7. WorkType'
    <3>1. /\ {"pc", "events", "arg", "inRead"} \subseteq DOMAIN work'[w]
          /\ work'[w].pc = "feed" /\ work'[w].events = work[w].events
          /\ work'[w].arg = Take(sock.rx, n) /\ Workers \subseteq DOMAIN work'
      BY <2>1 DEF GotoWith, WorkType, WorkOf
    <3>2. work'[w].arg \in Seq(RequestUnit)' /\ Len(work'[w].arg) \in 1..ReadBuf
      BY <2>3, <2>4, <3>1, ConnectionAssumption DEF Steady
    <3>3. WorkOf(w)' BY <1>3, <3>1, <3>2 DEF WorkOf, WorkPC, WorkType
    <3>4. QED BY <1>1, <3>1, <3>3, WorkOne DEF WorkType
  <2>8. QED BY <1>2, <1>4, <2>6, <2>7 DEF WorkerTypes
<1>6. CASE ~(conn.open /\ sock.rx # <<>>)
  <2>1. sock' = sock /\ (Goto(w, "close") \/ Leave(w)) BY <1>6 DEF Recv
  <2>2. "close" \in PlainPC BY DEF PlainPC, WorkPC
  <2>3. WorkType' BY <1>1, <2>1, <2>2, PlainWork
  <2>4. SockType' BY <1>1, <1>2, <2>1, SockFrame
  <2>5. QED BY <1>2, <1>4, <2>3, <2>4 DEF WorkerTypes
<1>7. QED BY <1>5, <1>6

\* The sets of units do not depend on what changes.
LEMMA SteadyUnits ==
  ASSUME Steady
  PROVE  /\ (RequestUnit \cup Handshaking)' = RequestUnit \cup Handshaking /\ Wire' = Wire
         /\ \A p : ParserOf(p) => ParserOf(p)'
BY DEF Steady, Handshaking, Hello, Garbage, Finished, Wire, ParserOf, Kind

\* One flight of the handshake.
LEMMA HandshakeTypes ==
  ASSUME TypeInv, OneWorker, NEW w \in Workers, Handshake(w), Steady
  PROVE  WorkerTypes'
<1> USE DEF TypeInv
<1>1. UNCHANGED <<main, client, served>> /\ work[w].pc = "accept" BY DEF Handshake
<1>2. MainType' BY <1>1 DEF MainType
<1>3. Workers \subseteq DOMAIN work /\ WorkOf(w) BY DEF WorkType
<1>4. "close" \in PlainPC BY DEF PlainPC, WorkPC
<1>5. ASSUME work' = work, ~Shaken(conn') PROVE WorkType'
  <2>1. WorkOf(w)' BY <1>1, <1>3, <1>5 DEF WorkOf
  <2>2. QED BY <1>1, <1>3, <1>5, <2>1, WorkOne DEF WorkType
<1>6. Len(sock.tx) \in Nat /\ client.flight \in Nat /\ SendCap \in Nat /\ conn.flushed \in Nat
  BY ScriptFacts, ConnectionAssumption DEF SockType, ConnType
<1>7. CASE UNCHANGED <<conn, sock>> /\ (Goto(w, "close") \/ Leave(w))
  <2>1. WorkType' BY <1>1, <1>4, <1>7, PlainWork
  <2>2. QED BY <1>1, <1>2, <1>7, <2>1, ConnFrame, SockFrame DEF WorkerTypes
<1>8. CASE conn.open /\ conn.ssl = "flight"
  <2> DEFINE m == client.flight - conn.flushed
             n == Least(m, SendCap - Len(sock.tx))
             new == [i \in 1..n |-> <<0, i, "flight">>]
  <2>1. /\ sock' = [sock EXCEPT !.tx = @ \o new, !.noSpace = n < m]
        /\ \/ n = m /\ conn' = [conn EXCEPT !.ssl = "finish", !.flushed = 0] /\ NextFlight(w)
           \/ n # m /\ conn' = [conn EXCEPT !.flushed = @ + n, !.wantWrite = TRUE] /\ Leave(w)
    BY <1>8 DEF Handshake
  <2>2. /\ m \in Int /\ n \in Int /\ n <= SendCap - Len(sock.tx)
        /\ n # m => n = SendCap - Len(sock.tx)
    BY <1>6 DEF Least
  <2> HIDE DEF m, n
  <2>3. new \in Seq(Wire) /\ Len(new) <= SendCap - Len(sock.tx)
    <3>1. CASE n >= 0
      <4>1. \A i \in 1..n : <<0, i, "flight">> \in Wire BY <2>2 DEF Wire
      <4>2. new \in Seq(Wire) /\ Len(new) = n BY <2>2, <3>1, <4>1
      <4> HIDE DEF new
      <4>3. QED BY <1>6, <2>2, <4>2
    <3>2. CASE ~(n >= 0)
      <4>1. 1..n = {} BY <2>2, <3>2
      <4>2. new = <<>> BY <4>1
      <4> HIDE DEF new
      <4>3. Len(sock.tx) <= SendCap BY DEF SockType
      <4>4. QED BY <1>6, <4>2, <4>3
    <3>3. QED BY <3>1, <3>2
  <2> HIDE DEF new
  <2>4. sock.tx \o new \in Seq(Wire) /\ Len(sock.tx \o new) = Len(sock.tx) + Len(new)
    BY <2>3, ConcatProperties DEF SockType
  <2>5. Len(new) \in Nat BY <2>3
  <2>6. /\ {"rx", "tx", "fin", "armed", "noSpace"} \subseteq DOMAIN sock'
        /\ sock'.rx = sock.rx /\ sock'.tx = sock.tx \o new
    BY <2>1 DEF SockType
  <2>7. Len(sock'.tx) <= SendCap BY <1>6, <2>3, <2>4, <2>5, <2>6
  <2>8. conn'.ssl \in {"flight", "finish"} BY <1>8, <2>1 DEF ConnType
  <2>9. SockType'
    <3>1. ~Shaken(conn) /\ ~Shaken(conn') BY <1>8, <2>8 DEF Shaken
    <3>2. QED
      BY <1>1, <1>8, <2>4, <2>6, <2>7, <2>8, <3>1, SteadyUnits DEF SockType, Steady
  <2>10. CASE n = m /\ conn' = [conn EXCEPT !.ssl = "finish", !.flushed = 0] /\ NextFlight(w)
    <3>1. ParserOf(conn.parser)' /\ ConnType' BY <2>10 DEF ParserOf, ConnType, Steady, Kind
    <3>2. WorkType' BY <1>5, <2>8, <2>10 DEF NextFlight, Shaken
    <3>3. QED BY <1>2, <2>9, <3>1, <3>2 DEF WorkerTypes
  <2>11. CASE n # m /\ conn' = [conn EXCEPT !.flushed = @ + n, !.wantWrite = TRUE] /\ Leave(w)
    <3>1. conn.flushed + n \in Nat
      <4>1. Len(sock.tx) <= SendCap BY DEF SockType
      <4>2. QED BY <1>6, <2>2, <2>11, <4>1
    <3>2. ParserOf(conn.parser)' /\ ConnType'
      BY <1>8, <2>11, <3>1 DEF ParserOf, ConnType, Steady, Kind
    <3>3. WorkType' BY <1>1, <2>11, PlainWork
    <3>4. QED BY <1>2, <2>9, <3>2, <3>3 DEF WorkerTypes
  <2>12. QED BY <2>1, <2>10, <2>11
<1>9. CASE conn.open /\ conn.ssl # "flight" /\ sock.rx # <<>>
  <2>1. /\ sock' = [sock EXCEPT !.rx = Tail(@)]
        /\ \/ conn' = conn /\ Goto(w, "close")
           \/ /\ conn.ssl = "hello" /\ conn' = [conn EXCEPT !.ssl = "flight"] /\ NextFlight(w)
           \/ /\ conn.ssl # "hello" /\ Goto(w, "recv")
              /\ conn' = [conn EXCEPT !.ssl = "done", !.quiet = FALSE]
    BY <1>9 DEF Handshake
  <2>2. /\ sock.rx \in Seq(RequestUnit \cup Handshaking)
        /\ Tail(sock.rx) \in Seq(RequestUnit \cup Handshaking)
        /\ Len(sock.rx) \in Nat /\ Len(Tail(sock.rx)) = Len(sock.rx) - 1
        /\ \A i \in 1..Len(Tail(sock.rx)) : Tail(sock.rx)[i] = sock.rx[i + 1]
    BY <1>9, HeadTailProperties DEF SockType
  <2>3. /\ {"rx", "tx", "fin", "armed", "noSpace"} \subseteq DOMAIN sock'
        /\ sock'.rx = Tail(sock.rx) /\ sock'.tx = sock.tx
    BY <2>1 DEF SockType
  <2>4. \A i \in 1..Len(sock'.rx) :
          sock'.rx[i] \in RequestUnit \/ (conn.ssl = "hello" /\ i = 1)
    <3>1. SUFFICES ASSUME NEW i \in 1..Len(Tail(sock.rx))
                   PROVE  sock.rx[i + 1] \in RequestUnit \/ (conn.ssl = "hello" /\ i = 1)
      BY <2>2, <2>3
    <3>2. i + 1 \in 1..Len(sock.rx) /\ i + 1 # 1 BY <2>2
    <3>3. QED BY <3>2 DEF SockType
  <2>5. /\ client.hs # "start"
        /\ client.hs = "hello" => sock'.rx = <<>> /\ conn.ssl = "hello"
    <3>1. Len(sock.rx) <= 1 => Tail(sock.rx) = <<>> BY <2>2
    <3>2. QED BY <1>9, <2>3, <3>1 DEF SockType
  <2>6. ASSUME client.hs = "hello" => ~Shaken(conn'),
               conn.ssl = "hello" => conn'.ssl \in {"hello", "flight"}
        PROVE  SockType'
    <3>1. (\E i \in 1..Len(sock'.rx) : sock'.rx[i] \notin RequestUnit) =>
            conn'.ssl \in {"hello", "flight"}
      BY <2>4, <2>6
    <3>2. QED
      BY <1>1, <2>2, <2>3, <2>4, <2>5, <2>6, <3>1, SteadyUnits DEF SockType, Steady
  <2>7. CASE conn' = conn /\ Goto(w, "close")
    <3>1. client.hs = "hello" => ~Shaken(conn') BY <2>7 DEF SockType
    <3>2. SockType' BY <2>6, <2>7, <3>1 DEF ConnType
    <3>3. WorkType' BY <1>1, <1>4, <2>7, PlainWork
    <3>4. QED BY <1>2, <2>7, <3>2, <3>3, ConnFrame DEF WorkerTypes
  <2>8. CASE conn.ssl = "hello" /\ conn' = [conn EXCEPT !.ssl = "flight"] /\ NextFlight(w)
    <3>1. ParserOf(conn.parser)' /\ ConnType' /\ conn'.ssl = "flight"
      BY <2>8 DEF ParserOf, ConnType, Steady, Kind
    <3>2. SockType' BY <2>6, <2>8, <3>1 DEF Shaken
    <3>3. WorkType' BY <1>5, <2>8, <3>1 DEF NextFlight, Shaken
    <3>4. QED BY <1>2, <3>1, <3>2, <3>3 DEF WorkerTypes
  <2>9. CASE /\ conn.ssl # "hello" /\ Goto(w, "recv")
             /\ conn' = [conn EXCEPT !.ssl = "done", !.quiet = FALSE]
    <3>1. ParserOf(conn.parser)' /\ ConnType' /\ conn'.ssl = "done"
      BY <2>9 DEF ParserOf, ConnType, Steady, Kind
    <3>2. SockType' BY <2>5, <2>6, <2>9, <3>1
    <3>3. /\ {"pc", "events", "arg", "inRead"} \subseteq DOMAIN work'[w]
          /\ work'[w].pc = "recv" /\ work'[w].events = work[w].events
          /\ Workers \subseteq DOMAIN work'
      BY <1>3, <2>9 DEF Goto, WorkOf
    <3>4. WorkOf(w)' BY <1>3, <3>1, <3>3 DEF WorkOf, WorkPC, Shaken
    <3>5. WorkType' BY <1>1, <3>3, <3>4, WorkOne DEF WorkType
    <3>6. QED BY <1>2, <3>1, <3>2, <3>5 DEF WorkerTypes
  <2>10. QED BY <2>1, <2>7, <2>8, <2>9
<1>10. QED BY <1>7, <1>8, <1>9 DEF Handshake

\* What feed says decides where the worker goes.
LEMMA FeedParserTypes ==
  ASSUME TypeInv, OneWorker, NEW w \in Workers, FeedParser(w), Steady
  PROVE  WorkerTypes'
<1> USE DEF TypeInv
<1>1. UNCHANGED <<sock, main, client, served>> /\ work[w].pc = "feed" BY DEF FeedParser
<1>2. /\ Workers \subseteq DOMAIN work /\ WorkOf(w) /\ Shaken(conn)
      /\ work[w].arg \in Seq(RequestUnit) /\ Len(work[w].arg) \in 1..ReadBuf
  BY <1>1 DEF WorkType, WorkOf
<1> DEFINE fed == Feed(conn.parser, work[w].arg)
           Ended == [conn EXCEPT !.parser = fed.parser, !.unread = sock.rx # <<>>,
                                 !.refed = @ \/ conn.state # "READING"]
<1>3. /\ ParserOf(fed.parser) /\ fed.parser.req \in Request
      /\ fed.result \in {"ERROR", "COMPLETE", "NEED_MORE_DATA"}
  <2>1. Len(work[w].arg) > 0 BY <1>2, ConnectionAssumption
  <2>2. QED BY <1>2, <2>1, FeedFacts
<1>4. \/ /\ fed.result = "ERROR" /\ conn' = Ended
         /\ GotoWith(w, "prepare", Response(fed.parser.req, "400"))
      \/ /\ fed.result = "COMPLETE"
         /\ conn' = [Ended EXCEPT !.state = "PROCESSING", !.handled = @ + 1]
         /\ GotoWith(w, "dispatch", [req |-> fed.parser.req, body |-> fed.parser.read])
      \/ /\ fed.result = "NEED_MORE_DATA" /\ conn' = Ended
         /\ GotoWith(w, "prepare", Response(fed.parser.req, "413"))
      \/ /\ fed.result = "NEED_MORE_DATA" /\ conn' = [conn EXCEPT !.parser = fed.parser]
         /\ GotoWith(w, "recv", <<>>)
  BY <1>3 DEF FeedParser
<1> HIDE DEF fed
<1>6. /\ conn'.parser = fed.parser /\ ConnType' /\ conn'.ssl = conn.ssl
  <2> PICK p : p = fed.parser OBVIOUS
  <2>1. CASE conn' = Ended BY <2>1 DEF ConnType, Steady
  <2>2. CASE conn' = [Ended EXCEPT !.state = "PROCESSING", !.handled = @ + 1]
    BY <2>2 DEF ConnType, Steady
  <2>3. CASE conn' = [conn EXCEPT !.parser = fed.parser] BY <2>3 DEF ConnType, Steady
  <2>4. QED BY <1>4, <2>1, <2>2, <2>3
<1>7. ParserOf(conn.parser)' BY <1>3, <1>6, SteadyUnits
<1>8. SockType' /\ MainType' BY <1>1, <1>6, SockFrame DEF MainType
<1>9. ASSUME NEW pc \in {"prepare", "dispatch", "recv"}, NEW arg, GotoWith(w, pc, arg),
             pc = "prepare" => arg \in Seq(ResponseUnit),
             pc = "dispatch" => arg \in [req : Request, body : Nat]
      PROVE  WorkType'
  <2>1. /\ {"pc", "events", "arg", "inRead"} \subseteq DOMAIN work'[w]
        /\ work'[w].pc = pc /\ work'[w].events = work[w].events
        /\ work'[w].arg = arg /\ Workers \subseteq DOMAIN work'
    BY <1>2, <1>9 DEF GotoWith, WorkOf
  <2>2. Shaken(conn') BY <1>2, <1>6 DEF Shaken
  <2>3. WorkOf(w)' BY <1>2, <1>9, <2>1, <2>2 DEF WorkOf, WorkPC, Steady
  <2>4. QED BY <1>1, <2>1, <2>3, WorkOne DEF WorkType
<1>10. WorkType'
  <2>1. Response(fed.parser.req, "400") \in Seq(ResponseUnit)
        /\ Response(fed.parser.req, "413") \in Seq(ResponseUnit)
    BY <1>3, ScriptFacts DEF Status
  <2>2. [req |-> fed.parser.req, body |-> fed.parser.read] \in [req : Request, body : Nat]
    BY <1>3 DEF ParserOf
  <2>3. QED BY <1>4, <1>9, <2>1, <2>2
<1>11. QED BY <1>6, <1>7, <1>8, <1>10 DEF WorkerTypes

\* on_request_ is given a request and answers it, or throws.
LEMMA DispatchTypes ==
  ASSUME TypeInv, OneWorker, NEW w \in Workers, Dispatch(w), Steady
  PROVE  WorkerTypes'
<1> USE DEF TypeInv
<1>1. /\ UNCHANGED <<conn, sock, main, client>> /\ work[w].pc = "dispatch"
      /\ served' = Append(served, work[w].arg)
  BY DEF Dispatch
<1>2. /\ Workers \subseteq DOMAIN work /\ WorkOf(w)
      /\ work[w].arg \in [req : Request, body : Nat]
  BY <1>1 DEF WorkType, WorkOf
<1>3. served' \in Seq([req : Nat, body : Nat])
  <2>1. work[w].arg \in [req : Nat, body : Nat] BY <1>2, ScriptFacts
  <2>2. QED BY <1>1, <2>1, AppendProperties DEF WorkType
<1>4. Response(work[w].arg.req, "ok") \in Seq(ResponseUnit) BY <1>2, ScriptFacts DEF Status
<1>5. /\ {"pc", "events", "arg", "inRead"} \subseteq DOMAIN work'[w]
      /\ work'[w].pc \in {"idle", "prepare"} /\ work'[w].events \subseteq Events
      /\ work'[w].pc = "prepare" => work'[w].arg = Response(work[w].arg.req, "ok")
      /\ Workers \subseteq DOMAIN work'
  <2>1. CASE work' = [work EXCEPT ![w] = IdleWorker] BY <1>2, <2>1 DEF IdleWorker
  <2>2. CASE GotoWith(w, "prepare", Response(work[w].arg.req, "ok"))
    BY <1>2, <2>2 DEF GotoWith, WorkOf
  <2>3. QED BY <2>1, <2>2 DEF Dispatch
<1>6. WorkOf(w)' BY <1>4, <1>5 DEF WorkOf, WorkPC, Steady
<1>7. WorkType' BY <1>3, <1>5, <1>6, WorkOne
<1>8. QED BY <1>1, <1>7, ConnFrame, SockFrame DEF WorkerTypes, MainType

\* The response is put into write_buffer_.
LEMMA PrepareResponseTypes ==
  ASSUME TypeInv, OneWorker, NEW w \in Workers, PrepareResponse(w), Steady
  PROVE  WorkerTypes'
<1> USE DEF TypeInv
<1>1. /\ UNCHANGED <<sock, main, client, served>> /\ work[w].pc = "prepare"
      /\ conn' = [conn EXCEPT !.out = work[w].arg, !.offset = 0, !.state = "WRITING"]
      /\ GotoWith(w, "write", <<>>)
  BY DEF PrepareResponse
<1>2. work[w].arg \in Seq(ResponseUnit) /\ Len(work[w].arg) \in Nat
  BY <1>1 DEF WorkType, WorkOf
<1>3. ParserOf(conn.parser)' /\ ConnType' /\ conn'.ssl = conn.ssl
  BY <1>1, <1>2 DEF ParserOf, ConnType, Steady, Kind
<1>4. "write" \in PlainPC BY DEF PlainPC, WorkPC
<1>5. WorkType' BY <1>1, <1>4, PlainWork
<1>6. QED BY <1>1, <1>3, <1>5, SockFrame DEF WorkerTypes, MainType

\* handle_write begins.
LEMMA HandleWriteTypes ==
  ASSUME TypeInv, OneWorker, NEW w \in Workers, HandleWrite(w), Steady
  PROVE  WorkerTypes'
<1> USE DEF TypeInv
<1>1. /\ UNCHANGED <<sock, main, client, served>> /\ (Leave(w) \/ Goto(w, "send"))
      /\ conn' = conn \/ conn' = [conn EXCEPT !.quiet = FALSE]
  BY DEF HandleWrite
<1>2. ParserOf(conn.parser)' /\ ConnType' /\ conn'.ssl = conn.ssl
  <2>1. CASE conn' = conn BY <2>1, ConnFrame
  <2>2. CASE conn' = [conn EXCEPT !.quiet = FALSE]
    BY <2>2 DEF ParserOf, ConnType, Steady, Kind
  <2>3. QED BY <1>1, <2>1, <2>2
<1>3. "send" \in PlainPC BY DEF PlainPC, WorkPC
<1>4. WorkType' BY <1>1, <1>3, PlainWork
<1>5. QED BY <1>1, <1>2, <1>4, SockFrame DEF WorkerTypes, MainType

\* What one send or SSL_write takes.
Left == Drop(conn.out, conn.offset + conn.flushed)
Fits == Least(Len(Left), SendCap - Len(sock.tx))
Writes(w) ==
  /\ conn.offset < Len(conn.out) /\ conn.offset + conn.flushed <= Len(conn.out) /\ conn.open
  /\ sock' = [sock EXCEPT !.tx = @ \o Take(Left, Fits), !.noSpace = @ \/ Fits < Len(Left)]
  /\ IF conn.ssl = "none"
     THEN /\ conn' = conn
          /\ IF Fits = 0 THEN Goto(w, "sent") ELSE GotoWith(w, "advance", Fits)
     ELSE IF Fits < Len(Left)
          THEN Goto(w, "sent") /\ conn' = [conn EXCEPT !.flushed = @ + Fits]
          ELSE GotoWith(w, "advance", conn.flushed + Fits) /\ conn' = [conn EXCEPT !.flushed = 0]

\* It takes something, or nothing is left, or the Connection will be closed.
LEMMA SendCases ==
  ASSUME ConnType, NEW w \in Workers, Send(w)
  PROVE  \/ UNCHANGED <<conn, sock>> /\ (Goto(w, "sent") \/ Goto(w, "close"))
         \/ Writes(w)
<1>1. /\ conn.flushed \in Nat /\ Len(conn.out) \in Nat /\ conn.offset \in 0..Len(conn.out)
      /\ conn.ssl = "none" => conn.flushed = 0
  BY DEF ConnType
<1>2. CASE conn.offset >= Len(conn.out) BY <1>1, <1>2 DEF Send
<1>3. CASE /\ conn.offset < Len(conn.out)
           /\ ~conn.open \/ Len(conn.out) < conn.offset + conn.flushed
  <2>1. ~(conn.offset >= Len(conn.out)) BY <1>1, <1>3
  <2>2. ~(conn.open /\ conn.ssl = "none") BY <1>1, <1>3
  <2>3. UNCHANGED <<conn, sock>> /\ Goto(w, "close") BY <1>3, <2>1, <2>2, Zenon DEF Send
  <2>4. QED BY <2>3
<1>4. CASE /\ conn.offset < Len(conn.out) /\ conn.open
           /\ ~(Len(conn.out) < conn.offset + conn.flushed)
  <2>1. conn.offset + conn.flushed <= Len(conn.out) BY <1>1, <1>4
  <2>2. ~(conn.offset >= Len(conn.out)) BY <1>1, <1>4
  <2>3. CASE conn.ssl = "none"
    <3>1. /\ sock' = [sock EXCEPT !.tx = @ \o Take(Left, Fits), !.noSpace = @ \/ Fits < Len(Left)]
          /\ conn' = conn
          /\ IF Fits = 0 THEN Goto(w, "sent") ELSE GotoWith(w, "advance", Fits)
      BY <1>4, <2>2, <2>3, Zenon DEF Send, Left, Fits
    <3>2. QED BY <1>4, <2>1, <2>3, <3>1, Zenon DEF Writes
  <2>4. CASE conn.ssl # "none"
    <3>1. /\ sock' = [sock EXCEPT !.tx = @ \o Take(Left, Fits), !.noSpace = @ \/ Fits < Len(Left)]
          /\ IF Fits < Len(Left)
             THEN Goto(w, "sent") /\ conn' = [conn EXCEPT !.flushed = @ + Fits]
             ELSE GotoWith(w, "advance", conn.flushed + Fits) /\ conn' = [conn EXCEPT !.flushed = 0]
      BY <1>4, <2>2, <2>4, Zenon DEF Send, Left, Fits
    <3>2. QED BY <1>4, <2>1, <2>4, <3>1, Zenon DEF Writes
  <2>5. QED BY <2>3, <2>4
<1>5. QED BY <1>1, <1>2, <1>3, <1>4

\* send or SSL_write takes what there is room for.
LEMMA SendTypes ==
  ASSUME TypeInv, OneWorker, NEW w \in Workers, Send(w), Steady
  PROVE  WorkerTypes'
<1> USE DEF TypeInv
<1>1. UNCHANGED <<main, client, served>> /\ work[w].pc = "send" BY DEF Send
<1>2. MainType' BY <1>1 DEF MainType
<1>3. /\ Len(sock.tx) \in Nat /\ SendCap \in Nat /\ Len(sock.tx) <= SendCap
      /\ conn.flushed \in Nat /\ Len(conn.out) \in Nat /\ conn.offset \in 0..Len(conn.out)
  BY ConnectionAssumption DEF SockType, ConnType
<1>4. (UNCHANGED <<conn, sock>> /\ (Goto(w, "sent") \/ Goto(w, "close"))) \/ Writes(w)
  BY SendCases
<1>5. "sent" \in PlainPC /\ "close" \in PlainPC BY DEF PlainPC, WorkPC
<1>6. CASE UNCHANGED <<conn, sock>> /\ (Goto(w, "sent") \/ Goto(w, "close"))
  <2>1. WorkType' BY <1>1, <1>5, <1>6, PlainWork
  <2>2. QED BY <1>1, <1>2, <1>6, <2>1, ConnFrame, SockFrame DEF WorkerTypes
<1>7. CASE Writes(w)
  <2>1. /\ Left \in Seq(ResponseUnit)
        /\ Len(Left) = Len(conn.out) - conn.offset - conn.flushed
    <3> DEFINE k == conn.offset + conn.flushed
               out == conn.out
    <3>1. k \in 0..Len(out) /\ Len(out) \in Nat BY <1>3, <1>7 DEF Writes
    <3>2. out \in Seq(ResponseUnit) BY DEF ConnType
    <3> HIDE DEF k, out
    <3>3. Drop(out, k) \in Seq(ResponseUnit) /\ Len(Drop(out, k)) = Len(out) - k
      BY <3>1, <3>2, DropFacts
    <3>4. QED BY <1>3, <3>1, <3>3 DEF Left, k, out
  <2>2. Fits \in 0..Len(Left) /\ Fits <= SendCap - Len(sock.tx)
    BY <1>3, <1>7, <2>1 DEF Fits, Least, Writes
  <2>3. Take(Left, Fits) \in Seq(Wire) /\ Len(Take(Left, Fits)) = Fits
    <3>1. ResponseUnit \subseteq Wire BY ScriptFacts DEF ResponseUnit, Wire
    <3>2. Left \in Seq(Wire) BY <2>1, <3>1, SeqMonotonic
    <3>3. QED BY <2>2, <3>2, TakeFacts
  <2>4. /\ sock.tx \o Take(Left, Fits) \in Seq(Wire)
        /\ Len(sock.tx \o Take(Left, Fits)) = Len(sock.tx) + Fits
    <3>1. sock.tx \in Seq(Wire) BY DEF SockType
    <3> DEFINE sent == Take(Left, Fits)
    <3>2. sent \in Seq(Wire) /\ Len(sent) = Fits BY <2>3
    <3> HIDE DEF sent
    <3>3. sock.tx \o sent \in Seq(Wire) /\ Len(sock.tx \o sent) = Len(sock.tx) + Len(sent)
      BY <3>1, <3>2, ConcatProperties
    <3>4. QED BY <3>2, <3>3 DEF sent
  <2>5. /\ {"rx", "tx", "fin", "armed", "noSpace"} \subseteq DOMAIN sock'
        /\ sock'.rx = sock.rx /\ sock'.tx = sock.tx \o Take(Left, Fits)
    BY <1>7 DEF Writes, SockType
  <2>6. Len(sock'.tx) <= SendCap BY <1>3, <2>2, <2>4, <2>5
  <2>7. /\ conn'.ssl = conn.ssl /\ conn'.offset = conn.offset /\ conn'.out = conn.out
        /\ ParserOf(conn.parser)' /\ ConnType'
    <3>1. CASE conn' = conn BY <3>1, ConnFrame
    <3>2. CASE conn.ssl # "none" /\ \E f \in Nat : conn' = [conn EXCEPT !.flushed = f]
      BY <3>2 DEF ParserOf, ConnType, Steady, Kind
    <3>3. conn.flushed + Fits \in Nat /\ 0 \in Nat BY <1>3, <2>2
    <3>4. QED BY <1>7, <3>1, <3>2, <3>3 DEF Writes
  <2>8. SockType'
    <3>1. Shaken(conn') = Shaken(conn) BY <2>7 DEF Shaken
    <3>2. QED
      BY <1>1, <2>4, <2>5, <2>6, <2>7, <3>1, SteadyUnits DEF SockType, Steady
  <2>9. WorkType'
    <3>1. CASE Goto(w, "sent") BY <1>1, <1>5, <3>1, PlainWork
    <3>2. ASSUME NEW a \in Nat, GotoWith(w, "advance", a), conn.offset + a <= Len(conn.out)
          PROVE  WorkType'
      <4>1. Workers \subseteq DOMAIN work /\ WorkOf(w) BY DEF WorkType
      <4>2. /\ {"pc", "events", "arg", "inRead"} \subseteq DOMAIN work'[w]
            /\ work'[w].pc = "advance" /\ work'[w].events = work[w].events
            /\ work'[w].arg = a /\ Workers \subseteq DOMAIN work'
        BY <3>2, <4>1 DEF GotoWith, WorkOf
      <4>3. WorkOf(w)' BY <2>7, <3>2, <4>1, <4>2 DEF WorkOf, WorkPC
      <4>4. QED BY <1>1, <4>2, <4>3, WorkOne DEF WorkType
    <3>3. conn.ssl = "none" => conn.offset + Fits <= Len(conn.out)
      BY <1>3, <2>1, <2>2 DEF ConnType
    <3>4. ~(Fits < Len(Left)) => conn.offset + (conn.flushed + Fits) <= Len(conn.out)
      BY <1>3, <2>1, <2>2
    <3>5. Fits \in Nat /\ conn.flushed + Fits \in Nat BY <1>3, <2>2
    <3>6. \/ Goto(w, "sent")
          \/ conn.ssl = "none" /\ GotoWith(w, "advance", Fits)
          \/ ~(Fits < Len(Left)) /\ GotoWith(w, "advance", conn.flushed + Fits)
      BY <1>7 DEF Writes
    <3>7. QED BY <3>1, <3>2, <3>3, <3>4, <3>5, <3>6
  <2>10. QED BY <1>2, <2>7, <2>8, <2>9 DEF WorkerTypes
<1>8. QED BY <1>4, <1>6, <1>7

\* write_offset_ is moved.
LEMMA AdvanceTypes ==
  ASSUME TypeInv, OneWorker, NEW w \in Workers, Advance(w), Steady
  PROVE  WorkerTypes'
<1> USE DEF TypeInv
<1>1. /\ UNCHANGED <<sock, main, client, served>> /\ work[w].pc = "advance"
      /\ conn' = [conn EXCEPT !.offset = @ + work[w].arg] /\ GotoWith(w, "send", <<>>)
  BY DEF Advance, Advanced
<1>2. work[w].arg \in Nat /\ conn.offset + work[w].arg <= Len(conn.out)
  BY <1>1 DEF WorkType, WorkOf
<1>3. conn.offset + work[w].arg \in 0..Len(conn.out) BY <1>2 DEF ConnType
<1>4. ParserOf(conn.parser)' /\ ConnType' /\ conn'.ssl = conn.ssl
  BY <1>1, <1>3 DEF ParserOf, ConnType, Steady, Kind
<1>5. "send" \in PlainPC BY DEF PlainPC, WorkPC
<1>6. WorkType' BY <1>1, <1>5, PlainWork
<1>7. QED BY <1>1, <1>4, <1>6, SockFrame DEF WorkerTypes, MainType

\* The end of a response.
LEMMA FinishWriteTypes ==
  ASSUME TypeInv, OneWorker, NEW w \in Workers, FinishWrite(w), Steady
  PROVE  WorkerTypes'
<1> USE DEF TypeInv
<1>1. UNCHANGED <<sock, main, client, served>> /\ (Leave(w) \/ Goto(w, "close"))
  BY DEF FinishWrite
<1>2. \/ conn' = conn
      \/ conn' = Cleared(conn)
      \/ \E d : conn' = [Cleared(conn) EXCEPT !.parser = NewParser, !.state = "READING",
                                              !.dropped = d]
  BY DEF FinishWrite, Reset
<1>3. ParserOf(NewParser)' BY DEF ParserOf, NewParser
<1>4. ParserOf(conn.parser)' /\ ConnType' /\ conn'.ssl = conn.ssl
  <2>1. CASE conn' = conn BY <2>1, ConnFrame
  <2>2. CASE conn' = Cleared(conn)
    BY <2>2 DEF Cleared, ParserOf, ConnType, Steady, Kind
  <2>3. CASE \E d : conn' = [Cleared(conn) EXCEPT !.parser = NewParser, !.state = "READING",
                                                  !.dropped = d]
    <3>1. conn'.parser = NewParser /\ ConnType' /\ conn'.ssl = conn.ssl
      BY <2>3 DEF Cleared, ConnType, Steady
    <3>2. QED BY <1>3, <3>1
  <2>4. QED BY <1>2, <2>1, <2>2, <2>3
<1>5. "close" \in PlainPC BY DEF PlainPC, WorkPC
<1>6. WorkType' BY <1>1, <1>5, PlainWork
<1>7. QED BY <1>1, <1>4, <1>6, SockFrame DEF WorkerTypes, MainType

-----------------------------------------------------------------------------
(* Closing                                                                   *)

\* A close leaves what is being read and written as it is.
LEMMA CloseTypes ==
  ASSUME TypeInv, Steady, client' = client, CloseConnection \/ UNCHANGED <<conn, sock>>
  PROVE  /\ ParserOf(conn.parser)' /\ ConnType' /\ SockType'
         /\ conn'.ssl = conn.ssl /\ conn'.out = conn.out /\ conn'.offset = conn.offset
<1> USE DEF TypeInv
<1>1. CASE UNCHANGED <<conn, sock>> BY <1>1, ConnFrame, SockFrame
<1>2. CASE CloseConnection
  <2>1. \/ conn' = conn
        \/ conn' = [conn EXCEPT !.open = FALSE, !.state = "CLOSED"]
    BY <1>2 DEF CloseConnection, CloseObject
  <2>2. /\ ParserOf(conn.parser)' /\ ConnType'
        /\ conn'.ssl = conn.ssl /\ conn'.out = conn.out /\ conn'.offset = conn.offset
    <3>1. CASE conn' = conn BY <3>1, ConnFrame
    <3>2. CASE conn' = [conn EXCEPT !.open = FALSE, !.state = "CLOSED"]
      BY <3>2 DEF ParserOf, ConnType, Steady, Kind
    <3>3. QED BY <2>1, <3>1, <3>2
  <2>3. CASE sock' = sock BY <2>2, <2>3, SockFrame
  <2>4. CASE \E sent \in {sock.tx, <<>>} :
               sock' = [sock EXCEPT !.tx = sent, !.armed = FALSE, !.noSpace = FALSE]
    <3>1. /\ {"rx", "tx", "fin", "armed", "noSpace"} \subseteq DOMAIN sock'
          /\ sock'.rx = sock.rx /\ sock'.tx \in {sock.tx, <<>>}
      BY <2>4 DEF SockType
    <3>2. sock'.tx \in Seq(Wire) /\ Len(sock'.tx) <= SendCap
      <4>1. sock.tx \in Seq(Wire) /\ Len(sock.tx) <= SendCap BY DEF SockType
      <4>2. <<>> \in Seq(Wire) /\ Len(<<>>) = 0 BY EmptySeq
      <4>3. 0 <= SendCap BY ConnectionAssumption
      <4>4. QED BY <3>1, <4>1, <4>2, <4>3
    <3>3. Shaken(conn') = Shaken(conn) BY <2>2 DEF Shaken
    <3>4. SockType'
      BY <2>2, <3>1, <3>2, <3>3, SteadyUnits DEF SockType, Steady
    <3>5. QED BY <2>2, <3>4
  <2>5. QED BY <1>2, <2>3, <2>4 DEF CloseConnection, CloseSocket
<1>3. QED BY <1>1, <1>2

\* A worker that closes, or removes what it finds closed.
LEMMA CloseInTaskTypes ==
  ASSUME TypeInv, OneWorker, NEW w \in Workers, CloseInTask(w) \/ CheckAlive(w), Steady
  PROVE  WorkerTypes'
<1> USE DEF TypeInv
<1>1. /\ UNCHANGED <<client, served>> /\ (CloseConnection \/ UNCHANGED <<conn, sock>>)
      /\ Leave(w) \/ work' = [work EXCEPT ![w] = IdleWorker]
      /\ main' = main \/ main' = [main EXCEPT !.registered = FALSE]
  BY DEF CloseInTask, CheckAlive, RemoveConnection
<1>2. ParserOf(conn.parser)' /\ ConnType' /\ SockType' BY <1>1, CloseTypes
<1>3. WorkType' BY <1>1, PlainWork
<1>4. MainType' BY <1>1 DEF MainType
<1>5. QED BY <1>2, <1>3, <1>4 DEF WorkerTypes

-----------------------------------------------------------------------------
(* The event loop and the peer                                               *)

\* What the workers have in their hands stays good while another actor moves.
LEMMA WorkFrame ==
  ASSUME WorkType, Steady, work' = work, served' = served,
         conn'.ssl = conn.ssl, conn'.out = conn.out, conn'.offset = conn.offset
  PROVE  WorkType'
<1>1. Shaken(conn') = Shaken(conn) BY DEF Shaken
<1>2. ASSUME NEW w \in Workers PROVE WorkOf(w)'
  <2>1. WorkOf(w) BY DEF WorkType
  <2>2. QED BY <1>1, <2>1, Zenon DEF WorkOf, Steady
<1>3. QED BY <1>2 DEF WorkType

\* An event becomes a task, or removes the connection; so does a time-out.
LEMMA EventLoopTypes ==
  ASSUME TypeInv, Steady,
         HandleEvent \/ Quieten \/ CollectTimedOut \/ RemoveTimedOut
  PROVE  WorkerTypes'
<1> USE DEF TypeInv
<1>1. UNCHANGED <<work, client, served>>
  BY DEF HandleEvent, Quieten, CollectTimedOut, RemoveTimedOut
<1>2. /\ {"registered", "tasks", "timedOut"} \subseteq DOMAIN main
      /\ main.tasks \in Seq(SUBSET Events)
  BY DEF MainType
<1>3. CASE HandleEvent
  <2>1. MainType'
    <3>1. Ready \in SUBSET Events BY DEF Ready, Interest, Events
    <3>2. Append(main.tasks, Ready) \in Seq(SUBSET Events) BY <1>2, <3>1, AppendProperties
    <3>3. PICK all : all = Append(main.tasks, Ready) OBVIOUS
    <3>4. \/ main' = [main EXCEPT !.registered = FALSE]
          \/ main' = main
          \/ main' = [main EXCEPT !.tasks = all]
      BY <1>3, <3>3, Zenon DEF HandleEvent
    <3>5. QED BY <1>2, <3>2, <3>3, <3>4 DEF MainType
  <2>2. \/ CloseConnection \/ UNCHANGED <<conn, sock>>
        \/ conn' = conn /\ sock' = [sock EXCEPT !.armed = FALSE]
    BY <1>3 DEF HandleEvent, RemoveConnection
  <2>3. CASE CloseConnection \/ UNCHANGED <<conn, sock>>
    <3>1. /\ ParserOf(conn.parser)' /\ ConnType' /\ SockType'
          /\ conn'.ssl = conn.ssl /\ conn'.out = conn.out /\ conn'.offset = conn.offset
      BY <1>1, <2>3, CloseTypes
    <3>2. QED BY <1>1, <2>1, <3>1, WorkFrame DEF WorkerTypes
  <2>4. CASE conn' = conn /\ sock' = [sock EXCEPT !.armed = FALSE]
    <3>1. ParserOf(conn.parser)' /\ ConnType' BY <2>4, ConnFrame
    <3>2. /\ {"rx", "tx", "fin", "armed", "noSpace"} \subseteq DOMAIN sock'
          /\ sock'.rx = sock.rx /\ sock'.tx = sock.tx
      BY <2>4 DEF SockType
    <3>3. SockType' BY <1>1, <2>4, <3>2, SteadyUnits, Zenon DEF SockType, Steady, Shaken
    <3>4. QED BY <1>1, <2>1, <2>4, <3>1, <3>3, WorkFrame DEF WorkerTypes
  <2>5. QED BY <2>2, <2>3, <2>4
<1>4. CASE Quieten
  <2>1. UNCHANGED <<sock, main>> /\ conn' = [conn EXCEPT !.quiet = TRUE] BY <1>4 DEF Quieten
  <2>2. /\ ParserOf(conn.parser)' /\ ConnType'
        /\ conn'.ssl = conn.ssl /\ conn'.out = conn.out /\ conn'.offset = conn.offset
    BY <2>1 DEF ParserOf, ConnType, Steady, Kind
  <2>3. QED BY <1>1, <2>1, <2>2, SockFrame, WorkFrame DEF WorkerTypes, MainType
<1>5. CASE CollectTimedOut
  <2>1. UNCHANGED <<conn, sock>> /\ main' = [main EXCEPT !.timedOut = TRUE]
    BY <1>5 DEF CollectTimedOut
  <2>2. MainType' BY <1>2, <2>1 DEF MainType
  <2>3. QED BY <1>1, <2>1, <2>2, ConnFrame, SockFrame, WorkFrame DEF WorkerTypes
<1>6. CASE RemoveTimedOut
  <2>1. /\ main' = [main EXCEPT !.registered = FALSE, !.timedOut = FALSE]
        /\ CloseConnection \/ UNCHANGED <<conn, sock>>
    BY <1>6 DEF RemoveTimedOut, RemoveConnection
  <2>2. MainType' BY <1>2, <2>1 DEF MainType
  <2>3. /\ ParserOf(conn.parser)' /\ ConnType' /\ SockType'
        /\ conn'.ssl = conn.ssl /\ conn'.out = conn.out /\ conn'.offset = conn.offset
    BY <1>1, <2>1, CloseTypes
  <2>4. QED BY <1>1, <2>2, <2>3, WorkFrame DEF WorkerTypes
<1>7. QED BY <1>3, <1>4, <1>5, <1>6

\* The peer sends units of its own requests, after those of the handshake.
LEMMA PeerTypes ==
  ASSUME TypeInv, Steady, Greet \/ SendUnit \/ Receive \/ HangUp
  PROVE  WorkerTypes'
<1> USE DEF TypeInv
<1>1. UNCHANGED <<conn, main, work, served>> BY DEF Greet, SendUnit, Receive, HangUp
<1>2. ParserOf(conn.parser)' /\ ConnType' /\ MainType' /\ WorkType'
  BY <1>1, ConnFrame, WorkFrame DEF MainType
<1>3. /\ {"rx", "tx", "fin", "armed", "noSpace"} \subseteq DOMAIN sock
      /\ sock.rx \in Seq(RequestUnit \cup Handshaking) /\ sock.tx \in Seq(Wire)
      /\ Len(sock.rx) \in Nat /\ Len(sock.tx) \in Nat /\ Len(sock.tx) <= SendCap
  BY DEF SockType
<1>4. CASE Greet
  <2>1. PICK first \in Handshaking :
          /\ sock' = [sock EXCEPT !.rx = Append(@, first), !.armed = TRUE]
          /\ client.hs # "start" => first = Finished
    BY <1>4 DEF Greet, Handshaking
  <2>2. /\ {"rx", "tx", "fin", "armed", "noSpace"} \subseteq DOMAIN sock'
        /\ sock'.rx = Append(sock.rx, first) /\ sock'.tx = sock.tx
    BY <1>3, <2>1
  <2>3. /\ Append(sock.rx, first) \in Seq(RequestUnit \cup Handshaking)
        /\ Len(Append(sock.rx, first)) = Len(sock.rx) + 1
        /\ \A i \in 1..Len(sock.rx) : Append(sock.rx, first)[i] = sock.rx[i]
        /\ Append(sock.rx, first)[Len(sock.rx) + 1] = first
    BY <1>3, AppendProperties
  <2>4. \/ client.hs = "start" /\ client'.hs = "hello"
        \/ client.hs = "hello" /\ client'.hs = "done"
    BY <1>4 DEF Greet, ClientType
  <2>5. CASE client.hs = "start" /\ client'.hs = "hello"
    <3>1. conn.ssl = "hello" /\ Len(sock.rx) = 0 BY <2>5 DEF SockType
    <3>2. Len(sock'.rx) = 1 /\ ~Shaken(conn') BY <1>1, <2>2, <2>3, <3>1 DEF Shaken
    <3>3. SockType'
      BY <1>1, <1>3, <2>2, <2>3, <2>5, <3>1, <3>2, SteadyUnits DEF SockType
    <3>4. QED BY <1>2, <3>3 DEF WorkerTypes
  <2>6. CASE client.hs = "hello" /\ client'.hs = "done"
    <3>1. /\ conn.ssl \in {"hello", "flight", "finish"} /\ Len(sock.rx) <= 1
          /\ conn.ssl # "hello" => Len(sock.rx) = 0
      BY <2>6 DEF SockType, ConnType, Shaken
    <3>2. \A i \in 1..Len(sock'.rx) :
            \/ conn.ssl = "hello" /\ i = 1
            \/ conn.ssl = "hello" /\ i = 2 /\ sock'.rx[i] = Finished
            \/ conn.ssl \in {"flight", "finish"} /\ i = 1
      BY <1>3, <2>1, <2>2, <2>3, <2>6, <3>1
    <3>3. SockType'
      BY <1>1, <1>3, <2>2, <2>3, <2>6, <3>2, SteadyUnits DEF SockType
    <3>4. QED BY <1>2, <3>3 DEF WorkerTypes
  <2>7. QED BY <2>4, <2>5, <2>6
<1>5. CASE SendUnit
  <2> DEFINE unit == <<client.req, client.pos>>
  <2>1. /\ sock' = [sock EXCEPT !.rx = Append(@, unit), !.armed = TRUE]
        /\ client.hs = "done" /\ unit \in RequestUnit
    BY <1>5 DEF SendUnit, ClientType, RequestUnit
  <2> HIDE DEF unit
  <2>2. /\ {"rx", "tx", "fin", "armed", "noSpace"} \subseteq DOMAIN sock'
        /\ sock'.rx = Append(sock.rx, unit) /\ sock'.tx = sock.tx
    BY <1>3, <2>1
  <2>3. /\ Append(sock.rx, unit) \in Seq(RequestUnit \cup Handshaking)
        /\ Len(Append(sock.rx, unit)) = Len(sock.rx) + 1
        /\ \A i \in 1..Len(sock.rx) : Append(sock.rx, unit)[i] = sock.rx[i]
        /\ Append(sock.rx, unit)[Len(sock.rx) + 1] = unit
    BY <1>3, <2>1, AppendProperties
  <2>4. client'.hs = "done"
    <3>1. \/ client' = [client EXCEPT !.pos = @ + 1]
          \/ client' = [client EXCEPT !.pos = 0, !.req = @ + 1]
      BY <1>5 DEF SendUnit
    <3>2. QED BY <2>1, <3>1 DEF ClientType
  <2>5. SockType'
    <3>1. \A i \in 1..Len(sock'.rx) :
            sock'.rx[i] \in RequestUnit \/ (i \in 1..Len(sock.rx) /\ sock'.rx[i] = sock.rx[i])
      BY <1>3, <2>1, <2>2, <2>3
    <3>2. RequestUnit' = RequestUnit BY DEF Steady
    <3>3. QED BY <1>1, <1>3, <2>2, <2>3, <2>4, <3>1, <3>2, SteadyUnits DEF SockType
  <2>6. QED BY <1>2, <2>5 DEF WorkerTypes
<1>6. CASE Receive
  <2>1. /\ sock.tx # <<>>
        /\ \E armed : sock' = [sock EXCEPT !.tx = Tail(@), !.armed = armed, !.noSpace = FALSE]
        /\ \/ \E n : client' = [client EXCEPT !.seen = n]
           \/ \E g : client' = [client EXCEPT !.got = g]
    BY <1>6 DEF Receive
  <2>2. /\ {"rx", "tx", "fin", "armed", "noSpace"} \subseteq DOMAIN sock'
        /\ sock'.rx = sock.rx /\ sock'.tx = Tail(sock.tx)
    BY <1>3, <2>1
  <2>3. Tail(sock.tx) \in Seq(Wire) /\ Len(Tail(sock.tx)) = Len(sock.tx) - 1
    BY <1>3, <2>1, HeadTailProperties
  <2>4. Len(sock'.tx) <= SendCap BY <1>3, <2>2, <2>3, ConnectionAssumption
  <2>5. client'.hs = client.hs BY <2>1 DEF ClientType
  <2>6. SockType'
    BY <1>1, <2>2, <2>3, <2>4, <2>5, SteadyUnits, Zenon DEF SockType, Steady, Shaken
  <2>7. QED BY <1>2, <2>6 DEF WorkerTypes
<1>7. CASE HangUp
  <2>1. client' = client /\ sock' = [sock EXCEPT !.fin = TRUE, !.armed = TRUE]
    BY <1>7 DEF HangUp
  <2>2. /\ {"rx", "tx", "fin", "armed", "noSpace"} \subseteq DOMAIN sock'
        /\ sock'.rx = sock.rx /\ sock'.tx = sock.tx
    BY <1>3, <2>1
  <2>3. SockType' BY <1>1, <2>1, <2>2, SteadyUnits, Zenon DEF SockType, Steady, Shaken
  <2>4. QED BY <1>2, <2>3 DEF WorkerTypes
<1>8. QED BY <1>4, <1>5, <1>6, <1>7

-----------------------------------------------------------------------------
(* The type invariant                                                        *)

\* A new connection.
LEMMA InitTypes == Init => TypeInv
<1> SUFFICES ASSUME Init PROVE TypeInv OBVIOUS
<1>1. PICK p \in Peers :
        /\ client = [script |-> p.script, pipelines |-> p.pipelines, flight |-> p.flight,
                     hs |-> IF p.flight = 0 THEN "done" ELSE "start", seen |-> 0,
                     req |-> 1, pos |-> 0, got |-> <<>>]
        /\ conn = [open |-> TRUE, state |-> "READING", parser |-> NewParser,
                   ssl |-> IF p.flight = 0 THEN "none" ELSE "hello", flushed |-> 0,
                   out |-> <<>>, offset |-> 0, handled |-> 0, quiet |-> FALSE,
                   refed |-> FALSE, dropped |-> FALSE, unread |-> FALSE, wantWrite |-> FALSE]
  BY DEF Init
<1>2. Len(p.script) \in Nat BY ConnectionAssumption
<1>3. \A S : <<>> \in Seq(S) /\ Len(<<>>) = 0 BY EmptySeq
<1>4. ClientType
  <2>1. client.script = p.script /\ client.flight = p.flight BY <1>1
  <2>2. client.req \in 1..(Len(client.script) + 1) BY <1>1, <1>2
  <2>3. QED BY <1>1, <2>1, <2>2 DEF ClientType
<1>5. ParserOf(conn.parser)
  <2>1. conn.parser = NewParser BY <1>1
  <2>2. QED BY <1>3, <2>1 DEF ParserOf, NewParser
<1>6. ConnType
  <2>1. conn.out = <<>> /\ conn.offset = 0 /\ conn.out \in Seq(ResponseUnit) BY <1>1, <1>3
  <2>2. conn.offset \in 0..Len(conn.out) BY <1>3, <2>1
  <2>3. QED BY <1>1, <2>1, <2>2 DEF ConnType
<1>7. SockType
  <2>1. sock = [rx |-> <<>>, tx |-> <<>>, fin |-> FALSE, armed |-> TRUE, noSpace |-> FALSE]
    BY DEF Init
  <2>2. client.hs = "start" <=> conn.ssl = "hello" BY <1>1
  <2>3. Len(sock.rx) = 0 /\ Len(sock.tx) <= SendCap BY <1>3, <2>1, ConnectionAssumption
  <2>4. client.hs # "hello" BY <1>1
  <2>5. QED BY <1>3, <2>1, <2>2, <2>3, <2>4 DEF SockType
<1>8. MainType BY <1>3 DEF Init, MainType
<1>9. WorkType
  <2>1. work = [w \in Workers |-> IdleWorker] /\ served = <<>> BY DEF Init
  <2>2. \A w \in Workers : WorkOf(w) BY <2>1 DEF WorkOf, IdleWorker, WorkPC
  <2>3. QED BY <1>3, <2>1, <2>2 DEF WorkType
<1>10. QED BY <1>4, <1>5, <1>6, <1>7, <1>8, <1>9 DEF TypeInv

\* Every step keeps the types.
LEMMA TypeStep ==
  ASSUME OneWorker, TypeInv, [Next]_vars
  PROVE  TypeInv'
<1>1. ClientType' /\ Steady BY ClientKept DEF TypeInv
<1>2. WorkerTypes'
  <2>1. CASE UNCHANGED vars
    BY <1>1, <2>1, ConnFrame, SockFrame, WorkFrame DEF TypeInv, vars, WorkerTypes, MainType
  <2>2. ASSUME NEW w \in Workers, WorkerStep(w) PROVE WorkerTypes'
    <3>1. CASE StartTask(w) \/ HandleRead(w) \/ Handshake(w) \/ Recv(w) \/ FeedParser(w)
      BY <1>1, <3>1, StartTaskTypes, HandleReadTypes, HandshakeTypes, RecvTypes, FeedParserTypes
    <3>2. CASE Dispatch(w) \/ PrepareResponse(w) \/ HandleWrite(w) \/ Send(w) \/ Advance(w)
      BY <1>1, <3>2, DispatchTypes, PrepareResponseTypes, HandleWriteTypes, SendTypes,
         AdvanceTypes
    <3>3. CASE FinishWrite(w) \/ CloseInTask(w) \/ CheckAlive(w)
      BY <1>1, <3>3, FinishWriteTypes, CloseInTaskTypes
    <3>4. QED BY <2>2, <3>1, <3>2, <3>3 DEF WorkerStep
  <2>3. CASE HandleEvent \/ Quieten \/ CollectTimedOut \/ RemoveTimedOut
    BY <1>1, <2>3, EventLoopTypes
  <2>4. CASE Greet \/ SendUnit \/ Receive \/ HangUp BY <1>1, <2>4, PeerTypes
  <2>5. QED BY <2>1, <2>2, <2>3, <2>4 DEF Next
<1>3. QED BY <1>1, <1>2 DEF TypeInv, WorkerTypes

\* With one worker, every variable has its type, and write_offset_ stays within
\* write_buffer_.
THEOREM SerialTypes == ASSUME OneWorker PROVE Spec => []TypeOK
<1>1. TypeInv => TypeOK
  <2> SUFFICES ASSUME TypeInv PROVE TypeOK OBVIOUS
  <2> USE DEF TypeInv
  <2>1. \A i \in 1..Len(conn.out) : conn.out[i] \in Request \X Nat \X Status
    BY ElementOfSeq DEF ConnType, ResponseUnit
  <2>2. \A i \in 1..Len(main.tasks) : main.tasks[i] \subseteq Events
    BY ElementOfSeq DEF MainType
  <2>3. \A w \in Workers : work[w].pc \in WorkPC /\ work[w].events \subseteq Events
    BY DEF WorkType, WorkOf
  <2>4. QED
    BY <2>1, <2>2, <2>3 DEF TypeOK, ClientType, ParserOf, ConnType, SockType
<1>2. TypeInv /\ [Next]_vars => TypeInv' BY TypeStep
<1>3. QED BY InitTypes, <1>1, <1>2, PTL DEF Spec

-----------------------------------------------------------------------------
(* The limit of a body                                                       *)

\* What does not feed the parser, nor give its request away, keeps the limit.
LEMMA BodyFrame ==
  ASSUME BodyInv, conn'.refed = conn.refed, served' = served,
         \A w \in Workers : work'[w].pc = "dispatch" => work'[w] = work[w],
         \/ conn'.state # "READING" \/ conn'.parser.stage = "head"
         \/ /\ conn'.state = conn.state /\ conn'.parser = conn.parser
            /\ \A w \in Workers : work[w].pc = "prepare" => work'[w].pc = "prepare"
  PROVE  BodyInv'
BY DEF BodyInv, Bounded

\* A close leaves the parser and the history alone.
LEMMA CloseBody ==
  ASSUME ConnType, CloseConnection \/ UNCHANGED <<conn, sock>>
  PROVE  /\ conn'.refed = conn.refed /\ conn'.parser = conn.parser
         /\ conn'.state # "READING" \/ conn'.state = conn.state
BY DEF ConnType, CloseConnection, CloseObject

\* With one worker, none hands a request over but the one that moves.
LEMMA WorkerFrame ==
  ASSUME OneWorker, WorkType, BodyInv, NEW w \in Workers, served' = served,
         conn'.refed = conn.refed,
         \/ conn'.state # "READING" \/ conn'.parser.stage = "head"
         \/ conn'.state = conn.state /\ conn'.parser = conn.parser /\ work[w].pc # "prepare",
         \/ Leave(w) \/ work' = [work EXCEPT ![w] = IdleWorker]
         \/ work' = work /\ work[w].pc # "dispatch"
         \/ \E pc \in WorkPC \ {"dispatch"} : Goto(w, pc) \/ \E arg : GotoWith(w, pc, arg)
  PROVE  BodyInv'
<1>1. Workers \subseteq DOMAIN work /\ WorkOf(w) BY DEF WorkType
<1>2. work'[w].pc # "dispatch"
  <2>1. CASE Leave(w) BY <1>1, <2>1 DEF Leave, AfterRead, WorkOf
  <2>2. CASE work' = [work EXCEPT ![w] = IdleWorker] BY <1>1, <2>2 DEF IdleWorker
  <2>3. ASSUME NEW pc \in WorkPC \ {"dispatch"}, Goto(w, pc) \/ \E arg : GotoWith(w, pc, arg)
        PROVE  work'[w].pc # "dispatch"
    BY <1>1, <2>3 DEF Goto, GotoWith, WorkOf
  <2>4. QED BY <2>1, <2>2, <2>3
<1>3. \A v \in Workers : v = w BY DEF OneWorker
<1>4. QED BY <1>2, <1>3, BodyFrame

\* The steps of a worker around feed and on_request_.
LEMMA OtherWorkerBody ==
  ASSUME OneWorker, TypeInv, BodyInv, NEW w \in Workers,
         WorkerStep(w), ~FeedParser(w), ~Dispatch(w)
  PROVE  BodyInv'
<1> USE DEF TypeInv
<1>1. Workers \subseteq DOMAIN work BY DEF WorkType
<1> DEFINE Moved == \E pc \in WorkPC \ {"dispatch"} : Goto(w, pc) \/ \E arg : GotoWith(w, pc, arg)
<1>3. {"accept", "recv", "feed", "close", "write", "send", "sent", "advance"}
        \subseteq WorkPC \ {"dispatch"}
  BY DEF WorkPC
<1>4. CASE StartTask(w)
  <2>1. /\ UNCHANGED <<conn, served>> /\ work[w].pc = "idle"
        /\ \E events : work' = [work EXCEPT ![w] =
             [pc |-> IF "IN" \in events THEN "read" ELSE AfterRead(events),
              events |-> events, arg |-> <<>>, inRead |-> "IN" \in events]]
    BY <1>4 DEF StartTask
  <2>2. work'[w].pc # "dispatch" BY <1>1, <2>1 DEF AfterRead
  <2>3. \A v \in Workers : v = w BY DEF OneWorker
  <2>4. QED BY <2>1, <2>2, <2>3, BodyFrame
<1>5. CASE HandleRead(w)
  <2>1. work[w].pc = "read" /\ served' = served /\ (Leave(w) \/ Moved)
    BY <1>3, <1>5 DEF HandleRead
  <2>2. conn' = conn \/ conn' = [conn EXCEPT !.quiet = FALSE] BY <1>5 DEF HandleRead
  <2>3. /\ conn'.refed = conn.refed /\ conn'.state = conn.state /\ conn'.parser = conn.parser
    BY <2>2 DEF ConnType
  <2>4. QED BY <2>1, <2>3, WorkerFrame
<1>6. CASE Handshake(w)
  <2>1. /\ work[w].pc = "accept" /\ served' = served
        /\ Leave(w) \/ Moved \/ work' = work
    BY <1>3, <1>6 DEF Handshake, NextFlight
  <2>2. \/ conn' = conn
        \/ \E ssl, f : conn' = [conn EXCEPT !.ssl = ssl, !.flushed = f]
        \/ \E f : conn' = [conn EXCEPT !.flushed = f, !.wantWrite = TRUE]
        \/ \E ssl : conn' = [conn EXCEPT !.ssl = ssl]
        \/ conn' = [conn EXCEPT !.ssl = "done", !.quiet = FALSE]
    BY <1>6 DEF Handshake
  <2>3. /\ conn'.refed = conn.refed /\ conn'.state = conn.state /\ conn'.parser = conn.parser
    BY <2>2 DEF ConnType
  <2>4. QED BY <2>1, <2>3, WorkerFrame
<1>7. CASE Recv(w)
  <2>1. /\ work[w].pc = "recv" /\ served' = served /\ conn' = [conn EXCEPT !.unread = FALSE]
        /\ Leave(w) \/ Moved
    BY <1>3, <1>7 DEF Recv
  <2>2. /\ conn'.refed = conn.refed /\ conn'.state = conn.state /\ conn'.parser = conn.parser
    BY <2>1 DEF ConnType
  <2>3. QED BY <2>1, <2>2, WorkerFrame
<1>8. CASE PrepareResponse(w)
  <2>1. /\ served' = served /\ Moved
        /\ conn' = [conn EXCEPT !.out = work[w].arg, !.offset = 0, !.state = "WRITING"]
    BY <1>3, <1>8 DEF PrepareResponse
  <2>2. conn'.refed = conn.refed /\ conn'.state = "WRITING" BY <2>1 DEF ConnType
  <2>3. QED BY <2>1, <2>2, WorkerFrame
<1>9. CASE HandleWrite(w)
  <2>1. work[w].pc = "write" /\ served' = served /\ (Leave(w) \/ Moved)
    BY <1>3, <1>9 DEF HandleWrite
  <2>2. conn' = conn \/ conn' = [conn EXCEPT !.quiet = FALSE] BY <1>9 DEF HandleWrite
  <2>3. /\ conn'.refed = conn.refed /\ conn'.state = conn.state /\ conn'.parser = conn.parser
    BY <2>2 DEF ConnType
  <2>4. QED BY <2>1, <2>3, WorkerFrame
<1>10. CASE Send(w)
  <2>1. work[w].pc = "send" /\ served' = served /\ Moved BY <1>3, <1>10 DEF Send
  <2>2. conn' = conn \/ \E f : conn' = [conn EXCEPT !.flushed = f] BY <1>10 DEF Send
  <2>3. /\ conn'.refed = conn.refed /\ conn'.state = conn.state /\ conn'.parser = conn.parser
    BY <2>2 DEF ConnType
  <2>4. QED BY <2>1, <2>3, WorkerFrame
<1>11. CASE Advance(w)
  <2>1. /\ work[w].pc = "advance" /\ served' = served /\ Moved
        /\ \E o : conn' = [conn EXCEPT !.offset = o]
    BY <1>3, <1>11 DEF Advance
  <2>2. /\ conn'.refed = conn.refed /\ conn'.state = conn.state /\ conn'.parser = conn.parser
    BY <2>1 DEF ConnType
  <2>3. QED BY <2>1, <2>2, WorkerFrame
<1>12. CASE FinishWrite(w)
  <2>1. work[w].pc = "sent" /\ served' = served /\ (Leave(w) \/ Moved)
    BY <1>3, <1>12 DEF FinishWrite
  <2>2. \/ conn' = conn \/ conn' = Cleared(conn)
        \/ \E d : conn' = [Cleared(conn) EXCEPT !.parser = NewParser, !.state = "READING",
                                                !.dropped = d]
    BY <1>12 DEF FinishWrite, Reset
  <2>3. /\ conn'.refed = conn.refed
        /\ \/ conn'.parser.stage = "head"
           \/ conn'.state = conn.state /\ conn'.parser = conn.parser
    <3>1. CASE conn' = conn BY <3>1
    <3>2. CASE conn' = Cleared(conn) BY <3>2 DEF ConnType, Cleared
    <3>3. CASE \E d : conn' = [Cleared(conn) EXCEPT !.parser = NewParser, !.state = "READING",
                                                    !.dropped = d]
      BY <3>3 DEF ConnType, Cleared, NewParser
    <3>4. QED BY <2>2, <3>1, <3>2, <3>3
  <2>4. QED BY <2>1, <2>3, WorkerFrame
<1>13. CASE CloseInTask(w) \/ CheckAlive(w)
  <2>1. /\ work[w].pc \in {"close", "check"} /\ served' = served
        /\ CloseConnection \/ UNCHANGED <<conn, sock>>
        /\ Leave(w) \/ work' = [work EXCEPT ![w] = IdleWorker]
    BY <1>13 DEF CloseInTask, CheckAlive, RemoveConnection
  <2>2. /\ conn'.refed = conn.refed /\ conn'.parser = conn.parser
        /\ conn'.state # "READING" \/ conn'.state = conn.state
    BY <2>1, CloseBody
  <2>3. QED BY <2>1, <2>2, WorkerFrame
<1>14. QED
  BY <1>4, <1>5, <1>6, <1>7, <1>8, <1>9, <1>10, <1>11, <1>12, <1>13 DEF WorkerStep

\* feed takes at most one read more than the limit allowed to be there before it.
LEMMA FeedBody ==
  ASSUME OneWorker, TypeInv, BodyInv, NEW w \in Workers, FeedParser(w)
  PROVE  BodyInv'
<1> USE DEF TypeInv
<1>1. /\ served' = served /\ work[w].pc = "feed" /\ Workers \subseteq DOMAIN work
      /\ \A v \in Workers : v = w
  BY DEF FeedParser, WorkType, OneWorker
<1>2. /\ WorkOf(w) /\ work[w].arg \in Seq(RequestUnit) /\ Len(work[w].arg) \in 1..ReadBuf
      /\ ReadBuf \in Nat /\ MaxBody \in Nat
  BY <1>1, ConnectionAssumption DEF WorkType, WorkOf
<1> DEFINE fed == Feed(conn.parser, work[w].arg)
           size == Len(work[w].arg)
           Ended == [conn EXCEPT !.parser = fed.parser, !.unread = sock.rx # <<>>,
                                 !.refed = @ \/ conn.state # "READING"]
<1>3. /\ fed.result \in {"ERROR", "COMPLETE", "NEED_MORE_DATA"}
      /\ ParserOf(fed.parser)
      /\ fed.result = "NEED_MORE_DATA" => fed.parser.stage = "body"
      /\ fed.result # "ERROR" /\ conn.parser.stage = "head" => fed.parser.read <= size - 1
      /\ fed.result # "ERROR" /\ conn.parser.stage = "body" =>
           fed.parser.read <= conn.parser.read + size
  <2>1. size > 0 BY <1>2
  <2>2. QED BY <1>2, <2>1, FeedFacts
<1>4. \/ /\ conn' = Ended /\ \E arg : GotoWith(w, "prepare", arg)
      \/ /\ fed.result = "COMPLETE"
         /\ conn' = [Ended EXCEPT !.state = "PROCESSING", !.handled = @ + 1]
         /\ GotoWith(w, "dispatch", [req |-> fed.parser.req, body |-> fed.parser.read])
      \/ /\ fed.result = "NEED_MORE_DATA" /\ ~TooLarge(fed.parser.read, size)
         /\ conn' = [conn EXCEPT !.parser = fed.parser] /\ GotoWith(w, "recv", <<>>)
  BY <1>3, Zenon DEF FeedParser
<1> HIDE DEF fed, size
<1>5. size \in 1..ReadBuf BY <1>2 DEF size
<1>6. CASE conn.refed
  <2>1. conn'.refed BY <1>4, <1>6 DEF ConnType
  <2>2. QED BY <2>1 DEF BodyInv
<1>7. CASE ~conn.refed /\ conn.state # "READING"
  <2>1. CASE conn' = Ended BY <1>7, <2>1 DEF ConnType, BodyInv
  <2>2. CASE conn' = [Ended EXCEPT !.state = "PROCESSING", !.handled = @ + 1]
    BY <1>7, <2>2 DEF ConnType, BodyInv
  <2>3. CASE conn' = [conn EXCEPT !.parser = fed.parser] /\ GotoWith(w, "recv", <<>>)
    <3>1. conn'.refed = conn.refed /\ conn'.state # "READING" BY <1>7, <2>3 DEF ConnType
    <3>2. "recv" \in WorkPC \ {"dispatch"} BY DEF WorkPC
    <3>3. QED BY <1>1, <2>3, <3>1, <3>2, WorkerFrame
  <2>4. QED BY <1>4, <2>1, <2>2, <2>3
<1>8. CASE ~conn.refed /\ conn.state = "READING"
  <2>1. /\ \A i \in 1..Len(served) : Bounded(served[i])
        /\ conn.parser.stage = "head" \/ (conn.parser.stage = "body" /\ conn.parser.read < MaxBody)
    BY <1>1, <1>8 DEF BodyInv
  <2>2. CASE \E arg : GotoWith(w, "prepare", arg)
    <3>1. work'[w].pc = "prepare" BY <1>1, <1>2, <2>2 DEF GotoWith, WorkOf
    <3>2. QED BY <1>1, <2>1, <3>1 DEF BodyInv, Bounded
  <2>3. CASE /\ fed.result = "COMPLETE"
             /\ conn' = [Ended EXCEPT !.state = "PROCESSING", !.handled = @ + 1]
             /\ GotoWith(w, "dispatch", [req |-> fed.parser.req, body |-> fed.parser.read])
    <3>1. fed.parser.read <= MaxBody + ReadBuf - 1
      BY <1>2, <1>3, <1>5, <2>1, <2>3 DEF ParserOf
    <3>2. work'[w].arg = [req |-> fed.parser.req, body |-> fed.parser.read]
      BY <1>1, <1>2, <2>3 DEF GotoWith, WorkOf
    <3>3. conn'.state = "PROCESSING" BY <2>3 DEF ConnType
    <3>4. Bounded(work'[w].arg) BY <3>1, <3>2 DEF Bounded
    <3>5. QED BY <1>1, <2>1, <3>3, <3>4 DEF BodyInv, Bounded
  <2>4. CASE /\ fed.result = "NEED_MORE_DATA" /\ ~TooLarge(fed.parser.read, size)
             /\ conn' = [conn EXCEPT !.parser = fed.parser] /\ GotoWith(w, "recv", <<>>)
    <3>1. fed.parser.stage = "body" /\ fed.parser.read < MaxBody
      BY <1>2, <1>3, <1>5, <2>4 DEF TooLarge, ParserOf
    <3>2. conn'.parser = fed.parser BY <2>4 DEF ConnType
    <3>3. work'[w].pc = "recv" BY <1>1, <1>2, <2>4 DEF GotoWith, WorkOf
    <3>4. QED BY <1>1, <2>1, <3>1, <3>2, <3>3 DEF BodyInv, Bounded
  <2>5. QED BY <1>4, <2>2, <2>3, <2>4
<1>9. QED BY <1>6, <1>7, <1>8

\* Every step keeps the limit.
LEMMA BodyStep ==
  ASSUME OneWorker, TypeInv, BodyInv, [Next]_vars
  PROVE  BodyInv'
<1> USE DEF TypeInv
<1>1. ASSUME NEW w \in Workers, Dispatch(w) PROVE BodyInv'
  <2>1. /\ conn' = conn /\ work[w].pc = "dispatch" /\ Workers \subseteq DOMAIN work
        /\ \A v \in Workers : v = w
        /\ served' = Append(served, work[w].arg)
    BY <1>1 DEF Dispatch, WorkType, OneWorker
  <2>2. CASE conn.refed BY <2>1, <2>2 DEF BodyInv
  <2>3. CASE ~conn.refed
    <3>1. Bounded(work[w].arg) /\ \A i \in 1..Len(served) : Bounded(served[i])
      BY <2>1, <2>3 DEF BodyInv
    <3>2. /\ Len(served') = Len(served) + 1 /\ Len(served) \in Nat
          /\ \A i \in 1..Len(served) : served'[i] = served[i]
          /\ served'[Len(served) + 1] = work[w].arg
      <4>1. served \in Seq([req : Nat, body : Nat]) BY DEF WorkType
      <4>2. Len(served) \in Nat BY <4>1
      <4>3. work[w].arg \in [req : Nat, body : Nat]
        <5>1. work[w].arg \in [req : Request, body : Nat] BY <2>1 DEF WorkType, WorkOf
        <5>2. QED BY <5>1, ScriptFacts
      <4>4. QED BY <2>1, <4>1, <4>2, <4>3, AppendProperties
    <3>3. \A i \in 1..Len(served') : Bounded(served'[i])
      <4>1. SUFFICES ASSUME NEW i \in 1..Len(served') PROVE Bounded(served'[i]) OBVIOUS
      <4>2. i \in 1..Len(served) \/ i = Len(served) + 1 BY <3>2
      <4>3. QED BY <3>1, <3>2, <4>2
    <3>4. work'[w].pc # "dispatch"
      <4>1. CASE work' = [work EXCEPT ![w] = IdleWorker] BY <2>1, <4>1 DEF IdleWorker
      <4>2. CASE \E arg : GotoWith(w, "prepare", arg)
        BY <2>1, <4>2 DEF GotoWith, WorkType, WorkOf
      <4>3. QED BY <1>1, <4>1, <4>2 DEF Dispatch
    <3>5. conn.state # "READING" \/ conn.parser.stage = "head"
          \/ (conn.parser.stage = "body" /\ conn.parser.read < MaxBody)
      BY <2>1, <2>3 DEF BodyInv
    <3>6. QED BY <2>1, <3>3, <3>4, <3>5 DEF BodyInv, Bounded
  <2>4. QED BY <2>2, <2>3
<1>2. ASSUME NEW w \in Workers, WorkerStep(w) PROVE BodyInv'
  BY <1>1, <1>2, FeedBody, OtherWorkerBody
<1>3. CASE HandleEvent \/ Quieten \/ CollectTimedOut \/ RemoveTimedOut
  <2>1. work' = work /\ served' = served
    BY <1>3 DEF HandleEvent, Quieten, CollectTimedOut, RemoveTimedOut
  <2>2. \/ CloseConnection \/ UNCHANGED <<conn, sock>> \/ conn' = conn
        \/ conn' = [conn EXCEPT !.quiet = TRUE]
    BY <1>3 DEF HandleEvent, Quieten, CollectTimedOut, RemoveTimedOut, RemoveConnection
  <2>3. /\ conn'.refed = conn.refed /\ conn'.parser = conn.parser
        /\ conn'.state # "READING" \/ conn'.state = conn.state
    <3>1. CASE CloseConnection \/ UNCHANGED <<conn, sock>> BY <3>1, CloseBody
    <3>2. CASE conn' = conn \/ conn' = [conn EXCEPT !.quiet = TRUE] BY <3>2 DEF ConnType
    <3>3. QED BY <2>2, <3>1, <3>2
  <2>4. QED BY <2>1, <2>3, BodyFrame
<1>4. CASE Greet \/ SendUnit \/ Receive \/ HangUp \/ UNCHANGED vars
  <2>1. work' = work /\ served' = served /\ conn' = conn
    BY <1>4 DEF Greet, SendUnit, Receive, HangUp, vars
  <2>2. QED BY <2>1, BodyFrame
<1>5. QED BY <1>2, <1>3, <1>4 DEF Next

\* With one worker, no handler is given a body more than one read longer than
\* max_request_size_, unless it came in while the response to an earlier request was
\* due.
THEOREM SerialBoundedBody == ASSUME OneWorker PROVE Spec => []BoundedBody
<1>1. Init => BodyInv
  <2> SUFFICES ASSUME Init PROVE BodyInv OBVIOUS
  <2>1. conn.parser.stage = "head" /\ served = <<>> BY DEF Init, NewParser
  <2>2. \A w \in Workers : work[w].pc = "idle" BY DEF Init, IdleWorker
  <2>3. QED BY <2>1, <2>2 DEF BodyInv
<1>2. BodyInv => BoundedBody BY DEF BodyInv, BoundedBody, Bounded
<1>3. TypeInv /\ BodyInv /\ [Next]_vars => (TypeInv /\ BodyInv)' BY TypeStep, BodyStep
<1>4. QED BY InitTypes, <1>1, <1>2, <1>3, PTL DEF Spec

-----------------------------------------------------------------------------
(* What is left of a sequence without the units of the handshake             *)

\* The values that PastHandshake goes through.
Passing(s, f) ==
  f[0] = <<>> /\ \A i \in 1..Len(s) : f[i] = IF s[i][1] = 0 THEN f[i - 1] ELSE Append(f[i - 1], s[i])

\* They exist, and the last is what is left.
LEMMA PassingExists ==
  ASSUME NEW W, NEW s \in Seq(W)
  PROVE  \E f \in [0..Len(s) -> Seq(W)] : Passing(s, f) /\ PastHandshake(s) = f[Len(s)]
<1> DEFINE n == Len(s)
           G == [p \in (1..n) \X Seq(W) |->
                   IF s[p[1]][1] = 0 THEN p[2] ELSE Append(p[2], s[p[1]])]
           past == CHOOSE f : f = [i \in 0..n |->
                     IF i = 0 THEN <<>> ELSE IF s[i][1] = 0 THEN f[i - 1] ELSE Append(f[i - 1], s[i])]
<1>1. n \in Nat BY LenProperties
<1>2. G \in Turns(n, Seq(W))
  <2>1. ASSUME NEW p \in (1..n) \X Seq(W)
        PROVE  (IF s[p[1]][1] = 0 THEN p[2] ELSE Append(p[2], s[p[1]])) \in Seq(W)
    <3>1. s[p[1]] \in W /\ p[2] \in Seq(W) BY ElementOfSeq
    <3>2. Append(p[2], s[p[1]]) \in Seq(W) BY <3>1, AppendProperties
    <3>3. QED BY <3>1, <3>2
  <2>2. QED BY <2>1 DEF Turns
<1>3. <<>> \in Seq(W) BY EmptySeq
<1>4. PICK f \in [0..n -> Seq(W)] : f[0] = <<>> /\ \A i \in 1..n : f[i] = G[<<i, f[i - 1]>>]
  <2> DEFINE S == Seq(W)
             first == <<>>
  <2>1. first \in S /\ G \in Turns(n, S) BY <1>2, <1>3
  <2> HIDE DEF G, n, S, first
  <2>2. \E f \in [0..n -> S] : f[0] = first /\ \A i \in 1..n : f[i] = G[<<i, f[i - 1]>>]
    BY <1>1, <2>1, Iteration
  <2>3. QED BY <2>2 DEF S, first
<1>5. ASSUME NEW i \in 1..n
      PROVE  f[i] = IF s[i][1] = 0 THEN f[i - 1] ELSE Append(f[i - 1], s[i])
  <2>1. f[i] = G[<<i, f[i - 1]>>] BY <1>4
  <2>2. i - 1 \in 0..n BY <1>1
  <2>3. f[i - 1] \in Seq(W) BY <1>4, <2>2
  <2>4. <<i, f[i - 1]>> \in (1..n) \X Seq(W) BY <2>3
  <2>5. QED BY <2>1, <2>4
<1>6. f = [i \in 0..n |->
             IF i = 0 THEN <<>> ELSE IF s[i][1] = 0 THEN f[i - 1] ELSE Append(f[i - 1], s[i])]
  <2>1. \A i \in 0..n : i = 0 \/ i \in 1..n BY <1>1
  <2>2. \A i \in 0..n :
          f[i] = IF i = 0 THEN <<>> ELSE IF s[i][1] = 0 THEN f[i - 1] ELSE Append(f[i - 1], s[i])
    BY <1>4, <1>5, <2>1
  <2>3. f = [i \in 0..n |-> f[i]] BY <1>4
  <2>4. QED BY <2>2, <2>3
<1>7. past = [i \in 0..n |->
                IF i = 0 THEN <<>> ELSE IF s[i][1] = 0 THEN past[i - 1] ELSE Append(past[i - 1], s[i])]
  BY <1>6
<1>8. PastHandshake(s) = past[n] BY DEF PastHandshake
<1> HIDE DEF past
<1>9. \A i \in 0..n :
        past[i] = IF i = 0 THEN <<>> ELSE IF s[i][1] = 0 THEN past[i - 1] ELSE Append(past[i - 1], s[i])
  BY <1>7
<1> DEFINE T == {i \in 0..n : past[i] = f[i]}
<1>10. 0 \in T BY <1>1, <1>4, <1>9
<1>11. ASSUME NEW i \in 0..(n - 1), i \in T PROVE i + 1 \in T
  <2>1. i + 1 \in 1..n /\ i + 1 \in 0..n /\ i + 1 # 0 /\ (i + 1) - 1 = i BY <1>1
  <2>2. past[i] = f[i] BY <1>11
  <2>3. past[i + 1] = IF s[i + 1][1] = 0 THEN past[i] ELSE Append(past[i], s[i + 1])
    BY <1>9, <2>1
  <2>4. f[i + 1] = IF s[i + 1][1] = 0 THEN f[i] ELSE Append(f[i], s[i + 1]) BY <1>5, <2>1
  <2>5. QED BY <2>1, <2>2, <2>3, <2>4
<1>12. past[n] = f[n]
  <2> HIDE DEF T
  <2>1. 0..n \subseteq T BY <1>1, <1>10, <1>11, InductionUpTo
  <2>2. QED BY <1>1, <2>1 DEF T
<1>13. QED BY <1>4, <1>5, <1>8, <1>12 DEF Passing

Alike(s, t, m) == m <= Len(s) /\ m <= Len(t) /\ \A i \in 1..m : s[i] = t[i]

\* Sequences that begin alike pass alike.
LEMMA PassingAlike ==
  ASSUME NEW m \in Nat, NEW s, NEW t, NEW f, NEW g, Passing(s, f), Passing(t, g),
         Len(s) \in Nat, Len(t) \in Nat, Alike(s, t, m)
  PROVE  f[m] = g[m]
<1> USE DEF Alike
<1> DEFINE T == {i \in 0..m : f[i] = g[i]}
<1>1. 0 \in T BY DEF Passing
<1>2. ASSUME NEW i \in 0..(m - 1), i \in T PROVE i + 1 \in T
  <2>1. /\ i + 1 \in 1..m /\ i + 1 \in 0..m /\ i + 1 \in 1..Len(s) /\ i + 1 \in 1..Len(t)
        /\ (i + 1) - 1 = i
    OBVIOUS
  <2>2. f[i] = g[i] /\ s[i + 1] = t[i + 1] BY <1>2, <2>1
  <2>3. f[i + 1] = IF s[i + 1][1] = 0 THEN f[i] ELSE Append(f[i], s[i + 1]) BY <2>1 DEF Passing
  <2>4. g[i + 1] = IF t[i + 1][1] = 0 THEN g[i] ELSE Append(g[i], t[i + 1]) BY <2>1 DEF Passing
  <2>5. QED BY <2>1, <2>2, <2>3, <2>4
<1>3. m \in T
  <2> HIDE DEF T
  <2>1. 0..m \subseteq T BY <1>1, <1>2, InductionUpTo
  <2>2. QED BY <2>1
<1>4. QED BY <1>3

\* What is left of two parts is left of each.
LEMMA PastConcat ==
  ASSUME NEW W, NEW s \in Seq(W), NEW t \in Seq(W)
  PROVE  /\ PastHandshake(s \o t) = PastHandshake(s) \o PastHandshake(t)
         /\ PastHandshake(s) \in Seq(W) /\ PastHandshake(t) \in Seq(W)
<1> DEFINE st == s \o t
<1>1. /\ st \in Seq(W) /\ Len(st) = Len(s) + Len(t) /\ Len(s) \in Nat /\ Len(t) \in Nat
      /\ \A i \in 1..Len(s) + Len(t) : st[i] = IF i <= Len(s) THEN s[i] ELSE t[i - Len(s)]
  BY ConcatProperties
<1> HIDE DEF st
<1>2. PICK f : f \in [0..Len(s) -> Seq(W)] /\ Passing(s, f) /\ PastHandshake(s) = f[Len(s)]
  BY PassingExists
<1>3. PICK g : g \in [0..Len(t) -> Seq(W)] /\ Passing(t, g) /\ PastHandshake(t) = g[Len(t)]
  BY PassingExists
<1>4. PICK h : h \in [0..Len(st) -> Seq(W)] /\ Passing(st, h) /\ PastHandshake(st) = h[Len(st)]
  BY <1>1, PassingExists
<1> DEFINE a == f[Len(s)]
           T == {i \in 0..Len(t) : h[Len(s) + i] = a \o g[i]}
<1>5. a \in Seq(W)
  <2>1. Len(s) \in 0..Len(s) BY <1>1
  <2>2. QED BY <1>2, <2>1
<1>6. h[Len(s)] = a
  <2>1. \A i \in 1..Len(s) : s[i] = st[i] BY <1>1
  <2>2. Len(st) \in Nat /\ Alike(s, st, Len(s)) BY <1>1, <2>1 DEF Alike
  <2> DEFINE m == Len(s)
             n == Len(st)
  <2>3. m \in Nat /\ n \in Nat /\ Alike(s, st, m) BY <1>1, <2>2
  <2>4. Passing(s, f) /\ Passing(st, h) BY <1>2, <1>4
  <2> HIDE DEF m
  <2>5. f[m] = h[m] BY <2>2, <2>3, <2>4, PassingAlike DEF m
  <2>6. QED BY <2>5 DEF a, m
<1> HIDE DEF a
<1>7. 0 \in T
  <2>1. g[0] = <<>> BY <1>3 DEF Passing
  <2>2. a \o <<>> = a BY <1>5, ConcatEmptySeq
  <2>3. Len(s) + 0 = Len(s) /\ 0 \in 0..Len(t) BY <1>1
  <2>4. h[Len(s) + 0] = a \o g[0] BY <1>6, <2>1, <2>2, <2>3
  <2>5. QED BY <2>3, <2>4
<1>8. ASSUME NEW i \in 0..(Len(t) - 1), i \in T PROVE i + 1 \in T
  <2>1. /\ i + 1 \in 1..Len(t) /\ i + 1 \in 0..Len(t) /\ i \in 0..Len(t) /\ (i + 1) - 1 = i
        /\ Len(s) + (i + 1) \in 1..Len(st) /\ (Len(s) + (i + 1)) - 1 = Len(s) + i
        /\ Len(s) + (i + 1) \in 1..Len(s) + Len(t)
        /\ ~(Len(s) + (i + 1) <= Len(s)) /\ (Len(s) + (i + 1)) - Len(s) = i + 1
    BY <1>1
  <2>2. h[Len(s) + i] = a \o g[i] BY <1>8
  <2>3. st[Len(s) + (i + 1)] = t[i + 1] BY <1>1, <2>1
  <2>4. h[Len(s) + (i + 1)] = IF t[i + 1][1] = 0 THEN h[Len(s) + i]
                              ELSE Append(h[Len(s) + i], t[i + 1])
    BY <1>4, <2>1, <2>3 DEF Passing
  <2>5. g[i + 1] = IF t[i + 1][1] = 0 THEN g[i] ELSE Append(g[i], t[i + 1])
    BY <1>3, <2>1 DEF Passing
  <2>6. g[i] \in Seq(W) /\ t[i + 1] \in W BY <1>3, <2>1, ElementOfSeq
  <2>7. Append(a \o g[i], t[i + 1]) = a \o Append(g[i], t[i + 1])
    <3> DEFINE b == g[i]
               x == t[i + 1]
    <3>1. b \in Seq(W) /\ x \in W BY <2>6
    <3> HIDE DEF b, x
    <3>2. <<x>> \in Seq(W) BY <3>1
    <3>3. Append(a \o b, x) = (a \o b) \o <<x>> BY <1>5, <3>1, ConcatProperties, AppendIsConcat
    <3>4. Append(b, x) = b \o <<x>> BY <3>1, AppendIsConcat
    <3> DEFINE u == <<x>>
    <3>5. u \in Seq(W) BY <3>2
    <3> HIDE DEF u
    <3>6. (a \o b) \o u = a \o (b \o u) BY <1>5, <3>1, <3>5, ConcatAssociative, SMTT(30)
    <3>7. QED BY <3>3, <3>4, <3>6 DEF b, x, u
  <2>8. h[Len(s) + (i + 1)] = a \o g[i + 1] BY <2>2, <2>4, <2>5, <2>7
  <2>9. QED BY <2>1, <2>8
<1>9. h[Len(s) + Len(t)] = a \o g[Len(t)]
  <2> HIDE DEF T
  <2>1. 0..Len(t) \subseteq T BY <1>1, <1>7, <1>8, InductionUpTo
  <2>2. Len(t) \in 0..Len(t) BY <1>1
  <2>3. Len(t) \in T BY <2>1, <2>2
  <2>4. QED BY <2>3 DEF T
<1>10. PastHandshake(t) \in Seq(W)
  <2>1. Len(t) \in 0..Len(t) BY <1>1
  <2>2. QED BY <1>3, <2>1
<1>11. PastHandshake(s) \in Seq(W)
  <2>1. PastHandshake(s) = a BY <1>2 DEF a
  <2>2. QED BY <1>5, <2>1
<1>12. PastHandshake(s \o t) = PastHandshake(s) \o PastHandshake(t)
  BY <1>1, <1>2, <1>3, <1>4, <1>9 DEF a, st
<1>13. QED BY <1>10, <1>11, <1>12

\* Nothing is left of a handshake.
LEMMA PastNone ==
  ASSUME NEW W, NEW t \in Seq(W), \A i \in 1..Len(t) : t[i][1] = 0
  PROVE  PastHandshake(t) = <<>>
<1>1. PICK g : g \in [0..Len(t) -> Seq(W)] /\ Passing(t, g) /\ PastHandshake(t) = g[Len(t)]
  BY PassingExists
<1>2. Len(t) \in Nat BY LenProperties
<1> DEFINE T == {i \in 0..Len(t) : g[i] = <<>>}
<1>3. 0 \in T BY <1>1, <1>2 DEF Passing
<1>4. ASSUME NEW i \in 0..(Len(t) - 1), i \in T PROVE i + 1 \in T
  <2>1. i + 1 \in 1..Len(t) /\ i + 1 \in 0..Len(t) /\ (i + 1) - 1 = i BY <1>2
  <2>2. g[i + 1] = g[i] BY <1>1, <2>1 DEF Passing
  <2>3. QED BY <1>4, <2>1, <2>2
<1>5. QED
  <2> HIDE DEF T
  <2>1. 0..Len(t) \subseteq T BY <1>2, <1>3, <1>4, InductionUpTo
  <2>2. QED BY <1>1, <1>2, <2>1 DEF T

\* All is left of responses.
LEMMA PastAll ==
  ASSUME NEW W, NEW t \in Seq(W), \A i \in 1..Len(t) : t[i][1] # 0
  PROVE  PastHandshake(t) = t
<1>1. PICK g : g \in [0..Len(t) -> Seq(W)] /\ Passing(t, g) /\ PastHandshake(t) = g[Len(t)]
  BY PassingExists
<1>2. Len(t) \in Nat BY LenProperties
<1> DEFINE T == {i \in 0..Len(t) : Len(g[i]) = i /\ \A k \in 1..i : g[i][k] = t[k]}
<1>3. 0 \in T
  <2>1. g[0] = <<>> /\ Len(g[0]) = 0 BY <1>1, EmptySeq DEF Passing
  <2>2. QED BY <1>2, <2>1
<1>4. ASSUME NEW i \in 0..(Len(t) - 1), i \in T PROVE i + 1 \in T
  <2>1. i + 1 \in 1..Len(t) /\ i + 1 \in 0..Len(t) /\ i \in 0..Len(t) /\ (i + 1) - 1 = i
    BY <1>2
  <2>2. g[i + 1] = Append(g[i], t[i + 1]) BY <1>1, <2>1 DEF Passing
  <2>3. g[i] \in Seq(W) /\ t[i + 1] \in W BY <1>1, <2>1, ElementOfSeq
  <2>4. Len(g[i]) = i /\ \A k \in 1..i : g[i][k] = t[k] BY <1>4
  <2> DEFINE b == g[i]
             c == Append(b, t[i + 1])
  <2>5. /\ Len(c) = Len(b) + 1 /\ (\A k \in 1..Len(b) : c[k] = b[k]) /\ c[Len(b) + 1] = t[i + 1]
    BY <2>3, AppendProperties
  <2> HIDE DEF b, c
  <2>6. Len(c) = i + 1 /\ c[i + 1] = t[i + 1] /\ \A k \in 1..i : c[k] = t[k]
    BY <2>4, <2>5 DEF b
  <2>7. \A k \in 1..(i + 1) : c[k] = t[k] BY <2>1, <2>6
  <2>8. QED BY <2>1, <2>2, <2>6, <2>7 DEF c, b
<1>5. Len(g[Len(t)]) = Len(t) /\ \A k \in 1..Len(t) : g[Len(t)][k] = t[k]
  <2> HIDE DEF T
  <2>1. 0..Len(t) \subseteq T BY <1>2, <1>3, <1>4, InductionUpTo
  <2>2. QED BY <1>2, <2>1 DEF T
<1>6. g[Len(t)] \in Seq(W) BY <1>1, <1>2
<1>7. g[Len(t)] = t BY <1>5, <1>6, SeqEqual
<1>8. QED BY <1>1, <1>7

-----------------------------------------------------------------------------
(* The units of requests, in the order a client sends them                   *)

\* What a client with that script sends after u.
Successor(script, u) ==
  IF u[2] < script[u[1]].body THEN <<u[1], u[2] + 1>> ELSE <<u[1] + 1, 0>>

\* No unit is missing between the first of q and the last.
Contiguous(script, q) == \A i \in 1..(Len(q) - 1) : q[i + 1] = Successor(script, q[i])

Pair == Nat \X Nat

RestFollows(q, r, j, k) == q[k + 1] = <<r, j + k>>

\* The rest of a body follows its first unit.
LEMMA RestOfBody ==
  ASSUME NEW script, NEW q, q \in Seq(Pair), Contiguous(script, q),
         NEW r, NEW j \in Nat, NEW k \in Nat, q[1] = <<r, j>>,
         NEW body \in Nat, script[r].body = body, j + k <= body, k < Len(q)
  PROVE  RestFollows(q, r, j, k)
<1> DEFINE T == {i \in 0..k : q[i + 1] = <<r, j + i>>}
<1>1. Len(q) \in Nat BY LenProperties
<1>2. 0 \in T
  <2>1. 0 + 1 = 1 /\ j + 0 = j OBVIOUS
  <2>2. QED BY <2>1
<1>3. ASSUME NEW i \in 0..(k - 1), i \in T PROVE i + 1 \in T
  <2>1. /\ i + 1 \in 0..k /\ i + 1 \in 1..(Len(q) - 1) /\ j + i < body
        /\ (j + i) + 1 = j + (i + 1)
    BY <1>1
  <2>2. q[i + 1] = <<r, j + i>> BY <1>3
  <2>3. q[(i + 1) + 1] = Successor(script, q[i + 1]) BY <2>1 DEF Contiguous
  <2>4. Successor(script, q[i + 1]) = <<r, (j + i) + 1>> BY <2>1, <2>2 DEF Successor
  <2>5. QED BY <2>1, <2>3, <2>4
<1>4. k \in T
  <2> HIDE DEF T
  <2>1. 0..k \subseteq T BY <1>2, <1>3, InductionUpTo
  <2>2. QED BY <2>1
<1>5. QED BY <1>4 DEF RestFollows

NextFollows(q, r, k) == q[k + 1] = <<r + 1, 0>>

\* The next request follows the last unit of a body.
LEMMA NextAfterBody ==
  ASSUME NEW script, NEW q, q \in Seq(Pair), Contiguous(script, q),
         NEW r, NEW j \in Nat, NEW k \in Nat, q[1] = <<r, j>>,
         NEW body \in Nat, script[r].body = body, j + k = body + 1, k > 0, k < Len(q)
  PROVE  NextFollows(q, r, k)
<1> DEFINE i == k - 1
<1>1. /\ Len(q) \in Nat /\ i \in Nat /\ j + i = body /\ j + i <= body
      /\ i < Len(q) /\ i + 1 = k
  BY LenProperties
<1> HIDE DEF i
<1>2. RestFollows(q, r, j, i) BY <1>1, RestOfBody
<1>3. q[k] = <<r, body>> BY <1>1, <1>2 DEF RestFollows
<1>4. k \in 1..(Len(q) - 1) BY <1>1
<1>5. q[k + 1] = Successor(script, q[k]) BY <1>4 DEF Contiguous
<1>6. QED BY <1>3, <1>5 DEF Successor, NextFollows

\* No unit is of an earlier request than the first.
LEMMA NeverEarlier ==
  ASSUME NEW script, NEW q, q \in Seq(Pair), Contiguous(script, q), NEW k \in 1..Len(q)
  PROVE  q[1][1] <= q[k][1]
<1> DEFINE n == Len(q) - 1
           T == {i \in 0..n : q[1][1] <= q[i + 1][1]}
<1>1. Len(q) \in Nat /\ n \in Nat BY LenProperties
<1>2. \A i \in 1..Len(q) : q[i][1] \in Nat BY ElementOfSeq DEF Pair
<1>3. 0 \in T
  <2>1. 0 + 1 = 1 /\ 0 \in 0..n /\ 1 \in 1..Len(q) BY <1>1
  <2>2. q[1][1] <= q[1][1] BY <1>2, <2>1
  <2>3. QED BY <2>1, <2>2
<1>4. ASSUME NEW i \in 0..(n - 1), i \in T PROVE i + 1 \in T
  <2>1. /\ i + 1 \in 0..n /\ i + 1 \in 1..(Len(q) - 1) /\ (i + 1) + 1 \in 1..Len(q)
        /\ i + 1 \in 1..Len(q) /\ 1 \in 1..Len(q)
    BY <1>1
  <2>2. q[1][1] <= q[i + 1][1] BY <1>4
  <2>3. q[(i + 1) + 1] = Successor(script, q[i + 1]) BY <2>1 DEF Contiguous
  <2>4. q[(i + 1) + 1][1] \in {q[i + 1][1], q[i + 1][1] + 1} BY <2>3 DEF Successor
  <2>5. q[1][1] \in Nat /\ q[i + 1][1] \in Nat BY <1>2, <2>1
  <2>6. q[1][1] <= q[(i + 1) + 1][1] BY <2>2, <2>4, <2>5
  <2>7. QED BY <2>1, <2>6
<1>5. k - 1 \in T
  <2> HIDE DEF T
  <2>1. 0..n \subseteq T BY <1>1, <1>3, <1>4, InductionUpTo
  <2>2. k - 1 \in 0..n BY <1>1
  <2>3. QED BY <2>1, <2>2
<1>6. (k - 1) + 1 = k BY <1>1
<1>7. QED BY <1>5, <1>6

\* A part at the end is contiguous too.
LEMMA DropContiguous ==
  ASSUME NEW script, NEW q, q \in Seq(Pair), Contiguous(script, q), NEW k \in 0..Len(q)
  PROVE  /\ Drop(q, k) \in Seq(Pair) /\ Contiguous(script, Drop(q, k))
         /\ Len(Drop(q, k)) = Len(q) - k
         /\ k < Len(q) => Drop(q, k)[1] = q[k + 1]
<1> DEFINE d == Drop(q, k)
           n == Len(q)
<1>1. n \in Nat /\ k \in Nat /\ k <= n BY LenProperties
<1>2. \A i \in (k + 1)..n : q[i] \in Pair BY <1>1, ElementOfSeq
<1>3. /\ d \in Seq(Pair)
      /\ Len(d) = IF k + 1 <= n THEN n - (k + 1) + 1 ELSE 0
      /\ \A i \in 1..n - (k + 1) + 1 : d[i] = q[(k + 1) + i - 1]
  <2> HIDE DEF n
  <2>1. k + 1 \in Int /\ n \in Int BY <1>1
  <2>2. QED BY <1>2, <2>1, SubSeqProperties DEF Drop, n
<1> HIDE DEF d
<1>4. Len(d) = n - k BY <1>1, <1>3
<1>5. \A i \in 1..(n - k) : d[i] = q[k + i]
  <2>1. ASSUME NEW i \in 1..(n - k) PROVE d[i] = q[k + i]
    <3>1. i \in 1..n - (k + 1) + 1 /\ (k + 1) + i - 1 = k + i BY <1>1
    <3>2. QED BY <1>3, <3>1
  <2>2. QED BY <2>1
<1>6. ASSUME NEW i \in 1..(Len(d) - 1) PROVE d[i + 1] = Successor(script, d[i])
  <2>1. /\ i \in 1..(n - k) /\ i + 1 \in 1..(n - k) /\ k + i \in 1..(n - 1)
        /\ (k + i) + 1 = k + (i + 1)
    BY <1>1, <1>4
  <2>2. d[i] = q[k + i] /\ d[i + 1] = q[k + (i + 1)] BY <1>5, <2>1
  <2>3. q[(k + i) + 1] = Successor(script, q[k + i]) BY <2>1 DEF Contiguous
  <2>4. QED BY <2>1, <2>2, <2>3
<1>7. k < n => d[1] = q[k + 1]
  <2>1. k < n => 1 \in 1..(n - k) BY <1>1
  <2>2. QED BY <1>5, <2>1
<1>8. QED BY <1>3, <1>4, <1>6, <1>7 DEF Contiguous, d

\* One more unit at the end keeps that.
LEMMA AppendContiguous ==
  ASSUME NEW script, NEW q, q \in Seq(Pair), Contiguous(script, q), q # <<>>,
         NEW u, u \in Pair, u = Successor(script, q[Len(q)])
  PROVE  /\ Append(q, u) \in Seq(Pair) /\ Contiguous(script, Append(q, u))
         /\ Append(q, u)[1] = q[1]
<1> DEFINE a == Append(q, u)
           n == Len(q)
<1>1. n \in Nat /\ n >= 1 BY EmptySeq, LenProperties
<1>2. /\ a \in Seq(Pair) /\ Len(a) = n + 1 /\ a[n + 1] = u
      /\ \A i \in 1..n : a[i] = q[i]
  BY AppendProperties
<1> HIDE DEF a
<1>3. ASSUME NEW i \in 1..(Len(a) - 1) PROVE a[i + 1] = Successor(script, a[i])
  <2>1. i \in 1..n BY <1>1, <1>2
  <2>2. a[i] = q[i] BY <1>2, <2>1
  <2>3. CASE i = n BY <1>2, <2>2, <2>3
  <2>4. CASE i # n
    <3>1. i + 1 \in 1..n /\ i \in 1..(n - 1) BY <1>1, <2>1, <2>4
    <3>2. a[i + 1] = q[i + 1] BY <1>2, <3>1
    <3>3. q[i + 1] = Successor(script, q[i]) BY <3>1 DEF Contiguous
    <3>4. QED BY <2>2, <3>2, <3>3
  <2>5. QED BY <2>3, <2>4
<1>4. a[1] = q[1] BY <1>1, <1>2
<1>5. QED BY <1>2, <1>3, <1>4 DEF Contiguous, a

-----------------------------------------------------------------------------
(* What a client is sent                                                     *)

\* Follows and Whole, with what they depend on.
LengthIn(script, r, status) == IF status = "ok" THEN script[r].size ELSE ErrorLen
FollowsIn(script, dropped, unit, before) ==
  \/ unit = <<before[1], before[2] + 1, before[3]>>
  \/ /\ before[1] = unit[1] - 1 \/ (dropped /\ before[1] < unit[1])
     /\ before[3] = "ok" /\ before[2] = LengthIn(script, before[1], "ok")
     /\ unit[2] = 1
WholeIn(script, dropped, s) ==
  /\ s # <<>> => s[1][1] = 1 /\ s[1][2] = 1
  /\ \A i \in 2..Len(s) : FollowsIn(script, dropped, s[i], s[i - 1])

\* The response to request r is the one that may come after s.
DueIn(script, dropped, s, r) ==
  IF s = <<>> THEN r = 1
  ELSE LET last == LastOf(s) IN
       /\ last[3] = "ok" /\ last[2] = LengthIn(script, last[1], "ok") /\ last[1] < r
       /\ dropped \/ r = last[1] + 1

\* s ends with the first m units of a response to request r, or this response may come
\* after it.
ReachedIn(script, dropped, s, r, status, m) ==
  IF m = 0 THEN DueIn(script, dropped, s, r) ELSE s # <<>> /\ LastOf(s) = <<r, m, status>>

\* Whole is WholeIn of the client's script.
LEMMA WholeFacts == \A s : Whole(s) <=> WholeIn(client.script, conn.dropped, s)
BY DEF Whole, WholeIn, Follows, FollowsIn, Length, LengthIn, Kind

\* What is dropped only permits more.
LEMMA DroppedPermits ==
  ASSUME NEW script, NEW before, NEW after, before => after, NEW s
  PROVE  /\ WholeIn(script, before, s) => WholeIn(script, after, s)
         /\ \A r : DueIn(script, before, s, r) => DueIn(script, after, s, r)
BY DEF WholeIn, FollowsIn, DueIn

\* The beginning of a whole stream is whole.
LEMMA BeginningWhole ==
  ASSUME NEW script, NEW dropped, NEW s, NEW t, s \in Seq(Wire), t \in Seq(Wire),
         WholeIn(script, dropped, s \o t)
  PROVE  WholeIn(script, dropped, s)
<1> DEFINE x == s \o t
<1>1. /\ x \in Seq(Wire) /\ Len(x) = Len(s) + Len(t) /\ Len(s) \in Nat /\ Len(t) \in Nat
      /\ \A i \in 1..Len(s) + Len(t) : x[i] = IF i <= Len(s) THEN s[i] ELSE t[i - Len(s)]
  BY ConcatProperties, LenProperties
<1> HIDE DEF x
<1>2. \A i \in 1..Len(s) : x[i] = s[i] BY <1>1
<1>3. WholeIn(script, dropped, x) BY DEF x
<1>4. s # <<>> => s[1][1] = 1 /\ s[1][2] = 1
  <2> SUFFICES ASSUME s # <<>> PROVE s[1][1] = 1 /\ s[1][2] = 1 OBVIOUS
  <2>1. 1 \in 1..Len(s) /\ Len(x) >= 1 BY <1>1, EmptySeq
  <2>2. x # <<>> BY <1>1, <2>1, EmptySeq
  <2>3. x[1] = s[1] BY <1>2, <2>1
  <2>4. QED BY <1>3, <2>2, <2>3 DEF WholeIn
<1>5. ASSUME NEW i \in 2..Len(s) PROVE FollowsIn(script, dropped, s[i], s[i - 1])
  <2>1. i \in 2..Len(x) /\ i \in 1..Len(s) /\ i - 1 \in 1..Len(s) BY <1>1
  <2>2. FollowsIn(script, dropped, x[i], x[i - 1]) BY <1>3, <2>1 DEF WholeIn
  <2>3. x[i] = s[i] /\ x[i - 1] = s[i - 1] BY <1>2, <2>1
  <2>4. QED BY <2>2, <2>3
<1>6. QED BY <1>4, <1>5 DEF WholeIn

\* More of a response keeps the stream whole.
LEMMA MoreIsWhole ==
  ASSUME NEW script, NEW dropped, NEW s, s \in Seq(Wire), WholeIn(script, dropped, s),
         NEW r \in Nat, NEW status, NEW m \in Nat, ReachedIn(script, dropped, s, r, status, m),
         NEW t, t \in Seq(Wire), \A i \in 1..Len(t) : t[i] = <<r, m + i, status>>
  PROVE  /\ WholeIn(script, dropped, s \o t)
         /\ ReachedIn(script, dropped, s \o t, r, status, m + Len(t))
<1> DEFINE x == s \o t
<1>1. /\ x \in Seq(Wire) /\ Len(x) = Len(s) + Len(t) /\ Len(s) \in Nat /\ Len(t) \in Nat
      /\ \A i \in 1..Len(s) + Len(t) : x[i] = IF i <= Len(s) THEN s[i] ELSE t[i - Len(s)]
  BY ConcatProperties, LenProperties
<1>2. CASE t = <<>>
  <2>1. s \o t = s BY <1>2, ConcatEmptySeq
  <2>2. m + Len(t) = m BY <1>2, EmptySeq
  <2>3. QED BY <2>1, <2>2
<1>3. CASE t # <<>>
  <2> HIDE DEF x
  <2>1. Len(t) >= 1 BY <1>1, <1>3, EmptySeq
  <2>2. \A i \in 1..Len(s) : x[i] = s[i] BY <1>1
  <2>3. ASSUME NEW i \in 1..Len(t) PROVE x[Len(s) + i] = <<r, m + i, status>>
    <3>1. /\ Len(s) + i \in 1..Len(s) + Len(t) /\ ~(Len(s) + i <= Len(s))
          /\ (Len(s) + i) - Len(s) = i
      BY <1>1
    <3>2. x[Len(s) + i] = t[(Len(s) + i) - Len(s)] BY <1>1, <3>1
    <3>3. QED BY <3>1, <3>2
  <2>4. x # <<>> BY <1>1, <2>1, EmptySeq
  <2>5. x[1][1] = 1 /\ x[1][2] = 1
    <3>1. CASE s = <<>>
      <4>1. Len(s) = 0 /\ 1 \in 1..Len(t) /\ Len(s) + 1 = 1 BY <2>1, <3>1, EmptySeq
      <4>2. x[Len(s) + 1] = <<r, m + 1, status>> BY <2>3, <4>1
      <4>3. m = 0 /\ r = 1 BY <3>1 DEF ReachedIn, DueIn
      <4>4. QED BY <4>1, <4>2, <4>3
    <3>2. CASE s # <<>>
      <4>1. 1 \in 1..Len(s) BY <1>1, <3>2, EmptySeq
      <4>2. x[1] = s[1] BY <2>2, <4>1
      <4>3. QED BY <3>2, <4>2 DEF WholeIn
    <3>3. QED BY <3>1, <3>2
  <2>6. ASSUME NEW i \in 2..Len(x) PROVE FollowsIn(script, dropped, x[i], x[i - 1])
    <3>1. CASE i <= Len(s)
      <4>1. i \in 2..Len(s) /\ i \in 1..Len(s) /\ i - 1 \in 1..Len(s) BY <1>1, <3>1
      <4>2. FollowsIn(script, dropped, s[i], s[i - 1]) BY <4>1 DEF WholeIn
      <4>3. x[i] = s[i] /\ x[i - 1] = s[i - 1] BY <2>2, <4>1
      <4>4. QED BY <4>2, <4>3
    <3>2. CASE i = Len(s) + 1
      <4>1. Len(s) \in 1..Len(s) /\ 1 \in 1..Len(t) /\ i - 1 = Len(s) /\ Len(s) >= 1
        BY <1>1, <2>1, <3>2
      <4>2. x[i] = <<r, m + 1, status>> BY <2>3, <3>2, <4>1
      <4>3. x[i - 1] = LastOf(s) BY <2>2, <4>1 DEF LastOf
      <4>4. s # <<>> BY <4>1, EmptySeq
      <4>5. LastOf(s) \in Wire BY <4>1, ElementOfSeq DEF LastOf
      <4>6. LastOf(s)[1] \in Nat BY <4>5 DEF Wire
      <4> DEFINE last == LastOf(s)
      <4> HIDE DEF last
      <4>7. CASE m = 0
        <5>1. /\ last[3] = "ok" /\ last[2] = LengthIn(script, last[1], "ok") /\ last[1] < r
              /\ dropped \/ r = last[1] + 1
          BY <4>4, <4>7 DEF ReachedIn, DueIn, last
        <5>2. last[1] \in Nat BY <4>6 DEF last
        <5>3. x[i][1] = r /\ x[i][2] = 1 BY <4>2, <4>7
        <5>4. x[i - 1] = last BY <4>3 DEF last
        <5>5. last[1] = r - 1 \/ (dropped /\ last[1] < r) BY <5>1, <5>2
        <5>6. QED BY <5>1, <5>3, <5>4, <5>5 DEF FollowsIn
      <4>8. CASE m # 0
        <5>1. x[i - 1] = <<r, m, status>> BY <4>3, <4>8 DEF ReachedIn
        <5>2. QED BY <4>2, <5>1 DEF FollowsIn
      <4>9. QED BY <4>7, <4>8
    <3>3. CASE i > Len(s) + 1
      <4> DEFINE k == i - Len(s)
                 j == k - 1
      <4>1. /\ k \in 1..Len(t) /\ j \in 1..Len(t) /\ Len(s) + k = i /\ Len(s) + j = i - 1
            /\ m + k = (m + j) + 1
        BY <1>1, <3>3, SMTT(30)
      <4> HIDE DEF k, j
      <4>2. x[i] = <<r, m + k, status>> BY <2>3, <4>1
      <4>3. x[i - 1] = <<r, m + j, status>> BY <2>3, <4>1
      <4>4. QED BY <4>1, <4>2, <4>3 DEF FollowsIn
    <3>4. QED BY <1>1, <3>1, <3>2, <3>3
  <2>7. WholeIn(script, dropped, x) BY <2>5, <2>6 DEF WholeIn
  <2>8. LastOf(x) = <<r, m + Len(t), status>>
    <3>1. Len(t) \in 1..Len(t) BY <1>1, <2>1
    <3>2. x[Len(s) + Len(t)] = <<r, m + Len(t), status>> BY <2>3, <3>1
    <3>3. QED BY <1>1, <3>2 DEF LastOf
  <2>9. m + Len(t) # 0 BY <1>1, <2>1
  <2>10. ReachedIn(script, dropped, x, r, status, m + Len(t)) BY <2>4, <2>8, <2>9 DEF ReachedIn
  <2>11. QED BY <2>7, <2>10 DEF x
<1>4. QED BY <1>2, <1>3

-----------------------------------------------------------------------------
(* One worker: the handshake                                                 *)

\* Where a worker's step takes it.
LEMMA Went ==
  ASSUME TypeInv, NEW w \in Workers
  PROVE  /\ \A pc : Goto(w, pc) => work'[w].pc = pc /\ work'[w].arg = work[w].arg
         /\ \A pc, arg : GotoWith(w, pc, arg) => work'[w].pc = pc /\ work'[w].arg = arg
         /\ Leave(w) => work'[w].pc \in {"write", "check"}
         /\ work' = [work EXCEPT ![w] = IdleWorker] => work'[w].pc = "idle"
<1>1. w \in DOMAIN work /\ {"pc", "events", "arg", "inRead"} \subseteq DOMAIN work[w]
  BY DEF TypeInv, WorkType, WorkOf
<1>2. ASSUME NEW pc, Goto(w, pc) PROVE work'[w].pc = pc /\ work'[w].arg = work[w].arg
  BY <1>1, <1>2 DEF Goto
<1>3. ASSUME NEW pc, NEW arg, GotoWith(w, pc, arg) PROVE work'[w].pc = pc /\ work'[w].arg = arg
  BY <1>1, <1>3 DEF GotoWith
<1>4. ASSUME Leave(w) PROVE work'[w].pc \in {"write", "check"}
  BY <1>1, <1>4 DEF Leave, AfterRead
<1>5. ASSUME work' = [work EXCEPT ![w] = IdleWorker] PROVE work'[w].pc = "idle"
  BY <1>1, <1>5 DEF IdleWorker
<1>6. QED BY <1>2, <1>3, <1>4, <1>5

\* The places of a worker before requests are read.
UnshakenPC == {"idle", "read", "accept", "write", "check", "close"}

\* A client sends no request before its handshake is done, and that takes the flight of
\* the server, which takes the client's first unit; what is not a handshake can only be
\* that unit.  Until then the Connection only reads, or is closed.
GreetingInv ==
  /\ client.hs # "done" => client.req = 1 /\ client.pos = 0
  /\ conn.ssl = "hello" =>
       client.hs # "done" /\ client.flight > 0 /\ client.seen = 0 /\ sock.tx = <<>>
  /\ conn.ssl # "hello" => \A i \in 1..Len(sock.rx) : sock.rx[i] # Garbage
  /\ ~Shaken(conn) => /\ conn.state \in {"READING", "CLOSED"}
                      /\ \A w \in Workers : work[w].pc \in UnshakenPC

\* A step that goes on with no handshake.
LEMMA GreetingFrame ==
  ASSUME GreetingInv, client' = client, conn'.ssl = conn.ssl, sock'.rx = sock.rx,
         conn.ssl = "hello" => sock'.tx \in {sock.tx, <<>>},
         ~Shaken(conn) => /\ conn'.state \in {conn.state, "CLOSED"}
                          /\ \A w \in Workers : work'[w].pc \in UnshakenPC
  PROVE  GreetingInv'
BY DEF GreetingInv, Shaken, Garbage

\* A worker's step past the handshake.
LEMMA GreetingPast ==
  ASSUME GreetingInv, client' = client, conn'.ssl = conn.ssl, sock'.rx = sock.rx,
         NEW w \in Workers, work[w].pc \notin UnshakenPC
  PROVE  GreetingInv'
<1>1. Shaken(conn) BY DEF GreetingInv
<1>2. conn.ssl # "hello" BY <1>1 DEF Shaken
<1>3. QED BY <1>1, <1>2, GreetingFrame

\* What is taken from a sequence was in it.
LEMMA DropWithout ==
  ASSUME NEW S, NEW s, s \in Seq(S), NEW n \in 0..Len(s), NEW x,
         \A i \in 1..Len(s) : s[i] # x
  PROVE  \A i \in 1..Len(Drop(s, n)) : Drop(s, n)[i] # x
<1>1. Len(s) \in Nat BY LenProperties
<1>2. Len(Drop(s, n)) = Len(s) - n /\ \A i \in 1..(Len(s) - n) : Drop(s, n)[i] = s[n + i]
  BY DropFacts
<1>3. QED BY <1>1, <1>2

\* What is added to a sequence is in it.
LEMMA AppendWithout ==
  ASSUME NEW S, NEW s, s \in Seq(S), NEW u \in S, NEW x, u # x,
         \A i \in 1..Len(s) : s[i] # x
  PROVE  \A i \in 1..Len(Append(s, u)) : Append(s, u)[i] # x
<1>1. Len(s) \in Nat BY LenProperties
<1>2. /\ Len(Append(s, u)) = Len(s) + 1 /\ Append(s, u)[Len(s) + 1] = u
      /\ \A i \in 1..Len(s) : Append(s, u)[i] = s[i]
  BY AppendProperties
<1>3. QED BY <1>1, <1>2

\* The steps of the handshake itself.
LEMMA GreetingHandshake ==
  ASSUME TypeInv, OneWorker, GreetingInv, NEW w \in Workers, Handshake(w)
  PROVE  GreetingInv'
<1> USE DEF TypeInv
<1>1. client' = client /\ work[w].pc = "accept" BY DEF Handshake
<1>2. ~Shaken(conn) /\ conn.ssl \in {"hello", "flight", "finish"}
  BY <1>1 DEF WorkType, WorkOf, ConnType, Shaken
<1>3. conn.state \in {"READING", "CLOSED"} BY <1>2 DEF GreetingInv
<1>4. work'[w].pc \in UnshakenPC => \A v \in Workers : work'[v].pc \in UnshakenPC
  BY DEF OneWorker
<1>5. /\ Goto(w, "close") \/ Leave(w) \/ NextFlight(w) => work'[w].pc \in UnshakenPC
  <2>1. CASE Goto(w, "close") BY <2>1, Went DEF UnshakenPC
  <2>2. CASE Leave(w) BY <2>2, Went DEF UnshakenPC
  <2>3. CASE NextFlight(w) BY <1>1, <2>3 DEF UnshakenPC, NextFlight
  <2>4. QED BY <2>1, <2>2, <2>3
<1>6. CASE UNCHANGED <<conn, sock>> /\ (Goto(w, "close") \/ Leave(w))
  BY <1>1, <1>4, <1>5, <1>6, GreetingFrame
<1>7. CASE conn.open /\ conn.ssl = "flight"
  <2> DEFINE m == client.flight - conn.flushed
             n == Least(m, SendCap - Len(sock.tx))
             new == [i \in 1..n |-> <<0, i, "flight">>]
  <2>1. /\ sock' = [sock EXCEPT !.tx = @ \o new, !.noSpace = n < m]
        /\ \/ conn' = [conn EXCEPT !.ssl = "finish", !.flushed = 0] /\ NextFlight(w)
           \/ conn' = [conn EXCEPT !.flushed = @ + n, !.wantWrite = TRUE] /\ Leave(w)
    BY <1>7 DEF Handshake
  <2> HIDE DEF m, n, new
  <2>2. /\ sock'.rx = sock.rx /\ conn'.ssl \in {"flight", "finish"} /\ conn'.state = conn.state
    BY <1>7, <2>1 DEF SockType, ConnType
  <2>3. work'[w].pc \in UnshakenPC BY <1>5, <2>1
  <2>4. QED BY <1>1, <1>3, <1>4, <1>7, <2>2, <2>3 DEF GreetingInv, Garbage
<1>8. CASE conn.open /\ conn.ssl # "flight" /\ sock.rx # <<>>
  <2> DEFINE rx == sock.rx
  <2>1. /\ sock' = [sock EXCEPT !.rx = Tail(@)]
        /\ \/ conn' = conn /\ Goto(w, "close") /\ Head(rx) = Garbage
           \/ conn.ssl = "hello" /\ conn' = [conn EXCEPT !.ssl = "flight"] /\ NextFlight(w)
           \/ /\ conn.ssl # "hello"
              /\ conn' = [conn EXCEPT !.ssl = "done", !.quiet = FALSE] /\ Goto(w, "recv")
    BY <1>8 DEF Handshake
  <2>2. sock'.rx = Tail(rx) /\ sock'.tx = sock.tx BY <2>1 DEF SockType
  <2>3. /\ rx \in Seq(RequestUnit \cup Handshaking) /\ Len(rx) \in Nat /\ rx # <<>>
    BY <1>8 DEF SockType
  <2>4. /\ Len(Tail(rx)) = Len(rx) - 1 /\ Len(rx) >= 1
        /\ \A i \in 1..(Len(rx) - 1) : Tail(rx)[i] = rx[i + 1]
    <3> HIDE DEF rx
    <3>1. QED BY <2>3, HeadTailProperties, EmptySeq
  <2>5. \A i \in 1..Len(Tail(rx)) : Tail(rx)[i] # Garbage
    <3> SUFFICES ASSUME NEW i \in 1..Len(Tail(rx)) PROVE Tail(rx)[i] # Garbage OBVIOUS
    <3>1. i + 1 \in 1..Len(rx) /\ i + 1 # 1 /\ Tail(rx)[i] = rx[i + 1] BY <2>3, <2>4
    <3> DEFINE k == i + 1
    <3>2. rx[k] \in RequestUnit \/ rx[k] = Finished
      BY <1>2, <3>1 DEF SockType
    <3>3. RequestUnit \subseteq (Nat \ {0}) \X Nat BY ScriptFacts DEF RequestUnit
    <3>4. Garbage \notin RequestUnit /\ Garbage # Finished BY <3>3 DEF Garbage, Finished
    <3>5. QED BY <3>1, <3>2, <3>4
  <2>6. CASE conn' = conn /\ Goto(w, "close")
    <3>1. work'[w].pc \in UnshakenPC BY <1>5, <2>6
    <3>2. QED BY <1>1, <1>3, <1>4, <2>2, <2>5, <2>6, <3>1 DEF GreetingInv, Garbage
  <2>7. CASE conn' = [conn EXCEPT !.ssl = "flight"] /\ NextFlight(w)
    <3>1. conn'.ssl = "flight" /\ conn'.state = conn.state BY <2>7 DEF ConnType
    <3>2. work'[w].pc \in UnshakenPC BY <1>5, <2>7
    <3>3. QED BY <1>1, <1>3, <1>4, <2>2, <2>5, <3>1, <3>2 DEF GreetingInv, Garbage
  <2>8. CASE conn' = [conn EXCEPT !.ssl = "done", !.quiet = FALSE]
    <3>1. conn'.ssl = "done" BY <2>8 DEF ConnType
    <3>2. Shaken(conn') BY <3>1 DEF Shaken
    <3>3. QED BY <1>1, <2>2, <2>5, <3>1, <3>2 DEF GreetingInv, Garbage
  <2>9. QED BY <2>1, <2>6, <2>7, <2>8
<1>9. QED BY <1>6, <1>7, <1>8 DEF Handshake

\* The other steps of a worker.
LEMMA GreetingWorker ==
  ASSUME TypeInv, OneWorker, GreetingInv, NEW w \in Workers, WorkerStep(w)
  PROVE  GreetingInv'
<1> USE DEF TypeInv
<1>1. ASSUME NEW pc, work'[w].pc = pc, pc \in UnshakenPC
      PROVE  \A v \in Workers : work'[v].pc \in UnshakenPC
  BY <1>1 DEF OneWorker
<1>2. CASE StartTask(w)
  <2>1. UNCHANGED <<conn, sock, client>> /\ Workers \subseteq DOMAIN work
    BY <1>2 DEF StartTask, WorkType
  <2>2. work'[w].pc \in {"read", "write", "check"} BY <1>2, <2>1 DEF StartTask, AfterRead
  <2>3. QED BY <1>1, <2>1, <2>2, GreetingFrame DEF UnshakenPC
<1>3. CASE HandleRead(w)
  <2>1. /\ UNCHANGED <<sock, client>> /\ (conn' = conn \/ conn' = [conn EXCEPT !.quiet = FALSE])
        /\ Leave(w) \/ Goto(w, "accept") \/ (Goto(w, "recv") /\ Shaken(conn))
    BY <1>3 DEF HandleRead
  <2>2. conn'.ssl = conn.ssl /\ conn'.state = conn.state BY <2>1 DEF ConnType
  <2>3. work'[w].pc \in {"write", "check", "accept"} \/ Shaken(conn) BY <2>1, Went
  <2>4. QED BY <1>1, <2>1, <2>2, <2>3, GreetingFrame DEF UnshakenPC
<1>4. CASE HandleWrite(w)
  <2>1. /\ UNCHANGED <<sock, client>> /\ (conn' = conn \/ conn' = [conn EXCEPT !.quiet = FALSE])
        /\ Leave(w) \/ conn.state = "WRITING"
    BY <1>4 DEF HandleWrite
  <2>2. conn'.ssl = conn.ssl /\ conn'.state = conn.state BY <2>1 DEF ConnType
  <2>3. work'[w].pc \in {"write", "check"} \/ Shaken(conn) BY <2>1, Went DEF GreetingInv
  <2>4. QED BY <1>1, <2>1, <2>2, <2>3, GreetingFrame DEF UnshakenPC
<1>5. CASE Recv(w)
  <2>1. /\ work[w].pc = "recv" /\ client' = client /\ conn' = [conn EXCEPT !.unread = FALSE]
        /\ sock' = sock \/ sock' = [sock EXCEPT !.rx = Drop(@, Least(ReadBuf, Len(sock.rx)))]
    BY <1>5 DEF Recv
  <2>2. Shaken(conn) BY <2>1 DEF WorkType, WorkOf
  <2>3. conn'.ssl = conn.ssl /\ conn'.state = conn.state /\ Shaken(conn') /\ conn.ssl # "hello"
    BY <2>1, <2>2 DEF ConnType, Shaken
  <2> DEFINE rx == sock.rx
             n == Least(ReadBuf, Len(rx))
  <2>4. rx \in Seq(RequestUnit \cup Handshaking) /\ Len(rx) \in Nat BY DEF SockType
  <2>5. n \in 0..Len(rx) BY <2>4, ConnectionAssumption DEF Least
  <2>6. sock'.rx \in {rx, Drop(rx, n)} BY <2>1 DEF SockType
  <2>7. \A i \in 1..Len(rx) : rx[i] # Garbage BY <2>3 DEF GreetingInv
  <2> HIDE DEF rx, n
  <2>8. \A i \in 1..Len(Drop(rx, n)) : Drop(rx, n)[i] # Garbage
    BY <2>4, <2>5, <2>7, DropWithout
  <2>9. \A i \in 1..Len(sock'.rx) : sock'.rx[i] # Garbage BY <2>6, <2>7, <2>8
  <2>10. QED BY <2>1, <2>3, <2>9 DEF GreetingInv, Garbage
<1>6. CASE FeedParser(w) \/ Dispatch(w) \/ PrepareResponse(w) \/ Send(w) \/ Advance(w)
           \/ FinishWrite(w)
  <2>1. work[w].pc \notin UnshakenPC /\ client' = client
    BY <1>6 DEF FeedParser, Dispatch, PrepareResponse, Send, Advance, FinishWrite, UnshakenPC
  <2>2. conn'.ssl = conn.ssl /\ sock'.rx = sock.rx
    <3>1. CASE FeedParser(w) BY <3>1 DEF FeedParser, ConnType
    <3>2. CASE Dispatch(w) BY <3>2 DEF Dispatch
    <3>3. CASE PrepareResponse(w) BY <3>3 DEF PrepareResponse, ConnType
    <3>4. CASE Send(w)
      <4>1. UNCHANGED <<conn, sock>> \/ Writes(w) BY <3>4, SendCases
      <4>2. CASE Writes(w) BY <4>2 DEF Writes, ConnType, SockType
      <4>3. QED BY <4>1, <4>2
    <3>5. CASE Advance(w) BY <3>5 DEF Advance, ConnType
    <3>6. CASE FinishWrite(w) BY <3>6 DEF FinishWrite, Cleared, ConnType
    <3>7. QED BY <1>6, <3>1, <3>2, <3>3, <3>4, <3>5, <3>6
  <2>3. QED BY <2>1, <2>2, GreetingPast
<1>7. CASE CloseInTask(w) \/ CheckAlive(w)
  <2>1. /\ client' = client /\ (CloseConnection \/ UNCHANGED <<conn, sock>>)
        /\ Leave(w) \/ work' = [work EXCEPT ![w] = IdleWorker]
    BY <1>7 DEF CloseInTask, CheckAlive, RemoveConnection
  <2>2. work'[w].pc \in {"write", "check", "idle"} BY <2>1, Went
  <2>3. /\ conn'.ssl = conn.ssl /\ conn'.state \in {conn.state, "CLOSED"}
        /\ sock'.rx = sock.rx /\ sock'.tx \in {sock.tx, <<>>}
    BY <2>1 DEF CloseConnection, CloseObject, CloseSocket, ConnType, SockType
  <2>4. QED BY <1>1, <2>1, <2>2, <2>3, GreetingFrame DEF UnshakenPC
<1>8. CASE Handshake(w) BY <1>8, GreetingHandshake
<1>9. QED BY <1>2, <1>3, <1>4, <1>5, <1>6, <1>7, <1>8 DEF WorkerStep

\* The event loop, the time and the client.
LEMMA GreetingOutside ==
  ASSUME TypeInv, GreetingInv,
         \/ HandleEvent \/ Quieten \/ CollectTimedOut \/ RemoveTimedOut \/ HangUp \/ UNCHANGED vars
         \/ Greet \/ SendUnit \/ Receive
  PROVE  GreetingInv'
<1> USE DEF TypeInv
<1>1. work' = work
  BY DEF HandleEvent, Quieten, CollectTimedOut, RemoveTimedOut, HangUp, Greet, SendUnit, Receive, vars
<1> DEFINE rx == sock.rx
<1>2. rx \in Seq(RequestUnit \cup Handshaking) BY DEF SockType
<1>3. CASE HandleEvent \/ Quieten \/ CollectTimedOut \/ RemoveTimedOut \/ HangUp \/ UNCHANGED vars
  <2>1. client' = client
    BY <1>3 DEF HandleEvent, Quieten, CollectTimedOut, RemoveTimedOut, HangUp, vars
  <2>2. \/ CloseConnection
        \/ /\ conn' = conn \/ conn' = [conn EXCEPT !.quiet = TRUE]
           /\ \/ sock' = sock \/ sock' = [sock EXCEPT !.armed = FALSE]
              \/ sock' = [sock EXCEPT !.fin = TRUE, !.armed = TRUE]
    BY <1>3 DEF HandleEvent, Quieten, CollectTimedOut, RemoveTimedOut, HangUp, vars, RemoveConnection
  <2>3. /\ conn'.ssl = conn.ssl /\ conn'.state \in {conn.state, "CLOSED"}
        /\ sock'.rx = sock.rx /\ sock'.tx \in {sock.tx, <<>>}
    BY <2>2 DEF CloseConnection, CloseObject, CloseSocket, ConnType, SockType
  <2>4. QED BY <1>1, <2>1, <2>3, GreetingFrame DEF GreetingInv
<1>4. CASE Greet
  <2>1. PICK u \in {Hello, Garbage, Finished} :
          /\ sock' = [sock EXCEPT !.rx = Append(@, u), !.armed = TRUE]
          /\ client.hs # "start" => u = Finished
    BY <1>4 DEF Greet
  <2>2. conn' = conn BY <1>4 DEF Greet
  <2>3. sock'.rx = Append(rx, u) /\ sock'.tx = sock.tx BY <2>1 DEF SockType
  <2>4. \/ client.hs = "start" /\ client' = [client EXCEPT !.hs = "hello"]
        \/ /\ client.hs = "hello" /\ client.seen = client.flight
           /\ client' = [client EXCEPT !.hs = "done"]
    BY <1>4 DEF Greet
  <2>5. /\ client'.req = client.req /\ client'.pos = client.pos
        /\ client'.flight = client.flight /\ client'.seen = client.seen
        /\ \/ client.hs = "start" /\ client'.hs = "hello"
           \/ client.hs = "hello" /\ client.seen = client.flight /\ client'.hs = "done"
    BY <2>4 DEF ClientType
  <2>6. conn.ssl = "hello" => client.hs = "start"
    <3>1. client.flight \in Nat BY ScriptFacts
    <3>2. QED BY <2>5, <3>1 DEF GreetingInv
  <2>7. conn.ssl # "hello" => client.hs # "start" BY DEF SockType
  <2>8. conn.ssl # "hello" => \A i \in 1..Len(Append(rx, u)) : Append(rx, u)[i] # Garbage
    <3> SUFFICES ASSUME conn.ssl # "hello"
                 PROVE  \A i \in 1..Len(Append(rx, u)) : Append(rx, u)[i] # Garbage
      OBVIOUS
    <3>1. \A i \in 1..Len(rx) : rx[i] # Garbage BY DEF GreetingInv
    <3>2. u = Finished BY <2>1, <2>7
    <3>3. u \in RequestUnit \cup Handshaking /\ u # Garbage BY <3>2 DEF Handshaking, Garbage, Finished
    <3> HIDE DEF rx
    <3>4. QED BY <1>2, <3>1, <3>3, AppendWithout
  <2> HIDE DEF rx
  <2>9. conn.ssl # "hello" => \A i \in 1..Len(sock'.rx) : sock'.rx[i] # Garbage BY <2>3, <2>8
  <2>10. client'.hs # "done" => client'.req = 1 /\ client'.pos = 0 BY <2>5 DEF GreetingInv
  <2>11. conn.ssl = "hello" => /\ client'.hs # "done" /\ client'.flight > 0 /\ client'.seen = 0
                               /\ sock'.tx = <<>>
    BY <2>3, <2>5, <2>6 DEF GreetingInv
  <2>12. ~Shaken(conn) => /\ conn.state \in {"READING", "CLOSED"}
                          /\ \A w \in Workers : work[w].pc \in UnshakenPC
    BY DEF GreetingInv
  <2>13. QED BY <1>1, <2>2, <2>9, <2>10, <2>11, <2>12 DEF GreetingInv, Garbage
<1>5. CASE SendUnit
  <2> DEFINE u == <<client.req, client.pos>>
  <2>1. /\ sock' = [sock EXCEPT !.rx = Append(@, u), !.armed = TRUE]
        /\ conn' = conn /\ client.hs = "done" /\ client.req \in Request
        /\ \/ client' = [client EXCEPT !.pos = @ + 1]
           \/ client' = [client EXCEPT !.pos = 0, !.req = @ + 1]
    BY <1>5 DEF SendUnit
  <2>2. sock'.rx = Append(rx, u) /\ client'.hs = "done" BY <2>1 DEF SockType, ClientType
  <2>3. u \in RequestUnit \cup Handshaking /\ u # Garbage
    <3>1. client.req # 0 BY <2>1, ScriptFacts
    <3>2. QED BY <2>1, <3>1 DEF RequestUnit, ClientType, Garbage
  <2>4. conn.ssl # "hello" BY <2>1 DEF GreetingInv
  <2>5. \A i \in 1..Len(rx) : rx[i] # Garbage BY <2>4 DEF GreetingInv
  <2> HIDE DEF u, rx
  <2>6. \A i \in 1..Len(Append(rx, u)) : Append(rx, u)[i] # Garbage
    BY <1>2, <2>3, <2>5, AppendWithout
  <2>7. \A i \in 1..Len(sock'.rx) : sock'.rx[i] # Garbage BY <2>2, <2>6
  <2>8. QED BY <1>1, <2>1, <2>2, <2>4, <2>7 DEF GreetingInv, Garbage
<1>6. CASE Receive
  <2>1. /\ conn' = conn /\ sock.tx # <<>>
        /\ \E tx, armed : sock' = [sock EXCEPT !.tx = tx, !.armed = armed, !.noSpace = FALSE]
        /\ \/ \E n : client' = [client EXCEPT !.seen = n]
           \/ \E g : client' = [client EXCEPT !.got = g]
    BY <1>6 DEF Receive
  <2>2. sock'.rx = rx BY <2>1 DEF SockType
  <2>3. client'.hs = client.hs /\ client'.req = client.req /\ client'.pos = client.pos
    BY <2>1 DEF ClientType
  <2>4. conn.ssl # "hello" BY <2>1 DEF GreetingInv
  <2>5. QED BY <1>1, <2>1, <2>2, <2>3, <2>4 DEF GreetingInv, Garbage
<1>7. QED BY <1>3, <1>4, <1>5, <1>6

\* At first nothing has been sent.
LEMMA InitGreeting ==
  ASSUME Init
  PROVE  GreetingInv
<1>1. PICK p \in Peers :
        /\ client.hs = (IF p.flight = 0 THEN "done" ELSE "start") /\ client.flight = p.flight
        /\ client.req = 1 /\ client.pos = 0 /\ client.seen = 0
        /\ conn.ssl = (IF p.flight = 0 THEN "none" ELSE "hello") /\ conn.state = "READING"
  BY DEF Init
<1>2. p.flight \in Nat BY ConnectionAssumption
<1>3. sock.rx = <<>> /\ sock.tx = <<>> /\ \A w \in Workers : work[w].pc = "idle"
  BY DEF Init, IdleWorker
<1>4. \A i \in 1..Len(sock.rx) : sock.rx[i] # Garbage BY <1>3
<1>5. QED BY <1>1, <1>2, <1>3, <1>4 DEF GreetingInv, UnshakenPC

\* Every step keeps the invariant.
LEMMA GreetingStep ==
  ASSUME OneWorker, TypeInv, GreetingInv, [Next]_vars
  PROVE  GreetingInv'
BY GreetingWorker, GreetingOutside DEF Next

-----------------------------------------------------------------------------
(* One worker: what the parser is to see                                     *)

\* The units of the handshake that the server has still to read are ahead of those of
\* requests.
Greeted == IF client.hs = "start" THEN 0 ELSE IF client.hs = "hello" THEN 1 ELSE 2
Shook == IF conn.ssl = "hello" THEN 0 ELSE IF conn.ssl \in {"flight", "finish"} THEN 1 ELSE 2
Ahead == Greeted - Shook
AheadInv == Ahead \in 0..Len(sock.rx) /\ (client.hs # "done" => Len(sock.rx) = Ahead)

\* All that the parser has still to see, and then what the client sends next.
Chunk(w) == IF work[w].pc = "feed" THEN work[w].arg ELSE <<>>
Held(w) == conn.parser.buffer \o Chunk(w)
Coming == Append(Drop(sock.rx, Ahead), <<client.req, client.pos>>)
Input(w) == Held(w) \o Coming

\* The units come in the order the client sends them, and a parser past a request line
\* sees the next one of its request, or the first of the next request.
Awaits(w) ==
  /\ conn.parser.stage = "body" =>
       /\ conn.parser.read < Kind(conn.parser.req).body
       /\ Input(w)[1] = <<conn.parser.req, conn.parser.read + 1>>
  /\ conn.parser.stage = "complete" => Input(w)[1] = <<conn.parser.req + 1, 0>>
Ordered(w) == AheadInv /\ Contiguous(client.script, Input(w)) /\ Awaits(w)

InputInv == \A w \in Workers : conn.open /\ work[w].pc # "close" => Ordered(w)

\* Every unit of a client is a pair of numbers.
LEMMA UnitsArePairs ==
  ASSUME ClientType
  PROVE  /\ RequestUnit \subseteq Pair /\ Handshaking \subseteq Pair
         /\ <<client.req, client.pos>> \in Pair
<1>1. RequestUnit \subseteq Pair BY ScriptFacts DEF RequestUnit, Pair
<1>2. Handshaking \subseteq Pair BY DEF Handshaking, Hello, Garbage, Finished, Pair
<1>3. client.req \in Nat /\ client.pos \in Nat
  <2>1. Len(client.script) \in Nat BY ScriptFacts
  <2>2. QED BY <2>1 DEF ClientType
<1>4. QED BY <1>1, <1>2, <1>3 DEF Pair

\* What is to be seen is a sequence of such units, and never empty.
LEMMA InputTypes ==
  ASSUME TypeInv, NEW w \in Workers, Ahead \in 0..Len(sock.rx)
  PROVE  /\ Held(w) \in Seq(Pair) /\ Coming \in Seq(Pair) /\ Input(w) \in Seq(Pair)
         /\ Len(Held(w)) \in Nat /\ Len(Coming) \in Nat /\ Len(Coming) >= 1
         /\ Len(Input(w)) = Len(Held(w)) + Len(Coming) /\ Input(w) # <<>>
         /\ conn.parser.buffer \in Seq(Pair) /\ sock.rx \in Seq(Pair)
<1> USE DEF TypeInv
<1>1. /\ RequestUnit \subseteq Pair /\ Handshaking \subseteq Pair
      /\ <<client.req, client.pos>> \in Pair
  BY UnitsArePairs
<1>2. conn.parser.buffer \in Seq(Pair) BY <1>1, SeqMonotonic DEF ParserOf
<1>3. Chunk(w) \in Seq(Pair)
  <2>1. CASE work[w].pc = "feed"
    <3>1. work[w].arg \in Seq(RequestUnit) BY <2>1 DEF WorkType, WorkOf
    <3>2. QED BY <1>1, <2>1, <3>1, SeqMonotonic DEF Chunk
  <2>2. CASE work[w].pc # "feed" BY <2>2, EmptySeq DEF Chunk
  <2>3. QED BY <2>1, <2>2
<1>4. sock.rx \in Seq(Pair)
  <2>1. RequestUnit \cup Handshaking \subseteq Pair BY <1>1
  <2>2. QED BY <2>1, SeqMonotonic DEF SockType
<1>5. Held(w) \in Seq(Pair) BY <1>2, <1>3, ConcatProperties DEF Held
<1>6. Coming \in Seq(Pair) /\ Len(Coming) >= 1
  <2> DEFINE d == Drop(sock.rx, Ahead)
             u == <<client.req, client.pos>>
  <2>1. d \in Seq(Pair) BY <1>4, DropFacts
  <2>2. u \in Pair BY <1>1
  <2> HIDE DEF d, u
  <2>3. Append(d, u) \in Seq(Pair) /\ Len(Append(d, u)) = Len(d) + 1 BY <2>1, <2>2, AppendProperties
  <2>4. Len(d) \in Nat BY <2>1, LenProperties
  <2>5. QED BY <2>3, <2>4 DEF Coming, d, u
<1>7. Input(w) \in Seq(Pair) /\ Len(Input(w)) = Len(Held(w)) + Len(Coming)
  BY <1>5, <1>6, ConcatProperties DEF Input
<1>8. Len(Held(w)) \in Nat /\ Len(Coming) \in Nat BY <1>5, <1>6, LenProperties
<1>9. Input(w) # <<>>
  <2>1. Len(Input(w)) >= 1 BY <1>6, <1>7, <1>8
  <2>2. QED BY <1>7, <2>1, EmptySeq
<1>10. QED BY <1>2, <1>4, <1>5, <1>6, <1>7, <1>8, <1>9

\* What is to be seen changes with the buffers and the client alone.
LEMMA InputKept ==
  ASSUME NEW w \in Workers, conn'.parser.buffer = conn.parser.buffer, Chunk(w)' = Chunk(w),
         sock'.rx = sock.rx, Shook' = Shook, client'.hs = client.hs,
         client'.req = client.req, client'.pos = client.pos
  PROVE  Input(w)' = Input(w) /\ Ahead' = Ahead
BY DEF Input, Held, Coming, Ahead, Greeted

\* A parser that stays where it is still awaits what it did.
LEMMA OrderedKept ==
  ASSUME NEW w \in Workers, Steady, Ordered(w), AheadInv',
         Input(w)'[1] = Input(w)[1], Contiguous(client.script, Input(w)'),
         conn'.parser.stage = conn.parser.stage, conn'.parser.req = conn.parser.req,
         conn'.parser.read = conn.parser.read
  PROVE  Ordered(w)'
<1>1. Awaits(w) BY DEF Ordered
<1>2. Awaits(w)' BY <1>1 DEF Awaits, Steady, Kind
<1>3. Contiguous(client.script, Input(w))' BY DEF Contiguous, Steady
<1>4. QED BY <1>2, <1>3 DEF Ordered

\* A step that takes nothing from the input.
LEMMA InputStays ==
  ASSUME NEW w \in Workers, Steady, Ordered(w), conn'.parser = conn.parser,
         Chunk(w)' = Chunk(w), sock'.rx = sock.rx, Shook' = Shook, client'.hs = client.hs,
         client'.req = client.req, client'.pos = client.pos
  PROVE  Input(w)' = Input(w) /\ Ordered(w)'
<1>1. Input(w)' = Input(w) /\ Ahead' = Ahead BY InputKept
<1>2. AheadInv' BY <1>1 DEF Ordered, AheadInv
<1>3. Contiguous(client.script, Input(w)') BY <1>1 DEF Ordered
<1>4. QED BY <1>1, <1>2, <1>3, OrderedKept

\* The client begins its handshake, or ends it.
LEMMA GreetInput ==
  ASSUME TypeInv, Steady, NEW w \in Workers, Ordered(w), Greet
  PROVE  Input(w)' = Input(w) /\ Ordered(w)'
<1> USE DEF TypeInv
<1>1. UNCHANGED <<conn, work>> BY DEF Greet
<1>2. PICK u : sock' = [sock EXCEPT !.rx = Append(@, u), !.armed = TRUE] /\ u \in Handshaking
  BY DEF Greet, Handshaking
<1>3. sock'.rx = Append(sock.rx, u) BY <1>2 DEF SockType
<1>4. \/ client.hs = "start" /\ client' = [client EXCEPT !.hs = "hello"]
      \/ client.hs = "hello" /\ client' = [client EXCEPT !.hs = "done"]
  BY DEF Greet
<1>5. /\ client'.req = client.req /\ client'.pos = client.pos
      /\ \/ client.hs = "start" /\ client'.hs = "hello"
         \/ client.hs = "hello" /\ client'.hs = "done"
  BY <1>4 DEF ClientType
<1>6. Ahead \in 0..Len(sock.rx) /\ Len(sock.rx) = Ahead BY <1>5 DEF Ordered, AheadInv
<1>7. sock.rx \in Seq(Pair) /\ Len(sock.rx) \in Nat BY <1>6, InputTypes, LenProperties
<1>8. u \in Pair BY <1>2, UnitsArePairs
<1>9. Ahead' = Ahead + 1 BY <1>1, <1>5 DEF Ahead, Greeted, Shook
<1>10. sock'.rx \in Seq(Pair) /\ Len(sock'.rx) = Len(sock.rx) + 1
  BY <1>3, <1>7, <1>8, AppendProperties
<1>11. Drop(sock.rx, Ahead) = <<>> BY <1>6, <1>7, DropEnds
<1>12. Ahead' = Len(sock'.rx) BY <1>6, <1>7, <1>9, <1>10
<1>13. Drop(sock'.rx, Ahead') = <<>>
  <2>1. Drop(sock'.rx, Len(sock'.rx)) = <<>> BY <1>10, DropEnds
  <2>2. QED BY <1>12, <2>1
<1>14. Coming' = Coming BY <1>5, <1>11, <1>13 DEF Coming
<1>15. Input(w)' = Input(w) BY <1>1, <1>14 DEF Input, Held, Chunk
<1>16. AheadInv' BY <1>7, <1>10, <1>12 DEF AheadInv
<1>17. Contiguous(client.script, Input(w)') BY <1>15 DEF Ordered
<1>18. QED BY <1>1, <1>15, <1>16, <1>17, OrderedKept

\* The last unit of the input is the one the client sends next.
LEMMA LastOfInput ==
  ASSUME TypeInv, NEW w \in Workers, Ahead \in 0..Len(sock.rx)
  PROVE  Input(w)[Len(Input(w))] = <<client.req, client.pos>>
<1> DEFINE u == <<client.req, client.pos>>
           d == Drop(sock.rx, Ahead)
<1>1. /\ sock.rx \in Seq(Pair) /\ Held(w) \in Seq(Pair) /\ Coming \in Seq(Pair)
      /\ Len(Input(w)) = Len(Held(w)) + Len(Coming)
      /\ Len(Held(w)) \in Nat /\ Len(Coming) \in Nat /\ Len(Coming) >= 1
  BY InputTypes
<1>2. u \in Pair BY UnitsArePairs DEF TypeInv
<1> HIDE DEF u
<1>3. Coming = Append(d, u) BY DEF Coming, u
<1>4. d \in Seq(Pair) BY <1>1, DropFacts
<1> HIDE DEF d
<1>5. Len(Coming) = Len(d) + 1 /\ Coming[Len(d) + 1] = u BY <1>2, <1>3, <1>4, AppendProperties
<1>6. Coming[Len(Coming)] = u BY <1>5
<1>7. (Held(w) \o Coming)[Len(Held(w)) + Len(Coming)] = Coming[Len(Coming)]
  <2> DEFINE n == Len(Held(w)) + Len(Coming)
  <2>1. n \in 1..Len(Held(w)) + Len(Coming) /\ ~(n <= Len(Held(w))) /\ n - Len(Held(w)) = Len(Coming)
    BY <1>1
  <2>2. \A i \in 1..Len(Held(w)) + Len(Coming) :
          (Held(w) \o Coming)[i] = IF i <= Len(Held(w)) THEN Held(w)[i] ELSE Coming[i - Len(Held(w))]
    BY <1>1, ConcatProperties
  <2> HIDE DEF n
  <2>3. (Held(w) \o Coming)[n] = Coming[n - Len(Held(w))] BY <2>1, <2>2
  <2>4. QED BY <2>1, <2>3 DEF n
<1>8. QED BY <1>1, <1>6, <1>7 DEF Input, u

\* The client sends the unit that was to come, and its successor is to come.
LEMMA SendUnitInput ==
  ASSUME TypeInv, Steady, NEW w \in Workers, Ordered(w), SendUnit
  PROVE  Input(w)'[1] = Input(w)[1] /\ Ordered(w)'
<1> USE DEF TypeInv
<1> DEFINE u == <<client.req, client.pos>>
           v == <<client'.req, client'.pos>>
           d == Drop(sock.rx, Ahead)
<1>1. UNCHANGED <<conn, work>> /\ client.hs = "done" BY DEF SendUnit
<1>2. sock' = [sock EXCEPT !.rx = Append(@, u), !.armed = TRUE] BY DEF SendUnit
<1>3. sock'.rx = Append(sock.rx, u) BY <1>2 DEF SockType
<1>4. client' = IF client.pos < Kind(client.req).body
                THEN [client EXCEPT !.pos = @ + 1] ELSE [client EXCEPT !.pos = 0, !.req = @ + 1]
  BY DEF SendUnit
<1>5. client'.hs = client.hs BY <1>4 DEF ClientType
<1>6. v = Successor(client.script, u) BY <1>4 DEF ClientType, Successor, Kind
<1>7. u \in Pair BY UnitsArePairs
<1>8. v \in Pair BY <1>6, <1>7 DEF Successor, Pair
<1>9. Ahead \in 0..Len(sock.rx) /\ Ahead' = Ahead
  BY <1>1, <1>5 DEF Ordered, AheadInv, Ahead, Greeted, Shook
<1>10. /\ sock.rx \in Seq(Pair) /\ Held(w) \in Seq(Pair) /\ Coming \in Seq(Pair)
       /\ Input(w) \in Seq(Pair) /\ Input(w) # <<>>
       /\ Len(Input(w)) = Len(Held(w)) + Len(Coming)
       /\ Len(Held(w)) \in Nat /\ Len(Coming) \in Nat /\ Len(Coming) >= 1
  BY <1>9, InputTypes
<1> HIDE DEF u, v
<1>11. Drop(Append(sock.rx, u), Ahead) = Append(d, u) BY <1>7, <1>9, <1>10, DropOfAppend
<1>12. Coming = Append(d, u) BY DEF Coming, u
<1>13. Coming' = Append(Coming, v) BY <1>3, <1>9, <1>11, <1>12 DEF Coming, v
<1>14. Held(w)' = Held(w) BY <1>1 DEF Held, Chunk
<1>15. Input(w)' = Append(Input(w), v)
  <2> DEFINE h == Held(w)
             c == Coming
             t == <<v>>
  <2>1. h \in Seq(Pair) /\ c \in Seq(Pair) /\ t \in Seq(Pair) BY <1>8, <1>10
  <2>2. Append(c, v) = c \o t /\ Append(h \o c, v) = (h \o c) \o t
    <3>1. h \o c \in Seq(Pair) BY <2>1, ConcatProperties
    <3> HIDE DEF h, c
    <3>2. QED BY <1>8, <2>1, <3>1, AppendIsConcat
  <2> HIDE DEF h, c, t
  <2>3. (h \o c) \o t = h \o (c \o t) BY <2>1, ConcatAssociative, SMTT(30)
  <2>4. Input(w)' = h \o Append(c, v) BY <1>13, <1>14 DEF Input, h, c
  <2>5. Input(w) = h \o c BY DEF Input, h, c
  <2>6. QED BY <2>2, <2>3, <2>4, <2>5
<1>16. Input(w)[Len(Input(w))] = u BY <1>9, LastOfInput DEF u
<1>17. Contiguous(client.script, Input(w)) BY DEF Ordered
<1>18. /\ Contiguous(client.script, Append(Input(w), v))
       /\ Append(Input(w), v)[1] = Input(w)[1]
  BY <1>6, <1>8, <1>10, <1>16, <1>17, AppendContiguous
<1>19. AheadInv'
  <2>1. Len(sock'.rx) = Len(sock.rx) + 1 BY <1>3, <1>7, <1>10, AppendProperties
  <2>2. Len(sock.rx) \in Nat BY <1>10, LenProperties
  <2>3. QED BY <1>1, <1>5, <1>9, <2>1, <2>2 DEF AheadInv
<1>20. QED BY <1>1, <1>15, <1>18, <1>19, OrderedKept

\* One flight of the handshake.
LEMMA HandshakeInput ==
  ASSUME TypeInv, Steady, NEW w \in Workers, Ordered(w), Handshake(w), work'[w].pc # "close"
  PROVE  Input(w)' = Input(w) /\ Ordered(w)'
<1> USE DEF TypeInv
<1>1. client' = client /\ work[w].pc = "accept" BY DEF Handshake
<1>2. conn.ssl \in {"hello", "flight", "finish"}
  BY <1>1 DEF WorkType, WorkOf, ConnType, Shaken
<1>3. ~Goto(w, "close") BY Went
<1>4. Leave(w) \/ NextFlight(w) \/ Goto(w, "recv") => Chunk(w)' = Chunk(w)
  <2>1. CASE Leave(w) BY <1>1, <2>1, Went DEF Chunk
  <2>2. CASE NextFlight(w) BY <2>2 DEF NextFlight, Chunk
  <2>3. CASE Goto(w, "recv") BY <1>1, <2>3, Went DEF Chunk
  <2>4. QED BY <2>1, <2>2, <2>3
<1>5. CASE UNCHANGED <<conn, sock>> /\ Leave(w)
  <2>1. Shook' = Shook BY <1>5 DEF Shook
  <2>2. QED BY <1>1, <1>4, <1>5, <2>1, InputStays
<1>6. CASE conn.open /\ conn.ssl = "flight"
  <2> DEFINE m == client.flight - conn.flushed
             n == Least(m, SendCap - Len(sock.tx))
             new == [i \in 1..n |-> <<0, i, "flight">>]
  <2>1. /\ sock' = [sock EXCEPT !.tx = @ \o new, !.noSpace = n < m]
        /\ \/ conn' = [conn EXCEPT !.ssl = "finish", !.flushed = 0] /\ NextFlight(w)
           \/ conn' = [conn EXCEPT !.flushed = @ + n, !.wantWrite = TRUE] /\ Leave(w)
    BY <1>6 DEF Handshake
  <2> HIDE DEF m, n, new
  <2>2. sock'.rx = sock.rx /\ conn'.parser = conn.parser /\ conn'.ssl \in {"flight", "finish"}
    BY <1>6, <2>1 DEF SockType, ConnType
  <2>3. Shook' = Shook BY <1>6, <2>2 DEF Shook
  <2>4. Chunk(w)' = Chunk(w) BY <1>4, <2>1
  <2>5. QED BY <1>1, <2>2, <2>3, <2>4, InputStays
<1>7. CASE conn.open /\ conn.ssl # "flight" /\ sock.rx # <<>>
  <2>1. /\ sock' = [sock EXCEPT !.rx = Tail(@)]
        /\ \/ conn.ssl = "hello" /\ conn' = [conn EXCEPT !.ssl = "flight"] /\ NextFlight(w)
           \/ /\ conn.ssl # "hello" /\ Goto(w, "recv")
              /\ conn' = [conn EXCEPT !.ssl = "done", !.quiet = FALSE]
    BY <1>3, <1>7 DEF Handshake
  <2>2. sock'.rx = Tail(sock.rx) BY <2>1 DEF SockType
  <2>3. /\ conn'.parser = conn.parser
        /\ conn'.ssl = IF conn.ssl = "hello" THEN "flight" ELSE "done"
    BY <2>1 DEF ConnType
  <2>4. Chunk(w)' = Chunk(w) BY <1>4, <2>1
  <2>5. Ahead \in 0..Len(sock.rx) /\ (client.hs # "done" => Len(sock.rx) = Ahead)
    BY DEF Ordered, AheadInv
  <2>6. sock.rx \in Seq(Pair) /\ Len(sock.rx) \in Nat BY <2>5, InputTypes, LenProperties
  <2>7. /\ Tail(sock.rx) \in Seq(Pair) /\ Len(Tail(sock.rx)) = Len(sock.rx) - 1
    BY <1>7, <2>6, HeadTailProperties
  <2>8. client.hs # "start" BY <1>7 DEF SockType
  <2>9. client.hs # "done" => conn.ssl = "hello" BY <1>7, <2>8 DEF SockType, ClientType
  <2>10. Ahead' = Ahead - 1 /\ Ahead >= 1
    BY <1>1, <1>2, <1>7, <2>3, <2>8, <2>9 DEF Ahead, Greeted, Shook
  <2>11. Ahead \in 1..Len(sock.rx) BY <2>5, <2>10
  <2>12. Drop(Tail(sock.rx), Ahead - 1) = Drop(sock.rx, Ahead) BY <1>7, <2>6, <2>11, DropOfTail
  <2>13. Coming' = Coming BY <1>1, <2>2, <2>10, <2>12 DEF Coming
  <2>14. Input(w)' = Input(w) BY <2>3, <2>4, <2>13 DEF Input, Held
  <2>15. AheadInv' BY <1>1, <2>2, <2>5, <2>6, <2>7, <2>10 DEF AheadInv
  <2>16. Contiguous(client.script, Input(w)') BY <2>14 DEF Ordered
  <2>17. QED BY <2>3, <2>14, <2>15, <2>16, OrderedKept
<1>8. QED BY <1>3, <1>5, <1>6, <1>7 DEF Handshake

\* What is received goes from the socket to the parser.
LEMMA RecvInput ==
  ASSUME TypeInv, Steady, NEW w \in Workers, Ordered(w), Recv(w), work'[w].pc # "close"
  PROVE  Input(w)' = Input(w) /\ Ordered(w)'
<1> USE DEF TypeInv
<1>1. /\ client' = client /\ work[w].pc = "recv" /\ conn' = [conn EXCEPT !.unread = FALSE]
  BY DEF Recv
<1>2. conn'.parser = conn.parser /\ conn'.ssl = conn.ssl BY <1>1 DEF ConnType
<1>3. CASE sock' = sock /\ Leave(w)
  <2>1. work'[w].pc \in {"write", "check"} BY <1>3, Went
  <2>2. Chunk(w)' = Chunk(w) BY <1>1, <2>1 DEF Chunk
  <2>3. Shook' = Shook BY <1>2 DEF Shook
  <2>4. QED BY <1>1, <1>2, <1>3, <2>2, <2>3, InputStays
<1>4. CASE conn.open /\ sock.rx # <<>>
  <2> DEFINE n == Least(ReadBuf, Len(sock.rx))
             rx == sock.rx
  <2>1. GotoWith(w, "feed", Take(rx, n)) /\ sock' = [sock EXCEPT !.rx = Drop(@, n)]
    BY <1>4 DEF Recv
  <2>2. n \in 0..Len(rx)
    <3>1. Len(rx) \in Nat BY DEF SockType
    <3>2. QED BY <3>1, ConnectionAssumption DEF Least
  <2> HIDE DEF n
  <2>3. work'[w].pc = "feed" /\ work'[w].arg = Take(rx, n) BY <2>1, Went
  <2>4. sock'.rx = Drop(rx, n) BY <2>1 DEF SockType
  <2>5. Shaken(conn) BY <1>1 DEF WorkType, WorkOf
  <2>6. Ahead \in 0..Len(rx) BY DEF Ordered, AheadInv
  <2>7. Ahead = 0 /\ Ahead' = 0
    <3>1. Shook = 2 /\ Shook' = 2 BY <1>2, <2>5 DEF Shook, Shaken
    <3>2. Greeted \in 0..2 /\ Greeted' = Greeted BY <1>1 DEF Greeted
    <3>3. Len(rx) \in Nat BY DEF SockType
    <3>4. QED BY <2>6, <3>1, <3>2, <3>3 DEF Ahead
  <2> DEFINE B == conn.parser.buffer
             T == Take(rx, n)
             D == Drop(rx, n)
             u == <<client.req, client.pos>>
             U == <<u>>
             TD == T \o D
  <2>8. rx \in Seq(Pair) /\ B \in Seq(Pair) /\ u \in Pair BY <2>6, InputTypes, UnitsArePairs
  <2>9. U \in Seq(Pair) BY <2>8
  <2>10. T \in Seq(Pair) BY <2>2, <2>8, TakeFacts
  <2>11. D \in Seq(Pair) BY <2>2, <2>8, DropFacts
  <2>12. TD = rx BY <2>2, <2>8, TakeAndDrop
  <2>13. Coming = Append(rx, u)
    <3>1. Drop(rx, 0) = rx BY <2>8, DropEnds
    <3>2. QED BY <2>7, <3>1 DEF Coming
  <2>14. Coming' = Append(D, u)
    <3> HIDE DEF D
    <3>1. Drop(D, 0) = D BY <2>11, DropEnds
    <3>2. Coming' = Append(Drop(sock'.rx, 0), u) BY <1>1, <2>7 DEF Coming
    <3>3. QED BY <2>4, <3>1, <3>2 DEF D
  <2>15. Held(w) = B /\ Held(w)' = B \o T
    <3>1. Chunk(w) = <<>> /\ Chunk(w)' = T BY <1>1, <2>3 DEF Chunk
    <3>2. B \o <<>> = B BY <2>8, ConcatEmptySeq
    <3>3. conn'.parser.buffer = B BY <1>2
    <3>4. QED BY <3>1, <3>2, <3>3 DEF Held
  <2> HIDE DEF B, T, D, u, rx
  <2>16. Append(D, u) = D \o U BY <2>8, <2>11, AppendIsConcat
  <2>17. TD \in Seq(Pair) BY <2>10, <2>11, ConcatProperties
  <2> HIDE DEF TD
  <2>18. Append(TD, u) = TD \o U BY <2>8, <2>17, AppendIsConcat
  <2> HIDE DEF U
  <2>19. TD \o U = T \o (D \o U) BY <2>9, <2>10, <2>11, ConcatAssociative DEF TD
  <2> DEFINE DU == D \o U
  <2>20. DU \in Seq(Pair) BY <2>9, <2>11, ConcatProperties
  <2> HIDE DEF DU
  <2>21. (B \o T) \o DU = B \o (T \o DU) BY <2>8, <2>10, <2>20, ConcatAssociative
  <2>22. Input(w)' = (B \o T) \o DU BY <2>14, <2>15, <2>16 DEF Input, DU
  <2>23. Input(w) = B \o (T \o DU) BY <2>12, <2>13, <2>15, <2>18, <2>19 DEF Input, DU
  <2>24. Input(w)' = Input(w) BY <2>21, <2>22, <2>23
  <2>25. AheadInv'
    <3>1. Len(D) \in Nat BY <2>11, LenProperties
    <3>2. Ahead' \in 0..Len(sock'.rx) BY <2>4, <2>7, <3>1 DEF D
    <3>3. client'.hs = "done" BY <1>1, <2>5, <2>7 DEF Ahead, Greeted, Shook, Shaken, ClientType
    <3>4. QED BY <3>2, <3>3 DEF AheadInv
  <2>26. Contiguous(client.script, Input(w)') BY <2>24 DEF Ordered
  <2>27. QED BY <1>2, <2>24, <2>25, <2>26, OrderedKept
<1>5. ~Goto(w, "close") BY Went
<1>6. QED BY <1>3, <1>4, <1>5 DEF Recv

\* The request that feed is reading, the number of the first unit it is given, and the
\* units it takes: all, or those up to the end of the request.
ReadOf(p, chunk) == IF p.stage = "head" THEN chunk[1][1] ELSE p.req
ReadFrom(p) == IF p.stage = "head" THEN 0 ELSE p.read + 1
Taken(p, chunk, fed, k) ==
  /\ k \in 0..Len(chunk) /\ fed.parser.buffer = Drop(chunk, k)
  /\ fed.result = "NEED_MORE_DATA" =>
       /\ k = Len(chunk) /\ fed.parser.read + 1 = ReadFrom(p) + k
       /\ fed.parser.read \in Nat /\ fed.parser.read < Kind(ReadOf(p, chunk)).body
  /\ fed.result = "COMPLETE" => ReadFrom(p) + k = Kind(ReadOf(p, chunk)).body + 1
Reads(p, chunk, fed) ==
  /\ fed.parser.req = ReadOf(p, chunk) /\ ReadOf(p, chunk) \in Request
  /\ Kind(ReadOf(p, chunk)).body \in Nat /\ ReadFrom(p) \in Nat
  /\ fed.result # "ERROR" /\ p.stage = "head" => chunk[1][2] = 0
  /\ fed.result = "ERROR" => p.stage = "head"
  /\ \E k : Taken(p, chunk, fed, k)

\* What feed takes of what it is given, and where that leaves the parser.
LEMMA FeedReads ==
  ASSUME ClientType, NEW p, ParserOf(p), p.stage \in {"head", "body"},
         NEW chunk, chunk \in Seq(RequestUnit), Len(chunk) > 0,
         NEW fed, fed = Feed(p, chunk)
  PROVE  Reads(p, chunk, fed)
<1> DEFINE r == ReadOf(p, chunk)
           j == ReadFrom(p)
<1>0. /\ r = (IF p.stage = "head" THEN chunk[1][1] ELSE p.req)
      /\ j = (IF p.stage = "head" THEN 0 ELSE p.read + 1)
  BY DEF ReadOf, ReadFrom
<1> HIDE DEF r, j
<1> DEFINE b == p.buffer \o chunk
           first == Head(b)
           inBody == IF p.stage = "head"
                     THEN [stage |-> "body", req |-> first[1], read |-> 0, buffer |-> Tail(b)]
                     ELSE [p EXCEPT !.buffer = b]
           need == Kind(inBody.req).body - inBody.read
           have == Len(inBody.buffer)
           wrong == \/ p.stage = "error"
                    \/ p.stage = "head" /\ (first[2] # 0 \/ Kind(first[1]).how = "bad")
<1>1. fed = CASE p.stage = "complete" -> [result |-> "COMPLETE", parser |-> inBody]
              [] wrong ->
                   [result |-> "ERROR", parser |-> [inBody EXCEPT !.stage = "error"]]
              [] p.stage # "complete" /\ ~wrong /\ have < need ->
                   [result |-> "NEED_MORE_DATA",
                    parser |-> [inBody EXCEPT !.read = @ + have, !.buffer = <<>>]]
              [] OTHER ->
                   [result |-> "COMPLETE",
                    parser |-> [inBody EXCEPT !.stage = "complete", !.read = @ + need,
                                              !.buffer = Drop(@, need)]]
  BY DEF Feed
<1>2. b = chunk
  <2>1. p.buffer = <<>> BY DEF ParserOf
  <2>2. QED BY <2>1, ConcatEmptySeq
<1>3. /\ Len(chunk) \in Nat /\ first = chunk[1] /\ first \in RequestUnit
      /\ Tail(chunk) \in Seq(RequestUnit) /\ Len(Tail(chunk)) = Len(chunk) - 1
  <2>1. chunk # <<>> BY EmptySeq
  <2>2. /\ Head(chunk) \in RequestUnit /\ Tail(chunk) \in Seq(RequestUnit)
        /\ Len(Tail(chunk)) = Len(chunk) - 1
    BY <2>1, HeadTailProperties
  <2>3. Head(chunk) = chunk[1] BY <2>1
  <2>4. QED BY <1>2, <2>2, <2>3, LenProperties
<1>4. first[1] \in Request BY <1>3 DEF RequestUnit
<1>5. /\ {"stage", "req", "read", "buffer"} \subseteq DOMAIN inBody
      /\ inBody.req = r /\ r \in Request /\ inBody.read \in Nat
      /\ inBody.read = (IF p.stage = "head" THEN 0 ELSE p.read)
      /\ inBody.buffer = (IF p.stage = "head" THEN Tail(chunk) ELSE chunk)
  <2>1. CASE p.stage = "head" BY <1>0, <1>2, <1>3, <1>4, <2>1
  <2>2. CASE p.stage = "body" BY <1>0, <1>2, <2>2 DEF ParserOf
  <2>3. QED BY <2>1, <2>2
<1>6. /\ Kind(r).body \in Nat /\ need = Kind(r).body - inBody.read /\ need \in Nat
      /\ have = (IF p.stage = "head" THEN Len(chunk) - 1 ELSE Len(chunk)) /\ have \in Nat
      /\ j \in Nat
  <2>1. Kind(r).body \in Nat BY <1>5, ScriptFacts
  <2>2. need = Kind(r).body - inBody.read /\ have = Len(inBody.buffer) BY <1>5
  <2> HIDE DEF inBody, need, have, b
  <2>3. CASE p.stage = "head"
    <3>1. j = 0 /\ inBody.read = 0 /\ have = Len(chunk) - 1 /\ Len(chunk) > 0
      BY <1>0, <1>3, <1>5, <2>2, <2>3
    <3>2. QED BY <1>3, <2>1, <2>2, <2>3, <3>1
  <2>4. CASE p.stage = "body"
    <3>1. /\ p.read \in Nat /\ p.read <= Kind(r).body
          /\ j = p.read + 1 /\ inBody.read = p.read /\ have = Len(chunk)
      BY <1>0, <1>5, <2>2, <2>4 DEF ParserOf
    <3>2. QED BY <1>3, <2>1, <2>2, <2>4, <3>1
  <2>5. QED BY <2>3, <2>4
<1> HIDE DEF b, inBody, need, have
<1>7. p.stage # "complete" OBVIOUS
<1>8. CASE wrong
  <2>1. fed.result = "ERROR" /\ fed.parser = [inBody EXCEPT !.stage = "error"]
    BY <1>1, <1>7, <1>8
  <2>2. fed.parser.req = r /\ fed.parser.buffer = inBody.buffer BY <1>5, <2>1
  <2>3. p.stage = "head" BY <1>8
  <2> DEFINE t == Tail(chunk)
             k == 1
  <2>4. k \in 1..Len(chunk) /\ k - 1 = 0 /\ chunk # <<>> BY <1>3, EmptySeq
  <2> HIDE DEF k
  <2>5. Drop(t, k - 1) = Drop(chunk, k) BY <2>4, DropOfTail
  <2>6. Drop(t, 0) = t
    <3>1. t \in Seq(RequestUnit) BY <1>3
    <3> HIDE DEF t
    <3>2. QED BY <3>1, DropEnds
  <2>7. fed.parser.buffer = Drop(chunk, k) BY <1>5, <2>2, <2>3, <2>4, <2>5, <2>6
  <2>8. k \in 0..Len(chunk) BY <2>4
  <2>9. QED BY <1>5, <1>6, <2>1, <2>2, <2>3, <2>7, <2>8 DEF Reads, Taken, r, j
<1>9. CASE ~wrong /\ have < need
  <2>1. /\ fed.result = "NEED_MORE_DATA"
        /\ fed.parser = [inBody EXCEPT !.read = @ + have, !.buffer = <<>>]
    BY <1>1, <1>7, <1>9
  <2>2. /\ fed.parser.req = r /\ fed.parser.read = inBody.read + have
        /\ fed.parser.buffer = <<>>
    BY <1>5, <2>1
  <2>3. p.stage = "head" => chunk[1][2] = 0 BY <1>3, <1>9
  <2>4. inBody.read + have + 1 = j + Len(chunk)
    <3>1. CASE p.stage = "head"
      <4>1. j = 0 /\ inBody.read = 0 /\ have = Len(chunk) - 1 BY <1>0, <1>5, <1>6, <3>1
      <4>2. QED BY <1>3, <4>1
    <3>2. CASE p.stage = "body"
      <4>1. j = p.read + 1 /\ inBody.read = p.read /\ have = Len(chunk) BY <1>0, <1>5, <1>6, <3>2
      <4>2. p.read \in Nat BY DEF ParserOf
      <4>3. QED BY <1>3, <4>1, <4>2
    <3>3. QED BY <3>1, <3>2
  <2>5. inBody.read + have \in Nat /\ inBody.read + have < Kind(r).body
    BY <1>5, <1>6, <1>9
  <2>6. Drop(chunk, Len(chunk)) = <<>> BY DropEnds
  <2>7. Len(chunk) \in 0..Len(chunk) BY <1>3
  <2> DEFINE k == Len(chunk)
  <2>8. /\ k \in 0..Len(chunk) /\ fed.parser.buffer = Drop(chunk, k)
        /\ k = Len(chunk) /\ fed.parser.read + 1 = j + k
        /\ fed.parser.read \in Nat /\ fed.parser.read < Kind(r).body
    BY <2>2, <2>4, <2>5, <2>6, <2>7
  <2> HIDE DEF k
  <2>9. QED BY <1>5, <1>6, <2>1, <2>2, <2>3, <2>8 DEF Reads, Taken, r, j
<1>10. CASE ~wrong /\ ~(have < need)
  <2>1. /\ fed.result = "COMPLETE"
        /\ fed.parser = [inBody EXCEPT !.stage = "complete", !.read = @ + need,
                                       !.buffer = Drop(@, need)]
    BY <1>1, <1>7, <1>10
  <2>2. fed.parser.req = r /\ fed.parser.buffer = Drop(inBody.buffer, need) BY <1>5, <2>1
  <2>3. p.stage = "head" => chunk[1][2] = 0 BY <1>3, <1>10
  <2>4. need <= have BY <1>6, <1>10
  <2>5. /\ Kind(r).body + 1 - j \in 0..Len(chunk)
        /\ Drop(inBody.buffer, need) = Drop(chunk, Kind(r).body + 1 - j)
    <3>1. CASE p.stage = "head"
      <4> DEFINE k == Kind(r).body + 1
      <4>1. /\ inBody.buffer = Tail(chunk) /\ need = k - 1 /\ k \in 1..Len(chunk)
            /\ k = Kind(r).body + 1 - j
        BY <1>0, <1>3, <1>5, <1>6, <2>4, <3>1
      <4>2. chunk # <<>> BY EmptySeq
      <4> HIDE DEF k
      <4>3. Drop(Tail(chunk), k - 1) = Drop(chunk, k) BY <4>1, <4>2, DropOfTail
      <4>4. QED BY <4>1, <4>3
    <3>2. CASE p.stage = "body"
      <4>1. inBody.buffer = chunk /\ need = Kind(r).body + 1 - j /\ need \in 0..Len(chunk)
        BY <1>0, <1>3, <1>5, <1>6, <2>4, <3>2 DEF ParserOf
      <4>2. QED BY <4>1
    <3>3. QED BY <3>1, <3>2
  <2> DEFINE k == Kind(r).body + 1 - j
  <2>6. j + k = Kind(r).body + 1 BY <1>6
  <2>7. k \in 0..Len(chunk) /\ fed.parser.buffer = Drop(chunk, k) BY <2>2, <2>5
  <2> HIDE DEF k
  <2>8. QED BY <1>5, <1>6, <2>1, <2>2, <2>3, <2>6, <2>7 DEF Reads, Taken, r, j
<1>11. QED BY <1>8, <1>9, <1>10

\* What feed does to a parser that is past the body of its request, or has refused it:
\* the parser keeps all it is given.
KeepsAll(p, chunk, fed) ==
  /\ fed.result # "NEED_MORE_DATA"
  /\ fed.parser.stage = p.stage /\ fed.parser.req = p.req /\ fed.parser.read = p.read
  /\ fed.parser.buffer = p.buffer \o chunk

\* It does.
LEMMA FeedPast ==
  ASSUME NEW p, ParserOf(p), p.stage \in {"complete", "error"}, NEW chunk,
         NEW fed, fed = Feed(p, chunk)
  PROVE  KeepsAll(p, chunk, fed)
<1> DEFINE b == p.buffer \o chunk
           q == [p EXCEPT !.buffer = b]
<1>1. {"stage", "req", "read", "buffer"} \subseteq DOMAIN p BY DEF ParserOf
<1>2. CASE p.stage = "complete"
  <2>1. fed.result = "COMPLETE" /\ fed.parser = q BY <1>2 DEF Feed
  <2> HIDE DEF b
  <2>2. /\ fed.parser.stage = p.stage /\ fed.parser.req = p.req
        /\ fed.parser.read = p.read /\ fed.parser.buffer = b
    BY <1>1, <2>1
  <2>3. QED BY <2>1, <2>2 DEF KeepsAll, b
<1>3. CASE p.stage = "error"
  <2>1. fed.result = "ERROR" /\ fed.parser = [q EXCEPT !.stage = "error"] BY <1>3 DEF Feed
  <2> HIDE DEF b
  <2>2. /\ fed.parser.stage = p.stage /\ fed.parser.req = p.req
        /\ fed.parser.read = p.read /\ fed.parser.buffer = b
    BY <1>1, <1>3, <2>1
  <2>3. QED BY <2>1, <2>2 DEF KeepsAll, b
<1>4. QED BY <1>2, <1>3

\* What becomes of a chunk: a response is prepared, the handler called, or more received.
Fed(w) == Feed(conn.parser, work[w].arg)
Refuses(w) ==
  /\ \/ Fed(w).result = "ERROR" /\ work'[w].arg = Response(conn'.parser.req, "400")
     \/ Fed(w).result = "NEED_MORE_DATA" /\ work'[w].arg = Response(conn'.parser.req, "413")
  /\ work'[w].pc = "prepare" /\ conn'.state = conn.state /\ conn'.handled = conn.handled
  /\ conn'.refed = (conn.refed \/ conn.state # "READING")
Accepts(w) ==
  /\ Fed(w).result = "COMPLETE" /\ work'[w].pc = "dispatch"
  /\ work'[w].arg = [req |-> conn'.parser.req, body |-> conn'.parser.read]
  /\ conn'.state = "PROCESSING" /\ conn'.handled = conn.handled + 1
  /\ conn'.refed = (conn.refed \/ conn.state # "READING")
GoesOn(w) ==
  /\ Fed(w).result = "NEED_MORE_DATA" /\ work'[w].pc = "recv"
  /\ conn'.state = conn.state /\ conn'.handled = conn.handled /\ conn'.refed = conn.refed

\* One of these, and nothing else but the parser changes.
LEMMA FeedCases ==
  ASSUME TypeInv, NEW w \in Workers, FeedParser(w)
  PROVE  /\ sock' = sock /\ client' = client /\ work[w].pc = "feed"
         /\ conn'.open = conn.open /\ conn'.ssl = conn.ssl /\ conn'.flushed = conn.flushed
         /\ conn'.out = conn.out /\ conn'.offset = conn.offset /\ conn'.dropped = conn.dropped
         /\ conn'.parser = Fed(w).parser /\ conn'.parser.req \in Request
         /\ Fed(w).result = "ERROR" => conn'.parser.stage = "error"
         /\ Fed(w).result = "COMPLETE" => conn'.parser.stage = "complete"
         /\ Fed(w).result = "NEED_MORE_DATA" => conn'.parser.stage = "body"
         /\ Refuses(w) \/ Accepts(w) \/ GoesOn(w)
<1> USE DEF TypeInv
<1> DEFINE q == Fed(w).parser
           Ended == [conn EXCEPT !.parser = q, !.unread = sock.rx # <<>>,
                                 !.refed = @ \/ conn.state # "READING"]
<1>1. sock' = sock /\ client' = client /\ work[w].pc = "feed" BY DEF FeedParser
<1>2. /\ work[w].arg \in Seq(RequestUnit) /\ Len(work[w].arg) > 0
  BY <1>1, ConnectionAssumption DEF WorkType, WorkOf
<1>3. /\ Fed(w).result \in {"ERROR", "COMPLETE", "NEED_MORE_DATA"} /\ q.req \in Request
      /\ Fed(w).result = "ERROR" => q.stage = "error"
      /\ Fed(w).result = "COMPLETE" => q.stage = "complete"
      /\ Fed(w).result = "NEED_MORE_DATA" => q.stage = "body"
  BY <1>2, FeedFacts DEF Fed
<1>4. \/ /\ Fed(w).result = "ERROR"
         /\ conn' = Ended /\ GotoWith(w, "prepare", Response(q.req, "400"))
      \/ /\ Fed(w).result = "NEED_MORE_DATA"
         /\ conn' = Ended /\ GotoWith(w, "prepare", Response(q.req, "413"))
      \/ /\ Fed(w).result = "COMPLETE"
         /\ conn' = [Ended EXCEPT !.state = "PROCESSING", !.handled = @ + 1]
         /\ GotoWith(w, "dispatch", [req |-> q.req, body |-> q.read])
      \/ /\ Fed(w).result = "NEED_MORE_DATA" /\ conn' = [conn EXCEPT !.parser = q]
         /\ GotoWith(w, "recv", <<>>)
  BY <1>3 DEF FeedParser, Fed
<1>5. Request' = Request /\ \A r, status : Response(r, status)' = Response(r, status)
  BY <1>1 DEF Request, Response, Length, Kind
<1> HIDE DEF q
<1>6. CASE /\ conn' = Ended
           /\ \/ Fed(w).result = "ERROR" /\ GotoWith(w, "prepare", Response(q.req, "400"))
              \/ /\ Fed(w).result = "NEED_MORE_DATA"
                 /\ GotoWith(w, "prepare", Response(q.req, "413"))
  <2>1. /\ conn'.open = conn.open /\ conn'.ssl = conn.ssl /\ conn'.flushed = conn.flushed
        /\ conn'.out = conn.out /\ conn'.offset = conn.offset /\ conn'.dropped = conn.dropped
        /\ conn'.parser = q /\ conn'.state = conn.state /\ conn'.handled = conn.handled
        /\ conn'.refed = (conn.refed \/ conn.state # "READING")
    BY <1>6 DEF ConnType
  <2>2. CASE Fed(w).result = "ERROR" /\ GotoWith(w, "prepare", Response(q.req, "400"))
    <3>1. work'[w].pc = "prepare" /\ work'[w].arg = Response(q.req, "400") BY <2>2, Went
    <3>2. Refuses(w) BY <1>5, <2>1, <2>2, <3>1 DEF Refuses
    <3>3. QED BY <1>1, <1>3, <2>1, <3>2 DEF q
  <2>3. CASE Fed(w).result = "NEED_MORE_DATA" /\ GotoWith(w, "prepare", Response(q.req, "413"))
    <3>1. work'[w].pc = "prepare" /\ work'[w].arg = Response(q.req, "413") BY <2>3, Went
    <3>2. Refuses(w) BY <1>5, <2>1, <2>3, <3>1 DEF Refuses
    <3>3. QED BY <1>1, <1>3, <2>1, <3>2 DEF q
  <2>4. QED BY <1>6, <2>2, <2>3
<1>7. CASE /\ Fed(w).result = "COMPLETE"
           /\ conn' = [Ended EXCEPT !.state = "PROCESSING", !.handled = @ + 1]
           /\ GotoWith(w, "dispatch", [req |-> q.req, body |-> q.read])
  <2>1. /\ conn'.open = conn.open /\ conn'.ssl = conn.ssl /\ conn'.flushed = conn.flushed
        /\ conn'.out = conn.out /\ conn'.offset = conn.offset /\ conn'.dropped = conn.dropped
        /\ conn'.parser = q /\ conn'.state = "PROCESSING" /\ conn'.handled = conn.handled + 1
        /\ conn'.refed = (conn.refed \/ conn.state # "READING")
    BY <1>7 DEF ConnType
  <2>2. work'[w].pc = "dispatch" /\ work'[w].arg = [req |-> q.req, body |-> q.read] BY <1>7, Went
  <2>3. Accepts(w) BY <1>7, <2>1, <2>2 DEF Accepts
  <2>4. QED BY <1>1, <1>3, <2>1, <2>3 DEF q
<1>8. CASE /\ Fed(w).result = "NEED_MORE_DATA" /\ conn' = [conn EXCEPT !.parser = q]
           /\ GotoWith(w, "recv", <<>>)
  <2>1. /\ conn'.open = conn.open /\ conn'.ssl = conn.ssl /\ conn'.flushed = conn.flushed
        /\ conn'.out = conn.out /\ conn'.offset = conn.offset /\ conn'.dropped = conn.dropped
        /\ conn'.parser = q /\ conn'.state = conn.state /\ conn'.handled = conn.handled
        /\ conn'.refed = conn.refed
    BY <1>8 DEF ConnType
  <2>2. work'[w].pc = "recv" BY <1>8, Went
  <2>3. GoesOn(w) BY <1>8, <2>1, <2>2 DEF GoesOn
  <2>4. QED BY <1>1, <1>3, <2>1, <2>3 DEF q
<1>9. QED BY <1>4, <1>6, <1>7, <1>8

\* The parser that feed leaves, and the units it has taken of the input: all it was given,
\* or those up to the end of the request, unless it is past that or has refused it.
LEMMA FeedInput ==
  ASSUME TypeInv, Steady, NEW w \in Workers, Ordered(w), FeedParser(w)
  PROVE  /\ Ordered(w)'
         /\ conn'.parser.req = (IF conn.parser.stage = "head" THEN Input(w)[1][1]
                                ELSE conn.parser.req)
<1> USE DEF TypeInv
<1> DEFINE chunk == work[w].arg
           p == conn.parser
           q == conn'.parser
           in == Input(w)
<1>1. /\ sock' = sock /\ client' = client /\ work[w].pc = "feed" /\ conn'.ssl = conn.ssl
      /\ q = Fed(w).parser
      /\ Fed(w).result = "ERROR" => q.stage = "error"
      /\ Fed(w).result = "COMPLETE" => q.stage = "complete"
      /\ Fed(w).result = "NEED_MORE_DATA" => q.stage = "body"
  BY FeedCases
<1>2. /\ chunk \in Seq(RequestUnit) /\ Len(chunk) > 0 /\ Len(chunk) \in Nat
  BY <1>1, ConnectionAssumption DEF WorkType, WorkOf
<1>3. work'[w].pc \in {"prepare", "dispatch", "recv"}
  BY FeedCases DEF Refuses, Accepts, GoesOn
<1>4. Fed(w).result \in {"ERROR", "COMPLETE", "NEED_MORE_DATA"} BY <1>2, FeedFacts DEF Fed
<1>5. AheadInv /\ Ahead \in 0..Len(sock.rx) BY DEF Ordered, AheadInv
<1>6. Ahead' = Ahead /\ AheadInv' /\ Coming' = Coming /\ Chunk(w)' = <<>>
  <2>1. Ahead' = Ahead BY <1>1 DEF Ahead, Greeted, Shook
  <2>2. Chunk(w)' = <<>> BY <1>3 DEF Chunk
  <2>3. Coming' = Coming BY <1>1, <2>1 DEF Coming
  <2>4. AheadInv' BY <1>1, <1>5, <2>1 DEF AheadInv
  <2>5. QED BY <2>1, <2>2, <2>3, <2>4
<1>7. /\ Coming \in Seq(Pair) /\ in \in Seq(Pair) /\ Len(Coming) \in Nat /\ Len(Coming) >= 1
      /\ Held(w) \in Seq(Pair) /\ Len(in) = Len(Held(w)) + Len(Coming)
  BY <1>5, InputTypes
<1>8. Held(w) = p.buffer \o chunk BY <1>1 DEF Held, Chunk
<1>9. Contiguous(client.script, in) BY DEF Ordered
<1>10. p.stage \in {"head", "body", "complete", "error"} /\ ParserOf(p) BY DEF ParserOf
<1>11. CASE p.stage \in {"complete", "error"}
  <2>1. /\ q.stage = p.stage /\ q.req = p.req /\ q.read = p.read /\ q.buffer = p.buffer \o chunk
    <3> DEFINE fed == Fed(w)
    <3>1. fed = Feed(p, chunk) BY DEF Fed
    <3> HIDE DEF fed
    <3>2. KeepsAll(p, chunk, fed) BY <1>10, <1>11, <3>1, FeedPast
    <3>3. QED BY <1>1, <3>2 DEF KeepsAll, fed
  <2>2. Input(w)' = in
    <3>1. Held(w) \o <<>> = Held(w) BY <1>7, ConcatEmptySeq
    <3>2. Held(w)' = Held(w) BY <1>6, <1>8, <2>1, <3>1 DEF Held
    <3>3. QED BY <1>6, <3>2 DEF Input
  <2>3. Contiguous(client.script, Input(w)') /\ Input(w)'[1] = in[1] BY <1>9, <2>2
  <2>4. Ordered(w)' BY <1>6, <2>1, <2>3, OrderedKept
  <2>5. QED BY <1>11, <2>1, <2>4
<1>12. CASE p.stage \in {"head", "body"}
  <2> DEFINE r == ReadOf(p, chunk)
             j == ReadFrom(p)
             body == Kind(r).body
             fed == Fed(w)
  <2>1. /\ fed.parser.req = r /\ r \in Request /\ body \in Nat /\ j \in Nat
        /\ fed.result # "ERROR" /\ p.stage = "head" => chunk[1][2] = 0
        /\ \E k : Taken(p, chunk, fed, k)
    <3>1. fed = Feed(p, chunk) BY DEF Fed
    <3> HIDE DEF fed
    <3>2. Reads(p, chunk, fed) BY <1>2, <1>10, <1>12, <3>1, FeedReads
    <3>3. QED BY <3>2 DEF Reads
  <2>2. PICK k : /\ k \in 0..Len(chunk) /\ q.buffer = Drop(chunk, k)
                 /\ fed.result = "NEED_MORE_DATA" =>
                      /\ k = Len(chunk) /\ q.read + 1 = j + k
                      /\ q.read \in Nat /\ q.read < body
                 /\ fed.result = "COMPLETE" => j + k = body + 1
    BY <1>1, <2>1 DEF Taken
  <2>3. /\ r = (IF p.stage = "head" THEN chunk[1][1] ELSE p.req)
        /\ j = (IF p.stage = "head" THEN 0 ELSE p.read + 1)
    BY DEF ReadOf, ReadFrom
  <2>4. Kind(r).body = body /\ client.script[r].body = body BY DEF Kind
  <2> HIDE DEF r, j, body, fed
  <2>5. Held(w) = chunk
    <3>1. p.buffer = <<>> BY <1>10, <1>12 DEF ParserOf
    <3>2. <<>> \o chunk = chunk BY <1>2, ConcatEmptySeq
    <3>3. QED BY <1>8, <3>1, <3>2
  <2>6. chunk \in Seq(Pair) /\ chunk[1] \in RequestUnit
    <3>1. 1 \in 1..Len(chunk) BY <1>2
    <3>2. QED BY <1>2, <1>7, <2>5, <3>1, ElementOfSeq
  <2> HIDE DEF chunk
  <2>7. in[1] = chunk[1]
    <3>1. \A i \in 1..Len(chunk) + Len(Coming) :
            (chunk \o Coming)[i] = IF i <= Len(chunk) THEN chunk[i] ELSE Coming[i - Len(chunk)]
      BY <1>7, <2>6, ConcatProperties
    <3>2. 1 \in 1..Len(chunk) + Len(Coming) /\ 1 <= Len(chunk) BY <1>2, <1>7 DEF chunk
    <3>3. (chunk \o Coming)[1] = chunk[1] BY <3>1, <3>2
    <3>4. QED BY <2>5, <3>3 DEF Input
  <2>8. k \in Nat /\ k < Len(in) /\ k \in 0..Len(in)
    <3>1. Len(chunk) \in Nat /\ Len(in) = Len(chunk) + Len(Coming) BY <1>2, <1>7, <2>5 DEF chunk
    <3> HIDE DEF in
    <3>2. QED BY <1>7, <2>2, <3>1
  <2>9. Input(w)' = Drop(in, k)
    <3>1. Drop(chunk, k) \in Seq(Pair) BY <2>2, <2>6, DropFacts
    <3>2. Drop(chunk, k) \o <<>> = Drop(chunk, k) BY <3>1, ConcatEmptySeq
    <3>3. Held(w)' = Drop(chunk, k) BY <1>6, <2>2, <3>2 DEF Held
    <3>4. Drop(chunk \o Coming, k) = Drop(chunk, k) \o Coming
      BY <1>7, <2>2, <2>6, DropOfConcat
    <3>5. QED BY <1>6, <2>5, <3>3, <3>4 DEF Input
  <2>10. p.stage = "head" => r = in[1][1] BY <2>3, <2>7
  <2>11. fed.result # "ERROR" => in[1] = <<r, j>>
    <3>1. CASE p.stage = "head"
      <4>1. chunk[1] = <<chunk[1][1], chunk[1][2]>> BY <2>6 DEF RequestUnit
      <4>2. QED BY <2>1, <2>3, <2>7, <3>1, <4>1
    <3>2. CASE p.stage = "body" BY <2>3, <3>2 DEF Ordered, Awaits
    <3>3. QED BY <1>12, <3>1, <3>2
  <2> HIDE DEF in
  <2>12. Contiguous(client.script, Drop(in, k)) /\ Drop(in, k)[1] = in[k + 1]
    BY <1>7, <1>9, <2>8, DropContiguous
  <2>13. q.req = r BY <1>1, <2>1 DEF fed
  <2>14. q.stage = "body" => fed.result = "NEED_MORE_DATA" BY <1>1, <1>4 DEF fed
  <2>15. q.stage = "complete" => fed.result = "COMPLETE" BY <1>1, <1>4 DEF fed
  <2>16. ASSUME fed.result = "NEED_MORE_DATA"
         PROVE  q.read < body /\ Input(w)'[1] = <<r, q.read + 1>>
    <3>1. in[1] = <<r, j>> /\ q.read + 1 = j + k /\ q.read \in Nat /\ q.read < body
      BY <2>2, <2>11, <2>16
    <3>2. j + k <= body BY <2>1, <2>8, <3>1
    <3>3. RestFollows(in, r, j, k) BY <1>7, <1>9, <2>1, <2>4, <2>8, <3>1, <3>2, RestOfBody
    <3>4. QED BY <2>9, <2>12, <3>1, <3>3 DEF RestFollows
  <2>17. ASSUME fed.result = "COMPLETE" PROVE Input(w)'[1] = <<r + 1, 0>>
    <3>1. in[1] = <<r, j>> /\ j + k = body + 1 BY <2>2, <2>11, <2>17
    <3>2. j <= body
      <4>1. CASE p.stage = "head" BY <2>1, <2>3, <4>1
      <4>2. CASE p.stage = "body"
        <5>1. p.read < Kind(p.req).body BY <4>2 DEF Ordered, Awaits
        <5>2. j = p.read + 1 /\ body = Kind(p.req).body BY <2>3, <2>4, <4>2
        <5>3. p.read \in Nat BY <1>10 DEF ParserOf
        <5>4. QED BY <2>1, <5>1, <5>2, <5>3
      <4>3. QED BY <1>12, <4>1, <4>2
    <3>3. k > 0 BY <2>1, <2>8, <3>1, <3>2
    <3>4. NextFollows(in, r, k) BY <1>7, <1>9, <2>1, <2>4, <2>8, <3>1, <3>3, NextAfterBody
    <3>5. QED BY <2>9, <2>12, <3>4 DEF NextFollows
  <2>18. client'.script[r].body = body BY <2>4 DEF Steady
  <2>19. Awaits(w)'
    <3>1. q.stage = "body" =>
            /\ q.read < client'.script[q.req].body /\ Input(w)'[1] = <<q.req, q.read + 1>>
      BY <2>13, <2>14, <2>16, <2>18
    <3>2. q.stage = "complete" => Input(w)'[1] = <<q.req + 1, 0>> BY <2>13, <2>15, <2>17
    <3>3. QED BY <3>1, <3>2 DEF Awaits, Kind
  <2>20. Contiguous(client.script, Input(w))' BY <2>9, <2>12 DEF Contiguous, Steady
  <2>21. Ordered(w)' BY <1>6, <2>19, <2>20 DEF Ordered
  <2>22. QED BY <1>12, <2>3, <2>10, <2>13, <2>21 DEF in
<1>13. QED BY <1>10, <1>11, <1>12

\* What is left of the input when the parser is replaced.
LEMMA InputAfterReset ==
  ASSUME TypeInv, NEW w \in Workers, Ahead \in 0..Len(sock.rx),
         Contiguous(client.script, Input(w)), work[w].pc # "feed"
  PROVE  /\ Contiguous(client.script, Coming)
         /\ Input(w)[1][1] \in Nat /\ Coming[1][1] \in Nat /\ Input(w)[1][1] <= Coming[1][1]
         /\ conn.parser.buffer = <<>> => Coming = Input(w)
<1> DEFINE b == conn.parser.buffer
           c == Coming
           q == Input(w)
           k == Len(b)
<1>1. /\ b \in Seq(Pair) /\ c \in Seq(Pair) /\ q \in Seq(Pair) /\ Len(c) \in Nat /\ Len(c) >= 1
      /\ Len(q) = Len(Held(w)) + Len(c)
  BY InputTypes
<1>2. Held(w) = b BY <1>1, ConcatEmptySeq DEF Held, Chunk
<1>3. q = b \o c BY <1>2 DEF Input
<1>4. Len(q) = k + Len(c) BY <1>1, <1>2
<1> HIDE DEF b, c, q
<1>5. k \in Nat /\ k \in 0..k BY <1>1, LenProperties
<1>6. Drop(b, k) = <<>> BY <1>1, DropEnds
<1>7. Drop(b \o c, k) = Drop(b, k) \o c
  <2> HIDE DEF k
  <2>1. k \in 0..Len(b) BY <1>5 DEF k
  <2>2. QED BY <1>1, <2>1, DropOfConcat, SMTT(30)
<1>8. Drop(q, k) = c
  <2>1. <<>> \o c = c BY <1>1, ConcatEmptySeq
  <2> HIDE DEF k
  <2>2. QED BY <1>3, <1>6, <1>7, <2>1
<1> HIDE DEF k
<1>9. Contiguous(client.script, q) BY DEF q
<1>10. k \in 0..Len(q) /\ k < Len(q) /\ k + 1 \in 1..Len(q) /\ 1 \in 1..Len(q)
  BY <1>1, <1>4, <1>5
<1>11. /\ Contiguous(client.script, Drop(q, k))
       /\ k < Len(q) => Drop(q, k)[1] = q[k + 1]
  BY <1>1, <1>9, <1>10, DropContiguous
<1>12. c[1] = q[k + 1] BY <1>8, <1>10, <1>11
<1>13. q[1][1] <= q[k + 1][1]
  <2> DEFINE i == k + 1
  <2>1. i \in 1..Len(q) BY <1>10
  <2> HIDE DEF i
  <2>2. q[1][1] <= q[i][1] BY <1>1, <1>9, <2>1, NeverEarlier
  <2>3. QED BY <2>2 DEF i
<1>14. q[1] \in Pair /\ q[k + 1] \in Pair BY <1>1, <1>10, ElementOfSeq
<1>15. q[1][1] \in Nat /\ c[1][1] \in Nat BY <1>12, <1>14 DEF Pair
<1>16. b = <<>> => c = q
  <2>1. SUFFICES ASSUME b = <<>> PROVE c = q OBVIOUS
  <2>2. q = <<>> \o c BY <1>3, <2>1
  <2>3. QED BY <1>1, <2>2, ConcatEmptySeq
<1>17. QED BY <1>8, <1>11, <1>12, <1>13, <1>15, <1>16 DEF b, c, q

\* The Connection is reset for the next request.
LEMMA ResetInput ==
  ASSUME TypeInv, Steady, NEW w \in Workers, Ordered(w), work[w].pc # "feed",
         work'[w].pc # "feed", client' = client, sock' = sock,
         conn'.parser = NewParser, conn'.ssl = conn.ssl
  PROVE  Ordered(w)' /\ Input(w)' = Coming
<1>1. AheadInv /\ Ahead \in 0..Len(sock.rx) /\ Contiguous(client.script, Input(w))
  BY DEF Ordered, AheadInv
<1>2. Contiguous(client.script, Coming) BY <1>1, InputAfterReset
<1>3. Ahead' = Ahead BY DEF Ahead, Greeted, Shook
<1>4. Coming' = Coming BY <1>3 DEF Coming
<1>5. Input(w)' = Coming
  <2>1. Coming \in Seq(Pair) BY <1>1, InputTypes
  <2>2. Held(w)' = <<>> \o <<>> BY DEF Held, Chunk, NewParser
  <2>3. <<>> \o <<>> = <<>>
    <3> DEFINE e == <<>>
    <3>1. e \in Seq(Pair) BY EmptySeq
    <3> HIDE DEF e
    <3>2. e \o <<>> = e BY <3>1, ConcatEmptySeq
    <3>3. QED BY <3>2 DEF e
  <2>4. <<>> \o Coming = Coming BY <2>1, ConcatEmptySeq
  <2>5. QED BY <1>4, <2>2, <2>3, <2>4 DEF Input
<1>6. Contiguous(client.script, Input(w))' BY <1>2, <1>5 DEF Contiguous, Steady
<1>7. AheadInv' BY <1>1, <1>3 DEF AheadInv
<1>8. Awaits(w)' BY DEF Awaits, NewParser
<1>9. QED BY <1>5, <1>6, <1>7, <1>8 DEF Ordered

\* At first the first request is to come.
LEMMA InitInput ==
  ASSUME Init
  PROVE  InputInv /\ \A w \in Workers : Input(w) = <<<<1, 0>>>>
<1>1. /\ client.req = 1 /\ client.pos = 0 /\ client.hs \in {"start", "done"}
      /\ conn.ssl = (IF client.hs = "done" THEN "none" ELSE "hello")
      /\ conn.parser = NewParser
  BY DEF Init
<1>2. sock.rx = <<>> BY DEF Init
<1>3. \A w \in Workers : work[w].pc = "idle" BY DEF Init, IdleWorker
<1> DEFINE e == <<>>
<1>4. \A S : e \in Seq(S) /\ Len(e) = 0 BY EmptySeq
<1>5. Ahead = 0
  <2>1. CASE client.hs = "done" BY <1>1, <2>1 DEF Ahead, Greeted, Shook
  <2>2. CASE client.hs = "start" BY <1>1, <2>2 DEF Ahead, Greeted, Shook
  <2>3. QED BY <1>1, <2>1, <2>2
<1>6. AheadInv BY <1>2, <1>4, <1>5 DEF AheadInv
<1>7. ASSUME NEW w \in Workers PROVE Input(w) = <<<<1, 0>>>> /\ Ordered(w)
  <2>1. Input(w) = <<<<1, 0>>>>
    <3> DEFINE u == <<1, 0>>
    <3>1. u \in Pair BY DEF Pair
    <3>2. Drop(sock.rx, Ahead) = e
      <4>1. e \in Seq(Pair) BY <1>4
      <4> HIDE DEF e
      <4>2. Drop(e, 0) = e BY <4>1, DropEnds
      <4>3. QED BY <1>2, <1>5, <4>2 DEF e
    <3>3. Coming = Append(e, u) BY <1>1, <3>2 DEF Coming
    <3>4. Held(w) = e \o e BY <1>1, <1>3 DEF Held, Chunk, NewParser
    <3> HIDE DEF u
    <3>5. e \o e = e
      <4>1. e \in Seq(Pair) BY <1>4
      <4> HIDE DEF e
      <4>2. e \o <<>> = e BY <4>1, ConcatEmptySeq
      <4>3. QED BY <4>2 DEF e
    <3>6. Append(e, u) = <<u>> OBVIOUS
    <3> DEFINE one == <<u>>
    <3>7. one \in Seq(Pair) BY <3>1
    <3> HIDE DEF one
    <3>8. <<>> \o one = one BY <3>7, ConcatEmptySeq
    <3>9. QED BY <3>3, <3>4, <3>5, <3>6, <3>8 DEF Input, one, u
  <2>2. Contiguous(client.script, Input(w)) BY <2>1 DEF Contiguous
  <2>3. Awaits(w) BY <1>1 DEF Awaits, NewParser
  <2>4. QED BY <1>6, <2>1, <2>2, <2>3 DEF Ordered
<1>8. QED BY <1>7 DEF InputInv

\* What Connection::close and remove_connection do to the Connection and the socket.
Shut == /\ conn'.open = FALSE /\ conn'.refed = conn.refed /\ conn'.dropped = conn.dropped
        /\ sock'.tx \in {sock.tx, <<>>}

\* Connection::close does that.
LEMMA CloseShuts ==
  ASSUME TypeInv, ConnectionInv, CloseConnection
  PROVE  Shut
<1>1. conn'.open = FALSE /\ conn'.refed = conn.refed
  BY CloseObjectFacts DEF CloseConnection
<1>2. conn'.dropped = conn.dropped
  BY DEF CloseConnection, CloseObject, TypeInv, ConnType
<1>3. sock'.tx \in {sock.tx, <<>>}
  <2>1. CASE sock' = sock BY <2>1
  <2>2. CASE \E sent \in {sock.tx, <<>>} :
               sock' = [sock EXCEPT !.tx = sent, !.armed = FALSE, !.noSpace = FALSE]
    BY <2>2 DEF TypeInv, SockType
  <2>3. QED BY <2>1, <2>2 DEF CloseConnection, CloseSocket
<1>4. QED BY <1>1, <1>2, <1>3 DEF Shut

\* So does remove_connection: what it does not find is closed already.
LEMMA RemoveShuts ==
  ASSUME TypeInv, ConnectionInv, RemoveConnection
  PROVE  Shut
<1>1. CASE main.registered BY <1>1, CloseShuts DEF RemoveConnection
<1>2. CASE ~main.registered
  <2>1. ~conn.open BY <1>2 DEF ConnectionInv, OpenIsRegistered
  <2>2. conn' = conn /\ sock' = sock BY <1>2 DEF RemoveConnection
  <2>3. conn.open = FALSE BY <2>1 DEF ConnectionInv, Fields
  <2>4. QED BY <2>2, <2>3 DEF Shut
<1>3. QED BY <1>1, <1>2

\* What a step of the socket and of the other buffers leaves as it is.
Still(w) ==
  /\ client' = client /\ sock'.rx = sock.rx
  /\ conn'.parser = conn.parser /\ conn'.ssl = conn.ssl
  /\ work[w].pc \notin {"feed", "close"} /\ work'[w].pc # "feed"

\* The steps of a worker that leave the input alone.
LEMMA WorkerStill ==
  ASSUME TypeInv, NEW w \in Workers,
         \/ StartTask(w) \/ HandleRead(w) \/ HandleWrite(w) \/ Dispatch(w) \/ PrepareResponse(w)
         \/ Send(w) \/ Advance(w) \/ (CheckAlive(w) /\ IsAlive(conn))
         \/ FinishWrite(w) /\ conn' \in {conn, Cleared(conn)}
  PROVE  Still(w)
<1> USE DEF TypeInv
<1>1. CASE StartTask(w)
  <2>1. UNCHANGED <<conn, sock, client>> /\ work[w].pc = "idle" /\ Workers \subseteq DOMAIN work
    BY <1>1 DEF StartTask, WorkType
  <2>2. work'[w].pc \in {"read", "write", "check"} BY <1>1, <2>1 DEF StartTask, AfterRead
  <2>3. QED BY <2>1, <2>2 DEF Still
<1>2. CASE HandleRead(w)
  <2>1. /\ UNCHANGED <<sock, client>> /\ (conn' = conn \/ conn' = [conn EXCEPT !.quiet = FALSE])
        /\ work[w].pc = "read" /\ (Leave(w) \/ Goto(w, "accept") \/ Goto(w, "recv"))
    BY <1>2 DEF HandleRead
  <2>2. work'[w].pc \in {"write", "check", "accept", "recv"} BY <2>1, Went
  <2>3. QED BY <2>1, <2>2 DEF Still, ConnType
<1>3. CASE HandleWrite(w)
  <2>1. /\ UNCHANGED <<sock, client>> /\ (conn' = conn \/ conn' = [conn EXCEPT !.quiet = FALSE])
        /\ work[w].pc = "write" /\ (Leave(w) \/ Goto(w, "send"))
    BY <1>3 DEF HandleWrite
  <2>2. work'[w].pc \in {"write", "check", "send"} BY <2>1, Went
  <2>3. QED BY <2>1, <2>2 DEF Still, ConnType
<1>4. CASE Dispatch(w)
  <2>1. UNCHANGED <<conn, sock, client>> /\ work[w].pc = "dispatch" BY <1>4 DEF Dispatch
  <2>2. work'[w].pc \in {"idle", "prepare"}
    <3>1. CASE work' = [work EXCEPT ![w] = IdleWorker] BY <3>1, Went
    <3>2. CASE GotoWith(w, "prepare", Response(work[w].arg.req, "ok")) BY <3>2, Went
    <3>3. QED BY <1>4, <3>1, <3>2 DEF Dispatch
  <2>3. QED BY <2>1, <2>2 DEF Still
<1>5. CASE PrepareResponse(w)
  <2>1. /\ UNCHANGED <<sock, client>> /\ work[w].pc = "prepare" /\ GotoWith(w, "write", <<>>)
        /\ conn' = [conn EXCEPT !.out = work[w].arg, !.offset = 0, !.state = "WRITING"]
    BY <1>5 DEF PrepareResponse
  <2>2. work'[w].pc = "write" BY <2>1, Went
  <2>3. QED BY <2>1, <2>2 DEF Still, ConnType
<1>6. CASE Send(w)
  <2>1. client' = client /\ work[w].pc = "send" BY <1>6 DEF Send
  <2>2. conn'.parser = conn.parser /\ conn'.ssl = conn.ssl /\ sock'.rx = sock.rx
    <3>1. CASE Writes(w) BY <3>1 DEF Writes, ConnType, SockType
    <3>2. QED BY <1>6, <3>1, SendCases
  <2>3. work'[w].pc \in {"sent", "close", "advance"}
    <3>1. CASE Goto(w, "sent") \/ Goto(w, "close") BY <3>1, Went
    <3>2. CASE \E n : GotoWith(w, "advance", n) BY <3>2, Went
    <3>3. QED BY <1>6, <3>1, <3>2, SendCases DEF Writes
  <2>4. QED BY <2>1, <2>2, <2>3 DEF Still
<1>7. CASE Advance(w)
  <2>1. /\ UNCHANGED <<sock, client>> /\ work[w].pc = "advance" /\ GotoWith(w, "send", <<>>)
        /\ conn' = [conn EXCEPT !.offset = Advanced(@, work[w].arg)]
    BY <1>7 DEF Advance
  <2>2. work'[w].pc = "send" BY <2>1, Went
  <2>3. QED BY <2>1, <2>2 DEF Still, ConnType
<1>8. CASE CheckAlive(w) /\ IsAlive(conn)
  <2>1. /\ UNCHANGED <<conn, sock, client>> /\ work[w].pc = "check"
        /\ work' = [work EXCEPT ![w] = IdleWorker]
    BY <1>8 DEF CheckAlive
  <2>2. work'[w].pc = "idle" BY <2>1, Went
  <2>3. QED BY <2>1, <2>2 DEF Still
<1>9. CASE FinishWrite(w) /\ conn' \in {conn, Cleared(conn)}
  <2>1. UNCHANGED <<sock, client>> /\ work[w].pc = "sent" /\ (Leave(w) \/ Goto(w, "close"))
    BY <1>9 DEF FinishWrite
  <2>2. work'[w].pc \in {"write", "check", "close"} BY <2>1, Went
  <2>3. QED BY <1>9, <2>1, <2>2 DEF Still, Cleared, ConnType
<1>10. QED BY <1>1, <1>2, <1>3, <1>4, <1>5, <1>6, <1>7, <1>8, <1>9

\* Every step keeps the order.
LEMMA InputWorker ==
  ASSUME OneWorker, TypeInv, ConnectionInv, InputInv, Steady, NEW w \in Workers, WorkerStep(w)
  PROVE  InputInv'
<1> USE DEF TypeInv
<1> SUFFICES ASSUME conn'.open, work'[w].pc # "close" PROVE Ordered(w)'
  BY DEF InputInv, OneWorker
<1>1. ASSUME Shut PROVE FALSE BY <1>1 DEF Shut
<1>2. CASE CloseInTask(w) \/ (CheckAlive(w) /\ ~IsAlive(conn))
  BY <1>1, <1>2, CloseShuts, RemoveShuts DEF CloseInTask, CheckAlive
<1>3. CASE Handshake(w)
  <2>1. work[w].pc = "accept" /\ conn.open BY <1>3 DEF Handshake, ConnType
  <2>2. QED BY <1>3, <2>1, HandshakeInput DEF InputInv
<1>4. CASE Recv(w)
  <2>1. work[w].pc = "recv" /\ conn.open BY <1>4 DEF Recv, ConnType
  <2>2. QED BY <1>4, <2>1, RecvInput DEF InputInv
<1>5. CASE FeedParser(w)
  <2>1. work[w].pc = "feed" /\ conn.open BY <1>5, FeedCases
  <2>2. QED BY <1>5, <2>1, FeedInput DEF InputInv
<1>6. CASE FinishWrite(w) /\ conn' \notin {conn, Cleared(conn)}
  <2>1. /\ client' = client /\ sock' = sock /\ work[w].pc = "sent" /\ Leave(w)
        /\ conn' = [Cleared(conn) EXCEPT !.parser = NewParser, !.state = "READING",
                                         !.dropped = @ \/ conn.parser.buffer # <<>>]
    BY <1>6 DEF FinishWrite, Reset
  <2>2. work'[w].pc \in {"write", "check"} BY <2>1, Went
  <2>3. conn'.parser = NewParser /\ conn'.ssl = conn.ssl /\ conn.open
    BY <2>1 DEF Cleared, ConnType
  <2>4. QED BY <2>1, <2>2, <2>3, ResetInput DEF InputInv
<1>7. CASE Still(w) /\ conn'.open = conn.open
  <2>1. Ordered(w) BY <1>7 DEF InputInv, Still
  <2>2. Chunk(w)' = Chunk(w) /\ Shook' = Shook BY <1>7 DEF Chunk, Shook, Still
  <2>3. QED BY <1>7, <2>1, <2>2, InputStays DEF Still
<1>8. CASE \/ StartTask(w) \/ HandleRead(w) \/ HandleWrite(w) \/ Dispatch(w) \/ PrepareResponse(w)
           \/ Send(w) \/ Advance(w) \/ (CheckAlive(w) /\ IsAlive(conn))
           \/ FinishWrite(w) /\ conn' \in {conn, Cleared(conn)}
  <2>1. Still(w) BY <1>8, WorkerStill
  <2>2. conn'.open = conn.open
    <3>1. CASE Send(w)
      <4>1. CASE Writes(w) BY <4>1 DEF Writes, ConnType
      <4>2. QED BY <3>1, <4>1, SendCases
    <3>2. CASE ~Send(w)
      BY <1>8, <3>2 DEF StartTask, HandleRead, HandleWrite, Dispatch, PrepareResponse, Advance,
                        CheckAlive, Cleared, ConnType
    <3>3. QED BY <3>1, <3>2
  <2>3. QED BY <1>7, <2>1, <2>2
<1>9. QED BY <1>2, <1>3, <1>4, <1>5, <1>6, <1>8 DEF WorkerStep

\* So do the event loop, the time and the client.
LEMMA InputOutside ==
  ASSUME TypeInv, ConnectionInv, InputInv, Steady,
         \/ HandleEvent \/ Quieten \/ CollectTimedOut \/ RemoveTimedOut \/ HangUp \/ UNCHANGED vars
         \/ Greet \/ SendUnit \/ Receive
  PROVE  InputInv'
<1> USE DEF TypeInv
<1> SUFFICES ASSUME NEW w \in Workers, conn'.open, work'[w].pc # "close" PROVE Ordered(w)'
  BY DEF InputInv
<1>1. work' = work
  BY DEF HandleEvent, Quieten, CollectTimedOut, RemoveTimedOut, HangUp, Greet, SendUnit, Receive, vars
<1>2. ASSUME Shut PROVE FALSE BY <1>2 DEF Shut
<1>3. CASE RemoveConnection BY <1>2, <1>3, RemoveShuts
<1>4. CASE ~RemoveConnection
  <2>1. conn' = conn \/ conn' = [conn EXCEPT !.quiet = TRUE]
    BY <1>4 DEF HandleEvent, Quieten, CollectTimedOut, RemoveTimedOut, HangUp, Greet, SendUnit,
                Receive, vars
  <2>2. /\ conn'.open = conn.open /\ conn'.parser = conn.parser /\ conn'.ssl = conn.ssl
    BY <2>1 DEF ConnType
  <2>3. Ordered(w) BY <1>1, <2>2 DEF InputInv
  <2>4. Chunk(w)' = Chunk(w) /\ Shook' = Shook BY <1>1, <2>2 DEF Chunk, Shook
  <2>5. CASE HandleEvent \/ Quieten \/ CollectTimedOut \/ HangUp \/ UNCHANGED vars
    <3>1. /\ client' = client
          /\ \/ sock' = sock \/ sock' = [sock EXCEPT !.armed = FALSE]
             \/ sock' = [sock EXCEPT !.fin = TRUE, !.armed = TRUE]
      BY <1>4, <2>5 DEF HandleEvent, Quieten, CollectTimedOut, HangUp, vars
    <3>2. sock'.rx = sock.rx BY <3>1 DEF SockType
    <3>3. QED BY <2>2, <2>3, <2>4, <3>1, <3>2, InputStays
  <2>6. CASE Receive
    <3>1. \/ \E n : client' = [client EXCEPT !.seen = n]
          \/ \E g : client' = [client EXCEPT !.got = g]
      BY <2>6 DEF Receive
    <3>2. client'.hs = client.hs /\ client'.req = client.req /\ client'.pos = client.pos
      BY <3>1 DEF ClientType
    <3>3. \E tx, armed : sock' = [sock EXCEPT !.tx = tx, !.armed = armed, !.noSpace = FALSE]
      BY <2>6 DEF Receive
    <3>4. sock'.rx = sock.rx BY <3>3 DEF SockType
    <3>5. QED BY <2>2, <2>3, <2>4, <3>2, <3>4, InputStays
  <2>7. CASE Greet BY <2>3, <2>7, GreetInput
  <2>8. CASE SendUnit BY <2>3, <2>8, SendUnitInput
  <2>9. QED BY <1>4, <2>5, <2>6, <2>7, <2>8 DEF RemoveTimedOut
<1>5. QED BY <1>3, <1>4

\* Every step keeps the invariant.
LEMMA InputStep ==
  ASSUME OneWorker, TypeInv, ConnectionInv, InputInv, [Next]_vars
  PROVE  InputInv'
<1>1. Steady BY ClientKept DEF TypeInv
<1>2. QED BY <1>1, InputWorker, InputOutside DEF Next

-----------------------------------------------------------------------------
(* One worker: the steps and the stream                                      *)

\* What a client is sent is a sequence of units.
LEMMA StreamTypes ==
  ASSUME TypeInv, client.got \in Seq(Wire)
  PROVE  PastHandshake(sock.tx) \in Seq(Wire) /\ Stream \in Seq(Wire) /\ sock.tx \in Seq(Wire)
<1>1. sock.tx \in Seq(Wire) BY DEF TypeInv, SockType
<1>2. PastHandshake(sock.tx) \in Seq(Wire) BY <1>1, PastConcat
<1>3. QED BY <1>1, <1>2, ConcatProperties DEF Stream

\* Lengths and responses depend on the client's script alone.
LEMMA ResponsesKept ==
  ASSUME Steady
  PROVE  /\ \A r : Kind(r)' = Kind(r)
         /\ \A r, status : Response(r, status)' = Response(r, status)
BY DEF Steady, Response, Length, Kind

\* The units of a response.
LEMMA ResponseFacts ==
  ASSUME ClientType, NEW r \in Request, NEW status \in Status
  PROVE  /\ Length(r, status) \in Nat \ {0} /\ Len(Response(r, status)) = Length(r, status)
         /\ \A i \in 1..Length(r, status) : Response(r, status)[i] = <<r, i, status>>
<1>1. PICK p \in Peers : client.script = p.script /\ client.flight = p.flight BY DEF ClientType
<1>2. /\ p.script \in Seq([body : Nat, keep : BOOLEAN, how : {"ok", "bad", "throws"},
                           size : Nat \ {0}])
      /\ ErrorLen \in Nat \ {0}
  BY ConnectionAssumption
<1>3. Kind(r).size \in Nat \ {0}
  <2>1. \A i \in 1..Len(p.script) :
          p.script[i] \in [body : Nat, keep : BOOLEAN, how : {"ok", "bad", "throws"},
                          size : Nat \ {0}]
    BY <1>2, ElementOfSeq
  <2>2. QED BY <1>1, <2>1 DEF Request, Kind
<1>4. Length(r, status) \in Nat \ {0} BY <1>2, <1>3 DEF Length
<1> DEFINE n == Length(r, status)
<1>5. n \in Nat BY <1>4
<1> HIDE DEF n
<1>6. Response(r, status) = [i \in 1..n |-> <<r, i, status>>] BY DEF Response, n
<1>7. Len(Response(r, status)) = n BY <1>5, <1>6
<1>8. QED BY <1>4, <1>6, <1>7 DEF n

\* The stream of a client that gets what it gets only gets longer.
Longer ==
  /\ client'.got \in Seq(Wire)
  /\ \A k \in 1..Len(Stream) : k \in 1..Len(Stream)' /\ Stream'[k] = Stream[k]

\* A step that leaves it alone.
LEMMA SameStream ==
  ASSUME client.got \in Seq(Wire), client'.got = client.got, sock'.tx = sock.tx
  PROVE  Stream' = Stream /\ Longer
<1>1. Stream' = Stream BY DEF Stream
<1>2. QED BY <1>1 DEF Longer

\* A step of a flight adds units of the handshake alone.
LEMMA FlightStream ==
  ASSUME TypeInv, NEW new, new \in Seq(Wire), \A i \in 1..Len(new) : new[i][1] = 0,
         client' = client, sock'.tx = sock.tx \o new
  PROVE  Stream' = Stream
<1>1. sock.tx \in Seq(Wire) BY DEF TypeInv, SockType
<1>2. PastHandshake(new) = <<>> BY PastNone
<1>3. PastHandshake(sock.tx) \in Seq(Wire) BY <1>1, PastConcat
<1>4. PastHandshake(sock.tx \o new) = PastHandshake(sock.tx) \o PastHandshake(new)
  BY <1>1, PastConcat
<1>5. PastHandshake(sock.tx) \o <<>> = PastHandshake(sock.tx) BY <1>3, ConcatEmptySeq
<1>6. QED BY <1>2, <1>4, <1>5 DEF Stream

\* The client takes the first unit of what it will receive.
LEMMA ReceiveStream ==
  ASSUME TypeInv, client.got \in Seq(Wire), Receive
  PROVE  /\ Stream' = Stream /\ client'.got \in Seq(Wire) /\ sock'.rx = sock.rx
         /\ client'.hs = client.hs /\ client'.req = client.req /\ client'.pos = client.pos
<1> USE DEF TypeInv
<1> DEFINE tx == sock.tx
           h == Head(tx)
           t == Tail(tx)
           one == <<h>>
           got == client.got
<1>1. UNCHANGED <<conn, main, work, served>> /\ tx # <<>> BY DEF Receive
<1>2. /\ tx \in Seq(Wire) /\ h \in Wire /\ t \in Seq(Wire) /\ tx = one \o t
      /\ got \in Seq(Wire)
  <2>1. tx \in Seq(Wire) /\ got \in Seq(Wire) BY DEF SockType
  <2>2. h \in Wire /\ t \in Seq(Wire) /\ tx = one \o t BY <1>1, <2>1, HeadTailProperties
  <2>3. QED BY <2>1, <2>2
<1>3. one \in Seq(Wire) /\ Len(one) = 1 /\ one[1] = h BY <1>2
<1>4. sock'.tx = t /\ sock'.rx = sock.rx
  <2>1. \E armed : sock' = [sock EXCEPT !.tx = Tail(@), !.armed = armed, !.noSpace = FALSE]
    BY DEF Receive
  <2>2. QED BY <2>1 DEF SockType
<1>5. /\ client'.hs = client.hs /\ client'.req = client.req /\ client'.pos = client.pos
      /\ client'.got = IF h[1] = 0 THEN got ELSE Append(got, h)
  <2>1. client' = IF h[1] = 0 THEN [client EXCEPT !.seen = @ + 1]
                  ELSE [client EXCEPT !.got = Append(@, h)]
    BY DEF Receive
  <2> HIDE DEF h
  <2>2. QED BY <2>1 DEF ClientType
<1> HIDE DEF tx, h, t, one
<1>6. /\ PastHandshake(tx) = PastHandshake(one) \o PastHandshake(t)
      /\ PastHandshake(one) \in Seq(Wire) /\ PastHandshake(t) \in Seq(Wire)
  BY <1>2, <1>3, PastConcat
<1>7. client'.got = got \o PastHandshake(one)
  <2>1. CASE h[1] = 0
    <3>1. PastHandshake(one) = <<>> BY <1>3, <2>1, PastNone
    <3>2. got \o <<>> = got BY <1>2, ConcatEmptySeq
    <3>3. QED BY <1>5, <2>1, <3>1, <3>2
  <2>2. CASE h[1] # 0
    <3>1. PastHandshake(one) = one BY <1>3, <2>2, PastAll
    <3> HIDE DEF got
    <3>2. Append(got, h) = got \o one BY <1>2, AppendIsConcat DEF one
    <3>3. QED BY <1>5, <2>2, <3>1, <3>2
  <2>3. QED BY <2>1, <2>2
<1>8. client'.got \in Seq(Wire) BY <1>2, <1>6, <1>7, ConcatProperties
<1>9. Stream' = Stream
  <2> DEFINE a == PastHandshake(one)
             b == PastHandshake(t)
  <2>1. a \in Seq(Wire) /\ b \in Seq(Wire) BY <1>6
  <2>2. Stream' = (got \o a) \o b
    <3>1. Stream' = client'.got \o PastHandshake(sock'.tx) BY DEF Stream
    <3> HIDE DEF got
    <3>2. QED BY <1>4, <1>7, <3>1
  <2>3. Stream = got \o (a \o b) BY <1>6 DEF Stream, tx
  <2> HIDE DEF a, b, got
  <2>4. (got \o a) \o b = got \o (a \o b) BY <1>2, <2>1, ConcatAssociative, SMTT(30)
  <2>5. QED BY <2>2, <2>3, <2>4
<1>10. QED BY <1>4, <1>5, <1>8, <1>9

\* What send or SSL_write takes comes after what has been written.
LEMMA TakenFacts ==
  ASSUME TypeInv, conn.offset + conn.flushed <= Len(conn.out)
  PROVE  /\ Fits \in 0..Len(Left) /\ Len(Left) = Len(conn.out) - (conn.offset + conn.flushed)
         /\ Take(Left, Fits) \in Seq(Wire) /\ Len(Take(Left, Fits)) = Fits
         /\ \A i \in 1..Fits :
              /\ conn.offset + conn.flushed + i \in 1..Len(conn.out)
              /\ Take(Left, Fits)[i] = conn.out[conn.offset + conn.flushed + i]
<1> USE DEF TypeInv
<1> DEFINE k == conn.offset + conn.flushed
           out == conn.out
<1>1. /\ conn.flushed \in Nat /\ conn.offset \in Nat /\ Len(out) \in Nat
      /\ Len(sock.tx) \in Nat /\ SendCap \in Nat /\ Len(sock.tx) <= SendCap
  BY ConnectionAssumption DEF SockType, ConnType
<1>2. out \in Seq(Wire)
  <2>1. ResponseUnit \subseteq Wire BY ScriptFacts DEF ResponseUnit, Wire
  <2>2. QED BY <2>1, SeqMonotonic DEF ConnType
<1>3. k \in 0..Len(out) BY <1>1
<1> HIDE DEF k, out
<1>4. /\ Drop(out, k) \in Seq(Wire) /\ Len(Drop(out, k)) = Len(out) - k
      /\ \A i \in 1..(Len(out) - k) : Drop(out, k)[i] = out[k + i]
  BY <1>2, <1>3, DropFacts
<1>5. Left = Drop(out, k) BY DEF Left, k, out
<1>6. Len(Left) \in Nat /\ Len(Left) = Len(out) - k BY <1>1, <1>3, <1>4, <1>5
<1>7. Fits \in 0..Len(Left) BY <1>1, <1>6 DEF Fits, Least
<1>8. /\ Take(Left, Fits) \in Seq(Wire) /\ Len(Take(Left, Fits)) = Fits
      /\ \A i \in 1..Fits : Take(Left, Fits)[i] = Left[i]
  <2>1. Left \in Seq(Wire) BY <1>4, <1>5
  <2>2. QED BY <1>7, <2>1, TakeFacts
<1>9. ASSUME NEW i \in 1..Fits PROVE k + i \in 1..Len(out) /\ Take(Left, Fits)[i] = out[k + i]
  <2>1. i \in 1..(Len(out) - k) /\ k + i \in 1..Len(out) BY <1>1, <1>3, <1>6, <1>7
  <2>2. Take(Left, Fits)[i] = out[k + i] BY <1>4, <1>5, <1>8, <2>1
  <2>3. QED BY <2>1, <2>2
<1>10. QED BY <1>6, <1>7, <1>8, <1>9 DEF k, out

\* What is put into the socket is what the stream grows by.
LEMMA SendStream ==
  ASSUME TypeInv, client.got \in Seq(Wire), client' = client,
         NEW w \in Workers, Writes(w)
  PROVE  /\ Stream \in Seq(Wire) /\ Take(Left, Fits) \in Seq(Wire)
         /\ Stream' = Stream \o Take(Left, Fits)
<1> USE DEF TypeInv
<1> DEFINE t == Take(Left, Fits)
           p == PastHandshake(sock.tx)
           got == client.got
           x == sock.tx
<1>1. conn.offset + conn.flushed <= Len(conn.out) BY DEF Writes
<1>2. /\ t \in Seq(Wire) /\ Len(t) = Fits
      /\ \A i \in 1..Fits :
           /\ conn.offset + conn.flushed + i \in 1..Len(conn.out)
           /\ t[i] = conn.out[conn.offset + conn.flushed + i]
  BY <1>1, TakenFacts
<1>3. sock'.tx = x \o t BY DEF Writes, SockType
<1> HIDE DEF t
<1>4. x \in Seq(Wire) /\ p \in Seq(Wire) /\ got \in Seq(Wire) /\ Stream \in Seq(Wire)
  BY StreamTypes
<1>5. \A i \in 1..Len(t) : t[i][1] # 0
  <2> SUFFICES ASSUME NEW i \in 1..Fits PROVE t[i][1] # 0 BY <1>2
  <2> DEFINE k == conn.offset + conn.flushed + i
  <2>1. k \in 1..Len(conn.out) /\ t[i] = conn.out[k] BY <1>2
  <2> HIDE DEF k
  <2>2. conn.out[k] \in ResponseUnit BY <2>1, ElementOfSeq DEF ConnType
  <2>3. QED BY <2>1, <2>2, ScriptFacts DEF ResponseUnit
<1>6. PastHandshake(t) = t BY <1>2, <1>5, PastAll
<1>7. Stream = got \o p BY DEF Stream
<1> HIDE DEF x
<1>8. PastHandshake(x \o t) = PastHandshake(x) \o PastHandshake(t) BY <1>2, <1>4, PastConcat
<1>9. Stream' = got \o (p \o t) BY <1>3, <1>6, <1>8 DEF Stream, x
<1> HIDE DEF p, got
<1>10. got \in Seq(Wire) /\ p \in Seq(Wire) /\ t \in Seq(Wire) BY <1>2, <1>4
<1>11. (got \o p) \o t = got \o (p \o t) BY <1>10, ConcatAssociative
<1>12. Stream' = Stream \o t BY <1>7, <1>9, <1>11
<1>13. QED BY <1>2, <1>4, <1>12 DEF t

\* The units of write_buffer_ that have been written, write_offset_ being behind until
\* the worker has moved it.
Written(w) == conn.offset + conn.flushed + (IF work[w].pc = "advance" THEN work[w].arg ELSE 0)

\* Either way of writing accounts for what it has taken.
LEMMA SendWritten ==
  ASSUME TypeInv, NEW w \in Workers, work[w].pc = "send", Writes(w)
  PROVE  /\ work'[w].pc \in {"sent", "advance"} /\ Written(w) = conn.offset + conn.flushed
         /\ Written(w)' = Written(w) + Fits
         /\ conn'.open = conn.open /\ conn'.state = conn.state /\ conn'.parser = conn.parser
         /\ conn'.ssl = conn.ssl /\ conn'.out = conn.out /\ conn'.offset = conn.offset
         /\ conn'.refed = conn.refed /\ conn'.dropped = conn.dropped
         /\ conn'.handled = conn.handled
<1> USE DEF TypeInv
<1>1. conn.offset \in Nat /\ conn.flushed \in Nat BY DEF ConnType
<1>2. Fits \in Nat
  <2>1. conn.offset + conn.flushed <= Len(conn.out) BY DEF Writes
  <2>2. Fits \in 0..Len(Left) /\ Len(Left) = Len(conn.out) - (conn.offset + conn.flushed)
    BY <2>1, TakenFacts
  <2>3. Len(conn.out) \in Nat BY DEF ConnType
  <2>4. QED BY <1>1, <2>2, <2>3
<1>3. Written(w) = conn.offset + conn.flushed BY <1>1 DEF Written
<1>4. /\ conn'.open = conn.open /\ conn'.state = conn.state /\ conn'.parser = conn.parser
      /\ conn'.ssl = conn.ssl /\ conn'.out = conn.out /\ conn'.offset = conn.offset
      /\ conn'.refed = conn.refed /\ conn'.dropped = conn.dropped /\ conn'.handled = conn.handled
  BY DEF Writes, ConnType
<1>5. work'[w].pc \in {"sent", "advance"} /\ Written(w)' = conn.offset + conn.flushed + Fits
  <2>1. CASE conn.ssl = "none"
    <3>1. conn.flushed = 0 /\ conn' = conn BY <2>1 DEF Writes, ConnType
    <3>2. CASE Fits = 0
      <4>1. work'[w].pc = "sent" BY <2>1, <3>2, Went DEF Writes
      <4>2. QED BY <1>1, <3>1, <3>2, <4>1 DEF Written
    <3>3. CASE Fits # 0
      <4>1. work'[w].pc = "advance" /\ work'[w].arg = Fits BY <2>1, <3>3, Went DEF Writes
      <4>2. QED BY <1>1, <1>2, <3>1, <4>1 DEF Written
    <3>4. QED BY <3>2, <3>3
  <2>2. CASE conn.ssl # "none"
    <3>1. CASE Fits < Len(Left)
      <4>1. work'[w].pc = "sent" BY <2>2, <3>1, Went DEF Writes
      <4>2. conn' = [conn EXCEPT !.flushed = @ + Fits] BY <2>2, <3>1 DEF Writes
      <4>3. conn'.flushed = conn.flushed + Fits BY <4>2 DEF ConnType
      <4>4. QED BY <1>1, <1>2, <1>4, <4>1, <4>3 DEF Written
    <3>2. CASE ~(Fits < Len(Left))
      <4>1. work'[w].pc = "advance" /\ work'[w].arg = conn.flushed + Fits
        BY <2>2, <3>2, Went DEF Writes
      <4>2. conn' = [conn EXCEPT !.flushed = 0] BY <2>2, <3>2 DEF Writes
      <4>3. conn'.flushed = 0 BY <4>2 DEF ConnType
      <4>4. QED BY <1>1, <1>2, <1>4, <4>1, <4>3 DEF Written
    <3>3. QED BY <3>1, <3>2
  <2>3. QED BY <2>1, <2>2
<1>6. QED BY <1>3, <1>4, <1>5

\* One flight of the handshake.
LEMMA HandshakeStream ==
  ASSUME TypeInv, client.got \in Seq(Wire), NEW w \in Workers, Handshake(w)
  PROVE  Stream' = Stream
<1> USE DEF TypeInv
<1>1. client' = client BY DEF Handshake
<1>2. CASE sock'.tx = sock.tx BY <1>1, <1>2, SameStream
<1>3. CASE conn.open /\ conn.ssl = "flight"
  <2> DEFINE m == client.flight - conn.flushed
             n == Least(m, SendCap - Len(sock.tx))
             new == [i \in 1..n |-> <<0, i, "flight">>]
  <2>1. sock' = [sock EXCEPT !.tx = @ \o new, !.noSpace = n < m] BY <1>3 DEF Handshake
  <2>2. n \in Int
    <3>1. Len(sock.tx) \in Nat /\ client.flight \in Nat /\ SendCap \in Nat /\ conn.flushed \in Nat
      BY ScriptFacts, ConnectionAssumption DEF SockType, ConnType
    <3>2. QED BY <3>1 DEF Least
  <2> HIDE DEF m, n
  <2>3. new \in Seq(Wire) /\ \A i \in 1..Len(new) : new[i][1] = 0
    <3>1. CASE n >= 0
      <4>1. \A i \in 1..n : <<0, i, "flight">> \in Wire BY <2>2, <3>1 DEF Wire
      <4>2. new \in Seq(Wire) /\ Len(new) = n BY <2>2, <3>1, <4>1
      <4>3. QED BY <4>2
    <3>2. CASE ~(n >= 0)
      <4>1. 1..n = {} BY <2>2, <3>2
      <4>2. new = <<>> BY <4>1
      <4> HIDE DEF new
      <4>3. new \in Seq(Wire) /\ Len(new) = 0 BY <4>2, EmptySeq
      <4>4. QED BY <4>3
    <3>3. QED BY <2>2, <3>1, <3>2
  <2> HIDE DEF new
  <2>4. sock'.tx = sock.tx \o new BY <2>1 DEF SockType
  <2>5. QED BY <1>1, <2>3, <2>4, FlightStream
<1>4. CASE ~(conn.open /\ conn.ssl = "flight")
  <2>1. sock' = sock \/ sock' = [sock EXCEPT !.rx = Tail(@)] BY <1>4 DEF Handshake
  <2>2. sock'.tx = sock.tx BY <2>1 DEF SockType
  <2>3. QED BY <1>2, <2>2
<1>5. QED BY <1>3, <1>4

\* The places where a worker has nothing in its hands that matters here.
Quiet == {"idle", "read", "accept", "recv", "write", "check"}
Sending == {"send", "sent"}

\* A worker stays where it is, or goes from one such place to another.
Moves(w) ==
  \/ work'[w].pc = work[w].pc /\ work'[w].arg = work[w].arg
  \/ /\ work[w].pc \in Quiet \cup Sending
     /\ work'[w].pc \in Quiet \/ (conn.state = "WRITING" /\ work'[w].pc \in Sending)

\* The steps that leave the Connection, the socket and the client as they are, but for
\* what matters to time-outs and to epoll.
Resting ==
  /\ client' = client /\ sock'.rx = sock.rx /\ sock'.tx = sock.tx /\ (sock.fin => sock'.fin)
  /\ conn'.open = conn.open /\ conn'.state = conn.state /\ conn'.parser = conn.parser
  /\ conn'.ssl = conn.ssl /\ conn'.flushed = conn.flushed /\ conn'.out = conn.out
  /\ conn'.offset = conn.offset /\ conn'.refed = conn.refed /\ conn'.dropped = conn.dropped
  /\ conn'.handled = conn.handled
  /\ \A w \in Workers : Moves(w)

\* What such a step of the only worker asks of the rest.
LEMMA WorkerRests ==
  ASSUME OneWorker, NEW w \in Workers, Moves(w)
  PROVE  \A v \in Workers : Moves(v)
BY DEF OneWorker

\* A worker that takes a task, begins to read or to write, or finds the Connection alive.
LEMMA ResumingRests ==
  ASSUME TypeInv, OneWorker, NEW w \in Workers,
         \/ StartTask(w) \/ HandleRead(w) \/ HandleWrite(w)
         \/ CheckAlive(w) /\ IsAlive(conn)
  PROVE  Resting
<1> USE DEF TypeInv
<1>1. sock' = sock /\ client' = client
  BY DEF StartTask, HandleRead, HandleWrite, CheckAlive
<1>2. conn' = conn \/ conn' = [conn EXCEPT !.quiet = FALSE]
  BY DEF StartTask, HandleRead, HandleWrite, CheckAlive
<1>3. Moves(w)
  <2>1. CASE StartTask(w)
    <3>1. work[w].pc = "idle" /\ Workers \subseteq DOMAIN work BY <2>1 DEF StartTask, WorkType
    <3>2. work'[w].pc \in {"read", "write", "check"} BY <2>1, <3>1 DEF StartTask, AfterRead
    <3>3. QED BY <3>1, <3>2 DEF Moves, Quiet
  <2>2. CASE HandleRead(w)
    <3>1. work[w].pc = "read" /\ (Leave(w) \/ Goto(w, "recv") \/ Goto(w, "accept"))
      BY <2>2 DEF HandleRead
    <3>2. work'[w].pc \in {"write", "check", "recv", "accept"} BY <3>1, Went
    <3>3. QED BY <3>1, <3>2 DEF Moves, Quiet
  <2>3. CASE HandleWrite(w)
    <3>1. work[w].pc = "write" /\ (Leave(w) \/ (conn.state = "WRITING" /\ Goto(w, "send")))
      BY <2>3 DEF HandleWrite
    <3>2. \/ work'[w].pc \in {"write", "check"}
          \/ conn.state = "WRITING" /\ work'[w].pc = "send"
      BY <3>1, Went
    <3>3. QED BY <3>1, <3>2 DEF Moves, Quiet, Sending
  <2>4. CASE CheckAlive(w)
    <3>1. work[w].pc = "check" /\ work' = [work EXCEPT ![w] = IdleWorker]
      BY <2>4 DEF CheckAlive
    <3>2. work'[w].pc = "idle" BY <3>1, Went
    <3>3. QED BY <3>1, <3>2 DEF Moves, Quiet
  <2>5. QED BY <2>1, <2>2, <2>3, <2>4
<1>4. QED BY <1>1, <1>2, <1>3, WorkerRests DEF Resting, ConnType

\* The event loop, the time and a client that hangs up: the event loop removes the
\* Connection at that, or after a time-out.
LEMMA EventLoopRests ==
  ASSUME TypeInv, ConnectionInv,
         HandleEvent \/ Quieten \/ CollectTimedOut \/ RemoveTimedOut \/ HangUp \/ UNCHANGED vars
  PROVE  /\ client' = client
         /\ Resting \/ (Shut /\ (sock.fin \/ main.timedOut))
<1> USE DEF TypeInv
<1>1. client' = client /\ work' = work
  BY DEF HandleEvent, Quieten, CollectTimedOut, RemoveTimedOut, HangUp, vars
<1>2. \A w \in Workers : Moves(w) BY <1>1 DEF Moves
<1>3. CASE RemoveConnection /\ (sock.fin \/ main.timedOut) BY <1>1, <1>3, RemoveShuts
<1>4. CASE /\ conn' = conn \/ conn' = [conn EXCEPT !.quiet = TRUE]
           /\ \/ sock' = sock \/ sock' = [sock EXCEPT !.armed = FALSE]
              \/ sock' = [sock EXCEPT !.fin = TRUE, !.armed = TRUE]
  BY <1>1, <1>2, <1>4 DEF Resting, ConnType, SockType
<1>5. "RDHUP" \in Ready => sock.fin BY DEF Ready
<1>6. QED
  BY <1>3, <1>4, <1>5 DEF HandleEvent, Quieten, CollectTimedOut, RemoveTimedOut, HangUp, vars

-----------------------------------------------------------------------------
(* One worker: the stream is made of whole responses                         *)

Due(r) == DueIn(client.script, conn.dropped, Stream, r)
Reached(r, status, m) == ReachedIn(client.script, conn.dropped, Stream, r, status, m)

\* A Connection that reads is about to see the request whose response is due, or is in
\* the body of that one, or is to refuse it.
AtHead(w) ==
  /\ conn.parser.stage = "head" /\ Due(Input(w)[1][1])
  /\ conn.dropped \/ Input(w)[1][2] = 0
InBody == conn.parser.stage = "body" /\ Due(conn.parser.req)
Refusing(w) ==
  /\ conn.parser.stage \in {"body", "error"}
  /\ \E r \in Request, status \in {"400", "413"} :
       work[w].arg = Response(r, status) /\ Due(r)
Reading(w) ==
  /\ conn.ssl # "flight" => conn.flushed = 0
  /\ work[w].pc \notin {"dispatch", "send", "advance", "sent"}
  /\ IF work[w].pc = "prepare" THEN Refusing(w) ELSE AtHead(w) \/ InBody

\* A request that is handled is the one whose response is due.
Processing(w) ==
  /\ conn.parser.stage = "complete" /\ conn.flushed = 0 /\ Due(conn.parser.req)
  /\ work[w].pc = "dispatch" => work[w].arg.req = conn.parser.req
  /\ work[w].pc = "prepare" => work[w].arg = Response(conn.parser.req, "ok")
  /\ work[w].pc \notin {"send", "advance", "sent"}

\* The stream has as much of the response as has been written.
Writing(w) ==
  /\ work[w].pc \notin {"dispatch", "prepare"} /\ conn.parser.stage # "head"
  /\ \E r \in Request, status \in Status :
       /\ conn.out = Response(r, status) /\ Written(w) <= Len(conn.out)
       /\ Reached(r, status, Written(w))
       /\ conn.parser.stage = "complete" => status = "ok" /\ conn.parser.req = r

Progress(w) ==
  /\ conn.state = "READING" => Reading(w)
  /\ conn.state = "PROCESSING" => Processing(w)
  /\ conn.state = "WRITING" => Writing(w)

StreamInv ==
  /\ client.got \in Seq(Wire)
  /\ \/ conn.refed
     \/ /\ Whole(Stream)
        /\ \A w \in Workers : conn.open /\ work[w].pc # "close" => Progress(w)

\* A step that leaves the first unit to be seen and the stream alone.
LEMMA ProgressKept ==
  ASSUME NEW w \in Workers, Progress(w), Steady, Stream' = Stream,
         Moves(w) \/ (work[w].pc = "recv" /\ work'[w].pc = "feed"),
         conn'.state = conn.state, conn'.dropped = conn.dropped, conn'.out = conn.out,
         conn'.offset = conn.offset, conn'.parser = conn.parser,
         \/ conn'.flushed = conn.flushed /\ conn'.ssl = conn.ssl
         \/ conn.state = "READING" /\ (conn'.ssl # "flight" => conn'.flushed = 0),
         Input(w)'[1] = Input(w)[1]
  PROVE  Progress(w)'
<1>1. /\ \A r : Kind(r)' = Kind(r) /\ Request' = Request
      /\ \A r, status : Response(r, status)' = Response(r, status)
  BY ResponsesKept DEF Steady
<1>2. /\ \A r : Due(r)' = Due(r)
      /\ \A r, status, m : Reached(r, status, m)' = Reached(r, status, m)
  BY DEF Due, Reached, Steady
<1>3. conn.state = "READING" => Reading(w)'
  <2> SUFFICES ASSUME conn.state = "READING" PROVE Reading(w)' OBVIOUS
  <2>1. Reading(w) BY DEF Progress
  <2>2. conn'.ssl # "flight" => conn'.flushed = 0 BY <2>1 DEF Reading
  <2>3. work'[w].pc \notin {"dispatch", "send", "advance", "sent"}
    BY <2>1 DEF Reading, Moves, Quiet, Sending
  <2>4. CASE work[w].pc = "prepare"
    <3>1. work'[w].pc = work[w].pc /\ work'[w].arg = work[w].arg
      BY <2>4 DEF Moves, Quiet, Sending
    <3>2. Refusing(w) BY <2>1, <2>4 DEF Reading
    <3>3. Refusing(w)' BY <1>1, <1>2, <3>1, <3>2 DEF Refusing
    <3>4. QED BY <2>2, <2>3, <2>4, <3>1, <3>3 DEF Reading
  <2>5. CASE work[w].pc # "prepare"
    <3>1. work'[w].pc # "prepare" BY <2>5 DEF Moves, Quiet
    <3>2. AtHead(w) \/ InBody BY <2>1, <2>5 DEF Reading
    <3>3. AtHead(w) => AtHead(w)' BY <1>2 DEF AtHead
    <3>4. InBody => InBody' BY <1>2 DEF InBody
    <3>5. QED BY <2>2, <2>3, <3>1, <3>2, <3>3, <3>4 DEF Reading
  <2>6. QED BY <2>4, <2>5
<1>4. conn.state = "PROCESSING" => Processing(w)'
  <2> SUFFICES ASSUME conn.state = "PROCESSING" PROVE Processing(w)' OBVIOUS
  <2>1. Processing(w) BY DEF Progress
  <2>2. /\ work'[w].pc = "dispatch" => work[w].pc = "dispatch" /\ work'[w].arg = work[w].arg
        /\ work'[w].pc = "prepare" => work[w].pc = "prepare" /\ work'[w].arg = work[w].arg
        /\ work'[w].pc \notin {"send", "advance", "sent"}
    BY <2>1 DEF Processing, Moves, Quiet, Sending
  <2>3. QED BY <1>1, <1>2, <2>1, <2>2 DEF Processing
<1>5. conn.state = "WRITING" => Writing(w)'
  <2> SUFFICES ASSUME conn.state = "WRITING" PROVE Writing(w)' OBVIOUS
  <2>1. Writing(w) BY DEF Progress
  <2>2. /\ work'[w].pc \notin {"dispatch", "prepare"}
        /\ work'[w].pc = "advance" => work[w].pc = "advance" /\ work'[w].arg = work[w].arg
        /\ work[w].pc = "advance" => work'[w].pc = "advance"
    BY <2>1 DEF Writing, Moves, Quiet, Sending
  <2>3. Written(w)' = Written(w) BY <2>2 DEF Written
  <2>4. PICK r \in Request, status \in Status :
          /\ conn.out = Response(r, status) /\ Written(w) <= Len(conn.out)
          /\ Reached(r, status, Written(w))
          /\ conn.parser.stage = "complete" =>
               status = "ok" /\ conn.parser.req = r
    BY <2>1 DEF Writing
  <2>5. Reached(r, status, Written(w))' BY <2>3, <2>4 DEF Reached, Steady
  <2>6. conn'.out = Response(r, status)' BY <1>1, <2>4
  <2>7. QED BY <1>1, <2>1, <2>2, <2>3, <2>4, <2>5, <2>6 DEF Writing
<1>6. QED BY <1>3, <1>4, <1>5 DEF Progress

\* The history only grows.
Grows == (conn.refed => conn'.refed) /\ (conn.dropped => conn'.dropped)

\* A step that leaves the stream alone keeps the invariant where it keeps the progress.
LEMMA StreamKept ==
  ASSUME StreamInv, Steady, Grows, client'.got \in Seq(Wire), Stream' = Stream,
         ~conn.refed /\ ~conn'.refed =>
           \A w \in Workers : conn'.open /\ work'[w].pc # "close" => Progress(w)'
  PROVE  StreamInv'
<1>1. CASE conn.refed \/ conn'.refed
  <2>1. conn'.refed BY <1>1 DEF Grows
  <2>2. QED BY <2>1 DEF StreamInv
<1>2. CASE ~conn.refed /\ ~conn'.refed
  <2>1. Whole(Stream) BY <1>2 DEF StreamInv
  <2>2. WholeIn(client.script, conn.dropped, Stream) BY <2>1, WholeFacts
  <2>3. WholeIn(client.script, conn'.dropped, Stream) BY <2>2, DroppedPermits DEF Grows
  <2>4. WholeIn(client'.script, conn'.dropped, Stream') BY <2>3 DEF Steady
  <2>5. Whole(Stream)'
    BY <2>4 DEF Whole, WholeIn, Follows, FollowsIn, Length, LengthIn, Kind
  <2>6. QED BY <1>2, <2>5 DEF StreamInv
<1>3. QED BY <1>1, <1>2

\* So does one that closes the Connection, though what it had still to send may be lost.
LEMMA ClosingKeeps ==
  ASSUME TypeInv, StreamInv, Steady, Grows, client' = client, conn'.open = FALSE,
         conn'.dropped = conn.dropped, sock'.tx \in {sock.tx, <<>>}
  PROVE  StreamInv'
<1>1. client'.got \in Seq(Wire) /\ client'.got = client.got BY DEF StreamInv
<1>2. CASE sock'.tx = sock.tx
  <2>1. Stream' = Stream BY <1>1, <1>2 DEF Stream
  <2>2. QED BY <1>1, <2>1, StreamKept
<1>3. CASE sock'.tx = <<>>
  <2>1. Stream' = client.got
    <3>1. PastHandshake(<<>>) = <<>>
      <4> DEFINE e == <<>>
      <4>1. e \in Seq(Wire) /\ Len(e) = 0 BY EmptySeq
      <4> HIDE DEF e
      <4>2. \A i \in 1..Len(e) : e[i][1] = 0 BY <4>1
      <4>3. PastHandshake(e) = <<>> BY <4>1, <4>2, PastNone
      <4>4. QED BY <4>3 DEF e
    <3>2. Stream' = client.got \o <<>> BY <1>1, <1>3, <3>1 DEF Stream
    <3>3. client.got \in Seq(Wire) BY <1>1
    <3>4. QED BY <3>2, <3>3, ConcatEmptySeq
  <2>2. CASE conn.refed
    <3>1. conn'.refed BY <2>2 DEF Grows
    <3>2. QED BY <1>1, <3>1 DEF StreamInv
  <2>3. CASE ~conn.refed
    <3>1. Whole(Stream) BY <2>3 DEF StreamInv
    <3>2. WholeIn(client.script, conn.dropped, Stream) BY <3>1, WholeFacts
    <3>3. PastHandshake(sock.tx) \in Seq(Wire) BY <1>1, StreamTypes
    <3>4. WholeIn(client.script, conn.dropped, client.got \o PastHandshake(sock.tx))
      BY <3>2 DEF Stream
    <3>5. WholeIn(client.script, conn.dropped, client.got) BY <1>1, <3>3, <3>4, BeginningWhole
    <3>6. WholeIn(client'.script, conn'.dropped, Stream') BY <2>1, <3>5 DEF Steady
    <3>7. Whole(Stream)'
      BY <3>6 DEF Whole, WholeIn, Follows, FollowsIn, Length, LengthIn, Kind
    <3>8. \A w \in Workers : conn'.open /\ work'[w].pc # "close" => Progress(w)' OBVIOUS
    <3>9. QED BY <1>1, <3>7, <3>8 DEF StreamInv
  <2>4. QED BY <2>2, <2>3
<1>4. QED BY <1>2, <1>3

\* Either keeps the invariant.
LEMMA ShutKeeps ==
  ASSUME TypeInv, StreamInv, Steady, client' = client, Shut
  PROVE  StreamInv'
<1>1. Grows BY DEF Shut, Grows
<1>2. QED BY <1>1, ClosingKeeps DEF Shut

\* Either way it keeps what it has in its hands for the parser, and takes up no response.
LEMMA MovesChunk ==
  ASSUME NEW w \in Workers, Moves(w)
  PROVE  /\ Chunk(w)' = Chunk(w) /\ (work'[w].pc = "prepare" => work[w].pc = "prepare")
BY DEF Moves, Chunk, Quiet, Sending

\* They keep the invariant.
LEMMA RestingKeeps ==
  ASSUME StreamInv, Steady, Resting
  PROVE  StreamInv'
<1>1. Stream' = Stream BY DEF Resting, Stream
<1>2. Grows BY DEF Resting, Grows
<1>3. client'.got \in Seq(Wire) BY DEF StreamInv, Resting
<1>4. ASSUME ~conn.refed, NEW w \in Workers, conn'.open, work'[w].pc # "close"
      PROVE  Progress(w)'
  <2>1. Moves(w) BY DEF Resting
  <2>2. work[w].pc # "close" BY <1>4, <2>1 DEF Moves, Quiet, Sending
  <2>3. Progress(w) BY <1>4, <2>2 DEF StreamInv, Resting
  <2>4. Chunk(w)' = Chunk(w) BY <2>1, MovesChunk
  <2>5. Shook' = Shook BY DEF Resting, Shook
  <2>6. Input(w)' = Input(w) BY <2>4, <2>5, InputKept DEF Resting
  <2>7. QED BY <1>1, <2>1, <2>3, <2>6, ProgressKept DEF Resting
<1>5. QED BY <1>1, <1>2, <1>3, <1>4, StreamKept

\* A worker that closes the Connection, or finds it closed.
LEMMA RemovalKeeps ==
  ASSUME TypeInv, ConnectionInv, StreamInv, Steady, NEW w \in Workers,
         CloseInTask(w) \/ (CheckAlive(w) /\ ~IsAlive(conn))
  PROVE  StreamInv'
<1>1. client' = client BY DEF CloseInTask, CheckAlive
<1>2. CloseConnection \/ RemoveConnection BY DEF CloseInTask, CheckAlive
<1>3. QED BY <1>1, <1>2, CloseShuts, RemoveShuts, ShutKeeps

\* The event loop and the time.
LEMMA EventLoopKeeps ==
  ASSUME TypeInv, ConnectionInv, StreamInv, Steady,
         HandleEvent \/ Quieten \/ CollectTimedOut \/ RemoveTimedOut \/ HangUp \/ UNCHANGED vars
  PROVE  StreamInv'
BY EventLoopRests, RestingKeeps, ShutKeeps

\* The client adds to what is to be seen, or takes from what it has been sent.
LEMMA ClientKeeps ==
  ASSUME TypeInv, InputInv, StreamInv, Steady, Greet \/ SendUnit \/ Receive
  PROVE  StreamInv'
<1> USE DEF TypeInv
<1>1. UNCHANGED <<conn, work>> BY DEF Greet, SendUnit, Receive
<1>2. client.got \in Seq(Wire) /\ Grows BY <1>1 DEF StreamInv, Grows
<1>3. Stream' = Stream /\ client'.got \in Seq(Wire)
  <2>1. CASE Receive BY <1>2, <2>1, ReceiveStream
  <2>2. CASE Greet \/ SendUnit
    <3>1. \/ client' = [client EXCEPT !.hs = "hello"] \/ client' = [client EXCEPT !.hs = "done"]
          \/ client' = [client EXCEPT !.pos = @ + 1]
          \/ client' = [client EXCEPT !.pos = 0, !.req = @ + 1]
      BY <2>2 DEF Greet, SendUnit
    <3>2. client'.got = client.got BY <3>1 DEF ClientType
    <3>3. \E u : sock' = [sock EXCEPT !.rx = Append(@, u), !.armed = TRUE]
      BY <2>2 DEF Greet, SendUnit
    <3>4. sock'.tx = sock.tx BY <3>3 DEF SockType
    <3>5. QED BY <1>2, <3>2, <3>4, SameStream
  <2>3. QED BY <2>1, <2>2
<1>4. ASSUME ~conn.refed, NEW w \in Workers, conn'.open, work'[w].pc # "close"
      PROVE  Progress(w)'
  <2>1. Progress(w) /\ Ordered(w) BY <1>1, <1>4 DEF StreamInv, InputInv
  <2>2. Input(w)'[1] = Input(w)[1]
    <3>1. CASE Receive
      <4>1. /\ sock'.rx = sock.rx /\ client'.hs = client.hs
            /\ client'.req = client.req /\ client'.pos = client.pos
        BY <1>2, <3>1, ReceiveStream
      <4>2. Chunk(w)' = Chunk(w) /\ Shook' = Shook BY <1>1 DEF Chunk, Shook
      <4>3. Input(w)' = Input(w) BY <1>1, <4>1, <4>2, InputKept
      <4>4. QED BY <4>3
    <3>2. CASE Greet
      <4>1. Input(w)' = Input(w) BY <2>1, <3>2, GreetInput
      <4>2. QED BY <4>1
    <3>3. CASE SendUnit BY <2>1, <3>3, SendUnitInput
    <3>4. QED BY <3>1, <3>2, <3>3
  <2>3. Moves(w) BY <1>1 DEF Moves
  <2>4. QED BY <1>1, <1>3, <2>1, <2>2, <2>3, ProgressKept
<1>5. QED BY <1>2, <1>3, <1>4, StreamKept

\* A worker that is about to close.
LEMMA ToCloseKeeps ==
  ASSUME StreamInv, Steady, OneWorker, NEW w \in Workers, work'[w].pc = "close", Grows,
         client'.got = client.got, sock'.tx = sock.tx
  PROVE  StreamInv'
<1>1. Stream' = Stream /\ client'.got \in Seq(Wire) BY DEF Stream, StreamInv
<1>2. \A v \in Workers : work'[v].pc = "close" BY DEF OneWorker
<1>3. QED BY <1>1, <1>2, StreamKept

\* One flight of the handshake.
LEMMA HandshakeKeeps ==
  ASSUME TypeInv, ConnectionInv, GreetingInv, InputInv, StreamInv, Steady, OneWorker,
         NEW w \in Workers, Handshake(w)
  PROVE  StreamInv'
<1> USE DEF TypeInv
<1>1. client' = client /\ work[w].pc = "accept" BY DEF Handshake
<1>2. client.got \in Seq(Wire) /\ client'.got = client.got BY <1>1 DEF StreamInv
<1>3. Stream' = Stream BY <1>2, HandshakeStream
<1>4. /\ conn'.open = conn.open /\ conn'.state = conn.state /\ conn'.parser = conn.parser
      /\ conn'.out = conn.out /\ conn'.offset = conn.offset /\ conn'.refed = conn.refed
      /\ conn'.dropped = conn.dropped
      /\ \/ conn'.ssl = conn.ssl /\ conn'.flushed = conn.flushed
         \/ conn.ssl = "flight" /\ conn'.ssl = "flight"
         \/ conn.ssl = "flight" /\ conn'.flushed = 0
         \/ conn.ssl # "flight" /\ conn'.flushed = conn.flushed
      /\ NextFlight(w) \/ Goto(w, "close") \/ Leave(w) \/ Goto(w, "recv")
  <2>1. CASE UNCHANGED <<conn, sock>> BY <2>1 DEF Handshake
  <2>2. CASE conn.open /\ conn.ssl = "flight"
    <3>1. \/ conn' = [conn EXCEPT !.ssl = "finish", !.flushed = 0] /\ NextFlight(w)
          \/ \E n : conn' = [conn EXCEPT !.flushed = @ + n, !.wantWrite = TRUE] /\ Leave(w)
      BY <2>2 DEF Handshake
    <3>2. QED BY <2>2, <3>1 DEF ConnType
  <2>3. CASE conn.open /\ conn.ssl # "flight" /\ sock.rx # <<>>
    <3>1. \/ conn' = conn /\ Goto(w, "close")
          \/ conn' = [conn EXCEPT !.ssl = "flight"] /\ NextFlight(w)
          \/ conn' = [conn EXCEPT !.ssl = "done", !.quiet = FALSE] /\ Goto(w, "recv")
      BY <2>3 DEF Handshake
    <3>2. QED BY <2>3, <3>1 DEF ConnType
  <2>4. QED BY <2>1, <2>2, <2>3 DEF Handshake
<1>5. Grows BY <1>4 DEF Grows
<1>6. ASSUME ~conn.refed, NEW v \in Workers, conn'.open, work'[v].pc # "close"
      PROVE  Progress(v)'
  <2>1. v = w BY DEF OneWorker
  <2>2. Progress(w) /\ Ordered(w) BY <1>1, <1>4, <1>6 DEF StreamInv, InputInv
  <2>3. Input(w)' = Input(w) BY <1>6, <2>1, <2>2, HandshakeInput
  <2>4. Moves(w)
    <3>1. CASE NextFlight(w) BY <3>1 DEF NextFlight, Moves
    <3>2. CASE ~NextFlight(w)
      <4>1. work'[w].pc \in {"write", "check", "recv"} BY <1>4, <1>6, <2>1, <3>2, Went
      <4>2. QED BY <1>1, <4>1 DEF Moves, Quiet
    <3>3. QED BY <3>1, <3>2
  <2>5. conn.state = "READING"
    <3>1. ~Shaken(conn) BY <1>1 DEF WorkType, WorkOf
    <3>2. conn.state \in {"READING", "CLOSED"} BY <3>1 DEF GreetingInv
    <3>3. conn.state # "CLOSED" BY <1>4, <1>6 DEF ConnectionInv, ClosedInv
    <3>4. QED BY <3>2, <3>3
  <2>6. conn'.ssl # "flight" => conn'.flushed = 0
    BY <1>4, <2>2, <2>5 DEF Progress, Reading
  <2>7. Progress(w)' BY <1>3, <1>4, <2>2, <2>3, <2>4, <2>5, <2>6, ProgressKept
  <2>8. QED BY <2>1, <2>7
<1>7. QED BY <1>2, <1>3, <1>5, <1>6, StreamKept

\* What is received goes from the socket to the parser.
LEMMA RecvKeeps ==
  ASSUME TypeInv, InputInv, StreamInv, Steady, OneWorker, NEW w \in Workers, Recv(w)
  PROVE  StreamInv'
<1> USE DEF TypeInv
<1>1. /\ client' = client /\ work[w].pc = "recv" /\ conn' = [conn EXCEPT !.unread = FALSE]
      /\ sock' = sock \/ \E n : sock' = [sock EXCEPT !.rx = Drop(@, n)]
      /\ Goto(w, "close") \/ Leave(w) \/ \E arg : GotoWith(w, "feed", arg)
  BY DEF Recv
<1>2. /\ conn'.open = conn.open /\ conn'.state = conn.state /\ conn'.parser = conn.parser
      /\ conn'.ssl = conn.ssl /\ conn'.flushed = conn.flushed /\ conn'.out = conn.out
      /\ conn'.offset = conn.offset /\ conn'.refed = conn.refed
      /\ conn'.dropped = conn.dropped
  BY <1>1 DEF ConnType
<1>3. sock'.tx = sock.tx BY <1>1 DEF SockType
<1>4. client.got \in Seq(Wire) BY DEF StreamInv
<1>5. Stream' = Stream /\ client'.got \in Seq(Wire) /\ Grows
  BY <1>1, <1>2, <1>3, <1>4, SameStream DEF Grows
<1>6. ASSUME ~conn.refed, NEW v \in Workers, conn'.open, work'[v].pc # "close"
      PROVE  Progress(v)'
  <2>1. v = w BY DEF OneWorker
  <2>2. Progress(w) /\ Ordered(w) BY <1>1, <1>2, <1>6 DEF StreamInv, InputInv
  <2>3. Input(w)' = Input(w) BY <1>6, <2>1, <2>2, RecvInput
  <2>4. Moves(w) \/ work'[w].pc = "feed"
    <3>1. CASE Leave(w)
      <4>1. work'[w].pc \in {"write", "check"} BY <3>1, Went
      <4>2. QED BY <1>1, <4>1 DEF Moves, Quiet
    <3>2. CASE \E arg : GotoWith(w, "feed", arg) BY <3>2, Went
    <3>3. QED BY <1>1, <1>6, <2>1, <3>1, <3>2, Went
  <2>5. Progress(w)' BY <1>1, <1>2, <1>5, <2>2, <2>3, <2>4, ProgressKept
  <2>6. QED BY <2>1, <2>5
<1>7. QED BY <1>5, <1>6, StreamKept

\* What feed takes is off the input, and its result decides how the Connection goes on.
LEMMA FeedKeeps ==
  ASSUME TypeInv, ConnectionInv, InputInv, StreamInv, Steady, OneWorker,
         NEW w \in Workers, FeedParser(w)
  PROVE  StreamInv'
<1> USE DEF TypeInv
<1> DEFINE q == conn'.parser
<1>1. /\ sock' = sock /\ client' = client /\ work[w].pc = "feed"
      /\ conn'.open = conn.open /\ conn'.ssl = conn.ssl /\ conn'.flushed = conn.flushed
      /\ conn'.out = conn.out /\ conn'.offset = conn.offset /\ conn'.dropped = conn.dropped
      /\ q \in {Fed(w).parser} /\ q.req \in Request
      /\ Fed(w).result = "ERROR" => q.stage = "error"
      /\ Fed(w).result = "COMPLETE" => q.stage = "complete"
      /\ Fed(w).result = "NEED_MORE_DATA" => q.stage = "body"
      /\ Refuses(w) \/ Accepts(w) \/ GoesOn(w)
  BY FeedCases
<1> HIDE DEF q
<1>2. client.got \in Seq(Wire) BY DEF StreamInv
<1>3. Stream' = Stream /\ client'.got \in Seq(Wire) BY <1>1, <1>2, SameStream
<1>4. Grows BY <1>1 DEF Grows, Refuses, Accepts, GoesOn
<1>5. \A s : Due(s)' = Due(s) BY <1>1, <1>3 DEF Due, Steady
<1>6. Request' = Request /\ \A s, status : Response(s, status)' = Response(s, status)
  BY ResponsesKept DEF Steady
<1>7. ASSUME ~conn.refed, ~conn'.refed, conn'.open PROVE Progress(w)'
  <2>1. Progress(w) /\ Ordered(w) BY <1>1, <1>7 DEF StreamInv, InputInv
  <2>2. q.req = (IF conn.parser.stage = "head" THEN Input(w)[1][1] ELSE conn.parser.req)
    BY <2>1, FeedInput DEF q
  <2>3. conn.state # "CLOSED" BY <1>1, <1>7 DEF ConnectionInv, ClosedInv
  <2>4. conn.state # "READING" => GoesOn(w) BY <1>1, <1>7 DEF Refuses, Accepts
  <2>5. CASE conn.state = "PROCESSING"
    <3>1. GoesOn(w) /\ conn.parser.stage = "complete"
      BY <2>1, <2>4, <2>5 DEF Progress, Processing
    <3>2. Fed(w).result = "NEED_MORE_DATA" BY <3>1 DEF GoesOn
    <3> DEFINE p == conn.parser
               chunk == work[w].arg
               fed == Fed(w)
    <3>3. ParserOf(p) /\ p.stage \in {"complete", "error"} /\ fed = Feed(p, chunk)
      BY <3>1 DEF ConnType, Fed
    <3> HIDE DEF p, chunk, fed
    <3>4. KeepsAll(p, chunk, fed) BY <3>3, FeedPast
    <3>5. QED BY <3>2, <3>4 DEF KeepsAll, fed
  <2>6. CASE conn.state = "WRITING"
    <3>1. conn'.state = "WRITING" /\ work'[w].pc = "recv" /\ q.stage = "body"
      BY <1>1, <2>4, <2>6 DEF GoesOn
    <3>2. Written(w)' = Written(w) BY <1>1, <3>1 DEF Written
    <3>3. PICK s \in Request, status \in Status :
            /\ conn.out = Response(s, status) /\ Written(w) <= Len(conn.out)
            /\ Reached(s, status, Written(w))
      BY <2>1, <2>6 DEF Progress, Writing
    <3>4. Reached(s, status, Written(w))' BY <1>1, <1>3, <3>2, <3>3 DEF Reached, Steady
    <3>5. Writing(w)' BY <1>1, <1>6, <3>1, <3>2, <3>3, <3>4 DEF Writing, q
    <3>6. QED BY <3>1, <3>5 DEF Progress
  <2>7. CASE conn.state = "READING"
    <3>1. Reading(w) /\ (AtHead(w) \/ InBody) BY <1>1, <2>1, <2>7 DEF Progress, Reading
    <3>2. conn'.flushed = 0
      <4>1. Shaken(conn) BY <1>1 DEF WorkType, WorkOf
      <4>2. QED BY <1>1, <3>1, <4>1 DEF Reading, Shaken
    <3>3. Due(conn.parser.req)'
      <4>1. Due(q.req) BY <2>2, <3>1 DEF AtHead, InBody
      <4>2. QED BY <1>1, <1>3, <4>1 DEF Due, Steady, q
    <3>4. CASE Refuses(w)
      <4>1. q.stage \in {"body", "error"} /\ work'[w].pc = "prepare" /\ conn'.state = "READING"
        BY <1>1, <2>7, <3>4 DEF Refuses
      <4>2. PICK status \in {"400", "413"} : work'[w].arg = Response(q.req, status)
        BY <3>4 DEF Refuses, q
      <4>3. Refusing(w)' BY <1>1, <1>5, <1>6, <3>3, <4>1, <4>2 DEF Refusing, q
      <4>4. Reading(w)' BY <3>2, <4>1, <4>3 DEF Reading
      <4>5. QED BY <4>1, <4>4 DEF Progress
    <3>5. CASE Accepts(w)
      <4>1. /\ q.stage = "complete" /\ work'[w].pc = "dispatch" /\ conn'.state = "PROCESSING"
            /\ work'[w].arg.req = q.req
        BY <1>1, <3>5 DEF Accepts, q
      <4>2. Processing(w)' BY <3>2, <3>3, <4>1 DEF Processing, q
      <4>3. QED BY <4>1, <4>2 DEF Progress
    <3>6. CASE GoesOn(w)
      <4>1. q.stage = "body" /\ work'[w].pc = "recv" /\ conn'.state = "READING"
        BY <1>1, <2>7, <3>6 DEF GoesOn
      <4>2. Reading(w)' BY <3>2, <3>3, <4>1 DEF Reading, InBody, q
      <4>3. QED BY <4>1, <4>2 DEF Progress
    <3>7. QED BY <1>1, <3>4, <3>5, <3>6
  <2>8. QED BY <2>3, <2>5, <2>6, <2>7 DEF ConnType
<1>8. \A v \in Workers : v = w BY DEF OneWorker
<1>9. QED BY <1>3, <1>4, <1>7, <1>8, StreamKept

\* The handler answers, or throws.
LEMMA DispatchKeeps ==
  ASSUME TypeInv, ConnectionInv, StreamInv, Steady, OneWorker, NEW w \in Workers, Dispatch(w)
  PROVE  StreamInv'
<1> USE DEF TypeInv
<1>1. UNCHANGED <<conn, sock, client>> /\ work[w].pc = "dispatch" BY DEF Dispatch
<1>2. Stream' = Stream /\ client'.got \in Seq(Wire) /\ Grows
  BY <1>1 DEF Stream, StreamInv, Grows
<1>3. \/ work'[w].pc = "idle"
      \/ work'[w].pc = "prepare" /\ work'[w].arg = Response(work[w].arg.req, "ok")
  <2>1. CASE work' = [work EXCEPT ![w] = IdleWorker] BY <2>1, Went
  <2>2. CASE GotoWith(w, "prepare", Response(work[w].arg.req, "ok")) BY <2>2, Went
  <2>3. QED BY <2>1, <2>2 DEF Dispatch
<1>4. ASSUME ~conn.refed, conn.open PROVE Progress(w)'
  <2>1. Progress(w) BY <1>1, <1>4 DEF StreamInv
  <2>2. conn.state = "PROCESSING"
    <3>1. conn.state # "CLOSED" BY <1>4 DEF ConnectionInv, ClosedInv
    <3>2. QED BY <1>1, <2>1, <3>1 DEF ConnType, Progress, Reading, Writing
  <2>3. Processing(w) BY <2>1, <2>2 DEF Progress
  <2>4. Due(conn.parser.req)' BY <1>1, <1>2, <2>3 DEF Processing, Due, Steady
  <2>5. work'[w].pc = "prepare" => work'[w].arg = Response(conn.parser.req, "ok")'
    <3>1. \A r, status : Response(r, status)' = Response(r, status) BY ResponsesKept
    <3>2. work[w].arg.req = conn.parser.req BY <1>1, <2>3 DEF Processing
    <3>3. QED BY <1>1, <1>3, <3>1, <3>2
  <2>6. Processing(w)' BY <1>1, <1>3, <2>3, <2>4, <2>5 DEF Processing
  <2>7. QED BY <1>1, <2>2, <2>6 DEF Progress
<1>5. \A v \in Workers : v = w BY DEF OneWorker
<1>6. QED BY <1>1, <1>2, <1>4, <1>5, StreamKept

\* The response that is due is put into write_buffer_.
LEMMA PrepareKeeps ==
  ASSUME TypeInv, ConnectionInv, GreetingInv, StreamInv, Steady, OneWorker,
         NEW w \in Workers, PrepareResponse(w)
  PROVE  StreamInv'
<1> USE DEF TypeInv
<1>1. /\ UNCHANGED <<sock, client>> /\ work[w].pc = "prepare"
      /\ conn' = [conn EXCEPT !.out = work[w].arg, !.offset = 0, !.state = "WRITING"]
      /\ GotoWith(w, "write", <<>>)
  BY DEF PrepareResponse
<1>2. /\ conn'.open = conn.open /\ conn'.ssl = conn.ssl /\ conn'.flushed = conn.flushed
      /\ conn'.parser = conn.parser /\ conn'.refed = conn.refed
      /\ conn'.dropped = conn.dropped /\ conn'.out = work[w].arg /\ conn'.offset = 0
      /\ conn'.state = "WRITING"
  BY <1>1 DEF ConnType
<1>3. Stream' = Stream /\ client'.got \in Seq(Wire) /\ Grows
  BY <1>1, <1>2 DEF Stream, StreamInv, Grows
<1>4. work'[w].pc = "write" BY <1>1, Went
<1>5. ASSUME ~conn.refed, conn.open PROVE Progress(w)'
  <2>1. Progress(w) BY <1>1, <1>5 DEF StreamInv
  <2>2. conn.state \in {"READING", "PROCESSING"}
    <3>1. conn.state # "CLOSED" BY <1>5 DEF ConnectionInv, ClosedInv
    <3>2. QED BY <1>1, <2>1, <3>1 DEF ConnType, Progress, Writing
  <2>3. Shaken(conn) BY <1>1 DEF GreetingInv, UnshakenPC
  <2>4. conn.flushed = 0 /\ conn.parser.stage # "head"
    BY <1>1, <2>1, <2>2, <2>3 DEF Progress, Reading, Refusing, Processing, Shaken
  <2>5. PICK r \in Request, status \in Status :
          /\ work[w].arg = Response(r, status) /\ Due(r)
          /\ conn.parser.stage = "complete" =>
               status = "ok" /\ conn.parser.req = r
    <3>1. CASE conn.state = "READING"
      <4>1. Refusing(w) BY <1>1, <2>1, <3>1 DEF Progress, Reading
      <4>2. PICK r \in Request, status \in {"400", "413"} :
              work[w].arg = Response(r, status) /\ Due(r)
        BY <4>1 DEF Refusing
      <4>3. conn.parser.stage # "complete" /\ status \in Status BY <4>1 DEF Refusing, Status
      <4>4. QED BY <4>2, <4>3
    <3>2. CASE conn.state = "PROCESSING"
      <4>1. Processing(w) BY <2>1, <3>2 DEF Progress
      <4>2. conn.parser.req \in Request BY <4>1 DEF Processing, ParserOf
      <4>3. "ok" \in Status BY DEF Status
      <4>4. QED BY <1>1, <4>1, <4>2, <4>3 DEF Processing
    <3>3. QED BY <2>2, <3>1, <3>2
  <2>6. Written(w)' = 0 BY <1>2, <1>4, <2>4 DEF Written
  <2>7. Reached(r, status, Written(w))' BY <1>2, <1>3, <2>5, <2>6
    DEF Reached, ReachedIn, Due, Steady
  <2>8. /\ \A s : Request' = Request
        /\ \A s, t : Response(s, t)' = Response(s, t)
    BY ResponsesKept DEF Steady
  <2>9. Written(w)' <= Len(conn'.out)
    <3>1. Len(conn'.out) \in Nat BY <1>1, <1>2 DEF WorkType, WorkOf
    <3>2. QED BY <2>6, <3>1
  <2>10. Writing(w)'
    BY <1>2, <1>4, <2>4, <2>5, <2>7, <2>8, <2>9 DEF Writing
  <2>11. QED BY <1>2, <2>10 DEF Progress
<1>6. \A v \in Workers : v = w BY DEF OneWorker
<1>7. QED BY <1>2, <1>3, <1>5, <1>6, StreamKept

\* write_offset_ is moved over what has been written.
LEMMA AdvanceKeeps ==
  ASSUME TypeInv, ConnectionInv, StreamInv, Steady, OneWorker, NEW w \in Workers, Advance(w)
  PROVE  StreamInv'
<1> USE DEF TypeInv
<1>1. /\ UNCHANGED <<sock, client>> /\ work[w].pc = "advance"
      /\ conn' = [conn EXCEPT !.offset = @ + work[w].arg] /\ GotoWith(w, "send", <<>>)
  BY DEF Advance, Advanced
<1>2. /\ conn'.open = conn.open /\ conn'.ssl = conn.ssl /\ conn'.flushed = conn.flushed
      /\ conn'.parser = conn.parser /\ conn'.refed = conn.refed
      /\ conn'.dropped = conn.dropped /\ conn'.out = conn.out
      /\ conn'.offset = conn.offset + work[w].arg /\ conn'.state = conn.state
  BY <1>1 DEF ConnType
<1>3. Stream' = Stream /\ client'.got \in Seq(Wire) /\ Grows
  BY <1>1, <1>2 DEF Stream, StreamInv, Grows
<1>4. work'[w].pc = "send" BY <1>1, Went
<1>5. ASSUME ~conn.refed, conn.open PROVE Progress(w)'
  <2>1. Progress(w) BY <1>1, <1>5 DEF StreamInv
  <2>2. conn.state = "WRITING"
    <3>1. conn.state # "CLOSED" BY <1>5 DEF ConnectionInv, ClosedInv
    <3>2. QED BY <1>1, <2>1, <3>1 DEF ConnType, Progress, Reading, Processing
  <2>3. Writing(w) BY <2>1, <2>2 DEF Progress
  <2>4. Written(w)' = Written(w)
    <3>1. conn.offset \in Nat /\ conn.flushed \in Nat /\ work[w].arg \in Nat
      BY <1>1 DEF ConnType, WorkType, WorkOf
    <3>2. QED BY <1>1, <1>2, <1>4, <3>1 DEF Written
  <2>5. PICK r \in Request, status \in Status :
          /\ conn.out = Response(r, status) /\ Written(w) <= Len(conn.out)
          /\ Reached(r, status, Written(w))
          /\ conn.parser.stage = "complete" =>
               status = "ok" /\ conn.parser.req = r
    BY <2>3 DEF Writing
  <2>6. Reached(r, status, Written(w))' BY <1>2, <1>3, <2>4, <2>5 DEF Reached, Steady
  <2>7. /\ Request' = Request /\ \A s, t : Response(s, t)' = Response(s, t)
    BY ResponsesKept DEF Steady
  <2>8. Writing(w)'
    BY <1>2, <1>4, <2>3, <2>4, <2>5, <2>6, <2>7 DEF Writing
  <2>9. QED BY <1>2, <2>2, <2>8 DEF Progress
<1>6. \A v \in Workers : v = w BY DEF OneWorker
<1>7. QED BY <1>2, <1>3, <1>5, <1>6, StreamKept

\* More of the response under way is written.
LEMMA SendKeeps ==
  ASSUME TypeInv, ConnectionInv, StreamInv, Steady, OneWorker, NEW w \in Workers, Send(w)
  PROVE  StreamInv'
<1> USE DEF TypeInv
<1>1. client' = client /\ work[w].pc = "send" BY DEF Send
<1>2. client'.got \in Seq(Wire) /\ client'.got = client.got BY <1>1 DEF StreamInv
<1>3. \A v \in Workers : v = w BY DEF OneWorker
<1>4. ASSUME ~conn.refed, conn.open PROVE Progress(w) /\ conn.state = "WRITING" /\ Writing(w)
  <2>1. Progress(w) BY <1>1, <1>4 DEF StreamInv
  <2>2. conn.state = "WRITING"
    <3>1. conn.state # "CLOSED" BY <1>4 DEF ConnectionInv, ClosedInv
    <3>2. QED BY <1>1, <2>1, <3>1 DEF ConnType, Progress, Reading, Processing
  <2>3. QED BY <2>1, <2>2 DEF Progress
<1>5. CASE UNCHANGED <<conn, sock>> /\ Goto(w, "close")
  <2>1. work'[w].pc = "close" /\ Grows BY <1>5, Went DEF Grows
  <2>2. QED BY <1>2, <1>5, <2>1, ToCloseKeeps
<1>6. CASE UNCHANGED <<conn, sock>> /\ Goto(w, "sent")
  <2>1. Stream' = Stream /\ Grows BY <1>1, <1>6 DEF Stream, Grows
  <2>2. ASSUME ~conn.refed, conn.open PROVE Progress(w)'
    <3>1. Progress(w) /\ conn.state = "WRITING" BY <1>4, <2>2
    <3>2. work'[w].pc = "sent" BY <1>6, Went
    <3>3. Moves(w) BY <1>1, <3>1, <3>2 DEF Moves, Sending
    <3>4. Chunk(w)' = Chunk(w) /\ Shook' = Shook BY <1>1, <1>6, <3>2 DEF Chunk, Shook
    <3>5. Input(w)' = Input(w) BY <1>1, <1>6, <3>4, InputKept
    <3>6. QED BY <1>6, <2>1, <3>1, <3>3, <3>5, ProgressKept
  <2>3. QED BY <1>2, <1>3, <1>6, <2>1, <2>2, StreamKept
<1>7. CASE Writes(w) /\ conn.refed
  <2>1. conn'.refed BY <1>7 DEF Writes, ConnType
  <2>2. QED BY <1>2, <2>1 DEF StreamInv
<1>8. CASE Writes(w) /\ ~conn.refed
  <2>1. Progress(w) /\ conn.state = "WRITING" /\ Writing(w) BY <1>4, <1>8 DEF Writes
  <2> DEFINE m == Written(w)
             t == Take(Left, Fits)
  <2>2. /\ work'[w].pc \in {"sent", "advance"} /\ m = conn.offset + conn.flushed
        /\ Written(w)' = m + Fits
        /\ conn'.open = conn.open /\ conn'.state = conn.state /\ conn'.parser = conn.parser
        /\ conn'.ssl = conn.ssl /\ conn'.out = conn.out /\ conn'.offset = conn.offset
        /\ conn'.refed = conn.refed /\ conn'.dropped = conn.dropped
    BY <1>1, <1>8, SendWritten
  <2>3. PICK r \in Request, status \in Status :
          /\ conn.out = Response(r, status) /\ m <= Len(conn.out)
          /\ Reached(r, status, m)
          /\ conn.parser.stage = "complete" => status = "ok" /\ conn.parser.req = r
    BY <2>1 DEF Writing
  <2>4. m \in Nat /\ Len(conn.out) \in Nat /\ r \in Nat /\ r # 0
    BY <2>2, ScriptFacts DEF ConnType
  <2>5. /\ Fits \in 0..Len(Left) /\ Len(Left) = Len(conn.out) - m
        /\ t \in Seq(Wire) /\ Len(t) = Fits
        /\ \A i \in 1..Fits : m + i \in 1..Len(conn.out) /\ t[i] = conn.out[m + i]
    <3>1. conn.offset + conn.flushed <= Len(conn.out) BY <2>2, <2>3
    <3>2. QED BY <2>2, <3>1, TakenFacts
  <2>6. Stream \in Seq(Wire) /\ Stream' = Stream \o t BY <1>1, <1>2, <1>8, SendStream
  <2> HIDE DEF m, t
  <2>7. \A i \in 1..Fits : t[i] = <<r, m + i, status>>
    <3>1. Len(conn.out) = Length(r, status) BY <2>3, ResponseFacts
    <3>2. \A k \in 1..Len(conn.out) : conn.out[k] = <<r, k, status>>
      BY <2>3, <3>1, ResponseFacts
    <3>3. QED BY <2>5, <3>2
  <2>8. Fits \in Nat /\ m + Fits <= Len(conn.out) BY <2>4, <2>5
  <2>9. /\ WholeIn(client.script, conn.dropped, Stream \o t)
        /\ ReachedIn(client.script, conn.dropped, Stream \o t, r, status, m + Fits)
    <3> DEFINE s == Stream
    <3>1. Whole(Stream) BY <1>8 DEF StreamInv
    <3>2. WholeIn(client.script, conn.dropped, s) BY <3>1, WholeFacts
    <3>3. ReachedIn(client.script, conn.dropped, s, r, status, m) BY <2>3 DEF Reached
    <3>4. s \in Seq(Wire) /\ t \in Seq(Wire) /\ \A i \in 1..Len(t) : t[i] = <<r, m + i, status>>
      BY <2>5, <2>6, <2>7
    <3> HIDE DEF s
    <3>5. /\ WholeIn(client.script, conn.dropped, s \o t)
          /\ ReachedIn(client.script, conn.dropped, s \o t, r, status, m + Len(t))
      BY <2>4, <3>2, <3>3, <3>4, MoreIsWhole
    <3>6. QED BY <2>5, <3>5 DEF s
  <2>10. Whole(Stream)'
    <3>1. WholeIn(client'.script, conn'.dropped, Stream') BY <2>2, <2>6, <2>9 DEF Steady
    <3>2. QED BY <3>1 DEF Whole, WholeIn, Follows, FollowsIn, Length, LengthIn, Kind
  <2>11. Reached(r, status, Written(w))' BY <2>2, <2>6, <2>9 DEF Reached, Steady
  <2>12. Request' = Request /\ \A s, u : Response(s, u)' = Response(s, u)
    BY ResponsesKept DEF Steady
  <2>13. Writing(w)'
    <3>1. Written(w)' <= Len(conn'.out) BY <2>2, <2>8
    <3>2. QED BY <2>1, <2>2, <2>3, <2>11, <2>12, <3>1 DEF Writing
  <2>14. Progress(w)' BY <2>1, <2>2, <2>13 DEF Progress
  <2>15. QED BY <1>2, <1>3, <2>10, <2>14 DEF StreamInv
<1>9. QED BY <1>5, <1>6, <1>7, <1>8, SendCases

\* The Connection is reset for the next request, waits for room, or will be closed.
LEMMA FinishWriteKeeps ==
  ASSUME TypeInv, ConnectionInv, InputInv, StreamInv, Steady, OneWorker,
         NEW w \in Workers, FinishWrite(w)
  PROVE  StreamInv'
<1> USE DEF TypeInv
<1>1. client' = client /\ sock' = sock /\ work[w].pc = "sent" BY DEF FinishWrite
<1>2. client'.got \in Seq(Wire) /\ client'.got = client.got BY <1>1 DEF StreamInv
<1>3. \A v \in Workers : v = w BY DEF OneWorker
<1>4. Stream' = Stream BY <1>1 DEF Stream
<1>5. CASE conn' = conn /\ Leave(w)
  <2>1. work'[w].pc \in {"write", "check"} BY <1>5, Went
  <2>2. Moves(w) BY <1>1, <2>1 DEF Moves, Quiet, Sending
  <2>3. Resting BY <1>1, <1>5, <2>2, WorkerRests DEF Resting
  <2>4. QED BY <2>3, RestingKeeps
<1>6. CASE conn' = Cleared(conn) /\ Goto(w, "close")
  <2>1. work'[w].pc = "close" BY <1>6, Went
  <2>2. Grows BY <1>6 DEF Grows, Cleared, ConnType
  <2>3. QED BY <1>1, <1>2, <2>1, <2>2, ToCloseKeeps
<1>7. CASE /\ ~(conn.offset < Len(conn.out)) /\ KeepsAlive(conn) /\ Leave(w)
           /\ conn' = [Cleared(conn) EXCEPT !.parser = NewParser, !.state = "READING",
                                            !.dropped = @ \/ conn.parser.buffer # <<>>]
  <2>1. /\ conn'.open = conn.open /\ conn'.state = "READING" /\ conn'.parser = NewParser
        /\ conn'.ssl = conn.ssl /\ conn'.flushed = conn.flushed /\ conn'.refed = conn.refed
        /\ conn'.dropped = (conn.dropped \/ conn.parser.buffer # <<>>)
    BY <1>7 DEF Cleared, ConnType
  <2>2. Grows BY <2>1 DEF Grows
  <2>3. work'[w].pc \in {"write", "check"} BY <1>7, Went
  <2>4. ASSUME ~conn.refed, conn.open PROVE Progress(w)'
    <3>1. Progress(w) /\ Ordered(w) BY <1>1, <2>4 DEF StreamInv, InputInv
    <3>2. conn.state = "WRITING"
      <4>1. conn.state # "CLOSED" BY <2>4 DEF ConnectionInv, ClosedInv
      <4>2. QED BY <1>1, <3>1, <4>1 DEF ConnType, Progress, Reading, Processing
    <3>3. Writing(w) BY <3>1, <3>2 DEF Progress
    <3>4. PICK r \in Request, status \in Status :
            /\ conn.out = Response(r, status) /\ Written(w) <= Len(conn.out)
            /\ Reached(r, status, Written(w))
            /\ conn.parser.stage = "complete" =>
                 status = "ok" /\ conn.parser.req = r
      BY <3>3 DEF Writing
    <3>5. status = "ok" /\ Input(w)[1] = <<r + 1, 0>>
      BY <1>7, <3>1, <3>4 DEF KeepsAlive, Ordered, Awaits
    <3> DEFINE n == Length(r, "ok")
    <3>6. n \in Nat /\ n # 0 /\ Len(conn.out) = n /\ r \in Nat
      BY <3>4, <3>5, ResponseFacts, ScriptFacts
    <3>7. n = LengthIn(client.script, r, "ok") BY DEF Length, LengthIn, Kind
    <3> HIDE DEF n
    <3>8. conn.flushed = 0 /\ Written(w) = n
      <4>1. conn.offset \in Nat /\ conn.flushed \in Nat /\ ~(conn.offset < n)
        BY <1>7, <3>6 DEF ConnType
      <4>2. Written(w) = conn.offset + conn.flushed BY <1>1, <4>1 DEF Written
      <4>3. conn.offset + conn.flushed <= n BY <3>4, <3>6, <4>2
      <4>4. QED BY <3>6, <4>1, <4>2, <4>3
    <3>9. Stream # <<>> /\ LastOf(Stream) = <<r, n, "ok">>
      BY <3>4, <3>5, <3>6, <3>8 DEF Reached, ReachedIn
    <3>10. \A next \in Nat : r < next /\ (conn'.dropped \/ next = r + 1) =>
             DueIn(client'.script, conn'.dropped, Stream', next)
      BY <1>4, <3>7, <3>9 DEF DueIn, Steady
    <3>11. Ahead \in 0..Len(sock.rx) /\ Contiguous(client.script, Input(w))
      BY <3>1 DEF Ordered, AheadInv
    <3>12. /\ Contiguous(client.script, Coming)
           /\ Input(w)[1][1] \in Nat /\ Coming[1][1] \in Nat /\ Input(w)[1][1] <= Coming[1][1]
           /\ conn.parser.buffer = <<>> => Coming = Input(w)
      BY <1>1, <3>11, InputAfterReset
    <3>13. Input(w)' = Coming BY <1>1, <2>1, <2>3, <3>1, ResetInput
    <3>14. AtHead(w)'
      <4>1. Coming[1][1] >= r + 1 BY <3>5, <3>6, <3>12
      <4>2. CASE conn.parser.buffer = <<>>
        <5>1. Coming[1] = <<r + 1, 0>> BY <3>5, <3>12, <4>2
        <5>2. DueIn(client'.script, conn'.dropped, Stream', Coming[1][1]) BY <3>6, <3>10, <5>1
        <5>3. QED BY <2>1, <3>13, <5>1, <5>2 DEF AtHead, Due, NewParser
      <4>3. CASE conn.parser.buffer # <<>>
        <5>1. conn'.dropped BY <2>1, <4>3
        <5>2. r < Coming[1][1] BY <3>6, <3>12, <4>1
        <5>3. DueIn(client'.script, conn'.dropped, Stream', Coming[1][1])
          BY <3>10, <3>12, <5>1, <5>2
        <5>4. QED BY <2>1, <3>13, <5>1, <5>3 DEF AtHead, Due, NewParser
      <4>4. QED BY <4>2, <4>3
    <3>15. Reading(w)' BY <2>1, <2>3, <3>8, <3>14 DEF Reading
    <3>16. QED BY <2>1, <3>15 DEF Progress
  <2>5. QED BY <1>2, <1>3, <1>4, <2>1, <2>2, <2>4, StreamKept
<1>8. QED BY <1>5, <1>6, <1>7 DEF FinishWrite, Reset

\* At first nothing has been sent, and the first request is to come.
LEMMA InitStream ==
  ASSUME Init
  PROVE  StreamInv
<1>1. /\ client.got = <<>> /\ conn.state = "READING" /\ conn.parser = NewParser
      /\ conn.flushed = 0 /\ sock.tx = <<>>
  BY DEF Init
<1>2. \A w \in Workers : work[w].pc = "idle" BY DEF Init, IdleWorker
<1> DEFINE e == <<>>
<1>3. e \in Seq(Wire) /\ Len(e) = 0 BY EmptySeq
<1>4. Stream = e
  <2>1. \A i \in 1..Len(e) : e[i][1] = 0 BY <1>3
  <2> HIDE DEF e
  <2>2. PastHandshake(e) = <<>> BY <1>3, <2>1, PastNone
  <2>3. e \o <<>> = e BY <1>3, ConcatEmptySeq
  <2>4. Stream = e \o PastHandshake(e) BY <1>1 DEF Stream, e
  <2>5. QED BY <2>2, <2>3, <2>4
<1>5. client.got \in Seq(Wire) BY <1>1, <1>3
<1>6. Whole(Stream) BY <1>3, <1>4 DEF Whole
<1>7. ASSUME NEW w \in Workers PROVE Progress(w)
  <2>1. Input(w)[1] = <<1, 0>>
    <3>1. Input(w) = <<<<1, 0>>>> BY InitInput
    <3>2. QED BY <3>1
  <2>2. Due(1) BY <1>4 DEF Due, DueIn
  <2>3. AtHead(w) BY <1>1, <2>1, <2>2 DEF AtHead, NewParser
  <2>4. Reading(w) BY <1>1, <1>2, <2>3 DEF Reading
  <2>5. QED BY <1>1, <2>4 DEF Progress
<1>8. QED BY <1>5, <1>6, <1>7 DEF StreamInv

\* Every step keeps the invariant.
LEMMA StreamStep ==
  ASSUME OneWorker, TypeInv, ConnectionInv, GreetingInv, InputInv, StreamInv, [Next]_vars
  PROVE  StreamInv'
<1>1. Steady BY ClientKept DEF TypeInv
<1>2. ASSUME NEW w \in Workers, WorkerStep(w) PROVE StreamInv'
  <2>1. CASE StartTask(w) \/ HandleRead(w) \/ HandleWrite(w) \/ (CheckAlive(w) /\ IsAlive(conn))
    <3>1. Resting BY <2>1, ResumingRests
    <3>2. QED BY <1>1, <3>1, RestingKeeps
  <2>2. CASE Handshake(w) \/ Recv(w) BY <1>1, <2>2, HandshakeKeeps, RecvKeeps
  <2>3. CASE FeedParser(w) \/ Dispatch(w) \/ PrepareResponse(w)
    BY <1>1, <2>3, FeedKeeps, DispatchKeeps, PrepareKeeps
  <2>4. CASE Send(w) \/ Advance(w) \/ FinishWrite(w)
    BY <1>1, <2>4, SendKeeps, AdvanceKeeps, FinishWriteKeeps
  <2>5. CASE CloseInTask(w) \/ (CheckAlive(w) /\ ~IsAlive(conn)) BY <1>1, <2>5, RemovalKeeps
  <2>6. QED BY <1>2, <2>1, <2>2, <2>3, <2>4, <2>5 DEF WorkerStep
<1>3. CASE HandleEvent \/ Quieten \/ CollectTimedOut \/ RemoveTimedOut \/ HangUp \/ UNCHANGED vars
  BY <1>1, <1>3, EventLoopKeeps
<1>4. CASE Greet \/ SendUnit \/ Receive BY <1>1, <1>4, ClientKeeps
<1>5. QED BY <1>2, <1>3, <1>4 DEF Next

\* With one worker, what the client receives is a sequence of whole responses in the
\* order of the requests.
THEOREM SerialWholeResponses == ASSUME OneWorker PROVE Spec => []WholeResponses
<1> DEFINE Inv == TypeInv /\ ConnectionInv /\ GreetingInv /\ InputInv /\ StreamInv
<1>1. Init => Inv BY InitTypes, InitConnection, InitGreeting, InitInput, InitStream
<1>2. ConnectionInv /\ [Next]_vars => ConnectionInv' BY ConnectionStep
<1>3. Inv /\ [Next]_vars => Inv'
  BY <1>2, TypeStep, GreetingStep, InputStep, StreamStep
<1>4. Inv => WholeResponses BY DEF StreamInv, WholeResponses
<1>5. QED BY <1>1, <1>3, <1>4, PTL DEF Spec

-----------------------------------------------------------------------------
(* One worker: why a Connection is closed                                    *)

\* The client goes on only after requests that keep the connection.
KeepsInv ==
  \A r \in 1..(client.req - 1) : r < client.req - 1 \/ client.pos > 0 => Kind(r).keep

\* The first m units of the response to request r are sent.
SentTo(r, m) == \A i \in 1..m : \E k \in 1..Len(Stream) : Stream[k] = <<r, i, "ok">>

\* A response that refuses its request, unless the parser is past one: then it is the
\* response to that.
Answers(response) ==
  \E r \in Request, status \in Status :
    /\ response = Response(r, status)
    /\ IF conn.parser.stage = "complete" THEN r = conn.parser.req /\ status = "ok"
       ELSE status # "ok"

\* What a Connection has sent of a response, by its state; of one that refuses, nothing
\* as long as the server has no such reason to close.
Receiving(w) ==
  /\ conn.parser.stage # "complete" /\ (conn.ssl # "flight" => conn.flushed = 0)
  /\ work[w].pc \notin {"dispatch", "send", "advance", "sent"}
Handling(w) ==
  /\ conn.parser.stage = "complete" /\ SentTo(conn.parser.req, conn.flushed)
  /\ conn.flushed <= Length(conn.parser.req, "ok")
  /\ work[w].pc = "dispatch" => work[w].arg.req = conn.parser.req
  /\ work[w].pc \notin {"send", "advance", "sent"}
Answering(w) ==
  /\ work[w].pc # "dispatch" /\ conn.parser.stage # "head"
  /\ Answers(conn.out) /\ Written(w) <= Len(conn.out)
  /\ IF conn.parser.stage = "complete" THEN SentTo(conn.parser.req, Written(w))
     ELSE Written(w) = 0
Underway(w) ==
  /\ conn.state = "READING" => Receiving(w)
  /\ conn.state = "PROCESSING" => Handling(w)
  /\ conn.state = "WRITING" => Answering(w)
  /\ work[w].pc = "prepare" => conn.parser.stage # "head" /\ Answers(work[w].arg)

\* The reasons to close that last, and those a worker on its way to close may have
\* besides: what came first is no handshake, or the client was told that its last
\* request would be the last, and has its response.
Excused == Refused \/ conn.handled >= MaxRequests \/ sock.fin
Concluded ==
  \/ conn.ssl = "hello"
  \/ /\ client.req > 1 /\ ~Kind(client.req - 1).keep
     /\ HasResponse(Stream, client.req - 1)
Doing(w) == IF work[w].pc = "close" THEN Concluded ELSE Underway(w)
CauseInv ==
  /\ client.got \in Seq(Wire) /\ KeepsInv
  /\ conn.open => Excused \/ \A w \in Workers : Doing(w)

\* A step that does not close the Connection loses nothing of that.
Onward == /\ Longer /\ conn'.open = conn.open /\ (sock.fin => sock'.fin)
          /\ conn'.handled \in {conn.handled, conn.handled + 1}

\* What is sent stays sent.
LEMMA LongerKeeps ==
  ASSUME Steady, Longer
  PROVE  /\ Refused => Refused'
         /\ \A r : HasResponse(Stream, r) => HasResponse(Stream, r)'
         /\ \A r, m : SentTo(r, m) => SentTo(r, m)'
<1>1. Refused => Refused'
  <2> SUFFICES ASSUME Refused PROVE Refused' OBVIOUS
  <2>1. PICK k \in 1..Len(Stream) : Stream[k][3] # "ok" BY DEF Refused
  <2>2. k \in 1..Len(Stream)' /\ Stream'[k][3] # "ok" BY <2>1 DEF Longer
  <2>3. QED BY <2>2 DEF Refused
<1>2. ASSUME NEW r, HasResponse(Stream, r) PROVE HasResponse(Stream, r)'
  <2>1. PICK k \in 1..Len(Stream) : Stream[k][1] = r /\ Stream[k][2] = Length(r, Stream[k][3])
    BY <1>2 DEF HasResponse
  <2>2. k \in 1..Len(Stream)' /\ Stream'[k] = Stream[k] BY <2>1 DEF Longer
  <2>3. \A status : Length(r, status)' = Length(r, status) BY DEF Length, Kind, Steady
  <2>4. Stream'[k][1] = r /\ Stream'[k][2] = Length(r, Stream[k][3])' BY <2>1, <2>2, <2>3
  <2>5. QED BY <2>2, <2>4 DEF HasResponse
<1>3. ASSUME NEW r, NEW m, SentTo(r, m) PROVE SentTo(r, m)'
  <2>1. ASSUME NEW i \in 1..m
        PROVE  \E k \in 1..Len(Stream)' : Stream'[k] = <<r, i, "ok">>
    <3>1. PICK k \in 1..Len(Stream) : Stream[k] = <<r, i, "ok">> BY <1>3 DEF SentTo
    <3>2. k \in 1..Len(Stream)' /\ Stream'[k] = <<r, i, "ok">> BY <3>1 DEF Longer
    <3>3. QED BY <3>2
  <2>2. QED BY <2>1 DEF SentTo
<1>4. QED BY <1>1, <1>2, <1>3

\* The reasons that last do.
LEMMA ExcusedKept ==
  ASSUME TypeInv, Steady, Onward, Excused
  PROVE  Excused'
<1>1. Refused => Refused' BY LongerKeeps DEF Onward
<1>2. conn.handled >= MaxRequests => conn'.handled >= MaxRequests
  BY ConnectionAssumption DEF TypeInv, ConnType, Onward
<1>3. QED BY <1>1, <1>2 DEF Excused, Onward

\* What send or SSL_write takes is added to the stream.
LEMMA SendLonger ==
  ASSUME TypeInv, client.got \in Seq(Wire), client' = client,
         NEW w \in Workers, Writes(w)
  PROVE  /\ Longer
         /\ \A i \in 1..Fits : \E k \in 1..Len(Stream)' :
              /\ conn.offset + conn.flushed + i \in 1..Len(conn.out)
              /\ Stream'[k] = conn.out[conn.offset + conn.flushed + i]
<1> DEFINE t == Take(Left, Fits)
           s == Stream
<1>1. s \in Seq(Wire) /\ t \in Seq(Wire) /\ Stream' = s \o t BY SendStream
<1>2. conn.offset + conn.flushed <= Len(conn.out) BY DEF Writes
<1>3. /\ Fits \in Nat /\ Len(t) = Fits
      /\ \A i \in 1..Fits :
           /\ conn.offset + conn.flushed + i \in 1..Len(conn.out)
           /\ t[i] = conn.out[conn.offset + conn.flushed + i]
  BY <1>1, <1>2, TakenFacts, LenProperties
<1> HIDE DEF t, s
<1>4. /\ Len(s) \in Nat /\ Len(s \o t) = Len(s) + Len(t)
      /\ \A k \in 1..(Len(s) + Len(t)) :
           (s \o t)[k] = IF k <= Len(s) THEN s[k] ELSE t[k - Len(s)]
  BY <1>1, ConcatProperties, LenProperties
<1>5. Len(Stream)' = Len(s) + Fits BY <1>1, <1>3, <1>4
<1>6. \A k \in 1..Len(s) : k \in 1..Len(Stream)' /\ Stream'[k] = s[k]
  BY <1>1, <1>3, <1>4, <1>5
<1>7. ASSUME NEW i \in 1..Fits
      PROVE  Len(s) + i \in 1..Len(Stream)' /\ Stream'[Len(s) + i] = t[i]
  <2> DEFINE k == Len(s) + i
  <2>1. k \in 1..(Len(s) + Len(t)) /\ ~(k <= Len(s)) /\ k - Len(s) = i BY <1>3, <1>4
  <2> HIDE DEF k
  <2>2. Stream'[k] = t[i] BY <1>1, <1>4, <2>1
  <2>3. k \in 1..Len(Stream)' BY <1>3, <1>5, <2>1
  <2>4. QED BY <2>2, <2>3 DEF k
<1>8. Longer BY <1>6 DEF Longer, s
<1>9. QED BY <1>3, <1>7, <1>8

\* Every step of a worker goes on, or closes the Connection, or finds it closed.
LEMMA WorkerOnward ==
  ASSUME TypeInv, ConnectionInv, client.got \in Seq(Wire), NEW w \in Workers, WorkerStep(w)
  PROVE  \/ Onward /\ ~CloseInTask(w) /\ ~(CheckAlive(w) /\ ~IsAlive(conn))
         \/ Shut /\ (work[w].pc = "close" \/ ~conn.open)
<1> USE DEF TypeInv
<1>1. CASE CloseInTask(w)
  <2>1. work[w].pc = "close" /\ CloseConnection BY <1>1 DEF CloseInTask
  <2>2. QED BY <2>1, CloseShuts
<1>2. CASE CheckAlive(w) /\ ~IsAlive(conn)
  <2>1. RemoveConnection BY <1>2 DEF CheckAlive
  <2>2. ~conn.open BY <1>2 DEF IsAlive, ConnectionInv, ClosedInv
  <2>3. QED BY <2>1, <2>2, RemoveShuts
<1>3. CASE ~CloseInTask(w) /\ ~(CheckAlive(w) /\ ~IsAlive(conn))
  <2>1. client' = client
    BY DEF WorkerStep, StartTask, HandleRead, Handshake, Recv, FeedParser, Dispatch,
       PrepareResponse, HandleWrite, Send, Advance, FinishWrite, CloseInTask, CheckAlive
  <2>2. CASE Send(w)
    <3>1. CASE UNCHANGED <<conn, sock>> BY <1>3, <2>1, <3>1, SameStream DEF Onward
    <3>2. CASE Writes(w)
      <4>1. Longer BY <2>1, <3>2, SendLonger
      <4>2. conn'.open = conn.open /\ conn'.handled = conn.handled /\ sock'.fin = sock.fin
        BY <3>2 DEF Writes, ConnType, SockType
      <4>3. QED BY <1>3, <4>1, <4>2 DEF Onward
    <3>3. QED BY <2>2, <3>1, <3>2, SendCases
  <2>3. CASE Handshake(w)
    <3>1. Stream' = Stream BY <2>3, HandshakeStream
    <3>2. Longer BY <2>1, <3>1 DEF Longer
    <3>3. conn'.open = conn.open /\ conn'.handled = conn.handled
      BY <2>3 DEF Handshake, ConnType
    <3>4. \/ sock' = sock \/ sock' = [sock EXCEPT !.rx = Tail(@)]
          \/ \E tx, room : sock' = [sock EXCEPT !.tx = tx, !.noSpace = room]
      BY <2>3 DEF Handshake
    <3>5. sock'.fin = sock.fin BY <3>4 DEF SockType
    <3>6. QED BY <1>3, <3>2, <3>3, <3>5 DEF Onward
  <2>4. CASE ~Send(w) /\ ~Handshake(w)
    <3>1. sock' = sock \/ \E rx : sock' = [sock EXCEPT !.rx = rx]
      BY <1>3, <2>4 DEF WorkerStep, StartTask, HandleRead, Recv, FeedParser, Dispatch,
         PrepareResponse, HandleWrite, Advance, FinishWrite, CheckAlive
    <3>2. sock'.tx = sock.tx /\ sock'.fin = sock.fin BY <3>1 DEF SockType
    <3>3. Longer BY <2>1, <3>2, SameStream
    <3>4. conn'.open = conn.open /\ conn'.handled \in {conn.handled, conn.handled + 1}
      <4>1. CASE FeedParser(w) BY <4>1, FeedCases DEF Refuses, Accepts, GoesOn
      <4>2. CASE ~FeedParser(w)
        BY <1>3, <2>4, <4>2 DEF WorkerStep, StartTask, HandleRead, Recv, Dispatch,
           PrepareResponse, HandleWrite, Advance, FinishWrite, Cleared, CheckAlive, ConnType
      <4>3. QED BY <4>1, <4>2
    <3>5. QED BY <1>3, <3>2, <3>3, <3>4 DEF Onward
  <2>5. QED BY <2>2, <2>3, <2>4
<1>4. QED BY <1>1, <1>2, <1>3

\* So does every other step, but for a hang-up and a time-out.
LEMMA OutsideOnward ==
  ASSUME TypeInv, ConnectionInv, client.got \in Seq(Wire),
         \/ HandleEvent \/ Quieten \/ CollectTimedOut \/ RemoveTimedOut \/ HangUp \/ UNCHANGED vars
         \/ Greet \/ SendUnit \/ Receive
  PROVE  \/ /\ Onward
            /\ (client' = client /\ Resting) \/ Greet \/ SendUnit \/ Receive
         \/ Shut /\ client' = client /\ (sock.fin \/ main.timedOut)
<1> USE DEF TypeInv
<1>1. CASE Resting
  <2>1. Longer BY <1>1, SameStream DEF Resting
  <2>2. QED BY <1>1, <2>1 DEF Onward, Resting
<1>2. CASE Greet \/ SendUnit
  <2>1. /\ conn' = conn
        /\ \E rx, armed : sock' = [sock EXCEPT !.rx = rx, !.armed = armed]
    BY <1>2 DEF Greet, SendUnit
  <2>2. sock'.tx = sock.tx /\ sock'.fin = sock.fin BY <2>1 DEF SockType
  <2>3. client'.got = client.got BY <1>2 DEF Greet, SendUnit, ClientType
  <2>4. Longer BY <2>2, <2>3, SameStream
  <2>5. QED BY <1>2, <2>1, <2>2, <2>4 DEF Onward
<1>3. CASE Receive
  <2>1. Stream' = Stream /\ client'.got \in Seq(Wire) BY <1>3, ReceiveStream
  <2>2. Longer BY <2>1 DEF Longer
  <2>3. /\ conn' = conn
        /\ \E tx, armed : sock' = [sock EXCEPT !.tx = tx, !.armed = armed, !.noSpace = FALSE]
    BY <1>3 DEF Receive
  <2>4. sock'.fin = sock.fin BY <2>3 DEF SockType
  <2>5. QED BY <1>3, <2>2, <2>3, <2>4 DEF Onward
<1>4. QED BY <1>1, <1>2, <1>3, EventLoopRests

\* A step that leaves the response alone keeps what is sent of it.
LEMMA UnderwayKept ==
  ASSUME Steady, Longer, NEW w \in Workers, Underway(w),
         Moves(w) \/ (work[w].pc = "recv" /\ work'[w].pc = "feed"),
         conn'.state = conn.state, conn'.out = conn.out, conn'.offset = conn.offset,
         conn'.parser = conn.parser,
         \/ conn'.flushed = conn.flushed /\ conn'.ssl = conn.ssl
         \/ conn.state = "READING" /\ (conn'.ssl # "flight" => conn'.flushed = 0)
  PROVE  Underway(w)'
<1>1. /\ Request' = Request /\ \A r, status : Response(r, status)' = Response(r, status)
      /\ \A r, status : Length(r, status)' = Length(r, status)
  BY ResponsesKept DEF Steady, Length, Kind
<1>2. \A r, m : SentTo(r, m) => SentTo(r, m)' BY LongerKeeps
<1>3. Answers(conn.out) => Answers(conn.out)' BY <1>1 DEF Answers
<1>4. conn.state = "READING" => Receiving(w)'
  BY DEF Underway, Receiving, Moves, Quiet, Sending
<1>5. conn.state = "PROCESSING" => Handling(w)'
  <2> SUFFICES ASSUME conn.state = "PROCESSING" PROVE Handling(w)' OBVIOUS
  <2>1. Handling(w) /\ conn'.flushed = conn.flushed BY DEF Underway
  <2>2. /\ work'[w].pc = "dispatch" => work[w].pc = "dispatch" /\ work'[w].arg = work[w].arg
        /\ work'[w].pc \notin {"send", "advance", "sent"}
    BY <2>1 DEF Handling, Moves, Quiet, Sending
  <2>3. SentTo(conn.parser.req, conn.flushed)' BY <1>2, <2>1 DEF Handling
  <2>4. QED BY <1>1, <2>1, <2>2, <2>3 DEF Handling
<1>6. conn.state = "WRITING" => Answering(w)'
  <2> SUFFICES ASSUME conn.state = "WRITING" PROVE Answering(w)' OBVIOUS
  <2>1. Answering(w) /\ conn'.flushed = conn.flushed BY DEF Underway
  <2>2. /\ work'[w].pc # "dispatch"
        /\ work'[w].pc = "advance" => work[w].pc = "advance" /\ work'[w].arg = work[w].arg
        /\ work[w].pc = "advance" => work'[w].pc = "advance"
    BY <2>1 DEF Answering, Moves, Quiet, Sending
  <2>3. Written(w)' = Written(w) BY <2>1, <2>2 DEF Written
  <2>4. SentTo(conn.parser.req, Written(w)) => SentTo(conn.parser.req, Written(w))'
    BY <1>2, <2>3
  <2>5. QED BY <1>3, <2>1, <2>2, <2>3, <2>4 DEF Answering
<1>7. work'[w].pc = "prepare" => conn'.parser.stage # "head" /\ Answers(work[w].arg)'
  <2> SUFFICES ASSUME work'[w].pc = "prepare"
               PROVE  conn'.parser.stage # "head" /\ Answers(work[w].arg)'
    OBVIOUS
  <2>1. work[w].pc = "prepare" /\ work'[w].arg = work[w].arg BY DEF Moves, Quiet, Sending
  <2>2. conn.parser.stage # "head" /\ Answers(work[w].arg) BY <2>1 DEF Underway
  <2>3. QED BY <1>1, <2>1, <2>2 DEF Answers
<1>8. QED BY <1>4, <1>5, <1>6, <1>7 DEF Underway

\* A state that the Connection may have while it is open, and what the worker is in then.
LEMMA OpenStates ==
  ASSUME TypeInv, ConnectionInv, conn.open
  PROVE  conn.state \in {"READING", "PROCESSING", "WRITING"}
BY DEF TypeInv, ConnType, ConnectionInv, ClosedInv

\* One flight of the handshake: the Connection is closed when the client hangs up in it or
\* sends something else.
LEMMA HandshakeCause ==
  ASSUME TypeInv, ConnectionInv, GreetingInv, Steady, Onward, conn.open, ~sock.fin,
         NEW w \in Workers, Handshake(w), Underway(w)
  PROVE  Doing(w)'
<1> USE DEF TypeInv
<1>1. client' = client /\ work[w].pc = "accept" BY DEF Handshake
<1>2. ~Shaken(conn) /\ conn.ssl \in {"hello", "flight", "finish"}
  BY <1>1 DEF WorkType, WorkOf, ConnType, Shaken
<1>3. conn.state = "READING" BY <1>2, OpenStates DEF GreetingInv
<1>4. ASSUME work'[w].pc \in Quiet, conn'.state = conn.state, conn'.out = conn.out,
             conn'.offset = conn.offset, conn'.parser = conn.parser,
             conn'.ssl # "flight" => conn'.flushed = 0
      PROVE  Doing(w)'
  <2>1. Moves(w) /\ work'[w].pc # "close" BY <1>1, <1>4 DEF Moves, Quiet
  <2>2. Underway(w)' BY <1>3, <1>4, <2>1, UnderwayKept DEF Onward
  <2>3. QED BY <2>1, <2>2 DEF Doing
<1>5. conn.ssl # "flight" => conn.flushed = 0 BY <1>3 DEF Underway, Receiving
<1>6. Leave(w) \/ NextFlight(w) \/ Goto(w, "recv") => work'[w].pc \in Quiet
  <2>1. CASE Leave(w) BY <2>1, Went DEF Quiet
  <2>2. CASE NextFlight(w) BY <1>1, <2>2 DEF NextFlight, Quiet
  <2>3. CASE Goto(w, "recv") BY <2>3, Went DEF Quiet
  <2>4. QED BY <2>1, <2>2, <2>3
<1>7. CASE conn.ssl = "flight"
  <2>1. \/ conn' = [conn EXCEPT !.ssl = "finish", !.flushed = 0] /\ NextFlight(w)
        \/ \E n : conn' = [conn EXCEPT !.flushed = @ + n, !.wantWrite = TRUE] /\ Leave(w)
    BY <1>7 DEF Handshake
  <2>2. /\ conn'.state = conn.state /\ conn'.out = conn.out /\ conn'.offset = conn.offset
        /\ conn'.parser = conn.parser /\ (conn'.ssl # "flight" => conn'.flushed = 0)
    BY <1>7, <2>1 DEF ConnType
  <2>3. QED BY <1>4, <1>6, <2>1, <2>2
<1>8. CASE conn.ssl # "flight" /\ sock.rx = <<>>
  <2>1. conn' = conn /\ Leave(w) BY <1>8 DEF Handshake
  <2>2. QED BY <1>4, <1>5, <1>6, <2>1
<1>9. CASE conn.ssl # "flight" /\ sock.rx # <<>>
  <2>1. \/ conn' = conn /\ Goto(w, "close") /\ Head(sock.rx) = Garbage
        \/ conn' = [conn EXCEPT !.ssl = "flight"] /\ NextFlight(w)
        \/ conn' = [conn EXCEPT !.ssl = "done", !.quiet = FALSE] /\ Goto(w, "recv")
    BY <1>9 DEF Handshake
  <2>2. CASE Head(sock.rx) = Garbage /\ conn' = conn /\ Goto(w, "close")
    <3>1. sock.rx[1] = Garbage /\ 1 \in 1..Len(sock.rx)
      <4>1. Len(sock.rx) \in Nat /\ Len(sock.rx) # 0 BY <1>9, EmptySeq DEF SockType
      <4>2. QED BY <1>9, <2>2, <4>1
    <3>2. conn.ssl = "hello" BY <3>1 DEF GreetingInv
    <3>3. work'[w].pc = "close" BY <2>2, Went
    <3>4. Concluded' BY <2>2, <3>2 DEF Concluded
    <3>5. QED BY <3>3, <3>4 DEF Doing
  <2>3. CASE \/ conn' = [conn EXCEPT !.ssl = "flight"] /\ NextFlight(w)
             \/ conn' = [conn EXCEPT !.ssl = "done", !.quiet = FALSE] /\ Goto(w, "recv")
    <3>1. /\ conn'.state = conn.state /\ conn'.out = conn.out /\ conn'.offset = conn.offset
          /\ conn'.parser = conn.parser /\ (conn'.ssl # "flight" => conn'.flushed = 0)
      BY <1>5, <1>9, <2>3 DEF ConnType
    <3>2. QED BY <1>4, <1>6, <2>3, <3>1
  <2>4. QED BY <2>1, <2>2, <2>3
<1>10. QED BY <1>7, <1>8, <1>9

\* A worker that receives closes the Connection only when the client hung up.
LEMMA RecvCause ==
  ASSUME TypeInv, Steady, Onward, conn.open, ~sock.fin,
         NEW w \in Workers, Recv(w), Underway(w)
  PROVE  Doing(w)'
<1> USE DEF TypeInv
<1>1. /\ work[w].pc = "recv" /\ conn' = [conn EXCEPT !.unread = FALSE]
      /\ Leave(w) \/ \E arg : GotoWith(w, "feed", arg)
  BY DEF Recv, ClosesOnRead
<1>2. work'[w].pc \in {"write", "check", "feed"} BY <1>1, Went
<1>3. Moves(w) \/ work'[w].pc = "feed" BY <1>1, <1>2 DEF Moves, Quiet
<1>4. /\ conn'.state = conn.state /\ conn'.out = conn.out /\ conn'.offset = conn.offset
      /\ conn'.parser = conn.parser /\ conn'.flushed = conn.flushed /\ conn'.ssl = conn.ssl
  BY <1>1 DEF ConnType
<1>5. Underway(w)' BY <1>1, <1>3, <1>4, UnderwayKept DEF Onward
<1>6. QED BY <1>2, <1>5 DEF Doing

\* A parser that is past its request takes no more of one; otherwise nothing has been
\* sent of a response to the request that it goes on with.
LEMMA FeedCause ==
  ASSUME TypeInv, ConnectionInv, GreetingInv, Steady, Onward, conn.open,
         NEW w \in Workers, FeedParser(w), Underway(w)
  PROVE  Doing(w)'
<1> USE DEF TypeInv
<1>1. /\ work[w].pc = "feed" /\ conn'.out = conn.out /\ conn'.offset = conn.offset
      /\ conn'.flushed = conn.flushed /\ conn'.ssl = conn.ssl /\ conn'.parser = Fed(w).parser
      /\ conn'.parser.req \in Request
      /\ Fed(w).result = "ERROR" => conn'.parser.stage = "error"
      /\ Fed(w).result = "COMPLETE" => conn'.parser.stage = "complete"
      /\ Fed(w).result = "NEED_MORE_DATA" => conn'.parser.stage = "body"
      /\ Refuses(w) \/ Accepts(w) \/ GoesOn(w)
  BY FeedCases
<1>2. conn.state \in {"READING", "PROCESSING", "WRITING"} BY OpenStates
<1>3. /\ Request' = Request /\ \A r, status : Response(r, status)' = Response(r, status)
      /\ \A r, status : Length(r, status)' = Length(r, status)
  BY ResponsesKept DEF Steady, Length, Kind
<1>4. \A r, m : SentTo(r, m) => SentTo(r, m)' BY LongerKeeps DEF Onward
<1>5. work'[w].pc \in {"prepare", "dispatch", "recv"} BY <1>1 DEF Refuses, Accepts, GoesOn
<1>6. conn.flushed \in Nat /\ conn.offset \in Nat /\ Written(w) = conn.offset + conn.flushed
      /\ Written(w)' = Written(w)
  BY <1>1, <1>5 DEF ConnType, Written
<1>7. CASE conn.parser.stage = "complete"
  <2>1. conn'.parser.stage = "complete" /\ conn'.parser.req = conn.parser.req /\ Accepts(w)
    <3> DEFINE p == conn.parser
               chunk == work[w].arg
               fed == Fed(w)
    <3>1. fed = Feed(p, chunk) BY DEF Fed
    <3>2. ParserOf(p) OBVIOUS
    <3> HIDE DEF fed
    <3>3. KeepsAll(p, chunk, fed) BY <1>7, <3>1, <3>2, FeedPast
    <3>4. /\ conn'.parser.stage = "complete" /\ conn'.parser.req = conn.parser.req
          /\ Fed(w).result # "NEED_MORE_DATA"
      BY <1>1, <1>7, <3>3 DEF KeepsAll, fed
    <3>5. Fed(w).result # "ERROR" BY <1>1, <3>4
    <3>6. QED BY <1>1, <3>4, <3>5 DEF Refuses, GoesOn
  <2>2. conn.state # "READING" BY <1>7 DEF Underway, Receiving
  <2>3. /\ SentTo(conn.parser.req, conn.flushed)
        /\ conn.flushed <= Length(conn.parser.req, "ok")
    <3>1. CASE conn.state = "PROCESSING" BY <3>1 DEF Underway, Handling
    <3>2. CASE conn.state = "WRITING"
      <4>1. /\ Answers(conn.out) /\ Written(w) <= Len(conn.out)
            /\ SentTo(conn.parser.req, Written(w))
        BY <1>7, <3>2 DEF Underway, Answering
      <4>2. PICK r \in Request, status \in Status :
              conn.out = Response(r, status) /\ r = conn.parser.req /\ status = "ok"
        BY <1>7, <4>1 DEF Answers
      <4>3. Len(conn.out) = Length(conn.parser.req, "ok")
        BY <4>2, ResponseFacts
      <4>4. Len(conn.out) \in Nat /\ conn.flushed <= Written(w) BY <1>6 DEF ConnType
      <4>5. conn.flushed <= Len(conn.out) BY <1>6, <4>1, <4>4
      <4>6. \A i \in 1..conn.flushed : i \in 1..Written(w) BY <1>6
      <4>7. SentTo(conn.parser.req, conn.flushed) BY <4>1, <4>6 DEF SentTo
      <4>8. QED BY <4>3, <4>5, <4>7
    <3>3. QED BY <1>2, <2>2, <3>1, <3>2
  <2>4. SentTo(conn.parser.req, conn.flushed)' BY <1>1, <1>4, <2>1, <2>3
  <2>5. Handling(w)' BY <1>1, <1>3, <2>1, <2>3, <2>4 DEF Handling, Accepts
  <2>6. QED BY <1>5, <2>1, <2>5 DEF Doing, Underway, Accepts
<1>8. CASE conn.parser.stage # "complete"
  <2>1. conn.state \in {"READING", "WRITING"} BY <1>2, <1>8 DEF Underway, Handling
  <2>2. conn.flushed = 0
    <3>1. CASE conn.state = "READING"
      <4>1. Shaken(conn) BY <1>1 DEF WorkType, WorkOf
      <4>2. QED BY <3>1, <4>1 DEF Underway, Receiving, Shaken
    <3>2. CASE conn.state = "WRITING"
      <4>1. Written(w) = 0 BY <1>8, <3>2 DEF Underway, Answering
      <4>2. QED BY <1>6, <4>1
    <3>3. QED BY <2>1, <3>1, <3>2
  <2>3. CASE Accepts(w)
    <3>1. /\ conn'.parser.stage = "complete" /\ conn'.state = "PROCESSING"
          /\ work'[w].pc = "dispatch" /\ work'[w].arg.req = conn'.parser.req
      BY <1>1, <2>3 DEF Accepts
    <3>2. SentTo(conn.parser.req, conn.flushed)' BY <1>1, <2>2 DEF SentTo
    <3>3. conn'.flushed <= Length(conn.parser.req, "ok")'
      <4> DEFINE r == conn'.parser.req
      <4>1. r \in Request /\ "ok" \in Status BY <1>1 DEF Status
      <4> HIDE DEF r
      <4>2. Length(r, "ok") \in Nat BY <4>1, ResponseFacts
      <4>3. conn'.flushed <= Length(r, "ok") BY <1>1, <2>2, <4>2
      <4>4. QED BY <1>3, <4>3 DEF r
    <3>4. Handling(w)' BY <3>1, <3>2, <3>3 DEF Handling
    <3>5. QED BY <3>1, <3>4 DEF Doing, Underway
  <2>4. CASE Refuses(w) \/ GoesOn(w)
    <3>1. /\ conn'.parser.stage \in {"error", "body"} /\ conn'.state = conn.state
          /\ work'[w].pc \in {"prepare", "recv"}
      BY <1>1, <2>4 DEF Refuses, GoesOn
    <3>2. work'[w].pc = "prepare" => Answers(work[w].arg)'
      <4> SUFFICES ASSUME work'[w].pc = "prepare" PROVE Answers(work[w].arg)' OBVIOUS
      <4>1. PICK status \in {"400", "413"} : work'[w].arg = Response(conn'.parser.req, status)
        BY <2>4 DEF Refuses, GoesOn
      <4>2. status \in Status /\ status # "ok" BY <4>1 DEF Status
      <4> DEFINE r == conn'.parser.req
      <4>3. r \in Request /\ work'[w].arg = Response(r, status) BY <1>1, <4>1
      <4> HIDE DEF r
      <4>4. QED BY <1>3, <3>1, <4>2, <4>3 DEF Answers
    <3>3. conn.state = "READING" => Receiving(w)'
      BY <1>1, <2>2, <3>1 DEF Receiving
    <3>4. conn.state = "WRITING" => Answering(w)'
      <4> SUFFICES ASSUME conn.state = "WRITING" PROVE Answering(w)' OBVIOUS
      <4>1. Answers(conn.out) /\ Written(w) <= Len(conn.out) /\ Written(w) = 0
        BY <1>8 DEF Underway, Answering
      <4>2. Answers(conn.out)' BY <1>1, <1>3, <1>8, <3>1, <4>1 DEF Answers
      <4>3. QED BY <1>1, <1>6, <3>1, <4>1, <4>2 DEF Answering
    <3>5. QED BY <2>1, <3>1, <3>2, <3>3, <3>4 DEF Doing, Underway
  <2>5. QED BY <1>1, <2>3, <2>4
<1>9. QED BY <1>7, <1>8

\* The handler's response is the one to the request at hand.
LEMMA DispatchCause ==
  ASSUME TypeInv, ConnectionInv, Steady, Onward, conn.open,
         NEW w \in Workers, Dispatch(w), Underway(w)
  PROVE  Doing(w)'
<1> USE DEF TypeInv
<1>1. conn' = conn /\ work[w].pc = "dispatch" BY DEF Dispatch
<1>2. conn.state = "PROCESSING" BY <1>1, OpenStates DEF Underway, Receiving, Answering
<1>3. Handling(w) BY <1>2 DEF Underway
<1>4. /\ conn.parser.stage = "complete" /\ SentTo(conn.parser.req, conn.flushed)
      /\ conn.flushed <= Length(conn.parser.req, "ok") /\ work[w].arg.req = conn.parser.req
      /\ conn.parser.req \in Request
  BY <1>1, <1>3 DEF Handling, ParserOf
<1>5. \/ work'[w].pc = "idle"
      \/ work'[w].pc = "prepare" /\ work'[w].arg = Response(conn.parser.req, "ok")
  <2>1. CASE work' = [work EXCEPT ![w] = IdleWorker] BY <2>1, Went
  <2>2. CASE GotoWith(w, "prepare", Response(work[w].arg.req, "ok")) BY <1>4, <2>2, Went
  <2>3. QED BY <2>1, <2>2 DEF Dispatch
<1>6. \A r, m : SentTo(r, m) => SentTo(r, m)' BY LongerKeeps DEF Onward
<1>7. /\ Request' = Request /\ \A r, status : Response(r, status)' = Response(r, status)
      /\ \A r, status : Length(r, status)' = Length(r, status)
  BY ResponsesKept DEF Steady, Length, Kind
<1>8. SentTo(conn.parser.req, conn.flushed)' BY <1>1, <1>4, <1>6
<1>9. Handling(w)' BY <1>1, <1>4, <1>5, <1>7, <1>8 DEF Handling
<1>10. work'[w].pc = "prepare" => Answers(work[w].arg)'
  BY <1>1, <1>4, <1>5, <1>7 DEF Answers, Status
<1>11. QED BY <1>1, <1>2, <1>4, <1>5, <1>9, <1>10 DEF Doing, Underway

\* The response replaces what was left of the one before.
LEMMA PrepareCause ==
  ASSUME TypeInv, ConnectionInv, GreetingInv, Steady, Onward, conn.open,
         NEW w \in Workers, PrepareResponse(w), Underway(w)
  PROVE  Doing(w)'
<1> USE DEF TypeInv
<1> DEFINE arg == work[w].arg
<1>1. work[w].pc = "prepare" /\ GotoWith(w, "write", <<>>) BY DEF PrepareResponse
<1>2. /\ conn'.state = "WRITING" /\ conn'.out = arg /\ conn'.offset = 0
      /\ conn'.parser = conn.parser /\ conn'.flushed = conn.flushed /\ conn'.ssl = conn.ssl
  BY DEF PrepareResponse, ConnType
<1>3. work'[w].pc = "write" BY <1>1, Went
<1>4. conn.parser.stage # "head" /\ Answers(arg) BY <1>1 DEF Underway
<1>5. conn.flushed \in Nat /\ conn.offset \in Nat /\ Written(w) = conn.offset + conn.flushed
      /\ Written(w)' = conn.flushed
  BY <1>1, <1>2, <1>3 DEF ConnType, Written
<1>6. PICK r \in Request, status \in Status :
        /\ arg = Response(r, status)
        /\ IF conn.parser.stage = "complete" THEN r = conn.parser.req /\ status = "ok"
           ELSE status # "ok"
  BY <1>4 DEF Answers
<1>7. Len(arg) = Length(r, status) /\ Len(arg) \in Nat BY <1>6, ResponseFacts
<1>8. conn.state \in {"READING", "PROCESSING", "WRITING"} BY OpenStates
<1>9. /\ conn.flushed <= Len(arg)
      /\ IF conn.parser.stage = "complete" THEN SentTo(conn.parser.req, conn.flushed)
         ELSE conn.flushed = 0
  <2>1. CASE conn.state = "READING"
    <3>1. Shaken(conn) BY <1>1 DEF GreetingInv, UnshakenPC
    <3>2. conn.parser.stage # "complete" /\ conn.flushed = 0
      BY <2>1, <3>1 DEF Underway, Receiving, Shaken
    <3>3. QED BY <1>7, <3>2
  <2>2. CASE conn.state = "PROCESSING"
    BY <1>6, <1>7, <2>2 DEF Underway, Handling
  <2>3. CASE conn.state = "WRITING"
    <3>1. Answering(w) BY <2>3 DEF Underway
    <3>2. CASE conn.parser.stage = "complete"
      <4>1. conn.out = arg
        <5>1. PICK x \in Request, s \in Status :
                conn.out = Response(x, s) /\ x = conn.parser.req /\ s = "ok"
          BY <3>1, <3>2 DEF Answering, Answers
        <5>2. QED BY <1>6, <3>2, <5>1
      <4>2. Written(w) <= Len(arg) /\ SentTo(conn.parser.req, Written(w))
        BY <3>1, <3>2, <4>1 DEF Answering
      <4>3. \A i \in 1..conn.flushed : i \in 1..Written(w) BY <1>5
      <4>4. SentTo(conn.parser.req, conn.flushed) BY <4>2, <4>3 DEF SentTo
      <4> HIDE DEF arg
      <4>5. conn.flushed <= Len(arg) BY <1>5, <1>7, <4>2
      <4>6. QED BY <3>2, <4>4, <4>5
    <3>3. CASE conn.parser.stage # "complete"
      <4>1. Written(w) = 0 BY <3>1, <3>3 DEF Answering
      <4>2. conn.flushed = 0 BY <1>5, <4>1
      <4>3. QED BY <1>7, <3>3, <4>2
    <3>4. QED BY <3>2, <3>3
  <2>4. QED BY <1>8, <2>1, <2>2, <2>3
<1>10. \A x, m : SentTo(x, m) => SentTo(x, m)' BY LongerKeeps DEF Onward
<1>11. /\ Request' = Request /\ \A x, s : Response(x, s)' = Response(x, s)
  BY ResponsesKept DEF Steady
<1>12. Answers(conn.out)' BY <1>2, <1>6, <1>11 DEF Answers
<1>13. IF conn'.parser.stage = "complete" THEN SentTo(conn.parser.req, Written(w))'
       ELSE Written(w)' = 0
  <2>1. CASE conn.parser.stage = "complete"
    <3>1. SentTo(conn.parser.req, conn.flushed)' BY <1>2, <1>9, <1>10, <2>1
    <3>2. QED BY <1>2, <1>5, <2>1, <3>1
  <2>2. CASE conn.parser.stage # "complete" BY <1>2, <1>5, <1>9, <2>2
  <2>3. QED BY <2>1, <2>2
<1>14. Answering(w)' BY <1>2, <1>3, <1>4, <1>5, <1>9, <1>12, <1>13 DEF Answering
<1>15. QED BY <1>2, <1>3, <1>14 DEF Doing, Underway

\* What is sent is the next part of the response, or the client is refused.
LEMMA SendCause ==
  ASSUME TypeInv, ConnectionInv, Steady, Onward, conn.open, client.got \in Seq(Wire),
         NEW w \in Workers, Send(w), Underway(w)
  PROVE  Excused' \/ Doing(w)'
<1> USE DEF TypeInv
<1>1. work[w].pc = "send" /\ client' = client BY DEF Send
<1>2. conn.state = "WRITING" BY <1>1, OpenStates DEF Underway, Receiving, Handling
<1>3. Answering(w) BY <1>2 DEF Underway
<1>4. conn.flushed \in Nat /\ conn.offset \in Nat /\ Written(w) = conn.offset + conn.flushed
      /\ Len(conn.out) \in Nat
  BY <1>1 DEF ConnType, Written
<1>5. ~(Len(conn.out) < conn.offset + conn.flushed) BY <1>3, <1>4 DEF Answering
<1>6. CASE UNCHANGED <<conn, sock>> /\ Goto(w, "sent")
  <2>1. work'[w].pc = "sent" BY <1>6, Went
  <2>2. Moves(w) BY <1>1, <1>2, <2>1 DEF Moves, Quiet, Sending
  <2>3. Underway(w)' BY <1>6, <2>2, UnderwayKept DEF Onward
  <2>4. QED BY <2>1, <2>3 DEF Doing
<1>7. CASE Writes(w)
  <2>1. /\ work'[w].pc \in {"sent", "advance"} /\ Written(w)' = Written(w) + Fits
        /\ conn'.state = conn.state /\ conn'.parser = conn.parser /\ conn'.out = conn.out
    BY <1>1, <1>7, SendWritten
  <2>2. \A i \in 1..Fits : \E k \in 1..Len(Stream)' :
           /\ conn.offset + conn.flushed + i \in 1..Len(conn.out)
           /\ Stream'[k] = conn.out[conn.offset + conn.flushed + i]
    BY <1>1, <1>7, SendLonger
  <2>3. Fits \in Nat /\ Written(w) + Fits <= Len(conn.out)
    <3>1. conn.offset + conn.flushed <= Len(conn.out) BY <1>7 DEF Writes
    <3>2. Fits \in 0..Len(Left) /\ Len(Left) = Len(conn.out) - (conn.offset + conn.flushed)
      BY <3>1, TakenFacts
    <3>3. QED BY <1>4, <3>1, <3>2
  <2>4. PICK r \in Request, status \in Status :
          /\ conn.out = Response(r, status)
          /\ IF conn.parser.stage = "complete" THEN r = conn.parser.req /\ status = "ok"
             ELSE status # "ok"
    BY <1>3 DEF Answering, Answers
  <2>5. \A i \in 1..Len(conn.out) : conn.out[i] = <<r, i, status>> BY <2>4, ResponseFacts
  <2>6. /\ Request' = Request /\ \A x, s : Response(x, s)' = Response(x, s)
    BY ResponsesKept DEF Steady
  <2>7. Answers(conn.out)' BY <2>1, <2>4, <2>6 DEF Answers
  <2>8. CASE conn.parser.stage = "complete"
    <3>1. r = conn.parser.req /\ status = "ok" BY <2>4, <2>8
    <3>2. SentTo(r, Written(w)) BY <1>3, <2>8, <3>1 DEF Answering
    <3>3. ASSUME NEW i \in 1..(Written(w) + Fits)
          PROVE  \E k \in 1..Len(Stream)' : Stream'[k] = <<r, i, "ok">>
      <4>1. CASE i <= Written(w)
        <5>1. i \in 1..Written(w) BY <1>4, <2>3, <4>1
        <5>2. PICK k \in 1..Len(Stream) : Stream[k] = <<r, i, "ok">> BY <3>2, <5>1 DEF SentTo
        <5>3. QED BY <5>2 DEF Onward, Longer
      <4>2. CASE ~(i <= Written(w))
        <5> DEFINE j == i - Written(w)
        <5>1. j \in 1..Fits /\ conn.offset + conn.flushed + j = i BY <1>4, <2>3, <4>2
        <5> HIDE DEF j
        <5>2. PICK k \in 1..Len(Stream)' : i \in 1..Len(conn.out) /\ Stream'[k] = conn.out[i]
          BY <2>2, <5>1
        <5>3. QED BY <2>5, <3>1, <5>2
      <4>3. QED BY <4>1, <4>2
    <3>4. SentTo(conn.parser.req, Written(w))' BY <2>1, <3>1, <3>3 DEF SentTo
    <3>5. Answering(w)' BY <1>3, <2>1, <2>3, <2>7, <2>8, <3>4 DEF Answering
    <3>6. QED BY <1>2, <2>1, <3>5 DEF Doing, Underway
  <2>9. CASE conn.parser.stage # "complete"
    <3>1. Written(w) = 0 /\ status # "ok" BY <1>3, <2>4, <2>9 DEF Answering
    <3>2. CASE Fits = 0
      <4>1. Written(w)' = 0 BY <2>1, <3>1, <3>2
      <4>2. Answering(w)' BY <1>3, <1>4, <2>1, <2>7, <2>9, <4>1 DEF Answering
      <4>3. QED BY <1>2, <2>1, <4>2 DEF Doing, Underway
    <3>3. CASE Fits # 0
      <4>1. 1 \in 1..Fits BY <2>3, <3>3
      <4>2. PICK k \in 1..Len(Stream)' :
              /\ conn.offset + conn.flushed + 1 \in 1..Len(conn.out)
              /\ Stream'[k] = conn.out[conn.offset + conn.flushed + 1]
        BY <2>2, <4>1
      <4>3. Stream'[k][3] # "ok" BY <2>5, <3>1, <4>2
      <4>4. QED BY <4>3 DEF Excused, Refused
    <3>4. QED BY <3>2, <3>3
  <2>10. QED BY <2>8, <2>9
<1>8. CASE UNCHANGED <<conn, sock>> /\ Goto(w, "close")
  <2>1. conn.offset < Len(conn.out) => FALSE
    <3>1. SUFFICES ASSUME conn.offset < Len(conn.out) PROVE FALSE OBVIOUS
    <3>2. work'[w].pc = "close" BY <1>8, Went
    <3>3. ~(conn.offset >= Len(conn.out)) BY <1>4, <3>1
    <3>4. Goto(w, "sent") \/ \E n : GotoWith(w, "advance", n) BY <1>5, <3>1, <3>3 DEF Send
    <3>5. work'[w].pc \in {"sent", "advance"} BY <3>4, Went
    <3>6. QED BY <3>2, <3>5
  <2>2. conn.offset >= Len(conn.out) BY <1>4, <2>1
  <2>3. ~(conn.offset < Len(conn.out)) BY <1>4, <2>2
  <2>4. Goto(w, "sent") BY <2>2, <2>3, Zenon DEF Send
  <2>5. QED BY <1>6, <1>8, <2>4
<1>9. QED BY <1>6, <1>7, <1>8, SendCases

\* A worker moves on in the response.
LEMMA AdvanceCause ==
  ASSUME TypeInv, ConnectionInv, Steady, Onward, conn.open,
         NEW w \in Workers, Advance(w), Underway(w)
  PROVE  Doing(w)'
<1> USE DEF TypeInv
<1>1. work[w].pc = "advance" /\ GotoWith(w, "send", <<>>) BY DEF Advance
<1>2. conn' = [conn EXCEPT !.offset = @ + work[w].arg] BY DEF Advance, Advanced
<1>3. /\ conn'.state = conn.state /\ conn'.out = conn.out /\ conn'.parser = conn.parser
      /\ conn'.flushed = conn.flushed /\ conn'.offset = conn.offset + work[w].arg
  BY <1>2 DEF ConnType
<1>4. work'[w].pc = "send" BY <1>1, Went
<1>5. conn.state = "WRITING" BY <1>1, OpenStates DEF Underway, Receiving, Handling
<1>6. Answering(w) BY <1>5 DEF Underway
<1>7. work[w].arg \in Nat BY <1>1 DEF WorkType, WorkOf
<1>8. Written(w)' = Written(w)
  <2>1. conn.flushed \in Nat /\ conn.offset \in Nat BY DEF ConnType
  <2>2. Written(w) = conn.offset + conn.flushed + work[w].arg BY <1>1 DEF Written
  <2>3. Written(w)' = conn.offset + work[w].arg + conn.flushed + 0 BY <1>3, <1>4 DEF Written
  <2>4. QED BY <1>7, <2>1, <2>2, <2>3
<1>9. \A r, m : SentTo(r, m) => SentTo(r, m)' BY LongerKeeps DEF Onward
<1>10. /\ Request' = Request /\ \A r, s : Response(r, s)' = Response(r, s)
  BY ResponsesKept DEF Steady
<1>11. Answers(conn.out)' BY <1>3, <1>6, <1>10 DEF Answering, Answers
<1>12. SentTo(conn.parser.req, Written(w)) => SentTo(conn.parser.req, Written(w))'
  BY <1>3, <1>8, <1>9
<1>13. Answering(w)' BY <1>3, <1>4, <1>6, <1>8, <1>11, <1>12 DEF Answering
<1>14. QED BY <1>3, <1>4, <1>5, <1>13 DEF Doing, Underway

\* At the end of a response the Connection goes on, or the client has been told that its
\* last request would be the last.
LEMMA FinishCause ==
  ASSUME TypeInv, ConnectionInv, KeepsInv, Steady, Onward, conn.open, ~Excused,
         NEW w \in Workers, FinishWrite(w), Ordered(w), Underway(w)
  PROVE  Doing(w)'
<1> USE DEF TypeInv
<1>1. work[w].pc = "sent" /\ client' = client BY DEF FinishWrite
<1>2. conn.state = "WRITING" BY <1>1, OpenStates DEF Underway, Receiving, Handling
<1>3. Answering(w) BY <1>2 DEF Underway
<1>4. conn.flushed \in Nat /\ conn.offset \in Nat /\ Written(w) = conn.offset + conn.flushed
      /\ Len(conn.out) \in Nat /\ Written(w) <= Len(conn.out) /\ conn.handled < MaxRequests
  BY <1>1, <1>3, ConnectionAssumption DEF ConnType, Written, Answering, Excused
<1>5. CASE conn.offset < Len(conn.out)
  <2>1. Leave(w) /\ conn' = conn BY <1>5 DEF FinishWrite
  <2>2. work'[w].pc \in {"write", "check"} BY <2>1, Went
  <2>3. Moves(w) BY <1>1, <2>2 DEF Moves, Quiet, Sending
  <2>4. Underway(w)' BY <2>1, <2>3, UnderwayKept DEF Onward
  <2>5. QED BY <2>2, <2>4 DEF Doing
<1>6. CASE ~(conn.offset < Len(conn.out)) /\ KeepsAlive(conn)
  <2>1. Leave(w) BY <1>6 DEF FinishWrite
  <2>2. conn'.state = "READING" /\ conn'.parser = NewParser /\ conn'.flushed = conn.flushed
    <3>1. conn' = [Cleared(conn) EXCEPT !.parser = NewParser, !.state = "READING",
                                        !.dropped = @ \/ conn.parser.buffer # <<>>]
      BY <1>6 DEF FinishWrite, Reset
    <3>2. QED BY <3>1 DEF Cleared, ConnType
  <2>3. work'[w].pc \in {"write", "check"} BY <2>1, Went
  <2>4. conn.flushed = 0 BY <1>4, <1>6
  <2>5. Receiving(w)' BY <2>2, <2>3, <2>4 DEF Receiving, NewParser
  <2>6. QED BY <2>2, <2>3, <2>5 DEF Doing, Underway
<1>7. CASE ~(conn.offset < Len(conn.out)) /\ ~KeepsAlive(conn)
  <2>1. Goto(w, "close") BY <1>7 DEF FinishWrite
  <2>2. work'[w].pc = "close" BY <2>1, Went
  <2>3. Written(w) = Len(conn.out) BY <1>4, <1>7
  <2>4. PICK r \in Request, status \in Status :
          /\ conn.out = Response(r, status)
          /\ IF conn.parser.stage = "complete" THEN r = conn.parser.req /\ status = "ok"
             ELSE status # "ok"
    BY <1>3 DEF Answering, Answers
  <2>5. Len(conn.out) = Length(r, status) /\ Length(r, status) \in Nat \ {0}
    BY <2>4, ResponseFacts
  <2>6. conn.parser.stage = "complete" BY <1>3, <2>3, <2>5 DEF Answering
  <2>7. r = conn.parser.req /\ status = "ok" BY <2>4, <2>6
  <2>8. ~Kind(r).keep BY <1>4, <1>7, <2>6, <2>7 DEF KeepsAlive, UnderLimit
  <2>9. HasResponse(Stream, r)
    <3> DEFINE n == Length(r, "ok")
    <3>1. SentTo(r, n) BY <1>3, <2>3, <2>5, <2>6, <2>7 DEF Answering
    <3>2. n \in 1..n BY <2>5, <2>7
    <3>3. PICK k \in 1..Len(Stream) : Stream[k] = <<r, n, "ok">> BY <3>1, <3>2 DEF SentTo
    <3>4. Stream[k][1] = r /\ Stream[k][2] = Length(r, Stream[k][3]) BY <3>3
    <3>5. QED BY <3>4 DEF HasResponse
  <2>10. client.req = r + 1
    <3> DEFINE q == Input(w)
    <3>1. Ahead \in 0..Len(sock.rx) /\ Contiguous(client.script, q) /\ q[1] = <<r + 1, 0>>
      BY <2>6, <2>7 DEF Ordered, AheadInv, Awaits
    <3>2. q \in Seq(Pair) /\ q # <<>> BY <3>1, InputTypes
    <3>3. q[Len(q)] = <<client.req, client.pos>> BY <3>1, LastOfInput
    <3> HIDE DEF q
    <3>4. Len(q) \in 1..Len(q)
      <4>1. Len(q) \in Nat /\ Len(q) # 0 BY <3>2, EmptySeq
      <4>2. QED BY <4>1
    <3> DEFINE l == Len(q)
    <3>5. l \in 1..Len(q) BY <3>4
    <3> HIDE DEF l
    <3>6. q[1][1] <= q[l][1] BY <3>1, <3>2, <3>5, NeverEarlier
    <3>7. r + 1 <= client.req BY <3>1, <3>3, <3>6 DEF l
    <3>8. r \in Nat \ {0} /\ client.req \in Nat
      BY ScriptFacts DEF ClientType, Request
    <3>9. ~(r < client.req - 1)
      <4>1. r \in 1..(client.req - 1) BY <3>7, <3>8
      <4>2. QED BY <2>8, <4>1 DEF KeepsInv
    <3>10. QED BY <3>7, <3>8, <3>9
  <2>11. r \in Nat \ {0} BY ScriptFacts
  <2>12. client.req > 1 /\ client.req - 1 = r BY <2>10, <2>11
  <2>13. HasResponse(Stream, r)' BY <2>9, LongerKeeps DEF Onward
  <2>14. Concluded'
    <3>1. client'.req > 1 /\ client'.req - 1 = r BY <1>1, <2>12
    <3>2. ~client'.script[client'.req - 1].keep BY <1>1, <2>8, <3>1 DEF Kind
    <3>3. HasResponse(Stream, client.req - 1)' BY <1>1, <2>12, <2>13
    <3>4. QED BY <3>1, <3>2, <3>3 DEF Concluded, Kind
  <2>15. QED BY <2>2, <2>14 DEF Doing
<1>8. QED BY <1>5, <1>6, <1>7

\* A step of the client's alone, or of none, keeps to what a client does.
LEMMA KeepsStep ==
  ASSUME ClientType, KeepsInv, Steady,
         client' = client \/ Greet \/ SendUnit \/ Receive
  PROVE  KeepsInv'
<1>1. CASE client'.req = client.req /\ client'.pos = client.pos
  BY <1>1 DEF KeepsInv, Kind, Steady
<1>2. CASE Greet \/ Receive
  <2>1. \/ \E hs : client' = [client EXCEPT !.hs = hs]
        \/ \E n : client' = [client EXCEPT !.seen = n]
        \/ \E g : client' = [client EXCEPT !.got = g]
    BY <1>2 DEF Greet, Receive
  <2>2. client'.req = client.req /\ client'.pos = client.pos BY <2>1 DEF ClientType
  <2>3. QED BY <1>1, <2>2
<1>3. CASE SendUnit
  <2>1. \/ client' = [client EXCEPT !.pos = @ + 1]
        \/ client' = [client EXCEPT !.pos = 0, !.req = @ + 1]
    BY <1>3 DEF SendUnit
  <2>2. \/ client'.req = client.req
        \/ client'.req = client.req + 1 /\ client'.pos = 0
    BY <2>1 DEF ClientType
  <2>3. client.req \in Nat /\ client.pos \in Nat
    <3>1. Len(client.script) \in Nat BY ScriptFacts
    <3>2. QED BY <3>1 DEF ClientType
  <2>4. client.pos = 0 /\ client.req > 1 => Kind(client.req - 1).keep BY <1>3 DEF SendUnit
  <2>5. ASSUME NEW r \in 1..(client.req - 1) PROVE Kind(r).keep
    <3>1. CASE r < client.req - 1 \/ client.pos > 0 BY <3>1 DEF KeepsInv
    <3>2. CASE ~(r < client.req - 1) /\ ~(client.pos > 0)
      <4>1. r = client.req - 1 /\ client.req > 1 /\ client.pos = 0 BY <2>3, <3>2
      <4>2. QED BY <2>4, <4>1
    <3>3. QED BY <3>1, <3>2
  <2>6. ASSUME NEW r \in 1..(client'.req - 1), r < client'.req - 1 \/ client'.pos > 0
        PROVE  r \in 1..(client.req - 1)
    BY <2>2, <2>3, <2>6
  <2>7. QED BY <2>5, <2>6 DEF KeepsInv, Kind, Steady
<1>4. QED BY <1>1, <1>2, <1>3

\* A worker's steps.
LEMMA CauseWorker ==
  ASSUME OneWorker, TypeInv, ConnectionInv, GreetingInv, InputInv, CauseInv, Steady,
         NEW w \in Workers, WorkerStep(w)
  PROVE  CauseInv'
<1>1. client' = client
  BY DEF WorkerStep, StartTask, HandleRead, Handshake, Recv, FeedParser, Dispatch,
     PrepareResponse, HandleWrite, Send, Advance, FinishWrite, CloseInTask, CheckAlive
<1>2. client.got \in Seq(Wire) /\ KeepsInv /\ client'.got \in Seq(Wire) BY <1>1 DEF CauseInv
<1>3. KeepsInv' BY <1>1, <1>2, KeepsStep DEF TypeInv
<1>4. CASE Shut
  <2>1. ~conn'.open BY <1>4 DEF Shut
  <2>2. QED BY <1>2, <1>3, <2>1 DEF CauseInv
<1>5. CASE Onward /\ ~CloseInTask(w) /\ ~(CheckAlive(w) /\ ~IsAlive(conn))
  <2> SUFFICES ASSUME conn.open, ~Excused PROVE Excused' \/ Doing(w)'
    <3>1. conn.open => Excused' \/ Doing(w)' BY <1>2, <1>5, ExcusedKept
    <3>2. conn'.open => Excused' \/ \A v \in Workers : Doing(v)'
      BY <1>5, <3>1 DEF Onward, OneWorker
    <3>3. QED BY <1>2, <1>3, <3>2 DEF CauseInv
  <2>1. Doing(w) BY DEF CauseInv
  <2>2. work[w].pc # "close"
    BY <1>5 DEF WorkerStep, StartTask, HandleRead, Handshake, Recv, FeedParser, Dispatch,
       PrepareResponse, HandleWrite, Send, Advance, FinishWrite, CheckAlive
  <2>3. Underway(w) /\ Ordered(w) BY <2>1, <2>2 DEF Doing, InputInv
  <2>4. ~sock.fin BY DEF Excused
  <2>5. CASE \/ StartTask(w) \/ HandleRead(w) \/ HandleWrite(w)
             \/ CheckAlive(w) /\ IsAlive(conn)
    <3>1. Resting BY <2>5, ResumingRests
    <3>2. Moves(w) /\ work'[w].pc # "close" BY <2>2, <3>1 DEF Resting, Moves, Quiet, Sending
    <3>3. Underway(w)' BY <1>5, <2>3, <3>1, <3>2, UnderwayKept DEF Resting, Onward
    <3>4. QED BY <3>2, <3>3 DEF Doing
  <2>6. CASE Handshake(w) BY <1>5, <2>3, <2>4, <2>6, HandshakeCause
  <2>7. CASE Recv(w) BY <1>5, <2>3, <2>4, <2>7, RecvCause
  <2>8. CASE FeedParser(w) BY <1>5, <2>3, <2>8, FeedCause
  <2>9. CASE Dispatch(w) BY <1>5, <2>3, <2>9, DispatchCause
  <2>10. CASE PrepareResponse(w) BY <1>5, <2>3, <2>10, PrepareCause
  <2>11. CASE Send(w) BY <1>2, <1>5, <2>3, <2>11, SendCause
  <2>12. CASE Advance(w) BY <1>5, <2>3, <2>12, AdvanceCause
  <2>13. CASE FinishWrite(w) BY <1>2, <1>5, <2>3, <2>13, FinishCause
  <2>14. QED
    BY <1>5, <2>5, <2>6, <2>7, <2>8, <2>9, <2>10, <2>11, <2>12, <2>13 DEF WorkerStep
<1>6. QED BY <1>2, <1>4, <1>5, WorkerOnward

\* The others: once a worker is on its way to close the Connection because the client was
\* to send no more, the client does not.
LEMMA CauseOutside ==
  ASSUME TypeInv, ConnectionInv, GreetingInv, CauseInv, Steady,
         \/ HandleEvent \/ Quieten \/ CollectTimedOut \/ RemoveTimedOut \/ HangUp \/ UNCHANGED vars
         \/ Greet \/ SendUnit \/ Receive
  PROVE  CauseInv'
<1>1. client.got \in Seq(Wire) /\ KeepsInv BY DEF CauseInv
<1>2. client' = client \/ Greet \/ SendUnit \/ Receive
  BY DEF HandleEvent, Quieten, CollectTimedOut, RemoveTimedOut, HangUp, vars
<1>3. KeepsInv' BY <1>1, <1>2, KeepsStep DEF TypeInv
<1>4. CASE Shut /\ client' = client
  <2>1. ~conn'.open BY <1>4 DEF Shut
  <2>2. QED BY <1>1, <1>3, <1>4, <2>1 DEF CauseInv
<1>5. CASE Onward /\ ((client' = client /\ Resting) \/ Greet \/ SendUnit \/ Receive)
  <2>1. client'.got \in Seq(Wire) BY <1>5 DEF Onward, Longer
  <2> SUFFICES ASSUME conn.open, ~Excused, NEW w \in Workers, Doing(w) PROVE Doing(w)'
    <3>1. conn.open /\ ~Excused => \A w \in Workers : Doing(w)' BY DEF CauseInv
    <3>2. Excused => Excused' BY <1>5, ExcusedKept
    <3>3. QED BY <1>3, <1>5, <2>1, <3>1, <3>2 DEF CauseInv, Onward
  <2>2. /\ conn'.state = conn.state /\ conn'.out = conn.out /\ conn'.offset = conn.offset
        /\ conn'.parser = conn.parser /\ conn'.flushed = conn.flushed /\ conn'.ssl = conn.ssl
    BY <1>5 DEF Resting, Greet, SendUnit, Receive
  <2>3. work' = work
    BY DEF HandleEvent, Quieten, CollectTimedOut, RemoveTimedOut, HangUp, vars, Greet, SendUnit,
       Receive
  <2>4. CASE work[w].pc # "close"
    <3>1. Underway(w) /\ Moves(w) BY <2>3, <2>4 DEF Doing, Moves
    <3>2. Underway(w)' BY <1>5, <2>2, <3>1, UnderwayKept DEF Onward
    <3>3. QED BY <2>3, <2>4, <3>2 DEF Doing
  <2>5. CASE work[w].pc = "close"
    <3>1. Concluded BY <2>5 DEF Doing
    <3>2. CASE conn.ssl = "hello" BY <2>2, <2>3, <2>5, <3>2 DEF Doing, Concluded
    <3>3. CASE /\ client.req > 1 /\ ~Kind(client.req - 1).keep
               /\ HasResponse(Stream, client.req - 1)
      <4>1. client.req \in Nat /\ client.pos \in Nat
        <5>1. Len(client.script) \in Nat BY ScriptFacts DEF TypeInv
        <5>2. QED BY <5>1 DEF TypeInv, ClientType
      <4>2. client.req - 1 \in 1..(client.req - 1) BY <3>3, <4>1
      <4>3. client.pos = 0 BY <1>1, <3>3, <4>1, <4>2 DEF KeepsInv
      <4>4. ~SendUnit BY <3>3, <4>3 DEF SendUnit
      <4>5. client'.req = client.req
        <5>1. \/ client' = client \/ \E hs : client' = [client EXCEPT !.hs = hs]
              \/ \E n : client' = [client EXCEPT !.seen = n]
              \/ \E g : client' = [client EXCEPT !.got = g]
          BY <1>5, <4>4 DEF Greet, Receive
        <5>2. QED BY <5>1 DEF TypeInv, ClientType
      <4> DEFINE r == client.req - 1
      <4>6. r = client'.req - 1 /\ HasResponse(Stream, r) BY <3>3, <4>5
      <4> HIDE DEF r
      <4>7. HasResponse(Stream, client.req - 1)' BY <1>5, <4>6, LongerKeeps DEF Onward
      <4>8. ~client'.script[client'.req - 1].keep BY <3>3, <4>5 DEF Kind, Steady
      <4>9. Concluded' BY <3>3, <4>5, <4>7, <4>8 DEF Concluded, Kind
      <4>10. QED BY <2>3, <2>5, <4>9 DEF Doing
    <3>4. QED BY <3>1, <3>2, <3>3 DEF Concluded
  <2>6. QED BY <2>4, <2>5
<1>6. QED BY <1>1, <1>4, <1>5, OutsideOnward

\* At first a client has sent nothing and a worker does nothing.
LEMMA InitCause ==
  ASSUME Init
  PROVE  CauseInv
<1>1. /\ client.got = <<>> /\ client.req = 1
      /\ conn.state = "READING" /\ conn.parser = NewParser /\ conn.flushed = 0
  BY DEF Init
<1>2. \A w \in Workers : work[w].pc = "idle" BY DEF Init, IdleWorker
<1>3. client.got \in Seq(Wire) BY <1>1, EmptySeq
<1>4. KeepsInv BY <1>1 DEF KeepsInv
<1>5. \A w \in Workers : Doing(w)
  BY <1>1, <1>2 DEF Doing, Underway, Receiving, NewParser
<1>6. QED BY <1>3, <1>4, <1>5 DEF CauseInv

\* A step that closes the Connection has one of the reasons.
LEMMA CloseCause ==
  ASSUME TypeInv, ConnectionInv, GreetingInv, CauseInv, Next,
         conn.open, ~conn'.open, Owed
  PROVE  sock.fin \/ main.timedOut \/ conn.handled >= MaxRequests \/ Refused
<1>1. client.got \in Seq(Wire) BY DEF CauseInv
<1>2. ~Onward BY DEF Onward
<1>3. CASE \E w \in Workers : WorkerStep(w)
  <2>1. PICK w \in Workers : WorkerStep(w) BY <1>3
  <2>2. work[w].pc = "close" BY <1>1, <1>2, <2>1, WorkerOnward
  <2>3. Excused \/ Doing(w) BY DEF CauseInv
  <2>4. ~Concluded
    <3>1. client.req - 1 > 0 /\ ~HasResponse(Stream, client.req - 1) BY DEF Owed, LastSent
    <3>2. client.req # 1 BY <3>1
    <3>3. conn.ssl # "hello" BY <3>2 DEF GreetingInv
    <3>4. QED BY <3>1, <3>3 DEF Concluded
  <2>5. QED BY <2>2, <2>3, <2>4 DEF Doing, Excused
<1>4. CASE ~\E w \in Workers : WorkerStep(w)
  <2>1. \/ HandleEvent \/ Quieten \/ CollectTimedOut \/ RemoveTimedOut \/ HangUp
        \/ Greet \/ SendUnit \/ Receive
    BY <1>4 DEF Next
  <2>2. QED BY <1>1, <1>2, <2>1, OutsideOnward
<1>5. QED BY <1>3, <1>4

\* The server closes on a client it owes a response only for one of the reasons that
\* CloseJustified lists.
THEOREM SerialCloseJustified == ASSUME OneWorker PROVE Spec => CloseJustified
<1>1. Init => TypeInv /\ ConnectionInv /\ GreetingInv /\ InputInv /\ CauseInv
  BY InitTypes, InitConnection, InitGreeting, InitInput, InitCause
<1> DEFINE Inv == TypeInv /\ ConnectionInv /\ GreetingInv /\ InputInv /\ CauseInv
<1>2. Inv /\ [Next]_vars => Inv'
  <2> SUFFICES ASSUME Inv, [Next]_vars PROVE Inv' OBVIOUS
  <2>1. TypeInv' BY TypeStep
  <2>2. ConnectionInv' BY ConnectionStep
  <2>3. GreetingInv' BY GreetingStep
  <2>4. InputInv' BY InputStep
  <2>5. CauseInv'
    <3>1. Steady BY ClientKept DEF TypeInv
    <3>2. QED BY <3>1, CauseWorker, CauseOutside DEF Next
  <2>6. QED BY <2>1, <2>2, <2>3, <2>4, <2>5
<1>3. Inv /\ [Next]_vars =>
        [(conn.open /\ ~conn'.open /\ Owed) =>
           (sock.fin \/ main.timedOut \/ conn.handled >= MaxRequests \/ Refused)]_vars
  <2> SUFFICES ASSUME Inv, Next, conn.open, ~conn'.open, Owed
               PROVE  sock.fin \/ main.timedOut \/ conn.handled >= MaxRequests \/ Refused
    OBVIOUS
  <2>1. QED BY CloseCause
<1>4. QED BY <1>1, <1>2, <1>3, PTL DEF Spec, CloseJustified

-----------------------------------------------------------------------------
(* The responses that a stream begins                                        *)

\* What Begun adds for a unit, and the values that it goes through.
Beginning(r, unit) == IF unit[2] = 1 THEN Append(r, <<unit[1], unit[3]>>) ELSE r
Beginnings(s, f) == f[0] = <<>> /\ \A i \in 1..Len(s) : f[i] = Beginning(f[i - 1], s[i])
Answer == Nat \X (Status \cup {"flight"})

\* They exist, and the last is what is begun.
LEMMA BeginningsExist ==
  ASSUME NEW s \in Seq(Wire)
  PROVE  \E f \in [0..Len(s) -> Seq(Answer)] : Beginnings(s, f) /\ Begun(s) = f[Len(s)]
<1> DEFINE n == Len(s)
           R == Seq(Answer)
           G == [p \in (1..n) \X R |-> Beginning(p[2], s[p[1]])]
           begun == CHOOSE f : f = [i \in 0..n |->
                      IF i = 0 THEN <<>>
                      ELSE IF s[i][2] = 1 THEN Append(f[i - 1], <<s[i][1], s[i][3]>>) ELSE f[i - 1]]
<1>1. n \in Nat BY LenProperties
<1>2. G \in Turns(n, R)
  <2>1. ASSUME NEW p \in (1..n) \X R PROVE Beginning(p[2], s[p[1]]) \in R
    <3>1. s[p[1]] \in Wire /\ p[2] \in R BY ElementOfSeq
    <3>2. <<s[p[1]][1], s[p[1]][3]>> \in Answer BY <3>1 DEF Wire, Answer
    <3>3. Append(p[2], <<s[p[1]][1], s[p[1]][3]>>) \in R BY <3>1, <3>2, AppendProperties
    <3>4. QED BY <3>1, <3>3 DEF Beginning
  <2>2. QED BY <2>1 DEF Turns
<1>3. <<>> \in R BY EmptySeq
<1>4. PICK f \in [0..n -> R] : f[0] = <<>> /\ \A i \in 1..n : f[i] = G[<<i, f[i - 1]>>]
  <2> DEFINE first == <<>>
  <2>1. first \in R /\ G \in Turns(n, R) BY <1>2, <1>3
  <2> HIDE DEF G, n, R, first
  <2>2. \E f \in [0..n -> R] : f[0] = first /\ \A i \in 1..n : f[i] = G[<<i, f[i - 1]>>]
    BY <1>1, <2>1, Iteration
  <2>3. QED BY <2>2 DEF first
<1>5. ASSUME NEW i \in 1..n PROVE f[i] = Beginning(f[i - 1], s[i])
  <2>1. f[i] = G[<<i, f[i - 1]>>] BY <1>4
  <2>2. i - 1 \in 0..n BY <1>1
  <2>3. f[i - 1] \in R BY <1>4, <2>2
  <2>4. <<i, f[i - 1]>> \in (1..n) \X R BY <2>3
  <2>5. QED BY <2>1, <2>4
<1>6. f = [i \in 0..n |->
             IF i = 0 THEN <<>>
             ELSE IF s[i][2] = 1 THEN Append(f[i - 1], <<s[i][1], s[i][3]>>) ELSE f[i - 1]]
  <2>1. \A i \in 0..n : i = 0 \/ i \in 1..n BY <1>1
  <2>2. \A i \in 0..n :
          f[i] = IF i = 0 THEN <<>>
                 ELSE IF s[i][2] = 1 THEN Append(f[i - 1], <<s[i][1], s[i][3]>>) ELSE f[i - 1]
    BY <1>4, <1>5, <2>1 DEF Beginning
  <2>3. f = [i \in 0..n |-> f[i]] BY <1>4
  <2>4. QED BY <2>2, <2>3
<1>7. begun = [i \in 0..n |->
                 IF i = 0 THEN <<>>
                 ELSE IF s[i][2] = 1 THEN Append(begun[i - 1], <<s[i][1], s[i][3]>>) ELSE begun[i - 1]]
  BY <1>6
<1>8. Begun(s) = begun[n] BY DEF Begun
<1> HIDE DEF begun
<1>9. \A i \in 0..n :
        begun[i] = IF i = 0 THEN <<>>
                   ELSE IF s[i][2] = 1 THEN Append(begun[i - 1], <<s[i][1], s[i][3]>>) ELSE begun[i - 1]
  BY <1>7
<1> DEFINE T == {i \in 0..n : begun[i] = f[i]}
<1>10. 0 \in T
  <2>1. 0 \in 0..n BY <1>1
  <2>2. begun[0] = <<>> BY <1>9, <2>1
  <2>3. QED BY <1>4, <2>1, <2>2
<1>11. ASSUME NEW i \in 0..(n - 1), i \in T PROVE i + 1 \in T
  <2>1. i + 1 \in 1..n /\ i + 1 \in 0..n /\ i + 1 # 0 /\ (i + 1) - 1 = i BY <1>1
  <2>2. begun[i] = f[i] BY <1>11
  <2>3. begun[i + 1] = Beginning(begun[i], s[i + 1]) BY <1>9, <2>1 DEF Beginning
  <2>4. f[i + 1] = Beginning(f[i], s[i + 1]) BY <1>5, <2>1
  <2>5. QED BY <2>1, <2>2, <2>3, <2>4
<1>12. begun[n] = f[n]
  <2> HIDE DEF T
  <2>1. 0..n \subseteq T BY <1>1, <1>10, <1>11, InductionUpTo
  <2>2. QED BY <1>1, <2>1 DEF T
<1>13. QED BY <1>4, <1>5, <1>8, <1>12 DEF Beginnings

\* Streams that begin alike begin the same responses that far.
LEMMA BeginningsAlike ==
  ASSUME NEW m \in Nat, NEW s, NEW t, NEW f, NEW g, Beginnings(s, f), Beginnings(t, g),
         Len(s) \in Nat, Len(t) \in Nat, Alike(s, t, m)
  PROVE  f[m] = g[m]
<1> USE DEF Alike
<1> DEFINE T == {i \in 0..m : f[i] = g[i]}
<1>1. 0 \in T BY DEF Beginnings
<1>2. ASSUME NEW i \in 0..(m - 1), i \in T PROVE i + 1 \in T
  <2>1. /\ i + 1 \in 1..m /\ i + 1 \in 0..m /\ i + 1 \in 1..Len(s) /\ i + 1 \in 1..Len(t)
        /\ (i + 1) - 1 = i
    OBVIOUS
  <2>2. f[i] = g[i] /\ s[i + 1] = t[i + 1] BY <1>2, <2>1
  <2>3. f[i + 1] = Beginning(f[i], s[i + 1]) BY <2>1 DEF Beginnings
  <2>4. g[i + 1] = Beginning(g[i], t[i + 1]) BY <2>1 DEF Beginnings
  <2>5. QED BY <2>1, <2>2, <2>3, <2>4
<1>3. m \in T
  <2> HIDE DEF T
  <2>1. 0..m \subseteq T BY <1>1, <1>2, InductionUpTo
  <2>2. QED BY <2>1
<1>4. QED BY <1>3

\* The values for two parts, one after the other: those of the first, and what the second
\* makes of the last of them.
LEMMA BegunOfTwo ==
  ASSUME NEW s \in Seq(Wire), NEW t \in Seq(Wire)
  PROVE  \E h \in [0..Len(t) -> Seq(Answer)] :
           /\ h[0] = Begun(s) /\ Begun(s \o t) = h[Len(t)]
           /\ \A i \in 1..Len(t) : h[i] = Beginning(h[i - 1], t[i])
<1> DEFINE st == s \o t
<1>1. /\ st \in Seq(Wire) /\ Len(st) = Len(s) + Len(t) /\ Len(s) \in Nat /\ Len(t) \in Nat
      /\ \A i \in 1..Len(s) + Len(t) : st[i] = IF i <= Len(s) THEN s[i] ELSE t[i - Len(s)]
  BY ConcatProperties
<1> HIDE DEF st
<1> DEFINE m == Len(s)
           n == Len(t)
<1>2. PICK f : f \in [0..m -> Seq(Answer)] /\ Beginnings(s, f) /\ Begun(s) = f[m]
  BY BeginningsExist
<1>3. PICK g : g \in [0..Len(st) -> Seq(Answer)] /\ Beginnings(st, g) /\ Begun(st) = g[Len(st)]
  BY <1>1, BeginningsExist
<1>4. g[m] = f[m]
  <2>1. \A i \in 1..m : s[i] = st[i] BY <1>1
  <2>2. Len(st) \in Nat /\ Len(s) \in Nat /\ m \in Nat /\ Alike(s, st, m) BY <1>1, <2>1 DEF Alike
  <2>3. Beginnings(s, f) /\ Beginnings(st, g) BY <1>2, <1>3
  <2> HIDE DEF m
  <2>4. f[m] = g[m] BY <2>2, <2>3, BeginningsAlike
  <2>5. QED BY <2>4
<1> DEFINE h == [i \in 0..n |-> g[m + i]]
<1>5. h \in [0..n -> Seq(Answer)]
  <2>1. \A i \in 0..n : m + i \in 0..Len(st) BY <1>1
  <2>2. QED BY <1>3, <2>1
<1>6. h[0] = Begun(s) /\ Begun(st) = h[n]
  <2>1. 0 \in 0..n /\ n \in 0..n /\ m + 0 = m /\ m + n = Len(st) BY <1>1
  <2>2. QED BY <1>2, <1>3, <1>4, <2>1
<1>7. ASSUME NEW i \in 1..n PROVE h[i] = Beginning(h[i - 1], t[i])
  <2>1. /\ i \in 0..n /\ i - 1 \in 0..n /\ m + i \in 1..Len(st) /\ (m + i) - 1 = m + (i - 1)
        /\ m + i \in 1..m + n /\ ~(m + i <= m) /\ (m + i) - m = i
    BY <1>1
  <2>2. st[m + i] = t[i] BY <1>1, <2>1
  <2>3. g[m + i] = Beginning(g[m + (i - 1)], st[m + i]) BY <1>3, <2>1 DEF Beginnings
  <2>4. QED BY <2>1, <2>2, <2>3
<1> HIDE DEF h
<1>8. QED BY <1>5, <1>6, <1>7 DEF st

\* Stretch t is the units of a response from the (m + 1)-th.
StretchOf(t, r, status, m) == \A i \in 1..Len(t) : t[i] = <<r, m + i, status>>

\* More of a response begins it if it is its first units, and nothing otherwise.
LEMMA BegunMore ==
  ASSUME NEW s \in Seq(Wire), NEW t \in Seq(Wire), t # <<>>, NEW r, NEW status, NEW m \in Nat,
         StretchOf(t, r, status, m)
  PROVE  Begun(s \o t) = IF m = 0 THEN Append(Begun(s), <<r, status>>) ELSE Begun(s)
<1> DEFINE n == Len(t)
           b == IF m = 0 THEN Append(Begun(s), <<r, status>>) ELSE Begun(s)
<1>1. PICK h \in [0..n -> Seq(Answer)] :
        /\ h[0] = Begun(s) /\ Begun(s \o t) = h[n]
        /\ \A i \in 1..n : h[i] = Beginning(h[i - 1], t[i])
  BY BegunOfTwo
<1>2. n \in Nat /\ n >= 1 BY EmptySeq, LenProperties
<1> DEFINE k == n - 1
           T == {i \in 0..k : h[i + 1] = b}
<1>3. k \in Nat BY <1>2
<1>4. 0 \in T
  <2>1. 1 \in 1..n /\ 1 - 1 = 0 /\ 0 \in 0..k /\ 0 + 1 = 1 BY <1>2
  <2>2. h[1] = Beginning(h[0], t[1]) BY <1>1, <2>1
  <2>3. t[1] = <<r, m + 1, status>> BY <2>1 DEF StretchOf
  <2>4. h[1] = b BY <1>1, <2>2, <2>3 DEF Beginning
  <2>5. QED BY <2>1, <2>4
<1>5. ASSUME NEW i \in 0..(k - 1), i \in T PROVE i + 1 \in T
  <2>1. /\ i + 1 \in 0..k /\ (i + 1) + 1 \in 1..n /\ ((i + 1) + 1) - 1 = i + 1
        /\ m + ((i + 1) + 1) # 1
    BY <1>2
  <2>2. h[(i + 1) + 1] = Beginning(h[i + 1], t[(i + 1) + 1]) BY <1>1, <2>1
  <2>3. t[(i + 1) + 1] = <<r, m + ((i + 1) + 1), status>> BY <2>1 DEF StretchOf
  <2>4. h[(i + 1) + 1] = h[i + 1] BY <2>1, <2>2, <2>3 DEF Beginning
  <2>5. QED BY <1>5, <2>1, <2>4
<1>6. k \in T
  <2> HIDE DEF T, k
  <2>1. 0..k \subseteq T BY <1>3, <1>4, <1>5, InductionUpTo
  <2>2. QED BY <1>3, <2>1
<1>7. k + 1 = n BY <1>2
<1>8. QED BY <1>1, <1>6, <1>7

\* The beginning of a stream begins the first of its responses.
LEMMA BegunBefore ==
  ASSUME NEW s \in Seq(Wire), NEW t \in Seq(Wire)
  PROVE  \E n \in 0..Len(Begun(s \o t)) : Begun(s) = SubSeq(Begun(s \o t), 1, n)
<1> DEFINE k == Len(t)
           b == Begun(s)
<1>1. PICK h \in [0..k -> Seq(Answer)] :
        /\ h[0] = b /\ Begun(s \o t) = h[k]
        /\ \A i \in 1..k : h[i] = Beginning(h[i - 1], t[i])
  BY BegunOfTwo
<1> DEFINE Starts(x) == Len(b) <= Len(x) /\ \A j \in 1..Len(b) : x[j] = b[j]
           T == {i \in 0..k : Starts(h[i])}
<1>2. k \in Nat BY LenProperties
<1>3. b \in Seq(Answer) /\ Len(b) \in Nat
  <2>1. 0 \in 0..k BY <1>2
  <2>2. b \in Seq(Answer) BY <1>1, <2>1
  <2>3. QED BY <2>2, LenProperties
<1> HIDE DEF k, b
<1>4. 0 \in T BY <1>1, <1>2, <1>3
<1>5. ASSUME NEW i \in 0..(k - 1), i \in T PROVE i + 1 \in T
  <2>1. i + 1 \in 0..k /\ i \in 0..k /\ i + 1 \in 1..k /\ (i + 1) - 1 = i BY <1>2
  <2> DEFINE x == h[i]
             u == t[i + 1]
  <2>2. x \in Seq(Answer) /\ u \in Wire /\ Starts(x) BY <1>1, <1>5, <2>1, ElementOfSeq DEF k
  <2>3. h[i + 1] = Beginning(x, u) BY <1>1, <2>1
  <2> HIDE DEF x, u
  <2>4. Starts(Append(x, <<u[1], u[3]>>))
    <3> DEFINE y == <<u[1], u[3]>>
    <3>1. y \in Answer BY <2>2 DEF Wire, Answer
    <3> HIDE DEF y
    <3>2. /\ Len(Append(x, y)) = Len(x) + 1 /\ Len(x) \in Nat
          /\ \A j \in 1..Len(x) : Append(x, y)[j] = x[j]
      BY <2>2, <3>1, AppendProperties, LenProperties
    <3>3. Starts(Append(x, y)) BY <1>3, <2>2, <3>2
    <3>4. QED BY <3>3 DEF y
  <2>5. Starts(h[i + 1]) BY <2>2, <2>3, <2>4 DEF Beginning
  <2>6. QED BY <2>1, <2>5
<1>6. Starts(h[k]) /\ h[k] \in Seq(Answer)
  <2> HIDE DEF T
  <2>1. 0..k \subseteq T BY <1>2, <1>4, <1>5, InductionUpTo
  <2>2. k \in 0..k BY <1>2
  <2>3. k \in T BY <2>1, <2>2
  <2>4. QED BY <1>1, <2>2, <2>3 DEF T
<1> DEFINE x == h[k]
           n == Len(b)
           a == Take(x, n)
<1>7. x \in Seq(Answer) /\ n \in 0..Len(x) /\ \A j \in 1..n : x[j] = b[j]
  <2>1. Len(x) \in Nat BY <1>6, LenProperties
  <2>2. QED BY <1>3, <1>6, <2>1
<1> HIDE DEF x
<1>8. a \in Seq(Answer) /\ Len(a) = n /\ \A j \in 1..n : a[j] = x[j] BY <1>7, TakeFacts
<1> HIDE DEF a
<1>9. a = b BY <1>3, <1>7, <1>8, SeqEqual
<1>10. QED BY <1>1, <1>7, <1>9 DEF Take, a, x, b

\* The last response that a whole stream begins is that of its last unit.
LEMMA BegunLast ==
  ASSUME NEW script, NEW dropped, NEW s \in Seq(Wire), s # <<>>, WholeIn(script, dropped, s)
  PROVE  /\ Begun(s) # <<>>
         /\ Begun(s)[Len(Begun(s))] = <<LastOf(s)[1], LastOf(s)[3]>>
<1> DEFINE n == Len(s)
           Ends(x, u) == Len(x) >= 1 /\ x[Len(x)] = <<u[1], u[3]>>
<1>1. PICK f \in [0..n -> Seq(Answer)] : Beginnings(s, f) /\ Begun(s) = f[n]
  BY BeginningsExist
<1>2. n \in Nat /\ n >= 1 BY EmptySeq, LenProperties
<1> DEFINE k == n - 1
           T == {i \in 0..k : Ends(f[i + 1], s[i + 1])}
<1>3. k \in Nat BY <1>2
<1>4. ASSUME NEW x \in Seq(Answer), NEW u \in Wire, u[2] = 1
      PROVE  Ends(Beginning(x, u), u)
  <2> DEFINE y == <<u[1], u[3]>>
  <2>1. y \in Answer BY DEF Wire, Answer
  <2> HIDE DEF y
  <2>2. Len(x) \in Nat /\ Len(Append(x, y)) = Len(x) + 1 /\ Append(x, y)[Len(x) + 1] = y
    BY <2>1, AppendProperties, LenProperties
  <2>3. Beginning(x, u) = Append(x, y) BY <1>4 DEF Beginning, y
  <2>4. QED BY <2>2, <2>3 DEF y
<1>5. 0 \in T
  <2>1. 1 \in 1..n /\ 1 - 1 = 0 /\ 0 \in 0..k /\ 0 + 1 = 1 /\ 0 \in 0..n BY <1>2
  <2>2. f[1] = Beginning(f[0], s[1]) BY <1>1, <2>1 DEF Beginnings
  <2>3. f[0] \in Seq(Answer) /\ s[1] \in Wire BY <1>1, <2>1, ElementOfSeq
  <2>4. s[1][2] = 1 BY DEF WholeIn
  <2>5. Ends(f[1], s[1]) BY <1>4, <2>2, <2>3, <2>4
  <2>6. QED BY <2>1, <2>5
<1>6. ASSUME NEW i \in 0..(k - 1), i \in T PROVE i + 1 \in T
  <2> DEFINE a == i + 1
             z == (i + 1) + 1
  <2>1. /\ a \in 0..k /\ z \in 1..n /\ z - 1 = a /\ a \in 0..n /\ a \in 1..n /\ z \in 2..n
        /\ a + 1 = z
    BY <1>2
  <2>2. Ends(f[a], s[a]) BY <1>6
  <2> HIDE DEF a, z
  <2>3. f[z] = Beginning(f[a], s[z]) BY <1>1, <2>1 DEF Beginnings
  <2>4. f[a] \in Seq(Answer) /\ s[z] \in Wire BY <1>1, <2>1, ElementOfSeq
  <2>5. FollowsIn(script, dropped, s[z], s[a]) BY <2>1 DEF WholeIn
  <2>6. CASE s[z][2] = 1
    <3>1. Ends(f[z], s[z]) BY <1>4, <2>3, <2>4, <2>6
    <3>2. QED BY <2>1, <3>1 DEF a, z
  <2>7. CASE s[z][2] # 1
    <3>1. s[z][1] = s[a][1] /\ s[z][3] = s[a][3] BY <2>5, <2>7 DEF FollowsIn
    <3>2. f[z] = f[a] BY <2>3, <2>7 DEF Beginning
    <3>3. Ends(f[z], s[z]) BY <2>2, <3>1, <3>2
    <3>4. QED BY <2>1, <3>3 DEF a, z
  <2>8. QED BY <2>6, <2>7
<1>7. k \in T
  <2> HIDE DEF T, k
  <2>1. 0..k \subseteq T BY <1>3, <1>5, <1>6, InductionUpTo
  <2>2. QED BY <1>3, <2>1
<1>8. k + 1 = n BY <1>2
<1>9. Ends(f[n], s[n]) BY <1>7, <1>8
<1>10. f[n] \in Seq(Answer)
  <2>1. n \in 0..n BY <1>2
  <2>2. QED BY <1>1, <2>1
<1>11. f[n] # <<>> BY <1>9, <1>10, EmptySeq
<1>12. QED BY <1>1, <1>9, <1>11 DEF LastOf

-----------------------------------------------------------------------------
(* One worker: the handlers and the stream                                   *)

\* The last request that was handled has its response, the last in the stream.
LastServed == served[Len(served)].req
Settled == served = <<>> \/ (Stream # <<>> /\ LastOf(Stream)[1] = LastServed)

\* So it is when a Connection reads, or is about to handle or to refuse a request; when it
\* writes a handler's response, that is to the last request that was handled.
Settles(w) ==
  /\ conn.state = "READING" => Settled
  /\ conn.state = "PROCESSING" =>
       IF work[w].pc = "dispatch" THEN Settled
       ELSE served # <<>> /\ LastServed = conn.parser.req
  /\ conn.state = "WRITING" =>
       IF conn.out[1][3] = "ok" THEN served # <<>> /\ LastServed = conn.out[1][1]
       ELSE Written(w) = 0 => Settled

\* A request on its way to its handler is later than those handled, even if the
\* Connection is closed meanwhile; what is read when it is closed goes to no handler.
HandledOf(w) ==
  /\ work[w].pc = "feed" /\ ~conn.open => conn.state = "CLOSED"
  /\ work[w].pc = "dispatch" => served = <<>> \/ LastServed < work[w].arg.req
  /\ conn.open /\ work[w].pc # "close" => Settles(w)
HandledInv == conn.refed \/ \A w \in Workers : HandledOf(w)

\* A step that leaves the handlers and the stream alone, and what is to be written.
LEMMA SettlesKept ==
  ASSUME NEW w \in Workers, Settles(w), served' = served, Stream' = Stream,
         conn'.state = conn.state, conn'.out = conn.out,
         work'[w].pc = "dispatch" <=> work[w].pc = "dispatch",
         conn.state = "PROCESSING" => conn'.parser.req = conn.parser.req,
         conn.state = "WRITING" => Written(w)' = Written(w)
  PROVE  Settles(w)'
<1>1. Settled' = Settled /\ LastServed' = LastServed BY DEF Settled, LastServed
<1>2. QED BY <1>1 DEF Settles

\* Only a handler adds to what was handled.
LEMMA ServedKept ==
  ASSUME [Next]_vars, \A w \in Workers : ~Dispatch(w)
  PROVE  served' = served
<1>1. ASSUME NEW w \in Workers, WorkerStep(w) PROVE served' = served
  BY <1>1 DEF WorkerStep, StartTask, HandleRead, Handshake, Recv, FeedParser,
     PrepareResponse, HandleWrite, Send, Advance, FinishWrite, CloseInTask, CheckAlive
<1>2. ASSUME ~\E w \in Workers : WorkerStep(w) PROVE served' = served
  BY <1>2 DEF Next, HandleEvent, Quieten, CollectTimedOut, RemoveTimedOut, Greet, SendUnit, Receive,
     HangUp, vars
<1>3. QED BY <1>1, <1>2

\* With one worker, what holds of it is all there is.
LEMMA HandledByOne ==
  ASSUME OneWorker, NEW w \in Workers, ~conn'.refed => HandledOf(w)'
  PROVE  HandledInv'
BY DEF OneWorker, HandledInv

\* The steps that leave all that alone.
LEMMA HandledResting ==
  ASSUME HandledInv, Resting, served' = served
  PROVE  HandledInv'
<1>1. Stream' = Stream BY DEF Resting, Stream
<1>2. ASSUME ~conn.refed, NEW w \in Workers PROVE HandledOf(w)'
  <2>1. HandledOf(w) /\ Moves(w) BY <1>2 DEF HandledInv, Resting
  <2>2. /\ work'[w].pc = "feed" => work[w].pc = "feed"
        /\ work'[w].pc = "dispatch" <=> work[w].pc = "dispatch"
        /\ work'[w].pc = "dispatch" => work'[w].arg = work[w].arg
        /\ work'[w].pc # "close" => work[w].pc # "close"
    BY <2>1 DEF Moves, Quiet, Sending
  <2>3. Written(w)' = Written(w)
    BY <2>1 DEF Written, Resting, Moves, Quiet, Sending
  <2>4. LastServed' = LastServed BY DEF LastServed
  <2>5. conn'.open /\ work'[w].pc # "close" => Settles(w)'
    <3>1. conn'.open /\ work'[w].pc # "close" => Settles(w) BY <2>1, <2>2 DEF HandledOf, Resting
    <3>2. QED BY <1>1, <2>2, <2>3, <3>1, SettlesKept DEF Resting
  <2>6. QED BY <2>1, <2>2, <2>4, <2>5 DEF HandledOf, Resting
<1>3. QED BY <1>2 DEF HandledInv, Resting

\* The event loop may close the Connection while a worker is busy with it.
LEMMA HandledEventLoop ==
  ASSUME TypeInv, ConnectionInv, HandledInv, served' = served,
         HandleEvent \/ Quieten \/ CollectTimedOut \/ RemoveTimedOut \/ HangUp \/ UNCHANGED vars
  PROVE  HandledInv'
<1> USE DEF TypeInv
<1>1. client' = client /\ work' = work
  BY DEF HandleEvent, Quieten, CollectTimedOut, RemoveTimedOut, HangUp, vars
<1>2. \A w \in Workers : Moves(w) BY <1>1 DEF Moves
<1>3. CASE RemoveConnection
  <2>1. Shut BY <1>3, RemoveShuts
  <2>2. conn'.state = "CLOSED" \/ (conn' = conn /\ ~conn.open)
    <3>1. CASE main.registered
      BY <1>3, <3>1, CloseObjectFacts DEF RemoveConnection, CloseConnection
    <3>2. CASE ~main.registered
      BY <1>3, <3>2 DEF RemoveConnection, ConnectionInv, OpenIsRegistered
    <3>3. QED BY <3>1, <3>2
  <2>3. LastServed' = LastServed BY DEF LastServed
  <2>4. ASSUME ~conn.refed, NEW w \in Workers PROVE HandledOf(w)'
    BY <1>1, <2>1, <2>2, <2>3, <2>4 DEF HandledInv, HandledOf, Shut
  <2>5. QED BY <2>1, <2>4 DEF HandledInv, Shut
<1>4. CASE /\ conn' = conn \/ conn' = [conn EXCEPT !.quiet = TRUE]
           /\ \/ sock' = sock \/ sock' = [sock EXCEPT !.armed = FALSE]
              \/ sock' = [sock EXCEPT !.fin = TRUE, !.armed = TRUE]
  <2>1. Resting BY <1>1, <1>2, <1>4 DEF Resting, ConnType, SockType
  <2>2. QED BY <2>1, HandledResting
<1>5. QED
  BY <1>3, <1>4 DEF HandleEvent, Quieten, CollectTimedOut, RemoveTimedOut, HangUp, vars

\* The client's steps are none of it.
LEMMA HandledClient ==
  ASSUME TypeInv, StreamInv, HandledInv, served' = served, Greet \/ SendUnit \/ Receive
  PROVE  HandledInv' /\ Stream' = Stream
<1> USE DEF TypeInv
<1>1. UNCHANGED <<conn, work>> BY DEF Greet, SendUnit, Receive
<1>2. client.got \in Seq(Wire) BY DEF StreamInv
<1>3. Stream' = Stream
  <2>1. CASE Receive BY <1>2, <2>1, ReceiveStream
  <2>2. CASE Greet \/ SendUnit
    <3>1. \/ client' = [client EXCEPT !.hs = "hello"] \/ client' = [client EXCEPT !.hs = "done"]
          \/ client' = [client EXCEPT !.pos = @ + 1]
          \/ client' = [client EXCEPT !.pos = 0, !.req = @ + 1]
      BY <2>2 DEF Greet, SendUnit
    <3>2. client'.got = client.got BY <3>1 DEF ClientType
    <3>3. \E u : sock' = [sock EXCEPT !.rx = Append(@, u), !.armed = TRUE]
      BY <2>2 DEF Greet, SendUnit
    <3>4. sock'.tx = sock.tx BY <3>3 DEF SockType
    <3>5. QED BY <1>2, <3>2, <3>4, SameStream
  <2>3. QED BY <2>1, <2>2
<1>4. ASSUME ~conn.refed, NEW w \in Workers PROVE HandledOf(w)'
  <2>1. HandledOf(w) BY <1>4 DEF HandledInv
  <2>2. Written(w)' = Written(w) /\ LastServed' = LastServed BY <1>1 DEF Written, LastServed
  <2>3. Settles(w) => Settles(w)' BY <1>1, <1>3, <2>2, SettlesKept
  <2>4. QED BY <1>1, <2>1, <2>2, <2>3 DEF HandledOf
<1>5. QED BY <1>1, <1>3, <1>4 DEF HandledInv

\* A worker that closes the Connection, or finds it closed.
LEMMA HandledRemoval ==
  ASSUME TypeInv, ConnectionInv, HandledInv, OneWorker, NEW w \in Workers, served' = served,
         CloseInTask(w) \/ (CheckAlive(w) /\ ~IsAlive(conn))
  PROVE  HandledInv'
<1>1. CloseConnection \/ RemoveConnection BY DEF CloseInTask, CheckAlive
<1>2. Shut BY <1>1, CloseShuts, RemoveShuts
<1>3. work'[w].pc \in {"write", "check", "idle"}
  <2>1. Leave(w) \/ work' = [work EXCEPT ![w] = IdleWorker] BY DEF CloseInTask, CheckAlive
  <2>2. QED BY <2>1, Went
<1>4. HandledOf(w)' BY <1>2, <1>3 DEF HandledOf, Shut
<1>5. QED BY <1>4, HandledByOne

\* One flight of the handshake, and what is received.
LEMMA HandledReceiving ==
  ASSUME TypeInv, ConnectionInv, GreetingInv, StreamInv, HandledInv, OneWorker,
         NEW w \in Workers, served' = served, Handshake(w) \/ Recv(w)
  PROVE  HandledInv' /\ Stream' = Stream /\ conn'.open = conn.open /\ conn'.refed = conn.refed
<1> USE DEF TypeInv
<1>1. client.got \in Seq(Wire) BY DEF StreamInv
<1>2. CASE Handshake(w)
  <2>1. client' = client /\ work[w].pc = "accept" BY <1>2 DEF Handshake
  <2>2. Stream' = Stream BY <1>1, <1>2, HandshakeStream
  <2>3. \/ conn' = conn \/ conn' = [conn EXCEPT !.ssl = "finish", !.flushed = 0]
        \/ \E n : conn' = [conn EXCEPT !.flushed = @ + n, !.wantWrite = TRUE]
        \/ conn' = [conn EXCEPT !.ssl = "flight"]
        \/ conn' = [conn EXCEPT !.ssl = "done", !.quiet = FALSE]
    <3>1. CASE UNCHANGED <<conn, sock>> BY <3>1
    <3>2. CASE conn.open /\ conn.ssl = "flight" BY <1>2, <3>2 DEF Handshake
    <3>3. CASE conn.open /\ conn.ssl # "flight" /\ sock.rx # <<>> BY <1>2, <3>3 DEF Handshake
    <3>4. QED BY <1>2, <3>1, <3>2, <3>3 DEF Handshake
  <2>4. /\ conn'.open = conn.open /\ conn'.state = conn.state /\ conn'.parser = conn.parser
        /\ conn'.out = conn.out /\ conn'.refed = conn.refed
    BY <2>3 DEF ConnType
  <2>5. work'[w].pc \in {"accept", "close", "recv", "write", "check"}
    <3>1. NextFlight(w) \/ Goto(w, "close") \/ Leave(w) \/ Goto(w, "recv")
      BY <1>2 DEF Handshake
    <3>2. CASE NextFlight(w) BY <2>1, <3>2 DEF NextFlight
    <3>3. QED BY <3>1, <3>2, Went
  <2>6. ASSUME ~conn.refed, conn.open PROVE Settles(w)'
    <3>1. Settles(w) BY <2>1, <2>6 DEF HandledInv, HandledOf
    <3>2. ~Shaken(conn) BY <2>1 DEF WorkType, WorkOf
    <3>3. conn.state # "WRITING" BY <3>2 DEF GreetingInv
    <3>4. QED BY <2>1, <2>2, <2>4, <2>5, <3>1, <3>3, SettlesKept
  <2>7. ~conn'.refed => HandledOf(w)' BY <2>4, <2>5, <2>6 DEF HandledOf
  <2>8. QED BY <2>2, <2>4, <2>7, HandledByOne
<1>3. CASE Recv(w)
  <2>1. /\ client' = client /\ work[w].pc = "recv" /\ conn' = [conn EXCEPT !.unread = FALSE]
        /\ sock' = sock \/ \E n : sock' = [sock EXCEPT !.rx = Drop(@, n)]
        /\ Goto(w, "close") \/ Leave(w) \/ (conn.open /\ \E arg : GotoWith(w, "feed", arg))
    BY <1>3 DEF Recv
  <2>2. /\ conn'.open = conn.open /\ conn'.state = conn.state /\ conn'.parser = conn.parser
        /\ conn'.out = conn.out /\ conn'.refed = conn.refed /\ conn'.offset = conn.offset
        /\ conn'.flushed = conn.flushed
    BY <2>1 DEF ConnType
  <2>3. sock'.tx = sock.tx BY <2>1 DEF SockType
  <2>4. Stream' = Stream BY <1>1, <2>1, <2>3, SameStream
  <2>5. work'[w].pc \in {"close", "write", "check"} \/ (conn.open /\ work'[w].pc = "feed")
    BY <2>1, Went
  <2>6. Written(w)' = Written(w) BY <2>1, <2>2, <2>5 DEF Written
  <2>7. ASSUME ~conn.refed, conn.open PROVE Settles(w)'
    <3>1. Settles(w) BY <2>1, <2>7 DEF HandledInv, HandledOf
    <3>2. QED BY <2>1, <2>2, <2>4, <2>5, <2>6, <3>1, SettlesKept
  <2>8. ~conn'.refed => HandledOf(w)' BY <2>2, <2>5, <2>7 DEF HandledOf
  <2>9. QED BY <2>2, <2>4, <2>8, HandledByOne
<1>4. QED BY <1>2, <1>3

\* A response that may come next is to a later request than the last one in the stream.
LEMMA DueIsLater ==
  ASSUME NEW r, Due(r), Stream # <<>>
  PROVE  /\ LastOf(Stream)[1] < r /\ LastOf(Stream)[3] = "ok"
         /\ LastOf(Stream)[2] = Length(LastOf(Stream)[1], "ok")
BY DEF Due, DueIn, Length, LengthIn, Kind

\* What feed finds goes to a handler only from a Connection that reads.
LEMMA HandledFeed ==
  ASSUME TypeInv, ConnectionInv, InputInv, StreamInv, StreamInv', HandledInv, OneWorker, Steady,
         NEW w \in Workers, served' = served, FeedParser(w)
  PROVE  HandledInv' /\ Stream' = Stream /\ conn'.open = conn.open
<1> USE DEF TypeInv
<1>1. /\ sock' = sock /\ client' = client /\ work[w].pc = "feed"
      /\ conn'.open = conn.open /\ conn'.flushed = conn.flushed
      /\ conn'.out = conn.out /\ conn'.offset = conn.offset
      /\ Refuses(w) \/ Accepts(w) \/ GoesOn(w)
  BY FeedCases
<1>2. client.got \in Seq(Wire) BY DEF StreamInv
<1>3. Stream' = Stream BY <1>1, <1>2, SameStream
<1>4. ASSUME ~conn'.refed PROVE HandledOf(w)'
  <2>1. ~conn.refed BY <1>1, <1>4 DEF Refuses, Accepts, GoesOn
  <2>2. HandledOf(w) BY <2>1 DEF HandledInv
  <2>3. conn.open => Settles(w) /\ Progress(w) BY <1>1, <2>1, <2>2 DEF HandledOf, StreamInv
  <2>4. CASE Refuses(w)
    <3>1. conn.state = "READING" /\ conn'.state = "READING" /\ work'[w].pc = "prepare"
      BY <1>4, <2>4 DEF Refuses
    <3>2. conn.open BY <1>1, <2>2, <3>1 DEF HandledOf
    <3>3. Settles(w)' BY <1>1, <1>3, <2>3, <3>1, <3>2, SettlesKept
    <3>4. QED BY <3>1, <3>3 DEF HandledOf
  <2>5. CASE Accepts(w)
    <3>1. /\ conn.state = "READING" /\ conn'.state = "PROCESSING" /\ work'[w].pc = "dispatch"
          /\ work'[w].arg.req = conn'.parser.req
      <4> DEFINE r == conn'.parser.req
                 b == conn'.parser.read
      <4>1. /\ work'[w].arg = [req |-> r, body |-> b] /\ conn'.refed = (conn.refed \/ conn.state # "READING")
            /\ conn'.state = "PROCESSING" /\ work'[w].pc = "dispatch"
        BY <2>5 DEF Accepts
      <4> HIDE DEF r, b
      <4>2. work'[w].arg.req = r BY <4>1
      <4>3. conn.state = "READING" BY <1>4, <4>1
      <4>4. QED BY <4>1, <4>2, <4>3 DEF r
    <3>2. conn.open BY <1>1, <2>2, <3>1 DEF HandledOf
    <3>3. Settled BY <2>3, <3>1, <3>2 DEF Settles
    <3>4. Settled' /\ LastServed' = LastServed BY <1>3, <3>3 DEF Settled, LastServed
    <3>5. Due(conn.parser.req)'
      <4>1. Progress(w)' BY <1>1, <1>4, <3>1, <3>2 DEF StreamInv
      <4>2. QED BY <3>1, <4>1 DEF Progress, Processing
    <3>6. served = <<>> \/ LastServed < work'[w].arg.req
      <4>1. CASE served # <<>>
        <5> DEFINE r == conn'.parser.req
        <5>1. Stream # <<>> /\ LastOf(Stream)[1] = LastServed BY <3>3, <4>1 DEF Settled
        <5>2. DueIn(client'.script, conn'.dropped, Stream', r) BY <3>5 DEF Due
        <5>3. LastOf(Stream)[1] < r BY <1>3, <5>1, <5>2 DEF DueIn
        <5>4. QED BY <3>1, <5>1, <5>3
      <4>2. QED BY <4>1
    <3>7. Settles(w)' BY <3>1, <3>4 DEF Settles
    <3>8. QED BY <3>1, <3>4, <3>6, <3>7 DEF HandledOf
  <2>6. CASE GoesOn(w)
    <3>1. conn'.state = conn.state /\ work'[w].pc = "recv" BY <2>6 DEF GoesOn
    <3>2. ASSUME conn.open PROVE Settles(w)'
      <4>1. Settles(w) /\ Progress(w) BY <2>3, <3>2
      <4>2. conn.state # "PROCESSING"
        <5>1. ASSUME conn.state = "PROCESSING" PROVE FALSE
          <6> DEFINE p == conn.parser
                     chunk == work[w].arg
                     fed == Fed(w)
          <6>1. conn.parser.stage = "complete" BY <4>1, <5>1 DEF Progress, Processing
          <6>2. Fed(w).result = "NEED_MORE_DATA" BY <2>6 DEF GoesOn
          <6>3. ParserOf(p) /\ p.stage \in {"complete", "error"} /\ fed = Feed(p, chunk)
            BY <6>1 DEF ConnType, Fed
          <6> HIDE DEF p, chunk, fed
          <6>4. KeepsAll(p, chunk, fed) BY <6>3, FeedPast
          <6>5. QED BY <6>1, <6>2, <6>4 DEF KeepsAll, fed, p
        <5>2. QED BY <5>1
      <4>3. Written(w)' = Written(w) BY <1>1, <3>1 DEF Written
      <4>4. QED BY <1>1, <1>3, <3>1, <4>1, <4>2, <4>3, SettlesKept
    <3>3. QED BY <1>1, <3>1, <3>2 DEF HandledOf
  <2>7. QED BY <1>1, <2>4, <2>5, <2>6
<1>5. QED BY <1>1, <1>3, <1>4, HandledByOne

\* A request that is handled is the last one then.
LEMMA HandledDispatch ==
  ASSUME TypeInv, ConnectionInv, StreamInv, HandledInv, OneWorker,
         NEW w \in Workers, Dispatch(w)
  PROVE  HandledInv'
<1> USE DEF TypeInv
<1>1. UNCHANGED <<conn, sock, client>> /\ work[w].pc = "dispatch"
      /\ served' = Append(served, work[w].arg)
  BY DEF Dispatch
<1>2. served' # <<>> /\ LastServed' = work[w].arg.req
  <2> DEFINE S == [req : Nat, body : Nat]
             x == work[w].arg
  <2>1. served \in Seq(S) BY DEF WorkType
  <2>2. x \in S BY <1>1, ScriptFacts DEF WorkType, WorkOf
  <2> HIDE DEF S, x
  <2>3. /\ Append(served, x) \in Seq(S) /\ Len(Append(served, x)) = Len(served) + 1
        /\ Append(served, x)[Len(served) + 1] = x /\ Len(served) \in Nat
    BY <2>1, <2>2, AppendProperties, LenProperties
  <2>4. Append(served, x) # <<>> BY <2>3, EmptySeq
  <2>5. QED BY <1>1, <2>3, <2>4 DEF LastServed, x
<1>3. work'[w].pc \in {"idle", "prepare"}
  <2>1. \/ work' = [work EXCEPT ![w] = IdleWorker]
        \/ GotoWith(w, "prepare", Response(work[w].arg.req, "ok"))
    BY DEF Dispatch
  <2>2. QED BY <2>1, Went
<1>4. ASSUME ~conn.refed, conn.open PROVE Settles(w)'
  <2>1. Progress(w) BY <1>1, <1>4 DEF StreamInv
  <2>2. conn.state = "PROCESSING"
    <3>1. conn.state # "CLOSED" BY <1>4 DEF ConnectionInv, ClosedInv
    <3>2. QED BY <1>1, <2>1, <3>1 DEF ConnType, Progress, Reading, Writing
  <2>3. work[w].arg.req = conn.parser.req BY <1>1, <2>1, <2>2 DEF Progress, Processing
  <2>4. QED BY <1>1, <1>2, <1>3, <2>2, <2>3 DEF Settles
<1>5. ~conn'.refed => HandledOf(w)' BY <1>1, <1>3, <1>4 DEF HandledOf
<1>6. QED BY <1>5, HandledByOne

\* The response that is written first is the handler's, or refuses a later request.
LEMMA HandledPrepare ==
  ASSUME TypeInv, ConnectionInv, GreetingInv, StreamInv, HandledInv, OneWorker,
         NEW w \in Workers, served' = served, PrepareResponse(w)
  PROVE  HandledInv' /\ Stream' = Stream /\ conn'.open = conn.open /\ conn'.refed = conn.refed
<1> USE DEF TypeInv
<1>1. /\ UNCHANGED <<sock, client>> /\ work[w].pc = "prepare"
      /\ conn' = [conn EXCEPT !.out = work[w].arg, !.offset = 0, !.state = "WRITING"]
      /\ GotoWith(w, "write", <<>>)
  BY DEF PrepareResponse
<1>2. /\ conn'.open = conn.open /\ conn'.refed = conn.refed /\ conn'.out = work[w].arg
      /\ conn'.state = "WRITING"
  BY <1>1 DEF ConnType
<1>3. Stream' = Stream BY <1>1 DEF Stream
<1>4. work'[w].pc = "write" BY <1>1, Went
<1>5. ASSUME ~conn.refed, conn.open PROVE Settles(w)'
  <2>1. Progress(w) /\ Settles(w) BY <1>1, <1>5 DEF StreamInv, HandledInv, HandledOf
  <2>2. conn.state \in {"READING", "PROCESSING"}
    <3>1. conn.state # "CLOSED" BY <1>5 DEF ConnectionInv, ClosedInv
    <3>2. QED BY <1>1, <2>1, <3>1 DEF ConnType, Progress, Writing
  <2>3. ASSUME NEW r \in Request, NEW status \in Status, work[w].arg = Response(r, status)
        PROVE  conn'.out[1] = <<r, 1, status>>
    <3>1. 1 \in 1..Length(r, status) BY ResponseFacts
    <3>2. QED BY <1>2, <2>3, <3>1, ResponseFacts
  <2>4. CASE conn.state = "READING"
    <3>1. PICK r \in Request, status \in {"400", "413"} : work[w].arg = Response(r, status)
      BY <1>1, <2>1, <2>4 DEF Progress, Reading, Refusing
    <3>2. status \in Status /\ status # "ok" BY DEF Status
    <3>3. conn'.out[1] = <<r, 1, status>> BY <2>3, <3>1, <3>2
    <3>4. Settled' BY <1>3, <2>1, <2>4 DEF Settles, Settled, LastServed
    <3>5. QED BY <1>2, <3>2, <3>3, <3>4 DEF Settles
  <2>5. CASE conn.state = "PROCESSING"
    <3>1. Processing(w) /\ served # <<>> /\ LastServed = conn.parser.req
      BY <1>1, <2>1, <2>5 DEF Progress, Settles
    <3>2. work[w].arg = Response(conn.parser.req, "ok") /\ conn.parser.req \in Request
      BY <1>1, <3>1 DEF Processing, ParserOf
    <3>3. "ok" \in Status BY DEF Status
    <3>4. conn'.out[1] = <<conn.parser.req, 1, "ok">> BY <2>3, <3>2, <3>3
    <3>5. served' # <<>> /\ LastServed' = conn.parser.req BY <3>1 DEF LastServed
    <3>6. QED BY <1>2, <3>4, <3>5 DEF Settles
  <2>6. QED BY <2>2, <2>4, <2>5
<1>6. ~conn'.refed => HandledOf(w)' BY <1>2, <1>4, <1>5 DEF HandledOf
<1>7. QED BY <1>2, <1>3, <1>6, HandledByOne

\* write_offset_ is moved over what has been written.
LEMMA HandledAdvance ==
  ASSUME TypeInv, HandledInv, OneWorker, NEW w \in Workers, served' = served, Advance(w)
  PROVE  HandledInv' /\ Stream' = Stream /\ conn'.open = conn.open /\ conn'.refed = conn.refed
<1> USE DEF TypeInv
<1>1. /\ UNCHANGED <<sock, client>> /\ work[w].pc = "advance"
      /\ conn' = [conn EXCEPT !.offset = @ + work[w].arg] /\ GotoWith(w, "send", <<>>)
  BY DEF Advance, Advanced
<1>2. /\ conn'.open = conn.open /\ conn'.flushed = conn.flushed
      /\ conn'.parser = conn.parser /\ conn'.refed = conn.refed
      /\ conn'.out = conn.out
      /\ conn'.offset = conn.offset + work[w].arg /\ conn'.state = conn.state
  BY <1>1 DEF ConnType
<1>3. Stream' = Stream BY <1>1 DEF Stream
<1>4. work'[w].pc = "send" BY <1>1, Went
<1>5. Written(w)' = Written(w)
  <2>1. conn.offset \in Nat /\ conn.flushed \in Nat /\ work[w].arg \in Nat
    BY <1>1 DEF ConnType, WorkType, WorkOf
  <2>2. QED BY <1>1, <1>2, <1>4, <2>1 DEF Written
<1>6. ASSUME ~conn.refed, conn.open PROVE Settles(w)'
  <2>1. Settles(w) BY <1>1, <1>6 DEF HandledInv, HandledOf
  <2>2. QED BY <1>1, <1>2, <1>3, <1>4, <1>5, <2>1, SettlesKept
<1>7. ~conn'.refed => HandledOf(w)' BY <1>2, <1>4, <1>6 DEF HandledOf
<1>8. QED BY <1>2, <1>3, <1>7, HandledByOne

\* The Connection is reset when the response to the last request is out.
LEMMA HandledFinish ==
  ASSUME TypeInv, ConnectionInv, StreamInv, HandledInv, OneWorker,
         NEW w \in Workers, served' = served, FinishWrite(w)
  PROVE  HandledInv' /\ Stream' = Stream /\ conn'.open = conn.open /\ conn'.refed = conn.refed
<1> USE DEF TypeInv
<1>1. client' = client /\ sock' = sock /\ work[w].pc = "sent" BY DEF FinishWrite
<1>2. Stream' = Stream BY <1>1 DEF Stream
<1>3. CASE conn' = conn /\ Leave(w)
  <2>1. work'[w].pc \in {"write", "check"} BY <1>3, Went
  <2>2. Moves(w) BY <1>1, <2>1 DEF Moves, Quiet, Sending
  <2>3. Resting BY <1>1, <1>3, <2>2, WorkerRests DEF Resting
  <2>4. QED BY <1>2, <1>3, <2>3, HandledResting
<1>4. CASE conn' = Cleared(conn) /\ Goto(w, "close")
  <2>1. work'[w].pc = "close" BY <1>4, Went
  <2>2. conn'.open = conn.open /\ conn'.refed = conn.refed BY <1>4 DEF Cleared, ConnType
  <2>3. HandledOf(w)' BY <2>1 DEF HandledOf
  <2>4. QED BY <1>2, <2>2, <2>3, HandledByOne
<1>5. CASE /\ ~(conn.offset < Len(conn.out)) /\ KeepsAlive(conn) /\ Leave(w)
           /\ conn' = [Cleared(conn) EXCEPT !.parser = NewParser, !.state = "READING",
                                            !.dropped = @ \/ conn.parser.buffer # <<>>]
  <2>1. conn'.open = conn.open /\ conn'.state = "READING" /\ conn'.refed = conn.refed
    BY <1>5 DEF Cleared, ConnType
  <2>2. work'[w].pc \in {"write", "check"} BY <1>5, Went
  <2>3. ASSUME ~conn.refed, conn.open PROVE Settles(w)'
    <3>1. Progress(w) /\ Settles(w) BY <1>1, <2>3 DEF StreamInv, HandledInv, HandledOf
    <3>2. conn.state = "WRITING"
      <4>1. conn.state # "CLOSED" BY <2>3 DEF ConnectionInv, ClosedInv
      <4>2. QED BY <1>1, <3>1, <4>1 DEF ConnType, Progress, Reading, Processing
    <3>3. PICK r \in Request, status \in Status :
            /\ conn.out = Response(r, status) /\ Written(w) <= Len(conn.out)
            /\ Reached(r, status, Written(w))
            /\ conn.parser.stage = "complete" => status = "ok" /\ conn.parser.req = r
      BY <3>1, <3>2 DEF Progress, Writing
    <3>4. status = "ok" BY <1>5, <3>3 DEF KeepsAlive
    <3> DEFINE n == Length(r, status)
    <3>5. n \in Nat /\ n # 0 /\ Len(conn.out) = n /\ conn.out[1] = <<r, 1, status>>
      <4>1. n \in Nat \ {0} /\ Len(conn.out) = n BY <3>3, ResponseFacts
      <4>2. 1 \in 1..n BY <4>1
      <4>3. QED BY <3>3, <4>1, <4>2, ResponseFacts
    <3> HIDE DEF n
    <3>6. Written(w) = n
      <4>1. conn.offset \in Nat /\ conn.flushed \in Nat /\ ~(conn.offset < n)
        BY <1>5, <3>5 DEF ConnType
      <4>2. Written(w) = conn.offset + conn.flushed BY <1>1, <4>1 DEF Written
      <4>3. conn.offset + conn.flushed <= n BY <3>3, <3>5, <4>2
      <4>4. QED BY <3>5, <4>1, <4>2, <4>3
    <3>7. Stream # <<>> /\ LastOf(Stream) = <<r, n, status>>
      BY <3>3, <3>5, <3>6 DEF Reached, ReachedIn
    <3>8. served # <<>> /\ LastServed = r BY <3>1, <3>2, <3>4, <3>5 DEF Settles
    <3>9. Settled BY <3>7, <3>8 DEF Settled
    <3>10. Settled' BY <1>2, <3>9 DEF Settled, LastServed
    <3>11. QED BY <2>1, <3>10 DEF Settles
  <2>4. ~conn'.refed => HandledOf(w)' BY <2>1, <2>2, <2>3 DEF HandledOf
  <2>5. QED BY <1>2, <2>1, <2>4, HandledByOne
<1>6. QED BY <1>3, <1>4, <1>5 DEF FinishWrite, Reset

\* What a step of Send does to the stream and to what is written.
LEMMA SendEffect ==
  ASSUME TypeInv, ConnectionInv, StreamInv, ~conn.refed, NEW w \in Workers, Send(w), Writes(w)
  PROVE  \E r \in Request, status \in Status, m \in Nat :
           /\ conn.state = "WRITING" /\ conn.open
           /\ conn.out[1] = <<r, 1, status>> /\ Reached(r, status, m) /\ m = Written(w)
           /\ Fits \in Nat /\ m + Fits <= Length(r, status) /\ Length(r, status) \in Nat
           /\ Written(w)' = m + Fits
           /\ Take(Left, Fits) \in Seq(Wire) /\ Len(Take(Left, Fits)) = Fits
           /\ \A i \in 1..Fits : Take(Left, Fits)[i] = <<r, m + i, status>>
           /\ Stream \in Seq(Wire) /\ Stream' = Stream \o Take(Left, Fits)
<1> USE DEF TypeInv
<1>1. client' = client /\ work[w].pc = "send" /\ conn.open BY DEF Send, Writes
<1>2. client.got \in Seq(Wire) BY DEF StreamInv
<1>3. Writing(w) /\ conn.state = "WRITING"
  <2>1. Progress(w) BY <1>1 DEF StreamInv
  <2>2. conn.state # "CLOSED" BY <1>1 DEF ConnectionInv, ClosedInv
  <2>3. conn.state = "WRITING" BY <1>1, <2>1, <2>2 DEF ConnType, Progress, Reading, Processing
  <2>4. QED BY <2>1, <2>3 DEF Progress
<1> DEFINE m == Written(w)
           t == Take(Left, Fits)
<1>4. m = conn.offset + conn.flushed /\ Written(w)' = m + Fits BY <1>1, SendWritten
<1>5. PICK r \in Request, status \in Status :
        conn.out = Response(r, status) /\ m <= Len(conn.out) /\ Reached(r, status, m)
  BY <1>3 DEF Writing
<1>6. m \in Nat /\ Len(conn.out) \in Nat BY <1>4 DEF ConnType
<1>7. /\ Fits \in 0..Len(Left) /\ Len(Left) = Len(conn.out) - m
      /\ t \in Seq(Wire) /\ Len(t) = Fits
      /\ \A i \in 1..Fits : m + i \in 1..Len(conn.out) /\ t[i] = conn.out[m + i]
  <2>1. conn.offset + conn.flushed <= Len(conn.out) BY <1>4, <1>5
  <2>2. QED BY <1>4, <2>1, TakenFacts
<1>8. Stream \in Seq(Wire) /\ Stream' = Stream \o t BY <1>1, <1>2, SendStream
<1> HIDE DEF m, t
<1> DEFINE n == Length(r, status)
<1>9. /\ n \in Nat \ {0} /\ Len(conn.out) = n
      /\ \A k \in 1..n : conn.out[k] = <<r, k, status>>
  BY <1>5, ResponseFacts
<1> HIDE DEF n
<1>10. \A i \in 1..Fits : t[i] = <<r, m + i, status>> BY <1>7, <1>9
<1>11. conn.out[1] = <<r, 1, status>>
  <2>1. 1 \in 1..n BY <1>9
  <2>2. QED BY <1>9, <2>1
<1>12. Fits \in Nat /\ m + Fits <= n BY <1>6, <1>7, <1>9
<1>13. QED
  BY <1>1, <1>3, <1>4, <1>5, <1>6, <1>7, <1>8, <1>9, <1>10, <1>11, <1>12 DEF n, m, t

\* More of the response under way is written.
LEMMA HandledSend ==
  ASSUME TypeInv, ConnectionInv, StreamInv, HandledInv, OneWorker, NEW w \in Workers,
         served' = served, Send(w)
  PROVE  HandledInv' /\ conn'.open = conn.open /\ conn'.refed = conn.refed
<1> USE DEF TypeInv
<1>1. client' = client /\ work[w].pc = "send" BY DEF Send
<1>2. CASE UNCHANGED <<conn, sock>> /\ (Goto(w, "sent") \/ Goto(w, "close"))
  <2>1. work'[w].pc \in {"sent", "close"} BY <1>2, Went
  <2>2. Stream' = Stream BY <1>1, <1>2 DEF Stream
  <2>3. Written(w)' = Written(w) BY <1>1, <1>2, <2>1 DEF Written
  <2>4. ASSUME ~conn.refed, conn.open PROVE Settles(w)'
    <3>1. Settles(w) BY <1>1, <2>4 DEF HandledInv, HandledOf
    <3>2. QED BY <1>1, <1>2, <2>1, <2>2, <2>3, <3>1, SettlesKept
  <2>5. ~conn'.refed => HandledOf(w)' BY <1>2, <2>1, <2>4 DEF HandledOf
  <2>6. QED BY <1>2, <2>5, HandledByOne
<1>3. CASE Writes(w)
  <2>1. /\ work'[w].pc \in {"sent", "advance"}
        /\ conn'.open = conn.open /\ conn'.state = conn.state /\ conn'.out = conn.out
        /\ conn'.refed = conn.refed
    BY <1>1, <1>3, SendWritten
  <2>2. ASSUME ~conn.refed, conn.open PROVE Settles(w)'
    <3>1. Settles(w) BY <1>1, <2>2 DEF HandledInv, HandledOf
    <3>2. PICK r \in Request, status \in Status, m \in Nat :
            /\ conn.state = "WRITING" /\ m = Written(w)
            /\ Fits \in Nat /\ Written(w)' = m + Fits
            /\ Take(Left, Fits) \in Seq(Wire) /\ Len(Take(Left, Fits)) = Fits
            /\ Stream \in Seq(Wire) /\ Stream' = Stream \o Take(Left, Fits)
      BY <1>3, <2>2, SendEffect
    <3>3. LastServed' = LastServed BY DEF LastServed
    <3>4. ASSUME conn.out[1][3] # "ok", Written(w)' = 0 PROVE Settled'
      <4>1. m = 0 /\ Fits = 0 BY <3>2, <3>4
      <4>2. Settled BY <3>1, <3>2, <3>4, <4>1 DEF Settles
      <4> DEFINE t == Take(Left, Fits)
      <4>3. t \in Seq(Wire) /\ Len(t) = 0 BY <3>2, <4>1
      <4> HIDE DEF t
      <4>4. t = <<>> BY <4>3, EmptySeq
      <4>5. Stream \o t = Stream BY <3>2, <4>4, ConcatEmptySeq
      <4>6. Stream' = Stream BY <3>2, <4>5 DEF t
      <4>7. QED BY <3>3, <4>2, <4>6 DEF Settled
    <3>5. QED BY <2>1, <3>1, <3>2, <3>3, <3>4 DEF Settles
  <2>3. ~conn'.refed => HandledOf(w)' BY <2>1, <2>2 DEF HandledOf, ConnectionInv, Fields
  <2>4. QED BY <2>1, <2>3, HandledByOne
<1>4. QED BY <1>2, <1>3, SendCases

\* At first nothing has been handled.
LEMMA InitHandled ==
  ASSUME Init
  PROVE  HandledInv
<1>1. conn.open = TRUE /\ conn.state = "READING" /\ served = <<>> BY DEF Init
<1>2. \A w \in Workers : work[w].pc = "idle" BY DEF Init, IdleWorker
<1>3. QED BY <1>1, <1>2 DEF HandledInv, HandledOf, Settles, Settled

\* Every step keeps the invariant.
LEMMA HandledStep ==
  ASSUME OneWorker, TypeInv, ConnectionInv, GreetingInv, InputInv, StreamInv, StreamInv',
         HandledInv, [Next]_vars
  PROVE  HandledInv'
<1>1. Steady BY ClientKept DEF TypeInv
<1>2. CASE \E w \in Workers : Dispatch(w) BY <1>2, HandledDispatch
<1>3. CASE \A w \in Workers : ~Dispatch(w)
  <2>1. served' = served BY <1>3, ServedKept
  <2>2. ASSUME NEW w \in Workers, WorkerStep(w) PROVE HandledInv'
    <3>1. CASE StartTask(w) \/ HandleRead(w) \/ HandleWrite(w) \/ (CheckAlive(w) /\ IsAlive(conn))
      <4>1. Resting BY <3>1, ResumingRests
      <4>2. QED BY <2>1, <4>1, HandledResting
    <3>2. CASE Handshake(w) \/ Recv(w) BY <2>1, <3>2, HandledReceiving
    <3>3. CASE FeedParser(w) BY <1>1, <2>1, <3>3, HandledFeed
    <3>4. CASE PrepareResponse(w) BY <2>1, <3>4, HandledPrepare
    <3>5. CASE Send(w) BY <2>1, <3>5, HandledSend
    <3>6. CASE Advance(w) BY <2>1, <3>6, HandledAdvance
    <3>7. CASE FinishWrite(w) BY <2>1, <3>7, HandledFinish
    <3>8. CASE CloseInTask(w) \/ (CheckAlive(w) /\ ~IsAlive(conn)) BY <2>1, <3>8, HandledRemoval
    <3>9. QED
      BY <1>3, <2>2, <3>1, <3>2, <3>3, <3>4, <3>5, <3>6, <3>7, <3>8 DEF WorkerStep
  <2>3. CASE HandleEvent \/ Quieten \/ CollectTimedOut \/ RemoveTimedOut \/ HangUp \/ UNCHANGED vars
    BY <2>1, <2>3, HandledEventLoop
  <2>4. CASE Greet \/ SendUnit \/ Receive BY <2>1, <2>4, HandledClient
  <2>5. QED BY <2>2, <2>3, <2>4 DEF Next
<1>4. QED BY <1>2, <1>3

-----------------------------------------------------------------------------
(* One worker: the refinement of Exchange                                    *)

\* Cut, with what it depends on.
CutIn(script, s) == s # <<>> /\ LastOf(s)[2] < LengthIn(script, LastOf(s)[1], LastOf(s)[3])

\* Cut is CutIn of the client's script.
LEMMA CutFacts ==
  /\ Cut(Stream) = CutIn(client.script, Stream)
  /\ Cut(Stream)' = CutIn(client'.script, Stream')
BY DEF Cut, CutIn, Length, LengthIn, Kind

\* Every request of a client is one of those that Exchange is about.
LEMMA RequestsKnown ==
  ASSUME ClientType, NEW r \in Request
  PROVE  r \in UNION {1..Len(p.script) : p \in Peers}
BY DEF ClientType, Request

\* A step that leaves the stream and the handlers alone is none of Exchange.
LEMMA ExchangeStutters ==
  ASSUME Steady, Stream' = Stream, served' = served, conn'.open = conn.open,
         conn'.refed = conn.refed
  PROVE  UNCHANGED E!vars
<1>1. Cut(Stream)' = Cut(Stream) BY CutFacts DEF Steady
<1>2. Begun(Stream)' = Begun(Stream) /\ Numbers(served)' = Numbers(served) BY DEF Begun, Numbers
<1>3. QED BY <1>1, <1>2 DEF E!vars

\* The numbers of the requests that were handled.
LEMMA NumbersFacts ==
  ASSUME NEW s \in Seq([req : Nat, body : Nat])
  PROVE  /\ Numbers(s) \in Seq(Nat) /\ Len(Numbers(s)) = Len(s)
         /\ Numbers(s) # <<>> <=> s # <<>>
         /\ s # <<>> => Numbers(s)[Len(Numbers(s))] = s[Len(s)].req
         /\ \A x \in [req : Nat, body : Nat] : Numbers(Append(s, x)) = Append(Numbers(s), x.req)
<1> DEFINE n == Len(s)
           q == Numbers(s)
           S == [req : Nat, body : Nat]
<1>1. n \in Nat /\ \A i \in 1..n : s[i] \in S BY ElementOfSeq, LenProperties
<1>2. q = [i \in 1..n |-> s[i].req] BY DEF Numbers
<1> HIDE DEF n, q
<1>3. q \in Seq(Nat) /\ Len(q) = n /\ \A i \in 1..n : q[i] = s[i].req BY <1>1, <1>2
<1>4. q # <<>> <=> s # <<>> BY <1>3, EmptySeq DEF n
<1>5. s # <<>> => q[Len(q)] = s[n].req
  <2>1. s # <<>> => n \in 1..n BY <1>1, EmptySeq DEF n
  <2>2. QED BY <1>3, <2>1
<1>6. ASSUME NEW x \in S PROVE Numbers(Append(s, x)) = Append(q, x.req)
  <2> DEFINE a == Append(s, x)
             k == n + 1
             b == Append(q, x.req)
             c == Numbers(a)
  <2>1. Len(a) = k /\ a[k] = x /\ \A i \in 1..n : a[i] = s[i] BY AppendProperties DEF n
  <2>2. c = [i \in 1..Len(a) |-> a[i].req] BY DEF Numbers
  <2> HIDE DEF a, c
  <2>3. c = [i \in 1..k |-> a[i].req] BY <2>1, <2>2
  <2>4. \A i \in 1..k : a[i].req \in Nat
    <3>1. \A i \in 1..k : i = k \/ i \in 1..n BY <1>1
    <3>2. QED BY <1>1, <2>1, <3>1
  <2>5. c \in Seq(Nat) /\ Len(c) = k /\ \A i \in 1..k : c[i] = a[i].req BY <1>1, <2>3, <2>4
  <2>6. b \in Seq(Nat) /\ Len(b) = k /\ b[k] = x.req /\ \A i \in 1..n : b[i] = q[i]
    BY <1>3, AppendProperties
  <2> HIDE DEF b
  <2>7. ASSUME NEW i \in 1..k PROVE c[i] = b[i]
    <3> HIDE DEF S, k
    <3>1. c[i] = a[i].req BY <2>5
    <3>2. CASE i = k BY <2>1, <2>6, <3>1, <3>2
    <3>3. CASE i \in 1..n BY <1>3, <2>1, <2>6, <3>1, <3>3
    <3>4. i = k \/ i \in 1..n BY <1>1 DEF k
    <3>5. QED BY <3>2, <3>3, <3>4
  <2>8. c = b BY <2>5, <2>6, <2>7, SeqEqual
  <2>9. QED BY <2>8 DEF a, b, c
<1>7. QED BY <1>3, <1>4, <1>5, <1>6 DEF n, q

\* A stream with no units begins no response.
LEMMA BegunNone == Begun(<<>>) = <<>>
<1> DEFINE e == <<>>
<1>1. e \in Seq(Wire) /\ Len(e) = 0 BY EmptySeq
<1> HIDE DEF e
<1>2. PICK f \in [0..Len(e) -> Seq(Answer)] : Beginnings(e, f) /\ Begun(e) = f[Len(e)]
  BY <1>1, BeginningsExist
<1>3. QED BY <1>1, <1>2 DEF Beginnings, e

\* When a response may come next, all is out that was begun, and nothing was refused.
LEMMA NextIsDue ==
  ASSUME Whole(Stream), Stream \in Seq(Wire), NEW r, Due(r)
  PROVE  /\ ~Cut(Stream) /\ ~E!Refused
         /\ Stream = <<>> => Begun(Stream) = <<>>
         /\ Stream # <<>> => /\ Begun(Stream) # <<>>
                             /\ E!Final(Begun(Stream))[1] = LastOf(Stream)[1]
                             /\ LastOf(Stream)[1] < r
<1>1. CASE Stream = <<>> BY <1>1, BegunNone DEF Cut, E!Refused
<1>2. CASE Stream # <<>>
  <2> DEFINE s == Stream
             last == LastOf(Stream)
  <2>1. WholeIn(client.script, conn.dropped, s) BY WholeFacts
  <2>2. s \in Seq(Wire) /\ s # <<>> BY <1>2
  <2> HIDE DEF s
  <2>3. Begun(s) # <<>> /\ Begun(s)[Len(Begun(s))] = <<LastOf(s)[1], LastOf(s)[3]>>
    BY <2>1, <2>2, BegunLast
  <2>4. last[1] < r /\ last[3] = "ok" /\ last[2] = Length(last[1], "ok") BY <1>2, DueIsLater
  <2>5. ~Cut(Stream)
    <3>1. last \in Wire
      <4>1. Len(Stream) \in 1..Len(Stream) BY <1>2, EmptySeq, LenProperties
      <4>2. QED BY <4>1, ElementOfSeq DEF LastOf
    <3>2. last[2] \in Nat BY <3>1 DEF Wire
    <3> DEFINE a == last[2]
               b == Length(last[1], last[3])
    <3>3. a = b /\ a \in Nat BY <2>4, <3>2
    <3> HIDE DEF a, b
    <3>4. ~(a < b) BY <3>3
    <3>5. QED BY <3>4 DEF Cut, a, b
  <2>6. E!Final(Begun(Stream)) = <<last[1], last[3]>> BY <2>3 DEF E!Final, s
  <2>7. ~E!Refused BY <2>4, <2>6 DEF E!Refused
  <2>8. QED BY <1>2, <2>3, <2>4, <2>5, <2>6, <2>7 DEF s
<1>3. QED BY <1>1, <1>2

\* The last request that was handled has its response, when the next may come.
LEMMA LastIsOut ==
  ASSUME Whole(Stream), Stream \in Seq(Wire), NEW r, Due(r), Settled, served # <<>>
  PROVE  E!IsOut(LastServed) /\ LastServed < r
<1>1. Stream # <<>> /\ LastOf(Stream)[1] = LastServed BY DEF Settled
<1>2. QED BY <1>1, NextIsDue DEF E!IsOut

\* A request goes to its handler.
LEMMA DispatchHandles ==
  ASSUME TypeInv, ConnectionInv, StreamInv, HandledInv, Steady, ~conn.refed,
         NEW w \in Workers, Dispatch(w)
  PROVE  E!Next
<1> USE DEF TypeInv
<1> DEFINE x == work[w].arg
           r == work[w].arg.req
           Requests == UNION {1..Len(p.script) : p \in Peers}
<1>1. /\ UNCHANGED <<conn, sock, client>> /\ work[w].pc = "dispatch" /\ served' = Append(served, x)
  BY DEF Dispatch
<1>2. /\ x \in [req : Nat, body : Nat] /\ r \in Request /\ r \in Nat
      /\ served \in Seq([req : Nat, body : Nat])
  BY <1>1, ScriptFacts DEF WorkType, WorkOf
<1>3. Stream' = Stream BY <1>1 DEF Stream
<1>4. /\ Begun(Stream)' = Begun(Stream) /\ Cut(Stream)' = Cut(Stream)
  <2>1. Cut(Stream)' = Cut(Stream) BY <1>3, CutFacts DEF Steady
  <2>2. QED BY <1>3, <2>1 DEF Begun
<1>5. Numbers(served)' = Append(Numbers(served), r)
  <2>1. Numbers(served)' = Numbers(served') BY DEF Numbers
  <2>2. QED BY <1>1, <1>2, <2>1, NumbersFacts
<1>6. /\ Numbers(served) # <<>> <=> served # <<>>
      /\ served # <<>> => E!Final(Numbers(served)) = LastServed
  BY <1>2, NumbersFacts DEF E!Final, LastServed
<1>7. served # <<>> => LastServed < r BY <1>1 DEF HandledInv, HandledOf
<1>8. ASSUME conn.open
      PROVE  ~E!Refused /\ (served # <<>> => E!IsOut(LastServed))
  <2>1. Progress(w) /\ Settles(w) /\ Whole(Stream)
    BY <1>1, <1>8 DEF StreamInv, HandledInv, HandledOf
  <2>2. conn.state = "PROCESSING"
    <3>1. conn.state # "CLOSED" BY <1>8 DEF ConnectionInv, ClosedInv
    <3>2. QED BY <1>1, <2>1, <3>1 DEF ConnType, Progress, Reading, Writing
  <2>3. Due(conn.parser.req) /\ Settled BY <1>1, <2>1, <2>2 DEF Progress, Processing, Settles
  <2>4. Stream \in Seq(Wire) BY StreamTypes DEF StreamInv
  <2>5. QED BY <2>1, <2>3, <2>4, NextIsDue, LastIsOut
<1>9. r \in Requests BY <1>2, RequestsKnown
<1>10. E!Handle(r)
  <2>1. Numbers(served) # <<>> => r > E!Final(Numbers(served))
    <3>1. ASSUME served # <<>> PROVE r > E!Final(Numbers(served))
      <4> DEFINE a == LastServed
      <4>1. a < r /\ E!Final(Numbers(served)) = a BY <1>6, <1>7, <3>1
      <4> HIDE DEF a, r
      <4>2. r > a BY <4>1
      <4>3. QED BY <4>1, <4>2
    <3>2. QED BY <1>6, <3>1
  <2>2. conn.open /\ Numbers(served) # <<>> => E!IsOut(E!Final(Numbers(served)))
    BY <1>6, <1>8
  <2>3. conn.open => ~E!Refused BY <1>8
  <2>4. UNCHANGED <<Begun(Stream), Cut(Stream), conn.open, conn.refed>> BY <1>1, <1>4
  <2> HIDE DEF r
  <2>5. QED BY <1>5, <2>1, <2>2, <2>3, <2>4 DEF E!Handle
<1> HIDE DEF r
<1>11. QED BY <1>9, <1>10 DEF E!Next

\* What is put into the socket begins a response, or goes on with one, or ends it.
LEMMA SendImplements ==
  ASSUME TypeInv, ConnectionInv, StreamInv, HandledInv, Steady, ~conn.refed,
         NEW w \in Workers, served' = served, Send(w)
  PROVE  [E!Next]_E!vars
<1> USE DEF TypeInv
<1>1. client' = client /\ work[w].pc = "send" BY DEF Send
<1>2. CASE UNCHANGED <<conn, sock>>
  <2>1. Stream' = Stream BY <1>1, <1>2 DEF Stream
  <2>2. QED BY <1>2, <2>1, ExchangeStutters
<1>3. CASE Writes(w)
  <2> DEFINE t == Take(Left, Fits)
             s == Stream
             b == Begun(Stream)
             Requests == UNION {1..Len(p.script) : p \in Peers}
  <2>1. PICK r \in Request, status \in Status, m \in Nat :
          /\ conn.state = "WRITING" /\ conn.open
          /\ conn.out[1] = <<r, 1, status>> /\ Reached(r, status, m) /\ m = Written(w)
          /\ Fits \in Nat /\ m + Fits <= Length(r, status) /\ Length(r, status) \in Nat
          /\ t \in Seq(Wire) /\ Len(t) = Fits
          /\ \A i \in 1..Fits : t[i] = <<r, m + i, status>>
          /\ s \in Seq(Wire) /\ Stream' = s \o t
    BY <1>3, SendEffect
  <2>2. Settles(w) /\ Whole(Stream)
    BY <1>1, <2>1 DEF HandledInv, HandledOf, StreamInv
  <2>3. conn'.open = conn.open /\ conn'.refed = conn.refed BY <1>1, <1>3, SendWritten
  <2>4. CASE Fits = 0
    <3> HIDE DEF t, s
    <3>1. t = <<>> BY <2>1, <2>4, EmptySeq
    <3>2. s \o t = s BY <2>1, <3>1, ConcatEmptySeq
    <3>3. Stream' = Stream BY <2>1, <3>2 DEF s
    <3>4. QED BY <2>3, <3>3, ExchangeStutters
  <2>5. CASE Fits # 0
    <3>1. t # <<>> BY <2>1, <2>5, EmptySeq
    <3>2. StretchOf(t, r, status, m) BY <2>1 DEF StretchOf
    <3> HIDE DEF t, s
    <3>3. Begun(s \o t) = IF m = 0 THEN Append(Begun(s), <<r, status>>) ELSE Begun(s)
      <4>1. s \in Seq(Wire) /\ t \in Seq(Wire) /\ m \in Nat BY <2>1
      <4>2. QED BY <4>1, <3>1, <3>2, BegunMore
    <3>4. Begun(Stream)' = IF m = 0 THEN Append(b, <<r, status>>) ELSE b
      <4>1. Begun(Stream)' = Begun(s \o t) BY <2>1 DEF Begun
      <4>2. QED BY <3>3, <4>1 DEF s
    <3>5. Cut(Stream)' \in BOOLEAN BY DEF Cut
    <3>6. Numbers(served)' = Numbers(served) BY DEF Numbers
    <3>7. r \in Requests BY <2>1, RequestsKnown
    <3> HIDE DEF b, Requests
    <3>8. CASE m = 0
      <4>1. Due(r) /\ Stream \in Seq(Wire) BY <2>1, <3>8 DEF Reached, ReachedIn, Due, s
      <4>2. ~Cut(Stream) /\ ~E!Refused BY <2>2, <4>1, NextIsDue
      <4>3. served \in Seq([req : Nat, body : Nat]) BY DEF WorkType
      <4>4. /\ Numbers(served) # <<>> <=> served # <<>>
            /\ served # <<>> => E!Final(Numbers(served)) = LastServed
        BY <4>3, NumbersFacts DEF E!Final, LastServed
      <4>5. r \in Nat BY ScriptFacts
      <4>6. CASE status = "ok"
        <5>1. served # <<>> /\ LastServed = r BY <2>1, <2>2, <4>6 DEF Settles
        <5>2. ~E!IsOut(r)
          <6>1. CASE Stream = <<>> BY <2>2, <4>1, <6>1, NextIsDue DEF E!IsOut
          <6>2. CASE Stream # <<>>
            <7> DEFINE a == LastOf(Stream)[1]
            <7>1. E!Final(Begun(Stream))[1] = a /\ a < r BY <2>2, <4>1, <6>2, NextIsDue
            <7> HIDE DEF a
            <7>2. a # r BY <4>5, <7>1
            <7>3. QED BY <7>1, <7>2 DEF E!IsOut
          <6>3. QED BY <6>1, <6>2
        <5>3. status \notin {"400", "413"} BY <4>6
        <5>4. E!Begin(r, status)
          BY <2>1, <2>3, <3>4, <3>5, <3>6, <3>8, <4>2, <4>4, <5>1, <5>2, <5>3 DEF E!Begin, b
        <5>5. QED BY <3>7, <4>6, <5>4 DEF E!Next, Requests
      <4>7. CASE status # "ok"
        <5>1. status \in {"400", "413"} BY <4>7 DEF Status
        <5>2. Settled BY <2>1, <2>2, <3>8, <4>7 DEF Settles
        <5>3. Numbers(served) # <<>> =>
                E!IsOut(E!Final(Numbers(served))) /\ r > E!Final(Numbers(served))
          <6> SUFFICES ASSUME served # <<>>
                       PROVE  E!IsOut(E!Final(Numbers(served))) /\ r > E!Final(Numbers(served))
            BY <4>4
          <6> DEFINE a == LastServed
          <6>1. E!IsOut(a) /\ a < r BY <2>2, <4>1, <5>2, LastIsOut
          <6>2. E!Final(Numbers(served)) = a BY <4>4
          <6> HIDE DEF a
          <6>3. r > a BY <6>1
          <6>4. QED BY <6>1, <6>2, <6>3
        <5>4. E!Begin(r, status)
          BY <2>1, <2>3, <3>4, <3>5, <3>6, <3>8, <4>2, <5>1, <5>3 DEF E!Begin, b
        <5>5. QED BY <3>7, <5>1, <5>4 DEF E!Next, Requests
      <4>8. QED BY <4>6, <4>7
    <3>9. CASE m # 0
      <4>1. Stream # <<>> /\ LastOf(Stream) = <<r, m, status>> BY <2>1, <3>9 DEF Reached, ReachedIn
      <4>2. m < Length(r, status) BY <2>1, <2>5
      <4>3. Cut(Stream) BY <4>1, <4>2 DEF Cut
      <4>4. Begun(Stream)' = Begun(Stream) BY <3>4, <3>9 DEF b
      <4>5. CASE Cut(Stream)' = TRUE
        <5>1. Cut(Stream)' = Cut(Stream) BY <4>3, <4>5 DEF Cut
        <5>2. UNCHANGED E!vars BY <2>3, <3>6, <4>4, <5>1 DEF E!vars
        <5>3. QED BY <5>2
      <4>6. CASE Cut(Stream)' = FALSE
        <5>1. E!Complete BY <2>1, <2>3, <3>6, <4>3, <4>4, <4>6 DEF E!Complete
        <5>2. QED BY <5>1 DEF E!Next
      <4>7. QED BY <3>5, <4>5, <4>6
    <3>10. QED BY <3>8, <3>9
  <2>6. QED BY <2>4, <2>5
<1>4. QED BY <1>2, <1>3, SendCases

\* A Connection that is closed loses at most what the kernel has not yet delivered.
LEMMA CloseImplements ==
  ASSUME TypeInv, ConnectionInv, StreamInv, Steady, client' = client, served' = served,
         CloseConnection \/ RemoveConnection
  PROVE  [E!Next]_E!vars
<1> USE DEF TypeInv
<1>1. Shut BY CloseShuts, RemoveShuts
<1>2. CASE ~conn.open
  <2>1. sock' = sock BY <1>2 DEF CloseConnection, CloseSocket, RemoveConnection
  <2>2. conn.open = FALSE BY <1>2 DEF ConnType
  <2>3. Stream' = Stream BY <2>1 DEF Stream
  <2>4. QED BY <1>1, <2>2, <2>3, ExchangeStutters DEF Shut
<1>3. CASE conn.open
  <2> DEFINE got == client.got
             p == PastHandshake(sock.tx)
             s == Stream
             e == <<>>
  <2>1. got \in Seq(Wire) /\ p \in Seq(Wire) /\ s \in Seq(Wire) /\ s = got \o p
    BY StreamTypes DEF StreamInv, Stream
  <2>2. e \in Seq(Wire) /\ Len(e) = 0 BY EmptySeq
  <2>3. s \o e = s BY <2>1, ConcatEmptySeq
  <2>4. \E n \in 0..Len(Begun(Stream)) : Begun(Stream)' = SubSeq(Begun(Stream), 1, n)
    <3>1. CASE sock'.tx = sock.tx
      <4>1. Stream' = s BY <3>1 DEF Stream
      <4>2. Begun(Stream)' = Begun(s) BY <4>1 DEF Begun
      <4> HIDE DEF s, e
      <4>3. \E n \in 0..Len(Begun(s \o e)) : Begun(s) = SubSeq(Begun(s \o e), 1, n)
        BY <2>1, <2>2, BegunBefore
      <4>4. QED BY <2>3, <4>2, <4>3 DEF s
    <3>2. CASE sock'.tx = <<>>
      <4>1. Stream' = got
        <5>1. PastHandshake(e) = <<>>
          <6> HIDE DEF e
          <6>1. \A i \in 1..Len(e) : e[i][1] = 0 BY <2>2
          <6>2. QED BY <2>2, <6>1, PastNone
        <5>2. Stream' = got \o <<>> BY <3>2, <5>1 DEF Stream
        <5> HIDE DEF got
        <5>3. QED BY <2>1, <5>2, ConcatEmptySeq
      <4>2. Begun(Stream)' = Begun(got) BY <4>1 DEF Begun
      <4> HIDE DEF got, p, s
      <4>3. \E n \in 0..Len(Begun(got \o p)) : Begun(got) = SubSeq(Begun(got \o p), 1, n)
        BY <2>1, BegunBefore
      <4>4. QED BY <2>1, <4>2, <4>3 DEF s
    <3>3. QED BY <1>1, <3>1, <3>2 DEF Shut
  <2>5. Cut(Stream)' \in BOOLEAN BY DEF Cut
  <2>6. Numbers(served)' = Numbers(served) BY DEF Numbers
  <2>7. E!Close BY <1>1, <1>3, <2>4, <2>5, <2>6 DEF E!Close, Shut
  <2>8. QED BY <2>7 DEF E!Next
<1>4. QED BY <1>2, <1>3

\* What the event loop does.
LEMMA EventLoopImplements ==
  ASSUME TypeInv, ConnectionInv, StreamInv, Steady, served' = served,
         HandleEvent \/ Quieten \/ CollectTimedOut \/ RemoveTimedOut \/ HangUp \/ UNCHANGED vars
  PROVE  [E!Next]_E!vars
<1> USE DEF TypeInv
<1>1. client' = client
  BY DEF HandleEvent, Quieten, CollectTimedOut, RemoveTimedOut, HangUp, vars
<1>2. CASE RemoveConnection BY <1>1, <1>2, CloseImplements
<1>3. CASE /\ conn' = conn \/ conn' = [conn EXCEPT !.quiet = TRUE]
           /\ \/ sock' = sock \/ sock' = [sock EXCEPT !.armed = FALSE]
              \/ sock' = [sock EXCEPT !.fin = TRUE, !.armed = TRUE]
  <2>1. conn'.open = conn.open /\ conn'.refed = conn.refed BY <1>3 DEF ConnType
  <2>2. sock'.tx = sock.tx BY <1>3 DEF SockType
  <2>3. Stream' = Stream BY <1>1, <2>2 DEF Stream
  <2>4. QED BY <2>1, <2>3, ExchangeStutters
<1>4. QED
  BY <1>2, <1>3 DEF HandleEvent, Quieten, CollectTimedOut, RemoveTimedOut, HangUp, vars

\* Every step is one of Exchange, or none of it.
LEMMA ExchangeStep ==
  ASSUME OneWorker, TypeInv, ConnectionInv, GreetingInv, InputInv, StreamInv, StreamInv',
         HandledInv, [Next]_vars
  PROVE  [E!Next]_E!vars
<1>1. Steady BY ClientKept DEF TypeInv
<1>2. CASE conn'.refed BY <1>2 DEF E!Next, E!Forfeit
<1>3. ASSUME ~conn'.refed, ~conn.refed, NEW w \in Workers, Dispatch(w) PROVE [E!Next]_E!vars
  BY <1>1, <1>3, DispatchHandles
<1>4. CASE ~conn'.refed /\ \A w \in Workers : ~Dispatch(w)
  <2>1. served' = served BY <1>4, ServedKept
  <2>2. ASSUME NEW w \in Workers, WorkerStep(w) PROVE [E!Next]_E!vars
    <3>1. CASE StartTask(w) \/ HandleRead(w) \/ HandleWrite(w) \/ (CheckAlive(w) /\ IsAlive(conn))
      <4>1. Resting BY <3>1, ResumingRests
      <4>2. Stream' = Stream BY <4>1 DEF Resting, Stream
      <4>3. QED BY <1>1, <2>1, <4>1, <4>2, ExchangeStutters DEF Resting
    <3>2. CASE Handshake(w) \/ Recv(w)
      BY <1>1, <2>1, <3>2, HandledReceiving, ExchangeStutters
    <3>3. CASE FeedParser(w)
      <4>1. conn'.refed = conn.refed
        <5>1. Refuses(w) \/ Accepts(w) \/ GoesOn(w) BY <3>3, FeedCases
        <5>2. conn.refed \in BOOLEAN BY DEF ConnectionInv, Fields
        <5>3. CASE GoesOn(w) BY <5>3 DEF GoesOn
        <5>4. CASE Refuses(w) \/ Accepts(w)
          <6>1. conn'.refed = (conn.refed \/ conn.state # "READING") BY <5>4 DEF Refuses, Accepts
          <6>2. QED BY <1>4, <5>2, <6>1
        <5>5. QED BY <5>1, <5>3, <5>4
      <4>2. QED BY <1>1, <2>1, <3>3, <4>1, HandledFeed, ExchangeStutters
    <3>4. CASE PrepareResponse(w) BY <1>1, <2>1, <3>4, HandledPrepare, ExchangeStutters
    <3>5. CASE Send(w)
      <4>1. conn'.refed = conn.refed BY <2>1, <3>5, HandledSend
      <4>2. QED BY <1>1, <1>4, <2>1, <3>5, <4>1, SendImplements
    <3>6. CASE Advance(w) BY <1>1, <2>1, <3>6, HandledAdvance, ExchangeStutters
    <3>7. CASE FinishWrite(w) BY <1>1, <2>1, <3>7, HandledFinish, ExchangeStutters
    <3>8. CASE CloseInTask(w) \/ (CheckAlive(w) /\ ~IsAlive(conn))
      <4>1. client' = client /\ (CloseConnection \/ RemoveConnection)
        BY <3>8 DEF CloseInTask, CheckAlive
      <4>2. QED BY <1>1, <2>1, <4>1, CloseImplements
    <3>9. QED
      BY <1>4, <2>2, <3>1, <3>2, <3>3, <3>4, <3>5, <3>6, <3>7, <3>8 DEF WorkerStep
  <2>3. CASE HandleEvent \/ Quieten \/ CollectTimedOut \/ RemoveTimedOut \/ HangUp \/ UNCHANGED vars
    BY <1>1, <2>1, <2>3, EventLoopImplements
  <2>4. CASE Greet \/ SendUnit \/ Receive
    <3>1. conn' = conn BY <2>4 DEF Greet, SendUnit, Receive
    <3>2. Stream' = Stream BY <2>1, <2>4, HandledClient
    <3>3. QED BY <1>1, <2>1, <3>1, <3>2, ExchangeStutters
  <2>5. QED BY <2>2, <2>3, <2>4 DEF Next
<1>5. ASSUME NEW w \in Workers, Dispatch(w) PROVE conn' = conn BY <1>5 DEF Dispatch
<1>6. QED BY <1>2, <1>3, <1>4, <1>5

\* At first nothing has been handled or answered.
LEMMA InitExchange ==
  ASSUME Init
  PROVE  E!Init
<1>1. /\ served = <<>> /\ conn.open = TRUE /\ conn.refed = FALSE
      /\ client.got = <<>> /\ sock.tx = <<>>
  BY DEF Init
<1> DEFINE e == <<>>
<1>2. e \in Seq(Wire) /\ Len(e) = 0 BY EmptySeq
<1>3. Stream = e
  <2>1. \A i \in 1..Len(e) : e[i][1] = 0 BY <1>2
  <2> HIDE DEF e
  <2>2. PastHandshake(e) = <<>> BY <1>2, <2>1, PastNone
  <2>3. e \o <<>> = e BY <1>2, ConcatEmptySeq
  <2>4. Stream = e \o PastHandshake(e) BY <1>1 DEF Stream, e
  <2>5. QED BY <2>2, <2>3, <2>4
<1>4. Begun(Stream) = <<>> BY <1>3, BegunNone
<1>5. Cut(Stream) = FALSE BY <1>3 DEF Cut
<1>6. Numbers(served) = <<>>
  <2> DEFINE S == [req : Nat, body : Nat]
             s == served
  <2>1. s \in Seq(S) /\ s = <<>> BY <1>1, EmptySeq
  <2> HIDE DEF s
  <2>2. Numbers(s) = <<>> BY <2>1, NumbersFacts
  <2>3. QED BY <2>2 DEF s
<1>7. QED BY <1>1, <1>4, <1>5, <1>6 DEF E!Init

\* With one worker, a connection implements Exchange: requests are handled in their
\* order, each at most once and only when the response to the one before is out, and
\* responses are begun in that order.
THEOREM SerialExchange == ASSUME OneWorker PROVE Spec => ImplementsExchange
<1> DEFINE Inv == TypeInv /\ ConnectionInv /\ GreetingInv /\ InputInv /\ StreamInv /\ HandledInv
<1>1. Init => Inv
  BY InitTypes, InitConnection, InitGreeting, InitInput, InitStream, InitHandled
<1>2. ConnectionInv /\ [Next]_vars => ConnectionInv' BY ConnectionStep
<1>3. Inv /\ [Next]_vars => Inv'
  BY <1>2, TypeStep, GreetingStep, InputStep, StreamStep, HandledStep
<1>4. Init => E!Init BY InitExchange
<1>5. Inv /\ Inv' /\ [Next]_vars => [E!Next]_E!vars BY ExchangeStep
<1>6. QED BY <1>1, <1>3, <1>4, <1>5, PTL DEF Spec, ImplementsExchange, E!Spec

=============================================================================
