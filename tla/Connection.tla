----------------------------- MODULE Connection -----------------------------
(***************************************************************************)
(* One hphttp::Connection with everything that acts on it: the              *)
(* event loop, which turns readiness of its edge-triggered descriptor into  *)
(* tasks and removes it on hang-up or time-out; the workers, which run      *)
(* those tasks (handle_read, handle_write, the is_alive check); the kernel  *)
(* socket; and a client.                                                     *)
(*                                                                          *)
(* Bytes are abstracted to units that say what they belong to: <<r, i>> is  *)
(* unit i of request r, unit 0 standing for its request line and headers    *)
(* and units 1..body for its body; <<r, i, status>> is unit i of a response *)
(* to it.  Units of "request" 0 belong to the TLS handshake.  Descriptor    *)
(* reuse is the subject of Server.tla: here the descriptor, once closed,     *)
(* stays closed.                                                             *)
(*                                                                          *)
(* With two workers the shared fields are data races; the steps below then  *)
(* give the interleavings of whole field accesses, which are some of the    *)
(* outcomes such a build has.                                               *)
(***************************************************************************)
EXTENDS Integers, Sequences, FiniteSets

CONSTANTS
  Workers,      \* the threads of the pool
  Peers,        \* the clients that may connect: the requests each wants to send,
                \* whether it waits for a response before the next one, and the units
                \* of the server's TLS flight (its certificates), 0 without TLS
  MaxRequests,  \* keepalive_max_requests_
  MaxBody,      \* max_request_size_
  ReadBuf,      \* units that one recv can return (65536 bytes in the code)
  SendCap,      \* units that the kernel's send buffer holds
  ErrorLen,     \* units in a 400 or 413 response
  MaxTasks,     \* bound: the tasks of this connection that wait in the pool's queue
  MayTimeout,   \* time may pass: keepalive_timeout_ms
  MayHangUp     \* the client may close its sending side

ASSUME ConnectionAssumption ==
  /\ IsFiniteSet(Workers) /\ Workers # {}
  /\ \A p \in Peers :
       /\ p.script \in Seq([body : Nat, keep : BOOLEAN, how : {"ok", "bad", "throws"},
                          size : Nat \ {0}])  \* size: the units of a handler's response
       /\ p.pipelines \in BOOLEAN /\ p.flight \in Nat
  /\ MaxRequests \in Nat \ {0} /\ MaxBody \in Nat
  /\ ReadBuf \in Nat \ {0} /\ SendCap \in Nat \ {0} /\ ErrorLen \in Nat \ {0}
  /\ MaxTasks \in Nat \ {0}
  /\ {MayTimeout, MayHangUp} \subseteq BOOLEAN

VARIABLES
  conn,    \* the Connection object; history: `refed' after input has met a request
           \* already served or refused but not yet answered in full, `dropped' after
           \* reset() has discarded input, `unread' while read_data has stopped at the
           \* end of a request with input left in the socket, `wantWrite' after a
           \* handshake has found the send buffer full
  sock,    \* the kernel's side of the socket and of its epoll registration
  main,    \* the event loop: connections_ membership, pool queue, timed_out_fds
  work,    \* work[w]: what worker w is doing
  client,  \* the peer
  served   \* the requests given to on_request_, in order (history)

vars == <<conn, sock, main, work, client, served>>

Request == 1..Len(client.script)
Kind(r) == client.script[r]
Length(r, status) == IF status = "ok" THEN Kind(r).size ELSE ErrorLen
Response(r, status) == [i \in 1..Length(r, status) |-> <<r, i, status>>]
Take(s, n) == SubSeq(s, 1, n)
Drop(s, n) == SubSeq(s, n + 1, Len(s))
Least(a, b) == IF a < b THEN a ELSE b

Shaken(c) == c.ssl \in {"none", "done"}
Hello == <<0, 1>>
Finished == <<0, 2>>
Garbage == <<0, 0>>

NewParser == [stage |-> "head", req |-> 0, read |-> 0, buffer |-> <<>>]
IdleWorker == [pc |-> "idle", events |-> {}, arg |-> <<>>, inRead |-> FALSE]

Init ==
  /\ \E p \in Peers :
       /\ client = [script |-> p.script, pipelines |-> p.pipelines, flight |-> p.flight,
                    hs |-> IF p.flight = 0 THEN "done" ELSE "start", seen |-> 0,
                    req |-> 1, pos |-> 0, got |-> <<>>]
       /\ conn = [open |-> TRUE, state |-> "READING", parser |-> NewParser,
                  ssl |-> IF p.flight = 0 THEN "none" ELSE "hello", flushed |-> 0,
                  out |-> <<>>, offset |-> 0, handled |-> 0, quiet |-> FALSE,
                  refed |-> FALSE, dropped |-> FALSE, unread |-> FALSE, wantWrite |-> FALSE]
  /\ sock = [rx |-> <<>>, tx |-> <<>>, fin |-> FALSE, armed |-> TRUE, noSpace |-> FALSE]
  /\ main = [registered |-> TRUE, tasks |-> <<>>, timedOut |-> FALSE]
  /\ work = [w \in Workers |-> IdleWorker]
  /\ served = <<>>

-----------------------------------------------------------------------------
(* HttpParser at the grain of units.  A definition whose comment begins     *)
(* with `mutant' is not part of the model: it is the definition after it as *)
(* a plausible bug would have it.                                            *)

\* feed: [result, parser].  A unit that cannot start a request is an error.
Feed(p, chunk) ==
  LET b == p.buffer \o chunk
      first == Head(b)
      wrong == p.stage = "error" \/ (p.stage = "head" /\ (first[2] # 0 \/ Kind(first[1]).how = "bad"))
      inBody == IF p.stage = "head"
                THEN [stage |-> "body", req |-> first[1], read |-> 0, buffer |-> Tail(b)]
                ELSE [p EXCEPT !.buffer = b]
      need == Kind(inBody.req).body - inBody.read
      have == Len(inBody.buffer)
  IN CASE p.stage = "complete" -> [result |-> "COMPLETE", parser |-> inBody]
       [] wrong
            -> [result |-> "ERROR", parser |-> [inBody EXCEPT !.stage = "error"]]
       [] p.stage # "complete" /\ ~wrong /\ have < need
            -> [result |-> "NEED_MORE_DATA",
                parser |-> [inBody EXCEPT !.read = @ + have, !.buffer = <<>>]]
       [] OTHER
            -> [result |-> "COMPLETE",
                parser |-> [inBody EXCEPT !.stage = "complete", !.read = @ + need,
                                          !.buffer = Drop(@, need)]]

\* mutant: the parser is not reset for the next request
NotReset(p) == p
Reset(p) == NewParser

-----------------------------------------------------------------------------
(* Connection: close, and how a worker moves through a task *)

CloseObject(c) ==
  IF c.state = "CLOSED" THEN c ELSE [c EXCEPT !.open = FALSE, !.state = "CLOSED"]

\* ::shutdown and ::close: epoll forgets the descriptor; unread input makes
\* the kernel reset the connection, and what it had still to send may be lost
CloseSocket ==
  IF conn.open /\ conn.state # "CLOSED"
  THEN \E sent \in {sock.tx} \cup (IF sock.rx = <<>> THEN {} ELSE {<<>>}) :
         sock' = [sock EXCEPT !.tx = sent, !.armed = FALSE, !.noSpace = FALSE]
  ELSE UNCHANGED sock

CloseConnection == conn' = CloseObject(conn) /\ CloseSocket

\* remove_connection, up to the erase: connections_mutex_ is held from the find
\* to the erase
\* mutant: the entry is erased but the connection not closed
EraseOnly == UNCHANGED <<conn, sock>>
RemoveConnection ==
  IF main.registered THEN CloseConnection ELSE UNCHANGED <<conn, sock>>

Goto(w, pc) == work' = [work EXCEPT ![w].pc = pc]
GotoWith(w, pc, arg) == work' = [work EXCEPT ![w].pc = pc, ![w].arg = arg]

\* where a task goes when handle_read is over
AfterRead(events) == IF "OUT" \in events THEN "write" ELSE "check"

\* handle_read or handle_write returns; prepare_response calls handle_write
\* inside handle_read
Leave(w) ==
  work' = [work EXCEPT
    ![w].pc = IF work[w].inRead THEN AfterRead(work[w].events) ELSE "check",
    ![w].inRead = FALSE, ![w].arg = <<>>]

-----------------------------------------------------------------------------
(* A worker: the lambda submitted by handle_connection_event *)

StartTask(w) ==
  /\ work[w].pc = "idle"
  /\ main.tasks # <<>>
  /\ LET events == Head(main.tasks) IN
       work' = [work EXCEPT ![w] =
         [pc |-> IF "IN" \in events THEN "read" ELSE AfterRead(events),
          events |-> events, arg |-> <<>>, inRead |-> "IN" \in events]]
  /\ main' = [main EXCEPT !.tasks = Tail(@)]
  /\ UNCHANGED <<conn, sock, client, served>>

HandleRead(w) ==
  /\ work[w].pc = "read"
  /\ IF conn.state = "CLOSED"
     THEN Leave(w) /\ UNCHANGED conn
     ELSE IF Shaken(conn)
          THEN Goto(w, "recv") /\ conn' = [conn EXCEPT !.quiet = FALSE]
          ELSE Goto(w, "accept") /\ UNCHANGED conn
  /\ UNCHANGED <<sock, main, client, served>>

\* mutant: back to the event loop after each flight
OneFlight(w) == Leave(w)
NextFlight(w) == UNCHANGED work

\* do_tls_handshake, one flight of SSL_accept: read the client's, or write what
\* there is room for of the server's.  False is returned on WANT_READ and on
\* WANT_WRITE alike, and the next handle_read goes on.
Handshake(w) ==
  /\ work[w].pc = "accept"
  /\ LET room == SendCap - Len(sock.tx)
         n == Least(client.flight - conn.flushed, room)
     IN CASE ~conn.open -> Goto(w, "close") /\ UNCHANGED <<conn, sock>>
          [] conn.open /\ conn.ssl = "flight" ->
               /\ sock' = [sock EXCEPT !.tx = @ \o [i \in 1..n |-> <<0, i, "flight">>],
                                       !.noSpace = n < client.flight - conn.flushed]
               /\ IF n = client.flight - conn.flushed
                  THEN conn' = [conn EXCEPT !.ssl = "finish", !.flushed = 0] /\ NextFlight(w)
                  ELSE conn' = [conn EXCEPT !.flushed = @ + n, !.wantWrite = TRUE] /\ Leave(w)
          [] conn.open /\ conn.ssl # "flight" /\ sock.rx = <<>> ->
               /\ IF sock.fin THEN Goto(w, "close") ELSE Leave(w)
               /\ UNCHANGED <<conn, sock>>
          [] OTHER ->
               /\ sock' = [sock EXCEPT !.rx = Tail(@)]
               /\ CASE Head(sock.rx) = Garbage -> Goto(w, "close") /\ UNCHANGED conn
                    [] conn.ssl = "hello" /\ Head(sock.rx) # Garbage ->
                         conn' = [conn EXCEPT !.ssl = "flight"] /\ NextFlight(w)
                    [] OTHER ->
                         conn' = [conn EXCEPT !.ssl = "done", !.quiet = FALSE] /\ Goto(w, "recv")
  /\ UNCHANGED <<main, client, served>>

\* mutant: EAGAIN is taken for an error
ClosesOnEmpty(s) == TRUE
ClosesOnRead(s) == s.fin

\* one turn of read_data's loop: recv into the worker's own buffer
Recv(w) ==
  /\ work[w].pc = "recv"
  /\ CASE conn.open /\ sock.rx # <<>> ->
            LET n == Least(ReadBuf, Len(sock.rx)) IN
            /\ GotoWith(w, "feed", Take(sock.rx, n))
            /\ sock' = [sock EXCEPT !.rx = Drop(@, n)]
       [] ~conn.open \/ (sock.rx = <<>> /\ ClosesOnRead(sock)) ->
            Goto(w, "close") /\ UNCHANGED sock
       [] OTHER -> Leave(w) /\ UNCHANGED sock
  /\ conn' = [conn EXCEPT !.unread = FALSE]
  /\ UNCHANGED <<main, client, served>>

\* mutant: only the last chunk is compared with the limit
TooLargeChunk(read, n) == n > MaxBody
TooLarge(read, n) == read + n > MaxBody

\* the loop is left at the end of a request, and at an error, without another recv
FeedParser(w) ==
  /\ work[w].pc = "feed"
  /\ LET fed == Feed(conn.parser, work[w].arg)
         p == fed.parser
         ended == [conn EXCEPT !.parser = p, !.unread = sock.rx # <<>>,
                               !.refed = @ \/ conn.state # "READING"]
     IN CASE fed.result = "ERROR" ->
               GotoWith(w, "prepare", Response(p.req, "400")) /\ conn' = ended
          [] fed.result = "COMPLETE" ->
               /\ GotoWith(w, "dispatch", [req |-> p.req, body |-> p.read])
               /\ conn' = [ended EXCEPT !.state = "PROCESSING", !.handled = @ + 1]
          [] fed.result = "NEED_MORE_DATA" /\ TooLarge(p.read, Len(work[w].arg)) ->
               GotoWith(w, "prepare", Response(p.req, "413")) /\ conn' = ended
          [] OTHER ->
               GotoWith(w, "recv", <<>>) /\ conn' = [conn EXCEPT !.parser = p]
  /\ UNCHANGED <<sock, main, client, served>>

\* on_request_.  An exception leaves handle_read and the lambda: the
\* packaged_task keeps it, and is_alive is not looked at.
Dispatch(w) ==
  /\ work[w].pc = "dispatch"
  /\ served' = Append(served, work[w].arg)
  /\ IF Kind(work[w].arg.req).how = "throws"
     THEN work' = [work EXCEPT ![w] = IdleWorker]
     ELSE GotoWith(w, "prepare", Response(work[w].arg.req, "ok"))
  /\ UNCHANGED <<conn, sock, main, client>>

PrepareResponse(w) ==
  /\ work[w].pc = "prepare"
  /\ conn' = [conn EXCEPT !.out = work[w].arg, !.offset = 0, !.state = "WRITING"]
  /\ GotoWith(w, "write", <<>>)
  /\ UNCHANGED <<sock, main, client, served>>

HandleWrite(w) ==
  /\ work[w].pc = "write"
  /\ IF conn.state # "WRITING"
     THEN Leave(w) /\ UNCHANGED conn
     ELSE Goto(w, "send") /\ conn' = [conn EXCEPT !.quiet = FALSE]
  /\ UNCHANGED <<sock, main, client, served>>

\* one turn of write_data's loop: send or SSL_write, or nothing left.  send takes
\* what there is room for and says how much that was, or EAGAIN; SSL_write
\* remembers how far it got and says WANT_WRITE until all is flushed, or fails
\* when it is called again with less than it has flushed already.
Send(w) ==
  /\ work[w].pc = "send"
  /\ LET left == Drop(conn.out, conn.offset + conn.flushed)
         n == Least(Len(left), SendCap - Len(sock.tx))
         put == sock' = [sock EXCEPT !.tx = @ \o Take(left, n), !.noSpace = @ \/ n < Len(left)]
     IN CASE conn.offset >= Len(conn.out) -> Goto(w, "sent") /\ UNCHANGED <<conn, sock>>
          [] conn.offset < Len(conn.out) /\ (~conn.open \/ Len(conn.out) < conn.offset + conn.flushed) ->
               Goto(w, "close") /\ UNCHANGED <<conn, sock>>
          [] conn.offset < Len(conn.out) /\ conn.open /\ conn.ssl = "none" ->
               /\ put /\ UNCHANGED conn
               /\ IF n = 0 THEN Goto(w, "sent") ELSE GotoWith(w, "advance", n)
          [] OTHER ->
               /\ put
               /\ IF n < Len(left)
                  THEN Goto(w, "sent") /\ conn' = [conn EXCEPT !.flushed = @ + n]
                  ELSE GotoWith(w, "advance", conn.flushed + n) /\ conn' = [conn EXCEPT !.flushed = 0]
  /\ UNCHANGED <<main, client, served>>

\* mutant: the offset of a partial write is not accumulated
LastWriteOnly(offset, n) == n
Advanced(offset, n) == offset + n

Advance(w) ==
  /\ work[w].pc = "advance"
  /\ conn' = [conn EXCEPT !.offset = Advanced(@, work[w].arg)]
  /\ GotoWith(w, "send", <<>>)
  /\ UNCHANGED <<sock, main, client, served>>

\* mutant: one request too many
UnderLimitOrAt(handled) == handled <= MaxRequests
UnderLimit(handled) == handled < MaxRequests

KeepsAlive(c) ==
  /\ UnderLimit(c.handled)
  /\ c.parser.stage = "complete"
  /\ Kind(c.parser.req).keep

\* mutant: the buffer is cleared but not its offset
ClearedBufferOnly(c) == [c EXCEPT !.out = <<>>]
Cleared(c) == [c EXCEPT !.out = <<>>, !.offset = 0]

\* the end of handle_write
FinishWrite(w) ==
  /\ work[w].pc = "sent"
  /\ IF conn.offset < Len(conn.out)
     THEN Leave(w) /\ UNCHANGED conn
     ELSE IF KeepsAlive(conn)
          THEN /\ conn' = [Cleared(conn) EXCEPT !.parser = Reset(@), !.state = "READING",
                                               !.dropped = @ \/ conn.parser.buffer # <<>>]
               /\ Leave(w)
          ELSE conn' = Cleared(conn) /\ Goto(w, "close")
  /\ UNCHANGED <<sock, main, client, served>>

CloseInTask(w) ==
  /\ work[w].pc = "close"
  /\ CloseConnection
  /\ Leave(w)
  /\ UNCHANGED <<main, client, served>>

\* mutant: the descriptor is not part of is_alive
AliveByState(c) == c.state # "CLOSED"
IsAlive(c) == c.state # "CLOSED" /\ c.open

CheckAlive(w) ==
  /\ work[w].pc = "check"
  /\ work' = [work EXCEPT ![w] = IdleWorker]
  /\ IF IsAlive(conn)
     THEN UNCHANGED <<conn, sock, main>>
     ELSE RemoveConnection /\ main' = [main EXCEPT !.registered = FALSE]
  /\ UNCHANGED <<client, served>>

-----------------------------------------------------------------------------
(* The event loop, one thread *)

\* mutant: the descriptor is registered without EPOLLOUT
InterestInOnly == {"IN", "RDHUP"}
Interest == {"IN", "OUT", "RDHUP"}

Ready ==
  Interest \cap
  ((IF sock.rx # <<>> \/ sock.fin THEN {"IN"} ELSE {}) \cup
   (IF Len(sock.tx) < SendCap THEN {"OUT"} ELSE {}) \cup
   (IF sock.fin THEN {"RDHUP"} ELSE {}))

\* epoll_wait reports the descriptor once per edge, with all that is ready at
\* that time, to handle_connection_event, which finds it in connections_
\* (OpenIsRegistered)
HandleEvent ==
  /\ ~main.timedOut /\ Len(main.tasks) < MaxTasks
  /\ sock.armed /\ conn.open
  /\ IF "RDHUP" \in Ready
     THEN /\ RemoveConnection
          /\ main' = [main EXCEPT !.registered = FALSE]
     ELSE /\ sock' = [sock EXCEPT !.armed = FALSE]
          /\ main' = IF Ready = {} THEN main ELSE [main EXCEPT !.tasks = Append(@, Ready)]
          /\ UNCHANGED conn
  /\ UNCHANGED <<work, client, served>>

\* keepalive_timeout_ms passes after the last update_activity
Quieten ==
  /\ MayTimeout /\ ~conn.quiet /\ conn.open
  /\ conn' = [conn EXCEPT !.quiet = TRUE]
  /\ UNCHANGED <<sock, main, work, client, served>>

\* cleanup_timed_out_connections collects under the lock ...
CollectTimedOut ==
  /\ ~main.timedOut
  /\ main.registered /\ conn.quiet
  /\ main' = [main EXCEPT !.timedOut = TRUE]
  /\ UNCHANGED <<conn, sock, work, client, served>>

\* ... and removes after it, without looking at the time again
RemoveTimedOut ==
  /\ main.timedOut
  /\ RemoveConnection
  /\ main' = [main EXCEPT !.registered = FALSE, !.timedOut = FALSE]
  /\ UNCHANGED <<work, client, served>>

-----------------------------------------------------------------------------
(* The peer and the network: external *)

\* the units of s that are not of the handshake, in their order
PastHandshake(s) ==
  LET past[i \in 0..Len(s)] ==
        IF i = 0 THEN <<>> ELSE IF s[i][1] = 0 THEN past[i - 1] ELSE Append(past[i - 1], s[i])
  IN past[Len(s)]

\* what the client has received or will receive, but for the handshake
Stream == client.got \o PastHandshake(sock.tx)
LastOf(s) == s[Len(s)]
HasResponse(s, r) ==
  \E i \in 1..Len(s) : s[i][1] = r /\ s[i][2] = Length(r, s[i][3])

\* the client's half of the TLS handshake; a client may also send something else
Greet ==
  /\ conn.open /\ ~sock.fin
  /\ \E first \in (IF client.hs = "start" THEN {Hello, Garbage} ELSE {Finished}) :
       sock' = [sock EXCEPT !.rx = Append(@, first), !.armed = TRUE]
  /\ \/ client.hs = "start" /\ client' = [client EXCEPT !.hs = "hello"]
     \/ /\ client.hs = "hello" /\ client.seen = client.flight
        /\ client' = [client EXCEPT !.hs = "done"]
  /\ UNCHANGED <<conn, main, work, served>>

\* the next unit of a request; a client that does not pipeline waits for the
\* response before it begins the next one, and believes its Connection header
SendUnit ==
  /\ conn.open /\ ~sock.fin
  /\ client.hs = "done" /\ client.req \in Request
  /\ client.pos = 0 /\ client.req > 1 /\ ~client.pipelines =>
       HasResponse(client.got, client.req - 1)
  /\ client.pos = 0 /\ client.req > 1 => Kind(client.req - 1).keep
  /\ sock' = [sock EXCEPT !.rx = Append(@, <<client.req, client.pos>>), !.armed = TRUE]
  /\ client' = IF client.pos < Kind(client.req).body
               THEN [client EXCEPT !.pos = @ + 1]
               ELSE [client EXCEPT !.pos = 0, !.req = @ + 1]
  /\ UNCHANGED <<conn, main, work, served>>

\* the client reads one unit; room in a full send buffer is an edge
Receive ==
  /\ sock.tx # <<>>
  /\ client' = IF Head(sock.tx)[1] = 0
               THEN [client EXCEPT !.seen = @ + 1]
               ELSE [client EXCEPT !.got = Append(@, Head(sock.tx))]
  /\ sock' = [sock EXCEPT !.tx = Tail(@), !.armed = @ \/ (conn.open /\ sock.noSpace),
                          !.noSpace = FALSE]
  /\ UNCHANGED <<conn, main, work, served>>

HangUp ==
  /\ MayHangUp /\ ~sock.fin /\ conn.open
  /\ sock' = [sock EXCEPT !.fin = TRUE, !.armed = TRUE]
  /\ UNCHANGED <<conn, main, work, client, served>>

-----------------------------------------------------------------------------
WorkerStep(w) ==
  \/ StartTask(w) \/ HandleRead(w) \/ Handshake(w) \/ Recv(w) \/ FeedParser(w) \/ Dispatch(w)
  \/ PrepareResponse(w) \/ HandleWrite(w) \/ Send(w) \/ Advance(w) \/ FinishWrite(w)
  \/ CloseInTask(w) \/ CheckAlive(w)

Next ==
  \/ \E w \in Workers : WorkerStep(w)
  \/ HandleEvent \/ Quieten \/ CollectTimedOut \/ RemoveTimedOut
  \/ Greet \/ SendUnit \/ Receive \/ HangUp

Spec == Init /\ [][Next]_vars

\* Threads are scheduled, the event loop returns to epoll_wait, and the client
\* reads what it is sent and sends the rest of a request or a handshake it has begun.
Fairness ==
  /\ \A w \in Workers : WF_vars(WorkerStep(w))
  /\ WF_vars(HandleEvent) /\ WF_vars(RemoveTimedOut)
  /\ WF_vars(Receive) /\ WF_vars(client.pos > 0 /\ SendUnit)
  /\ WF_vars(client.hs = "hello" /\ Greet)

FairSpec == Spec /\ Fairness

-----------------------------------------------------------------------------
(* Properties *)

Events == {"IN", "OUT", "RDHUP"}
WorkPC == {"idle", "read", "accept", "recv", "feed", "dispatch", "prepare", "write", "send",
           "advance", "sent", "close", "check"}
Status == {"ok", "400", "413"}

\* Every variable has its type, and write_offset_ stays within write_buffer_.
TypeOK ==
  /\ conn.open \in BOOLEAN /\ conn.quiet \in BOOLEAN
  /\ conn.state \in {"READING", "PROCESSING", "WRITING", "CLOSED"}
  /\ conn.parser.stage \in {"head", "body", "complete", "error"}
  /\ conn.parser.read \in Nat /\ conn.handled \in Nat
  /\ conn.ssl \in {"none", "hello", "flight", "finish", "done"}
  /\ conn.offset \in 0..Len(conn.out)
  /\ conn.flushed \in Nat /\ (conn.ssl = "none" => conn.flushed = 0)
  /\ \A i \in 1..Len(conn.out) : conn.out[i] \in Request \X Nat \X Status
  /\ Len(sock.tx) <= SendCap
  /\ \A i \in 1..Len(main.tasks) : main.tasks[i] \subseteq Events
  /\ \A w \in Workers : work[w].pc \in WorkPC /\ work[w].events \subseteq Events
  /\ client.req \in 1..(Len(client.script) + 1) /\ client.pos \in Nat

\* A unit comes after one of the same response, or begins the response to the next
\* request when the one before it is complete and no error; a request is passed over
\* only if reset() has dropped input.
Follows(unit, before) ==
  \/ unit = <<before[1], before[2] + 1, before[3]>>
  \/ /\ before[1] = unit[1] - 1 \/ (conn.dropped /\ before[1] < unit[1])
     /\ before[3] = "ok" /\ before[2] = Length(before[1], "ok")
     /\ unit[2] = 1
Whole(s) ==
  /\ s # <<>> => s[1][1] = 1 /\ s[1][2] = 1
  /\ \A i \in 2..Len(s) : Follows(s[i], s[i - 1])

\* What the client has received or will receive is a sequence of whole
\* responses, in the order of the requests, cut off at most in its last one; nothing
\* follows an error response, and a request goes without one only when reset() has
\* dropped what a client pipelined.  Unless input has met a request that was already
\* served.
WholeResponses == conn.refed \/ Whole(Stream)

\* A connection serves at most keepalive_max_requests_ requests, with the same
\* exception.
RequestLimit == conn.refed \/ conn.handled <= MaxRequests

\* No handler is given a body more than one read longer than max_request_size_,
\* with the same exception: what is left of a refused body may follow while the 413
\* is being written.
BoundedBody == conn.refed \/ \A i \in 1..Len(served) : served[i].body <= MaxBody + ReadBuf - 1

\* A descriptor is never left open outside connections_, where neither the event
\* loop nor the time-out would ever find it again.
OpenIsRegistered == conn.open => main.registered

\* The last request the client has sent in full, and whether it is owed a
\* response.
LastSent == client.req - 1
Owed == LastSent > 0 /\ ~HasResponse(Stream, LastSent)

\* The server closes on a client it owes a response only if the client hung up,
\* the connection timed out, the limit of requests was reached, or a malformed
\* or oversized request came before.
Refused == \E i \in 1..Len(Stream) : Stream[i][3] # "ok"
CloseJustified ==
  [][(conn.open /\ ~conn'.open /\ Owed) =>
       (sock.fin \/ main.timedOut \/ conn.handled >= MaxRequests \/ Refused)]_vars

\* A client that has sent a whole request receives its response, unless the
\* connection is closed or a handler has thrown: no edge of the edge-triggered
\* descriptor is missed.  A client that pipelines may lose a request that arrived
\* in the same read as the end of the one before, and may wait for ever for one
\* that did not, when read_data stopped before it.
Thrown == \E i \in 1..Len(served) : Kind(served[i].req).how = "throws"
Answered ==
  \A r \in 1..MaxRequests :
    client.req > r ~> (HasResponse(client.got, r) \/ ~conn.open \/ Thrown \/ conn.refed \/ conn.dropped
                        \/ conn.unread)

\* A TLS client that completes its handshake is let through or closed, unless the
\* server's flight met a full send buffer: room in it is no EPOLLIN, and only
\* handle_read goes on with a handshake.
Secured == client.hs = "hello" ~> (conn.ssl = "done" \/ ~conn.open \/ conn.wantWrite)

\* A closed connection leaves connections_, whichever thread closed it and
\* whatever other workers wrote into its state after that.
Unregistered == ~conn.open ~> ~main.registered

\* The connection implements Exchange: requests are handled in the order sent, at
\* most once, and the next one only when the response to the one before is out.
Numbers(s) == [i \in 1..Len(s) |-> s[i].req]

\* The responses of which a stream has the first unit, in its order.
Begun(s) ==
  LET begun[i \in 0..Len(s)] ==
        IF i = 0 THEN <<>>
        ELSE IF s[i][2] = 1 THEN Append(begun[i - 1], <<s[i][1], s[i][3]>>) ELSE begun[i - 1]
  IN begun[Len(s)]
Cut(s) == s # <<>> /\ LastOf(s)[2] < Length(LastOf(s)[1], LastOf(s)[3])

E == INSTANCE Exchange WITH
       Requests <- UNION {1..Len(p.script) : p \in Peers},
       Refusals <- {"400", "413"},
       handled <- Numbers(served),
       responses <- Begun(Stream),
       cut <- Cut(Stream),
       open <- conn.open,
       void <- conn.refed

ImplementsExchange == E!Spec
=============================================================================
