---------------------------- MODULE MCConnection ----------------------------
(* Connection for TLC: the clients of each run. *)
EXTENDS Connection, TLC

\* a response of three units does not fit the send buffer of conn_serial
Req(body, keep, how) == [body |-> body, keep |-> keep, how |-> how, size |-> 3]
Small(request) == [request EXCEPT !.size = 1]
Get == Req(0, TRUE, "ok")
LastGet == Req(0, FALSE, "ok")
Post(n) == Req(n, TRUE, "ok")
Malformed == Req(0, TRUE, "bad")
Throwing == Req(1, TRUE, "throws")

Peer(script, pipelines, flight) ==
  [script |-> script, pipelines |-> pipelines, flight |-> flight]

\* one request more than the limit; bodies under, at and past the limit; a
\* malformed request and a handler that throws, each after a request
SerialScripts == {<<Get, Get, Get>>, <<Post(1), LastGet>>, <<Get, Post(2)>>,
                  <<Post(3)>>, <<Get, Malformed>>, <<Throwing, Get>>}

\* ... a client that pipelines, with a response that blocks and with one that is
\* sent at once, and TLS with a flight that fits the send buffer and with one that
\* does not
SerialPeers == {Peer(s, FALSE, 0) : s \in SerialScripts}
               \cup {Peer(<<Get, Get>>, TRUE, 0), Peer(<<Small(Post(1)), Small(Get), Small(Get)>>, TRUE, 0),
                     Peer(<<Get, Post(1)>>, FALSE, 2), Peer(<<Get>>, FALSE, 3)}
OneGet == {Peer(<<[Get EXCEPT !.size = 2]>>, FALSE, 0)}
MixedPeers == {Peer(s, FALSE, 0) : s \in {<<[Get EXCEPT !.size = 2]>>, <<[LastGet EXCEPT !.size = 2]>>,
                                           <<Throwing>>}}
=============================================================================
