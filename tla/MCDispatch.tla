----------------------------- MODULE MCDispatch -----------------------------
(* Dispatch for TLC: the default routes, the routes of examples and tests, and *)
(* requests for all of them.                                                   *)
EXTENDS Dispatch, Bitwise

MCBitXor(a, b) == a ^^ b

Route(method, pattern, handler) == [method |-> method, pattern |-> pattern, handler |-> handler]

MCDefaultRoutes ==
  << Route("GET", <<"/">>, "root"),
     Route("GET", <<"/", "health">>, "health"),
     Route("GET", <<"/", "api", "/", "status">>, "status"),
     Route("POST", <<"/", "api", "/", "data">>, "data"),
     Route("GET", <<"/", "static", "/", "*">>, "static"),
     Route("GET", <<"/", "api", "/", "echo">>, "echo") >>

\* a method of a path registered after another one, a parameter that an exact
\* route follows
MCTables ==
  { MCDefaultRoutes,
    MCDefaultRoutes \o << Route("POST", <<"/", "api", "/", "echo">>, "user"),
                          Route("GET", <<"/", "users", "/", ":">>, "user"),
                          Route("GET", <<"/", "users", "/", "me">>, "status") >> }

\* as configured by default, and with everything on and CORS added by the user
MCChains ==
  { <<"log", "gzip", "security", "id">>, <<"log", "rate", "gzip", "security", "id", "cors">> }

Req(method, path) ==
  [method |-> method, path |-> path, gzip |-> FALSE, body |-> "empty", text |-> "utf8"]

PlainRequests ==
  { Req("GET", <<"/">>), Req("OPTIONS", <<"/", "health">>),
    [Req("POST", <<"/", "api", "/", "data">>) EXCEPT !.body = "json"],
    [Req("POST", <<"/", "api", "/", "data">>) EXCEPT !.body = "other"],
    Req("POST", <<"/", "api", "/", "data">>),
    Req("POST", <<"/", "api", "/", "echo">>),
    [Req("GET", <<"/", "api", "/", "echo">>) EXCEPT !.text = "binary"],
    Req("GET", <<"/", "users", "/", "me">>), Req("GET", <<"/", "users", "/">>),
    Req("GET", <<"/", "binary">>),
    Req("HEAD", <<"/", "static", "/", "index.html">>),
    Req("GET", <<"/", "static", "/", "app">>),
    Req("GET", <<"/", "static", "/", ".", "/", "js", "/", "..", "/", "index.html">>),
    Req("GET", <<"/", "static", "/", "..", "/", "..", "/", "static", "/">>) }

MCRequests == PlainRequests \cup {[r EXCEPT !.gzip = TRUE] : r \in PlainRequests}

\* a file that shrinks, one whose time is older and whose tag is that of the first
\* version (4 ^ 2 = 6 ^ 0), one that has the time of another and its own size
MCSizeOf == <<2, 0, 0, 2>>
MCModifiedAt == <<4, 8, 6, 8>>

MCFiles == { <<"static", "index.html">> }
MCDirectories == { <<>>, <<"static">> }
=============================================================================
