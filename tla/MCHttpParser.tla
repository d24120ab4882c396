---------------------------- MODULE MCHttpParser ----------------------------
(* HttpParser for TLC: the streams of the run. *)
EXTENDS HttpParser

CRLF == <<"CR", "LF">>
Start(method, target, version) == <<method, "SP">> \o target \o <<"SP", version>> \o CRLF
Header(name, value) == <<name, ":", "SP">> \o value \o CRLF

Get == Start("GET", <<"/a">>, "HTTP/1.1") \o Header("Host", <<"h">>) \o CRLF
Search == Start("GET", <<"/s", "?", "q">>, "HTTP/1.0") \o Header("Connection", <<"Keep-Alive">>) \o CRLF
\* a body that looks like the end of the headers, and one header twice
Post == Start("POST", <<"/b">>, "HTTP/1.1") \o Header("Content-Length", <<"1">>)
          \o Header("content-length", <<"3">>) \o CRLF \o <<"CR", "LF", "x">>
Short == Start("POST", <<"/b">>, "HTTP/1.1") \o Header("content-length", <<"2">>) \o CRLF \o <<"x", "x">>
One == Start("POST", <<"/b">>, "HTTP/1.1") \o Header("content-length", <<"1">>) \o CRLF \o <<"x">>
NoNumber == Start("POST", <<"/b">>, "HTTP/1.1") \o Header("content-length", <<"many">>) \o CRLF
Closing == Start("GET", <<"/a">>, "HTTP/1.1") \o Header("Connection", <<"close">>) \o CRLF
Newer == Start("GET", <<"/a">>, "HTTP/2.0") \o CRLF
BadMethod == Start("BREW", <<"/a">>, "HTTP/1.1") \o CRLF
NoVersion == <<"GET", "SP", "/a">> \o CRLF \o CRLF
NoColon == Start("GET", <<"/a">>, "HTTP/1.1") \o <<"Host", "SP", "h">> \o CRLF \o CRLF
\* a%61=%26+&b&&aa==&+=%61
Query == Start("GET", <<"/s", "?", "a", "%", "6", "1", "=", "%", "2", "6", "+", "&", "b", "&", "&",
                        "a", "a", "=", "=", "&", "+", "=", "%", "6", "1">>, "HTTP/1.1") \o CRLF
\* %4g=%-1&%g=%6
BadEscapes == Start("GET", <<"/s", "?", "%", "4", "g", "=", "%", "-", "1", "&", "%", "g", "1", "=",
                             "%", "6">>, "HTTP/1.1") \o CRLF
Empty == CRLF \o Get
LoneCR == Start("GET", <<"/a", "CR">>, "HTTP/1.1") \o Header("Host", <<"LF", "CR">>) \o CRLF

MCStreams == {Get \o Get, Search \o Post, Short \o One, Post \o Get, NoNumber \o <<"x">>, Closing,
              Newer, BadMethod, NoVersion, NoColon, Empty, LoneCR, Query,
              BadEscapes \o Get}
=============================================================================
