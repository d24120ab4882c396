----------------------------- MODULE HttpParser -----------------------------
(***************************************************************************)
(* hphttp::HttpParser fed by Connection::read_data: the stream arrives in   *)
(* chunks cut anywhere, and whatever the cuts the parser should come to the *)
(* same request.                                                            *)
(*                                                                          *)
(* A byte is abstracted to a token: CR, LF, SP, ":" and "?" for themselves, *)
(* and one token for a word whose letters no code tells apart (a method, a  *)
(* version, a number, a name); in a query string a token is a character.  A *)
(* chunk may end after any token, so also between CR and LF.                 *)
(***************************************************************************)
EXTENDS Integers, TLC, SequencesExt

CONSTANTS
  Streams,   \* the sequences of tokens a client may send
  MaxChunk   \* the longest chunk one recv can return

ASSUME ParserAssumption ==
  /\ Streams \subseteq Seq(STRING)
  /\ MaxChunk \in Nat \ {0}

VARIABLES
  parser,  \* request_, state_, buffer_, body_bytes_read_
  unsent,  \* what is left of the client's stream
  fed      \* everything fed since construction or the last reset (history)

vars == <<parser, unsent, fed>>

Methods == {"GET", "POST"}
Versions == {"HTTP/1.1", "HTTP/1.0"}
Number == [digit \in {"0", "1", "2", "3"} |->
             CASE digit = "0" -> 0 [] digit = "1" -> 1 [] digit = "2" -> 2 [] digit = "3" -> 3]
Lower(word) == CASE word = "Content-Length" -> "content-length"
                 [] word = "Connection" -> "connection"
                 [] word = "Keep-Alive" -> "keep-alive"
                 [] OTHER -> word

Digit == [digit \in {"1", "2", "4", "6", "a"} |->
            CASE digit = "1" -> 1 [] digit = "2" -> 2 [] digit = "4" -> 4 [] digit = "6" -> 6
              [] digit = "a" -> 10]
\* the characters of the streams that an escape can stand for
Char == 38 :> "&" @@ 97 :> "a" @@ 4 :> "EOT" @@ 255 :> "0xff"

NoHeaders == [key \in {} |-> <<>>]
NewRequest == [method |-> "UNKNOWN", path |-> <<>>, query |-> <<>>, params |-> NoHeaders,
               version |-> "UNKNOWN",
               headers |-> NoHeaders, body |-> <<>>, keepAlive |-> FALSE, contentLength |-> 0]
NewParser == [request |-> NewRequest, state |-> "REQUEST_LINE", buffer |-> <<>>, bodyRead |-> 0]

Init ==
  /\ parser = NewParser
  /\ unsent \in Streams
  /\ fed = <<>>

-----------------------------------------------------------------------------
(* One line *)

\* the position of the first token equal to tok at or after i, or 0
Find(s, tok, i) ==
  LET found == {j \in i..Len(s) : s[j] = tok} IN IF found = {} THEN 0 ELSE Min(found)
From(s, i) == SubSeq(s, i, Len(s))
Word(s) == IF Len(s) = 1 THEN s[1] ELSE "other"

\* std::from_chars of two characters in base 16: it is content with one digit, and
\* with a sign; none when it fails
FromHex(a, b) ==
  CASE a \in DOMAIN Digit /\ b \in DOMAIN Digit -> {16 * Digit[a] + Digit[b]}
    [] a \in DOMAIN Digit /\ b \notin DOMAIN Digit -> {Digit[a]}
    [] a = "-" /\ b \in DOMAIN Digit -> {(-Digit[b]) % 256}
    [] OTHER -> {}

\* A turn of a loop is a function of what the loop has come to; when the loop is over
\* a turn leaves it as it is.

\* url_decode: the next character is at s[d.at]
DecodeTurn(s, d) ==
  LET value == IF s[d.at] = "%" /\ d.at + 2 <= Len(s) THEN FromHex(s[d.at + 1], s[d.at + 2])
               ELSE {}
      plain == IF s[d.at] = "+" THEN "SP" ELSE s[d.at]
  IN CASE d.at > Len(s) -> d
       [] d.at <= Len(s) /\ value # {} ->
            [at |-> d.at + 3, out |-> Append(d.out, Char[CHOOSE n \in value : TRUE])]
       [] d.at <= Len(s) /\ value = {} -> [at |-> d.at + 1, out |-> Append(d.out, plain)]
UrlDecode(s) ==
  LET turn[k \in 0..Len(s)] ==
        IF k = 0 THEN [at |-> 1, out |-> <<>>] ELSE DecodeTurn(s, turn[k - 1])
  IN turn[Len(s)].out

\* map[key] = value: a later value replaces an earlier one
With(map, key, value) ==
  [k \in DOMAIN map \cup {key} |-> IF k = key THEN value ELSE map[k]]

\* the parameter of a pair: a name without "=" is not decoded
WithParameter(params, pair) ==
  LET eq == Find(pair, "=", 1)
  IN CASE eq # 0 ->
            With(params, UrlDecode(SubSeq(pair, 1, eq - 1)), UrlDecode(From(pair, eq + 1)))
       [] eq = 0 /\ pair # <<>> -> With(params, pair, <<>>)
       [] eq = 0 /\ pair = <<>> -> params

\* parse_query_string: remaining begins at query[q.at]
QueryTurn(query, q) ==
  LET amp == Find(query, "&", q.at)
      end == IF amp = 0 THEN Len(query) + 1 ELSE amp
  IN IF q.at > Len(query) THEN q
     ELSE [at |-> end + 1, params |-> WithParameter(q.params, SubSeq(query, q.at, end - 1))]
ParseQueryString(params, query) ==
  LET turn[k \in 0..Len(query)] ==
        IF k = 0 THEN [at |-> 1, params |-> params] ELSE QueryTurn(query, turn[k - 1])
  IN turn[Len(query)].params

\* parse_request_line: [ok, request].  An unknown version is accepted.
ParseRequestLine(request, line) ==
  LET sp1 == Find(line, "SP", 1)
      method == Word(SubSeq(line, 1, sp1 - 1))
      sp2 == Find(line, "SP", sp1 + 1)
      target == SubSeq(line, sp1 + 1, sp2 - 1)
      q == Find(target, "?", 1)
      version == Word(From(line, sp2 + 1))
  IN IF sp1 = 0 \/ method \notin Methods \/ sp2 = 0
     THEN [ok |-> FALSE, request |-> request]
     ELSE [ok |-> TRUE, request |-> [request EXCEPT
            !.method = method,
            !.path = IF q = 0 THEN target ELSE SubSeq(target, 1, q - 1),
            !.query = IF q = 0 THEN <<>> ELSE From(target, q + 1),
            !.params = IF q = 0 THEN @ ELSE ParseQueryString(@, From(target, q + 1)),
            !.version = IF version \in Versions THEN version ELSE "UNKNOWN"]]

\* parse_header_line: [ok, request]
Field(line) ==
  LET colon == Find(line, ":", 1)
      text == {i \in (colon + 1)..Len(line) : line[i] # "SP"}
  IN [key |-> [i \in 1..(colon - 1) |-> Lower(line[i])],
      value |-> IF text = {} THEN <<>> ELSE From(line, Min(text))]
ParseHeaderLine(request, line) ==
  IF Find(line, ":", 1) = 0 THEN [ok |-> FALSE, request |-> request]
  ELSE [ok |-> TRUE,
        request |-> [request EXCEPT !.headers = With(@, Field(line).key, Field(line).value)]]

\* finalize_headers.  from_chars leaves content_length at 0 when the value is
\* not a number.
FinalizeHeaders(request) ==
  LET h == request.headers
      length == IF <<"content-length">> \in DOMAIN h THEN h[<<"content-length">>] ELSE <<>>
  IN [request EXCEPT
       !.contentLength = IF length # <<>> /\ Head(length) \in DOMAIN Number
                         THEN Number[Head(length)] ELSE 0,
       !.keepAlive = IF <<"connection">> \in DOMAIN h
                     THEN \E i \in DOMAIN h[<<"connection">>] :
                            Lower(h[<<"connection">>][i]) = "keep-alive"
                     ELSE request.version = "HTTP/1.1"]

-----------------------------------------------------------------------------
(* feed *)

\* where "\r\n" is found
Ends(text) == {i \in 1..(Len(text) - 1) : text[i] = "CR" /\ text[i + 1] = "LF"}

\* A definition whose comment begins with `mutant' is not part of the model: it
\* is the definition after it as a plausible bug would have it.

\* mutant: body_bytes_read_ is not advanced
NotAdvanced(p, n) == p.bodyRead
Advanced(p, n) == p.bodyRead + n

\* the BODY state
TakeBody(p) ==
  LET remaining == p.request.contentLength - p.bodyRead IN
  IF Len(p.buffer) < remaining
  THEN [p EXCEPT !.request.body = @ \o p.buffer, !.bodyRead = Advanced(p, Len(p.buffer)),
                 !.buffer = <<>>]
  ELSE [p EXCEPT !.request.body = @ \o SubSeq(p.buffer, 1, remaining),
                 !.buffer = From(@, remaining + 1), !.state = "COMPLETE"]

\* the loop of feed, once the chunk is in buffer_: a turn takes a line, or the body
Turn(p) ==
  LET line == SubSeq(p.buffer, 1, Min(Ends(p.buffer)) - 1)
      next == [p EXCEPT !.buffer = From(@, Len(line) + 3)]
      read == IF p.state = "REQUEST_LINE" THEN ParseRequestLine(p.request, line)
              ELSE ParseHeaderLine(p.request, line)
  IN CASE p.state \in {"COMPLETE", "ERROR"} -> p
       [] p.state = "BODY" -> TakeBody(p)
       [] p.state \in {"REQUEST_LINE", "HEADERS"} /\ Ends(p.buffer) = {} -> p
       [] p.state = "HEADERS" /\ Ends(p.buffer) # {} /\ line = <<>> ->
            [next EXCEPT !.request = FinalizeHeaders(@), !.state = "BODY"]
       [] OTHER ->
            IF read.ok THEN [next EXCEPT !.request = read.request, !.state = "HEADERS"]
            ELSE [p EXCEPT !.state = "ERROR"]
\* as many turns as there can be: each that is not the last takes two bytes
Parse(p) ==
  LET turn[k \in 0..(Len(p.buffer) + 1)] == IF k = 0 THEN p ELSE Turn(turn[k - 1])
  IN turn[Len(p.buffer) + 1]

\* read_data: one recv, one feed
Feed ==
  \E n \in 1..MaxChunk :
    /\ n <= Len(unsent)
    /\ parser' = Parse([parser EXCEPT !.buffer = @ \o SubSeq(unsent, 1, n)])
    /\ fed' = fed \o SubSeq(unsent, 1, n)
    /\ unsent' = From(unsent, n + 1)

\* mutants: parts of the previous request survive
ForgetsBytesRead(p) == [NewParser EXCEPT !.bodyRead = p.bodyRead]
AfterReset(p) == NewParser

\* handle_write resets the parser for the next request: what is left in buffer_
\* is dropped
Reset ==
  /\ parser.state = "COMPLETE" /\ parser.request.keepAlive
  /\ parser' = AfterReset(parser)
  /\ fed' = <<>>
  /\ UNCHANGED unsent

Next == Feed \/ Reset

Spec == Init /\ [][Next]_vars

-----------------------------------------------------------------------------
(* What the bytes fed so far mean, taken as a whole: the text is split at    *)
(* every CRLF, the first empty line after the first line ends the headers,   *)
(* and the body is what follows, up to Content-Length.                       *)

\* Of the things at the places at, each with a name and a value, the last with a name
\* gives its value.
LastOfEach(at, name, value) ==
  [n \in {name[i] : i \in at} |-> value[Max({i \in at : name[i] = n})]]

\* What a query string means, where every "%" is followed by two digits: the
\* parameters lie between the "&"s, and the characters of a text are those outside
\* the digits of its escapes, in their order.
IsEscape(text, i) == i \in 1..Len(text) /\ text[i] = "%"
WellFormed(text) ==
  \A i \in 1..Len(text) : IsEscape(text, i) =>
    i + 2 <= Len(text) /\ {text[i + 1], text[i + 2]} \subseteq DOMAIN Digit
Decoded(text) ==
  LET kept == {i \in 1..Len(text) : ~IsEscape(text, i - 1) /\ ~IsEscape(text, i - 2)}
      \* the number of characters that the first i tokens stand for
      count[i \in 0..Len(text)] ==
        IF i = 0 THEN 0 ELSE count[i - 1] + (IF i \in kept THEN 1 ELSE 0)
      Value(i) == CASE text[i] = "%" -> Char[16 * Digit[text[i + 1]] + Digit[text[i + 2]]]
                    [] text[i] = "+" -> "SP"
                    [] OTHER -> text[i]
  IN [n \in 1..count[Len(text)] |-> Value(CHOOSE i \in kept : count[i] = n)]

\* the pair that ends before the "&" at e, or before the end of the query
PairEnds(query) == {i \in 1..Len(query) : query[i] = "&"} \cup {Len(query) + 1}
Pair(query, e) ==
  SubSeq(query, Max({1} \cup {i + 1 : i \in {j \in PairEnds(query) : j < e}}), e - 1)
NameIn(pair) == LET eq == {i \in 1..Len(pair) : pair[i] = "="}
                IN IF eq = {} THEN pair ELSE Decoded(SubSeq(pair, 1, Min(eq) - 1))
ValueIn(pair) == LET eq == {i \in 1..Len(pair) : pair[i] = "="}
                 IN IF eq = {} THEN <<>> ELSE Decoded(From(pair, Min(eq) + 1))
Parameters(query) ==
  LET at == {e \in PairEnds(query) : Pair(query, e) # <<>>}
  IN LastOfEach(at, [e \in at |-> NameIn(Pair(query, e))], [e \in at |-> ValueIn(Pair(query, e))])

\* the line that ends at e, the lines after the first, and those that are headers
Line(text, e) ==
  SubSeq(text, Max({1} \cup {i + 2 : i \in {j \in Ends(text) : j < e}}), e - 1)
Later(text) == Ends(text) \ {Min(Ends(text))}
Blanks(text) == {e \in Later(text) : Line(text, e) = <<>>}
Headers(text) == {e \in Later(text) : \A b \in Blanks(text) : e < b}

RequestLine(text) == ParseRequestLine(NewRequest, Line(text, Min(Ends(text))))
IsHeader(line) == ParseHeaderLine(NewRequest, line).ok
Headed(text) ==
  LET at == Headers(text)
  IN [RequestLine(text).request EXCEPT
       !.headers = LastOfEach(at, [e \in at |-> Field(Line(text, e)).key],
                                  [e \in at |-> Field(Line(text, e)).value])]

Meaning(text) ==
  LET whole == FinalizeHeaders(Headed(text))
      rest == From(text, Min(Blanks(text)) + 2)
  IN IF Ends(text) = {} THEN [state |-> "REQUEST_LINE", request |-> NewRequest]
     ELSE IF ~RequestLine(text).ok \/ \E e \in Headers(text) : ~IsHeader(Line(text, e))
     THEN [state |-> "ERROR"]
     ELSE IF Blanks(text) = {} THEN [state |-> "HEADERS", request |-> Headed(text)]
     ELSE IF Len(rest) < whole.contentLength
     THEN [state |-> "BODY", request |-> [whole EXCEPT !.body = rest]]
     ELSE [state |-> "COMPLETE",
           request |-> [whole EXCEPT !.body = SubSeq(rest, 1, whole.contentLength)]]

-----------------------------------------------------------------------------
(* Properties *)

\* Every field has its type, and body_bytes_read_ never passes content_length,
\* so the unsigned subtraction content_length - body_bytes_read_ never wraps.
TypeOK ==
  /\ parser.state \in {"REQUEST_LINE", "HEADERS", "BODY", "COMPLETE", "ERROR"}
  /\ parser.request.method \in Methods \cup {"UNKNOWN"}
  /\ parser.request.contentLength \in Nat
  /\ parser.bodyRead \in Nat
  /\ parser.bodyRead <= (IF parser.state \in {"BODY", "COMPLETE"}
                        THEN parser.request.contentLength ELSE 0)

\* However the stream is cut into chunks, between CR and LF, inside a body that
\* itself contains CRLF, or with the next request in the same chunk, feed has
\* made of the bytes what they mean as a whole; and nothing of a request
\* survives reset() into the next.  The parameters of a well-formed query string
\* are the names and values that the client has encoded.
ParsedAsWhole ==
  LET m == Meaning(fed) IN
  /\ parser.state = m.state
  /\ m.state # "ERROR" => parser.request = m.request
  /\ m.state # "ERROR" /\ WellFormed(parser.request.query) =>
       parser.request.params = Parameters(parser.request.query)
=============================================================================
