------------------------------ MODULE Dispatch ------------------------------
(***************************************************************************)
(* Server::dispatch_request, the on_request_ of every connection: a worker   *)
(* runs a request down the middleware chain, through the router to its      *)
(* handler, and the response back up the chain; Connection then completes   *)
(* its headers.  The handler of "/static/*" looks at a file in four system   *)
(* calls, between which another process may replace or remove the file.     *)
(*                                                                          *)
(* A file's content is the number of its version; a replacement takes the   *)
(* name over in one step (rename).  A version has any size and any          *)
(* modification time: times may coincide, and may go back.                  *)
(* A body is its length; headers are the names of those a property is       *)
(* about, Content-Length and ETag have fields.                              *)
(***************************************************************************)
EXTENDS Integers, SequencesExt, Router

CONSTANTS
  Workers,
  Requests,     \* records method, path, gzip, body, text
  Tables,       \* the tables of routes a server may be started with
  Chains,       \* the middleware chains a server may be started with
  Files,        \* the regular files below root_dir_, as sequences of names
  Directories,  \* the directories below root_dir_
  SizeOf,       \* SizeOf[v]: the size of version v of a file
  ModifiedAt,   \* ModifiedAt[v]: the modification time of version v, nanoseconds
  JsonLength,   \* the length of a JSON body
  GzipLengths,  \* what deflate may make of a body
  MaxVersion,   \* bound of the writes to files
  BitXor(_, _)  \* the operator ^ of C++ on numbers

ASSUME DispatchAssumption ==
  /\ Requests # {}
  /\ Requests \subseteq [method : STRING, path : Seq(STRING), gzip : BOOLEAN,
                         body : STRING, text : STRING]
  /\ Tables \subseteq Seq([method : STRING, pattern : Seq(STRING), handler : STRING \ {"none"}])
  /\ Files \subseteq Seq(STRING) /\ Files \cap Directories = {}
  /\ JsonLength \in Nat \ {0} /\ GzipLengths \subseteq Nat \ {0} /\ MaxVersion \in Nat \ {0}
  /\ SizeOf \in [1..MaxVersion -> Nat] /\ ModifiedAt \in [1..MaxVersion -> Nat]
  /\ \A u, v \in 1..MaxVersion : BitXor(ModifiedAt[v], SizeOf[u]) \in Nat

\* The constructor of Server makes the head of every chain, and middlewares that
\* the program adds come after it, as CORS does.  Those that may answer a request
\* themselves occur once.
ASSUME ChainAssumption ==
  \A c \in Chains :
    /\ c \in Seq({"log", "rate", "gzip", "security", "id", "cors"})
    /\ \A m \in {"security", "id"} : \E i \in 1..Len(c) :
         c[i] = m /\ \A j \in 1..Len(c) : c[j] = "cors" => i < j
    /\ \A i, j \in 1..Len(c) : c[i] = c[j] /\ c[i] \in {"rate", "cors"} => i = j

VARIABLES
  routes, chain,  \* the configuration, set before the first request
  disk,    \* disk[f]: the version of f, 0 if there is none
  latest,  \* the number of the last version that was written
  cached,  \* cached[f]: an answer 200 that a client has kept: file, etag, version
  pc,      \* pc[w]: the next step of worker w
  job      \* job[w]: the request of worker w and what it has found out

vars == <<routes, chain, disk, latest, cached, pc, job>>

Absent == -1          \* no Content-Length
NoETag == -1
UnknownETag == -2     \* "\"unknown\""

\* HttpResponse as it is constructed, and after set_json_body
Plain(status) ==
  [status |-> status, length |-> Absent, body |-> 0, compressed |-> FALSE,
   marks |-> {}, etag |-> NoETag, version |-> 0]
Json(status) == [Plain(status) EXCEPT !.length = JsonLength, !.body = JsonLength]

NoKept == [file |-> <<>>, etag |-> NoETag, version |-> 0]
NoJob ==
  [req |-> CHOOSE r \in Requests : TRUE, kept |-> NoKept, depth |-> 0, handler |-> "none",
   file |-> <<>>, sized |-> 0, etag |-> NoETag, resp |-> Plain(0), past |-> {}]

Init ==
  /\ routes \in Tables /\ chain \in Chains
  /\ disk = [f \in Files |-> 1] /\ latest = 1
  /\ cached = [f \in Files |-> NoKept]
  /\ pc = [w \in Workers |-> "idle"]
  /\ job = [w \in Workers |-> NoJob]

VersionOf(file) == IF file \in Files THEN disk[file] ELSE 0
-----------------------------------------------------------------------------
(* Another process writes the files *)

Written(f, version) ==
  /\ disk' = [disk EXCEPT ![f] = version]
  /\ job' = [w \in Workers |->
               IF job[w].file = f THEN [job[w] EXCEPT !.past = @ \cup {version}] ELSE job[w]]
  /\ UNCHANGED <<routes, chain, cached, pc>>

ReplaceFile(f) ==
  /\ latest < MaxVersion
  /\ latest' = latest + 1
  /\ Written(f, latest + 1)

RemoveFile(f) ==
  /\ disk[f] # 0
  /\ UNCHANGED latest
  /\ Written(f, 0)

-----------------------------------------------------------------------------
(* Down the chain and through the router *)

\* sanitize_path: empty segments and "." are skipped, ".." takes a part back
AddSegment(parts, segment) ==
  IF segment \in {"/", "."} THEN parts
  ELSE IF segment # ".." THEN Append(parts, segment)
  ELSE IF parts = <<>> THEN parts ELSE Front(parts)
SanitizePath(path) ==
  LET parts[i \in 0..Len(path)] == IF i = 0 THEN <<>> ELSE AddSegment(parts[i - 1], path[i])
  IN parts[Len(path)]

\* the path whose file resolve_file looks at
Resolved(path) ==
  LET full == SanitizePath(path)
  IN IF full \in Directories THEN Append(full, "index.html") ELSE full

\* the index in the chain of the middleware that answers the request itself,
\* limited saying what the rate limiter decides; one more than the last if none
Depth(req, limited) ==
  LET answers == {i \in DOMAIN chain : \/ chain[i] = "rate" /\ limited
                                       \/ chain[i] = "cors" /\ req.method = "OPTIONS"}
  IN IF answers = {} THEN Len(chain) + 1 ELSE Min(answers)

\* what that middleware answers
Refusal(m) == IF m = "rate" THEN [Json(429) EXCEPT !.marks = {"X-RateLimit-Limit"}]
              ELSE [Plain(204) EXCEPT !.marks = {"Access-Control-Allow-Origin"}]

\* nlohmann::json::dump throws on text that is not UTF-8: the echo handler
\* dumps path, query and headers, the not-found handler the path
Throws(handler, req) ==
  \/ handler = "echo" /\ (req.text = "binary" \/ "binary" \in ToSet(req.path))
  \/ handler = "not_found" /\ "binary" \in ToSet(req.path)

\* the handlers other than that of the static files
Answer(handler, req) ==
  CASE handler = "not_found" -> Json(404)
    [] handler = "method_not_allowed" -> Json(405)
    [] handler = "data" -> Json(CASE req.body = "empty" -> 400
                                  [] req.body = "json" -> 200
                                  [] OTHER -> 422)
    \* a handler of README's example: its body has no Content-Length
    [] handler = "user" -> [Plain(200) EXCEPT !.body = JsonLength]
    [] OTHER -> Json(200)

\* execute, down to the handler: it answers at once, throws, or is the static one
Begin(w) ==
  /\ pc[w] = "idle"
  /\ \E req \in Requests, limited \in BOOLEAN :
       LET depth == Depth(req, limited)
           handler == HandlerOf(routes, req)
           started == [NoJob EXCEPT !.req = req, !.depth = depth]
           file == Resolved(req.path)
       IN /\ limited => "rate" \in ToSet(chain)
          /\ \/ /\ depth <= Len(chain)
                /\ job' = [job EXCEPT ![w] = [started EXCEPT !.resp = Refusal(chain[depth])]]
                /\ pc' = [pc EXCEPT ![w] = "respond"]
             \/ /\ depth > Len(chain) /\ handler # "static"
                /\ job' = [job EXCEPT ![w] =
                     [started EXCEPT !.handler = handler, !.resp = Answer(handler, req)]]
                /\ pc' = [pc EXCEPT ![w] = IF Throws(handler, req) THEN "thrown" ELSE "respond"]
             \/ /\ depth > Len(chain) /\ handler = "static"
                \* the client revalidates an answer it has kept, or has none
                /\ \E kept \in {NoKept} \cup {cached[f] : f \in Files \cap {file}} :
                     job' = [job EXCEPT ![w] =
                       [started EXCEPT !.handler = handler, !.file = file, !.kept = kept,
                                       !.past = {VersionOf(file)}]]
                /\ pc' = [pc EXCEPT ![w] = "size"]
  /\ UNCHANGED <<routes, chain, disk, latest, cached>>

-----------------------------------------------------------------------------
(* The handler of "/static/*" *)

Respond(w, resp) ==
  /\ job' = [job EXCEPT ![w].resp = resp]
  /\ pc' = [pc EXCEPT ![w] = "respond"]

\* resolve_file: is_regular_file and file_size, then the first last_write_time,
\* whose value is that of Last-Modified only
StatSize(w) ==
  /\ pc[w] = "size"
  /\ LET version == VersionOf(job[w].file)
     IN IF version = 0 THEN Respond(w, Json(404))
        ELSE /\ job' = [job EXCEPT ![w].sized = version]
             /\ pc' = [pc EXCEPT ![w] = "time"]
  /\ UNCHANGED <<routes, chain, disk, latest, cached>>

StatTime(w) ==
  /\ pc[w] = "time"
  /\ IF VersionOf(job[w].file) = 0 THEN Respond(w, Json(404))
     ELSE pc' = [pc EXCEPT ![w] = "etag"] /\ UNCHANGED job
  /\ UNCHANGED <<routes, chain, disk, latest, cached>>

\* mutant: the tag of a file is its size
SizeOnly(time, size) == size
\* ns ^ size of generate_etag
ETag(time, size) == BitXor(time, size)

\* generate_etag: the second last_write_time
GenerateETag(w) ==
  /\ pc[w] = "etag"
  /\ LET version == VersionOf(job[w].file)
     IN job' = [job EXCEPT ![w].etag =
                  IF version = 0 THEN UnknownETag
                  ELSE ETag(ModifiedAt[version], SizeOf[job[w].sized])]
  /\ pc' = [pc EXCEPT ![w] = "open"]
  /\ UNCHANGED <<routes, chain, disk, latest, cached>>

IsModifiedSince(j) == j.kept = NoKept \/ j.kept.etag # j.etag

\* serve_file: 304, or open the file and read it to its end; Content-Length is
\* the size found before.  A file once open is not changed by a rename.
ServeFile(w) ==
  /\ pc[w] = "open"
  /\ LET j == job[w]
         version == VersionOf(j.file)
     IN IF ~IsModifiedSince(j) THEN Respond(w, [Plain(304) EXCEPT !.etag = j.etag])
        ELSE IF version = 0 THEN Respond(w, Json(500))
        ELSE Respond(w, [Plain(200) EXCEPT !.length = SizeOf[j.sized], !.body = SizeOf[version],
                                           !.etag = j.etag, !.version = version])
  /\ UNCHANGED <<routes, chain, disk, latest, cached>>

-----------------------------------------------------------------------------
(* Back up the chain *)

\* mutant: the Content-Length of the body before compression is kept
KeepsLength(resp, length) ==
  [resp EXCEPT !.body = length, !.compressed = TRUE, !.marks = @ \cup {"Content-Encoding"}]
Compressed(resp, length) ==
  [resp EXCEPT !.body = length, !.length = length, !.compressed = TRUE,
               !.marks = @ \cup {"Content-Encoding"}]

\* the middlewares, given the response of next(); deflate makes zlength bytes of
\* a body, or fails (0)
GzipCompression(resp, req, zlength) ==
  IF resp.compressed \/ resp.body = 0 \/ ~req.gzip \/ zlength = 0 THEN resp
  ELSE Compressed(resp, zlength)
RateLimiter(resp) == [resp EXCEPT !.marks = @ \cup {"X-RateLimit-Limit"}]
Cors(resp) == [resp EXCEPT !.marks = @ \cup {"Access-Control-Allow-Origin"}]
SecurityHeaders(resp) == [resp EXCEPT !.marks = @ \cup {"X-Content-Type-Options"}]
RequestId(resp) == [resp EXCEPT !.marks = @ \cup {"X-Request-ID"}]
RequestLogger(resp) == resp

Pass(m, resp, req, zlength) ==
  CASE m = "gzip" -> GzipCompression(resp, req, zlength)
    [] m = "rate" -> RateLimiter(resp)
    [] m = "cors" -> Cors(resp)
    [] m = "security" -> SecurityHeaders(resp)
    [] m = "id" -> RequestId(resp)
    [] m = "log" -> RequestLogger(resp)

\* mutant: the innermost middleware that called next() is left out
SkipsInnermost(j) == SubSeq(chain, 1, j.depth - 2)
\* the middlewares that called next() and get its response
Callers(j) == SubSeq(chain, 1, j.depth - 1)

\* the response of the handler, given back by each of them in turn
PassedUp(callers, resp, req, zlength) ==
  LET passed[i \in 0..Len(callers)] ==
        IF i = 0 THEN resp
        ELSE Pass(callers[Len(callers) + 1 - i], passed[i - 1], req, zlength)
  IN passed[Len(callers)]

\* mutant: a response without a Content-Length stays without one
NotFinalized(resp) == resp
\* the headers Connection::read_data adds
Finalized(resp) ==
  IF resp.length = Absent /\ ~resp.compressed THEN [resp EXCEPT !.length = resp.body] ELSE resp

\* execute, back from the handler, and on to Connection
Send(w) ==
  /\ pc[w] = "respond"
  /\ \E zlength \in GzipLengths \cup {0} :
       LET j == job[w]
           sent == Finalized(PassedUp(Callers(j), j.resp, j.req, zlength))
       IN /\ job' = [job EXCEPT ![w].resp = sent]
          \* the client keeps the answer in place of the one it had, or does not
          /\ \/ UNCHANGED cached
             \/ /\ sent.version # 0
                /\ cached' = [cached EXCEPT ![j.file] =
                     [file |-> j.file, etag |-> sent.etag, version |-> sent.version]]
  /\ pc' = [pc EXCEPT ![w] = "sent"]
  /\ UNCHANGED <<routes, chain, disk, latest>>

\* on_request_ has returned or thrown
Return(w) ==
  /\ pc[w] \in {"sent", "thrown"}
  /\ pc' = [pc EXCEPT ![w] = "idle"]
  /\ job' = [job EXCEPT ![w] = NoJob]
  /\ UNCHANGED <<routes, chain, disk, latest, cached>>

WorkerStep(w) ==
  Begin(w) \/ StatSize(w) \/ StatTime(w) \/ GenerateETag(w) \/ ServeFile(w) \/ Send(w)
  \/ Return(w)

Next == (\E w \in Workers : WorkerStep(w)) \/ (\E f \in Files : ReplaceFile(f) \/ RemoveFile(f))

Spec == Init /\ [][Next]_vars

-----------------------------------------------------------------------------
(* Properties *)

Steps == {"idle", "size", "time", "etag", "open", "respond", "sent", "thrown"}

\* Every variable has its type; every response that is sent has a Content-Length.
TypeOK ==
  /\ routes \in Tables /\ chain \in Chains
  /\ disk \in [Files -> 0..latest] /\ latest \in 1..MaxVersion
  /\ \A f \in Files : \/ cached[f] = NoKept
                       \/ /\ cached[f].file = f /\ cached[f].etag # NoETag
                          /\ cached[f].version \in 1..latest
  /\ pc \in [Workers -> Steps]
  /\ \A w \in Workers :
       /\ job[w].req \in Requests /\ job[w].past \subseteq 0..latest
       /\ job[w].sized \in 0..latest /\ job[w].resp.version \in 0..latest
       /\ pc[w] = "sent" => job[w].resp.length \in Nat

\* The Content-Length that is sent is the length of the body that is sent, or
\* else a file was replaced between file_size and the opening of it and its body
\* was not compressed.
Framed ==
  \A w \in Workers : pc[w] = "sent" =>
    LET resp == job[w].resp
    IN \/ resp.length = resp.body
       \/ resp.version # 0 /\ resp.version # job[w].sized /\ ~resp.compressed

\* A client that is told 304 Not Modified has kept content that the file had at
\* some moment of the request, although size, time and content are looked at in
\* separate steps; or else its tag is "unknown", which stands for no content, or
\* that of two versions: one not younger than the content the client has kept, and a
\* younger one that the file had during the request, as ns ^ size may be the same for both.
TagOf(etag, v) == \E s \in 1..v : etag = BitXor(ModifiedAt[v], SizeOf[s])
Coincides(j) ==
  \E u \in 1..j.kept.version, v \in j.past \ {0} :
    u < v /\ TagOf(j.kept.etag, u) /\ TagOf(j.kept.etag, v)
Confirmed(j) ==
  j.kept.version \in j.past \/ j.kept.etag = UnknownETag \/ Coincides(j)
NotModifiedIsFresh ==
  \A w \in Workers : pc[w] = "sent" /\ job[w].resp.status = 304 => Confirmed(job[w])

\* the file that a path means: a name goes down a level and ".." goes up one, though
\* not above the root; the name at a level is the last one that went down to it
MeansFile(path) ==
  LET IsName(i) == path[i] \notin {"/", ".", ".."}
      level[i \in 0..Len(path)] ==
        IF i = 0 THEN 0
        ELSE LET before == level[i - 1]
             IN IF IsName(i) THEN before + 1
                ELSE IF path[i] = ".." /\ before > 0 THEN before - 1 ELSE before
      downTo(n) == {i \in 1..Len(path) : IsName(i) /\ level[i] = n}
      file == [n \in 1..level[Len(path)] |->
                 path[CHOOSE i \in downTo(n) : \A j \in downTo(n) : j <= i]]
  IN IF file \in Directories THEN Append(file, "index.html") ELSE file

\* A request that is not refused by a middleware gets to the handler that the
\* table of routes means, and one for a file to the file that its path means: it
\* is answered 404 or 500 only if that file was missing for a moment of the request.
RoutedAsMeant ==
  \A w \in Workers : job[w].handler # "none" =>
    LET j == job[w]
    IN /\ j.handler = MeansHandler(routes, j.req)
       /\ j.handler = "static" => j.file = MeansFile(j.req.path)
       /\ j.handler = "static" /\ pc[w] = "sent" /\ 0 \notin j.past =>
            \/ j.resp.status = 304
            \/ j.resp.status = 200 /\ j.resp.version \in j.past
       /\ pc[w] = "thrown" => j.handler \in {"echo", "not_found"}

\* Every response but the 429 of the rate limiter has the hardened headers and
\* the id of its request, and only a client that accepts gzip is sent gzip.
Hardened ==
  \A w \in Workers : pc[w] = "sent" =>
    LET resp == job[w].resp
    IN /\ resp.status # 429 => {"X-Content-Type-Options", "X-Request-ID"} \subseteq resp.marks
       /\ resp.compressed => job[w].req.gzip
=============================================================================
