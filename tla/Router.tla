------------------------------- MODULE Router -------------------------------
(***************************************************************************)
(* The router: a table of routes in the order of their registration, and    *)
(* the handler that match and dispatch choose for a method and a path.      *)
(*                                                                          *)
(* A path is a sequence of the token "/" and of words; no two words are      *)
(* adjacent.  A pattern may also have the tokens ":" (a parameter, its name *)
(* left out) and "*"; its words hold no character that std::regex treats    *)
(* specially.  The values of the parameters, which dispatch does not pass   *)
(* on, are left out.                                                        *)
(***************************************************************************)
EXTENDS Naturals, SequencesExt

\* the text that the regular expression compiled from one token stands for
Covers(token, text) ==
  CASE token = ":" -> Len(text) > 0 /\ "/" \notin ToSet(text)
    [] token = "*" -> TRUE
    [] OTHER -> text = <<token>>

\* std::regex_match of a path with a compiled pattern
Matches(pattern, path) ==
  LET suffix[i \in 1..Len(pattern) + 1, j \in 1..Len(path) + 1] ==
        IF i > Len(pattern) THEN j > Len(path)
        ELSE \E k \in j..Len(path) + 1 :
               Covers(pattern[i], SubSeq(path, j, k - 1)) /\ suffix[i + 1, k]
  IN suffix[1, 1]

\* what the loop of match has found so far
NoMatch == [handler |-> "none", methodMatched |-> FALSE]

\* A definition whose comment begins with `mutant' is not part of the model: it
\* is the definition after it as a plausible bug would have it.

\* mutant: a route of another method ends the search
FirstPathOnly(found, route, req) ==
  IF found # NoMatch \/ ~Matches(route.pattern, req.path) THEN found
  ELSE IF route.method # req.method THEN [found EXCEPT !.methodMatched = TRUE]
  ELSE [found EXCEPT !.handler = route.handler]
\* the loop body of match
TryRoute(found, route, req) ==
  IF found.handler # "none" \/ ~Matches(route.pattern, req.path) THEN found
  ELSE IF route.method # req.method THEN [found EXCEPT !.methodMatched = TRUE]
  ELSE [found EXCEPT !.handler = route.handler]

\* match, with the method-not-allowed handler set; "none" is nullopt
Match(routes, req) ==
  LET found[i \in 0..Len(routes)] ==
        IF i = 0 THEN NoMatch ELSE TryRoute(found[i - 1], routes[i], req)
      last == found[Len(routes)]
  IN IF last.handler = "none" /\ last.methodMatched THEN "method_not_allowed"
     ELSE last.handler

\* the handler that dispatch calls
HandlerOf(routes, req) ==
  LET found == Match(routes, req) IN IF found = "none" THEN "not_found" ELSE found

-----------------------------------------------------------------------------
(* What the table means *)

\* the handler a request means by the table: that of the first route of its path
\* and method; failing that, the one for a known path or for an unknown one
MeansHandler(routes, req) ==
  LET ofPath == {i \in 1..Len(routes) : Matches(routes[i].pattern, req.path)}
      ofBoth == {i \in ofPath : routes[i].method = req.method}
  IN IF ofBoth # {} THEN routes[CHOOSE i \in ofBoth : \A j \in ofBoth : i <= j].handler
     ELSE IF ofPath # {} THEN "method_not_allowed" ELSE "not_found"
=============================================================================
