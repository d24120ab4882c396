------------------------------ MODULE Exchange ------------------------------
(***************************************************************************)
(* What a connection promises its client: requests are handled in order,    *)
(* one at a time, the next one only when the response to the one before is  *)
(* out; a response is sent whole before the next begins; a request that the *)
(* parser refuses is answered without being handled, and nothing follows    *)
(* that; nothing is sent after the close.  Connection.tla implements it      *)
(* with one worker, as long as no input arrives for a request whose response *)
(* is still being written (`void').                                         *)
(***************************************************************************)
EXTENDS Integers, Sequences

CONSTANTS Requests,  \* the numbers that requests may have, in order
          Refusals   \* the statuses that the parser's refusals get

VARIABLES
  handled,    \* the requests given to the handlers
  responses,  \* the responses begun: <<request, status>>
  cut,        \* the last of them is not yet out in full
  open,
  void

vars == <<handled, responses, cut, open, void>>

Init ==
  /\ handled = <<>> /\ responses = <<>>
  /\ cut = FALSE /\ open = TRUE /\ void = FALSE

Final(s) == s[Len(s)]
Refused == responses # <<>> /\ Final(responses)[2] \in Refusals
IsOut(r) == ~cut /\ responses # <<>> /\ Final(responses)[1] = r

\* a request whose bytes were read before a close may still reach a handler after it
Handle(r) ==
  /\ handled # <<>> => r > Final(handled)
  /\ open /\ handled # <<>> => IsOut(Final(handled))
  /\ open => ~Refused
  /\ handled' = Append(handled, r)
  /\ UNCHANGED <<responses, cut, open, void>>

Begin(r, status) ==
  /\ open /\ ~cut /\ ~Refused
  /\ IF status \in Refusals
     THEN handled # <<>> => IsOut(Final(handled)) /\ r > Final(handled)
     ELSE handled # <<>> /\ r = Final(handled) /\ ~IsOut(r)
  /\ responses' = Append(responses, <<r, status>>)
  /\ cut' \in BOOLEAN
  /\ UNCHANGED <<handled, open, void>>

Complete ==
  /\ open /\ cut
  /\ cut' = FALSE
  /\ UNCHANGED <<handled, responses, open, void>>

\* the kernel may lose what it has not yet delivered
Close ==
  /\ open /\ open' = FALSE
  /\ \E n \in 0..Len(responses) : responses' = SubSeq(responses, 1, n)
  /\ cut' \in BOOLEAN
  /\ UNCHANGED <<handled, void>>

\* an exchange that is void promises nothing
Forfeit == void'

Next ==
  \/ \E r \in Requests :
       \/ Handle(r)
       \/ \E status \in Refusals \cup {"ok"} : Begin(r, status)
  \/ Complete \/ Close \/ Forfeit

Spec == Init /\ [][Next]_vars
=============================================================================
