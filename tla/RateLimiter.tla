---------------------------- MODULE RateLimiter ----------------------------
(***************************************************************************)
(* The middleware rate_limiter: a token bucket per key, shared by the       *)
(* workers under state->mutex.  A worker samples `now' before it takes the  *)
(* mutex, so samples of two workers may be applied in the other order.      *)
(*                                                                          *)
(* Time is counted in ticks, TicksPerSecond to a second, from the epoch of  *)
(* steady_clock; a new bucket's window_start is that epoch, and Boot is the *)
(* time at which the server starts.  The key of a bucket is remote_addr,    *)
(* the address and port of one connection, not the client's address.        *)
(***************************************************************************)
EXTENDS Integers, FiniteSetsExt

CONSTANTS
  Workers,
  Keys,            \* the addresses and ports of the connections
  Rate,            \* requests_per_second
  Burst,           \* burst_size
  TicksPerSecond,
  SizeRange,       \* 2^w for the w bits of std::size_t
  Boot, MaxTime    \* bounds of time

ASSUME RateAssumption ==
  /\ "none" \notin Keys
  /\ {Rate, Burst, TicksPerSecond, SizeRange} \subseteq Nat \ {0}
  /\ Burst + Rate * MaxTime < SizeRange \div 2
  /\ Boot \in Nat /\ MaxTime \in Nat /\ Boot <= MaxTime
  \* the machine has been up for as long as it takes to fill a bucket
  /\ Boot * Rate >= Burst * TicksPerSecond

VARIABLES
  clock,     \* steady_clock
  buckets,   \* buckets[k]: count and window_start
  work,      \* work[w]: the request worker w has, and its `now'
  admitted,  \* admitted[k]: requests passed on to next() so far (history)
  answered,  \* answered[k]: when the last request was decided (history)
  rewound    \* rewound[k]: a window_start of k has been moved back (history)

vars == <<clock, buckets, work, admitted, answered, rewound>>

NoRequest == [key |-> "none", now |-> 0]

Init ==
  /\ clock = Boot
  /\ buckets = [k \in Keys |-> [count |-> 0, windowStart |-> 0]]
  /\ work = [w \in Workers |-> NoRequest]
  /\ admitted = [k \in Keys |-> 0]
  /\ answered = [k \in Keys |-> 0]
  /\ rewound = [k \in Keys |-> FALSE]

Tick ==
  /\ clock < MaxTime
  /\ clock' = clock + 1
  /\ UNCHANGED <<buckets, work, admitted, answered, rewound>>

\* A definition whose comment begins with `mutant' is not part of the model: it
\* is the definition after it as a plausible bug would have it.

\* a worker begins the lambda: client_ip and now
Sample(w) ==
  /\ work[w] = NoRequest
  /\ \E k \in Keys : work' = [work EXCEPT ![w] = [key |-> k, now |-> clock]]
  /\ UNCHANGED <<clock, buckets, admitted, answered, rewound>>

\* static_cast<std::size_t> of a double, given here in units of
\* 1/TicksPerSecond: it truncates toward zero; a value of -1 or less is
\* undefined, and becomes 0 or wraps around as the target's instruction does
ToSize(n) ==
  IF n >= 0 THEN {n \div TicksPerSecond}
  ELSE IF n > -TicksPerSecond THEN {0}
  ELSE {0, (-((-n) \div TicksPerSecond)) % SizeRange}

\* mutants: the bucket has no upper bound; a fraction counts as a token
Unbounded(n) == ToSize(n)
RoundedUp(n) == ToSize(Min({Burst * TicksPerSecond, n + TicksPerSecond - 1}))
Bounded(n) == ToSize(Min({Burst * TicksPerSecond, n}))

\* mutant: an empty bucket is found empty before it is replenished
ChecksFirst(b, now) ==
  IF b.count = 0 /\ b.windowStart > 0 THEN {0}
  ELSE Bounded(b.count * TicksPerSecond + (now - b.windowStart) * Rate)
\* the count in the bucket once a request sampled at now has the mutex
Replenished(b, now) == Bounded(b.count * TicksPerSecond + (now - b.windowStart) * Rate)

\* the critical section: replenish, then reject with 429 or take a token
Decide(w) ==
  /\ work[w] # NoRequest
  /\ LET k == work[w].key
         now == work[w].now
     IN \E count \in Replenished(buckets[k], now) :
          /\ buckets' = [buckets EXCEPT ![k] =
               [count |-> IF count = 0 THEN 0 ELSE count - 1,
                windowStart |-> now]]
          /\ rewound' = [rewound EXCEPT ![k] = @ \/ now < buckets[k].windowStart]
          /\ admitted' = IF count = 0 THEN admitted ELSE [admitted EXCEPT ![k] = @ + 1]
  /\ work' = [work EXCEPT ![w] = NoRequest]
  /\ answered' = [answered EXCEPT ![work[w].key] = clock]
  /\ UNCHANGED clock

Next == Tick \/ \E w \in Workers : Sample(w) \/ Decide(w)

Spec == Init /\ [][Next]_vars

-----------------------------------------------------------------------------
(* Properties *)

\* Every variable has its type, and a count exceeds burst_size only after an
\* earlier sample has been applied after a later one.
TypeOK ==
  /\ clock \in Boot..MaxTime
  /\ buckets \in [Keys -> [count : 0..SizeRange - 1, windowStart : 0..clock]]
  /\ \A k \in Keys : buckets[k].count <= Burst \/ rewound[k]
  /\ work \in [Workers -> [key : Keys \cup {"none"}, now : 0..clock]]
  /\ admitted \in [Keys -> Nat] /\ answered \in [Keys -> 0..clock]
  /\ rewound \in [Keys -> BOOLEAN]

\* What n requests admitted since Boot may be: a full bucket and what has been
\* replenished since.
WithinRate(n) == n * TicksPerSecond <= Burst * TicksPerSecond + (clock - Boot) * Rate

\* The bucket of one connection passes on no more than burst_size requests and
\* requests_per_second after that, unless a worker has applied an earlier sample
\* of the clock after a later one.
RateBound == \A k \in Keys : WithinRate(admitted[k]) \/ rewound[k]

\* Retry-After: 1 is honoured: a request that begins a second or more after the
\* last answer on its connection is not rejected.
RetryAfterHonoured ==
  [][\A w \in Workers :
       (/\ work[w] # NoRequest /\ work'[w] = NoRequest
        /\ admitted' = admitted) =>
         work[w].now - answered[work[w].key] < TicksPerSecond]_vars
=============================================================================
