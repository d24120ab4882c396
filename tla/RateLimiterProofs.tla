-------------------------- MODULE RateLimiterProofs --------------------------
(***************************************************************************)
(* Proofs about RateLimiter for any number of workers and keys, any rate,   *)
(* burst, resolution of the clock and width of std::size_t.                 *)
(***************************************************************************)
EXTENDS RateLimiter, TLAPS

-----------------------------------------------------------------------------
(* Arithmetic                                                                *)

\* std::min of two integers.
LEMMA MinOfTwo ==
  ASSUME NEW a \in Int, NEW b \in Int
  PROVE  Min({a, b}) = IF a <= b THEN a ELSE b
<1> DEFINE m == IF a <= b THEN a ELSE b
<1>1. m \in {a, b} /\ \A y \in {a, b} : m <= y OBVIOUS
<1>2. \A x \in {a, b} : (\A y \in {a, b} : x <= y) => x = m OBVIOUS
<1>3. QED BY <1>1, <1>2 DEF Min

\* Truncation: the whole tokens in n are worth no more than n, and are at least as
\* many as any number of tokens that n is worth.
LEMMA Truncation ==
  ASSUME NEW n \in Nat, NEW t \in Nat \ {0}
  PROVE  /\ n \div t \in Nat
         /\ (n \div t) * t <= n
         /\ n >= t => n \div t >= 1
OBVIOUS

\* What a bucket holds after a sample that is not earlier than the last one: at most
\* burst_size, at most what it held and what was replenished since, and a token at
\* least if a second has passed.
LEMMA ReplenishedInOrder ==
  ASSUME NEW b \in [count : Nat, windowStart : Nat], NEW now \in Nat, now >= b.windowStart,
         NEW count \in Replenished(b, now)
  PROVE  /\ count \in Nat /\ count <= Burst
         /\ count * TicksPerSecond <= b.count * TicksPerSecond + (now - b.windowStart) * Rate
         /\ now - b.windowStart >= TicksPerSecond => count >= 1
<1> USE RateAssumption
<1> DEFINE T == TicksPerSecond
           n == b.count * T + (now - b.windowStart) * Rate
           full == Burst * T
           m == IF full <= n THEN full ELSE n
<1>0. /\ b.count \in Nat /\ b.windowStart \in Nat /\ Rate \in Nat \ {0}
      /\ Burst \in Nat \ {0} /\ T \in Nat \ {0}
  OBVIOUS
<1>1. b.count * T \in Nat /\ (now - b.windowStart) * Rate \in Nat /\ full \in Nat
  BY <1>0
<1>2. n \in Nat /\ m \in Nat /\ m <= n /\ m <= full BY <1>1
<1>3. Min({full, n}) = m BY <1>1, <1>2, MinOfTwo
<1>4. count \in ToSize(m) BY <1>3 DEF Replenished, Bounded
<1>5. count = m \div T BY <1>2, <1>4 DEF ToSize
<1>6. count \in Nat /\ count * T <= m /\ (m >= T => count >= 1)
  BY <1>0, <1>2, <1>5, Truncation
<1>7. count <= Burst
  <2>1. count * T <= Burst * T BY <1>2, <1>6
  <2>2. QED BY <1>0, <1>6, <2>1
<1>8. count * T <= n BY <1>2, <1>6
<1>9. ASSUME now - b.windowStart >= T PROVE count >= 1
  <2>1. (now - b.windowStart) * Rate >= T BY <1>0, <1>9
  <2>2. full >= T BY <1>0
  <2>3. m >= T BY <1>1, <1>2, <2>1, <2>2
  <2>4. QED BY <1>6, <2>3
<1>10. QED BY <1>6, <1>7, <1>8, <1>9

\* After an earlier sample it may hold anything a std::size_t can.
LEMMA ReplenishedType ==
  ASSUME NEW b \in [count : Nat, windowStart : Nat], NEW now \in Nat,
         NEW count \in Replenished(b, now)
  PROVE  count \in 0..SizeRange - 1
<1> USE RateAssumption
<1> DEFINE T == TicksPerSecond
           n == b.count * T + (now - b.windowStart) * Rate
           full == Burst * T
           m == IF full <= n THEN full ELSE n
<1>0. /\ b.count \in Nat /\ b.windowStart \in Nat /\ Rate \in Nat \ {0}
      /\ Burst \in Nat \ {0} /\ T \in Nat \ {0} /\ SizeRange \in Nat \ {0}
      /\ MaxTime \in Nat
  OBVIOUS
<1>1. b.count * T \in Nat /\ (now - b.windowStart) * Rate \in Int /\ full \in Nat
  BY <1>0
<1>2. n \in Int /\ m \in Int /\ m <= full BY <1>1
<1>3. Min({full, n}) = m BY <1>1, <1>2, MinOfTwo
<1>4. count \in ToSize(m) BY <1>3 DEF Replenished, Bounded
<1>5. Burst < SizeRange
  <2>1. Rate * MaxTime \in Nat BY <1>0
  <2>2. SizeRange \div 2 <= SizeRange BY <1>0
  <2>3. QED BY <1>0, <2>1, <2>2
<1>6. CASE m >= 0
  <2>1. count = m \div T BY <1>4, <1>6 DEF ToSize
  <2>2. count \in Nat /\ count * T <= m
    <3>1. m \in Nat /\ T \in Nat \ {0} BY <1>0, <1>2, <1>6
    <3> HIDE DEF m, T
    <3>2. QED BY <2>1, <3>1, Truncation
  <2>3. count * T <= Burst * T BY <1>2, <2>2
  <2>4. count <= Burst BY <1>0, <2>2, <2>3
  <2>5. QED BY <1>0, <1>5, <2>2, <2>4
<1>7. CASE m < 0
  <2>1. count \in {0, (-((-m) \div T)) % SizeRange} BY <1>0, <1>2, <1>4, <1>7 DEF ToSize
  <2>2. (-m) \div T \in Int BY <1>0, <1>2, <1>7
  <2>3. (-((-m) \div T)) % SizeRange \in 0..SizeRange - 1 BY <1>0, <2>2
  <2>4. QED BY <1>0, <2>1, <2>3
<1>8. QED BY <1>2, <1>6, <1>7

-----------------------------------------------------------------------------
(* The inductive invariant                                                   *)

\* Samples are of the past, a bucket was last changed by a sample of the past, and
\* that sample was taken before the answer was given.
SampleInv ==
  /\ clock \in Boot..MaxTime
  /\ \A w \in Workers :
       work[w] # NoRequest => work[w].key \in Keys /\ work[w].now \in Boot..clock
  /\ \A k \in Keys : /\ buckets[k].windowStart <= answered[k]
                     /\ buckets[k].windowStart = 0 \/ buckets[k].windowStart >= Boot

\* What has been admitted and what is still in the bucket are paid for: by the full
\* bucket of the beginning and by the time that has passed since.
PaidFor(k) ==
  \/ admitted[k] = 0 /\ buckets[k].count = 0
  \/ /\ buckets[k].windowStart >= Boot
     /\ (admitted[k] + buckets[k].count) * TicksPerSecond
          <= Burst * TicksPerSecond + (buckets[k].windowStart - Boot) * Rate

\* The inductive invariant.
RateInv == TypeOK /\ SampleInv /\ \A k \in Keys : rewound[k] \/ PaidFor(k)

\* The initial state satisfies it.
LEMMA InitRate == Init => RateInv
<1> SUFFICES ASSUME Init PROVE RateInv OBVIOUS
<1> USE RateAssumption DEF Init
<1>1. clock \in Boot..MaxTime OBVIOUS
<1>2. buckets \in [Keys -> [count : 0..SizeRange - 1, windowStart : 0..clock]]
  <2>1. [count |-> 0, windowStart |-> 0] \in [count : 0..SizeRange - 1, windowStart : 0..clock]
    OBVIOUS
  <2>2. QED BY <2>1
<1>3. work \in [Workers -> [key : Keys \cup {"none"}, now : 0..clock]]
  <2>1. NoRequest \in [key : Keys \cup {"none"}, now : 0..clock] BY DEF NoRequest
  <2>2. QED BY <2>1
<1>4. TypeOK BY <1>1, <1>2, <1>3 DEF TypeOK
<1>5. SampleInv BY <1>1 DEF SampleInv
<1>6. QED BY <1>4, <1>5 DEF RateInv, PaidFor

\* Time passing and a new request preserve it.
LEMMA TimeRate ==
  ASSUME RateInv, Tick \/ \E w \in Workers : Sample(w)
  PROVE  RateInv'
<1> USE RateAssumption DEF RateInv
<1>1. CASE Tick
  <2>1. /\ clock' = clock + 1 /\ clock < MaxTime
        /\ UNCHANGED <<buckets, work, admitted, answered, rewound>>
    BY <1>1 DEF Tick
  <2>2. clock \in Boot..MaxTime BY DEF TypeOK
  <2>3. 0..clock \subseteq 0..clock' /\ Boot..clock \subseteq Boot..clock' BY <2>1, <2>2
  <2>4. clock' \in Boot..MaxTime BY <2>1, <2>2
  <2>5. buckets' \in [Keys -> [count : 0..SizeRange - 1, windowStart : 0..clock']]
    BY <2>1, <2>3 DEF TypeOK
  <2>6. /\ work' \in [Workers -> [key : Keys \cup {"none"}, now : 0..clock']]
        /\ answered' \in [Keys -> 0..clock']
    BY <2>1, <2>3 DEF TypeOK
  <2>7. TypeOK' BY <2>1, <2>4, <2>5, <2>6 DEF TypeOK
  <2>8. SampleInv' BY <2>1, <2>3, <2>4 DEF SampleInv
  <2>9. QED BY <2>1, <2>7, <2>8 DEF PaidFor
<1>2. ASSUME NEW w \in Workers, Sample(w) PROVE RateInv'
  <2>1. UNCHANGED <<clock, buckets, admitted, answered, rewound>> BY <1>2 DEF Sample
  <2>2. PICK k \in Keys : work' = [work EXCEPT ![w] = [key |-> k, now |-> clock]]
    BY <1>2 DEF Sample
  <2>3. clock \in Boot..clock /\ clock \in 0..clock BY DEF TypeOK
  <2>4. work' \in [Workers -> [key : Keys \cup {"none"}, now : 0..clock]]
    <3>1. [key |-> k, now |-> clock] \in [key : Keys \cup {"none"}, now : 0..clock] BY <2>3
    <3>2. QED BY <2>2, <3>1 DEF TypeOK
  <2>5. TypeOK' BY <2>1, <2>4 DEF TypeOK
  <2>6. SampleInv' BY <2>1, <2>2, <2>3 DEF SampleInv, TypeOK
  <2>7. QED BY <2>1, <2>5, <2>6 DEF PaidFor
<1>3. QED BY <1>1, <1>2

\* What a decision of worker w does to the bucket of its key.
LEMMA DecideFacts ==
  ASSUME RateInv, NEW w \in Workers, Decide(w)
  PROVE  \E k \in Keys, now \in Boot..clock : \E count \in Replenished(buckets[k], now) :
           /\ work[w] # NoRequest /\ work[w].key = k /\ work[w].now = now
           /\ count \in 0..SizeRange - 1
           /\ buckets[k] \in [count : Nat, windowStart : Nat]
           /\ buckets' = [buckets EXCEPT ![k] =
                [count |-> IF count = 0 THEN 0 ELSE count - 1, windowStart |-> now]]
           /\ rewound' = [rewound EXCEPT ![k] = @ \/ now < buckets[k].windowStart]
           /\ admitted' = IF count = 0 THEN admitted ELSE [admitted EXCEPT ![k] = @ + 1]
           /\ work' = [work EXCEPT ![w] = NoRequest]
           /\ answered' = [answered EXCEPT ![k] = clock]
           /\ clock' = clock
<1> USE RateAssumption DEF RateInv
<1>1. work[w] # NoRequest /\ work[w].key \in Keys /\ work[w].now \in Boot..clock
  BY DEF Decide, SampleInv
<1>2. PICK k \in Keys : k = work[w].key BY <1>1
<1>3. PICK now \in Boot..clock : now = work[w].now BY <1>1
<1>4. now \in Nat BY <1>3 DEF TypeOK
<1>5. buckets[k] \in [count : Nat, windowStart : Nat]
  <2>1. buckets[k] \in [count : 0..SizeRange - 1, windowStart : 0..clock] BY DEF TypeOK
  <2>2. QED BY <2>1 DEF TypeOK
<1>6. PICK count \in Replenished(buckets[k], now) :
        /\ buckets' = [buckets EXCEPT ![k] =
             [count |-> IF count = 0 THEN 0 ELSE count - 1, windowStart |-> now]]
        /\ rewound' = [rewound EXCEPT ![k] = @ \/ now < buckets[k].windowStart]
        /\ admitted' = IF count = 0 THEN admitted ELSE [admitted EXCEPT ![k] = @ + 1]
  BY <1>2, <1>3 DEF Decide
<1>7. count \in 0..SizeRange - 1 BY <1>4, <1>5, ReplenishedType
<1>8. /\ work' = [work EXCEPT ![w] = NoRequest]
      /\ answered' = [answered EXCEPT ![k] = clock]
      /\ clock' = clock
  BY <1>2 DEF Decide
<1>9. QED BY <1>1, <1>2, <1>3, <1>5, <1>6, <1>7, <1>8

\* A decision preserves the invariant.
LEMMA DecideRate ==
  ASSUME RateInv, NEW w \in Workers, Decide(w)
  PROVE  RateInv'
<1> USE RateAssumption DEF RateInv
<1>a. PICK k \in Keys, now \in Boot..clock : \E count \in Replenished(buckets[k], now) :
        /\ count \in 0..SizeRange - 1
        /\ buckets[k] \in [count : Nat, windowStart : Nat]
        /\ buckets' = [buckets EXCEPT ![k] =
             [count |-> IF count = 0 THEN 0 ELSE count - 1, windowStart |-> now]]
        /\ rewound' = [rewound EXCEPT ![k] = @ \/ now < buckets[k].windowStart]
        /\ admitted' = IF count = 0 THEN admitted ELSE [admitted EXCEPT ![k] = @ + 1]
        /\ work' = [work EXCEPT ![w] = NoRequest]
        /\ answered' = [answered EXCEPT ![k] = clock]
        /\ clock' = clock
  BY DecideFacts
<1>1. PICK count \in Replenished(buckets[k], now) :
        /\ count \in 0..SizeRange - 1
        /\ buckets[k] \in [count : Nat, windowStart : Nat]
        /\ buckets' = [buckets EXCEPT ![k] =
             [count |-> IF count = 0 THEN 0 ELSE count - 1, windowStart |-> now]]
        /\ rewound' = [rewound EXCEPT ![k] = @ \/ now < buckets[k].windowStart]
        /\ admitted' = IF count = 0 THEN admitted ELSE [admitted EXCEPT ![k] = @ + 1]
        /\ work' = [work EXCEPT ![w] = NoRequest]
        /\ answered' = [answered EXCEPT ![k] = clock]
        /\ clock' = clock
  BY <1>a
<1> DEFINE left == IF count = 0 THEN 0 ELSE count - 1
<1>2. /\ clock \in Nat /\ Boot \in Nat /\ now \in Nat /\ now >= Boot /\ now <= clock
      /\ left \in 0..SizeRange - 1
  BY <1>1 DEF TypeOK
<1>3. /\ buckets'[k].count = left /\ buckets'[k].windowStart = now
      /\ \A j \in Keys : j # k => buckets'[j] = buckets[j]
      /\ answered'[k] = clock /\ \A j \in Keys : j # k => answered'[j] = answered[j]
      /\ \A j \in Keys : j # k => admitted'[j] = admitted[j] /\ rewound'[j] = rewound[j]
  BY <1>1 DEF TypeOK
<1>4. admitted' \in [Keys -> Nat] /\ admitted'[k] + left = admitted[k] + count
  <2>1. admitted \in [Keys -> Nat] /\ admitted[k] \in Nat BY DEF TypeOK
  <2>2. CASE count = 0 BY <1>1, <2>1, <2>2
  <2>3. CASE count # 0
    <3>1. admitted' = [admitted EXCEPT ![k] = @ + 1] BY <1>1, <2>3
    <3>2. admitted' \in [Keys -> Nat] /\ admitted'[k] = admitted[k] + 1 BY <2>1, <3>1
    <3>3. count \in Int /\ left = count - 1 BY <1>1, <2>3
    <3>4. QED BY <2>1, <3>2, <3>3
  <2>4. QED BY <2>2, <2>3
<1>5. CASE now < buckets[k].windowStart
  <2>1. rewound'[k] /\ rewound' \in [Keys -> BOOLEAN] BY <1>1, <1>5 DEF TypeOK
  <2>2. QED
    <3>1. TypeOK'
      <4>1. [count |-> left, windowStart |-> now]
              \in [count : 0..SizeRange - 1, windowStart : 0..clock]
        BY <1>2
      <4>2. buckets' \in [Keys -> [count : 0..SizeRange - 1, windowStart : 0..clock]]
        BY <1>1, <4>1 DEF TypeOK
      <4>3. work' \in [Workers -> [key : Keys \cup {"none"}, now : 0..clock]]
        BY <1>1, <1>2 DEF TypeOK, NoRequest
      <4>4. answered' \in [Keys -> 0..clock] BY <1>1, <1>2 DEF TypeOK
      <4>5. \A j \in Keys : buckets'[j].count <= Burst \/ rewound'[j]
        BY <1>3, <2>1 DEF TypeOK
      <4>6. QED BY <1>1, <1>4, <2>1, <4>2, <4>3, <4>4, <4>5 DEF TypeOK
    <3>2. SampleInv' BY <1>1, <1>2, <1>3 DEF SampleInv, TypeOK
    <3>3. QED BY <1>3, <2>1, <3>1, <3>2 DEF PaidFor
<1>6. CASE now >= buckets[k].windowStart
  <2>1. rewound' = rewound
    <3>1. rewound[k] \in BOOLEAN /\ ~(now < buckets[k].windowStart) BY <1>1, <1>2, <1>6 DEF TypeOK
    <3>2. (rewound[k] \/ now < buckets[k].windowStart) = rewound[k] BY <3>1
    <3>3. QED BY <1>1, <3>2 DEF TypeOK
  <2>2. /\ count \in Nat /\ count <= Burst
        /\ count * TicksPerSecond
             <= buckets[k].count * TicksPerSecond + (now - buckets[k].windowStart) * Rate
    BY <1>1, <1>2, <1>6, ReplenishedInOrder
  <2>3. TypeOK'
    <3>1. [count |-> left, windowStart |-> now]
            \in [count : 0..SizeRange - 1, windowStart : 0..clock]
      BY <1>2
    <3>2. buckets' \in [Keys -> [count : 0..SizeRange - 1, windowStart : 0..clock]]
      BY <1>1, <3>1 DEF TypeOK
    <3>3. work' \in [Workers -> [key : Keys \cup {"none"}, now : 0..clock]]
      BY <1>1, <1>2 DEF TypeOK, NoRequest
    <3>4. answered' \in [Keys -> 0..clock] BY <1>1, <1>2 DEF TypeOK
    <3>5. \A j \in Keys : buckets'[j].count <= Burst \/ rewound'[j]
      BY <1>3, <2>1, <2>2 DEF TypeOK
    <3>6. QED BY <1>1, <1>4, <2>1, <3>2, <3>3, <3>4, <3>5 DEF TypeOK
  <2>4. SampleInv' BY <1>1, <1>2, <1>3 DEF SampleInv, TypeOK
  <2>5. ASSUME PaidFor(k) PROVE PaidFor(k)'
    <3> DEFINE T == TicksPerSecond
               ws == buckets[k].windowStart
    <3>0. /\ admitted[k] \in Nat /\ buckets[k].count \in Nat /\ ws \in Nat
          /\ T \in Nat \ {0} /\ Rate \in Nat \ {0} /\ Burst \in Nat \ {0}
      BY <1>1 DEF TypeOK
    <3>1. (admitted[k] + count) * T <= Burst * T + (now - Boot) * Rate
      <4>1. CASE admitted[k] = 0
        <5>1. count * T <= Burst * T BY <2>2, <3>0
        <5>2. (now - Boot) * Rate >= 0 BY <1>2, <3>0
        <5>3. QED BY <2>2, <3>0, <4>1, <5>1, <5>2, <1>2
      <4>2. CASE admitted[k] # 0
        <5>1. /\ ws >= Boot
              /\ (admitted[k] + buckets[k].count) * T <= Burst * T + (ws - Boot) * Rate
          BY <2>5, <4>2 DEF PaidFor
        <5>2. (now - Boot) * Rate = (now - ws) * Rate + (ws - Boot) * Rate BY <1>2, <3>0
        <5>3. /\ (admitted[k] + count) * T = admitted[k] * T + count * T
              /\ (admitted[k] + buckets[k].count) * T = admitted[k] * T + buckets[k].count * T
          BY <2>2, <3>0
        <5>4. /\ admitted[k] * T \in Int /\ count * T \in Int /\ buckets[k].count * T \in Int
              /\ (now - ws) * Rate \in Int /\ (ws - Boot) * Rate \in Int /\ Burst * T \in Int
          BY <1>2, <2>2, <3>0
        <5>5. count * T <= buckets[k].count * T + (now - ws) * Rate BY <2>2
        <5> HIDE DEF T, ws
        <5>6. QED BY <5>1, <5>2, <5>3, <5>4, <5>5
      <4>3. QED BY <4>1, <4>2
    <3>2. (admitted'[k] + buckets'[k].count) * T <= Burst * T + (buckets'[k].windowStart - Boot) * Rate
      BY <1>3, <1>4, <3>1
    <3>3. QED BY <1>2, <1>3, <3>2 DEF PaidFor
  <2>6. \A j \in Keys : rewound'[j] \/ PaidFor(j)'
    <3>1. ASSUME NEW j \in Keys, j # k PROVE PaidFor(j)' <=> PaidFor(j)
      BY <1>3, <3>1 DEF PaidFor
    <3>2. QED BY <2>1, <2>5, <3>1
  <2>7. QED BY <2>3, <2>4, <2>6
<1>7. QED BY <1>1, <1>2, <1>5, <1>6

\* Buckets and what they have passed on are always as RateInv says.
THEOREM RateInvariant == Spec => []RateInv
<1>1. RateInv /\ UNCHANGED vars => RateInv'
  BY DEF RateInv, TypeOK, SampleInv, PaidFor, vars
<1>2. RateInv /\ [Next]_vars => RateInv' BY <1>1, TimeRate, DecideRate DEF Next
<1>3. QED BY InitRate, <1>2, PTL DEF Spec

\* Every variable has its type, and a bucket that was not rewound its bound.
THEOREM TypeCorrect == Spec => []TypeOK
<1>1. RateInv => TypeOK BY DEF RateInv
<1>2. QED BY <1>1, RateInvariant, PTL

\* A bucket passes on no more than burst_size and requests_per_second after that.
THEOREM RateBoundHolds == Spec => []RateBound
<1>1. RateInv => RateBound
  <2> SUFFICES ASSUME RateInv, NEW k \in Keys, ~rewound[k] PROVE WithinRate(admitted[k])
    BY DEF RateBound
  <2> USE RateAssumption
  <2> DEFINE T == TicksPerSecond
             ws == buckets[k].windowStart
  <2>0. /\ admitted[k] \in Nat /\ buckets[k].count \in Nat /\ ws \in Nat /\ ws <= clock
        /\ clock \in Nat /\ clock >= Boot /\ Boot \in Nat
        /\ T \in Nat \ {0} /\ Rate \in Nat \ {0} /\ Burst \in Nat \ {0}
    <3>1. buckets[k] \in [count : 0..SizeRange - 1, windowStart : 0..clock]
      BY DEF RateInv, TypeOK
    <3>2. QED BY <3>1 DEF RateInv, TypeOK
  <2>1. (clock - Boot) * Rate >= 0 /\ (clock - Boot) * Rate \in Int /\ Burst * T \in Nat BY <2>0
  <2>2. CASE admitted[k] = 0 BY <2>0, <2>1, <2>2 DEF WithinRate
  <2>3. CASE admitted[k] # 0
    <3>1. /\ ws >= Boot
          /\ (admitted[k] + buckets[k].count) * T <= Burst * T + (ws - Boot) * Rate
      BY <2>3 DEF RateInv, PaidFor
    <3>2. (ws - Boot) * Rate <= (clock - Boot) * Rate BY <2>0, <3>1
    <3>3. admitted[k] * T <= (admitted[k] + buckets[k].count) * T BY <2>0
    <3>4. /\ admitted[k] * T \in Int /\ (admitted[k] + buckets[k].count) * T \in Int
          /\ (ws - Boot) * Rate \in Int
      BY <2>0
    <3>5. admitted[k] * T <= Burst * T + (clock - Boot) * Rate
      BY <2>1, <3>1, <3>2, <3>3, <3>4
    <3>6. QED BY <3>5 DEF WithinRate
  <2>4. QED BY <2>2, <2>3
<1>2. QED BY <1>1, RateInvariant, PTL

\* A request that begins a second or more after the last answer is not rejected.
THEOREM RetryAfterHonouredHolds == Spec => RetryAfterHonoured
<1>1. RateInv /\ [Next]_vars =>
        [\A w \in Workers :
           (/\ work[w] # NoRequest /\ work'[w] = NoRequest
            /\ admitted' = admitted) =>
             work[w].now - answered[work[w].key] < TicksPerSecond]_vars
  <2> SUFFICES ASSUME RateInv, Next, NEW w \in Workers,
                      work[w] # NoRequest, work'[w] = NoRequest, admitted' = admitted
               PROVE  work[w].now - answered[work[w].key] < TicksPerSecond
    OBVIOUS
  <2> USE RateAssumption DEF RateInv
  <2>1. Decide(w)
    <3>1. ~Tick BY DEF Tick
    <3>2. ASSUME NEW v \in Workers, Sample(v) PROVE FALSE
      <4>1. PICK k \in Keys : work' = [work EXCEPT ![v] = [key |-> k, now |-> clock]]
        BY <3>2 DEF Sample
      <4>2. k # "none" OBVIOUS
      <4>3. [key |-> k, now |-> clock] # NoRequest BY <4>2 DEF NoRequest
      <4>4. QED BY <3>2, <4>1, <4>3 DEF Sample, TypeOK
    <3>3. PICK v \in Workers : Decide(v) BY <3>1, <3>2 DEF Next
    <3>4. v = w BY <3>3 DEF Decide, TypeOK
    <3>5. QED BY <3>3, <3>4
  <2>2. PICK k \in Keys, now \in Boot..clock : \E count \in Replenished(buckets[k], now) :
          /\ work[w].key = k /\ work[w].now = now
          /\ buckets[k] \in [count : Nat, windowStart : Nat]
          /\ admitted' = IF count = 0 THEN admitted ELSE [admitted EXCEPT ![k] = @ + 1]
    BY <2>1, DecideFacts
  <2>3. PICK count \in Replenished(buckets[k], now) :
          /\ buckets[k] \in [count : Nat, windowStart : Nat]
          /\ admitted' = IF count = 0 THEN admitted ELSE [admitted EXCEPT ![k] = @ + 1]
    BY <2>2
  <2>4. count = 0
    <3>1. admitted[k] \in Nat BY DEF TypeOK
    <3>2. [admitted EXCEPT ![k] = @ + 1] # admitted BY <3>1 DEF TypeOK
    <3>3. QED BY <2>3, <3>2
  <2>5. /\ now \in Nat /\ buckets[k].windowStart \in Nat /\ answered[k] \in Nat
        /\ buckets[k].windowStart <= answered[k] /\ TicksPerSecond \in Nat \ {0}
    BY <2>3 DEF TypeOK, SampleInv
  <2>6. ASSUME now - answered[k] >= TicksPerSecond PROVE FALSE
    <3>1. now >= buckets[k].windowStart /\ now - buckets[k].windowStart >= TicksPerSecond
      BY <2>5, <2>6
    <3>2. count \in Nat /\ count >= 1 BY <2>3, <2>5, <3>1, ReplenishedInOrder
    <3>3. QED BY <2>4, <3>2
  <2>7. QED BY <2>2, <2>5, <2>6
<1>2. QED BY <1>1, RateInvariant, PTL DEF Spec, RetryAfterHonoured
=============================================================================
