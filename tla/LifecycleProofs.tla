-------------------------- MODULE LifecycleProofs --------------------------
(***************************************************************************)
(* Proofs about Lifecycle for any number of workers, connections and        *)
(* signals, whichever threads the signals interrupt.                         *)
(***************************************************************************)
EXTENDS Lifecycle, SequenceTheorems, TLAPS

-----------------------------------------------------------------------------
(* The inductive invariants                                                  *)

EarlyPC == {"configure", "construct", "install", "setup", "set running"}
LatePC == {"unmap", "unpool", "gone"}
\* where main has a connection in its hands
HandPC == {"check limit", "checked", "create", "insert", "inserted", "register", "find", "found",
           "not found", "swept", "event", "erase", "erased", "submit", "emplace"}
LoopPC == HandPC \cup {"announce", "announcing", "loop", "poll", "batch", "accept", "notify"}
WorkingPC == {"log", "logging", "serve", "erase", "erased"}

Failures == {"no", "help", "configure", "construct", "setup", "create", "submit"}

\* Types, with those of what a thread has in its hands.
MainType ==
  /\ main \in [pc : MainPC, conn : Clients \cup {NoClient},
               batch : SUBSET (Clients \cup {Listener}), failed : Failures]
  /\ main.pc \in HandPC => main.conn \in Clients

StopTypes ==
  /\ stopper \in [Actors -> StopPC]
  /\ signal \in [thread : Victims \cup {NoThread}, count : 0..MaxSignals, lost : BOOLEAN]
  /\ running \in BOOLEAN
  /\ outcome \in {"alive", "success", "failure", "aborted"}

PoolType ==
  pool \in [stop : BOOLEAN, tasks : Seq(Clients), missed : BOOLEAN, joined : BOOLEAN]

WorkerType ==
  /\ worker \in [Workers -> [pc : WorkerPC, conn : Clients \cup {NoClient}]]
  /\ \A w \in Workers : worker[w].pc \in WorkingPC => worker[w].conn \in Clients

NetTypes ==
  /\ fds \subseteq {"listener", "epoll"}
  /\ sock \in [Clients -> {"new", "backlog", "open", "hung up", "closed"}]
  /\ interest \subseteq Clients /\ ready \subseteq interest
  /\ connections \subseteq Clients /\ leaked \subseteq Clients

TypeInv == MainType /\ StopTypes /\ PoolType /\ WorkerType /\ NetTypes

\* The lock that main, or a worker, has at a place in its code.
InLock(pc) ==
  IF pc \in DOMAIN AfterUnlock THEN "connections"
  ELSE IF pc = "emplace" THEN "queue" ELSE IF pc = "announcing" THEN "log" ELSE "none"

InLockW(pc) ==
  IF pc = "erased" THEN "connections"
  ELSE IF pc \in {"sleeping", "taking"} THEN "queue" ELSE IF pc = "logging" THEN "log" ELSE "none"

\* The thread inside a critical section, and no other, has its lock.
LockInv ==
  /\ mutex \in [Locks -> Workers \cup {Main, NoThread}]
  /\ \A m \in Locks :
       /\ mutex[m] = Main <=> InLock(main.pc) = m
       /\ \A w \in Workers : mutex[m] = w <=> InLockW(worker[w].pc) = m

\* Where the two stops can be, given where main and the interrupted thread are.
OrderInv ==
  /\ stopper["main"] # "none" => main.pc \in {"destruct", "unpool"}
  /\ main.pc = "unpool" => stopper["main"] \in {"stop", "notify all", "join", "end"}
  /\ signal.thread = NoThread <=> stopper["handler"] = "none"
  /\ signal.thread \in Workers => worker[signal.thread].pc # "exited"
  /\ \A a \in Actors : stopper[a] = "end" => pool.joined
  /\ main.failed # "no" => main.pc \in {"destruct"} \cup LatePC
  /\ outcome \in {"success", "failure"} => main.pc = "gone"

\* What an exited worker says of the pool.
QuietInv ==
  /\ main.pc \in {"configure", "construct"} => \A w \in Workers : worker[w].pc = "unborn"
  /\ \A w \in Workers :
       /\ worker[w].pc = "exited" => pool.stop /\ pool.tasks = <<>> /\ main.pc # "emplace"
       /\ worker[w].pc = "taking" => pool.stop \/ pool.tasks # <<>>
  /\ pool.joined => \A w \in Workers : worker[w].pc = "exited"

\* running_, and what the stop that cleared it has done or is still doing.
Idle == pool.tasks = <<>> /\ Working = {}
Underway(a) == stopper[a] \in {"log", "close all", "close epoll", "close listener", "stop",
                               "notify all", "join"}

SettledInv ==
  /\ main.pc \in EarlyPC =>
       ~running /\ Idle /\ \A a \in Actors : stopper[a] \in {"none", "load"}
  /\ \A a \in Actors : running => stopper[a] \in {"none", "load", "store"}
  /\ main.pc \in LatePC => ~running
  /\ ~running => \/ Idle /\ main.pc \notin LoopPC
                 \/ pool.joined
                 \/ \E a \in Actors : Underway(a)
  /\ main.pc \in LatePC => Idle \/ (signal.thread \in Workers /\ Underway("handler"))

\* Who answers for an open socket or descriptor.
InHand == IF main.pc \in {"check limit", "checked", "create", "insert"} THEN {main.conn} ELSE {}
Open(c) == sock[c] \in {"open", "hung up"}

OwnedInv ==
  /\ \A c \in Clients : Open(c) => c \in connections \cup leaked \cup InHand
  /\ \A w \in Workers : worker[w].pc = "erase" => sock[worker[w].conn] = "closed"
  /\ main.pc \in EarlyPC \cup {"unpool", "gone"} => connections = {}

Closing(a) == stopper[a] \in {"log", "close all", "close epoll", "close listener"}

FdsInv ==
  /\ main.pc \in EarlyPC \ {"set running"} => fds = {}
  /\ main.pc = "gone" => pool.joined \/ fds = {}
  /\ main.pc \in LatePC /\ signal.thread = Main => stopper["handler"] \in {"none", "load"}
  /\ \A a \in Actors : stopper[a] = "close listener" => "epoll" \notin fds
  /\ fds # {} => \/ main.failed = "setup" \/ running \/ main.pc = "set running"
                 \/ \E a \in Actors : Closing(a)
  /\ outcome \in {"success", "failure"} /\ main.failed # "setup" => fds = {}

LifecycleInv == TypeInv /\ LockInv /\ OrderInv /\ QuietInv /\ SettledInv /\ OwnedInv /\ FdsInv

-----------------------------------------------------------------------------
(* Types                                                                     *)

\* What each kind of move does to main.
LEMMA GotoFacts ==
  ASSUME MainType, NEW pc, Goto(pc)
  PROVE  /\ main'.pc = pc /\ main'.conn = main.conn /\ main'.batch = main.batch
         /\ main'.failed = main.failed
BY DEF MainType, Goto

\* ... with a connection in its hands.
LEMMA GotoWithFacts ==
  ASSUME MainType, NEW pc, NEW c, GotoWith(pc, c)
  PROVE  /\ main'.pc = pc /\ main'.conn = c /\ main'.batch = main.batch
         /\ main'.failed = main.failed
BY DEF MainType, GotoWith

\* ... by an exception out of start().
LEMMA ThrowFacts ==
  ASSUME MainType, Throw
  PROVE  /\ main'.pc = "destruct" /\ main'.failed = main.pc
         /\ main.pc \in Failures => MainType'
<1>1. main'.pc = "destruct" /\ main'.failed = main.pc BY DEF MainType, Throw
<1>2. "destruct" \in MainPC /\ "destruct" \notin HandPC BY DEF MainPC, HandPC, AfterUnlock
<1>3. ASSUME main.pc \in Failures
      PROVE  main' \in [pc : MainPC, conn : Clients \cup {NoClient},
                        batch : SUBSET (Clients \cup {Listener}), failed : Failures]
  BY <1>2, <1>3 DEF MainType, Throw
<1>4. QED BY <1>1, <1>2, <1>3 DEF MainType

\* ... out of the event loop.
LEMMA LeaveLoopFacts ==
  ASSUME MainType, LeaveLoop
  PROVE  MainType' /\ main'.pc = "destruct" /\ main'.failed = main.failed
<1>1. main'.pc = "destruct" /\ main'.failed = main.failed BY DEF LeaveLoop, MainType
<1>2. "destruct" \in MainPC /\ "destruct" \notin HandPC BY DEF MainPC, HandPC, AfterUnlock
<1>3. main' \in [pc : MainPC, conn : Clients \cup {NoClient},
                 batch : SUBSET (Clients \cup {Listener}), failed : Failures]
  BY <1>2 DEF MainType, LeaveLoop
<1>4. QED BY <1>1, <1>2, <1>3 DEF MainType

\* ... out of a critical section.
LEMMA AfterUnlockFacts ==
  /\ DOMAIN AfterUnlock = {"swept", "checked", "inserted", "found", "not found", "erased"}
  /\ \A pc \in DOMAIN AfterUnlock :
       AfterUnlock[pc] \in {"erase", "create", "register", "event", "batch"}
BY DEF AfterUnlock


\* main keeps its types.
LEMMA MainTypeKept ==
  ASSUME TypeInv, MainStep
  PROVE  MainType'
<1> USE DEF TypeInv
<1>1. CASE Configure
  <2>1. "construct" \in MainPC \ HandPC /\ "gone" \in MainPC \ HandPC
    BY DEF MainPC, HandPC, AfterUnlock
  <2>2. "help" \in Failures /\ "configure" \in Failures BY DEF Failures
  <2>3. CASE main' = [main EXCEPT !.pc = "construct"] BY <2>1, <2>3 DEF MainType
  <2>4. CASE main' = [main EXCEPT !.pc = "gone", !.failed = "help"] BY <2>1, <2>2, <2>4 DEF MainType
  <2>5. CASE main' = [main EXCEPT !.pc = "gone", !.failed = "configure"]
    BY <2>1, <2>2, <2>5 DEF MainType
  <2>6. QED BY <1>1, <2>3, <2>4, <2>5 DEF Configure, Goto
<1>2. CASE Construct
  BY <1>2 DEF Construct, At, Goto, MainType, MainPC, HandPC, AfterUnlock, Failures
<1>3. CASE InstallSignalHandlers
  BY <1>3 DEF InstallSignalHandlers, At, Goto, MainType, MainPC, HandPC, AfterUnlock, Failures
<1>4. CASE Setup
  <2>1. CASE Goto("set running")
    BY <2>1 DEF MainType, Goto, MainPC, HandPC, AfterUnlock
  <2>2. CASE Throw
    <3>1. main.pc \in Failures BY <1>4 DEF Setup, At, Failures
    <3>2. QED BY <3>1, <2>2, ThrowFacts
  <2>3. QED BY <1>4, <2>1, <2>2 DEF Setup
<1>5. CASE SetRunning
  BY <1>5 DEF SetRunning, At, Goto, MainType, MainPC, HandPC, AfterUnlock, Failures
<1>6. CASE Announce
  BY <1>6 DEF Announce, At, Goto, MainType, MainPC, HandPC, AfterUnlock, Failures
<1>7. CASE Announced
  BY <1>7 DEF Announced, At, Goto, MainType, MainPC, HandPC, AfterUnlock, Failures
<1>8. CASE TestRunning
  <2>1. CASE Goto("poll") BY <2>1 DEF MainType, Goto, MainPC, HandPC, AfterUnlock
  <2>2. QED BY <1>8, <2>1, LeaveLoopFacts DEF TestRunning
<1>9. CASE Poll
  <2>1. CASE Goto("loop") BY <2>1 DEF MainType, Goto, MainPC, HandPC, AfterUnlock
  <2>2. ASSUME NEW B, main' = [main EXCEPT !.pc = "batch",
                                               !.batch = ready \cup {Listener : c \in B}]
        PROVE  MainType'
    <3>1. ready \cup {Listener : c \in B} \in SUBSET (Clients \cup {Listener}) BY DEF NetTypes
    <3>2. "batch" \in MainPC \ HandPC BY DEF MainPC, HandPC, AfterUnlock
    <3>3. QED BY <2>2, <3>1, <3>2 DEF MainType
  <2>3. QED BY <1>9, <2>1, <2>2, LeaveLoopFacts DEF Poll
<1>10. CASE NextEvent
  <2>1. CASE Goto("loop") BY <2>1 DEF MainType, Goto, MainPC, HandPC, AfterUnlock
  <2>2. ASSUME NEW e \in main.batch,
               main' = [main EXCEPT !.batch = @ \ {e},
                                    !.pc = IF e = Listener THEN "accept" ELSE "find",
                                    !.conn = IF e = Listener THEN NoClient ELSE e]
        PROVE  MainType'
    <3>1. "accept" \in MainPC \ HandPC /\ "find" \in MainPC BY DEF MainPC, HandPC, AfterUnlock
    <3>2. e \in Clients \cup {Listener} BY DEF MainType
    <3>3. CASE e = Listener BY <2>2, <3>1, <3>3 DEF MainType
    <3>4. CASE e # Listener BY <2>2, <3>1, <3>2, <3>4 DEF MainType
    <3>5. QED BY <3>3, <3>4
  <2>3. QED BY <1>10, <2>1, <2>2 DEF NextEvent
<1>11. CASE Sweep
  <2>1. PICK c \in connections : GotoWith("swept", c) BY <1>11 DEF Sweep
  <2>2. c \in Clients BY DEF NetTypes
  <2>3. "swept" \in MainPC BY DEF MainPC, AfterUnlock
  <2>4. QED BY <2>1, <2>2, <2>3 DEF MainType, GotoWith
<1>12. CASE Accept
  BY <1>12 DEF Accept, At, GotoWith, MainType, MainPC, HandPC, AfterUnlock, Failures
<1>13. CASE CheckLimit
  BY <1>13 DEF CheckLimit, At, Goto, MainType, MainPC, HandPC, AfterUnlock, Failures
<1>14. CASE CreateConnection
  <2>1. CASE Goto("insert")
    <3>1. main.conn \in Clients BY <1>14 DEF CreateConnection, At, MainType, HandPC
    <3>2. "insert" \in MainPC BY DEF MainPC
    <3>3. QED BY <2>1, <3>1, <3>2 DEF MainType, Goto
  <2>2. CASE Throw
    <3>1. main.pc \in Failures BY <1>14 DEF CreateConnection, At, Failures
    <3>2. QED BY <3>1, <2>2, ThrowFacts
  <2>3. QED BY <1>14, <2>1, <2>2 DEF CreateConnection
<1>15. CASE Insert
  BY <1>15 DEF Insert, At, Goto, MainType, MainPC, HandPC, AfterUnlock, Failures
<1>16. CASE Register
  BY <1>16 DEF Register, At, GotoWith, MainType, MainPC, HandPC, AfterUnlock, Failures
<1>17. CASE Find
  BY <1>17 DEF Find, At, Goto, MainType, MainPC, HandPC, AfterUnlock, Failures
<1>18. CASE UnlockConnections
  <2>1. main.pc \in DOMAIN AfterUnlock BY <1>18 DEF UnlockConnections
  <2>2. main.conn \in Clients BY <2>1, AfterUnlockFacts DEF MainType, HandPC
  <2>3. CASE GotoWith("batch", NoClient)
    BY <2>3 DEF MainType, GotoWith, MainPC, HandPC, AfterUnlock
  <2>4. ASSUME NEW pc \in {"erase", "create", "register", "event", "batch"}, Goto(pc)
        PROVE  MainType'
    <3>1. pc \in MainPC BY DEF MainPC
    <3>2. QED BY <2>2, <2>4, <3>1 DEF MainType, Goto
  <2>5. QED BY <1>18, <2>1, <2>3, <2>4, AfterUnlockFacts DEF UnlockConnections
<1>19. CASE Event
  BY <1>19 DEF Event, At, Goto, MainType, MainPC, HandPC, AfterUnlock, Failures
<1>20. CASE Erase
  BY <1>20 DEF Erase, At, Goto, MainType, MainPC, HandPC, AfterUnlock, Failures
<1>21. CASE Submit
  <2>1. CASE Goto("emplace")
    <3>1. main.conn \in Clients BY <1>21 DEF Submit, At, MainType, HandPC
    <3>2. "emplace" \in MainPC BY DEF MainPC
    <3>3. QED BY <2>1, <3>1, <3>2 DEF MainType, Goto
  <2>2. CASE Throw
    <3>1. main.pc \in Failures BY <1>21 DEF Submit, At, Failures
    <3>2. QED BY <3>1, <2>2, ThrowFacts
  <2>3. QED BY <1>21, <2>1, <2>2 DEF Submit
<1>22. CASE Emplace
  BY <1>22 DEF Emplace, At, GotoWith, MainType, MainPC, HandPC, AfterUnlock, Failures
<1>23. CASE NotifyOne
  BY <1>23 DEF NotifyOne, At, Goto, MainType, MainPC, HandPC, AfterUnlock, Failures
<1>24. CASE Destruct BY <1>24 DEF Destruct, MainType
<1>25. CASE DestroyConnections
  BY <1>25 DEF DestroyConnections, At, Goto, MainType, MainPC, HandPC, AfterUnlock, Failures
<1>26. CASE Exit BY <1>26 DEF Exit, MainType
<1>27. QED BY <1>1, <1>2, <1>3, <1>4, <1>5, <1>6, <1>7, <1>8, <1>9, <1>10, <1>11, <1>12, <1>13,
      <1>14, <1>15, <1>16, <1>17, <1>18, <1>19, <1>20, <1>21, <1>22, <1>23, <1>24, <1>25, <1>26
   DEF MainStep

-----------------------------------------------------------------------------
(* The steps of main that concern neither the workers nor the stops           *)

PlainStep ==
  \/ InstallSignalHandlers \/ Announce \/ Announced \/ TestRunning \/ Poll \/ NextEvent \/ Sweep
  \/ Accept \/ CheckLimit \/ CreateConnection \/ Insert \/ Register \/ Find \/ UnlockConnections
  \/ Event \/ Erase

\* What is left of such a step where only main's place in the code matters.
PlainFacts ==
  /\ MainRuns
  /\ UNCHANGED <<stopper, signal, running, fds, pool, worker, outcome>>
  /\ main.pc # "emplace" /\ main'.pc # "emplace"
  /\ \/ main.pc = "install" /\ main'.pc = "setup"
     \/ main.pc \in LoopPC /\ main'.pc \in LoopPC \cup {"destruct"}
  /\ main'.failed = main.failed \/ main'.pc = "destruct"

\* The plain steps of main leave the stops, the pool and the workers alone.
LEMMA PlainSteps ==
  ASSUME MainType, PlainStep
  PROVE  PlainFacts
<1>1. CASE InstallSignalHandlers
  <2>1. main.pc = "install" /\ MainRuns
        /\ UNCHANGED <<stopper, signal, running, fds, pool, worker, outcome>>
    BY <1>1 DEF InstallSignalHandlers, At, netVars
  <2>2. main'.pc \in {"setup"} /\ (main'.failed = main.failed \/ main'.pc = "destruct")
    BY <1>1 DEF InstallSignalHandlers, MainType, Goto
  <2>3. QED BY <2>1, <2>2 DEF PlainFacts, LoopPC, HandPC
<1>2. CASE Announce
  <2>1. main.pc = "announce" /\ MainRuns
        /\ UNCHANGED <<stopper, signal, running, fds, pool, worker, outcome>>
    BY <1>2 DEF Announce, At, netVars
  <2>2. main'.pc \in {"announcing"} /\ (main'.failed = main.failed \/ main'.pc = "destruct")
    BY <1>2 DEF Announce, MainType, Goto
  <2>3. QED BY <2>1, <2>2 DEF PlainFacts, LoopPC, HandPC
<1>3. CASE Announced
  <2>1. main.pc = "announcing" /\ MainRuns
        /\ UNCHANGED <<stopper, signal, running, fds, pool, worker, outcome>>
    BY <1>3 DEF Announced, At, netVars
  <2>2. main'.pc \in {"loop"} /\ (main'.failed = main.failed \/ main'.pc = "destruct")
    BY <1>3 DEF Announced, MainType, Goto
  <2>3. QED BY <2>1, <2>2 DEF PlainFacts, LoopPC, HandPC
<1>4. CASE TestRunning
  <2>1. main.pc = "loop" /\ MainRuns
        /\ UNCHANGED <<stopper, signal, running, fds, pool, worker, outcome>>
    BY <1>4 DEF TestRunning, At, netVars
  <2>2. main'.pc \in {"poll", "destruct"} /\ (main'.failed = main.failed \/ main'.pc = "destruct")
    BY <1>4 DEF TestRunning, MainType, Goto, LeaveLoop
  <2>3. QED BY <2>1, <2>2 DEF PlainFacts, LoopPC, HandPC
<1>5. CASE Poll
  <2>1. main.pc = "poll" /\ MainRuns
        /\ UNCHANGED <<stopper, signal, running, fds, pool, worker, outcome>>
    BY <1>5 DEF Poll, At, netVars
  <2>2. main'.pc \in {"loop", "batch", "destruct"}
        /\ (main'.failed = main.failed \/ main'.pc = "destruct")
    BY <1>5 DEF Poll, MainType, Goto, LeaveLoop
  <2>3. QED BY <2>1, <2>2 DEF PlainFacts, LoopPC, HandPC
<1>6. CASE NextEvent
  <2>1. main.pc = "batch" /\ MainRuns
        /\ UNCHANGED <<stopper, signal, running, fds, pool, worker, outcome>>
    BY <1>6 DEF NextEvent, At, netVars
  <2>2. main'.pc \in {"accept", "find", "loop"}
        /\ (main'.failed = main.failed \/ main'.pc = "destruct")
    BY <1>6 DEF NextEvent, MainType, Goto
  <2>3. QED BY <2>1, <2>2 DEF PlainFacts, LoopPC, HandPC
<1>7. CASE Sweep
  <2>1. main.pc = "batch" /\ MainRuns
        /\ UNCHANGED <<stopper, signal, running, fds, pool, worker, outcome>>
    BY <1>7 DEF Sweep, At, netVars
  <2>2. main'.pc \in {"swept"} /\ (main'.failed = main.failed \/ main'.pc = "destruct")
    BY <1>7 DEF Sweep, MainType, Goto, GotoWith
  <2>3. QED BY <2>1, <2>2 DEF PlainFacts, LoopPC, HandPC
<1>8. CASE Accept
  <2>1. main.pc = "accept" /\ MainRuns
        /\ UNCHANGED <<stopper, signal, running, fds, pool, worker, outcome>>
    BY <1>8 DEF Accept, At, netVars
  <2>2. main'.pc \in {"check limit", "batch"}
        /\ (main'.failed = main.failed \/ main'.pc = "destruct")
    BY <1>8 DEF Accept, MainType, Goto, GotoWith
  <2>3. QED BY <2>1, <2>2 DEF PlainFacts, LoopPC, HandPC
<1>9. CASE CheckLimit
  <2>1. main.pc = "check limit" /\ MainRuns
        /\ UNCHANGED <<stopper, signal, running, fds, pool, worker, outcome>>
    BY <1>9 DEF CheckLimit, At, netVars
  <2>2. main'.pc \in {"checked"} /\ (main'.failed = main.failed \/ main'.pc = "destruct")
    BY <1>9 DEF CheckLimit, MainType, Goto
  <2>3. QED BY <2>1, <2>2 DEF PlainFacts, LoopPC, HandPC
<1>10. CASE CreateConnection
  <2>1. main.pc = "create" /\ MainRuns
        /\ UNCHANGED <<stopper, signal, running, fds, pool, worker, outcome>>
    BY <1>10 DEF CreateConnection, At, netVars
  <2>2. main'.pc \in {"insert", "destruct"} /\ (main'.failed = main.failed \/ main'.pc = "destruct")
    BY <1>10 DEF CreateConnection, MainType, Goto, Throw
  <2>3. QED BY <2>1, <2>2 DEF PlainFacts, LoopPC, HandPC
<1>11. CASE Insert
  <2>1. main.pc = "insert" /\ MainRuns
        /\ UNCHANGED <<stopper, signal, running, fds, pool, worker, outcome>>
    BY <1>11 DEF Insert, At, netVars
  <2>2. main'.pc \in {"inserted"} /\ (main'.failed = main.failed \/ main'.pc = "destruct")
    BY <1>11 DEF Insert, MainType, Goto
  <2>3. QED BY <2>1, <2>2 DEF PlainFacts, LoopPC, HandPC
<1>12. CASE Register
  <2>1. main.pc = "register" /\ MainRuns
        /\ UNCHANGED <<stopper, signal, running, fds, pool, worker, outcome>>
    BY <1>12 DEF Register, At, netVars
  <2>2. main'.pc \in {"accept"} /\ (main'.failed = main.failed \/ main'.pc = "destruct")
    BY <1>12 DEF Register, MainType, Goto, GotoWith
  <2>3. QED BY <2>1, <2>2 DEF PlainFacts, LoopPC, HandPC
<1>13. CASE Find
  <2>1. main.pc = "find" /\ MainRuns
        /\ UNCHANGED <<stopper, signal, running, fds, pool, worker, outcome>>
    BY <1>13 DEF Find, At, netVars
  <2>2. main'.pc \in {"found", "not found"} /\ (main'.failed = main.failed \/ main'.pc = "destruct")
    BY <1>13 DEF Find, MainType, Goto
  <2>3. QED BY <2>1, <2>2 DEF PlainFacts, LoopPC, HandPC
<1>14. CASE UnlockConnections
  <2>1. main.pc \in DOMAIN AfterUnlock /\ MainRuns
        /\ UNCHANGED <<stopper, signal, running, fds, pool, worker, outcome>>
    BY <1>14 DEF UnlockConnections, At, netVars
  <2>2. main'.pc \in {"erase", "create", "register", "event", "batch"}
        /\ (main'.failed = main.failed \/ main'.pc = "destruct")
    BY <1>14, AfterUnlockFacts DEF UnlockConnections, MainType, Goto, GotoWith
  <2>3. QED BY <2>1, <2>2, AfterUnlockFacts DEF PlainFacts, LoopPC, HandPC
<1>15. CASE Event
  <2>1. main.pc = "event" /\ MainRuns
        /\ UNCHANGED <<stopper, signal, running, fds, pool, worker, outcome>>
    BY <1>15 DEF Event, At, netVars
  <2>2. main'.pc \in {"erase", "submit"} /\ (main'.failed = main.failed \/ main'.pc = "destruct")
    BY <1>15 DEF Event, MainType, Goto
  <2>3. QED BY <2>1, <2>2 DEF PlainFacts, LoopPC, HandPC
<1>16. CASE Erase
  <2>1. main.pc = "erase" /\ MainRuns
        /\ UNCHANGED <<stopper, signal, running, fds, pool, worker, outcome>>
    BY <1>16 DEF Erase, At, netVars
  <2>2. main'.pc \in {"erased"} /\ (main'.failed = main.failed \/ main'.pc = "destruct")
    BY <1>16 DEF Erase, MainType, Goto
  <2>3. QED BY <2>1, <2>2 DEF PlainFacts, LoopPC, HandPC
<1>17. QED BY <1>1, <1>2, <1>3, <1>4, <1>5, <1>6, <1>7, <1>8, <1>9, <1>10, <1>11, <1>12, <1>13,
      <1>14, <1>15, <1>16 DEF PlainStep

-----------------------------------------------------------------------------
(* Types, continued                                                          *)

\* What a worker's move does to worker.
LEMMA GotoWFacts ==
  ASSUME WorkerType, NEW w \in Workers, NEW pc, GotoW(w, pc)
  PROVE  /\ \A v \in Workers : /\ worker'[v].pc = IF v = w THEN pc ELSE worker[v].pc
                               /\ worker'[v].conn = worker[v].conn
         /\ pc \in WorkerPC /\ (pc \in WorkingPC => worker[w].conn \in Clients) => WorkerType'
BY DEF WorkerType, GotoW

\* ... and what a notification does.
LEMMA WakeFacts ==
  ASSUME WorkerType, NEW S \in SUBSET Workers,
         worker' = [w \in Workers |-> IF w \in S THEN [worker[w] EXCEPT !.pc = "idle"]
                                  ELSE worker[w]]
  PROVE  /\ \A v \in Workers : worker'[v].pc = IF v \in S THEN "idle" ELSE worker[v].pc
         /\ WorkerType'
<1>1. "idle" \in WorkerPC /\ "idle" \notin WorkingPC BY DEF WorkerPC, WorkingPC
<1>2. QED BY <1>1 DEF WorkerType

\* notify_one() wakes at most one sleeping worker.
LEMMA NotifyFacts ==
  ASSUME WorkerType, NotifyOne
  PROVE  /\ \A v \in Workers :
              worker'[v].pc = worker[v].pc \/ (worker[v].pc = "waiting" /\ worker'[v].pc = "idle")
         /\ WorkerType'
<1>1. "idle" \in WorkerPC /\ "idle" \notin WorkingPC BY DEF WorkerPC, WorkingPC
<1>2. CASE UNCHANGED worker BY <1>2 DEF WorkerType
<1>3. CASE \E w \in Waiting : worker' = [worker EXCEPT ![w].pc = "idle"]
  BY <1>1, <1>3 DEF WorkerType, Waiting
<1>4. QED BY <1>2, <1>3 DEF NotifyOne

\* The constructor of the pool starts all workers, idle.
LEMMA ConstructFacts ==
  ASSUME Construct
  PROVE  WorkerType' /\ \A w \in Workers : worker'[w].pc = "idle"
<1>1. "idle" \in WorkerPC /\ "idle" \notin WorkingPC BY DEF WorkerPC, WorkingPC
<1>2. worker' = [w \in Workers |-> [pc |-> "idle", conn |-> NoClient]] BY DEF Construct
<1>3. QED BY <1>1, <1>2 DEF WorkerType

\* A worker with the wait behind it takes the first task, or leaves.
LEMMA TakeFacts ==
  ASSUME WorkerType, PoolType, NEW w \in Workers, TakeTask(w)
  PROVE  /\ \A v \in Workers \ {w} : worker'[v] = worker[v]
         /\ worker'[w].pc = IF pool.tasks = <<>> THEN "exited" ELSE "log"
         /\ pool'.stop = pool.stop /\ pool'.joined = pool.joined
         /\ pool.tasks = <<>> => pool'.tasks = <<>>
         /\ WorkerType' /\ PoolType'
<1>0. "exited" \in WorkerPC \ WorkingPC /\ "log" \in WorkerPC BY DEF WorkerPC, WorkingPC
<1>1. CASE pool.tasks = <<>>
  <2>1. worker' = [worker EXCEPT ![w].pc = "exited"] /\ pool' = pool
    BY <1>1 DEF TakeTask, GotoW
  <2>2. WorkerType' /\ worker'[w].pc = "exited" /\ \A v \in Workers \ {w} : worker'[v] = worker[v]
    BY <1>0, <2>1 DEF WorkerType
  <2>3. QED BY <1>1, <2>1, <2>2 DEF PoolType
<1>2. CASE pool.tasks # <<>>
  <2>1. pool.tasks \in Seq(Clients) BY DEF PoolType
  <2>2. Head(pool.tasks) \in Clients /\ Tail(pool.tasks) \in Seq(Clients)
    BY <1>2, <2>1, HeadTailProperties
  <2>3. /\ worker' = [worker EXCEPT ![w] = [pc |-> "log", conn |-> Head(pool.tasks)]]
        /\ pool' = [pool EXCEPT !.tasks = Tail(@)]
    BY <1>2 DEF TakeTask
  <2>4. /\ WorkerType' /\ worker'[w].pc = "log"
        /\ \A v \in Workers \ {w} : worker'[v] = worker[v]
    BY <1>0, <2>2, <2>3 DEF WorkerType
  <2>5. PoolType' /\ pool'.stop = pool.stop /\ pool'.joined = pool.joined
    BY <2>2, <2>3 DEF PoolType
  <2>6. QED BY <1>2, <2>4, <2>5
<1>3. QED BY <1>1, <1>2

\* A task is put at the end of the queue.
LEMMA EmplaceFacts ==
  ASSUME MainType, PoolType, Emplace
  PROVE  PoolType' /\ pool'.stop = pool.stop /\ pool'.joined = pool.joined /\ pool'.tasks # <<>>
<1>1. main.conn \in Clients BY DEF MainType, HandPC, Emplace, At
<1>2. pool.tasks \in Seq(Clients) BY DEF PoolType
<1>3. Append(pool.tasks, main.conn) \in Seq(Clients) /\ Append(pool.tasks, main.conn) # <<>>
  BY <1>1, <1>2, AppendProperties
<1>4. pool' = [pool EXCEPT !.tasks = Append(pool.tasks, main.conn)] BY DEF Emplace
<1>5. QED BY <1>3, <1>4 DEF PoolType

\* The steps of a worker between two tasks, and within one.
WorkerMove(w, from, to) ==
  /\ WorkerRuns(w) /\ worker[w].pc = from /\ GotoW(w, to)
  /\ UNCHANGED <<main, stopper, signal, running, fds, pool, leaked, outcome>>

\* The other steps of a worker move it from one place to the next.
LEMMA WorkerMoves ==
  ASSUME NEW w \in Workers, WorkerStep(w), ~TakeTask(w)
  PROVE  \/ WorkerMove(w, "idle", "taking") /\ WaitIsOver
         \/ \E m \in {<<"idle", "sleeping">>, <<"sleeping", "waiting">>, <<"log", "logging">>,
                      <<"logging", "serve">>, <<"serve", "idle">>, <<"serve", "erase">>,
                      <<"erase", "erased">>, <<"erased", "idle">>} :
              WorkerMove(w, m[1], m[2])
<1> USE DEF WorkerMove, netVars
<1>1. CASE AwaitTask(w) BY <1>1 DEF AwaitTask
<1>2. CASE Sleep(w) BY <1>2 DEF Sleep
<1>3. CASE LogAccess(w) BY <1>3 DEF LogAccess
<1>4. CASE Logged(w) BY <1>4 DEF Logged
<1>5. CASE Serve(w) BY <1>5 DEF Serve
<1>6. CASE RemoveConnection(w) BY <1>6 DEF RemoveConnection
<1>7. CASE Removed(w) BY <1>7 DEF Removed
<1>8. QED BY <1>1, <1>2, <1>3, <1>4, <1>5, <1>6, <1>7 DEF WorkerStep

\* ... and do nothing else to it.
LEMMA WorkerMoveFacts ==
  ASSUME WorkerType, NEW w \in Workers, WorkerStep(w), ~TakeTask(w)
  PROVE  /\ WorkerType' /\ UNCHANGED <<main, stopper, signal, running, fds, pool, leaked, outcome>>
         /\ \A v \in Workers : v # w => worker'[v].pc = worker[v].pc
         /\ worker'[w].pc # "exited" /\ worker[w].pc # "unborn" /\ worker[w].pc # "exited"
         /\ worker'[w].pc \in WorkingPC => worker[w].pc \in WorkingPC
         /\ worker'[w].pc = "taking" => WaitIsOver
         /\ worker[w].pc # "taking"
<1>1. CASE WorkerMove(w, "idle", "taking") /\ WaitIsOver
  <2>1. "taking" \in WorkerPC \ WorkingPC BY DEF WorkerPC, WorkingPC
  <2>2. QED BY <1>1, <2>1, GotoWFacts DEF WorkerMove
<1>2. ASSUME NEW from, NEW to,
             <<from, to>> \in {<<"idle", "sleeping">>, <<"sleeping", "waiting">>, <<"log", "logging">>,
                      <<"logging", "serve">>, <<"serve", "idle">>, <<"serve", "erase">>,
                      <<"erase", "erased">>, <<"erased", "idle">>},
             WorkerMove(w, from, to)
      PROVE  /\ WorkerType'
             /\ UNCHANGED <<main, stopper, signal, running, fds, pool, leaked, outcome>>
             /\ \A v \in Workers : v # w => worker'[v].pc = worker[v].pc
             /\ worker'[w].pc # "exited" /\ worker[w].pc # "unborn" /\ worker[w].pc # "exited"
             /\ worker'[w].pc \in WorkingPC => worker[w].pc \in WorkingPC
             /\ worker'[w].pc # "taking" /\ worker[w].pc # "taking"
  <2>1. /\ to \in WorkerPC /\ (to \in WorkingPC => from \in WorkingPC)
        /\ to \notin {"exited", "taking"} /\ from \notin {"exited", "taking", "unborn"}
    BY <1>2 DEF WorkerPC, WorkingPC
  <2>2. worker[w].pc = from /\ GotoW(w, to) BY <1>2 DEF WorkerMove
  <2>3. to \in WorkingPC => worker[w].conn \in Clients BY <2>1, <2>2 DEF WorkerType
  <2>4. QED BY <1>2, <2>1, <2>2, <2>3, GotoWFacts DEF WorkerMove
<1>3. QED BY <1>1, <1>2, WorkerMoves

\* The end of a stop.
LEMMA ReturnFacts ==
  ASSUME MainType, StopTypes, NEW a \in Actors, Return(a)
  PROVE  /\ stopper' \in [Actors -> StopPC] /\ stopper'[a] = "none"
         /\ \A b \in Actors : b # a => stopper'[b] = stopper[b]
         /\ a = "handler" => main' = main /\ signal'.thread = NoThread
         /\ a = "main" => /\ signal' = signal /\ main'.failed = main.failed
                          /\ main'.pc = IF main.pc = "destruct" THEN "unmap" ELSE "gone"
         /\ signal' \in [thread : Victims \cup {NoThread}, count : 0..MaxSignals, lost : BOOLEAN]
         /\ MainType'
<1>1. "none" \in StopPC BY DEF StopPC
<1>2. /\ stopper' \in [Actors -> StopPC] /\ stopper'[a] = "none"
      /\ \A b \in Actors : b # a => stopper'[b] = stopper[b]
  BY <1>1 DEF Return, Proceed, StopTypes
<1>3. CASE a = "handler"
  <2>1. main' = main /\ signal' = [signal EXCEPT !.thread = NoThread] BY <1>3 DEF Return
  <2>2. signal'.thread = NoThread
        /\ signal' \in [thread : Victims \cup {NoThread}, count : 0..MaxSignals, lost : BOOLEAN]
    BY <2>1 DEF StopTypes
  <2>3. MainType' BY <2>1 DEF MainType
  <2>4. QED BY <1>2, <1>3, <2>1, <2>2, <2>3
<1>4. CASE a = "main"
  <2>1. signal' = signal /\ Goto(IF main.pc = "destruct" THEN "unmap" ELSE "gone")
    BY <1>4 DEF Return
  <2>2. \A pc \in {"unmap", "gone"} : pc \in MainPC /\ pc \notin HandPC BY DEF MainPC, HandPC
  <2>3. MainType' /\ main'.failed = main.failed
        /\ main'.pc = IF main.pc = "destruct" THEN "unmap" ELSE "gone"
    <3>1. ASSUME NEW pc \in {"unmap", "gone"}, Goto(pc)
          PROVE  MainType' /\ main'.pc = pc /\ main'.failed = main.failed
      BY <3>1, <2>2 DEF MainType, Goto
    <3>2. QED BY <2>1, <3>1
  <2>4. QED BY <1>2, <1>4, <2>1, <2>3 DEF StopTypes
<1>5. QED BY <1>3, <1>4 DEF Actors

\* The steps of a stop between its first test and its return.
LEMMA StopMoves ==
  ASSUME StopTypes, NEW a \in Actors, StopStep(a), ~Return(a)
  PROVE  /\ stopper' \in [Actors -> StopPC] /\ \A b \in Actors : b # a => stopper'[b] = stopper[b]
         /\ UNCHANGED <<main, signal, outcome, leaked, mutex>>
         /\ <<stopper[a], stopper'[a]>> \in
              {<<"load", "store">>, <<"store", "log">>, <<"log", "close all">>,
               <<"close all", "close epoll">>, <<"close epoll", "close listener">>,
               <<"close listener", "stop">>, <<"stop", "notify all">>, <<"notify all", "join">>,
               <<"join", "end">>}
<1> USE DEF StopTypes, Doing, Proceed, StopPC, netVars
<1>1. CASE StopLoad(a) BY <1>1 DEF StopLoad
<1>2. CASE StopStore(a) BY <1>2 DEF StopStore
<1>3. CASE StopLog(a) BY <1>3 DEF StopLog
<1>4. CASE StopCloseAll(a) BY <1>4 DEF StopCloseAll
<1>5. CASE StopCloseEpoll(a) BY <1>5 DEF StopCloseEpoll
<1>6. CASE StopCloseListener(a) BY <1>6 DEF StopCloseListener, ShutPoolDown
<1>7. CASE PoolStop(a) BY <1>7 DEF PoolStop
<1>8. CASE PoolNotifyAll(a) BY <1>8 DEF PoolNotifyAll
<1>9. CASE PoolJoin(a) BY <1>9 DEF PoolJoin
<1>10. CASE StopEnd(a) BY <1>10 DEF StopEnd
<1>11. QED BY <1>1, <1>2, <1>3, <1>4, <1>5, <1>6, <1>7, <1>8, <1>9, <1>10 DEF StopStep

\* The network's types.
LEMMA CloseTypes ==
  ASSUME NetTypes, NEW S, CloseSockets(S), fds' \subseteq fds, connections' \subseteq connections,
         leaked' = leaked
  PROVE  NetTypes'
BY DEF NetTypes, CloseSockets

\* ... are kept.
LEMMA NetTypesKept ==
  ASSUME TypeInv, [Next]_vars
  PROVE  NetTypes'
<1> USE DEF TypeInv, NetTypes, netVars, At
<1>0. MainType /\ WorkerType /\ NetTypes BY DEF TypeInv
<1>1. CASE Setup BY <1>1 DEF Setup
<1>2. CASE Poll BY <1>2 DEF Poll
<1>3. CASE Accept BY <1>3 DEF Accept
<1>4. CASE CreateConnection BY <1>4, <1>0 DEF CreateConnection, MainType, HandPC
<1>5. CASE Insert BY <1>5, <1>0 DEF Insert, MainType, HandPC
<1>6. CASE Register BY <1>6, <1>0 DEF Register, MainType, HandPC
<1>7. CASE Erase BY <1>7, CloseTypes DEF Erase
<1>8. CASE DestroyConnections BY <1>8, CloseTypes DEF DestroyConnections, DestroyEntries
<1>9. CASE Configure \/ Construct \/ InstallSignalHandlers \/ SetRunning \/ Announce
      \/ Announced \/ TestRunning \/ NextEvent \/ Sweep
  BY <1>9 DEF Configure, Construct, InstallSignalHandlers, SetRunning, Announce, Announced,
        TestRunning, NextEvent, Sweep
<1>10. CASE CheckLimit \/ Find \/ UnlockConnections \/ Event \/ Submit \/ Emplace \/ NotifyOne
      \/ Destruct \/ Exit
  BY <1>10 DEF CheckLimit, Find, UnlockConnections, Event, Submit, Emplace, NotifyOne, Destruct,
        Exit
<1>11. CASE MainStep BY <1>11, <1>1, <1>2, <1>3, <1>4, <1>5, <1>6, <1>7, <1>8, <1>9, <1>10
      DEF MainStep
<1>12. ASSUME NEW a \in Actors, StopStep(a) PROVE NetTypes'
  <2>1. CASE StopCloseAll(a) BY <2>1, CloseTypes DEF StopCloseAll
  <2>2. CASE StopCloseEpoll(a) BY <2>2 DEF StopCloseEpoll
  <2>3. CASE StopCloseListener(a) BY <2>3 DEF StopCloseListener
  <2>4. CASE StopLoad(a) \/ StopStore(a) \/ StopLog(a) \/ PoolStop(a) \/ PoolNotifyAll(a)
             \/ PoolJoin(a) \/ StopEnd(a)
    BY <2>4 DEF StopLoad, StopStore, StopLog, PoolStop, PoolNotifyAll, PoolJoin, StopEnd
  <2>5. QED BY <1>12, <2>1, <2>2, <2>3, <2>4 DEF StopStep
<1>13. ASSUME NEW w \in Workers, WorkerStep(w) PROVE NetTypes'
  <2>1. CASE Serve(w) BY <2>1, CloseTypes DEF Serve
  <2>2. CASE RemoveConnection(w) BY <2>2 DEF RemoveConnection
  <2>3. CASE AwaitTask(w) \/ Sleep(w) \/ TakeTask(w) \/ LogAccess(w) \/ Logged(w) \/ Removed(w)
    BY <2>3 DEF AwaitTask, Sleep, TakeTask, LogAccess, Logged, Removed
  <2>4. QED BY <1>13, <2>1, <2>2, <2>3 DEF WorkerStep
<1>14. CASE JoinItself \/ (\E t \in Victims : Interrupt(t)) \/ UNCHANGED vars
  BY <1>14 DEF JoinItself, Interrupt, vars
<1>15. CASE \E c \in Clients : Connect(c) \/ HangUp(c) BY <1>15 DEF Connect, HangUp
<1>16. QED BY <1>11, <1>12, <1>13, <1>14, <1>15 DEF Next

\* The steps of main that are not plain.
MainCases ==
  \/ PlainStep \/ Configure \/ Construct \/ Setup \/ SetRunning \/ Submit \/ Emplace \/ NotifyOne
  \/ Destruct \/ DestroyConnections \/ Exit

\* main's steps are the plain ones and these.
LEMMA MainSplit == MainStep <=> MainCases
BY DEF MainStep, MainCases, PlainStep

\* The other types.
LEMMA WorkerTypeKept ==
  ASSUME TypeInv, [Next]_vars
  PROVE  WorkerType'
<1> USE DEF TypeInv
<1>1. CASE UNCHANGED worker BY <1>1 DEF WorkerType
<1>2. CASE MainStep
  <2>1. CASE PlainStep BY <1>1, <2>1, PlainSteps DEF PlainFacts
  <2>2. CASE Construct BY <2>2, ConstructFacts
  <2>3. CASE NotifyOne BY <2>3, NotifyFacts
  <2>4. CASE Configure \/ Setup \/ SetRunning \/ Submit \/ Emplace \/ Destruct
             \/ DestroyConnections \/ Exit
    BY <1>1, <2>4 DEF Configure, Setup, SetRunning, Submit, Emplace, Destruct,
                      DestroyConnections, Exit
  <2>5. QED BY <1>2, <2>1, <2>2, <2>3, <2>4, MainSplit DEF MainCases
<1>3. ASSUME NEW a \in Actors, StopStep(a) PROVE WorkerType'
  <2>1. CASE PoolNotifyAll(a)
    <3>1. Waiting \subseteq Workers BY DEF Waiting
    <3>2. QED BY <2>1, <3>1, WakeFacts DEF PoolNotifyAll
  <2>2. CASE StopLoad(a) \/ StopStore(a) \/ StopLog(a) \/ StopCloseAll(a) \/ StopCloseEpoll(a)
             \/ StopCloseListener(a) \/ PoolStop(a) \/ PoolJoin(a) \/ StopEnd(a)
    BY <1>1, <2>2 DEF StopLoad, StopStore, StopLog, StopCloseAll, StopCloseEpoll,
                      StopCloseListener, PoolStop, PoolJoin, StopEnd
  <2>3. QED BY <1>3, <2>1, <2>2 DEF StopStep
<1>4. ASSUME NEW w \in Workers, WorkerStep(w) PROVE WorkerType'
  <2>1. CASE TakeTask(w) BY <2>1, TakeFacts
  <2>2. QED BY <1>4, <2>1, WorkerMoveFacts
<1>5. CASE JoinItself \/ (\E t \in Victims : Interrupt(t)) \/ UNCHANGED vars
           \/ (\E c \in Clients : Connect(c) \/ HangUp(c))
  BY <1>1, <1>5 DEF JoinItself, Interrupt, Connect, HangUp, vars
<1>6. QED BY <1>2, <1>3, <1>4, <1>5 DEF Next

\* ... of the pool.
LEMMA PoolTypeKept ==
  ASSUME TypeInv, [Next]_vars
  PROVE  PoolType'
<1> USE DEF TypeInv
<1>1. CASE UNCHANGED pool BY <1>1 DEF PoolType
<1>2. CASE MainStep
  <2>1. CASE PlainStep BY <1>1, <2>1, PlainSteps DEF PlainFacts
  <2>2. CASE Emplace BY <2>2, EmplaceFacts
  <2>3. CASE Configure \/ Construct \/ Setup \/ SetRunning \/ Submit \/ NotifyOne \/ Destruct
             \/ DestroyConnections \/ Exit
    BY <1>1, <2>3 DEF Configure, Construct, Setup, SetRunning, Submit, NotifyOne, Destruct,
                      DestroyConnections, Exit
  <2>4. QED BY <1>2, <2>1, <2>2, <2>3, MainSplit DEF MainCases
<1>3. ASSUME NEW a \in Actors, StopStep(a) PROVE PoolType'
  <2>1. CASE PoolStop(a) BY <2>1 DEF PoolStop, PoolType
  <2>2. CASE PoolNotifyAll(a)
    <3>1. PICK b \in BOOLEAN : pool' = [pool EXCEPT !.missed = b]
      <4>1. \A p, q : (p \/ q) \in BOOLEAN BY Zenon
      <4>2. QED BY <2>2, <4>1 DEF PoolNotifyAll
    <3>2. QED BY <3>1 DEF PoolType
  <2>3. CASE PoolJoin(a) BY <2>3 DEF PoolJoin, PoolType
  <2>4. CASE StopLoad(a) \/ StopStore(a) \/ StopLog(a) \/ StopCloseAll(a) \/ StopCloseEpoll(a)
             \/ StopCloseListener(a) \/ StopEnd(a)
    BY <1>1, <2>4 DEF StopLoad, StopStore, StopLog, StopCloseAll, StopCloseEpoll,
                      StopCloseListener, StopEnd
  <2>5. QED BY <1>3, <2>1, <2>2, <2>3, <2>4 DEF StopStep
<1>4. ASSUME NEW w \in Workers, WorkerStep(w) PROVE PoolType'
  <2>1. CASE TakeTask(w) BY <2>1, TakeFacts
  <2>2. QED BY <1>1, <1>4, <2>1, WorkerMoveFacts
<1>5. CASE JoinItself \/ (\E t \in Victims : Interrupt(t)) \/ UNCHANGED vars
           \/ (\E c \in Clients : Connect(c) \/ HangUp(c))
  BY <1>1, <1>5 DEF JoinItself, Interrupt, Connect, HangUp, vars
<1>6. QED BY <1>2, <1>3, <1>4, <1>5 DEF Next

\* ... of the two stops and the signals.
LEMMA StopTypesKept ==
  ASSUME TypeInv, [Next]_vars
  PROVE  StopTypes'
<1> USE DEF TypeInv
<1>1. CASE UNCHANGED <<stopper, signal, running, outcome>> BY <1>1 DEF StopTypes
<1>2. CASE MainStep
  <2>1. CASE PlainStep BY <1>1, <2>1, PlainSteps DEF PlainFacts
  <2>2. CASE Construct BY <2>2 DEF Construct, StopTypes, Actors, StopPC
  <2>3. CASE SetRunning BY <2>3 DEF SetRunning, StopTypes
  <2>4. CASE Destruct \/ DestroyConnections
    BY <2>4 DEF Destruct, DestroyConnections, StopTypes, Actors, StopPC
  <2>5. CASE Exit BY <2>5 DEF Exit, StopTypes
  <2>6. CASE Configure \/ Setup \/ Submit \/ Emplace \/ NotifyOne
    BY <1>1, <2>6 DEF Configure, Setup, Submit, Emplace, NotifyOne
  <2>7. QED BY <1>2, <2>1, <2>2, <2>3, <2>4, <2>5, <2>6, MainSplit DEF MainCases
<1>3. ASSUME NEW a \in Actors, StopStep(a) PROVE StopTypes'
  <2>1. running' \in BOOLEAN /\ outcome' = outcome
    BY <1>3 DEF StopTypes, StopStep, StopLoad, StopStore, StopLog, StopCloseAll, StopCloseEpoll,
                StopCloseListener, PoolStop, PoolNotifyAll, PoolJoin, StopEnd
  <2>2. CASE Return(a) BY <2>1, <2>2, ReturnFacts DEF StopTypes
  <2>3. CASE ~Return(a) BY <1>3, <2>1, <2>3, StopMoves DEF StopTypes
  <2>4. QED BY <2>2, <2>3
<1>4. ASSUME NEW w \in Workers, WorkerStep(w) PROVE StopTypes'
  <2>1. CASE TakeTask(w) BY <1>1, <2>1 DEF TakeTask
  <2>2. QED BY <1>1, <1>4, <2>1, WorkerMoveFacts
<1>5. CASE JoinItself BY <1>5 DEF JoinItself, StopTypes
<1>6. ASSUME NEW t \in Victims, Interrupt(t) PROVE StopTypes'
  <2>1. signal.count + 1 \in 0..MaxSignals
    <3>1. signal.count \in 0..MaxSignals BY DEF StopTypes
    <3>2. signal.count < MaxSignals BY <1>6 DEF Interrupt
    <3>3. MaxSignals \in Nat BY LifecycleAssumption
    <3>4. QED BY <3>1, <3>2, <3>3
  <2>2. signal' = [thread |-> t, count |-> signal.count + 1,
                   lost |-> main.pc \in {"setup", "set running"}]
    BY <1>6 DEF Interrupt
  <2>3. signal' \in [thread : Victims \cup {NoThread}, count : 0..MaxSignals, lost : BOOLEAN]
    <3>1. (main.pc \in {"setup", "set running"}) \in BOOLEAN OBVIOUS
    <3>2. QED BY <2>1, <2>2, <3>1
  <2>4. stopper' \in [Actors -> StopPC] BY <1>6 DEF Interrupt, StopTypes, Actors, StopPC
  <2>5. QED BY <1>6, <2>3, <2>4 DEF Interrupt, StopTypes
<1>7. CASE UNCHANGED vars \/ (\E c \in Clients : Connect(c) \/ HangUp(c))
  BY <1>1, <1>7 DEF Connect, HangUp, vars
<1>8. QED BY <1>2, <1>3, <1>4, <1>5, <1>6, <1>7 DEF Next

\* All of them.
LEMMA TypesKept ==
  ASSUME TypeInv, [Next]_vars
  PROVE  TypeInv'
<1>1. MainType'
  <2>0. CASE UNCHANGED main BY <2>0 DEF TypeInv, MainType
  <2>1. CASE MainStep BY <2>1, MainTypeKept
  <2>2. ASSUME NEW a \in Actors, StopStep(a) PROVE MainType'
    BY <2>0, <2>2, ReturnFacts, StopMoves DEF TypeInv
  <2>3. ASSUME NEW w \in Workers, WorkerStep(w) PROVE MainType'
    <3>1. CASE TakeTask(w) BY <2>0, <3>1 DEF TakeTask
    <3>2. QED BY <2>0, <2>3, <3>1, WorkerMoveFacts DEF TypeInv
  <2>4. CASE JoinItself \/ (\E t \in Victims : Interrupt(t)) \/ UNCHANGED vars
             \/ (\E c \in Clients : Connect(c) \/ HangUp(c))
    BY <2>0, <2>4 DEF JoinItself, Interrupt, Connect, HangUp, vars
  <2>5. QED BY <2>1, <2>2, <2>3, <2>4 DEF Next
<1>2. QED BY <1>1, StopTypesKept, PoolTypeKept, WorkerTypeKept, NetTypesKept DEF TypeInv

-----------------------------------------------------------------------------
(* The locks                                                                 *)

\* Two threads are never inside the critical sections of one lock.
LEMMA QueueFacts ==
  ASSUME LockInv, NEW w \in Workers
  PROVE  /\ main.pc = "emplace" => worker[w].pc # "taking"
         /\ \A v \in Workers : worker[v].pc = "taking" /\ worker[w].pc = "taking" => v = w
<1>1. "queue" \in Locks BY DEF Locks
<1>2. "emplace" \notin DOMAIN AfterUnlock BY AfterUnlockFacts
<1>3. /\ main.pc = "emplace" => mutex["queue"] = Main
      /\ \A v \in Workers : worker[v].pc = "taking" => mutex["queue"] = v
  BY <1>1, <1>2 DEF LockInv, InLock, InLockW
<1>4. QED BY <1>3, LifecycleAssumption

\* main takes a lock that is free, gives back the one it has, or keeps to where it is.
LEMMA MainLocks ==
  ASSUME LockInv, worker' = worker,
         \/ \E m \in Locks : Lock(m, Main) /\ InLock(main.pc) = "none" /\ InLock(main'.pc) = m
         \/ \E m \in Locks : Unlock(m) /\ InLock(main.pc) = m /\ InLock(main'.pc) = "none"
         \/ mutex' = mutex /\ InLock(main.pc) = InLock(main'.pc)
  PROVE  LockInv'
<1> DEFINE Holds(m) == /\ mutex[m] = Main <=> InLock(main.pc) = m
                       /\ \A w \in Workers : mutex[m] = w <=> InLockW(worker[w].pc) = m
<1>0. /\ mutex \in [Locks -> Workers \cup {Main, NoThread}]
      /\ \A m \in Locks : Holds(m)
      /\ "none" \notin Locks
  BY DEF LockInv, Locks
<1>1. mutex' \in [Locks -> Workers \cup {Main, NoThread}] /\ \A m \in Locks : Holds(m)'
  BY <1>0, LifecycleAssumption DEF Lock, Unlock
<1>2. QED BY <1>1 DEF LockInv

\* A worker does.
LEMMA WorkerLocks ==
  ASSUME LockInv, main' = main, NEW w \in Workers,
         \A v \in Workers : v # w => worker'[v].pc = worker[v].pc,
         LET old == InLockW(worker[w].pc)
             new == InLockW(worker'[w].pc)
         IN  \/ \E m \in Locks : Lock(m, w) /\ old = "none" /\ new = m
             \/ \E m \in Locks : Unlock(m) /\ old = m /\ new = "none"
             \/ mutex' = mutex /\ old = new
  PROVE  LockInv'
<1> DEFINE Holds(m) == /\ mutex[m] = Main <=> InLock(main.pc) = m
                       /\ \A v \in Workers : mutex[m] = v <=> InLockW(worker[v].pc) = m
<1>0. /\ mutex \in [Locks -> Workers \cup {Main, NoThread}]
      /\ \A m \in Locks : Holds(m)
      /\ "none" \notin Locks
  BY DEF LockInv, Locks
<1>1. mutex' \in [Locks -> Workers \cup {Main, NoThread}] /\ \A m \in Locks : Holds(m)'
  BY <1>0, LifecycleAssumption DEF Lock, Unlock
<1>2. QED BY <1>1 DEF LockInv


\* Everybody keeps to where it is.
LEMMA SameLocks ==
  ASSUME LockInv, mutex' = mutex, InLock(main'.pc) = InLock(main.pc),
         \A w \in Workers : InLockW(worker'[w].pc) = InLockW(worker[w].pc)
  PROVE  LockInv'
BY DEF LockInv

\* The places main has a lock at, by lock.
LEMMA InLockFacts ==
  /\ \A pc \in DOMAIN AfterUnlock : InLock(pc) = "connections"
  /\ InLock("emplace") = "queue" /\ InLock("announcing") = "log"
  /\ \A pc \in EarlyPC \cup LatePC \cup {"destruct", "check limit", "create", "insert", "register",
                "find", "event", "erase", "submit", "announce", "loop", "poll", "batch", "accept",
                "notify"} :
       InLock(pc) = "none"
BY AfterUnlockFacts DEF InLock, EarlyPC, LatePC

\* Plain steps.
LEMMA PlainLocks ==
  ASSUME MainType, LockInv, PlainStep
  PROVE  LockInv'
<1>0. worker' = worker BY PlainSteps DEF PlainFacts
<1>h. "connections" \in Locks /\ "log" \in Locks BY DEF Locks
<1> USE InLockFacts, AfterUnlockFacts
<1>1. CASE InstallSignalHandlers
  <2>1. main.pc = "install" /\ mutex' = mutex /\ main'.pc \in {"setup"}
    BY <1>1 DEF InstallSignalHandlers, At, MainType, Goto
  <2>2. QED BY <1>0, <1>h, <2>1, SameLocks DEF EarlyPC
<1>2. CASE Announce
  <2>1. main.pc = "announce" /\ Lock("log", Main) /\ main'.pc \in {"announcing"}
    BY <1>2 DEF Announce, At, MainType, Goto
  <2>2. QED BY <1>0, <1>h, <2>1, MainLocks
<1>3. CASE Announced
  <2>1. main.pc = "announcing" /\ Unlock("log") /\ main'.pc \in {"loop"}
    BY <1>3 DEF Announced, At, MainType, Goto
  <2>2. QED BY <1>0, <1>h, <2>1, MainLocks
<1>4. CASE TestRunning
  <2>1. main.pc = "loop" /\ mutex' = mutex /\ main'.pc \in {"poll", "destruct"}
    BY <1>4 DEF TestRunning, At, MainType, Goto, LeaveLoop
  <2>2. QED BY <1>0, <1>h, <2>1, SameLocks
<1>5. CASE Poll
  <2>1. main.pc = "poll" /\ mutex' = mutex /\ main'.pc \in {"loop", "batch", "destruct"}
    BY <1>5 DEF Poll, At, MainType, Goto, LeaveLoop
  <2>2. QED BY <1>0, <1>h, <2>1, SameLocks
<1>6. CASE NextEvent
  <2>1. main.pc = "batch" /\ mutex' = mutex /\ main'.pc \in {"accept", "find", "loop"}
    BY <1>6 DEF NextEvent, At, MainType, Goto
  <2>2. QED BY <1>0, <1>h, <2>1, SameLocks
<1>7. CASE Sweep
  <2>1. main.pc = "batch" /\ Lock("connections", Main) /\ main'.pc \in {"swept"}
    BY <1>7 DEF Sweep, At, MainType, Goto, GotoWith
  <2>2. QED BY <1>0, <1>h, <2>1, MainLocks
<1>8. CASE Accept
  <2>1. main.pc = "accept" /\ mutex' = mutex /\ main'.pc \in {"check limit", "batch"}
    BY <1>8 DEF Accept, At, MainType, Goto, GotoWith
  <2>2. QED BY <1>0, <1>h, <2>1, SameLocks
<1>9. CASE CheckLimit
  <2>1. main.pc = "check limit" /\ Lock("connections", Main) /\ main'.pc \in {"checked"}
    BY <1>9 DEF CheckLimit, At, MainType, Goto
  <2>2. QED BY <1>0, <1>h, <2>1, MainLocks
<1>10. CASE CreateConnection
  <2>1. main.pc = "create" /\ mutex' = mutex /\ main'.pc \in {"insert", "destruct"}
    BY <1>10 DEF CreateConnection, At, MainType, Goto, Throw
  <2>2. QED BY <1>0, <1>h, <2>1, SameLocks
<1>11. CASE Insert
  <2>1. main.pc = "insert" /\ Lock("connections", Main) /\ main'.pc \in {"inserted"}
    BY <1>11 DEF Insert, At, MainType, Goto
  <2>2. QED BY <1>0, <1>h, <2>1, MainLocks
<1>12. CASE Register
  <2>1. main.pc = "register" /\ mutex' = mutex /\ main'.pc \in {"accept"}
    BY <1>12 DEF Register, At, MainType, Goto, GotoWith
  <2>2. QED BY <1>0, <1>h, <2>1, SameLocks
<1>13. CASE Find
  <2>1. main.pc = "find" /\ Lock("connections", Main) /\ main'.pc \in {"found", "not found"}
    BY <1>13 DEF Find, At, MainType, Goto
  <2>2. QED BY <1>0, <1>h, <2>1, MainLocks
<1>14. CASE UnlockConnections
  <2>1. main.pc \in DOMAIN AfterUnlock /\ Unlock("connections")
        /\ main'.pc \in {"erase", "create", "register", "event", "batch"}
    BY <1>14 DEF UnlockConnections, MainType, Goto, GotoWith
  <2>2. QED BY <1>0, <1>h, <2>1, MainLocks
<1>15. CASE Event
  <2>1. main.pc = "event" /\ mutex' = mutex /\ main'.pc \in {"erase", "submit"}
    BY <1>15 DEF Event, At, MainType, Goto
  <2>2. QED BY <1>0, <1>h, <2>1, SameLocks
<1>16. CASE Erase
  <2>1. main.pc = "erase" /\ Lock("connections", Main) /\ main'.pc \in {"erased"}
    BY <1>16 DEF Erase, At, MainType, Goto
  <2>2. QED BY <1>0, <1>h, <2>1, MainLocks
<1>17. QED BY <1>1, <1>2, <1>3, <1>4, <1>5, <1>6, <1>7, <1>8, <1>9, <1>10, <1>11, <1>12, <1>13,
      <1>14, <1>15, <1>16 DEF PlainStep

\* Every step.
LEMMA LocksKept ==
  ASSUME TypeInv, LockInv, OrderInv, QuietInv, [Next]_vars
  PROVE  LockInv'
<1> USE DEF TypeInv
<1>1. CASE MainStep
  <2>1. CASE PlainStep BY <2>1, PlainLocks
  <2>2. CASE Construct
    <3>1. main.pc = "construct" /\ main'.pc \in {"install", "unpool"} /\ mutex' = mutex
      BY <2>2 DEF Construct, At, Goto, MainType
    <3>2. \A w \in Workers : worker[w].pc = "unborn" /\ worker'[w].pc = "idle"
      BY <2>2, <3>1, ConstructFacts DEF QuietInv
    <3>3. QED BY <3>1, <3>2, InLockFacts, SameLocks DEF InLockW, EarlyPC, LatePC
  <2>3. CASE NotifyOne
    <3>1. main.pc = "notify" /\ main'.pc = "batch" /\ mutex' = mutex
      BY <2>3 DEF NotifyOne, At, Goto, MainType
    <3>2. \A w \in Workers : InLockW(worker'[w].pc) = InLockW(worker[w].pc)
      BY <2>3, NotifyFacts DEF InLockW
    <3>3. QED BY <3>1, <3>2, InLockFacts, SameLocks
  <2>4. CASE Submit
    <3>1. main.pc = "submit" /\ worker' = worker BY <2>4 DEF Submit, At
    <3>2. \/ Lock("queue", Main) /\ main'.pc = "emplace"
          \/ mutex' = mutex /\ main'.pc = "destruct"
      BY <2>4 DEF Submit, Lock, Goto, Throw, MainType
    <3>3. QED BY <3>1, <3>2, InLockFacts, MainLocks DEF Locks
  <2>5. CASE Emplace
    <3>1. main.pc = "emplace" /\ worker' = worker /\ Unlock("queue") /\ main'.pc = "notify"
      BY <2>5 DEF Emplace, At, GotoWith, MainType
    <3>2. QED BY <3>1, InLockFacts, MainLocks DEF Locks
  <2>6. CASE Configure \/ Setup \/ SetRunning \/ Destruct \/ DestroyConnections \/ Exit
    <3>1. /\ main.pc \in EarlyPC \cup LatePC \cup {"destruct"}
          /\ main'.pc \in EarlyPC \cup LatePC \cup {"destruct", "announce"}
          /\ mutex' = mutex /\ worker' = worker
      BY <2>6 DEF Configure, Setup, SetRunning, Destruct, DestroyConnections, Exit, At, Goto, Throw,
                  MainType, EarlyPC, LatePC
    <3>2. QED BY <3>1, InLockFacts, SameLocks
  <2>7. QED BY <1>1, <2>1, <2>2, <2>3, <2>4, <2>5, <2>6, MainSplit DEF MainCases
<1>2. ASSUME NEW a \in Actors, StopStep(a) PROVE LockInv'
  <2>1. /\ mutex' = mutex
        /\ worker' = worker \/ PoolNotifyAll(a)
    BY <1>2 DEF StopStep, StopLoad, StopStore, StopLog, StopCloseAll, StopCloseEpoll,
                StopCloseListener, PoolStop, PoolNotifyAll, PoolJoin, StopEnd
  <2>2. \A w \in Workers : InLockW(worker'[w].pc) = InLockW(worker[w].pc)
    <3>1. CASE PoolNotifyAll(a)
      <4>1. Waiting \subseteq Workers /\ \A w \in Waiting : worker[w].pc = "waiting" BY DEF Waiting
      <4>2. \A v \in Workers : worker'[v].pc = IF v \in Waiting THEN "idle" ELSE worker[v].pc
        BY <3>1, <4>1, WakeFacts DEF PoolNotifyAll
      <4>3. InLockW("idle") = "none" /\ InLockW("waiting") = "none" BY DEF InLockW
      <4>4. QED BY <4>1, <4>2, <4>3
    <3>2. QED BY <2>1, <3>1
  <2>3. InLock(main'.pc) = InLock(main.pc)
    <3>1. CASE Return(a)
      <4>1. CASE a = "handler" BY <3>1, <4>1, ReturnFacts
      <4>2. CASE a = "main"
        <5>1. stopper["main"] # "none"
          BY <1>2, <4>2 DEF StopStep, StopLoad, StopStore, StopLog, StopCloseAll, StopCloseEpoll,
                StopCloseListener, PoolStop, PoolNotifyAll, PoolJoin, StopEnd, Doing
        <5>2. main.pc \in {"destruct", "unpool"} BY <5>1 DEF OrderInv
        <5>3. main'.pc \in {"unmap", "gone"} BY <3>1, <4>2, ReturnFacts
        <5>4. QED BY <5>2, <5>3, InLockFacts DEF LatePC
      <4>3. QED BY <4>1, <4>2 DEF Actors
    <3>2. CASE ~Return(a) BY <1>2, <3>2, StopMoves
    <3>3. QED BY <3>1, <3>2
  <2>4. QED BY <2>1, <2>2, <2>3, SameLocks
<1>3. ASSUME NEW w \in Workers, WorkerStep(w) PROVE LockInv'
  <2>1. CASE TakeTask(w)
    <3>1. /\ main' = main /\ worker[w].pc = "taking" /\ Unlock("queue")
          /\ worker'[w].pc \in {"exited", "log"}
          /\ \A v \in Workers \ {w} : worker'[v] = worker[v]
      BY <2>1, TakeFacts DEF TakeTask
    <3>2. QED BY <3>1, WorkerLocks DEF InLockW, Locks
  <2>2. CASE ~TakeTask(w)
    <3>1. main' = main /\ \A v \in Workers : v # w => worker'[v].pc = worker[v].pc
      BY <1>3, <2>2, WorkerMoveFacts
    <3>2. LET old == InLockW(worker[w].pc)
              new == InLockW(worker'[w].pc)
          IN  \/ \E m \in Locks : Lock(m, w) /\ old = "none" /\ new = m
              \/ \E m \in Locks : Unlock(m) /\ old = m /\ new = "none"
              \/ mutex' = mutex /\ old = new
      <4>1. /\ InLockW("erased") = "connections" /\ InLockW("logging") = "log"
            /\ \A pc \in {"sleeping", "taking"} : InLockW(pc) = "queue"
            /\ \A pc \in {"idle", "waiting", "log", "serve", "erase"} : InLockW(pc) = "none"
        BY DEF InLockW
      <4>2. \A pc : GotoW(w, pc) => worker'[w].pc = pc BY GotoWFacts
      <4>3. CASE AwaitTask(w)
        <5>1. worker[w].pc = "idle" /\ Lock("queue", w) /\ worker'[w].pc \in {"taking", "sleeping"}
          BY <4>2, <4>3 DEF AwaitTask
        <5>2. QED BY <4>1, <5>1 DEF Locks
      <4>4. CASE Sleep(w)
        <5>1. worker[w].pc = "sleeping" /\ Unlock("queue") /\ worker'[w].pc = "waiting"
          BY <4>2, <4>4 DEF Sleep
        <5>2. QED BY <4>1, <5>1 DEF Locks
      <4>5. CASE LogAccess(w)
        <5>1. worker[w].pc = "log" /\ Lock("log", w) /\ worker'[w].pc = "logging"
          BY <4>2, <4>5 DEF LogAccess
        <5>2. QED BY <4>1, <5>1 DEF Locks
      <4>6. CASE Logged(w)
        <5>1. worker[w].pc = "logging" /\ Unlock("log") /\ worker'[w].pc = "serve"
          BY <4>2, <4>6 DEF Logged
        <5>2. QED BY <4>1, <5>1 DEF Locks
      <4>7. CASE Serve(w)
        <5>1. worker[w].pc = "serve" /\ mutex' = mutex /\ worker'[w].pc \in {"idle", "erase"}
          BY <4>2, <4>7 DEF Serve
        <5>2. QED BY <4>1, <5>1
      <4>8. CASE RemoveConnection(w)
        <5>1. worker[w].pc = "erase" /\ Lock("connections", w) /\ worker'[w].pc = "erased"
          BY <4>2, <4>8 DEF RemoveConnection
        <5>2. QED BY <4>1, <5>1 DEF Locks
      <4>9. CASE Removed(w)
        <5>1. worker[w].pc = "erased" /\ Unlock("connections") /\ worker'[w].pc = "idle"
          BY <4>2, <4>9 DEF Removed
        <5>2. QED BY <4>1, <5>1 DEF Locks
      <4>10. QED BY <1>3, <2>2, <4>3, <4>4, <4>5, <4>6, <4>7, <4>8, <4>9 DEF WorkerStep
    <3>3. QED BY <3>1, <3>2, WorkerLocks
  <2>3. QED BY <2>1, <2>2
<1>4. CASE JoinItself \/ (\E t \in Victims : Interrupt(t)) \/ UNCHANGED vars
           \/ (\E c \in Clients : Connect(c) \/ HangUp(c))
  <2>1. UNCHANGED <<main, worker, mutex>> BY <1>4 DEF JoinItself, Interrupt, Connect, HangUp, vars
  <2>2. QED BY <2>1, SameLocks
<1>5. QED BY <1>1, <1>2, <1>3, <1>4 DEF Next

-----------------------------------------------------------------------------
(* The order of the steps                                                    *)

\* main takes its own stop, or ~ThreadPool's, to pc.
MainStops(pc) == stopper'["main"] = pc /\ stopper'["handler"] = stopper["handler"]

\* The special steps of main, field by field.
LEMMA SpecialSteps ==
  ASSUME MainType, StopTypes, MainStep, ~PlainStep
  PROVE  /\ MainRuns
         /\ \/ /\ Configure /\ main.pc = "configure"
               /\ \/ main'.pc = "construct" /\ main'.failed = main.failed
                  \/ main'.pc = "gone"
               /\ UNCHANGED <<stopper, signal, running, fds, pool, worker, outcome>>
            \/ /\ Construct /\ main.pc = "construct"
               /\ \/ main'.pc = "install" /\ main'.failed = main.failed /\ stopper' = stopper
                  \/ main'.pc = "unpool" /\ MainStops("stop")
               /\ UNCHANGED <<signal, running, fds, pool, outcome>>
            \/ /\ Setup /\ main.pc = "setup"
               /\ \/ main'.pc = "set running" /\ main'.failed = main.failed
                  \/ main'.pc = "destruct" /\ main'.failed = "setup"
               /\ UNCHANGED <<stopper, signal, running, pool, worker, outcome>>
            \/ /\ main.pc = "set running" /\ main'.pc = "announce" /\ main'.failed = main.failed
               /\ running' = TRUE /\ UNCHANGED <<stopper, signal, fds, pool, worker, outcome>>
            \/ /\ main.pc = "submit"
               /\ \/ main'.pc = "emplace" /\ main'.failed = main.failed /\ Accepts
                  \/ main'.pc = "destruct"
               /\ UNCHANGED <<stopper, signal, running, fds, pool, worker, outcome>>
            \/ /\ Emplace /\ main.pc = "emplace" /\ main'.pc = "notify" /\ main'.failed = main.failed
               /\ UNCHANGED <<stopper, signal, running, fds, worker, outcome>>
            \/ /\ NotifyOne /\ main.pc = "notify" /\ main'.pc = "batch" /\ main'.failed = main.failed
               /\ UNCHANGED <<stopper, signal, running, fds, pool, outcome>>
            \/ /\ main.pc = "destruct" /\ main' = main /\ stopper["main"] = "none"
               /\ MainStops("load")
               /\ UNCHANGED <<signal, running, fds, pool, worker, outcome>>
            \/ /\ DestroyConnections /\ main.pc = "unmap" /\ main'.pc = "unpool"
               /\ main'.failed = main.failed
               /\ MainStops("stop")
               /\ UNCHANGED <<signal, running, fds, pool, worker, outcome>>
            \/ /\ Exit /\ main.pc = "gone" /\ main' = main
               /\ UNCHANGED <<stopper, signal, running, fds, pool, worker>>
<1> USE DEF MainType, StopTypes, Actors, MainStops, At, Goto, GotoWith
<1>1. CASE Configure BY <1>1 DEF Configure
<1>2. CASE Construct BY <1>2 DEF Construct
<1>3. CASE Setup BY <1>3 DEF Setup, Throw
<1>4. CASE SetRunning BY <1>4 DEF SetRunning
<1>5. CASE Submit BY <1>5 DEF Submit, Throw
<1>6. CASE Emplace BY <1>6 DEF Emplace
<1>7. CASE NotifyOne BY <1>7 DEF NotifyOne
<1>8. CASE Destruct BY <1>8 DEF Destruct
<1>9. CASE DestroyConnections BY <1>9 DEF DestroyConnections
<1>10. CASE Exit BY <1>10 DEF Exit
<1>11. QED
  BY <1>1, <1>2, <1>3, <1>4, <1>5, <1>6, <1>7, <1>8, <1>9, <1>10, MainSplit DEF MainCases

\* The steps of a stop do what their names say to running_, to the pool and to the
\* descriptors.
LEMMA StopSteps ==
  ASSUME MainType, StopTypes, PoolType, NEW a \in Actors, StopStep(a)
  PROVE  /\ outcome = "alive" /\ outcome' = outcome /\ (a = "main" => MainRuns)
         /\ \/ /\ Return(a)
               /\ (stopper[a] = "load" /\ ~running) \/ stopper[a] = "end"
               /\ UNCHANGED <<running, fds, pool, worker>>
            \/ /\ stopper[a] = "load" /\ stopper'[a] = "store" /\ running
               /\ UNCHANGED <<running, fds, pool, worker>>
            \/ /\ stopper[a] = "store" /\ stopper'[a] = "log" /\ running' = FALSE
               /\ UNCHANGED <<fds, pool, worker>>
            \/ /\ stopper[a] = "log" /\ stopper'[a] = "close all"
               /\ UNCHANGED <<running, fds, pool, worker>>
            \/ /\ stopper[a] = "close all" /\ stopper'[a] = "close epoll"
               /\ UNCHANGED <<running, fds, pool, worker>>
            \/ /\ stopper[a] = "close epoll" /\ stopper'[a] = "close listener"
               /\ fds' = fds \ {"epoll"} /\ UNCHANGED <<running, pool, worker>>
            \/ /\ stopper[a] = "close listener" /\ stopper'[a] = "stop"
               /\ fds' = fds \ {"listener"} /\ UNCHANGED <<running, pool, worker>>
            \/ /\ stopper[a] = "stop" /\ stopper'[a] = "notify all"
               /\ pool'.stop = TRUE /\ pool'.tasks = pool.tasks /\ pool'.joined = pool.joined
               /\ UNCHANGED <<running, fds, worker>>
            \/ /\ stopper[a] = "notify all" /\ stopper'[a] = "join" /\ PoolNotifyAll(a)
               /\ pool'.stop = pool.stop /\ pool'.tasks = pool.tasks /\ pool'.joined = pool.joined
               /\ UNCHANGED <<running, fds>>
            \/ /\ stopper[a] = "join" /\ stopper'[a] = "end"
               /\ \A w \in Workers : worker[w].pc = "exited"
               /\ pool'.stop = pool.stop /\ pool'.tasks = pool.tasks /\ pool'.joined = TRUE
               /\ UNCHANGED <<running, fds, worker>>
         /\ ~Return(a) => /\ UNCHANGED <<main, signal>>
                          /\ \A b \in Actors : b # a => stopper'[b] = stopper[b]
<1> USE DEF StopTypes, PoolType, Doing, Proceed, netVars
<1>1. CASE StopLoad(a) BY <1>1 DEF StopLoad, Return
<1>2. CASE StopStore(a) BY <1>2 DEF StopStore
<1>3. CASE StopLog(a) BY <1>3 DEF StopLog
<1>4. CASE StopCloseAll(a) BY <1>4 DEF StopCloseAll
<1>5. CASE StopCloseEpoll(a) BY <1>5 DEF StopCloseEpoll
<1>6. CASE StopCloseListener(a) BY <1>6 DEF StopCloseListener, ShutPoolDown
<1>7. CASE PoolStop(a) BY <1>7 DEF PoolStop
<1>8. CASE PoolNotifyAll(a) BY <1>8 DEF PoolNotifyAll
<1>9. CASE PoolJoin(a) BY <1>9 DEF PoolJoin
<1>10. CASE StopEnd(a) BY <1>10 DEF StopEnd
<1>11. QED
  BY <1>1, <1>2, <1>3, <1>4, <1>5, <1>6, <1>7, <1>8, <1>9, <1>10 DEF StopStep

\* A worker, as far as main and the stops are concerned.
LEMMA WorkerSteps ==
  ASSUME WorkerType, PoolType, NEW w \in Workers, WorkerStep(w)
  PROVE  /\ UNCHANGED <<main, stopper, signal, running, fds, leaked, outcome>> /\ signal.thread # w
         /\ pool'.stop = pool.stop /\ pool'.joined = pool.joined
         /\ pool.tasks = <<>> => pool'.tasks = <<>>
         /\ \A v \in Workers : v # w => worker'[v].pc = worker[v].pc
         /\ worker[w].pc # "unborn" /\ worker[w].pc # "exited"
         /\ \/ TakeTask(w) /\ worker[w].pc = "taking"
               /\ worker'[w].pc = IF pool.tasks = <<>> THEN "exited" ELSE "log"
            \/ /\ pool' = pool /\ worker'[w].pc # "exited" /\ worker[w].pc # "taking"
               /\ worker'[w].pc = "taking" => WaitIsOver
               /\ worker'[w].pc \in WorkingPC => worker[w].pc \in WorkingPC
<1>1. signal.thread # w
  BY DEF WorkerStep, WorkerRuns, AwaitTask, Sleep, TakeTask, LogAccess, Logged, Serve,
         RemoveConnection, Removed
<1>2. CASE TakeTask(w)
  <2>1. worker[w].pc = "taking"
        /\ UNCHANGED <<main, stopper, signal, running, fds, leaked, outcome>>
    BY <1>2 DEF TakeTask, netVars
  <2>2. QED BY <1>1, <1>2, <2>1, TakeFacts
<1>3. CASE ~TakeTask(w) BY <1>1, <1>3, WorkerMoveFacts
<1>4. QED BY <1>2, <1>3

\* A signal.
LEMMA InterruptFacts ==
  ASSUME StopTypes, NEW t \in Victims, Interrupt(t)
  PROVE  /\ signal.thread = NoThread /\ signal'.thread = t /\ t # NoThread
         /\ t \in Workers => worker[t].pc # "exited"
         /\ stopper'["handler"] = "load" /\ stopper'["main"] = stopper["main"]
         /\ UNCHANGED <<main, running, fds, pool, worker, netVars, outcome>>
         /\ outcome = "alive"
BY LifecycleAssumption DEF Interrupt, StopTypes, Actors

\* The rest leaves the threads alone.
RestFacts == UNCHANGED <<main, stopper, signal, running, fds, pool, worker>>

\* What the plain steps of main leave alone.
LEMMA RestSteps ==
  ASSUME JoinItself \/ UNCHANGED vars \/ (\E c \in Clients : Connect(c) \/ HangUp(c))
  PROVE  RestFacts /\ outcome' \in {outcome, "aborted"}
BY DEF JoinItself, Connect, HangUp, vars, netVars, RestFacts

\* OrderInv is preserved.
LEMMA OrderKept ==
  ASSUME TypeInv, OrderInv, QuietInv, [Next]_vars
  PROVE  OrderInv'
<1> USE DEF TypeInv
<1>0. Actors = {"handler", "main"} BY DEF Actors
<1>1. CASE MainStep
  <2>1. CASE PlainStep
    <3>1. PlainFacts BY <2>1, PlainSteps
    <3>2. main.pc \notin {"destruct", "unpool", "gone"} \cup LatePC
           /\ main'.pc # "unpool" /\ main'.pc # "gone"
      BY <3>1 DEF PlainFacts, LoopPC, HandPC, LatePC
    <3>3. QED BY <1>0, <3>1, <3>2 DEF OrderInv, PlainFacts, LatePC
  <2>2. CASE ~PlainStep
    <3>1. outcome = "alive" /\ signal.thread # Main
      BY <1>1, <2>2, SpecialSteps DEF MainRuns
    <3>2. CASE main.pc \in {"configure", "setup", "set running", "submit", "emplace"}
      <4>1. /\ UNCHANGED <<stopper, signal, worker, outcome>>
            /\ main'.pc \notin {"unpool"}
                  /\ (main'.failed = main.failed \/ main'.pc \in {"destruct", "gone"})
        BY <1>1, <2>2, <3>2, SpecialSteps
      <4>2. pool'.joined = pool.joined BY <1>1, <2>2, <3>2, SpecialSteps, EmplaceFacts
      <4>3. stopper["main"] = "none" /\ main.failed = "no" BY <3>2 DEF OrderInv, LatePC
      <4>4. QED BY <1>0, <3>1, <4>1, <4>2, <4>3 DEF OrderInv, LatePC
    <3>3. CASE main.pc = "construct"
      <4>1. signal.thread \notin Workers \/ \A w \in Workers : worker'[w].pc # "exited"
        BY <1>1, <2>2, <3>3, SpecialSteps, ConstructFacts
      <4>2. QED BY <1>0, <1>1, <2>2, <3>1, <3>3, <4>1, SpecialSteps DEF OrderInv, LatePC, MainStops
    <3>4. CASE main.pc = "notify"
      <4>1. \A w \in Workers : worker[w].pc # "exited" => worker'[w].pc # "exited"
        BY <1>1, <2>2, <3>4, SpecialSteps, NotifyFacts
      <4>2. QED BY <1>0, <1>1, <2>2, <3>1, <3>4, <4>1, SpecialSteps DEF OrderInv, LatePC
    <3>5. CASE main.pc = "destruct"
      BY <1>0, <1>1, <2>2, <3>1, <3>5, SpecialSteps DEF OrderInv, LatePC, MainStops
    <3>6. CASE main.pc = "unmap"
      BY <1>0, <1>1, <2>2, <3>1, <3>6, SpecialSteps DEF OrderInv, LatePC, MainStops
    <3>7. CASE main.pc = "gone"
      BY <1>0, <1>1, <2>2, <3>1, <3>7, SpecialSteps DEF OrderInv, LatePC
    <3>8. QED BY <1>1, <2>2, <3>2, <3>3, <3>4, <3>5, <3>6, <3>7, SpecialSteps
  <2>3. QED BY <2>1, <2>2
<1>2. ASSUME NEW a \in Actors, StopStep(a) PROVE OrderInv'
  <2>0. outcome = "alive" /\ outcome' = "alive" BY <1>2, StopSteps
  <2>1. \A w \in Workers : worker[w].pc # "exited" => worker'[w].pc # "exited"
    <3>1. CASE PoolNotifyAll(a)
      <4>1. Waiting \subseteq Workers BY DEF Waiting
      <4>2. \A v \in Workers : worker'[v].pc = IF v \in Waiting THEN "idle" ELSE worker[v].pc
        BY <3>1, <4>1, WakeFacts DEF PoolNotifyAll
      <4>3. QED BY <4>2
    <3>2. CASE UNCHANGED worker BY <3>2
    <3>3. QED BY <1>2, <3>1, <3>2, StopSteps
  <2>2. CASE Return(a)
    <3>1. CASE a = "handler"
      <4>1. main' = main /\ signal'.thread = NoThread /\ stopper'["handler"] = "none"
            /\ stopper'["main"] = stopper["main"] /\ pool' = pool
        BY <1>0, <1>2, <2>2, <3>1, StopSteps, ReturnFacts
      <4>2. NoThread \notin Workers BY LifecycleAssumption
      <4>3. QED BY <1>0, <2>0, <4>1, <4>2 DEF OrderInv
    <3>2. CASE a = "main"
      <4>1. main.pc \in {"destruct", "unpool"} BY <1>2, <2>2, <3>2, StopSteps DEF OrderInv
      <4>2. main'.pc \in {"unmap", "gone"} /\ stopper'["main"] = "none"
            /\ stopper'["handler"] = stopper["handler"] /\ signal' = signal /\ pool' = pool
        BY <1>0, <1>2, <2>2, <3>2, StopSteps, ReturnFacts
      <4>3. QED BY <1>0, <2>0, <2>1, <4>1, <4>2 DEF OrderInv, LatePC
    <3>3. QED BY <1>0, <3>1, <3>2
  <2>3. CASE ~Return(a)
    <3>1. UNCHANGED <<main, signal>> /\ \A b \in Actors : b # a => stopper'[b] = stopper[b]
      BY <1>2, <2>3, StopSteps
    <3>2. <<stopper[a], stopper'[a]>> \in
              {<<"load", "store">>, <<"store", "log">>, <<"log", "close all">>,
               <<"close all", "close epoll">>, <<"close epoll", "close listener">>,
               <<"close listener", "stop">>, <<"stop", "notify all">>, <<"notify all", "join">>,
               <<"join", "end">>}
      BY <1>2, <2>3, StopMoves
    <3>3. stopper'[a] = "end" => pool'.joined BY <1>2, <2>3, StopSteps
    <3>4. pool.joined => pool'.joined BY <1>2, <2>3, StopSteps
    <3>5. main.pc = "unpool" /\ a = "main" =>
            stopper'["main"] \in {"stop", "notify all", "join", "end"}
      BY <3>2 DEF OrderInv
    <3>6. \A b \in Actors : stopper'[b] = "end" => pool'.joined BY <3>1, <3>3, <3>4 DEF OrderInv
    <3>7. /\ stopper'["main"] # "none" => stopper["main"] # "none"
          /\ stopper'["handler"] = "none" <=> stopper["handler"] = "none"
      BY <1>0, <3>1, <3>2
    <3>8. QED BY <1>0, <2>0, <2>1, <3>1, <3>5, <3>6, <3>7 DEF OrderInv
  <2>4. QED BY <2>2, <2>3
<1>3. ASSUME NEW w \in Workers, WorkerStep(w) PROVE OrderInv'
  BY <1>3, WorkerSteps DEF OrderInv
<1>4. ASSUME NEW t \in Victims, Interrupt(t) PROVE OrderInv'
  BY <1>0, <1>4, InterruptFacts DEF OrderInv
<1>5. CASE JoinItself \/ UNCHANGED vars \/ (\E c \in Clients : Connect(c) \/ HangUp(c))
  <2>1. RestFacts /\ outcome' \in {outcome, "aborted"} BY <1>5, RestSteps
  <2>2. QED BY <2>1 DEF OrderInv, RestFacts
<1>6. QED BY <1>1, <1>2, <1>3, <1>4, <1>5 DEF Next

-----------------------------------------------------------------------------
(* Workers that have exited                                                  *)

\* A notification ends nobody's work and starts nobody's.
LEMMA NotifyAllFacts ==
  ASSUME WorkerType, NEW a \in Actors, PoolNotifyAll(a)
  PROVE  \A w \in Workers :
           worker'[w].pc = worker[w].pc \/ (worker[w].pc = "waiting" /\ worker'[w].pc = "idle")
<1>1. Waiting \subseteq Workers /\ \A w \in Waiting : worker[w].pc = "waiting" BY DEF Waiting
<1>2. \A v \in Workers : worker'[v].pc = IF v \in Waiting THEN "idle" ELSE worker[v].pc
  BY <1>1, WakeFacts DEF PoolNotifyAll
<1>3. QED BY <1>1, <1>2

\* QuietInv is preserved.
LEMMA QuietKept ==
  ASSUME TypeInv, LockInv, OrderInv, QuietInv, [Next]_vars
  PROVE  QuietInv'
<1> USE DEF TypeInv
<1>1. CASE MainStep
  <2>1. CASE PlainStep
    <3>1. PlainFacts BY <2>1, PlainSteps
    <3>2. main'.pc \notin {"configure", "construct"} BY <3>1 DEF PlainFacts, LoopPC, HandPC
    <3>3. QED BY <3>1, <3>2 DEF QuietInv, PlainFacts
  <2>2. CASE ~PlainStep
    <3>1. CASE main.pc = "configure" BY <1>1, <2>2, <3>1, SpecialSteps DEF QuietInv
    <3>2. CASE main.pc = "construct"
      <4>1. (\A w \in Workers : worker'[w].pc = "idle") /\ pool' = pool
            /\ main'.pc \in {"install", "unpool"}
        BY <1>1, <2>2, <3>2, SpecialSteps, ConstructFacts
      <4>2. PICK w \in Workers : TRUE BY LifecycleAssumption
      <4>3. ~pool.joined BY <3>2, <4>2 DEF QuietInv
      <4>4. QED BY <4>1, <4>3 DEF QuietInv
    <3>3. CASE main.pc \in {"setup", "set running", "destruct", "unmap", "gone"}
      <4>1. UNCHANGED <<pool, worker>> /\ main'.pc \notin {"configure", "construct", "emplace"}
        BY <1>1, <2>2, <3>3, SpecialSteps
      <4>2. QED BY <4>1 DEF QuietInv
    <3>4. CASE main.pc = "submit"
      <4>1. /\ UNCHANGED <<pool, worker>> /\ main'.pc \in {"emplace", "destruct"}
            /\ main'.pc = "emplace" => ~pool.stop
        BY <1>1, <2>2, <3>4, SpecialSteps DEF Accepts
      <4>2. QED BY <4>1 DEF QuietInv
    <3>5. CASE main.pc = "emplace"
      <4>1. /\ worker' = worker /\ main'.pc = "notify" /\ pool'.tasks # <<>>
            /\ pool'.stop = pool.stop /\ pool'.joined = pool.joined
        BY <1>1, <2>2, <3>5, SpecialSteps, EmplaceFacts
      <4>2. \A w \in Workers : worker[w].pc # "exited" BY <3>5 DEF QuietInv
      <4>3. QED BY <4>1, <4>2 DEF QuietInv
    <3>6. CASE main.pc = "notify"
      <4>1. /\ pool' = pool /\ main'.pc = "batch"
            /\ \A v \in Workers :
                 worker'[v].pc = worker[v].pc \/ (worker[v].pc = "waiting" /\ worker'[v].pc = "idle")
        BY <1>1, <2>2, <3>6, SpecialSteps, NotifyFacts
      <4>2. QED BY <4>1 DEF QuietInv
    <3>7. QED BY <1>1, <2>2, <3>1, <3>2, <3>3, <3>4, <3>5, <3>6, SpecialSteps
  <2>3. QED BY <2>1, <2>2
<1>2. ASSUME NEW a \in Actors, StopStep(a) PROVE QuietInv'
  <2>1. \/ main' = main
        \/ main.pc # "configure" /\ main.pc # "construct" /\ main'.pc \in {"unmap", "gone"}
    <3>1. CASE ~Return(a) BY <1>2, <3>1, StopSteps
    <3>2. CASE Return(a) /\ a = "handler" BY <3>2, ReturnFacts
    <3>3. CASE Return(a) /\ a = "main"
      <4>1. main.pc \in {"destruct", "unpool"} BY <1>2, <3>3, StopSteps DEF OrderInv
      <4>2. QED BY <3>3, <4>1, ReturnFacts
    <3>4. QED BY <3>1, <3>2, <3>3 DEF Actors
  <2>2. \A w \in Workers :
          worker'[w].pc = worker[w].pc \/ (worker[w].pc = "waiting" /\ worker'[w].pc = "idle")
    BY <1>2, StopSteps, NotifyAllFacts
  <2>3. /\ pool.stop => pool'.stop
        /\ pool'.tasks = pool.tasks
        /\ pool'.joined => pool.joined \/ (worker' = worker /\ \A w \in Workers : worker[w].pc = "exited")
    BY <1>2, StopSteps
  <2>4. QED BY <2>1, <2>2, <2>3 DEF QuietInv
<1>3. ASSUME NEW w \in Workers, WorkerStep(w) PROVE QuietInv'
  <2>0. ~pool.joined BY <1>3, WorkerSteps DEF QuietInv
  <2>1. CASE worker[w].pc = "taking"
    <3>1. /\ main' = main /\ pool'.stop = pool.stop /\ ~pool'.joined
          /\ pool.tasks = <<>> => pool'.tasks = <<>>
          /\ \A v \in Workers : v # w => worker'[v].pc = worker[v].pc
          /\ worker'[w].pc = IF pool.tasks = <<>> THEN "exited" ELSE "log"
      BY <1>3, <2>0, <2>1, WorkerSteps
    <3>2. main.pc # "emplace" /\ \A v \in Workers : v # w => worker[v].pc # "taking"
      BY <2>1, QueueFacts
    <3>3. pool.tasks = <<>> => pool.stop BY <2>1 DEF QuietInv
    <3>4. main.pc \notin {"configure", "construct"} BY <2>1 DEF QuietInv
    <3>5. QED BY <3>1, <3>2, <3>3, <3>4 DEF QuietInv
  <2>2. CASE worker[w].pc # "taking"
    <3>1. /\ main' = main /\ pool' = pool /\ worker[w].pc # "unborn"
          /\ \A v \in Workers : v # w => worker'[v].pc = worker[v].pc
          /\ worker'[w].pc # "exited"
          /\ worker'[w].pc = "taking" => pool.stop \/ pool.tasks # <<>>
      BY <1>3, <2>2, WorkerSteps DEF WaitIsOver
    <3>2. QED BY <2>0, <3>1 DEF QuietInv
  <2>3. QED BY <2>1, <2>2
<1>4. ASSUME NEW t \in Victims, Interrupt(t) PROVE QuietInv'
  BY <1>4, InterruptFacts DEF QuietInv
<1>5. CASE JoinItself \/ UNCHANGED vars \/ (\E c \in Clients : Connect(c) \/ HangUp(c))
  <2>1. RestFacts BY <1>5, RestSteps
  <2>2. QED BY <2>1 DEF QuietInv, RestFacts
<1>6. QED BY <1>1, <1>2, <1>3, <1>4, <1>5 DEF Next

-----------------------------------------------------------------------------
(* Stops and the service                                                     *)

\* The pool is idle when it was joined.
LEMMA JoinedIsIdle ==
  ASSUME QuietInv, pool.joined
  PROVE  Idle
<1>1. PICK w \in Workers : TRUE BY LifecycleAssumption
<1>2. pool.tasks = <<>> BY <1>1 DEF QuietInv
<1>3. Working = {} BY DEF QuietInv, Working
<1>4. QED BY <1>2, <1>3 DEF Idle

\* It stays so when neither a task nor a worker with a task is added.
LEMMA IdleKept ==
  ASSUME Idle, pool'.tasks = <<>>,
         \A w \in Workers : worker'[w].pc \in WorkingPC => worker[w].pc \in WorkingPC
  PROVE  Idle'
BY DEF Idle, Working, WorkingPC

\* SettledInv is preserved.
LEMMA SettledKept ==
  ASSUME TypeInv, LockInv, OrderInv, QuietInv, SettledInv, [Next]_vars
  PROVE  SettledInv'
<1> USE DEF TypeInv
<1>0. Actors = {"handler", "main"} BY DEF Actors
<1>1. CASE MainStep
  <2>1. CASE PlainStep
    <3>1. PlainFacts BY <2>1, PlainSteps
    <3>2. Idle' <=> Idle BY <3>1 DEF PlainFacts, Idle, Working
    <3>3. \A a \in Actors : Underway(a)' <=> Underway(a) BY <3>1 DEF PlainFacts, Underway
    <3>4. /\ "install" \in EarlyPC /\ "setup" \in EarlyPC
          /\ "install" \notin LoopPC /\ "setup" \notin LoopPC /\ "setup" \notin LatePC
          /\ \A pc \in LoopPC \cup {"destruct"} : pc \notin EarlyPC /\ pc \notin LatePC
      BY DEF EarlyPC, LatePC, LoopPC, HandPC
    <3>5. CASE main.pc = "install" /\ main'.pc = "setup"
      BY <3>1, <3>2, <3>3, <3>4, <3>5 DEF SettledInv, PlainFacts
    <3>6. CASE main.pc \in LoopPC /\ main'.pc \in LoopPC \cup {"destruct"}
      BY <3>1, <3>2, <3>3, <3>4, <3>6 DEF SettledInv, PlainFacts
    <3>7. QED BY <3>1, <3>5, <3>6 DEF PlainFacts
  <2>2. CASE ~PlainStep
    <3> USE DEF EarlyPC, LatePC, LoopPC, HandPC
    <3>1. CASE main.pc \in {"configure", "setup", "submit", "gone"}
      <4>1. /\ UNCHANGED <<stopper, signal, running, pool, worker>>
            /\ \/ main.pc = "configure" /\ main'.pc \in {"construct", "gone"}
               \/ main.pc = "setup" /\ main'.pc \in {"set running", "destruct"}
               \/ main.pc = "submit" /\ main'.pc \in {"emplace", "destruct"}
               \/ main.pc = "gone" /\ main'.pc = "gone"
        BY <1>1, <2>2, <3>1, SpecialSteps
      <4>2. /\ Idle' <=> Idle
            /\ \A a \in Actors : Underway(a)' <=> Underway(a)
        BY <4>1 DEF Idle, Working, Underway
      <4>3. CASE main.pc = "submit" BY <1>0, <4>1, <4>2, <4>3 DEF SettledInv
      <4>4. CASE main.pc # "submit" BY <1>0, <3>1, <4>1, <4>2, <4>4 DEF SettledInv
      <4>5. QED BY <4>3, <4>4
    <3>2. CASE main.pc = "construct"
      <4>1. /\ UNCHANGED <<signal, running, pool>> /\ \A w \in Workers : worker'[w].pc = "idle"
            /\ \/ main'.pc = "install" /\ stopper' = stopper
               \/ main'.pc = "unpool" /\ MainStops("stop")
        BY <1>1, <2>2, <3>2, SpecialSteps, ConstructFacts
      <4>2. ~running /\ Idle /\ \A a \in Actors : stopper[a] \in {"none", "load"}
        BY <3>2 DEF SettledInv
      <4>3. Idle' BY <4>1, <4>2 DEF Idle, Working
      <4>4. QED BY <1>0, <4>1, <4>2, <4>3 DEF SettledInv, MainStops
    <3>3. CASE main.pc = "set running"
      <4>1. UNCHANGED <<stopper, signal>> /\ running' = TRUE /\ main'.pc = "announce"
        BY <1>1, <2>2, <3>3, SpecialSteps
      <4>2. \A a \in Actors : stopper[a] \in {"none", "load"} BY <3>3 DEF SettledInv
      <4>3. QED BY <4>1, <4>2 DEF SettledInv
    <3>4. CASE main.pc \in {"emplace", "notify"}
      <4>1. /\ UNCHANGED <<stopper, signal, running>> /\ main'.pc \in {"notify", "batch"}
            /\ pool'.joined = pool.joined
        BY <1>1, <2>2, <3>4, SpecialSteps, EmplaceFacts
      <4>2. \A a \in Actors : Underway(a)' <=> Underway(a) BY <4>1 DEF Underway
      <4>3. QED BY <3>4, <4>1, <4>2 DEF SettledInv
    <3>5. CASE main.pc \in {"destruct", "unmap"}
      <4>1. /\ UNCHANGED <<signal, running, pool, worker>>
            /\ \/ main.pc = "destruct" /\ main'.pc = "destruct" /\ MainStops("load")
               \/ main.pc = "unmap" /\ main'.pc = "unpool" /\ MainStops("stop")
            /\ main.pc = "destruct" => stopper["main"] = "none"
        BY <1>1, <2>2, <3>5, SpecialSteps
      <4>2. stopper["main"] = "none" BY <3>5, <4>1 DEF OrderInv
      <4>3. /\ Idle' <=> Idle
            /\ Underway("handler")' <=> Underway("handler")
            /\ ~Underway("main")
        BY <4>1, <4>2 DEF Idle, Working, Underway, MainStops
      <4>4. main.pc = "unmap" => ~running BY DEF SettledInv
      <4>5. \A a \in Actors : running' => stopper'[a] \in {"none", "load", "store"}
        BY <1>0, <4>1, <4>4 DEF SettledInv, MainStops
      <4>6. ~running' => \/ Idle' /\ main'.pc \notin LoopPC
                         \/ pool'.joined
                         \/ \E a \in Actors : Underway(a)'
        BY <1>0, <4>1, <4>3 DEF SettledInv
      <4>7. main'.pc \in LatePC => main.pc = "unmap" BY <4>1
      <4>8. QED BY <1>0, <4>1, <4>3, <4>4, <4>5, <4>6, <4>7 DEF SettledInv
    <3>6. QED BY <1>1, <2>2, <3>1, <3>2, <3>3, <3>4, <3>5, SpecialSteps
  <2>3. QED BY <2>1, <2>2
<1>2. ASSUME NEW a \in Actors, StopStep(a) PROVE SettledInv'
  <2>1. Idle => Idle'
    <3>1. pool'.tasks = pool.tasks BY <1>2, StopSteps
    <3>2. \A w \in Workers : worker'[w].pc \in WorkingPC => worker[w].pc \in WorkingPC
      BY <1>2, StopSteps, NotifyAllFacts DEF WorkingPC
    <3>3. QED BY <3>1, <3>2, IdleKept DEF Idle
  <2>2. CASE Return(a)
    <3>1. /\ UNCHANGED <<running, pool>> /\ stopper'[a] = "none"
          /\ \A b \in Actors : b # a => stopper'[b] = stopper[b]
          /\ stopper[a] \in {"load", "end"} /\ (stopper[a] = "load" => ~running)
      BY <1>2, <2>2, StopSteps, ReturnFacts
    <3>2. ~Underway(a) /\ \A b \in Actors : b # a => (Underway(b)' <=> Underway(b))
      BY <3>1 DEF Underway
    <3>3. CASE a = "handler"
      <4>1. main' = main BY <2>2, <3>3, ReturnFacts
      <4>2. main.pc \in LatePC => Idle BY <3>2, <3>3 DEF SettledInv
      <4>3. QED BY <1>0, <2>1, <3>1, <3>2, <3>3, <4>1, <4>2 DEF SettledInv
    <3>4. CASE a = "main"
      <4>1. /\ main.pc \in {"destruct", "unpool"} /\ signal' = signal
            /\ main'.pc = IF main.pc = "destruct" THEN "unmap" ELSE "gone"
        BY <2>2, <3>1, <3>4, ReturnFacts DEF OrderInv
      <4>2. ~running BY <3>1 DEF SettledInv
      <4>3. Idle \/ (signal.thread \in Workers /\ Underway("handler"))
        <5>1. CASE main.pc = "unpool" BY <5>1 DEF SettledInv, LatePC
        <5>2. CASE main.pc = "destruct" /\ ~Idle
          <6>1. Underway("handler")
            BY <1>0, <3>2, <3>4, <4>2, <5>2, JoinedIsIdle DEF SettledInv
          <6>2. signal.thread # NoThread BY <6>1 DEF OrderInv, Underway
          <6>3. signal.thread # Main BY <1>2, <3>4, StopSteps DEF MainRuns
          <6>4. signal.thread \in Victims \cup {NoThread} BY DEF StopTypes
          <6>5. QED BY <6>1, <6>2, <6>3, <6>4, LifecycleAssumption
        <5>3. QED BY <4>1, <5>1, <5>2
      <4>4. main'.pc \notin EarlyPC \cup LoopPC /\ main.pc \notin LoopPC
        BY <4>1 DEF EarlyPC, LoopPC, HandPC
      <4>5. Underway("handler")' <=> Underway("handler") BY <1>0, <3>2, <3>4
      <4>6. QED BY <1>0, <2>1, <3>1, <3>2, <3>4, <4>1, <4>2, <4>3, <4>4, <4>5 DEF SettledInv
    <3>5. QED BY <1>0, <3>3, <3>4
  <2>3. CASE ~Return(a)
    <3>1. /\ UNCHANGED <<main, signal>>
          /\ \A b \in Actors : b # a => stopper'[b] = stopper[b]
          /\ <<stopper[a], stopper'[a]>> \in
              {<<"load", "store">>, <<"store", "log">>, <<"log", "close all">>,
               <<"close all", "close epoll">>, <<"close epoll", "close listener">>,
               <<"close listener", "stop">>, <<"stop", "notify all">>, <<"notify all", "join">>,
               <<"join", "end">>}
      BY <1>2, <2>3, StopSteps, StopMoves
    <3>2. \A b \in Actors : b # a => (Underway(b)' <=> Underway(b)) BY <3>1 DEF Underway
    <3>3. CASE stopper[a] = "load"
      <4>1. running /\ running' = running /\ stopper'[a] = "store" BY <1>2, <2>3, <3>3, StopSteps
      <4>2. main.pc \notin EarlyPC /\ main.pc \notin LatePC BY <4>1 DEF SettledInv
      <4>3. QED BY <3>1, <4>1, <4>2 DEF SettledInv
    <3>4. CASE stopper[a] # "load"
      <4>1. ~running' BY <1>2, <2>3, <3>1, <3>4, StopSteps DEF SettledInv
      <4>2. main.pc \notin EarlyPC BY <3>1, <3>4 DEF SettledInv
      <4>3. pool'.joined \/ Underway(a)'
        <5>1. CASE stopper[a] = "join" BY <1>2, <2>3, <5>1, StopSteps
        <5>2. CASE stopper[a] # "join" BY <3>1, <3>4, <5>2 DEF Underway
        <5>3. QED BY <5>1, <5>2
      <4>4. main.pc \in LatePC => Idle' \/ (signal.thread \in Workers /\ Underway("handler")')
        <5>1. SUFFICES ASSUME main.pc \in LatePC, ~Idle
                       PROVE  Underway("handler")' /\ signal.thread \in Workers
          BY <2>1
        <5>2. signal.thread \in Workers /\ Underway("handler") BY <5>1 DEF SettledInv
        <5>3. worker[signal.thread].pc # "exited" BY <5>2 DEF OrderInv
        <5>4. CASE a = "handler"
          <6>1. stopper[a] # "join" BY <1>2, <2>3, <5>2, <5>3, StopSteps
          <6>2. QED BY <3>1, <3>4, <5>2, <5>4, <6>1 DEF Underway
        <5>5. CASE a # "handler" BY <1>0, <3>2, <5>2, <5>5
        <5>6. QED BY <5>2, <5>4, <5>5
      <4>5. QED BY <3>1, <4>1, <4>2, <4>3, <4>4 DEF SettledInv
    <3>5. QED BY <3>3, <3>4
  <2>4. QED BY <2>2, <2>3
<1>3. ASSUME NEW w \in Workers, WorkerStep(w) PROVE SettledInv'
  <2>1. UNCHANGED <<main, stopper, signal, running>> /\ pool'.joined = pool.joined
    BY <1>3, WorkerSteps
  <2>2. Idle => Idle'
    <3>1. SUFFICES ASSUME Idle PROVE Idle' OBVIOUS
    <3>2. pool.tasks = <<>> BY <3>1 DEF Idle
    <3>3. pool'.tasks = <<>> BY <1>3, <3>2, WorkerSteps
    <3>4. \A v \in Workers : worker'[v].pc \in WorkingPC => worker[v].pc \in WorkingPC
      BY <1>3, <3>2, WorkerSteps DEF WorkingPC
    <3>5. QED BY <3>1, <3>3, <3>4, IdleKept
  <2>3. \A a \in Actors : Underway(a)' <=> Underway(a) BY <2>1 DEF Underway
  <2>4. QED BY <1>0, <2>1, <2>2, <2>3 DEF SettledInv
<1>4. ASSUME NEW t \in Victims, Interrupt(t) PROVE SettledInv'
  <2>1. /\ signal.thread = NoThread
        /\ stopper'["handler"] = "load" /\ stopper'["main"] = stopper["main"]
        /\ UNCHANGED <<main, running, pool, worker>>
    BY <1>4, InterruptFacts
  <2>2. stopper["handler"] = "none" BY <2>1 DEF OrderInv
  <2>3. Idle' <=> Idle BY <2>1 DEF Idle, Working
  <2>4. ~Underway("handler") /\ (Underway("main")' <=> Underway("main"))
    BY <2>1, <2>2 DEF Underway
  <2>5. QED BY <1>0, <2>1, <2>3, <2>4 DEF SettledInv
<1>5. CASE JoinItself \/ UNCHANGED vars \/ (\E c \in Clients : Connect(c) \/ HangUp(c))
  <2>1. RestFacts BY <1>5, RestSteps
  <2>2. (Idle' <=> Idle) /\ \A a \in Actors : Underway(a)' <=> Underway(a)
    BY <2>1 DEF RestFacts, Idle, Working, Underway
  <2>3. UNCHANGED <<main, stopper, signal, running, pool>> BY <2>1 DEF RestFacts
  <2>4. QED BY <1>0, <2>2, <2>3 DEF SettledInv
<1>6. QED BY <1>1, <1>2, <1>3, <1>4, <1>5 DEF Next

-----------------------------------------------------------------------------
(* Open sockets                                                              *)

\* Closing the sockets of S.
LEMMA CloseFacts ==
  ASSUME NEW S, CloseSockets(S)
  PROVE  \A c \in Clients : sock'[c] = IF c \in S THEN "closed" ELSE sock[c]
BY DEF CloseSockets

\* The accept loop and the other plain steps.
LEMMA PlainOwned ==
  ASSUME TypeInv, OwnedInv, PlainStep
  PROVE  /\ \A c \in Clients : Open(c)' => c \in connections' \cup leaked' \cup InHand'
         /\ main'.pc \in EarlyPC \cup {"unpool", "gone"} => connections' = {}
         /\ \A c \in Clients : sock[c] = "closed" => sock'[c] = "closed"
<1> USE DEF TypeInv
<1>0. main'.pc \in EarlyPC \cup {"unpool", "gone"} => main.pc \in EarlyPC /\ main.pc = "install"
  BY PlainSteps DEF PlainFacts, LoopPC, HandPC, EarlyPC
<1>1. CASE Accept
  <2>1. CASE UNCHANGED sock
    <3>1. /\ main.pc = "accept" /\ UNCHANGED <<sock, connections, leaked>>
          /\ main'.pc \in {"check limit", "batch"}
      BY <1>1, <2>1 DEF Accept, At, GotoWith, MainType
    <3>2. InHand = {} BY <3>1 DEF InHand
    <3>3. QED BY <1>0, <3>1, <3>2 DEF OwnedInv, Open
  <2>2. ASSUME NEW c \in Clients, sock[c] = "backlog", sock' = [sock EXCEPT ![c] = "open"],
               GotoWith("check limit", c)
        PROVE  /\ \A d \in Clients : Open(d)' => d \in connections' \cup leaked' \cup InHand'
               /\ \A d \in Clients : sock[d] = "closed" => sock'[d] = "closed"
    <3>1. main.pc = "accept" /\ UNCHANGED <<connections, leaked>> BY <1>1 DEF Accept, At
    <3>2. InHand = {} BY <3>1 DEF InHand
    <3>3. InHand' = {c} BY <2>2 DEF InHand, GotoWith, MainType
    <3>4. \A d \in Clients : sock'[d] = IF d = c THEN "open" ELSE sock[d] BY <2>2 DEF NetTypes
    <3>5. QED BY <2>2, <3>1, <3>2, <3>3, <3>4 DEF OwnedInv, Open
  <2>3. main.pc = "accept" BY <1>1 DEF Accept, At
  <2>4. QED BY <1>0, <1>1, <2>1, <2>2, <2>3 DEF Accept
<1>2. CASE CreateConnection
  <2>1. /\ main.pc = "create" /\ UNCHANGED <<sock, connections>>
        /\ \/ main'.pc = "insert" /\ main'.conn = main.conn /\ leaked' = leaked
           \/ main'.pc = "destruct" /\ leaked' = leaked \cup {main.conn}
    BY <1>2 DEF CreateConnection, At, Goto, Throw, MainType
  <2>2. InHand = {main.conn} /\ (main'.pc = "insert" => InHand' = {main.conn})
    BY <2>1 DEF InHand
  <2>3. QED BY <1>0, <2>1, <2>2 DEF OwnedInv, Open
<1>3. CASE Insert
  <2>1. /\ main.pc = "insert" /\ UNCHANGED <<sock, leaked>>
        /\ connections' = connections \cup {main.conn}
    BY <1>3 DEF Insert, At
  <2>2. InHand = {main.conn} BY <2>1 DEF InHand
  <2>3. QED BY <1>0, <2>1, <2>2 DEF OwnedInv, Open
<1>4. CASE Erase
  <2>1. /\ main.pc = "erase" /\ leaked' = leaked /\ CloseSockets(connections \cap {main.conn})
        /\ connections' = connections \ {main.conn}
    BY <1>4 DEF Erase, At
  <2>2. InHand = {} BY <2>1 DEF InHand
  <2>3. \A c \in Clients : sock'[c] = IF c \in connections \cap {main.conn} THEN "closed"
                                          ELSE sock[c]
    BY <2>1, CloseFacts
  <2>4. QED BY <1>0, <2>1, <2>2, <2>3 DEF OwnedInv, Open
<1>5. CASE CheckLimit \/ UnlockConnections
  <2>1. UNCHANGED <<sock, connections, leaked>>
    BY <1>5 DEF CheckLimit, UnlockConnections, netVars
  <2>2. InHand \subseteq InHand'
    <3>1. CASE CheckLimit
      <4>1. main'.pc = "checked" /\ main'.conn = main.conn /\ main.pc = "check limit"
        BY <3>1 DEF CheckLimit, At, Goto, MainType
      <4>2. QED BY <4>1 DEF InHand
    <3>2. CASE UnlockConnections /\ main.pc = "checked"
      <4>1. AfterUnlock["checked"] = "create" BY DEF AfterUnlock
      <4>2. main'.pc = "create" /\ main'.conn = main.conn
        BY <3>2, <4>1 DEF UnlockConnections, Goto, MainType
      <4>3. QED BY <3>2, <4>2 DEF InHand
    <3>3. CASE UnlockConnections /\ main.pc # "checked"
      <4>1. InHand = {} BY <3>3, AfterUnlockFacts DEF UnlockConnections, InHand
      <4>2. QED BY <4>1
    <3>4. QED BY <1>5, <3>1, <3>2, <3>3
  <2>3. main.pc # "install"
    BY <1>5, AfterUnlockFacts DEF CheckLimit, UnlockConnections, At
  <2>4. QED BY <1>0, <2>1, <2>2, <2>3 DEF OwnedInv, Open
<1>6. CASE \/ InstallSignalHandlers \/ Announce \/ Announced \/ TestRunning \/ Poll \/ NextEvent
           \/ Sweep \/ Register \/ Find \/ Event
  <2>1. UNCHANGED <<sock, connections, leaked>>
    BY <1>6 DEF InstallSignalHandlers, Announce, Announced, TestRunning, Poll, NextEvent, Sweep,
                Register, Find, Event, netVars
  <2>2. main.pc \notin {"check limit", "checked", "create", "insert"}
    BY <1>6 DEF InstallSignalHandlers, Announce, Announced, TestRunning, Poll, NextEvent, Sweep,
                Register, Find, Event, At
  <2>3. InHand = {} BY <2>2 DEF InHand
  <2>4. main.pc \in EarlyPC => connections = {} BY DEF OwnedInv
  <2>5. \A c \in Clients : Open(c) => c \in connections \cup leaked BY <2>3 DEF OwnedInv
  <2>6. QED BY <1>0, <2>1, <2>4, <2>5 DEF Open
<1>7. QED BY <1>1, <1>2, <1>3, <1>4, <1>5, <1>6 DEF PlainStep

\* OwnedInv is preserved.
LEMMA OwnedKept ==
  ASSUME TypeInv, OrderInv, OwnedInv, [Next]_vars
  PROVE  OwnedInv'
<1> USE DEF TypeInv
<1>same. ASSUME UNCHANGED <<sock, connections, leaked>>, InHand' = InHand,
             main'.pc \in EarlyPC \cup {"unpool", "gone"} =>
               main.pc \in EarlyPC \cup {"unpool", "gone"},
             \A w \in Workers : worker'[w].pc = "erase" =>
               worker[w].pc = "erase" /\ worker'[w].conn = worker[w].conn
      PROVE  OwnedInv'
  BY <1>same DEF OwnedInv, Open
<1>1. CASE MainStep
  <2>1. CASE PlainStep
    <3>1. worker' = worker BY <2>1, PlainSteps DEF PlainFacts
    <3>2. \A w \in Workers : worker'[w].pc = "erase" => sock'[worker'[w].conn] = "closed"
      BY <2>1, <3>1, PlainOwned DEF OwnedInv, WorkerType, WorkingPC
    <3>3. QED BY <2>1, <3>2, PlainOwned DEF OwnedInv
  <2>2. CASE Construct \/ NotifyOne
    <3>1. /\ UNCHANGED <<sock, connections, leaked>>
          /\ \/ main.pc = "construct" /\ main'.pc \in {"install", "unpool"}
             \/ main.pc = "notify" /\ main'.pc = "batch"
      <4>1. CASE Construct
        <5>1. main.pc = "construct" /\ UNCHANGED netVars BY <4>1 DEF Construct, At
        <5>2. main'.pc \in {"install", "unpool"} BY <4>1 DEF Construct, Goto, MainType
        <5>3. QED BY <5>1, <5>2 DEF netVars
      <4>2. CASE NotifyOne BY <4>2 DEF NotifyOne, At, Goto, MainType, netVars
      <4>3. QED BY <2>2, <4>1, <4>2
    <3>2. InHand' = InHand BY <3>1 DEF InHand
    <3>3. \A w \in Workers : worker'[w].pc = "erase" =>
            worker[w].pc = "erase" /\ worker'[w].conn = worker[w].conn
      <4>1. CASE Construct BY <4>1, ConstructFacts
      <4>2. CASE NotifyOne BY <4>2 DEF NotifyOne, WorkerType
      <4>3. QED BY <2>2, <4>1, <4>2
    <3>4. QED BY <1>same, <3>1, <3>2, <3>3 DEF EarlyPC
  <2>3. CASE DestroyConnections
    <3>1. /\ main.pc = "unmap" /\ main'.pc = "unpool" /\ UNCHANGED <<leaked, worker>>
          /\ connections' = {} /\ CloseSockets(connections)
      BY <2>3 DEF DestroyConnections, DestroyEntries, At, Goto, MainType
    <3>2. \A c \in Clients : sock'[c] = IF c \in connections THEN "closed" ELSE sock[c]
      BY <3>1, CloseFacts
    <3>3. InHand = {} BY <3>1 DEF InHand
    <3>4. QED BY <3>1, <3>2, <3>3 DEF OwnedInv, Open, WorkerType, WorkingPC
  <2>4. CASE Configure \/ Setup \/ SetRunning \/ Submit \/ Emplace \/ Destruct \/ Exit
    <3>1. /\ UNCHANGED <<sock, connections, leaked, worker>>
          /\ main.pc \notin {"check limit", "checked", "create", "insert"}
          /\ main'.pc \notin {"check limit", "checked", "create", "insert"}
          /\ main'.pc \in EarlyPC \cup {"unpool", "gone"} => main.pc \in EarlyPC \cup {"gone"}
      BY <2>4 DEF Configure, Setup, SetRunning, Submit, Emplace, Destruct, Exit, At, Goto, GotoWith,
                  Throw, MainType, netVars, EarlyPC
    <3>2. InHand' = InHand BY <3>1 DEF InHand
    <3>3. QED BY <1>same, <3>1, <3>2
  <2>5. QED BY <1>1, <2>1, <2>2, <2>3, <2>4, MainSplit DEF MainCases
<1>2. ASSUME NEW a \in Actors, StopStep(a) PROVE OwnedInv'
  <2>1. /\ InHand' = InHand
        /\ main'.pc \in EarlyPC \cup {"unpool", "gone"} =>
             main.pc \in EarlyPC \cup {"unpool", "gone"}
    <3>1. CASE main' = main BY <3>1 DEF InHand
    <3>2. CASE Return(a) /\ a = "main"
      <4>1. /\ main.pc \in {"destruct", "unpool"}
            /\ main'.pc = IF main.pc = "destruct" THEN "unmap" ELSE "gone"
        BY <1>2, <3>2, StopSteps, ReturnFacts DEF OrderInv
      <4>2. QED BY <4>1 DEF InHand, EarlyPC
    <3>3. QED BY <1>2, <3>1, <3>2, StopSteps, ReturnFacts DEF Actors
  <2>2. \A w \in Workers : worker'[w].pc = "erase" =>
          worker[w].pc = "erase" /\ worker'[w].conn = worker[w].conn
    <3>1. CASE PoolNotifyAll(a)
      <4>1. worker' = [w \in Workers |-> IF w \in Waiting THEN [worker[w] EXCEPT !.pc = "idle"]
                                                          ELSE worker[w]]
        BY <3>1 DEF PoolNotifyAll
      <4>2. QED BY <4>1 DEF WorkerType
    <3>2. QED BY <1>2, <3>1, StopSteps
  <2>3. CASE StopCloseAll(a)
    <3>1. connections' = {} /\ leaked' = leaked /\ CloseSockets(connections) /\ worker' = worker
      BY <2>3 DEF StopCloseAll
    <3>2. \A c \in Clients : sock'[c] = IF c \in connections THEN "closed" ELSE sock[c]
      BY <3>1, CloseFacts
    <3>3. QED BY <2>1, <3>1, <3>2 DEF OwnedInv, Open, WorkerType, WorkingPC
  <2>4. CASE StopCloseListener(a)
    <3>1. UNCHANGED <<connections, leaked, worker>> BY <2>4 DEF StopCloseListener
    <3>2. \A c \in Clients : sock'[c] = IF sock[c] = "backlog" THEN "closed" ELSE sock[c]
      BY <2>4 DEF StopCloseListener
    <3>3. QED BY <2>1, <3>1, <3>2 DEF OwnedInv, Open, WorkerType, WorkingPC
  <2>5. CASE StopLoad(a) \/ StopStore(a) \/ StopLog(a) \/ StopCloseEpoll(a) \/ PoolStop(a)
             \/ PoolNotifyAll(a) \/ PoolJoin(a) \/ StopEnd(a)
    <3>1. UNCHANGED <<sock, connections, leaked>>
      BY <2>5 DEF StopLoad, StopStore, StopLog, StopCloseEpoll, PoolStop, PoolNotifyAll, PoolJoin,
                  StopEnd, netVars
    <3>2. QED BY <1>same, <2>1, <2>2, <3>1
  <2>6. QED BY <1>2, <2>3, <2>4, <2>5 DEF StopStep
<1>3. ASSUME NEW w \in Workers, WorkerStep(w) PROVE OwnedInv'
  <2>1. main' = main /\ leaked' = leaked /\ InHand' = InHand BY <1>3, WorkerSteps DEF InHand
  <2>2. CASE TakeTask(w)
    <3>1. /\ UNCHANGED <<sock, connections>> /\ worker'[w].pc # "erase"
          /\ \A v \in Workers \ {w} : worker'[v] = worker[v]
      BY <2>2, TakeFacts DEF TakeTask, netVars
    <3>2. QED BY <1>same, <2>1, <3>1
  <2>3. CASE Serve(w)
    <3>1. connections' = connections /\ worker[w].pc = "serve" BY <2>3 DEF Serve
    <3>2. \/ UNCHANGED sock /\ GotoW(w, "idle")
          \/ CloseSockets({worker[w].conn}) /\ GotoW(w, "erase")
      BY <2>3 DEF Serve
    <3>3. CASE UNCHANGED sock /\ GotoW(w, "idle")
      <4>1. \A v \in Workers : worker'[v].pc = "erase" =>
              worker[v].pc = "erase" /\ worker'[v].conn = worker[v].conn
        BY <3>3, GotoWFacts
      <4>2. QED BY <1>same, <2>1, <3>1, <3>3, <4>1
    <3>4. CASE CloseSockets({worker[w].conn}) /\ GotoW(w, "erase")
      <4>1. \A c \in Clients : sock'[c] = IF c = worker[w].conn THEN "closed" ELSE sock[c]
        BY <3>4, CloseFacts
      <4>2. worker[w].conn \in Clients BY <3>1 DEF WorkerType, WorkingPC
      <4>3. \A v \in Workers : /\ worker'[v].pc = IF v = w THEN "erase" ELSE worker[v].pc
                               /\ worker'[v].conn = worker[v].conn
        BY <3>4, GotoWFacts
      <4>4. \A v \in Workers : worker'[v].pc = "erase" => sock'[worker'[v].conn] = "closed"
        BY <4>1, <4>2, <4>3 DEF OwnedInv, WorkerType, WorkingPC
      <4>5. QED BY <2>1, <3>1, <4>1, <4>4 DEF OwnedInv, Open
    <3>5. QED BY <3>2, <3>3, <3>4
  <2>4. CASE RemoveConnection(w)
    <3>1. /\ worker[w].pc = "erase" /\ GotoW(w, "erased") /\ sock' = sock
          /\ connections' = connections \ {worker[w].conn}
      BY <2>4 DEF RemoveConnection
    <3>2. \A v \in Workers : worker'[v].pc = "erase" =>
            worker[v].pc = "erase" /\ worker'[v].conn = worker[v].conn
      BY <3>1, GotoWFacts
    <3>3. sock[worker[w].conn] = "closed" BY <3>1 DEF OwnedInv
    <3>4. QED BY <2>1, <3>1, <3>2, <3>3 DEF OwnedInv, Open
  <2>5. CASE AwaitTask(w) \/ Sleep(w) \/ LogAccess(w) \/ Logged(w) \/ Removed(w)
    <3>1. UNCHANGED <<sock, connections>>
          /\ \E pc \in {"taking", "sleeping", "waiting", "logging", "serve", "idle"} : GotoW(w, pc)
      BY <2>5 DEF AwaitTask, Sleep, LogAccess, Logged, Removed, netVars
    <3>2. \A v \in Workers : worker'[v].pc = "erase" =>
            worker[v].pc = "erase" /\ worker'[v].conn = worker[v].conn
      BY <3>1, GotoWFacts
    <3>3. QED BY <1>same, <2>1, <3>1, <3>2
  <2>6. QED BY <1>3, <2>2, <2>3, <2>4, <2>5 DEF WorkerStep
<1>4. CASE JoinItself \/ UNCHANGED vars \/ (\E t \in Victims : Interrupt(t))
  <2>1. UNCHANGED <<main, worker, sock, connections, leaked>>
    BY <1>4 DEF JoinItself, Interrupt, vars, netVars
  <2>2. QED BY <1>same, <2>1 DEF InHand
<1>5. ASSUME NEW c \in Clients, Connect(c) \/ HangUp(c) PROVE OwnedInv'
  <2>1. /\ UNCHANGED <<main, worker, connections, leaked>>
        /\ \E s \in {"backlog", "hung up"} : sock' = [sock EXCEPT ![c] = s] /\ sock[c] # "closed"
                                        /\ (s = "hung up" => sock[c] = "open")
    BY <1>5 DEF Connect, HangUp
  <2>2. InHand' = InHand BY <2>1 DEF InHand
  <2>3. \A d \in Clients : /\ Open(d)' => Open(d)
                           /\ sock[d] = "closed" => sock'[d] = "closed"
    BY <2>1 DEF Open, NetTypes
  <2>4. QED BY <2>1, <2>2, <2>3 DEF OwnedInv, WorkerType, WorkingPC
<1>6. QED BY <1>1, <1>2, <1>3, <1>4, <1>5 DEF Next

-----------------------------------------------------------------------------
(* epoll_fd_ and server_fd_                                                  *)

\* FdsInv is preserved.
LEMMA FdsKept ==
  ASSUME TypeInv, OrderInv, QuietInv, SettledInv, FdsInv, [Next]_vars
  PROVE  FdsInv'
<1> USE DEF TypeInv
<1>0. Actors = {"handler", "main"} BY DEF Actors
<1>1. CASE MainStep
  <2>0. outcome = "alive" /\ signal.thread # Main
    BY <1>1, PlainSteps, SpecialSteps DEF PlainFacts, MainRuns
  <2>1. CASE PlainStep
    <3>1. PlainFacts BY <2>1, PlainSteps
    <3>2. main.pc \notin LatePC \cup {"destruct", "set running"}
          /\ main'.pc \notin LatePC \cup {"configure", "construct", "install", "set running"}
          /\ (main'.pc = "setup" => main.pc = "install")
      BY <3>1 DEF PlainFacts, LoopPC, HandPC, LatePC
    <3>3. main.failed = "no" BY <3>2 DEF OrderInv
    <3>4. \A a \in Actors : Closing(a)' <=> Closing(a) BY <3>1 DEF PlainFacts, Closing
    <3>5. UNCHANGED <<fds, running, stopper, signal, outcome>> BY <3>1 DEF PlainFacts
    <3>6. QED BY <2>0, <1>0, <3>2, <3>3, <3>4, <3>5 DEF FdsInv, EarlyPC, LatePC
  <2>2. CASE ~PlainStep
    <3> USE DEF EarlyPC, LatePC
    <3>1. CASE main.pc \in {"configure", "construct"}
      <4>1. /\ fds' = fds /\ outcome' = outcome /\ signal' = signal
            /\ UNCHANGED stopper \/ MainStops("stop")
            /\ main'.pc \in {"construct", "install", "unpool", "gone"}
        BY <1>1, <2>2, <3>1, SpecialSteps
      <4>2. fds = {} BY <3>1 DEF FdsInv
      <4>3. QED BY <2>0, <4>1, <4>2 DEF FdsInv
    <3>2. CASE main.pc = "setup"
      <4>1. /\ UNCHANGED <<stopper, signal, outcome>>
            /\ main'.pc = "set running" \/ (main'.pc = "destruct" /\ main'.failed = "setup")
        BY <1>1, <2>2, <3>2, SpecialSteps
      <4>2. \A a \in Actors : stopper[a] \in {"none", "load"} BY <3>2 DEF SettledInv
      <4>3. QED BY <2>0, <4>1, <4>2 DEF FdsInv
    <3>3. CASE main.pc = "set running"
      <4>1. UNCHANGED <<stopper, signal, outcome, fds>> /\ running' = TRUE /\ main'.pc = "announce"
        BY <1>1, <2>2, <3>3, SpecialSteps
      <4>2. QED BY <2>0, <4>1 DEF FdsInv
    <3>4. CASE main.pc \in {"submit", "emplace", "notify"}
      <4>1. /\ UNCHANGED <<stopper, signal, outcome, fds, running>>
            /\ main'.pc \in {"emplace", "destruct", "notify", "batch"}
        BY <1>1, <2>2, <3>4, SpecialSteps
      <4>2. main.failed = "no" BY <3>4 DEF OrderInv
      <4>3. \A a \in Actors : Closing(a)' <=> Closing(a) BY <4>1 DEF Closing
      <4>4. QED BY <1>0, <2>0, <3>4, <4>1, <4>2, <4>3 DEF FdsInv
    <3>5. CASE main.pc \in {"destruct", "unmap"}
      <4>1. /\ UNCHANGED <<signal, outcome, fds, running>> /\ main'.failed = main.failed
            /\ \/ main.pc = "destruct" /\ main'.pc = "destruct" /\ MainStops("load")
               \/ main.pc = "unmap" /\ main'.pc = "unpool" /\ MainStops("stop")
            /\ main.pc = "destruct" => stopper["main"] = "none"
        BY <1>1, <2>2, <3>5, SpecialSteps
      <4>2. stopper["main"] = "none" BY <3>5, <4>1 DEF OrderInv
      <4>3. \A a \in Actors : Closing(a)' <=> Closing(a)
        BY <1>0, <4>1, <4>2 DEF Closing, MainStops
      <4>4. \A a \in Actors : stopper'[a] = "close listener" => stopper[a] = "close listener"
        BY <1>0, <4>1 DEF MainStops
      <4>5. QED BY <1>0, <2>0, <3>5, <4>1, <4>3, <4>4 DEF FdsInv
    <3>6. CASE main.pc = "gone"
      <4>1. UNCHANGED <<main, stopper, signal, fds, running, pool>>
        BY <1>1, <2>2, <3>6, SpecialSteps
      <4>2. main.failed = "setup" \/ fds = {}
        <5>1. SUFFICES ASSUME main.failed # "setup", fds # {} PROVE FALSE OBVIOUS
        <5>2. ~running BY <3>6 DEF SettledInv
        <5>3. pool.joined BY <3>6, <5>1 DEF FdsInv
        <5>4. stopper["main"] = "none" BY <3>6 DEF OrderInv
        <5>5. Closing("handler") BY <1>0, <3>6, <5>1, <5>2, <5>4 DEF FdsInv, Closing
        <5>6. signal.thread # NoThread BY <5>5 DEF OrderInv, Closing
        <5>7. signal.thread \in Victims \cup {NoThread} BY DEF StopTypes
        <5>8. signal.thread \in Workers BY <2>0, <5>6, <5>7, LifecycleAssumption
        <5>9. QED BY <5>3, <5>8 DEF OrderInv, QuietInv
      <4>3. \A a \in Actors : Closing(a)' <=> Closing(a) BY <4>1 DEF Closing
      <4>4. QED BY <4>1, <4>2, <4>3 DEF FdsInv
    <3>7. QED BY <1>1, <2>2, <3>1, <3>2, <3>3, <3>4, <3>5, <3>6, SpecialSteps
  <2>3. QED BY <2>1, <2>2
<1>2. ASSUME NEW a \in Actors, StopStep(a) PROVE FdsInv'
  <2>0. outcome = "alive" /\ outcome' = "alive" BY <1>2, StopSteps
  <2>1. CASE Return(a)
    <3>1. /\ UNCHANGED <<running, pool, fds>> /\ stopper'[a] = "none"
          /\ \A b \in Actors : b # a => stopper'[b] = stopper[b]
          /\ stopper[a] \in {"load", "end"}
      BY <1>2, <2>1, StopSteps, ReturnFacts
    <3>2. \A b \in Actors : Closing(b)' <=> Closing(b) BY <3>1 DEF Closing
    <3>3. \A b \in Actors : stopper'[b] = "close listener" => stopper[b] = "close listener"
      BY <3>1
    <3>4. CASE a = "handler"
      <4>1. main' = main BY <2>1, <3>4, ReturnFacts
      <4>2. QED BY <1>0, <2>0, <3>1, <3>2, <3>3, <3>4, <4>1 DEF FdsInv
    <3>5. CASE a = "main"
      <4>1. /\ main.pc \in {"destruct", "unpool"} /\ signal' = signal
            /\ main'.failed = main.failed
            /\ main'.pc = IF main.pc = "destruct" THEN "unmap" ELSE "gone"
        BY <2>1, <3>1, <3>5, ReturnFacts DEF OrderInv
      <4>2. main.pc = "unpool" => pool.joined BY <1>0, <3>1, <3>5 DEF OrderInv
      <4>3. signal.thread # Main BY <1>2, <3>5, StopSteps DEF MainRuns
      <4>4. QED BY <1>0, <2>0, <3>1, <3>2, <3>3, <3>5, <4>1, <4>2, <4>3 DEF FdsInv, EarlyPC
    <3>6. QED BY <1>0, <3>4, <3>5
  <2>2. CASE ~Return(a)
    <3>1. /\ UNCHANGED <<main, signal>>
          /\ \A b \in Actors : b # a => stopper'[b] = stopper[b]
          /\ <<stopper[a], stopper'[a]>> \in
              {<<"load", "store">>, <<"store", "log">>, <<"log", "close all">>,
               <<"close all", "close epoll">>, <<"close epoll", "close listener">>,
               <<"close listener", "stop">>, <<"stop", "notify all">>, <<"notify all", "join">>,
               <<"join", "end">>}
      BY <1>2, <2>2, StopSteps, StopMoves
    <3>2. fds' \subseteq fds /\ (pool.joined => pool'.joined)
      BY <1>2, <2>2, StopSteps
    <3>3. main.pc \in LatePC /\ signal.thread = Main => stopper'["handler"] \in {"none", "load"}
      <4>1. CASE a = "handler"
        <5>1. stopper[a] = "load" => running BY <1>2, <2>2, StopSteps
        <5>2. main.pc \in LatePC => ~running BY DEF SettledInv
        <5>3. QED BY <3>1, <4>1, <5>1, <5>2 DEF FdsInv
      <4>2. CASE a # "handler" BY <1>0, <3>1, <4>2 DEF FdsInv
      <4>3. QED BY <4>1, <4>2
    <3>4. stopper'[a] = "close listener" => "epoll" \notin fds' BY <1>2, <2>2, <3>1, StopSteps
    <3>5. \A b \in Actors : stopper'[b] = "close listener" => "epoll" \notin fds'
      BY <3>1, <3>2, <3>4 DEF FdsInv
    <3>6. stopper[a] = "close listener" => fds' = {}
      <4>1. fds \subseteq {"listener", "epoll"} BY DEF NetTypes
      <4>2. stopper[a] = "close listener" => fds' = fds \ {"listener"} BY <1>2, <2>2, StopSteps
      <4>3. QED BY <4>1, <4>2 DEF FdsInv
    <3>7. Closing(a) /\ fds' # {} => Closing(a)' BY <3>1, <3>6 DEF Closing
    <3>8. running => running' \/ Closing(a)' BY <1>2, <2>2, <3>1, StopSteps DEF Closing
    <3>9. \A b \in Actors : b # a => (Closing(b)' <=> Closing(b)) BY <3>1 DEF Closing
    <3>10. fds' # {} => \/ main'.failed = "setup" \/ running' \/ main'.pc = "set running"
                        \/ \E b \in Actors : Closing(b)'
      BY <3>1, <3>2, <3>7, <3>8, <3>9 DEF FdsInv
    <3>11. QED BY <2>0, <3>1, <3>2, <3>3, <3>5, <3>10 DEF FdsInv
  <2>3. QED BY <2>1, <2>2
<1>3. ASSUME NEW w \in Workers, WorkerStep(w) PROVE FdsInv'
  <2>1. UNCHANGED <<main, stopper, signal, running, fds, outcome>> /\ pool'.joined = pool.joined
    BY <1>3, WorkerSteps
  <2>2. \A a \in Actors : Closing(a)' <=> Closing(a) BY <2>1 DEF Closing
  <2>3. QED BY <1>0, <2>1, <2>2 DEF FdsInv
<1>4. ASSUME NEW t \in Victims, Interrupt(t) PROVE FdsInv'
  <2>1. /\ signal.thread = NoThread /\ outcome = "alive" /\ outcome' = outcome
        /\ stopper'["handler"] = "load" /\ stopper'["main"] = stopper["main"]
        /\ UNCHANGED <<main, running, pool, fds>>
    BY <1>4, InterruptFacts
  <2>2. stopper["handler"] = "none" BY <2>1 DEF OrderInv
  <2>3. \A a \in Actors : Closing(a)' <=> Closing(a) BY <1>0, <2>1, <2>2 DEF Closing
  <2>4. QED BY <1>0, <2>1, <2>3 DEF FdsInv
<1>5. CASE JoinItself \/ UNCHANGED vars \/ (\E c \in Clients : Connect(c) \/ HangUp(c))
  <2>1. UNCHANGED <<main, stopper, signal, running, fds, pool>> /\ outcome' \in {outcome, "aborted"}
    BY <1>5, RestSteps DEF RestFacts
  <2>2. \A a \in Actors : Closing(a)' <=> Closing(a) BY <2>1 DEF Closing
  <2>3. QED BY <1>0, <2>1, <2>2 DEF FdsInv
<1>6. QED BY <1>1, <1>2, <1>3, <1>4, <1>5 DEF Next

-----------------------------------------------------------------------------
(* The theorems                                                              *)

\* The initial states satisfy all of it.
LEMMA InitLifecycle == Init => LifecycleInv
<1> SUFFICES ASSUME Init PROVE LifecycleInv OBVIOUS
<1>1. /\ main = [pc |-> "configure", conn |-> NoClient, batch |-> {}, failed |-> "no"]
      /\ \A a \in Actors : stopper[a] = "none"
      /\ signal = [thread |-> NoThread, count |-> 0, lost |-> FALSE]
      /\ running = FALSE /\ fds = {} /\ outcome = "alive"
      /\ pool = [stop |-> FALSE, tasks |-> <<>>, missed |-> FALSE, joined |-> FALSE]
      /\ \A w \in Workers : worker[w].pc = "unborn"
      /\ \A c \in Clients : sock[c] = "new"
      /\ connections = {}
  BY DEF Init
<1>2. TypeInv
  <2>1. MainType
    <3>1. "configure" \in MainPC \ HandPC BY DEF MainPC, HandPC
    <3>2. QED BY <1>1, <3>1 DEF MainType, Failures
  <2>2. StopTypes
    <3>1. 0 \in 0..MaxSignals BY LifecycleAssumption
    <3>2. stopper \in [Actors -> StopPC] BY DEF Init, StopPC
    <3>3. signal \in [thread : Victims \cup {NoThread}, count : 0..MaxSignals, lost : BOOLEAN]
      BY <1>1, <3>1
    <3>4. QED BY <1>1, <3>2, <3>3 DEF StopTypes
  <2>3. PoolType
    <3>1. <<>> \in Seq(Clients) OBVIOUS
    <3>2. QED BY <1>1, <3>1 DEF PoolType
  <2>4. WorkerType
    <3>1. "unborn" \in WorkerPC \ WorkingPC BY DEF WorkerPC, WorkingPC
    <3>2. QED BY <3>1 DEF Init, WorkerType
  <2>5. NetTypes BY DEF Init, NetTypes
  <2>6. QED BY <2>1, <2>2, <2>3, <2>4, <2>5 DEF TypeInv
<1>3. LockInv
  <2>1. InLock("configure") = "none" BY InLockFacts DEF EarlyPC
  <2>2. InLockW("unborn") = "none" BY DEF InLockW
  <2>3. \A m \in Locks : mutex[m] = NoThread /\ m # "none" BY DEF Init, Locks
  <2>4. mutex \in [Locks -> Workers \cup {Main, NoThread}] BY DEF Init
  <2>5. QED BY <1>1, <2>1, <2>2, <2>3, <2>4, LifecycleAssumption DEF LockInv
<1>4. OrderInv
  <2>1. NoThread \notin Workers BY LifecycleAssumption
  <2>2. QED BY <1>1, <2>1 DEF OrderInv, Actors
<1>5. QuietInv BY <1>1 DEF QuietInv
<1>6. SettledInv
  <2>1. Idle BY <1>1 DEF Idle, Working
  <2>2. QED BY <1>1, <2>1 DEF SettledInv, LatePC, LoopPC, HandPC
<1>7. OwnedInv BY <1>1 DEF OwnedInv, Open
<1>8. FdsInv BY <1>1 DEF FdsInv, LatePC
<1>9. QED BY <1>2, <1>3, <1>4, <1>5, <1>6, <1>7, <1>8 DEF LifecycleInv

\* The inductive invariant: locks and the places where threads hold them, the order of
\* the two stops, what exited workers, a cleared running_ and an open socket imply.
THEOREM LifecycleInvariant == Spec => []LifecycleInv
<1>1. LifecycleInv /\ [Next]_vars => LifecycleInv'
  BY TypesKept, LocksKept, OrderKept, QuietKept, SettledKept, OwnedKept, FdsKept DEF LifecycleInv
<1>2. QED BY InitLifecycle, <1>1, PTL DEF Spec

\* Every variable has its type, and connections_mutex_, queue_mutex_ and the mutex of
\* the log are each held by the one thread inside their critical section.
THEOREM TypeCorrect == Spec => []TypeOK
<1>1. LifecycleInv => TypeOK
  <2>1. SUFFICES ASSUME LifecycleInv PROVE TypeOK OBVIOUS
  <2>2. MainType /\ StopTypes /\ PoolType /\ WorkerType /\ NetTypes /\ LockInv
    BY <2>1 DEF LifecycleInv, TypeInv
  <2>3. \A m \in Locks : Inside(m) = {mutex[m]} \ {NoThread}
    <3>1. \A t \in Workers \cup {Main}, m \in Locks : t \in Inside(m) <=> mutex[m] = t
      <4>1. \A m \in Locks : m \in {"connections", "queue", "log"} BY DEF Locks
      <4>2. Main \notin Workers BY LifecycleAssumption
      <4>3. \A m \in Locks : Main \in Inside(m) <=> InLock(main.pc) = m
        BY <4>1, <4>2, AfterUnlockFacts DEF Inside, InLock
      <4>4. \A m \in Locks, w \in Workers : w \in Inside(m) <=> InLockW(worker[w].pc) = m
        BY <4>1, <4>2 DEF Inside, InLockW
      <4>5. QED BY <2>2, <4>3, <4>4 DEF LockInv
    <3>2. \A m \in Locks : Inside(m) \subseteq Workers \cup {Main} BY DEF Inside
    <3>3. \A m \in Locks : mutex[m] \in Workers \cup {Main, NoThread} BY <2>2 DEF LockInv
    <3>4. NoThread \notin Workers \cup {Main} BY LifecycleAssumption
    <3>5. QED BY <3>1, <3>2, <3>3, <3>4
  <2>4. /\ main.pc \in MainPC /\ main.conn \in Clients \cup {NoClient}
        /\ main.batch \subseteq Clients \cup {Listener}
        /\ main.failed \in {"no", "help", "configure", "construct", "setup", "create", "submit"}
    BY <2>2 DEF MainType, Failures
  <2>5. /\ signal.thread \in Victims \cup {NoThread} /\ signal.count \in 0..MaxSignals
        /\ running \in BOOLEAN /\ stopper \in [Actors -> StopPC]
        /\ outcome \in {"alive", "success", "failure", "aborted"}
    BY <2>2 DEF StopTypes
  <2>6. pool.tasks \in Seq(Clients) BY <2>2 DEF PoolType
  <2>7. \A w \in Workers : worker[w].pc \in WorkerPC BY <2>2 DEF WorkerType
  <2>8. QED BY <2>2, <2>3, <2>4, <2>5, <2>6, <2>7 DEF TypeOK, NetTypes
<1>2. QED BY <1>1, LifecycleInvariant, PTL

\* No task outlives the members of the Server that it uses, unless stop() is running
\* on the worker of such a task.
THEOREM MembersOutliveWorkersHolds == Spec => []MembersOutliveWorkers
<1>1. LifecycleInv => MembersOutliveWorkers
  BY DEF LifecycleInv, SettledInv, MembersOutliveWorkers, Idle, LatePC
<1>2. QED BY <1>1, LifecycleInvariant, PTL

\* Once a stop() has joined the pool no task is queued or run.
THEOREM QuietAfterStopHolds == Spec => []QuietAfterStop
<1>1. LifecycleInv => QuietAfterStop
  <2>1. SUFFICES ASSUME LifecycleInv, pool.joined
                 PROVE  pool.tasks = <<>> /\ \A w \in Workers : worker[w].pc = "exited"
    BY DEF QuietAfterStop
  <2>2. QuietInv BY <2>1 DEF LifecycleInv
  <2>3. pool.tasks = <<>> BY <2>1, <2>2, JoinedIsIdle DEF Idle
  <2>4. QED BY <2>1, <2>2, <2>3 DEF QuietInv
<1>2. QED BY <1>1, LifecycleInvariant, PTL

\* A process that has ended by itself leaves no accepted connection open but those
\* whose Connection could not be made, and neither epoll_fd_ nor server_fd_ but after
\* a set-up that failed.
THEOREM NothingOpenHolds == Spec => []NothingOpen
<1>1. LifecycleInv => NothingOpen
  <2>1. SUFFICES ASSUME LifecycleInv, outcome \in {"success", "failure"}
                 PROVE  /\ {c \in Clients : sock[c] \in {"open", "hung up"}} \subseteq leaked
                        /\ fds # {} => main.failed = "setup"
    BY DEF NothingOpen
  <2>2. main.pc = "gone" BY <2>1 DEF LifecycleInv, OrderInv
  <2>3. connections = {} /\ InHand = {} BY <2>1, <2>2 DEF LifecycleInv, OwnedInv, InHand
  <2>4. QED BY <2>1, <2>3 DEF LifecycleInv, OwnedInv, Open, FdsInv
<1>2. QED BY <1>1, LifecycleInvariant, PTL
=============================================================================
