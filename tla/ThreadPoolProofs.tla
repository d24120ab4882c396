-------------------------- MODULE ThreadPoolProofs --------------------------
(***************************************************************************)
(* Proofs about ThreadPool for any number of workers, callers and tasks, and *)
(* that it implements TaskPool.                                              *)
(***************************************************************************)
EXTENDS ThreadPool, FiniteSetTheorems, SequenceTheorems, TLAPS

-----------------------------------------------------------------------------
(* Type correctness, without the lower bound of active_tasks_, which needs  *)
(* the counting argument below.                                              *)

TypeInv ==
  /\ tasks \in Seq(Tasks)
  /\ queueMutex \in Workers \cup Submitters \cup {NoThread}
  /\ stop \in BOOLEAN
  /\ activeTasks \in Int
  /\ wpc \in [Workers -> WorkerPC]
  /\ wtask \in [Workers -> Tasks \cup {NoTask}]
  /\ spc \in [Submitters -> SubmitPC]
  /\ stask \in [Submitters -> Tasks \cup {NoTask}]
  /\ jpc \in CloserPC
  /\ fate \in [Tasks -> Fates]

\* A thread is at a program point inside a critical section exactly when it
\* holds queue_mutex_.
MutexInv ==
  /\ \A w \in Workers :
       wpc[w] \in {"testing", "sleeping", "taking"} <=> queueMutex = w
  /\ \A s \in Submitters : spc[s] \in {"checking", "emplacing"} <=> queueMutex = s

\* What a thread carries between the steps that set and use it.
CarryInv ==
  /\ \A w \in Workers : wpc[w] \in {"starting", "running", "finishing"} => wtask[w] \in Tasks
  /\ \A s \in Submitters : spc[s] \in {"locking", "checking", "emplacing"} => stask[s] \in Tasks

\* What a worker has learnt about the queue still holds while it has the mutex,
\* and what made it leave holds for good.
QueueInv ==
  /\ \A w \in Workers : wpc[w] = "sleeping" => tasks = <<>>
  /\ \A w \in Workers : wpc[w] = "taking" => stop \/ tasks # <<>>
  /\ DrainedAtExit

\* The inductive invariant of the control state.
ControlInv == TypeInv /\ MutexInv /\ CarryInv /\ QueueInv

\* The initial state satisfies the inductive invariant.
LEMMA InitControl == Init => ControlInv
<1> SUFFICES ASSUME Init PROVE ControlInv OBVIOUS
<1>1. TypeInv
  <2>1. tasks \in Seq(Tasks) BY EmptySeq DEF Init
  <2>2. wpc \in [Workers -> WorkerPC] /\ spc \in [Submitters -> SubmitPC]
                             BY DEF Init, WorkerPC, SubmitPC
  <2>3. /\ wtask \in [Workers -> Tasks \cup {NoTask}]
        /\ stask \in [Submitters -> Tasks \cup {NoTask}]
        /\ fate \in [Tasks -> Fates]
                             BY DEF Init, Fates
  <2>4. activeTasks \in Int  BY DEF Init
  <2>5. QED BY <2>1, <2>2, <2>3, <2>4 DEF Init, TypeInv, CloserPC
<1>2. MutexInv BY PoolAssumption DEF Init, MutexInv
<1>3. CarryInv /\ QueueInv BY DEF Init, CarryInv, QueueInv, DrainedAtExit
<1>4. QED BY <1>1, <1>2, <1>3 DEF ControlInv

\* Every step of worker_loop preserves it.
LEMMA WorkerControl ==
  ASSUME ControlInv, NEW w \in Workers, WorkerStep(w) \/ SpuriousWakeup(w)
  PROVE  ControlInv'
<1> USE PoolAssumption DEF ControlInv, TypeInv, MutexInv, CarryInv, QueueInv, DrainedAtExit,
    WorkerPC, SubmitPC, CloserPC, Fates
<1>1. CASE AcquireLock(w)   BY <1>1 DEF AcquireLock
<1>2. CASE TestPredicate(w) BY <1>2 DEF TestPredicate, WaitIsOver
<1>3. CASE Sleep(w)         BY <1>3 DEF Sleep
<1>4. CASE Reacquire(w)     BY <1>4 DEF Reacquire, AfterWakeup
<1>5. CASE Return(w)        BY <1>5 DEF Return, MayLeave
<1>6. CASE TakeTask(w)
  <2>1. tasks # <<>>        BY <1>6 DEF TakeTask, MayLeave
  <2>2. Head(tasks) \in Tasks /\ Tail(tasks) \in Seq(Tasks)
                            BY <2>1, HeadTailProperties
  <2>. /\ tasks' = Tail(tasks)
       /\ wtask' = [wtask EXCEPT ![w] = Head(tasks)]
       /\ fate' = [fate EXCEPT ![Head(tasks)] = "running"]
                            BY <1>6, <2>1 DEF TakeTask, AfterPop
  <2>3. TypeInv'            BY <1>6, <2>2 DEF TakeTask
  <2>4. MutexInv'           BY <1>6 DEF TakeTask
  <2>5. CarryInv'           BY <1>6, <2>1, <2>2 DEF TakeTask
  <2>6. QueueInv'           BY <1>6, <2>1 DEF TakeTask
  <2>7. QED                 BY <2>3, <2>4, <2>5, <2>6
<1>7. CASE StartTask(w)     BY <1>7 DEF StartTask, Counted
<1>8. CASE ExecuteTask(w)   BY <1>8 DEF ExecuteTask, AfterTask
<1>9. CASE FinishTask(w)    BY <1>9 DEF FinishTask
<1>10. CASE SpuriousWakeup(w) BY <1>10 DEF SpuriousWakeup
<1>11. QED
  BY <1>1, <1>2, <1>3, <1>4, <1>5, <1>6, <1>7, <1>8, <1>9, <1>10 DEF WorkerStep

\* Every step of submit preserves it.
LEMMA SubmitControl ==
  ASSUME ControlInv, NEW s \in Submitters, BeginSubmit(s) \/ SubmitStep(s)
  PROVE  ControlInv'
<1> USE PoolAssumption DEF ControlInv, TypeInv, MutexInv, CarryInv, QueueInv, DrainedAtExit,
    WorkerPC, SubmitPC, CloserPC, Fates
<1>1. CASE BeginSubmit(s) BY <1>1 DEF BeginSubmit
<1>2. CASE LockQueue(s)   BY <1>2 DEF LockQueue
<1>3. CASE RejectTask(s)  BY <1>3 DEF RejectTask
<1>4. CASE PassCheck(s)   BY <1>4 DEF PassCheck, Accepts
<1>5. CASE EmplaceTask(s)
  <2>1. Append(tasks, stask[s]) \in Seq(Tasks) /\ Append(tasks, stask[s]) # <<>>
                          BY <1>5, AppendProperties DEF EmplaceTask
  <2>2. QED               BY <1>5, <2>1 DEF EmplaceTask
<1>6. CASE NotifyOne(s)   BY <1>6 DEF NotifyOne, Blocked
<1>7. QED
  BY <1>1, <1>2, <1>3, <1>4, <1>5, <1>6 DEF SubmitStep

\* Every step of shutdown preserves it.
LEMMA CloserControl ==
  ASSUME ControlInv, CloserStep
  PROVE  ControlInv'
<1> USE PoolAssumption DEF ControlInv, TypeInv, MutexInv, CarryInv, QueueInv, DrainedAtExit,
    WorkerPC, SubmitPC, CloserPC, Fates
<1>1. CASE StoreStop BY <1>1 DEF StoreStop
<1>2. CASE NotifyAll BY <1>2 DEF NotifyAll
<1>3. CASE JoinAll   BY <1>3 DEF JoinAll
<1>4. QED            BY <1>1, <1>2, <1>3 DEF CloserStep

\* The control state is always as ControlInv says.
THEOREM ControlInvariant == Spec => []ControlInv
<1>1. ControlInv /\ UNCHANGED vars => ControlInv'
  BY DEF ControlInv, TypeInv, MutexInv, CarryInv, QueueInv, DrainedAtExit, vars
<1>2. ControlInv /\ [Next]_vars => ControlInv'
  BY <1>1, WorkerControl, SubmitControl, CloserControl DEF Next
<1>3. QED BY InitControl, <1>2, PTL DEF Spec

\* A worker that has returned leaves a stopped, drained pool behind it.
THEOREM DrainedAtExitHolds == Spec => []DrainedAtExit
<1>1. ControlInv => DrainedAtExit BY DEF ControlInv, QueueInv
<1>2. QED BY <1>1, ControlInvariant, PTL

\* worker_loop never takes the front of an empty queue.
THEOREM NeverTakesNothingHolds == Spec => []NeverTakesNothing
<1>1. ControlInv => NeverTakesNothing
  BY DEF ControlInv, QueueInv, CarryInv, NeverTakesNothing
<1>2. QED BY <1>1, ControlInvariant, PTL

-----------------------------------------------------------------------------
(* Counting: active_tasks_ and the number of awake workers                   *)

\* The sets counted are finite, so their cardinalities are natural numbers.
LEMMA FiniteCounts ==
  /\ IsFiniteSet(Counting) /\ IsFiniteSet(Looking) /\ IsFiniteSet(Notifying)
  /\ Cardinality(Counting) \in Nat
  /\ Cardinality(Looking) \in Nat
  /\ Cardinality(Notifying) \in Nat
<1>1. Counting \in SUBSET Workers /\ Looking \in SUBSET Workers /\ Notifying \in SUBSET Submitters
  BY DEF Counting, Looking, Notifying
<1>2. IsFiniteSet(Counting) /\ IsFiniteSet(Looking) /\ IsFiniteSet(Notifying)
  BY <1>1, PoolAssumption, FS_Subset
<1>3. QED BY <1>2, FS_CardinalityType

\* The increment and the decrement bracket exactly the counted steps.
LEMMA ActiveCountStep ==
  ASSUME ControlInv, ActiveCount, [Next]_vars
  PROVE  ActiveCount'
<1> USE DEF ActiveCount
<1>1. ASSUME NEW w \in Workers, StartTask(w) PROVE ActiveCount'
  <2>1. Counting' = Counting \cup {w} /\ w \notin Counting
    BY <1>1 DEF StartTask, Counting, ControlInv, TypeInv
  <2>2. Cardinality(Counting') = Cardinality(Counting) + 1
    BY <2>1, FiniteCounts, FS_AddElement
  <2>3. QED BY <1>1, <2>2 DEF StartTask, Counted
<1>2. ASSUME NEW w \in Workers, FinishTask(w) PROVE ActiveCount'
  <2>1. Counting' = Counting \ {w} /\ w \in Counting
    BY <1>2 DEF FinishTask, Counting, ControlInv, TypeInv
  <2>2. Cardinality(Counting') = Cardinality(Counting) - 1
    BY <2>1, FiniteCounts, FS_RemoveElement
  <2>3. QED BY <1>2, <2>2 DEF FinishTask
<1>3. ASSUME UNCHANGED <<activeTasks, wpc>> PROVE ActiveCount'
  BY <1>3 DEF Counting
<1>4. ASSUME NEW w \in Workers, WorkerStep(w) \/ SpuriousWakeup(w) PROVE ActiveCount'
  <2>1. ASSUME UNCHANGED activeTasks, Counting' = Counting PROVE ActiveCount'
    BY <2>1
  <2>2. CASE AcquireLock(w)
    BY <2>1, <2>2 DEF AcquireLock, Counting, ControlInv, TypeInv
  <2>3. CASE TestPredicate(w)
    BY <2>1, <2>3 DEF TestPredicate, Counting, ControlInv, TypeInv
  <2>4. CASE Sleep(w)
    BY <2>1, <2>4 DEF Sleep, Counting, ControlInv, TypeInv
  <2>5. CASE Reacquire(w)
    BY <2>1, <2>5 DEF Reacquire, AfterWakeup, Counting, ControlInv, TypeInv
  <2>6. CASE Return(w)
    BY <2>1, <2>6 DEF Return, Counting, ControlInv, TypeInv
  <2>7. CASE TakeTask(w)
    BY <2>1, <2>7 DEF TakeTask, Counting, ControlInv, TypeInv
  <2>8. CASE ExecuteTask(w)
    BY <2>1, <2>8 DEF ExecuteTask, AfterTask, Counting, ControlInv, TypeInv
  <2>9. CASE SpuriousWakeup(w)
    BY <2>1, <2>9 DEF SpuriousWakeup, Counting, ControlInv, TypeInv
  <2>10. QED
    BY <1>1, <1>2, <1>4, <2>2, <2>3, <2>4, <2>5, <2>6, <2>7, <2>8, <2>9 DEF WorkerStep
<1>5. ASSUME NEW s \in Submitters, BeginSubmit(s) \/ SubmitStep(s) PROVE ActiveCount'
  <2>1. CASE NotifyOne(s)
    <3>1. Counting' = Counting
      BY <2>1 DEF NotifyOne, Blocked, Counting, ControlInv, TypeInv
    <3>2. QED BY <2>1, <3>1 DEF NotifyOne
  <2>2. CASE ~NotifyOne(s)
    BY <1>3, <1>5, <2>2 DEF SubmitStep, BeginSubmit, LockQueue, RejectTask, PassCheck, EmplaceTask
  <2>3. QED BY <2>1, <2>2
<1>6. ASSUME CloserStep PROVE ActiveCount'
  <2>1. CASE NotifyAll
    <3>1. Counting' = Counting
      BY <2>1 DEF NotifyAll, Counting, ControlInv, TypeInv
    <3>2. QED BY <2>1, <3>1 DEF NotifyAll
  <2>2. CASE ~NotifyAll
    BY <1>3, <1>6, <2>2 DEF CloserStep, StoreStop, JoinAll
  <2>3. QED BY <2>1, <2>2
<1>7. QED BY <1>3, <1>4, <1>5, <1>6 DEF Next, vars

\* active_tasks_ always counts the workers that are executing a task.
THEOREM ActiveCountHolds == Spec => []ActiveCount
<1>1. Init => ActiveCount
  <2>1. Init => Counting = {} BY DEF Init, Counting
  <2>2. QED BY <2>1, FS_EmptySet DEF Init, ActiveCount
<1>2. QED BY <1>1, ActiveCountStep, ControlInvariant, PTL DEF Spec

\* Every variable always has its type; active_tasks_ never wraps below zero.
THEOREM TypeCorrect == Spec => []TypeOK
<1>1. ControlInv /\ ActiveCount => TypeOK
  BY FiniteCounts DEF ControlInv, TypeInv, ActiveCount, TypeOK
<1>2. QED BY <1>1, ControlInvariant, ActiveCountHolds, PTL

-----------------------------------------------------------------------------
(* No worker stays blocked while queued tasks outnumber the workers and      *)
(* notifications on their way                                                *)

\* An empty queue needs nobody awake.
LEMMA EmptyQueueConserves == tasks = <<>> => WorkConserving
<1>1. tasks = <<>> => Len(tasks) = 0 BY EmptySeq
<1>2. QED BY <1>1, FiniteCounts DEF WorkConserving

\* Every step of worker_loop keeps enough workers awake.
LEMMA WorkerConserves ==
  ASSUME ControlInv, ControlInv', WorkConserving, NEW w \in Workers,
         WorkerStep(w) \/ SpuriousWakeup(w)
  PROVE  WorkConserving'
<1>0. /\ Cardinality(Looking') \in Nat /\ Cardinality(Notifying') \in Nat
      /\ (tasks' = <<>> => WorkConserving')
  <2>1. IsFiniteSet(Looking') /\ IsFiniteSet(Notifying')
    <3>1. Looking' \in SUBSET Workers /\ Notifying' \in SUBSET Submitters
      BY DEF Looking, Notifying
    <3>2. QED BY <3>1, PoolAssumption, FS_Subset
  <2>2. Cardinality(Looking') \in Nat /\ Cardinality(Notifying') \in Nat
    BY <2>1, FS_CardinalityType
  <2>3. tasks' = <<>> => Len(tasks') = 0 BY EmptySeq
  <2>4. QED BY <2>2, <2>3 DEF WorkConserving
<1>1. ASSUME UNCHANGED <<tasks, Looking, Notifying>>, Waiting' \subseteq Waiting
      PROVE  WorkConserving'
  BY <1>1 DEF WorkConserving
<1>2. ASSUME UNCHANGED <<tasks, Notifying>>, Waiting' \subseteq Waiting,
             Looking' = Looking \cup {w}
      PROVE  WorkConserving'
  <2>1. Cardinality(Looking') >= Cardinality(Looking)
    <3>1. Cardinality(Looking') =
            IF w \in Looking THEN Cardinality(Looking) ELSE Cardinality(Looking) + 1
      BY <1>2, FiniteCounts, FS_AddElement
    <3>2. QED BY <3>1, FiniteCounts
  <2>2. Len(tasks) \in Nat BY LenProperties DEF ControlInv, TypeInv
  <2>3. QED BY <1>0, <1>2, <2>1, <2>2, FiniteCounts DEF WorkConserving
<1>3. CASE AcquireLock(w)
  BY <1>1, <1>3 DEF AcquireLock, Looking, Notifying, Waiting, ControlInv, TypeInv
<1>4. CASE TestPredicate(w)
  <2>1. CASE WaitIsOver
    BY <1>1, <1>4, <2>1 DEF TestPredicate, Looking, Notifying, Waiting, ControlInv, TypeInv
  <2>2. CASE ~WaitIsOver
    BY <1>0, <1>4, <2>2 DEF TestPredicate, WaitIsOver
  <2>3. QED BY <2>1, <2>2
<1>5. CASE Sleep(w)
  BY <1>0, <1>5 DEF Sleep, ControlInv, QueueInv
<1>6. CASE Reacquire(w)
  BY <1>1, <1>6 DEF Reacquire, AfterWakeup, Looking, Notifying, Waiting, ControlInv, TypeInv
<1>7. CASE Return(w)
  BY <1>0, <1>7 DEF Return, MayLeave
<1>8. CASE TakeTask(w)
  <2>1. tasks # <<>> /\ tasks' = Tail(tasks)
    BY <1>8 DEF TakeTask, MayLeave, AfterPop, ControlInv, QueueInv
  <2>2. Len(tasks') = Len(tasks) - 1 /\ Len(tasks) \in Nat
    BY <2>1, HeadTailProperties, LenProperties DEF ControlInv, TypeInv
  <2>3. Looking' = Looking \ {w} /\ w \in Looking
    BY <1>8 DEF TakeTask, Looking, ControlInv, TypeInv
  <2>4. Cardinality(Looking') = Cardinality(Looking) - 1
    BY <2>3, FiniteCounts, FS_RemoveElement
  <2>5. Notifying' = Notifying /\ Waiting' = Waiting
    BY <1>8 DEF TakeTask, Notifying, Waiting, ControlInv, TypeInv
  <2>6. QED BY <2>2, <2>4, <2>5, FiniteCounts DEF WorkConserving
<1>9. CASE StartTask(w)
  BY <1>1, <1>9 DEF StartTask, Looking, Notifying, Waiting, ControlInv, TypeInv
<1>10. CASE ExecuteTask(w)
  BY <1>1, <1>10 DEF ExecuteTask, AfterTask, Looking, Notifying, Waiting, ControlInv, TypeInv
<1>11. CASE FinishTask(w)
  BY <1>2, <1>11 DEF FinishTask, Looking, Notifying, Waiting, ControlInv, TypeInv
<1>12. CASE SpuriousWakeup(w)
  BY <1>2, <1>12 DEF SpuriousWakeup, Looking, Notifying, Waiting, ControlInv, TypeInv
<1>13. QED
  BY <1>3, <1>4, <1>5, <1>6, <1>7, <1>8, <1>9, <1>10, <1>11, <1>12 DEF WorkerStep

\* submit adds one task and one notification, and the notification becomes an
\* awake worker unless none is blocked.
LEMMA SubmitConserves ==
  ASSUME ControlInv, WorkConserving, NEW s \in Submitters, BeginSubmit(s) \/ SubmitStep(s)
  PROVE  WorkConserving'
<1>1. ASSUME UNCHANGED <<tasks, wpc, Notifying>> PROVE WorkConserving'
  BY <1>1 DEF WorkConserving, Looking, Waiting
<1>2. CASE BeginSubmit(s)
  BY <1>1, <1>2 DEF BeginSubmit, Notifying, ControlInv, TypeInv
<1>3. CASE LockQueue(s)
  BY <1>1, <1>3 DEF LockQueue, Notifying, ControlInv, TypeInv
<1>4. CASE RejectTask(s)
  BY <1>1, <1>4 DEF RejectTask, Notifying, ControlInv, TypeInv
<1>5. CASE PassCheck(s)
  BY <1>1, <1>5 DEF PassCheck, Notifying, ControlInv, TypeInv
<1>6. CASE EmplaceTask(s)
  <2>0. tasks \in Seq(Tasks) /\ stask[s] \in Tasks /\ tasks' = Append(tasks, stask[s])
    BY <1>6 DEF EmplaceTask, ControlInv, TypeInv, CarryInv
  <2>1. Len(tasks') = Len(tasks) + 1 /\ Len(tasks) \in Nat
    BY <2>0, AppendProperties, LenProperties
  <2>2. Notifying' = Notifying \cup {s} /\ s \notin Notifying
    BY <1>6 DEF EmplaceTask, Notifying, ControlInv, TypeInv
  <2>3. Cardinality(Notifying') = Cardinality(Notifying) + 1
    BY <2>2, FiniteCounts, FS_AddElement
  <2>4. Looking' = Looking /\ Waiting' = Waiting
    BY <1>6 DEF EmplaceTask, Looking, Waiting
  <2>5. QED BY <2>1, <2>3, <2>4, FiniteCounts DEF WorkConserving
<1>7. CASE NotifyOne(s)
  <2>1. CASE Blocked = {} /\ UNCHANGED wpc
    BY <2>1 DEF Blocked, Waiting, WorkConserving
  <2>2. ASSUME NEW w \in Blocked, wpc' = [wpc EXCEPT ![w] = "woken"]
        PROVE  WorkConserving'
    <3>1. /\ Looking' = Looking \cup {w} /\ w \notin Looking
          /\ Waiting' \subseteq Waiting
      BY <2>2 DEF Blocked, Looking, Waiting, ControlInv, TypeInv
    <3>2. Notifying' = Notifying \ {s} /\ s \in Notifying
      BY <1>7 DEF NotifyOne, Notifying, ControlInv, TypeInv
    <3>3. Cardinality(Looking') = Cardinality(Looking) + 1
      BY <3>1, FiniteCounts, FS_AddElement
    <3>4. Cardinality(Notifying') = Cardinality(Notifying) - 1
      BY <3>2, FiniteCounts, FS_RemoveElement
    <3>5. tasks' = tasks /\ Len(tasks) \in Nat
      BY <1>7, LenProperties DEF NotifyOne, ControlInv, TypeInv
    <3>6. QED BY <3>1, <3>3, <3>4, <3>5, FiniteCounts DEF WorkConserving
  <2>3. QED BY <1>7, <2>1, <2>2 DEF NotifyOne
<1>8. QED BY <1>2, <1>3, <1>4, <1>5, <1>6, <1>7 DEF SubmitStep

\* shutdown blocks nobody.
LEMMA CloserConserves ==
  ASSUME ControlInv, WorkConserving, CloserStep
  PROVE  WorkConserving'
<1>1. CASE NotifyAll
  <2>1. Waiting' = {} BY <1>1 DEF NotifyAll, Waiting, ControlInv, TypeInv
  <2>2. QED BY <2>1 DEF WorkConserving
<1>2. CASE StoreStop \/ JoinAll
  BY <1>2 DEF StoreStop, JoinAll, WorkConserving, Looking, Waiting, Notifying
<1>3. QED BY <1>1, <1>2 DEF CloserStep

\* While a worker is blocked, queued tasks never outnumber the workers and
\* notifications on their way.
THEOREM WorkConservingHolds == Spec => []WorkConserving
<1>1. Init => WorkConserving
  BY EmptyQueueConserves DEF Init
<1>2. ControlInv /\ ControlInv' /\ WorkConserving /\ [Next]_vars => WorkConserving'
  <2>1. WorkConserving /\ UNCHANGED vars => WorkConserving'
    BY DEF vars, WorkConserving, Looking, Waiting, Notifying
  <2>2. QED BY <2>1, WorkerConserves, SubmitConserves, CloserConserves DEF Next
<1>3. QED BY <1>1, <1>2, ControlInvariant, PTL DEF Spec

-----------------------------------------------------------------------------
(* A task is executed once, and ThreadPool implements TaskPool.  The           *)
(* invariant that both need says where a task is, as a function of its fate.  *)

InHand(w) == wpc[w] \in {"starting", "running"}
Offering(s) == spc[s] \in {"locking", "checking", "emplacing"}

\* The queue holds queued tasks, each in one place.
QueuedOnce ==
  /\ \A i \in 1..Len(tasks) : fate[tasks[i]] = "queued"
  /\ \A i, j \in 1..Len(tasks) : tasks[i] = tasks[j] => i = j

\* A task being run is in the hands of one worker.
HeldOnce ==
  /\ \A w \in Workers : InHand(w) => fate[wtask[w]] = "running"
  /\ \A v, w \in Workers : InHand(v) /\ InHand(w) /\ wtask[v] = wtask[w] => v = w
  /\ \A w \in Workers : wpc[w] = "finishing" => fate[wtask[w]] \in {"value", "exception"}
  /\ \A w \in Workers : ~InHand(w) /\ wpc[w] # "finishing" => wtask[w] = NoTask

\* A task being submitted is offered by one caller.
OfferedOnce ==
  /\ \A s \in Submitters : Offering(s) => fate[stask[s]] = "offered"
  /\ \A r, s \in Submitters : Offering(r) /\ Offering(s) /\ stask[r] = stask[s] => r = s

FateInv == QueuedOnce /\ HeldOnce /\ OfferedOnce

\* Nothing has been submitted yet.
LEMMA InitFate == Init => FateInv
<1> SUFFICES ASSUME Init PROVE FateInv OBVIOUS
<1>1. QueuedOnce
  <2>1. Len(tasks) = 0 BY EmptySeq DEF Init
  <2>2. QED BY <2>1 DEF QueuedOnce
<1>2. HeldOnce /\ OfferedOnce
  BY DEF Init, HeldOnce, OfferedOnce, InHand, Offering
<1>3. QED BY <1>1, <1>2 DEF FateInv

\* Steps that move no task leave the fates alone.
LEMMA QuietFate ==
  ASSUME FateInv, UNCHANGED <<tasks, fate, wtask, stask>>,
         \A w \in Workers : InHand(w)' <=> InHand(w),
         \A w \in Workers : wpc'[w] = "finishing" <=> wpc[w] = "finishing",
         \A s \in Submitters : Offering(s)' => Offering(s)
  PROVE  FateInv'
<1>1. QueuedOnce' BY DEF FateInv, QueuedOnce
<1>2. HeldOnce' BY DEF FateInv, HeldOnce, InHand
<1>3. OfferedOnce' BY DEF FateInv, OfferedOnce, Offering
<1>4. QED BY <1>1, <1>2, <1>3 DEF FateInv

\* Every step of worker_loop preserves the invariant.
LEMMA WorkerFate ==
  ASSUME ControlInv, FateInv, NEW w \in Workers, WorkerStep(w) \/ SpuriousWakeup(w)
  PROVE  FateInv'
<1> USE DEF ControlInv, TypeInv
<1>1. CASE AcquireLock(w)   BY <1>1, QuietFate DEF AcquireLock, InHand, Offering
<1>2. CASE TestPredicate(w) BY <1>2, QuietFate DEF TestPredicate, InHand, Offering
<1>3. CASE Sleep(w)         BY <1>3, QuietFate DEF Sleep, InHand, Offering
<1>4. CASE Reacquire(w)     BY <1>4, QuietFate DEF Reacquire, AfterWakeup, InHand, Offering
<1>5. CASE Return(w)        BY <1>5, QuietFate DEF Return, InHand, Offering
<1>6. CASE TakeTask(w)
  <2>1. tasks # <<>> BY <1>6 DEF TakeTask, MayLeave, QueueInv
  <2> DEFINE h == Head(tasks)
  <2>2. /\ tasks' = Tail(tasks) /\ wpc' = [wpc EXCEPT ![w] = "starting"]
        /\ wtask' = [wtask EXCEPT ![w] = h] /\ fate' = [fate EXCEPT ![h] = "running"]
        /\ UNCHANGED <<spc, stask>> /\ wpc[w] = "taking"
    BY <1>6, <2>1 DEF TakeTask, AfterPop
  <2>3. /\ h = tasks[1] /\ h \in Tasks /\ Len(tasks) \in Nat \ {0}
        /\ Len(tasks') = Len(tasks) - 1
        /\ \A i \in 1..Len(tasks') : tasks'[i] = tasks[i+1] /\ tasks[i+1] \in Tasks
    BY <2>1, <2>2, HeadTailProperties, LenProperties, EmptySeq, ElementOfSeq
  <2>4. fate[h] = "queued" BY <2>3 DEF FateInv, QueuedOnce
  <2>5. \A i \in 1..Len(tasks') : tasks'[i] # h /\ fate[tasks'[i]] = "queued"
    BY <2>3 DEF FateInv, QueuedOnce
  <2>6. QueuedOnce'
    BY <2>2, <2>3, <2>5 DEF FateInv, QueuedOnce
  <2>7. HeldOnce'
    BY <2>2, <2>3, <2>4 DEF FateInv, HeldOnce, InHand, CarryInv
  <2>8. OfferedOnce'
    BY <2>2, <2>3, <2>4 DEF FateInv, OfferedOnce, Offering, CarryInv
  <2>9. QED BY <2>6, <2>7, <2>8 DEF FateInv
<1>7. CASE StartTask(w)     BY <1>7, QuietFate DEF StartTask, InHand, Offering
<1>8. CASE ExecuteTask(w)
  <2> PICK outcome \in {"value", "exception"} :
        /\ fate' = [fate EXCEPT ![wtask[w]] = outcome]
        /\ wpc' = [wpc EXCEPT ![w] = "finishing"]
    BY <1>8 DEF ExecuteTask, AfterTask
  <2>1. /\ wpc[w] = "running" /\ UNCHANGED <<tasks, wtask, spc, stask>>
        /\ wtask[w] \in Tasks /\ fate[wtask[w]] = "running"
    BY <1>8 DEF ExecuteTask, FateInv, HeldOnce, InHand, CarryInv
  <2>2. QueuedOnce'
    <3>1. \A i \in 1..Len(tasks) : tasks[i] # wtask[w]
      BY <2>1 DEF FateInv, QueuedOnce
    <3>2. \A i \in 1..Len(tasks) : tasks[i] \in Tasks BY ElementOfSeq
    <3>3. QED BY <2>1, <3>1, <3>2 DEF FateInv, QueuedOnce
  <2>3. HeldOnce' BY <2>1 DEF FateInv, HeldOnce, InHand, CarryInv
  <2>4. OfferedOnce' BY <2>1 DEF FateInv, OfferedOnce, Offering, CarryInv
  <2>5. QED BY <2>2, <2>3, <2>4 DEF FateInv
<1>9. CASE FinishTask(w)
  <2>1. QueuedOnce' /\ OfferedOnce'
    BY <1>9 DEF FinishTask, FateInv, QueuedOnce, OfferedOnce, Offering
  <2>2. HeldOnce' BY <1>9 DEF FinishTask, FateInv, HeldOnce, InHand
  <2>3. QED BY <2>1, <2>2 DEF FateInv
<1>10. CASE SpuriousWakeup(w) BY <1>10, QuietFate DEF SpuriousWakeup, InHand, Offering
<1>11. QED
  BY <1>1, <1>2, <1>3, <1>4, <1>5, <1>6, <1>7, <1>8, <1>9, <1>10 DEF WorkerStep

\* Every step of submit preserves the invariant.
LEMMA SubmitFate ==
  ASSUME ControlInv, FateInv, NEW s \in Submitters, BeginSubmit(s) \/ SubmitStep(s)
  PROVE  FateInv'
<1> USE DEF ControlInv, TypeInv
<1>0. \A i \in 1..Len(tasks) : tasks[i] \in Tasks BY ElementOfSeq
<1>1. CASE BeginSubmit(s)
  <2> PICK t \in Tasks : /\ fate[t] = "new"
                         /\ fate' = [fate EXCEPT ![t] = "offered"]
                         /\ stask' = [stask EXCEPT ![s] = t]
    BY <1>1 DEF BeginSubmit
  <2>1. spc' = [spc EXCEPT ![s] = "locking"] /\ UNCHANGED <<tasks, wpc, wtask>>
    BY <1>1 DEF BeginSubmit
  <2>2. QueuedOnce' BY <1>0, <2>1 DEF FateInv, QueuedOnce
  <2>3. HeldOnce' BY <2>1 DEF FateInv, HeldOnce, InHand, CarryInv
  <2>4. OfferedOnce' BY <2>1 DEF FateInv, OfferedOnce, Offering, CarryInv
  <2>5. QED BY <2>2, <2>3, <2>4 DEF FateInv
<1>2. CASE LockQueue(s) BY <1>2, QuietFate DEF LockQueue, InHand, Offering
<1>3. CASE RejectTask(s)
  <2>1. fate[stask[s]] = "offered" /\ stask[s] \in Tasks
    BY <1>3 DEF RejectTask, FateInv, OfferedOnce, Offering, CarryInv
  <2>2. QueuedOnce' BY <1>0, <1>3, <2>1 DEF RejectTask, FateInv, QueuedOnce
  <2>3. HeldOnce' BY <1>3, <2>1 DEF RejectTask, FateInv, HeldOnce, InHand, CarryInv
  <2>4. OfferedOnce' BY <1>3, <2>1 DEF RejectTask, FateInv, OfferedOnce, Offering, CarryInv
  <2>5. QED BY <2>2, <2>3, <2>4 DEF FateInv
<1>4. CASE PassCheck(s) BY <1>4, QuietFate DEF PassCheck, InHand, Offering
<1>5. CASE EmplaceTask(s)
  <2> DEFINE t == stask[s]
  <2>1. fate[t] = "offered" /\ t \in Tasks
    BY <1>5 DEF EmplaceTask, FateInv, OfferedOnce, Offering, CarryInv
  <2>2. /\ tasks' = Append(tasks, t) /\ fate' = [fate EXCEPT ![t] = "queued"]
        /\ UNCHANGED <<wpc, wtask>> /\ stask' = [stask EXCEPT ![s] = NoTask]
        /\ spc' = [spc EXCEPT ![s] = "notifying"] /\ spc[s] = "emplacing"
    BY <1>5 DEF EmplaceTask
  <2>3. /\ Len(tasks') = Len(tasks) + 1 /\ Len(tasks) \in Nat
        /\ \A i \in 1..Len(tasks) : tasks'[i] = tasks[i]
        /\ tasks'[Len(tasks) + 1] = t
    BY <2>1, <2>2, AppendProperties, LenProperties
  <2>4. \A i \in 1..Len(tasks) : tasks[i] # t BY <2>1 DEF FateInv, QueuedOnce
  <2>5. QueuedOnce'
    <3>1. \A i \in 1..Len(tasks') : i \in 1..Len(tasks) \/ i = Len(tasks) + 1
      BY <2>3
    <3>2. \A i \in 1..Len(tasks) : fate'[tasks'[i]] = "queued"
      BY <1>0, <2>2, <2>3, <2>4 DEF FateInv, QueuedOnce
    <3>3. fate'[tasks'[Len(tasks) + 1]] = "queued" BY <2>1, <2>2, <2>3
    <3>4. \A i, j \in 1..Len(tasks') : tasks'[i] = tasks'[j] => i = j
      BY <2>3, <2>4, <3>1 DEF FateInv, QueuedOnce
    <3>5. QED BY <3>1, <3>2, <3>3, <3>4 DEF QueuedOnce
  <2>6. HeldOnce' BY <2>1, <2>2 DEF FateInv, HeldOnce, InHand, CarryInv
  <2>7. OfferedOnce' BY <2>1, <2>2 DEF FateInv, OfferedOnce, Offering, CarryInv
  <2>8. QED BY <2>5, <2>6, <2>7 DEF FateInv
<1>6. CASE NotifyOne(s) BY <1>6, QuietFate DEF NotifyOne, Blocked, InHand, Offering
<1>7. QED BY <1>1, <1>2, <1>3, <1>4, <1>5, <1>6 DEF SubmitStep

\* Where a task is always agrees with its fate.
THEOREM FateInvariant == Spec => [](ControlInv /\ FateInv)
<1>1. ASSUME ControlInv, FateInv, CloserStep PROVE FateInv'
  <2>1. CASE StoreStop \/ JoinAll
    BY <1>1, <2>1, QuietFate DEF StoreStop, JoinAll, InHand, Offering
  <2>2. CASE NotifyAll
    BY <1>1, <2>2, QuietFate DEF NotifyAll, InHand, Offering, ControlInv, TypeInv
  <2>3. QED BY <1>1, <2>1, <2>2 DEF CloserStep
<1>2. ASSUME FateInv, UNCHANGED vars PROVE FateInv'
  BY <1>2, QuietFate DEF vars, InHand, Offering
<1>3. ControlInv /\ FateInv /\ [Next]_vars => FateInv'
  BY <1>1, <1>2, WorkerFate, SubmitFate DEF Next
<1>4. QED BY <1>3, InitFate, ControlInvariant, PTL DEF Spec

-----------------------------------------------------------------------------
(* A task runs once *)

\* The fates a step may change, and how.
FateStep ==
  \A t \in Tasks :
    /\ (fate[t] \in Settled) => (fate'[t] = fate[t])
    /\ (fate[t] = "running") => (fate'[t] \in {"running", "value", "exception"})
    /\ (fate'[t] = "running" /\ fate[t] # "running") =>
         (fate[t] = "queued" /\ \A w \in Workers : wtask[w] # t)

\* Every step of the pool is such a step.
LEMMA FateStepHolds ==
  ASSUME ControlInv, FateInv, [Next]_vars
  PROVE  FateStep
<1> USE DEF ControlInv, TypeInv
<1>1. ASSUME UNCHANGED fate PROVE FateStep BY <1>1 DEF FateStep, Settled
<1>2. ASSUME NEW w \in Workers, TakeTask(w) PROVE FateStep
  <2>1. tasks # <<>> BY <1>2 DEF TakeTask, MayLeave, QueueInv
  <2> DEFINE h == Head(tasks)
  <2>2. fate' = [fate EXCEPT ![h] = "running"] BY <1>2, <2>1 DEF TakeTask
  <2>3. h \in Tasks /\ fate[h] = "queued"
    <3>1. h = tasks[1] /\ h \in Tasks /\ Len(tasks) \in Nat \ {0}
      BY <2>1, HeadTailProperties, LenProperties, EmptySeq
    <3>2. QED BY <3>1 DEF FateInv, QueuedOnce
  <2>4. \A v \in Workers : wtask[v] # h
    BY <2>3, PoolAssumption DEF FateInv, HeldOnce, InHand
  <2>5. QED BY <2>2, <2>3, <2>4 DEF FateStep, Settled
<1>3. ASSUME NEW w \in Workers, ExecuteTask(w) PROVE FateStep
  <2>1. fate[wtask[w]] = "running" BY <1>3 DEF ExecuteTask, FateInv, HeldOnce, InHand
  <2>2. QED BY <1>3, <2>1 DEF ExecuteTask, FateStep, Settled
<1>4. ASSUME NEW w \in Workers, WorkerStep(w) \/ SpuriousWakeup(w) PROVE FateStep
  BY <1>1, <1>2, <1>3, <1>4
  DEF WorkerStep, SpuriousWakeup, AcquireLock, TestPredicate, Sleep, Reacquire, Return,
      StartTask, FinishTask
<1>5. ASSUME NEW s \in Submitters, BeginSubmit(s) \/ SubmitStep(s) PROVE FateStep
  <2>1. CASE BeginSubmit(s) BY <2>1 DEF BeginSubmit, FateStep, Settled
  <2>2. CASE RejectTask(s) \/ EmplaceTask(s)
    <3>1. fate[stask[s]] = "offered"
      BY <2>2 DEF RejectTask, EmplaceTask, FateInv, OfferedOnce, Offering
    <3>2. QED BY <2>2, <3>1 DEF RejectTask, EmplaceTask, FateStep, Settled
  <2>3. CASE LockQueue(s) \/ PassCheck(s) \/ NotifyOne(s)
    BY <1>1, <2>3 DEF LockQueue, PassCheck, NotifyOne
  <2>4. QED BY <1>5, <2>1, <2>2, <2>3 DEF SubmitStep
<1>6. ASSUME CloserStep PROVE FateStep
  BY <1>1, <1>6 DEF CloserStep, StoreStop, NotifyAll, JoinAll
<1>7. QED BY <1>1, <1>4, <1>5, <1>6 DEF Next, vars

\* A task leaves the queue once, runs in one worker and settles for good.
THEOREM RunsOnceHolds == Spec => RunsOnce
<1>1. ControlInv /\ FateInv /\ [Next]_vars => [FateStep]_vars
  BY FateStepHolds
<1>2. Spec => [][FateStep]_vars
  BY <1>1, FateInvariant, PTL DEF Spec
<1>3. QED BY <1>2 DEF RunsOnce, FateStep

-----------------------------------------------------------------------------
(* ThreadPool implements TaskPool *)

\* The initial states map to initial states.
LEMMA InitMaps == Init => Pool!Init
BY PoolAssumption DEF Init, Pool!Init, Executing, Promised, SomeExited

\* A step that changes nothing TaskPool sees is a stutter there.
LEMMA StutterMaps ==
  ASSUME ControlInv, UNCHANGED <<tasks, stop, fate>>,
         \A w \in Workers : InHand(w)' <=> InHand(w),
         \A w \in Workers : InHand(w) => wtask'[w] = wtask[w],
         \A w \in Workers : wpc'[w] = "exited" <=> wpc[w] = "exited"
  PROVE  UNCHANGED Pool!absVars
<1>1. Executing' = Executing BY DEF Executing, InHand
<1>2. Promised' = Promised BY DEF Promised
<1>3. SomeExited' = SomeExited BY DEF SomeExited
<1>4. QED BY <1>1, <1>2, <1>3 DEF Pool!absVars

\* Every step of worker_loop maps to a step or a stutter.
LEMMA WorkerMaps ==
  ASSUME ControlInv, FateInv, NEW w \in Workers, WorkerStep(w) \/ SpuriousWakeup(w)
  PROVE  [Pool!Next]_(Pool!absVars)
<1> USE DEF ControlInv, TypeInv
<1>1. CASE AcquireLock(w)   BY <1>1, StutterMaps DEF AcquireLock, InHand
<1>2. CASE TestPredicate(w) BY <1>2, StutterMaps DEF TestPredicate, InHand
<1>3. CASE Sleep(w)         BY <1>3, StutterMaps DEF Sleep, InHand
<1>4. CASE Reacquire(w)     BY <1>4, StutterMaps DEF Reacquire, AfterWakeup, InHand
<1>5. CASE Return(w)
  <2>1. Pool!Seal
    <3>1. Executing' = Executing /\ Promised' = Promised /\ SomeExited'
      BY <1>5 DEF Return, Executing, Promised, SomeExited
    <3>2. QED BY <1>5, <3>1 DEF Return, MayLeave, Pool!Seal
  <2>2. QED BY <2>1 DEF Pool!Next
<1>6. CASE TakeTask(w)
  <2>1. tasks # <<>> BY <1>6 DEF TakeTask, MayLeave, QueueInv
  <2>2. Head(tasks) \in Tasks BY <2>1, HeadTailProperties
  <2>3. Pool!Start(w)
    <3>1. /\ wpc[w] = "taking" /\ wpc' = [wpc EXCEPT ![w] = "starting"]
          /\ wtask' = [wtask EXCEPT ![w] = Head(tasks)]
          /\ fate' = [fate EXCEPT ![Head(tasks)] = "running"]
          /\ tasks' = Tail(tasks) /\ UNCHANGED stop
      BY <1>6, <2>1 DEF TakeTask, AfterPop
    <3>2. Executing[w] = NoTask /\ Executing' = [Executing EXCEPT ![w] = Head(tasks)]
      BY <3>1 DEF Executing
    <3>3. Promised' = [Promised EXCEPT ![Head(tasks)] = "running"]
      BY <2>2, <3>1 DEF Promised
    <3>4. SomeExited' = SomeExited BY <3>1 DEF SomeExited
    <3>5. QED BY <2>1, <3>1, <3>2, <3>3, <3>4 DEF Pool!Start
  <2>4. QED BY <2>3 DEF Pool!Next
<1>7. CASE StartTask(w)     BY <1>7, StutterMaps DEF StartTask, InHand
<1>8. CASE ExecuteTask(w)
  <2>1. Pool!Finish(w)
    <3> PICK outcome \in {"value", "exception"} :
          /\ fate' = [fate EXCEPT ![wtask[w]] = outcome]
          /\ wpc' = [wpc EXCEPT ![w] = "finishing"]
      BY <1>8 DEF ExecuteTask, AfterTask
    <3>1. wpc[w] = "running" /\ wtask[w] \in Tasks /\ UNCHANGED <<tasks, stop, wtask>>
      BY <1>8 DEF ExecuteTask, CarryInv
    <3>2. Executing[w] = wtask[w] /\ Executing' = [Executing EXCEPT ![w] = NoTask]
      BY <3>1 DEF Executing
    <3>3. Promised' = [Promised EXCEPT ![Executing[w]] = outcome]
      BY <3>1, <3>2 DEF Promised
    <3>4. SomeExited' = SomeExited BY <3>1 DEF SomeExited
    <3>5. Executing[w] # NoTask BY <3>1, <3>2, PoolAssumption
    <3>6. QED BY <3>1, <3>2, <3>3, <3>4, <3>5 DEF Pool!Finish
  <2>2. QED BY <2>1 DEF Pool!Next
<1>9. CASE FinishTask(w)    BY <1>9, StutterMaps DEF FinishTask, InHand
<1>10. CASE SpuriousWakeup(w) BY <1>10, StutterMaps DEF SpuriousWakeup, InHand
<1>11. QED
  BY <1>1, <1>2, <1>3, <1>4, <1>5, <1>6, <1>7, <1>8, <1>9, <1>10 DEF WorkerStep

\* Every step of submit maps to a step or a stutter.
LEMMA SubmitMaps ==
  ASSUME ControlInv, FateInv, NEW s \in Submitters, BeginSubmit(s) \/ SubmitStep(s)
  PROVE  [Pool!Next]_(Pool!absVars)
<1> USE DEF ControlInv, TypeInv
<1>1. CASE BeginSubmit(s)
  <2>1. Promised' = Promised BY <1>1 DEF BeginSubmit, Promised
  <2>2. UNCHANGED <<tasks, Executing, stop, SomeExited>>
    BY <1>1 DEF BeginSubmit, Executing, SomeExited
  <2>3. QED BY <2>1, <2>2 DEF Pool!absVars
<1>2. CASE LockQueue(s) BY <1>2, StutterMaps DEF LockQueue, InHand
<1>3. CASE RejectTask(s)
  <2>1. fate[stask[s]] = "offered" /\ stask[s] \in Tasks
    BY <1>3 DEF RejectTask, FateInv, OfferedOnce, Offering, CarryInv
  <2>2. Pool!Reject(stask[s])
    <3>1. /\ Promised[stask[s]] = "new"
          /\ Promised' = [Promised EXCEPT ![stask[s]] = "rejected"]
      BY <1>3, <2>1 DEF RejectTask, Promised
    <3>2. UNCHANGED <<tasks, Executing, stop, SomeExited>>
      BY <1>3 DEF RejectTask, Executing, SomeExited
    <3>3. QED BY <1>3, <3>1, <3>2 DEF RejectTask, Pool!Reject
  <2>3. \E t \in Tasks : Pool!Reject(t) BY <2>1, <2>2, Zenon
  <2>4. QED BY <2>3 DEF Pool!Next
<1>4. CASE PassCheck(s) BY <1>4, StutterMaps DEF PassCheck, InHand
<1>5. CASE EmplaceTask(s)
  <2>1. fate[stask[s]] = "offered" /\ stask[s] \in Tasks
    BY <1>5 DEF EmplaceTask, FateInv, OfferedOnce, Offering, CarryInv
  <2>2. ~\E w \in Workers : wpc[w] = "exited"
    BY <1>5 DEF EmplaceTask, QueueInv, DrainedAtExit
  <2>3. Pool!Accept(stask[s])
    <3>1. /\ Promised[stask[s]] = "new"
          /\ Promised' = [Promised EXCEPT ![stask[s]] = "queued"]
      BY <1>5, <2>1 DEF EmplaceTask, Promised
    <3>2. UNCHANGED <<Executing, stop, SomeExited>> /\ ~SomeExited
      BY <1>5, <2>2 DEF EmplaceTask, Executing, SomeExited
    <3>3. QED BY <1>5, <3>1, <3>2 DEF EmplaceTask, Pool!Accept
  <2>4. \E t \in Tasks : Pool!Accept(t) BY <2>1, <2>3, Zenon
  <2>5. QED BY <2>4 DEF Pool!Next
<1>6. CASE NotifyOne(s) BY <1>6, StutterMaps DEF NotifyOne, Blocked, InHand
<1>7. QED BY <1>1, <1>2, <1>3, <1>4, <1>5, <1>6 DEF SubmitStep

\* Every step of shutdown maps to a step or a stutter: storing stop_ is Close,
\* once.
LEMMA CloserMaps ==
  ASSUME ControlInv, CloserStep
  PROVE  [Pool!Next]_(Pool!absVars)
<1> USE DEF ControlInv, TypeInv
<1>1. CASE StoreStop
  <2>1. CASE stop BY <1>1, <2>1, StutterMaps DEF StoreStop, InHand
  <2>2. CASE ~stop
    <3>1. UNCHANGED <<Executing, Promised, SomeExited>>
      BY <1>1 DEF StoreStop, Executing, Promised, SomeExited
    <3>2. Pool!Close BY <1>1, <2>2, <3>1 DEF StoreStop, Pool!Close
    <3>3. QED BY <3>2 DEF Pool!Next
  <2>3. QED BY <2>1, <2>2
<1>2. CASE NotifyAll BY <1>2, StutterMaps DEF NotifyAll, InHand
<1>3. CASE JoinAll BY <1>3, StutterMaps DEF JoinAll, InHand
<1>4. QED BY <1>1, <1>2, <1>3 DEF CloserStep

\* Every behaviour of the pool is a behaviour of TaskPool.
THEOREM PoolImplementsTaskPool == Spec => ImplementsTaskPool
<1>1. ControlInv /\ UNCHANGED vars => UNCHANGED Pool!absVars
  BY DEF vars, Pool!absVars, Executing, Promised, SomeExited
<1>2. ControlInv /\ FateInv /\ [Next]_vars => [Pool!Next]_(Pool!absVars)
  BY <1>1, WorkerMaps, SubmitMaps, CloserMaps DEF Next
<1>3. QED
  BY <1>2, InitMaps, FateInvariant, PTL DEF Spec, ImplementsTaskPool, Pool!Spec
=============================================================================
