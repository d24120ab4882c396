----------------------------- MODULE ThreadPool -----------------------------
(***************************************************************************)
(* hphttp::ThreadPool: worker_loop, submit and shutdown, at the grain of    *)
(* the operations on queue_mutex_, condition_, stop_ and active_tasks_.     *)
(*                                                                          *)
(* condition_.wait(lock, pred) is the loop the standard defines: test the   *)
(* predicate with the mutex held; when it is false release the mutex and    *)
(* block in one step; when woken take the mutex again and test again.  The  *)
(* set of blocked threads is {w : wpc[w] = "waiting"}.  stop_ is written by *)
(* shutdown without the mutex, so it may change between any two steps.      *)
(*                                                                          *)
(* fate[t] is what the future returned by submit says of the task.          *)
(***************************************************************************)
EXTENDS Integers, Sequences, FiniteSets

CONSTANTS Workers, Submitters, Tasks, NoThread, NoTask

ASSUME PoolAssumption ==
  /\ IsFiniteSet(Workers) /\ Workers # {} /\ IsFiniteSet(Submitters)
  /\ Workers \cap Submitters = {}
  /\ NoThread \notin Workers \cup Submitters
  /\ NoTask \notin Tasks

VARIABLES
  tasks,        \* tasks_, oldest first
  queueMutex,   \* the holder of queue_mutex_, or NoThread
  stop,         \* stop_
  activeTasks,  \* active_tasks_
  wpc, wtask,   \* where each worker is in worker_loop, and its local `task`
  spc, stask,   \* where each caller is in submit, and the task it submits
  jpc,          \* where the one caller of shutdown is
  fate          \* the futures

vars == <<tasks, queueMutex, stop, activeTasks, wpc, wtask, spc, stask, jpc, fate>>

WorkerPC == {"locking", "testing", "sleeping", "waiting", "woken", "taking",
             "starting", "running", "finishing", "exited"}
SubmitPC == {"idle", "locking", "checking", "emplacing", "notifying"}
CloserPC == {"idle", "notify", "join", "done"}
Fates == {"new", "offered", "queued", "running", "value", "exception", "rejected"}

Init ==
  /\ tasks = <<>>
  /\ queueMutex = NoThread
  /\ stop = FALSE
  /\ activeTasks = 0
  /\ wpc = [w \in Workers |-> "locking"]
  /\ wtask = [w \in Workers |-> NoTask]
  /\ spc = [s \in Submitters |-> "idle"]
  /\ stask = [s \in Submitters |-> NoTask]
  /\ jpc = "idle"
  /\ fate = [t \in Tasks |-> "new"]

-----------------------------------------------------------------------------
(* worker_loop.  Here and below, a definition whose comment begins with     *)
(* `mutant' is not part of the model: it is the definition after it as a    *)
(* plausible bug would have it, used to see that a property can fail.       *)

\* the unique_lock at the top of the loop
AcquireLock(w) ==
  /\ wpc[w] = "locking"
  /\ queueMutex = NoThread
  /\ queueMutex' = w
  /\ wpc' = [wpc EXCEPT ![w] = "testing"]
  /\ UNCHANGED <<tasks, stop, activeTasks, wtask, spc, stask, jpc, fate>>

\* mutant: only a task ends the wait
TaskOnly == tasks # <<>>
WaitIsOver == stop \/ tasks # <<>>

TestPredicate(w) ==
  /\ wpc[w] = "testing"
  /\ wpc' = [wpc EXCEPT ![w] = IF WaitIsOver THEN "taking" ELSE "sleeping"]
  /\ UNCHANGED <<tasks, queueMutex, stop, activeTasks, wtask, spc, stask, jpc, fate>>

\* wait() releases the mutex and blocks, in one step
Sleep(w) ==
  /\ wpc[w] = "sleeping"
  /\ queueMutex' = NoThread
  /\ wpc' = [wpc EXCEPT ![w] = "waiting"]
  /\ UNCHANGED <<tasks, stop, activeTasks, wtask, spc, stask, jpc, fate>>

\* the standard lets a blocked thread wake without a notification
SpuriousWakeup(w) ==
  /\ wpc[w] = "waiting"
  /\ wpc' = [wpc EXCEPT ![w] = "woken"]
  /\ UNCHANGED <<tasks, queueMutex, stop, activeTasks, wtask, spc, stask, jpc, fate>>

\* mutant: `if` where wait() has `while`
AfterWakeupUntested == "taking"
AfterWakeup == "testing"

\* inside wait(), a woken thread takes the mutex before it looks again
Reacquire(w) ==
  /\ wpc[w] = "woken"
  /\ queueMutex = NoThread
  /\ queueMutex' = w
  /\ wpc' = [wpc EXCEPT ![w] = AfterWakeup]
  /\ UNCHANGED <<tasks, stop, activeTasks, wtask, spc, stask, jpc, fate>>

\* mutant: the queue is not drained
MayLeaveAtOnce == stop
MayLeave == stop /\ tasks = <<>>

Return(w) ==
  /\ wpc[w] = "taking"
  /\ MayLeave
  /\ queueMutex' = NoThread
  /\ wpc' = [wpc EXCEPT ![w] = "exited"]
  /\ UNCHANGED <<tasks, stop, activeTasks, wtask, spc, stask, jpc, fate>>

\* mutant: pop() forgotten
KeepFront == tasks
AfterPop == Tail(tasks)

\* front() of an empty queue is undefined: it leaves the worker no task at all
TakeTask(w) ==
  /\ wpc[w] = "taking"
  /\ ~MayLeave
  /\ IF tasks = <<>>
     THEN wtask' = [wtask EXCEPT ![w] = NoTask] /\ UNCHANGED <<tasks, fate>>
     ELSE /\ wtask' = [wtask EXCEPT ![w] = Head(tasks)]
          /\ fate' = [fate EXCEPT ![Head(tasks)] = "running"]
          /\ tasks' = AfterPop
  /\ queueMutex' = NoThread
  /\ wpc' = [wpc EXCEPT ![w] = "starting"]
  /\ UNCHANGED <<stop, activeTasks, spc, stask, jpc>>

\* mutant: the increment is lost
NotCounted == activeTasks
Counted == activeTasks + 1

StartTask(w) ==
  /\ wpc[w] = "starting"
  /\ activeTasks' = Counted
  /\ wpc' = [wpc EXCEPT ![w] = "running"]
  /\ UNCHANGED <<tasks, queueMutex, stop, wtask, spc, stask, jpc, fate>>

\* mutants: the exception escapes from task() and skips the decrement, or
\* ends the thread
SkipsDecrement(outcome) == IF outcome = "value" THEN "finishing" ELSE "locking"
KillsWorker(outcome) == IF outcome = "value" THEN "finishing" ELSE "exited"
AfterTask(outcome) == "finishing"

\* task(): the packaged_task keeps a value or an exception for the future and
\* lets nothing escape into the loop
ExecuteTask(w) ==
  /\ wpc[w] = "running"
  /\ \E outcome \in {"value", "exception"} :
        /\ fate' = [fate EXCEPT ![wtask[w]] = outcome]
        /\ wpc' = [wpc EXCEPT ![w] = AfterTask(outcome)]
  /\ UNCHANGED <<tasks, queueMutex, stop, activeTasks, wtask, spc, stask, jpc>>

FinishTask(w) ==
  /\ wpc[w] = "finishing"
  /\ activeTasks' = activeTasks - 1
  /\ wtask' = [wtask EXCEPT ![w] = NoTask]
  /\ wpc' = [wpc EXCEPT ![w] = "locking"]
  /\ UNCHANGED <<tasks, queueMutex, stop, spc, stask, jpc, fate>>

-----------------------------------------------------------------------------
(* submit *)

BeginSubmit(s) ==
  /\ spc[s] = "idle"
  /\ \E t \in Tasks :
       /\ fate[t] = "new"
       /\ fate' = [fate EXCEPT ![t] = "offered"]
       /\ stask' = [stask EXCEPT ![s] = t]
  /\ spc' = [spc EXCEPT ![s] = "locking"]
  /\ UNCHANGED <<tasks, queueMutex, stop, activeTasks, wpc, wtask, jpc>>

LockQueue(s) ==
  /\ spc[s] = "locking"
  /\ queueMutex = NoThread
  /\ queueMutex' = s
  /\ spc' = [spc EXCEPT ![s] = "checking"]
  /\ UNCHANGED <<tasks, stop, activeTasks, wpc, wtask, stask, jpc, fate>>

\* throw std::runtime_error("ThreadPool is stopped"); the guard unlocks
RejectTask(s) ==
  /\ spc[s] = "checking"
  /\ stop
  /\ fate' = [fate EXCEPT ![stask[s]] = "rejected"]
  /\ queueMutex' = NoThread
  /\ stask' = [stask EXCEPT ![s] = NoTask]
  /\ spc' = [spc EXCEPT ![s] = "idle"]
  /\ UNCHANGED <<tasks, stop, activeTasks, wpc, wtask, jpc>>

\* mutant: a stopped pool still accepts
AcceptsAlways == TRUE
Accepts == ~stop

PassCheck(s) ==
  /\ spc[s] = "checking"
  /\ Accepts
  /\ spc' = [spc EXCEPT ![s] = "emplacing"]
  /\ UNCHANGED <<tasks, queueMutex, stop, activeTasks, wpc, wtask, stask, jpc, fate>>

EmplaceTask(s) ==
  /\ spc[s] = "emplacing"
  /\ tasks' = Append(tasks, stask[s])
  /\ fate' = [fate EXCEPT ![stask[s]] = "queued"]
  /\ queueMutex' = NoThread
  /\ stask' = [stask EXCEPT ![s] = NoTask]
  /\ spc' = [spc EXCEPT ![s] = "notifying"]
  /\ UNCHANGED <<stop, activeTasks, wpc, wtask, jpc>>

\* mutant: only a pool with no busy worker is notified
BlockedIfIdle == {w \in Workers : wpc[w] = "waiting" /\ activeTasks = 0}
Blocked == {w \in Workers : wpc[w] = "waiting"}

\* notify_one wakes some blocked worker, or does nothing when none is blocked
NotifyOne(s) ==
  /\ spc[s] = "notifying"
  /\ \/ \E w \in Blocked : wpc' = [wpc EXCEPT ![w] = "woken"]
     \/ Blocked = {} /\ UNCHANGED wpc
  /\ spc' = [spc EXCEPT ![s] = "idle"]
  /\ UNCHANGED <<tasks, queueMutex, stop, activeTasks, wtask, stask, jpc, fate>>

-----------------------------------------------------------------------------
(* shutdown *)

StoreStop ==
  /\ jpc = "idle"
  /\ stop' = TRUE
  /\ jpc' = "notify"
  /\ UNCHANGED <<tasks, queueMutex, activeTasks, wpc, wtask, spc, stask, fate>>

NotifyAll ==
  /\ jpc = "notify"
  /\ wpc' = [w \in Workers |-> IF wpc[w] = "waiting" THEN "woken" ELSE wpc[w]]
  /\ jpc' = "join"
  /\ UNCHANGED <<tasks, queueMutex, stop, activeTasks, wtask, spc, stask, fate>>

JoinAll ==
  /\ jpc = "join"
  /\ \A w \in Workers : wpc[w] = "exited"
  /\ jpc' = "done"
  /\ UNCHANGED <<tasks, queueMutex, stop, activeTasks, wpc, wtask, spc, stask, fate>>

-----------------------------------------------------------------------------
WorkerStep(w) ==
  \/ AcquireLock(w) \/ TestPredicate(w) \/ Sleep(w) \/ Reacquire(w) \/ Return(w)
  \/ TakeTask(w) \/ StartTask(w) \/ ExecuteTask(w) \/ FinishTask(w)

SubmitStep(s) ==
  \/ LockQueue(s) \/ RejectTask(s) \/ PassCheck(s) \/ EmplaceTask(s) \/ NotifyOne(s)

CloserStep == StoreStop \/ NotifyAll \/ JoinAll

Next ==
  \/ \E w \in Workers : WorkerStep(w) \/ SpuriousWakeup(w)
  \/ \E s \in Submitters : BeginSubmit(s) \/ SubmitStep(s)
  \/ CloserStep

Spec == Init /\ [][Next]_vars

(* A thread that can run is scheduled, and every task returns.  Nothing is  *)
(* assumed of spurious wake-ups, of callers beginning a submit, or of when  *)
(* shutdown is called.                                                      *)
Fairness ==
  /\ \A w \in Workers : WF_vars(WorkerStep(w))
  /\ \A s \in Submitters : WF_vars(SubmitStep(s))
  /\ WF_vars(NotifyAll) /\ WF_vars(JoinAll)

FairSpec == Spec /\ Fairness

-----------------------------------------------------------------------------
(* Properties *)

Waiting == {w \in Workers : wpc[w] = "waiting"}
Looking == {w \in Workers : wpc[w] \in {"locking", "testing", "woken", "taking"}}
Notifying == {s \in Submitters : spc[s] = "notifying"}
Counting == {w \in Workers : wpc[w] \in {"running", "finishing"}}

\* Every variable has its type; active_tasks_ is unsigned, so it never goes
\* below zero.
TypeOK ==
  /\ tasks \in Seq(Tasks)
  /\ queueMutex \in Workers \cup Submitters \cup {NoThread}
  /\ stop \in BOOLEAN
  /\ activeTasks \in Nat
  /\ wpc \in [Workers -> WorkerPC]
  /\ wtask \in [Workers -> Tasks \cup {NoTask}]
  /\ spc \in [Submitters -> SubmitPC]
  /\ stask \in [Submitters -> Tasks \cup {NoTask}]
  /\ jpc \in CloserPC
  /\ fate \in [Tasks -> Fates]

\* active_tasks_ counts the workers inside the increment/decrement pair of
\* worker_loop, on every path, a task that throws included.
ActiveCount == activeTasks = Cardinality(Counting)

\* No worker takes front() of an empty queue: whatever woke it, and whoever
\* emptied the queue meanwhile, worker_loop looks again under the mutex.
NeverTakesNothing ==
  \A w \in Workers :
    /\ wpc[w] = "taking" /\ ~stop => tasks # <<>>
    /\ wpc[w] \in {"starting", "running"} => wtask[w] \in Tasks

\* Once a worker has returned from worker_loop the pool is drained for good:
\* it was stopped, nothing is queued, and no submit that passed its check of
\* stop_ has yet to put its task in the queue.
DrainedAtExit ==
  (\E w \in Workers : wpc[w] = "exited") =>
    /\ stop
    /\ tasks = <<>>
    /\ \A s \in Submitters : spc[s] # "emplacing"

\* notify_one after every emplace is enough: as long as some worker is blocked,
\* there are at least as many workers on their way to the queue, or
\* notifications on their way to a worker, as there are queued tasks.
WorkConserving ==
  Waiting = {} \/ Len(tasks) <= Cardinality(Looking) + Cardinality(Notifying)

\* A task is taken from the queue once: a future that was given a result, or
\* whose task is being run, never sees the task start again, and a rejected
\* task is never run.
Settled == {"value", "exception", "rejected"}
RunsOnce ==
  [][\A t \in Tasks :
       /\ (fate[t] \in Settled) => (fate'[t] = fate[t])
       /\ (fate[t] = "running") => (fate'[t] \in {"running", "value", "exception"})
       /\ (fate'[t] = "running" /\ fate[t] # "running") =>
            (fate[t] = "queued" /\ \A w \in Workers : wtask[w] # t)]_vars

\* Every accepted task is executed and its future gets a value or an exception,
\* also when shutdown is called meanwhile and even if shutdown itself hangs.
AcceptedTaskRuns ==
  \A t \in Tasks : fate[t] = "queued" ~> fate[t] \in {"value", "exception"}

\* shutdown() returns if its notify_all leaves no worker blocked, or between its
\* test of the predicate and its blocking: stop_ is stored without the mutex, and
\* such a worker has missed both.
ShutdownReturns ==
  (jpc = "join" /\ \A w \in Workers : wpc[w] \notin {"sleeping", "waiting"}) ~> jpc = "done"

(* The pool implements TaskPool: the mutex, the condition variable and the  *)
(* counter are internal.                                                     *)
Executing == [w \in Workers |-> IF wpc[w] \in {"starting", "running"} THEN wtask[w] ELSE NoTask]
Promised == [t \in Tasks |-> IF fate[t] = "offered" THEN "new" ELSE fate[t]]
SomeExited == \E w \in Workers : wpc[w] = "exited"

Pool == INSTANCE TaskPool WITH
  pending <- tasks, exec <- Executing, fate <- Promised, closed <- stop, sealed <- SomeExited

\* Seen through that mapping every behaviour of the pool is one of TaskPool:
\* first in, first out, one worker per task, nothing accepted after a worker
\* has left.
ImplementsTaskPool == Pool!Spec
=============================================================================
