------------------------------ MODULE TaskPool ------------------------------
(***************************************************************************)
(* What hphttp::ThreadPool promises to its callers, with no mutex and no    *)
(* condition variable: an accepted task waits in FIFO order, is executed    *)
(* once by one worker and leaves a result in its future; a closed pool may  *)
(* reject new tasks, and it may be sealed, that is let workers leave, only  *)
(* when nothing is pending, after which nothing is accepted any more.       *)
(* ThreadPool.tla implements this module.                                   *)
(***************************************************************************)
EXTENDS Sequences

CONSTANTS Workers, Tasks, NoTask

VARIABLES
  pending,  \* accepted tasks that no worker has started, oldest first
  exec,     \* exec[w]: the task worker w is executing, or NoTask
  fate,     \* fate[t]: what the caller's future for t would say
  closed,   \* shutdown has begun
  sealed    \* a worker has left

absVars == <<pending, exec, fate, closed, sealed>>

Init ==
  /\ pending = <<>>
  /\ exec = [w \in Workers |-> NoTask]
  /\ fate = [t \in Tasks |-> "new"]
  /\ closed = FALSE
  /\ sealed = FALSE

Accept(t) ==
  /\ fate[t] = "new"
  /\ ~sealed
  /\ fate' = [fate EXCEPT ![t] = "queued"]
  /\ pending' = Append(pending, t)
  /\ UNCHANGED <<exec, closed, sealed>>

Reject(t) ==
  /\ fate[t] = "new"
  /\ closed
  /\ fate' = [fate EXCEPT ![t] = "rejected"]
  /\ UNCHANGED <<pending, exec, closed, sealed>>

Start(w) ==
  /\ exec[w] = NoTask
  /\ pending # <<>>
  /\ exec' = [exec EXCEPT ![w] = Head(pending)]
  /\ fate' = [fate EXCEPT ![Head(pending)] = "running"]
  /\ pending' = Tail(pending)
  /\ UNCHANGED <<closed, sealed>>

Finish(w) ==
  /\ exec[w] # NoTask
  /\ \E outcome \in {"value", "exception"} :
        fate' = [fate EXCEPT ![exec[w]] = outcome]
  /\ exec' = [exec EXCEPT ![w] = NoTask]
  /\ UNCHANGED <<pending, closed, sealed>>

Close ==
  /\ ~closed
  /\ closed' = TRUE
  /\ UNCHANGED <<pending, exec, fate, sealed>>

Seal ==
  /\ closed
  /\ pending = <<>>
  /\ sealed' = TRUE
  /\ UNCHANGED <<pending, exec, fate, closed>>

Next ==
  \/ \E t \in Tasks : Accept(t) \/ Reject(t)
  \/ \E w \in Workers : Start(w) \/ Finish(w)
  \/ Close
  \/ Seal

Spec == Init /\ [][Next]_absVars
=============================================================================
