--------------------------- MODULE TaskLifecycle ---------------------------
(***************************************************************************)
(* What the learning-task queue promises to whoever submits a task and     *)
(* polls its status: a task is attempted until one attempt succeeds or the *)
(* attempt budget is used up, an outcome is final, and a task reported as  *)
(* done has had its effect.  Streams, leases, workers and crashes do not   *)
(* appear here; TaskQueue implements this module.                          *)
(***************************************************************************)
EXTENDS Naturals

CONSTANTS
    Tasks,        \* the tasks clients submit
    Archiving,    \* those whose handler writes a memory (kind mistake_archive)
    MaxAttempts   \* TASK_MAX_ATTEMPTS

VARIABLES
    status,       \* what GET /tasks/{id} reports
    attempts,     \* how many times the task has been claimed
    archived      \* the archiving tasks whose memory row exists

vars == <<status, attempts, archived>>

Terminal == {"done", "failed"}

Init ==
    /\ status = [t \in Tasks |-> "absent"]
    /\ attempts = [t \in Tasks |-> 0]
    /\ archived = {}

Accept(t) ==
    /\ status[t] = "absent"
    /\ status' = [status EXCEPT ![t] = "queued"]
    /\ UNCHANGED <<attempts, archived>>

\* A new attempt, also on a task whose running attempt has been given up.
Attempt(t) ==
    /\ status[t] \in {"queued", "running"}
    /\ status' = [status EXCEPT ![t] = "running"]
    /\ attempts' = [attempts EXCEPT ![t] = @ + 1]
    /\ UNCHANGED archived

\* The effect may come late, after the task was given up, but only once and
\* only for a task that was attempted.
Archive(t) ==
    /\ t \in Archiving \ archived
    /\ attempts[t] > 0
    /\ archived' = archived \cup {t}
    /\ UNCHANGED <<status, attempts>>

Succeed(t) ==
    /\ status[t] = "running"
    /\ t \in Archiving => t \in archived
    /\ status' = [status EXCEPT ![t] = "done"]
    /\ UNCHANGED <<attempts, archived>>

\* Retried exactly while the budget lasts: the attempt that failed is the
\* latest one.
Requeue(t) ==
    /\ status[t] = "running"
    /\ attempts[t] < MaxAttempts
    /\ status' = [status EXCEPT ![t] = "queued"]
    /\ UNCHANGED <<attempts, archived>>

GiveUp(t) ==
    /\ status[t] = "running"
    /\ attempts[t] >= MaxAttempts
    /\ status' = [status EXCEPT ![t] = "failed"]
    /\ UNCHANGED <<attempts, archived>>

Next ==
    \E t \in Tasks :
        Accept(t) \/ Attempt(t) \/ Archive(t) \/ Succeed(t) \/ Requeue(t) \/ GiveUp(t)

Spec == Init /\ [][Next]_vars
=============================================================================
