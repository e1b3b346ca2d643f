--------------------------- MODULE LearningPanel ---------------------------
(***************************************************************************)
(* The drawer of mistakes and reports of one session                       *)
(* (components/LearningPanel.tsx): it submits a report task and polls its  *)
(* status.  The queue behind it is what TaskLifecycle promises, reduced to *)
(* the status a poll of it reads; a panel forgets a task for the next one, *)
(* and a new task has a new query, so one task at a time is enough.        *)
(*                                                                         *)
(* The polling is a query: while the drawer is open and a task is known it *)
(* is fetched at once, then every two seconds as long as the last status   *)
(* read is not final and the last fetch did not fail.  A fetch in flight   *)
(* survives the drawer's closing; opening it fetches again.                *)
(***************************************************************************)
VARIABLES
    status,      \* the server's status of the panel's task (taskId); absent: no task
    open,        \* the drawer is open
    tab,         \* "mistakes" or "report"
    generate,    \* the mutation that submits a task
    task         \* the query of the task's status

panelVars == <<status, open, tab, generate, task>>

Final == {"done", "failed"}
Statuses == {"queued", "running"} \cup Final
HasTask == status # "absent"
Unread == [data |-> "none", error |-> FALSE, fetching |-> FALSE]

PanelInit ==
    /\ status = "absent"
    /\ open = FALSE /\ tab = "mistakes"
    /\ generate = "idle" /\ task = Unread

Working ==
    \/ generate = "pending"
    \/ HasTask /\ task.data \in {"none", "queued", "running"}

\* The alert of the report tab.
ErrorShown == generate = "error" \/ task.error

Polling == open /\ HasTask

\* A fetch that starts forgets the error only when nothing has been read yet.
Fetch == [task EXCEPT !.fetching = TRUE, !.error = @ /\ task.data # "none"]

-----------------------------------------------------------------------------
(* The user.                                                               *)

Open ==
    /\ ~open
    /\ open' = TRUE
    /\ task' = IF HasTask THEN Fetch ELSE task
    /\ UNCHANGED <<status, tab, generate>>

Close ==
    /\ open
    /\ open' = FALSE
    /\ UNCHANGED <<status, tab, generate, task>>

Turn ==
    /\ open
    /\ tab' \in {"mistakes", "report"} \ {tab}
    /\ UNCHANGED <<status, open, generate, task>>

Generate ==
    /\ open /\ tab = "report" /\ ~Working
    /\ generate' = "pending"
    /\ UNCHANGED <<status, open, tab, task>>

Refresh ==
    /\ open /\ tab = "report"
    /\ HasTask /\ ~task.fetching
    /\ task' = Fetch
    /\ UNCHANGED <<status, open, tab, generate>>

\* "Review again" on a mistake asks its question.
Review(busy) ==
    /\ open /\ tab = "mistakes" /\ ~busy
    /\ open' = FALSE
    /\ UNCHANGED <<status, tab, generate, task>>

\* Mutant: the query is not keyed by the task.
RemountKeepsQuery ==
    /\ tab' = "mistakes"
    /\ status' = "absent" /\ generate' = "idle"
    /\ UNCHANGED task

\* A panel for another session.  A request that submits a task goes on, but
\* nobody learns its task id.
RemountPanel ==
    /\ tab' = "mistakes"
    /\ status' = "absent" /\ generate' = "idle" /\ task' = Unread

-----------------------------------------------------------------------------
(* Answers and timers.                                                     *)

Created ==
    /\ generate = "pending"
    /\ status' = "queued"
    /\ generate' = "idle"
    /\ task' = [Unread EXCEPT !.fetching = open]
    /\ UNCHANGED <<open, tab>>

\* Busy queue, no service, or 15 seconds without an answer.
CreateFails ==
    /\ generate = "pending"
    /\ generate' = "error"
    /\ UNCHANGED <<status, open, tab, task>>

Read ==
    /\ task.fetching
    /\ task' = [data |-> status, error |-> FALSE, fetching |-> FALSE]
    /\ UNCHANGED <<status, open, tab, generate>>

ReadFails ==
    /\ task.fetching
    /\ task' = [task EXCEPT !.error = TRUE, !.fetching = FALSE]
    /\ UNCHANGED <<status, open, tab, generate>>

\* Mutant: only a task that runs is polled.
PollRunning == task.data = "running" /\ ~task.error

PollAgain == task.data \notin Final /\ ~task.error

Tick ==
    /\ Polling /\ PollAgain /\ ~task.fetching
    /\ task' = Fetch
    /\ UNCHANGED <<status, open, tab, generate>>

-----------------------------------------------------------------------------
(* The queue.                                                              *)

Claim ==
    /\ status = "queued"
    /\ status' = "running"
    /\ UNCHANGED <<open, tab, generate, task>>

Requeue ==
    /\ status = "running"
    /\ status' = "queued"
    /\ UNCHANGED <<open, tab, generate, task>>

Finish ==
    /\ status = "running"
    /\ status' \in Final
    /\ UNCHANGED <<open, tab, generate, task>>

UsePanel == Open \/ Close \/ Turn \/ Generate \/ Refresh

PanelHears ==
    \/ Created \/ CreateFails \/ Read \/ ReadFails \/ Tick
    \/ Claim \/ Requeue \/ Finish
=============================================================================
