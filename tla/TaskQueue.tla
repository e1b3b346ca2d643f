----------------------------- MODULE TaskQueue -----------------------------
(***************************************************************************)
(* The durable learning-task queue: agentic_rag/task_queue.py on Redis     *)
(* Streams, and the loop of worker.py that consumes it.  Each Lua script   *)
(* is one atomic action; everything a worker does between two Redis calls  *)
(* is a step of its own, so that leases may expire, entries be reclaimed   *)
(* and processes die in between.                                           *)
(*                                                                         *)
(* A stream entry is identified with <<task, n>>, n being the attempt whose *)
(* failure appended it (0 for enqueue): XADD gives each a fresh stream id, *)
(* and an attempt is requeued at most once (see TaskQueueProofs).  A lease *)
(* token is identified with the attempt number the same script returned.   *)
(***************************************************************************)
EXTENDS Naturals, Sequences, FiniteSets, SequencesExt

CONSTANTS
    Tasks,          \* task ids clients submit
    Archiving,      \* mistake_archive tasks that carry a text; others are read-only
    Workers,        \* worker processes
    Capacity,       \* TASK_QUEUE_CAPACITY
    MaxAttempts,    \* TASK_MAX_ATTEMPTS
    RecoveredCap,   \* maxsize of the in-process queue _recovered
    MaxFaults       \* bound: crashes, lost replies and stalls of one behaviour

ASSUME QueueAssumption ==
    /\ Archiving \subseteq Tasks
    /\ Capacity \in Nat \ {0}
    /\ MaxAttempts \in Nat \ {0}
    /\ RecoveredCap \in Nat \ {0}
    /\ MaxFaults \in Nat

VARIABLES
    \* Redis
    status, attempts,   \* the task hash
    lease,              \* the lease key: the holder's token, 0 when absent
    fresh,              \* stream entries not yet delivered to the group
    pending,            \* delivered and not acknowledged (the PEL)
    idle,               \* pending entries idle for min_idle_ms or longer
    acked,              \* acknowledged and not yet deleted from the stream
    dead,               \* entries of each task in the dead-letter stream
    \* memory store
    rows,               \* memory rows written for each task
    vectors,            \* tasks whose memory is in the vector collection
    \* workers
    pc, held, token,    \* control point, entry in hand, token of its claim
    recovered,          \* the process-local queue _recovered
    \* history
    started,            \* attempts of each task that reached its handler
    faults              \* faults so far

redis == <<status, attempts, lease, fresh, pending, idle, acked, dead>>
memory == <<rows, vectors>>
worker == <<pc, held, token, recovered>>
vars == <<redis, memory, worker, started, faults>>

Entry == Tasks \X Nat
TaskOf(e) == e[1]
NoEntry == <<>>
Terminal == {"done", "failed"}
Claiming == {"claimed", "handling", "committed", "handled", "failing"}
PCs == {"down", "starting", "top", "next", "held", "acking"} \cup Claiming

\* XLEN counts every entry not yet deleted.
StreamLength == Cardinality(fresh \cup pending \cup acked)

Init ==
    /\ status = [t \in Tasks |-> "absent"]
    /\ attempts = [t \in Tasks |-> 0]
    /\ lease = [t \in Tasks |-> 0]
    /\ fresh = {} /\ pending = {} /\ idle = {} /\ acked = {}
    /\ dead = [t \in Tasks |-> 0]
    /\ rows = [t \in Tasks |-> 0]
    /\ vectors = {}
    /\ pc = [w \in Workers |-> "starting"]
    /\ held = [w \in Workers |-> NoEntry]
    /\ token = [w \in Workers |-> 0]
    /\ recovered = [w \in Workers |-> <<>>]
    /\ started = [t \in Tasks |-> {}]
    /\ faults = 0

Fault == faults < MaxFaults /\ faults' = faults + 1

GoTo(w, label) == pc' = [pc EXCEPT ![w] = label]

\* The end of an iteration: the local item goes out of scope.
EndIteration(w) ==
    /\ GoTo(w, "top")
    /\ held' = [held EXCEPT ![w] = NoEntry]
    /\ token' = [token EXCEPT ![w] = 0]
    /\ UNCHANGED recovered

\* XACK and XDEL of one entry; both do nothing for an entry already gone.
Delete(e) ==
    /\ pending' = pending \ {e}
    /\ idle' = idle \ {e}

-----------------------------------------------------------------------------
(* enqueue: admission, hash and XADD in one script.  A client that gets    *)
(* QueueUnavailable may still have had its task accepted: same state.      *)
Enqueue(t) ==
    /\ status[t] = "absent"
    /\ StreamLength < Capacity
    /\ status' = [status EXCEPT ![t] = "queued"]
    /\ fresh' = fresh \cup {<<t, 0>>}
    /\ UNCHANGED <<attempts, lease, pending, idle, acked, dead>>
    /\ UNCHANGED <<memory, worker, started, faults>>

-----------------------------------------------------------------------------
(* The top of the worker loop: recover_stale_claims, then next_item.  main *)
(* recovers once more before it enters the loop.                           *)

AfterRecovery(w) == GoTo(w, IF pc[w] = "starting" THEN "top" ELSE "next")

\* Mutant: _recovered is made without its maxsize.
AccommodateAll(queue, batch) == queue \o batch

\* What _recovered holds after its put_nowait of a batch; the rest of the
\* batch stays pending.
Accommodate(queue, batch) ==
    LET room == RecoveredCap - Len(queue) IN
    queue \o SubSeq(batch, 1, IF room < Len(batch) THEN room ELSE Len(batch))

\* Mutant: the poll that should reclaim does nothing.
RecoverNothing(w) ==
    /\ pc[w] \in {"starting", "top"}
    /\ AfterRecovery(w)
    /\ UNCHANGED <<redis, memory, held, token, recovered, started, faults>>

\* XAUTOCLAIM moves every idle entry to this consumer and resets its idle
\* time, also of those _recovered has no room for.  (One call scans 100
\* entries: the instances are smaller.  Stream order is abstracted.)
RecoverStaleClaims(w) ==
    /\ pc[w] \in {"starting", "top"}
    /\ \E batch \in SetToSeqs(idle) :
        recovered' = [recovered EXCEPT ![w] = Accommodate(@, batch)]
    /\ idle' = {}
    /\ AfterRecovery(w)
    /\ UNCHANGED <<status, attempts, lease, fresh, pending, acked, dead>>
    /\ UNCHANGED <<memory, held, token, started, faults>>

\* XAUTOCLAIM raised: swallowed, whether or not the server had executed it.
RecoveryFails(w) ==
    /\ pc[w] \in {"starting", "top"}
    /\ Fault
    /\ idle' \in {idle, {}}
    /\ AfterRecovery(w)
    /\ UNCHANGED <<status, attempts, lease, fresh, pending, acked, dead>>
    /\ UNCHANGED <<memory, held, token, recovered, started>>

TakeRecovered(w) ==
    /\ pc[w] = "next"
    /\ recovered[w] # <<>>
    /\ held' = [held EXCEPT ![w] = Head(recovered[w])]
    /\ recovered' = [recovered EXCEPT ![w] = Tail(@)]
    /\ GoTo(w, "held")
    /\ UNCHANGED <<redis, memory, token, started, faults>>

\* XREADGROUP delivers an entry; which of the undelivered ones is abstracted.
ReadGroup(w) ==
    /\ pc[w] = "next"
    /\ recovered[w] = <<>>
    /\ \E e \in fresh :
        /\ fresh' = fresh \ {e}
        /\ pending' = pending \cup {e}
        /\ held' = [held EXCEPT ![w] = e]
    /\ GoTo(w, "held")
    /\ UNCHANGED <<status, attempts, lease, idle, acked, dead>>
    /\ UNCHANGED <<memory, token, recovered, started, faults>>

NothingToRead(w) ==
    /\ pc[w] = "next"
    /\ recovered[w] = <<>> /\ fresh = {}
    /\ EndIteration(w)
    /\ UNCHANGED <<redis, memory, started, faults>>

-----------------------------------------------------------------------------
(* claim                                                                   *)

\* Mutant: the script does not look at the status first.
TakeAnyLease(t) ==
    /\ status[t] # "absent"
    /\ lease[t] = 0
    /\ attempts' = [attempts EXCEPT ![t] = @ + 1]
    /\ lease' = [lease EXCEPT ![t] = attempts[t] + 1]
    /\ status' = [status EXCEPT ![t] = "running"]
    /\ UNCHANGED <<fresh, pending, idle, acked, dead>>

\* The script's effect when the task is live and its lease key absent.
TakeLease(t) ==
    /\ status[t] \notin Terminal
    /\ lease[t] = 0
    /\ attempts' = [attempts EXCEPT ![t] = @ + 1]
    /\ lease' = [lease EXCEPT ![t] = attempts[t] + 1]
    /\ status' = [status EXCEPT ![t] = "running"]
    /\ UNCHANGED <<fresh, pending, idle, acked, dead>>

Claim(w) ==
    /\ pc[w] = "held"
    /\ TakeLease(TaskOf(held[w]))
    /\ token' = [token EXCEPT ![w] = attempts[TaskOf(held[w])] + 1]
    /\ GoTo(w, "claimed")
    /\ UNCHANGED <<memory, held, recovered, started, faults>>

\* Mutant: a message whose task is being handled elsewhere is deleted.
ClaimBusyDeletes(w) ==
    /\ pc[w] = "held"
    /\ status[TaskOf(held[w])] \notin Terminal
    /\ lease[TaskOf(held[w])] # 0
    /\ Delete(held[w])
    /\ EndIteration(w)
    /\ UNCHANGED <<status, attempts, lease, fresh, acked, dead>>
    /\ UNCHANGED <<memory, started, faults>>

\* Another claim is live: the message stays pending.
ClaimBusy(w) ==
    /\ pc[w] = "held"
    /\ status[TaskOf(held[w])] \notin Terminal
    /\ lease[TaskOf(held[w])] # 0
    /\ EndIteration(w)
    /\ UNCHANGED <<redis, memory, started, faults>>

\* The task has ended: XACK, and XDEL in a second round trip.
ClaimTerminal(w) ==
    /\ pc[w] = "held"
    /\ status[TaskOf(held[w])] \in Terminal
    /\ Delete(held[w])
    /\ acked' = acked \cup ({held[w]} \cap pending)
    /\ GoTo(w, "acking")
    /\ UNCHANGED <<status, attempts, lease, fresh, dead>>
    /\ UNCHANGED <<memory, held, token, recovered, started, faults>>

DeleteAcked(w) ==
    /\ pc[w] = "acking"
    /\ acked' = acked \ {held[w]}
    /\ EndIteration(w)
    /\ UNCHANGED <<status, attempts, lease, fresh, pending, idle, dead>>
    /\ UNCHANGED <<memory, started, faults>>

\* A Redis error inside claim: main calls fail with an item that has no
\* token, which commits nothing.  The script may have taken the lease.
ClaimError(w) ==
    /\ pc[w] \in {"held", "acking"}
    /\ Fault
    /\ \/ pc[w] = "held" /\ TakeLease(TaskOf(held[w]))
       \/ UNCHANGED redis
    /\ EndIteration(w)
    /\ UNCHANGED <<memory, started>>

-----------------------------------------------------------------------------
(* The handler.  Its heartbeat keeps the lease alive: see Stall below.     *)

\* Mutant: the attempt count is not compared with the limit.
BeginHandlerAlways(w) ==
    /\ pc[w] = "claimed"
    /\ started' = [started EXCEPT ![TaskOf(held[w])] = @ \cup {token[w]}]
    /\ GoTo(w, "handling")
    /\ UNCHANGED <<redis, memory, held, token, recovered, faults>>

BeginHandler(w) ==
    /\ pc[w] = "claimed"
    /\ token[w] <= MaxAttempts
    /\ started' = [started EXCEPT ![TaskOf(held[w])] = @ \cup {token[w]}]
    /\ GoTo(w, "handling")
    /\ UNCHANGED <<redis, memory, held, token, recovered, faults>>

\* A task that keeps losing its workers is not handled again.
AttemptLimit(w) ==
    /\ pc[w] = "claimed"
    /\ token[w] > MaxAttempts
    /\ GoTo(w, "failing")
    /\ UNCHANGED <<redis, memory, held, token, recovered, started, faults>>

\* Mutant: add_memory without its idempotency key.
CommitAnotherRow(w) ==
    /\ pc[w] = "handling"
    /\ TaskOf(held[w]) \in Archiving
    /\ rows' = [rows EXCEPT ![TaskOf(held[w])] = @ + 1]
    /\ GoTo(w, "committed")
    /\ UNCHANGED <<redis, vectors, held, token, recovered, started, faults>>

\* add_memory: one SQL transaction writes the row and its effect key, or
\* finds the key and reuses the row.
CommitRow(w) ==
    /\ pc[w] = "handling"
    /\ TaskOf(held[w]) \in Archiving
    /\ rows' = IF rows[TaskOf(held[w])] > 0 THEN rows
               ELSE [rows EXCEPT ![TaskOf(held[w])] = @ + 1]
    /\ GoTo(w, "committed")
    /\ UNCHANGED <<redis, vectors, held, token, recovered, started, faults>>

UpsertVector(w) ==
    /\ pc[w] = "committed"
    /\ vectors' = vectors \cup {TaskOf(held[w])}
    /\ GoTo(w, "handled")
    /\ UNCHANGED <<redis, rows, held, token, recovered, started, faults>>

\* knowledge_assessment, learning_report and evaluation only read.
HandleReadOnly(w) ==
    /\ pc[w] = "handling"
    /\ TaskOf(held[w]) \notin Archiving
    /\ GoTo(w, "handled")
    /\ UNCHANGED <<redis, memory, held, token, recovered, started, faults>>

\* Any exception: an unknown kind, the database, the vector store.
HandlerError(w) ==
    /\ pc[w] \in {"handling", "committed"}
    /\ GoTo(w, "failing")
    /\ UNCHANGED <<redis, memory, held, token, recovered, started, faults>>

-----------------------------------------------------------------------------
(* complete and fail: nothing happens unless the lease is still this claim's. *)

\* Mutant: any lease on the task will do.
SomeLease(w) == lease[TaskOf(held[w])] # 0

HoldsLease(w) == lease[TaskOf(held[w])] = token[w]

CommitDone(w) ==
    LET t == TaskOf(held[w]) IN
    /\ status' = [status EXCEPT ![t] = "done"]
    /\ lease' = [lease EXCEPT ![t] = 0]
    /\ Delete(held[w])
    /\ UNCHANGED <<attempts, fresh, acked, dead>>

\* Mutant: the last attempt is retried too.
CommitFailureOnceMore(w) ==
    LET t == TaskOf(held[w])
        retry == token[w] <= MaxAttempts
    IN
    /\ status' = [status EXCEPT ![t] = IF retry THEN "queued" ELSE "failed"]
    /\ lease' = [lease EXCEPT ![t] = 0]
    /\ fresh' = fresh \cup (IF retry THEN {<<t, token[w]>>} ELSE {})
    /\ dead' = [dead EXCEPT ![t] = IF retry THEN @ ELSE @ + 1]
    /\ Delete(held[w])
    /\ UNCHANGED <<attempts, acked>>

CommitFailure(w) ==
    LET t == TaskOf(held[w])
        retry == token[w] < MaxAttempts
    IN
    /\ status' = [status EXCEPT ![t] = IF retry THEN "queued" ELSE "failed"]
    /\ lease' = [lease EXCEPT ![t] = 0]
    /\ fresh' = fresh \cup (IF retry THEN {<<t, token[w]>>} ELSE {})
    /\ dead' = [dead EXCEPT ![t] = IF retry THEN @ ELSE @ + 1]
    /\ Delete(held[w])
    /\ UNCHANGED <<attempts, acked>>

Complete(w) ==
    /\ pc[w] = "handled"
    /\ IF HoldsLease(w) THEN CommitDone(w) ELSE UNCHANGED redis
    /\ EndIteration(w)
    /\ UNCHANGED <<memory, started, faults>>

\* The call raised, before or after the server executed it; main then fails
\* the task it may just have completed.
CompleteError(w) ==
    /\ pc[w] = "handled"
    /\ Fault
    /\ \/ HoldsLease(w) /\ CommitDone(w)
       \/ UNCHANGED redis
    /\ GoTo(w, "failing")
    /\ UNCHANGED <<memory, held, token, recovered, started>>

\* A Redis error here ends the process: this step, or none, then Crash.
Fail(w) ==
    /\ pc[w] = "failing"
    /\ IF HoldsLease(w) THEN CommitFailure(w) ELSE UNCHANGED redis
    /\ EndIteration(w)
    /\ UNCHANGED <<memory, started, faults>>

-----------------------------------------------------------------------------
(* Time, stalls, crashes.                                                  *)

BecomeIdle(e) ==
    /\ e \in pending \ idle
    /\ idle' = idle \cup {e}
    /\ UNCHANGED <<status, attempts, lease, fresh, pending, acked, dead>>
    /\ UNCHANGED <<memory, worker, started, faults>>

Orphaned(t) == \A w \in Workers : held[w] # NoEntry /\ TaskOf(held[w]) = t => token[w] # lease[t]

DropLease(t) ==
    /\ lease[t] # 0
    /\ lease' = [lease EXCEPT ![t] = 0]
    /\ UNCHANGED <<status, attempts, fresh, pending, idle, acked, dead>>
    /\ UNCHANGED <<memory, worker, started>>

\* Nobody renews the lease of a lost claim: it lapses after 120 seconds.
LeaseExpires(t) ==
    /\ Orphaned(t)
    /\ DropLease(t)
    /\ UNCHANGED faults

\* renew_claim every 15 seconds keeps a live claim, unless the process or
\* Redis stalls for 120 seconds, or one renewal raised and ended the heartbeat
\* while the handler goes on.
Stall(t) ==
    /\ ~Orphaned(t)
    /\ Fault
    /\ DropLease(t)

Crash(w) ==
    /\ pc[w] # "down"
    /\ Fault
    /\ GoTo(w, "down")
    /\ held' = [held EXCEPT ![w] = NoEntry]
    /\ token' = [token EXCEPT ![w] = 0]
    /\ recovered' = [recovered EXCEPT ![w] = <<>>]
    /\ UNCHANGED <<redis, memory, started>>

Restart(w) ==
    /\ pc[w] = "down"
    /\ GoTo(w, "starting")
    /\ UNCHANGED <<redis, memory, held, token, recovered, started, faults>>

-----------------------------------------------------------------------------
\* What a worker does when nothing goes wrong around it.
WorkerStep(w) ==
    \/ RecoverStaleClaims(w) \/ TakeRecovered(w) \/ ReadGroup(w) \/ NothingToRead(w)
    \/ Claim(w) \/ ClaimBusy(w) \/ ClaimTerminal(w) \/ DeleteAcked(w)
    \/ BeginHandler(w) \/ AttemptLimit(w)
    \/ CommitRow(w) \/ UpsertVector(w) \/ HandleReadOnly(w) \/ HandlerError(w)
    \/ Complete(w) \/ Fail(w) \/ Restart(w)

WorkerFault(w) == RecoveryFails(w) \/ ClaimError(w) \/ CompleteError(w) \/ Crash(w)

Next ==
    \/ \E t \in Tasks : Enqueue(t) \/ LeaseExpires(t) \/ Stall(t)
    \/ \E e \in pending : BecomeIdle(e)
    \/ \E w \in Workers : WorkerStep(w) \/ WorkerFault(w)

Spec == Init /\ [][Next]_vars

(* Every worker that is up keeps running and one that died is restarted    *)
(* (restart policy of the deployment), handlers return, time passes.       *)
Fairness ==
    /\ \A w \in Workers : WF_vars(WorkerStep(w))
    /\ \A t \in Tasks : WF_vars(LeaseExpires(t))
    /\ WF_vars(\E e \in pending : BecomeIdle(e))

FairSpec == Spec /\ Fairness

-----------------------------------------------------------------------------
TypeOK ==
    /\ status \in [Tasks -> {"absent", "queued", "running"} \cup Terminal]
    /\ attempts \in [Tasks -> Nat]
    /\ lease \in [Tasks -> Nat]
    /\ fresh \subseteq Entry
    /\ pending \subseteq Entry
    /\ idle \subseteq pending
    /\ acked \subseteq Entry
    /\ dead \in [Tasks -> Nat]
    /\ rows \in [Tasks -> Nat]
    /\ vectors \subseteq Tasks
    /\ pc \in [Workers -> PCs]
    /\ held \in [Workers -> Entry \cup {NoEntry}]
    /\ token \in [Workers -> Nat]
    /\ recovered \in [Workers -> Seq(Entry)]
    /\ \A w \in Workers : Len(recovered[w]) <= RecoveredCap
    /\ started \in [Tasks -> SUBSET Nat]
    /\ faults \in Nat

\* An accepted task that has not ended always has a stream entry some worker
\* can still be given: no order of failures, recoveries and acknowledgements
\* by stale consumers strands it.
NoTaskLost ==
    \A t \in Tasks : status[t] \in {"queued", "running"} =>
        \E e \in fresh \cup pending : TaskOf(e) = t

\* The outcome GET /tasks/{id} reports, and clients stop polling on, is final.
OutcomeIsFinal ==
    [][\A t \in Tasks : status[t] \in Terminal => status'[t] = status[t]]_status

\* A task reaches the dead-letter stream once, and exactly when it failed.
DeadLetteredOnce ==
    \A t \in Tasks : dead[t] = IF status[t] = "failed" THEN 1 ELSE 0

\* Only the worker of the latest attempt ends it or gives it back: a consumer
\* whose lease was taken over cannot overwrite the new owner's state.
OnlyLatestAttemptCommits ==
    [][\A t \in Tasks : status[t] = "running" /\ status'[t] # "running" =>
        \E w \in Workers :
            /\ pc[w] \in {"handled", "failing"}
            /\ TaskOf(held[w]) = t
            /\ token[w] = attempts[t]]_status

\* However many crashes, takeovers and redeliveries, every attempt reaches the
\* handler at most once and only within the attempt budget.
BoundedExecutions ==
    /\ \A t \in Tasks : started[t] \subseteq 1..MaxAttempts
    /\ \A w \in Workers : pc[w] = "claimed" => token[w] \notin started[TaskOf(held[w])]

\* At least once delivery, one memory: retries and concurrent executions of a
\* task write one row, and a task reported done has its row and its vector.
ArchivedOnce ==
    \A t \in Archiving :
        /\ rows[t] <= 1
        /\ status[t] = "done" => rows[t] = 1 /\ t \in vectors

\* Every accepted task ends, although workers crash, stall and lose replies.
EveryTaskSettles ==
    \A t \in Tasks : status[t] = "queued" ~> status[t] \in Terminal

\* task_queue.py:30: a task is refused because the queue holds its budget of
\* tasks, so a full stream has an entry some worker can still take or delete.
CapacityIsReclaimable ==
    StreamLength >= Capacity =>
        \/ fresh \cup pending # {}
        \/ \E w \in Workers : pc[w] = "acking" /\ held[w] \in acked

\* The queue keeps what TaskLifecycle promises to its clients.
Lifecycle == INSTANCE TaskLifecycle WITH archived <- {t \in Archiving : rows[t] > 0}
ImplementsLifecycle == Lifecycle!Spec
=============================================================================
