--------------------------- MODULE GraphAdmission ---------------------------
(***************************************************************************)
(* Admission of work to the inference process's thread pool: app.py,       *)
(* _run_bounded_graph for questions and parse_attachment for attachments.  *)
(*                                                                         *)
(* A question takes one of Threads + QueueSize permits, is submitted to a  *)
(* pool of Threads threads and awaited for RUN_TIMEOUT_SECONDS.  Whoever   *)
(* stops waiting cannot stop a thread, so the permit comes back only from  *)
(* the done-callback of the future, which schedules the release on the     *)
(* event loop.  An attachment goes to the same pool without a permit.      *)
(***************************************************************************)
EXTENDS Naturals, Sequences, FiniteSets

CONSTANTS
    Questions,     \* the requests that reach _run_bounded_graph
    Attachments,   \* the uploads that reach parse_attachment
    Threads,       \* AI_MAX_INFLIGHT
    QueueSize      \* AI_QUEUE_MAXSIZE

ASSUME AdmissionAssumption ==
    /\ IsFiniteSet(Questions)
    /\ Questions \cap Attachments = {}
    /\ Threads \in Nat \ {0}
    /\ QueueSize \in Nat

Work == Questions \cup Attachments
Permits == Threads + QueueSize

VARIABLES
    permits,   \* the value of the semaphore _graph_admission
    queued,    \* the pool's queue of work items
    future,    \* the concurrent future of each work item
    loop,      \* the callback of that future the event loop still has to run
    caller     \* the coroutine that serves the request

admissionVars == <<permits, queued, future, loop, caller>>

Futures == {"none", "pending", "running", "finished", "cancelled"}
Callbacks == {"none", "release", "deliver"}

\* Given up: a timeout (the fallback answer, or 504) or a cancelled call.
Settled == {"answered", "refused", "given up"}
Callers == {"new", "waiting"} \cup Settled

\* Questions whose permit has not been given back.
Holders == {q \in Questions : future[q] \in {"pending", "running"} \/ loop[q] = "release"}

AdmissionInit ==
    /\ permits = Permits
    /\ queued = <<>>
    /\ future = [w \in Work |-> "none"]
    /\ loop = [w \in Work |-> "none"]
    /\ caller = [w \in Work |-> "new"]

-----------------------------------------------------------------------------
(* The coroutines.                                                         *)

\* The semaphore is acquired and the run submitted without an await between.
Admit(q) ==
    /\ q \in Questions /\ caller[q] = "new"
    /\ permits > 0
    /\ permits' = permits - 1
    /\ queued' = Append(queued, q)
    /\ future' = [future EXCEPT ![q] = "pending"]
    /\ caller' = [caller EXCEPT ![q] = "waiting"]
    /\ UNCHANGED loop

\* No permit within 50 ms: 429.
Refuse(q) ==
    /\ q \in Questions /\ caller[q] = "new"
    /\ permits = 0
    /\ caller' = [caller EXCEPT ![q] = "refused"]
    /\ UNCHANGED <<permits, queued, future, loop>>

Upload(a) ==
    /\ a \in Attachments /\ caller[a] = "new"
    /\ queued' = Append(queued, a)
    /\ future' = [future EXCEPT ![a] = "pending"]
    /\ caller' = [caller EXCEPT ![a] = "waiting"]
    /\ UNCHANGED <<permits, loop>>

\* Mutant: the permit is given back as soon as the caller stops waiting.
GiveUpReleases(w) ==
    /\ caller[w] = "waiting"
    /\ caller' = [caller EXCEPT ![w] = "given up"]
    /\ permits' = IF w \in Questions THEN permits + 1 ELSE permits
    /\ IF future[w] = "pending"
       THEN future' = [future EXCEPT ![w] = "cancelled"]
       ELSE UNCHANGED future
    /\ UNCHANGED <<queued, loop>>

\* Mutant: the future is not cancelled.
GiveUpLeavesQueued(w) ==
    /\ caller[w] = "waiting"
    /\ caller' = [caller EXCEPT ![w] = "given up"]
    /\ UNCHANGED <<permits, queued, future, loop>>

\* The time is up, or the call is cancelled.  Only a future that has not
\* started can be cancelled; its callbacks are scheduled at once.
GiveUp(w) ==
    /\ caller[w] = "waiting"
    /\ caller' = [caller EXCEPT ![w] = "given up"]
    /\ IF future[w] = "pending"
       THEN /\ future' = [future EXCEPT ![w] = "cancelled"]
            /\ loop' = [loop EXCEPT ![w] = IF w \in Questions THEN "release" ELSE "deliver"]
       ELSE UNCHANGED <<future, loop>>
    /\ UNCHANGED <<permits, queued>>

\* The scheduled release.  It was added before the callback that delivers the
\* result, and the loop runs its callbacks in order.
Release(q) ==
    /\ loop[q] = "release"
    /\ permits' = permits + 1
    /\ loop' = [loop EXCEPT ![q] = "deliver"]
    /\ UNCHANGED <<queued, future, caller>>

\* Mutant: the result's callback was added before the one that releases.
DeliverEarly(w) ==
    /\ loop[w] # "none"
    /\ caller[w] = "waiting" \/ loop[w] = "deliver"
    /\ loop' = [loop EXCEPT ![w] = IF @ = "deliver" THEN "none" ELSE @]
    /\ caller' = [caller EXCEPT ![w] = IF @ = "waiting" THEN "answered" ELSE @]
    /\ UNCHANGED <<permits, queued, future>>

\* The result, or the exception, reaches whoever still waits.
Deliver(w) ==
    /\ loop[w] = "deliver"
    /\ loop' = [loop EXCEPT ![w] = "none"]
    /\ caller' = [caller EXCEPT ![w] = IF @ = "waiting" THEN "answered" ELSE @]
    /\ UNCHANGED <<permits, queued, future>>

-----------------------------------------------------------------------------
(* The pool.                                                               *)

Running == {w \in Work : future[w] = "running"}

\* A thread takes the next item and runs it, unless it was cancelled.
Start(w) ==
    /\ queued # <<>> /\ Head(queued) = w
    /\ Cardinality(Running) < Threads
    /\ queued' = Tail(queued)
    /\ future' = [future EXCEPT ![w] = IF @ = "pending" THEN "running" ELSE @]
    /\ UNCHANGED <<permits, loop, caller>>

\* Mutant: the result is delivered and the release forgotten.
EndKeepsPermit(w) ==
    /\ future[w] = "running"
    /\ future' = [future EXCEPT ![w] = "finished"]
    /\ loop' = [loop EXCEPT ![w] = "deliver"]
    /\ UNCHANGED <<permits, queued, caller>>

\* The run returns or raises, whether or not anyone waits for it.
End(w) ==
    /\ future[w] = "running"
    /\ future' = [future EXCEPT ![w] = "finished"]
    /\ loop' = [loop EXCEPT ![w] = IF w \in Questions THEN "release" ELSE "deliver"]
    /\ UNCHANGED <<permits, queued, caller>>

-----------------------------------------------------------------------------
Serve(w) == Admit(w) \/ Refuse(w) \/ Upload(w) \/ GiveUp(w) \/ Release(w) \/ Deliver(w)

AdmissionNext == \E w \in Work : Serve(w) \/ Start(w) \/ End(w)

AdmissionSpec == AdmissionInit /\ [][AdmissionNext]_admissionVars

-----------------------------------------------------------------------------
AdmissionTypeOK ==
    /\ permits \in 0..Permits
    /\ queued \in Seq(Work)
    /\ future \in [Work -> Futures]
    /\ loop \in [Work -> Callbacks]
    /\ caller \in [Work -> Callers]

\* Whatever times out, is cancelled or runs on unattended, every permit is
\* either free or held by exactly one question: none is lost, none is given
\* back twice, and none before the thread of its run has ended.
PermitsConserved == permits + Cardinality(Holders) = Permits

\* Nobody waits for a permit to come back from a caller that has its answer:
\* a question that was answered by its own run has freed its permit before.
AnsweredHoldsNothing == \A q \in Questions : caller[q] = "answered" => q \notin Holders

\* A question whose caller has gone does not sit in the queue: it runs already
\* or never will.
NoAbandonedStart ==
    [][\A w \in Work : future[w] = "pending" /\ future'[w] = "running" => caller[w] = "waiting"]_admissionVars

\* Every permit taken is given back.
PermitsComeBack == \A q \in Questions : q \in Holders ~> q \notin Holders
=============================================================================
