# Verification of the junior-math tutoring service

TLA+ specifications of the concurrent and failure-handling core of
`junior-math-agentic-rag`, the TLC configurations that check them on small
instances, and proofs, checked by TLAPS, for every size of system.

Paths below are relative to `src/`. Every definition of a module that stands for
code is listed with its lines in `PROJECT.json` under `map`.

## 1. The system

```
 browser --HTTP/SSE--> Go gateway --HTTP or gRPC--> Python inference process
 (frontend/)           (gateway/)                    (app.py, grpc_server.py)
                        |  identity, rate limit,       | admission -> thread pool
                        |  idempotency, breaker        | -> pipeline -> skills -> handler pool
                        v                              v
                       Redis <----- task queue ------ submits learning tasks
                        ^                              |
                        |                              v
                       worker.py  -----------------> MySQL, vector store
```

A question enters the gateway, which checks who asks, limits the rate, looks up
the Idempotency-Key in Redis, asks the circuit breaker, and calls the inference
process. There the question takes an admission permit, and a thread of a bounded
pool runs the pipeline `math.correction` for it: a graph of skills in which an
answer is generated, judged, possibly repaired once, judged again, and rendered
under the contract its last judge issued. Every skill runs in a second pool with
its own slots. What is to be learned from the conversation goes to a task queue
on Redis Streams, which worker processes consume.

The browser keeps the conversations itself, in a store that is written to local
storage on every change. Its page asks one question at a time, follows the answer
stream, and mounts a composer and a learning panel for the session on screen, whose
files, dictation and report tasks answer in their own time. The demonstration build
replaces the server by curated answers.

### Components

| Component | State it keeps | Operations | Talks to | What is hard | What makes it correct | Modelled |
|---|---|---|---|---|---|---|
| Learning-task queue (`agentic_rag/task_queue.py`) | task hash, lease key, stream, consumer group, dead-letter stream, `_recovered` | `enqueue`, `recover_stale_claims`, `next_item`, `claim`, `renew_claim`, `complete`, `fail`, `get` | Redis; API and workers | at-least-once delivery, leases that lapse, two round trips in `claim`, lost replies | no accepted task is lost; outcomes final; dead letters exact; only the latest attempt commits; every task ends | partly: `TaskQueue` |
| Worker (`worker.py`) | item in hand, heartbeat | loop of `main`, `_handle` | queue, memory store | crash between any two calls; a stalled worker that wakes up | each attempt executed once, one memory per task | yes: `TaskQueue` |
| Circuit breaker (`gateway/main.go`, `breaker`) | atomics `failures`, `opened`, `probe` | `allow`, `success`, `fail`, `rpcError` | handlers of the gateway | three atomics, no lock | probe permit never lost; recovers; one probe at a time (refuted) | yes: `Breaker` |
| Idempotency store and `POST /ask` (`gateway/main.go`) | Redis record of each key | `get`, `reserve`, `set`, `release`; `ask`, `askGRPC` | Redis, breaker, inference | races of duplicates, Redis errors, expiry during a call | one execution at a time, none after completion, faithful replay, no stale release | partly: `Idempotency` |
| Inference admission (`app.py`, `_run_bounded_graph`, `parse_attachment`) | semaphore, thread pool, futures, loop callbacks | admit, refuse, time out, cancel, release | pipeline | a thread cannot be stopped; callbacks in order | permits conserved, nothing abandoned starts | partly: `GraphAdmission` |
| Skill executor (`skill_runtime/executor.py`) | `_HANDLER_SLOTS`, handler futures | `_execute` | pipeline, handlers | handlers outlive their calls; retries | slots conserved, retries do not overlap, nothing starts late | yes: `SkillExecutor` |
| Correction pipeline (`pipelines/correction.yaml`, `skill_runtime/pipeline.py`, `router.py`, `skill_handlers.py`) | the state dict of one run | one skill per node, routing | skill executor | any skill may fail at any point; the meaning of "the answer" depends on what ran before | what is published as verified was judged; a verdict is not lost; failures survived | partly: `CorrectionPipeline` |
| Memory archive (`agentic_rag/memory.py`) | rows, effect keys, vectors | `add_memory`, `retrieve`, `delete_memory` | MySQL, vector store | two stores, two commits | effect at most once; done implies row and vector | `add_memory`, in `TaskQueue` |
| Question API (`app.py`) | none of its own | `ask`, `ask_stream`, task and feedback routes | all of the above | partial persistence | cached answers keep their contract | admission and run only |
| Answer stream (`streaming.py`, `app.py`, `grpc_server.py`, gateway relay) | sink per request id, bounded queue | emit, subscribe, relay | question API, browser | shared request ids, full queues, disconnects | every stream ends with its own final result; a cut-off one is not taken for whole | the relayed events and their reader, in `Workspace`; sinks no (planned) |
| Caches (`cache.py`) | in-process and Redis entries | get, set, delete | question API, retrieval | refill against delete | a deleted entry is not served | no (planned) |
| Response contract (`response_contract.py`) | none | normalise, capture, digest | pipeline, API | stale contract on a new text | contract bound to its text | partly, in `CorrectionPipeline` |
| Exercise sessions (`exercises/`, `fast_path.py`) | private exercises, mastery | start, get, record | pipeline | concurrent requests of one session | an outcome counts once, for its exercise | no (planned) |
| Retrieval, mathematics, prompts, ingestion, evaluation | indexes, none | numeric and text processing | pipeline | not concurrent | numeric or symbolic | outcomes only |
| Rate limiter, identity, gRPC codec (`gateway/`) | limiters per client | allow, validate, encode | gateway handlers | cap of 10000 clients | memory bounded | no (limiter and varints planned) |
| Session store of the browser (`frontend/src/store.ts`, `Sidebar.tsx`) | list of sessions, active id, messages and context of each, their copy in local storage | create, select, delete, add or replace a message, apply a response, persist, reload | page, local storage | writes go to whichever session is active; a refused write throws after it took effect; a reload restores at most 30 sessions | answers stay in their session, the context is that of the last answer | yes: `Workspace` |
| Question run of the page (`App.tsx`, `api.ts`) | pending mutation, abort controller, timer, memoised identity, inspected response | `runAgent`, `retryLast`, exercise bar, examples, stop | store, gateway | three awaits, only some of them abortable; failures after partial effects | one question at a time, its session stays on screen, every question settles | yes: `Workspace`, against `ChatShell` |
| Composer (`Composer.tsx`) | draft, own attempt, files being read, recogniser | type, choose a file, dictate, submit | page, `/attachments/parse`, speech recognition | readings and dictation arrive late and overwrite | nothing reaches another session's draft | yes: `Composer`, `Desk` |
| Learning panel (`LearningPanel.tsx`) | tab, task id, three queries, one mutation | submit, poll, refresh, review | page, `/tasks` | polling that stops; a fetch in flight at close or remount | a panel that says it is generating stops or says why | partly: `LearningPanel`, `Desk` |
| Demonstration build (`showcase.ts`) | mistakes, tasks and feedback in local storage | `askShowcase`, reports, feedback | page, local storage | follow-ups depend on the context kept; storage refuses | as for the real build | answers and mistakes, in `Workspace` |
| Observability, adapters, deployment | counters | - | - | - | - | no |

`PROJECT.json` lists all 34 components with their files and the reason for
each one left out, and under `hazards` the 40 places in this code where something
can go wrong that a unit test would hardly reach, with the properties that cover
them or the reason why none does yet.

## 2. Modules

| Module | Models | EXTENDS / composes |
|---|---|---|
| `TaskLifecycle` | abstract: what a client who submits and polls a task may rely on | - |
| `TaskQueue` | `task_queue.py` and `worker.py` on Redis Streams | instantiates `TaskLifecycle` (refinement) |
| `TaskQueueProofs` | theorems about `TaskQueue` | `TaskQueue`, TLAPS |
| `Breaker`, `BreakerProofs` | the breaker under concurrent handlers | - |
| `Idempotency`, `IdempotencyProofs` | the handler of `POST /ask` and its store | - |
| `GraphAdmission` | permits and the thread pool | - |
| `SkillExecutor` | attempts, slots and handlers | - |
| `InferenceService`, `InferenceProofs` | both pools together | `GraphAdmission`, `SkillExecutor` |
| `CorrectionPipeline`, `CorrectionPipelineProofs` | one run of the production pipeline | - |
| `ChatShell` | abstract: what the page promises its panels | - |
| `Workspace`, `WorkspaceProofs` | session store, local storage, the run of a question, the client of the answer stream | instantiates `ChatShell` (refinement) |
| `Composer` | draft, file readings, dictation of one session | - |
| `LearningPanel` | the drawer of mistakes and reports, and its polling | - |
| `Inspector` | the evidence drawer and the response kept for it | - |
| `Desk`, `DeskProofs` | the page: shell and panels together | `ChatShell`, `Composer`, `LearningPanel`, `Inspector` |
| `MC*` | the small instances TLC checks | the module they are named after |

Conventions. Constants are parameters with named assumptions (`...Assumption`).
There is one action for each operation or step of the code; a step ends where
another actor may interleave: at every Redis command or Lua script, atomic access,
commit, await or callback. Bounds have names: `MaxFaults`, `MaxCrashes` and
`MaxBad` count faults, never normal work. Definitions marked *Mutant* are
plausible bugs: swapped for the definition of the code they show that a property
would notice; no specification uses them.

### TaskQueue

| Code | Model |
|---|---|
| task hash `status`, `attempts`; lease key | `status`, `attempts`, `lease` |
| stream: undelivered / pending entries list / acknowledged but not yet deleted | `fresh`, `pending`, `acked`; `idle` are the pending entries XAUTOCLAIM would take |
| dead-letter stream | `dead` (entries per task) |
| `memory` rows with effect key; vectors | `rows`, `vectors` |
| the worker's control point, item and token | `pc`, `held`, `token`, and `recovered` for `_recovered` |
| `enqueue` | `Enqueue` (refused at `Capacity`) |
| `recover_stale_claims` at start and on every iteration | `RecoverStaleClaims`, `RecoveryFails` |
| `next_item` | `TakeRecovered`, `ReadGroup`, `NothingToRead` |
| `claim` script and its early returns | `Claim`, `ClaimBusy`, `ClaimTerminal` then `DeleteAcked`, `ClaimError` |
| `_handle`, `add_memory` | `BeginHandler`, `AttemptLimit`, `CommitRow`, `UpsertVector`, `HandleReadOnly`, `HandlerError` |
| `complete`, `fail` | `Complete`, `CompleteError`, `Fail` |
| heartbeat (`renew_claim`), lease expiry | `Stall`, `LeaseExpires` |
| process death, restart | `Crash`, `Restart` |

Each Lua script is one action because Redis executes it as one. A stream entry is
`<<task, n>>`, with `n` the attempt whose failure appended it; a lease token is the
attempt number the same script returns (the code draws a random one: it is unique
for the same reason the number is). The scan limit of XAUTOCLAIM (100 entries) and
the order in which the group reads are abstracted: the model takes all idle
entries and reads any of them, which includes what Redis does. When a reply is lost
the script may or may not have run: both outcomes are in `ClaimError`,
`CompleteError` and `RecoveryFails`. The lease of a worker that is alive is not
dropped except by `Stall`, one of the bounded faults: the code renews it eight times
within its life.

### Breaker

`failures`, `opened` and `probe` are the three atomics, and every load, store and
compare-and-swap is a step (`Load`, `AdmitClosed`, `AdmitProbe`, `Refuse`;
`Succeed`, `Close`, `Clear`; `Fail`, `Trip`, `Clear`; `Cancel`). A time is kept as
the ticks left, and the value a handler has loaded ages with it (`Tick`).

### Idempotency

`store` maps a key to no record, a reservation with its owner, or a completed
answer. `get`, the SET NX of `reserve` and the second `get` behind it, the scripts
of `set` and `release` are steps, each with a variant in which Redis fails before
or after executing it. `Crash` loses a replica; `Expire` lapses a record after its
handler has ended, `ExpireEarly` (only with `ShortTTL`) while it is at work, for
deployments that set a lifetime below the call's timeout. `served` and `outlived`
are history variables.

### GraphAdmission, SkillExecutor, InferenceService

In `GraphAdmission` a question's life is `caller` (its coroutine), `future` (its run
in the pool) and `loop` (the callback the event loop still has to run): the
done-callback schedules `Release`, and the result is delivered after it. `GiveUp`
is a timeout or a cancelled request; it cancels a future that has not started and
leaves one that has. In `SkillExecutor` a call makes attempts, each with a handler
that holds a slot until its done-callback (`FreeSlot`). `InferenceService` joins
them: the thread of a run executes a call, and the run ends only after the call has
returned, which may be long before its handler ends.

### CorrectionPipeline

`Follow`, `On` and `Branches` are the graph of `correction.yaml`; `Choose` is
`SkillRouter.choose`. The executor merges all earlier outputs into every input; as
no node runs twice, the ordered dict is represented by what the merge yields:
`reply`, `draft`, `contract`, `evidence`. A text is named by the node that wrote it.
What a skill computes is a choice over what its output model allows (`Replies`,
verdicts, found or not found); `Fail` is any failure of a skill, from a missing
input field to a timeout, and `Expire` the request's deadline.
`verdicts` and `failed` exist for the properties.

### ChatShell, Workspace

| Code | Model |
|---|---|
| `sessions`, `activeId`; `messages`; `history`, `summary`, `exercise` of a session | `sessions`, `activeId`; `messages`; `context` (number of the reply, level of the exercise, subject) |
| `partialize` and the entry in local storage | `Snapshot`, `saved`; `Persist` writes it or is refused |
| `sessions.find(...) \|\| sessions[0]` | `Shown` |
| `createSession`, `selectSession`, `deleteSession` behind the sidebar's `busy` | `NewChat`, `Select`, `Delete` |
| `addMessage`, `replaceLastAssistant`, `applyResponse` | `Added`, `ReplacedLast`, in `Send`, `StoreAnswer` and `Fail`; `ApplyResponse` |
| `runAgent` up to its await; from each button | `Send` and `Begin`; `Ask`, `Adjust`, `Retry` |
| the mutation paused while the browser is offline (default of TanStack Query, which `main.tsx` keeps) | phase `paused`, `Resume` |
| after the await: the message, then the context; `catch` and `finally` | `StoreAnswer`, `ApplyResponse`; `Apologise`, or `Fail` at once where the request itself failed |
| `browserIdentity`, memoised | `IdentityAnswers`, `IdentityFails`, `known` |
| `askAgent`: fetch, parser, end of body | `Respond`, `Refuse`, `Deliver`, `EndOfStream` |
| stop button, 185-second timer; the rejected fetch | `Abort`; `Reject` |
| `askShowcase` | `DemoReply` |
| page reload | `Reload` |

Each change of the store is one action with its own write to local storage, and any
of these writes may be refused (`Refused`): the page keeps the change, storage keeps
the older copy, and the code behind it does not run. If the write of a question is
refused, the question is shown but never asked. An answer takes two changes,
`StoreAnswer` and `ApplyResponse`, each with its own phase of the run, and each can be
refused alone or be the last thing before a reload. If the first is refused, the
answer is on screen with the context of an earlier one; if the second is, the page
has the new context while the saved copy has the answer with the old one, which is
what a reload brings back. `torn` (history) is the set of sessions whose last answer
was stored only in part. The mistake that the demonstration records is a write of
its own. No stop or timer comes between the reply and the end of `runAgent`, which
does not await anything there; a reload may, because the page can die at any
moment.
The identity is awaited without the request's signal and a paused mutation
has not begun, so an abort in either phase is only noticed by the fetch that follows.
Whether the browser is offline is a choice of each send. A reload takes what
was saved, which may be a shorter list whose active session is not in it; until the
user selects a session, what the store writes goes nowhere, and the model has that.
`Relayed` is the order of events a stream can have: a result once, an error once,
perhaps after it, and the end. Sessions and replies are numbers; of a
message the model keeps its kind and where it came from.

`ChatShell` is the same page without messages, storage and requests: the session on
screen and the one whose question is pending. `Workspace` maps `active` to `Shown`
and `asking` to `run.home`.

### Composer, LearningPanel, Inspector, Desk

| Code | Model |
|---|---|
| the texts of the draft | sets of what they come from: `question`, `wrong` |
| `attachmentMutation` and its `onSuccess` | `Choose`, `ReadingEnds` with `Fill`; `latest` is what `isPending` looks at |
| `toggleVoice`, `onresult`, `onend` | `ToggleVoice`, `Hear`, `VoiceEnds` |
| `submit` | `Submit` |
| `key={active.id}` of composer and panel | `Remount`, `RemountPanel` |
| `generate`; `task` query with its `enabled` and `refetchInterval` | `Generate`, `Created`, `CreateFails`; `Fetch`, `Read`, `ReadFails`, `Tick`, `PollAgain` |
| `working`, `error` | `Working`, `ErrorShown` |
| the task on the server | `Claim`, `Requeue`, `Finish`: what `TaskLifecycle` lets a poll see |
| `inspectorOpen`, `inspected` | `Inspector` |

`Desk` joins them on the steps of `ChatShell` instead of `Workspace`, which is what
the refinement is for: `SubmitDraft` is a `Submit` and an `Ask`, `ShowSession` a `Show`
and two remounts, `AnswerArrives` a `Settle` that may replace the inspected
response. Both drawers are modal, so that what lies behind one cannot be used
(`AtDesk`), but goes on.

## 3. What is checked

| Run | Instance | Distinct states | Shows |
|---|---|---|---|
| `MCTaskQueueSafety` | 2 tasks (one archiving), 2 workers, capacity 2, 2 attempts, recovery queue 1, 2 faults; workers symmetric | about 960,000 | `NoTaskLost`, `DeadLetteredOnce`, `BoundedExecutions`, `ArchivedOnce`, `OutcomeIsFinal`, `OnlyLatestAttemptCommits`, and that `TaskQueue` implements `TaskLifecycle` |
| `MCTaskQueueLiveness` | the same, 1 fault | about 380,000 | `EveryTaskSettles` |
| `MCTaskQueueLeak` | 1 task, 2 workers, capacity 1, 1 fault | violation | finding 1 |
| `MCBreaker` | 3 handlers, threshold 2, cooldown 2, 4 unsuccessful calls | about 51,000 | `ProbeIsHeld`, `Recovers` |
| `MCBreakerProbe` | the same, cooldown 1, 3 unsuccessful calls | violation | finding 2 |
| `MCIdempotency` | 3 requests on one key, one with another body, 2 faults, 1 crash, records may lapse early | about 59,000 | `OneExecution`, `NoExecutionAfterCompletion`, `FaithfulReplay`, `AnswersAgreeWithoutFaults`, `OnlyOwnerSettles`, `ReservationEnds` |
| `MCIdempotencyLostSet` | 2 requests, 1 fault | violation | finding 3 |
| `MCInferenceService` | 2 questions, 1 upload, 1 thread, no queue, 2 slots, 2 attempts | about 44,000 | `PermitsConserved`, `AnsweredHoldsNothing`, `NoAbandonedStart`, `PermitsComeBack`, `SlotsConserved`, `NoOverlap`, `NoLateStart` |
| `MCCorrectionPipeline` | the whole graph, every outcome of every skill | about 390,000 | `VerifiedIsChecked`, `DraftNeedsVerdict`, `VerdictIsPublished`, `SurvivesFailures`, `Terminates` |
| `MCCorrectionPipelineStaleReply` | the same | violation | finding 4 |
| `MCWorkspace` | 2 sessions of which 1 fits into storage, 3 questions, hardest level 2, 1 reload, 1 refused write, 1 curated problem; both builds | about 1,132,000 | `OwnAnswers`, `ContextFollowsAnswer`, and that `Workspace` implements `ChatShell` with its fairness |
| `MCDesk` | 2 sessions, 1 file, unbounded otherwise | about 869,000 | `PanelsStayHome`, `WaitEnds` |

Every module has one type invariant (`TypeOK`) as well. For each property of a
passing run `PROJECT.json` names a mutant of the code that breaks it.

Why the bounds are enough.
*TaskQueue*: the interesting cases need an entry that is taken over (two workers),
one that does not fit into the recovery queue (two entries, room for one), an
attempt that is the last (two attempts), a full stream (capacity equal to the tasks)
and a fault that hits while the consequences of another are not over (two faults).
*Breaker*: a straggler, a probe and a third caller need three handlers; threshold 2
tells "counted" from "opened", cooldown 2 lets a loaded deadline differ from the
stored one, and four bad calls open the breaker, fail a probe and open it again.
*Idempotency*: different keys never meet, so one suffices; an owner, a duplicate and a
request with another body cover the three answers of `get`.
*Inference*: with one permit and two questions, a timed-out question's thread
and the next question compete; two slots and two attempts let an abandoned handler
and a retry coexist if anything allowed it.
*Pipeline*: nothing is bounded; a run has at most one pass through the graph.
*Workspace*: two sessions with room for one give a reload that drops the active
session; three questions allow an answer, a failure and a regeneration on top of
each other; level 2 has an exercise that can be made easier and one that can be
made harder; the one write that is refused can be any, and the reload may come before
or after it; the theorems cover any number of both.
*Desk*: a reading belongs to one session and meets one other; the states are finite
without bounds.

CHECK_DEADLOCK is FALSE for `Idempotency` and `InferenceService`: their requests are
finitely many and served once, so the system comes to rest. It is FALSE for
`Workspace`, where questions and sessions may be used up, and for `Desk`, whose user need not
do anything. `CorrectionPipeline` has
an explicit `Finished` step instead.

### Fairness

- `TaskQueue`: weak fairness of each worker's fault-free steps, including the
  restart (`restart: unless-stopped`, or the Deployment), of the lapse of a lease
  nobody renews (Redis TTL), and of idle times that grow. No fairness of faults.
- `Breaker`: weak fairness of `Tick` and of each handler (calls have timeouts, clients
  keep asking). `Fail` and `Cancel` are not in the fair part and are bounded, so
  `Recovers` reads: once calls stop failing, an open breaker closes.
- `Idempotency`: weak fairness of each handler's steps and of expiry (Redis TTL).
- `InferenceService`: timers, event loop and pool threads are fair; nothing is
  assumed of a handler, which may hang for ever. That is why `PermitsComeBack` is
  worth saying: the permit of a question does not depend on its handler. That slots
  come back is not claimed, because with a hanging handler they do not.
- `CorrectionPipeline`: weak fairness of `Step`, since the executor waits for a
  skill no longer than its timeout.
- `Workspace`: only the browser's own promises. The identity request ends within 15
  seconds (`AbortSignal.timeout`), the timer of 185 seconds aborts the run, and an
  aborted fetch or body rejects; and a browser that is offline comes back online
  (`Resume`), because a paused mutation sees no abort. What `runAgent` does with a reply
  is synchronous and runs on (`Finish`). Nothing is assumed of gateway
  or stream: every question settles although the server may stay silent for ever.
- `Desk`: the identity and the requests of the panel each end within 15 seconds of a
  browser that comes back online, the poll's timer fires, and the queue moves on:
  weak fairness of `Claim`, strong fairness of `Finish`, because between retries a
  task is running again and again. That tasks do settle, under bounded faults, is
  `EveryTaskSettles` of `TaskQueue`.

## 4. What is proved

All theorems hold for every value of the constants that satisfies the named
assumption of the module; the fault bounds are constants too, so the safety theorems
hold for any number of faults.

- **TaskQueueProofs**: `TypeCorrect`, `NoTaskIsLost`, `ExecutionsAreBounded`,
  `DeadLettersAreExact`, `ArchivingIsExactlyOnce`, `OutcomesAreFinal`,
  `LatestAttemptCommits`, and `Refinement` (`Spec => Lifecycle!Spec`).
  The properties are not inductive alone. A commit deletes the entry in hand and
  so must be known to end the task or to append another entry; that it comes from
  the latest attempt, and that no two workers believe to hold one attempt, follows
  from `LeaseInv` (a lease belongs to a running task and is its latest attempt) and
  `ClaimInv` (the tokens of claiming workers are at most the number of attempts, and
  two claims of a task differ). `AcceptedInv` says that entries and items in hand
  belong to accepted tasks, so that a claim cannot revive a task nobody submitted;
  `StartedInv` that an attempt not yet begun is not among the started ones;
  `ArchiveInv` that a worker past a commit finds its row (and vector), whoever
  wrote it. `TypeCorrect` includes that the recovery queue of a process stays within its
  maxsize, whatever batches XAUTOCLAIM returns (`AccommodateType`). For the refinement each action is mapped to a step of `TaskLifecycle`
  or to a stutter, under the same invariant.
  `LeaksAreFaults` counts the entries of finding 1: a step without fault leaks none,
  a crash or a lost reply at most the entry in hand, so there are never more of
  them than faults. Hence `CapacityOutlastsFaults`: the property the finding
  refutes does hold while there have been fewer faults than the queue has capacity.
- **BreakerProofs**: `TypeCorrect`, `ProbeIsAlwaysHeld`. The invariant is inductive
  with the types: whoever sets the flag is in a call, and everyone who leaves a call
  clears it. `StragglersBoundProbes` measures finding 2. `Overlap` counts the calls
  under way, with those about to begin because they read that the breaker was closed,
  and one more while the probe flag is free. While the breaker stays open no step
  raises it: a probe is admitted by taking the flag, and a call that frees the flag
  leaves. So a breaker that opened beside n stragglers has at most n + 1 probes at
  once until it closes, and one if there were none. That the stragglers
  have returned is not enough: one of them may have let in a second probe, which
  lets in a third when it returns, and so on, two at a time.
- **IdempotencyProofs**: `IdempotencyTypes`, `ExecutesOnce`, `NeverReexecuted`,
  `ReplaysAreFaithful`, `OwnersSettle`, `FailuresBoundAnswers`, `OneAnswerPerKey`. The
  invariant is `RecordsFit` (a record bears the key and body of
  the request that wrote it), the types of control points and answers (`Control`),
  `Holding` (a handler at work, whose record has not lapsed, has its own
  reservation in the store: two of one key would be the same reservation) and
  `FaithfulReplay`. How far an answer can differ from an earlier one takes
  `StrayInv` besides: what was given out for a key, or is about to be, is the
  completed record the key still has, except for at most as many answers
  (`Strays`) as commands have failed. Without early expiry a key thus gives out at
  most one answer more than there were failed commands (`FailuresBoundAnswers`), which
  measures finding 3, and a single one if none failed (`OneAnswerPerKey`).
- **InferenceProofs**: `ServiceTypes`, `PermitsAreConserved`, `AnsweredFreesPermit`,
  `AbandonedNeverStarts`, `SlotsAreConserved`, `RetriesDoNotOverlap`,
  `NothingStartsLate`. Each half has an invariant of its own (`AdmissionInv`: types,
  coherence of caller, future and callback, conservation; `SkillInv`: types, at most
  the current attempt has a live handler, conservation), proved over its own
  variables and then composed: a step of one half leaves the other's variables
  alone, except the end of a run, which only reads. What
  only the composition shows follows from `CallsHaveThreads` (a skill call under way
  belongs to a run that has a thread) and `ThreadsSuffice`: `CallsAreBounded`, no more
  skill calls than threads although abandoned runs go on, and
  `RefusedExecutesNothing`.
- **CorrectionPipelineProofs**: `PipelineTypes`, `VerifiedAreChecked`,
  `DraftsNeedVerdicts`, `VerdictsArePublished`, `FailuresAreSurvived`,
  `OnlyProblemsLeaveReplies`, `EveryRunDescends`. The module has no parameter, and its
  run is exhaustive; the proofs say why its properties hold. The types are not
  inductive alone: `choose` would find no branch of `curriculum_route` for a
  turn of another route, so `Routed` says which turns reach the solver. `VerdictInv`
  relates contract, verdicts and reply at each part of the graph: while an answer
  is being sought nothing is passed and no checked contract is trusted
  (`Unjudged`), because a verdict that passes leads straight to the render; from
  then on the contract in the state and the text it was issued for are those the
  render uses (`Trusted`, `RenderedLast`). `Survival` says what each node still needs
  when only tolerated skills have failed. `LeftoverKnown` delimits finding 4: only
  a turn of intent `problem_solve` can leave the reply that hides the answer.
  `EveryRunDescends` gives each node a number (`Left`) that every step lowers: a run has at
  most nineteen nodes and none twice. With the fairness of the steps this is
  `Terminates`, whose last step, ENABLED, is not proved.
- **WorkspaceProofs**: `WorkspaceTypes`, `AnswersAreOwn`, `ContextIsOfLastAnswer`,
  `PageIsShell`. The invariant is stated of a store (its list, what each session
  holds, that sessions outside the list hold nothing, and each session's answers
  and context) and asserted twice: of the store on screen and of the copy in local
  storage, which is what a reload restores. The two differ after a refused write, and
  so does the context they may have: behind the last answer shown where `torn` says so,
  never ahead of it. `RunOK` says that a pending question's
  session is the one on screen; without it an answer could be filed elsewhere, and
  with it every action maps to a step of `ChatShell` or a stutter.
- **DeskProofs**: `DeskTypes`, `NothingStrays`. Inductive are `ReadHere` (a file
  being read was chosen in the session on screen: a remount ends the others) and
  `AskedHere` (the pending question is of the session on screen), with the types.
  `Desk` takes its steps from `ChatShell`, so that it keeps the shell's promise is how
  it is built and not a result; that the real page keeps it is `PageIsShell`.
  `AskerStaysOnScreen` is proved of `ChatShell` itself and so holds of both modules:
  whoever waits for an answer sees the session that asked.

The conservation laws use the cardinality theorems of the library: each step adds or
removes at most one holder.

Only model-checked: all liveness (`EveryTaskSettles`, `Recovers`, `ReservationEnds`,
`PermitsComeBack`, `Terminates`, `WaitEnds`, and that every question of `Workspace`
settles, the fairness part of `ImplementsShell`), for which the
prover would have to reason about fairness and ENABLED. Every invariant and every
action property a passing run checks is a theorem.

To repeat: `tlc -config MCTaskQueueSafety.cfg MCTaskQueue` (and so on, the table's
run being the cfg), `tlapm TaskQueueProofs.tla`.

## 5. Findings

1. **Capacity lost for good** (`agentic_rag/task_queue.py:164`, run
   `MCTaskQueueLeak`). `claim` acknowledges the entry of a finished task and deletes
   it in a second call. If the worker dies in between, no recovery returns the entry
   (it is not pending), but XLEN counts it against the capacity from then on.
2. **Two probes** (`gateway/main.go:51`, run `MCBreakerProbe`). A call admitted
   while the breaker was closed returns after the breaker opened and half-opened, and
   clears the flag of another call's probe; a second probe is admitted.
   `main_test.go:162` calls that a failure, and tests the sequential case.
3. **Answer not replayed** (`gateway/main.go:187`, run `MCIdempotencyLostSet`).
   `set` ignores the error of Redis; the client has its answer, the deferred release
   deletes the reservation, and the repeat is executed again, against
   `docs/Architecture.md:33`.
4. **A reply nobody judged hides the answer** (`skill_runtime/pipeline.py:208`, run
   `MCCorrectionPipelineStaleReply`). When `curriculum_solve` leaves a reply
   that does not count as handled, `_project_input` merges it over every later answer: the
   critics judge it in place of the draft and the render publishes it under the
   contract the final judge gave to another text. `VerifiedIsChecked` shows that this is
   the only way: without such a leftover what is published was judged.

Known limits the models reach that contradict no document: `fail` may take the stream
past its capacity (a retry is meant to be admitted); handlers that hang use up the
slots; when `answer_generate` itself fails, `targeted_fallback` and the render lack
their input and the run has no response (`answer_generate` is not among the
`Tolerated` skills of `SurvivesFailures`).

In the browser:

- When storage takes an answer and refuses the larger write of its context, the page goes
  on with the new context, but after a reload the answer is there and the next question
  is sent with the history, summary and exercise of an earlier one.
  `ContextFollowsAnswer` says that the context is then older, never one of an answer that is
  not shown.
- After a reload with more than 30 sessions the active one may be gone. Another is shown,
  but messages are written to the lost one, so that questions and answers vanish until
  a session is selected.
- `Submit` empties the composer before the question is sent, and a stopped or failed question
  does not come back, although the note (`frontend/src/i18n.ts:50` and `:106`) says
  that the problem remains in the composer. It remains in the conversation, as the
  question above the note.
- A question sent offline waits for the network even when it is stopped, and in the
  demonstration, which needs none; until then the page is busy.
- Regenerating any answer replaces the last one (or the note after it), not the one
  whose button was pressed; one that fails says nothing.
- With two files chosen in turn, the reading that ends last stays, whichever was chosen
  last; a reading or dictation may put back a text that has been sent.
- The memoised identity is never asked again after it was established:
  a 401, for which `docs/API.md:57` tells clients to establish it anew, lasts until
  the page is reloaded.
- When the very first poll of a task fails, polling stops and `Generate` stays disabled
  until the user refreshes; `WaitEnds` shows that the panel then says so.

## 6. What is not modelled

- The in-process fallbacks of queue and idempotency store (no Redis): tests and
  development only, a mutex and a map. Planned for completeness.
- The retention expiry of finished task hashes; the gateway's stream handler as an actor of
  its own (the events it can relay are in `Workspace`).
- A second tab of the browser, which shares local storage and overwrites it with its
  own sessions. Titles, search and order of the sidebar, language and theme, the
  readiness query, the votes on answers (sent one by one, in no order), the chip that
  names a file, and the contents of the drawers.
- The queries of the learning panel that list mistakes and the stored report, and the
  demonstration's reports and tasks, which are synchronous.
- Deltas streamed while a draft is generated: they are not responses, and the client
  replaces them by the published answer. The sinks of the answer stream are planned.
- What skills compute: prompts, retrieval scores, symbolic mathematics.
- Real time: timeouts are steps that may happen at any moment, so no property says
  how long something takes.

## 7. Plan

Done, in this order: (1) `TaskLifecycle`, `TaskQueue`; (2) `Breaker`;
(3) `Idempotency`; (4) `GraphAdmission`, `SkillExecutor`, `InferenceService`, all
with proofs; (5) `CorrectionPipeline`; the browser: `ChatShell` and `Workspace`, then
`Composer`, `LearningPanel`, `Inspector` and `Desk`, with proofs.

Next:

6. A generic executor over any acyclic graph (`PipelineRegistry.validate`), of which
   `CorrectionPipeline` and the five short pipelines are instances. Theorem: each node
   runs at most once and an unfinished run can always go on, for every validated graph.
7. Sessions: the answer stream (sinks, full queues, shared request ids, disconnects), `ask` around the run (cache lookup, error mapping, turn,
   archive task and cached answer written one after the other), the two caches, the
   exercise store with the answer check of `fast_path.py`, the memory store with
   `delete_memory` against a retried archive. Abstract specification: a stream
   delivers a prefix of the events of its own question and then its result. One run.
8. Pure algorithms: rank fusion, difficulty progression, the bounded exercise search,
   the varint codec, the rate limiter's table. One run against reference definitions.
9. In-process variants of queue and idempotency store, a second tab of the browser,
   the legacy graph of `graph.py`.
10. More proofs: the safety half of liveness, as `EveryRunDescends` is for
   `Terminates` (measures that the fair steps of queue, breaker and service lower),
   and the invariants of the session modules.
