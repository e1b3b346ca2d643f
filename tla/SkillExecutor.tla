---------------------------- MODULE SkillExecutor ----------------------------
(***************************************************************************)
(* The execution boundary of the skills: skill_runtime/executor.py.        *)
(*                                                                         *)
(* A call makes up to MaxAttempts attempts.  An attempt takes one of the   *)
(* process's handler slots without waiting, submits the handler to a pool  *)
(* and waits for its future until the time is up.  A handler that has      *)
(* started cannot be stopped: a call that gives up leaves it running, does *)
(* not retry, and the slot stays taken until the done-callback frees it.   *)
(***************************************************************************)
EXTENDS Naturals, FiniteSets

CONSTANTS
    Calls,         \* executions of a skill, one per thread that waits for one
    Slots,         \* SKILL_MAX_INFLIGHT
    MaxAttempts    \* max_attempts of the skill's manifest

ASSUME SkillAssumption ==
    /\ IsFiniteSet(Calls)
    /\ Slots \in Nat \ {0}
    /\ MaxAttempts \in Nat \ {0}

Attempts == 1..MaxAttempts

VARIABLES
    slots,      \* the value of _HANDLER_SLOTS
    attempt,    \* the attempt a call is at, 0 outside the loop
    handler,    \* the handler of each attempt of a call
    again,      \* calls whose attempt ended with an error it says can be retried
    call        \* control point of each call

skillVars == <<slots, attempt, handler, again, call>>

\* Ended: the future has its result, the done-callback has yet to run.  None:
\* there is no handler, or no longer one that holds a slot.
Handlers == {"none", "pending", "running", "ended"}
Live == {"pending", "running"}
Holding == Live \cup {"ended"}

SlotHolders == {h \in Calls \X Attempts : handler[h[1]][h[2]] \in Holding}

SkillInit ==
    /\ slots = Slots
    /\ attempt = [c \in Calls |-> 0]
    /\ handler = [c \in Calls |-> [i \in Attempts |-> "none"]]
    /\ again = {}
    /\ call = [c \in Calls |-> "idle"]

SetHandler(c, i, h) == handler' = [handler EXCEPT ![c][i] = h]

\* With a value or with an error: what a caller makes of it is Pipeline's.
Return(c) ==
    /\ call' = [call EXCEPT ![c] = "returned"]
    /\ attempt' = [attempt EXCEPT ![c] = 0]

\* A retryable failure of an attempt.
RetryOrReturn(c) ==
    IF attempt[c] < MaxAttempts
    THEN /\ attempt' = [attempt EXCEPT ![c] = @ + 1]
         /\ call' = [call EXCEPT ![c] = "trying"]
    ELSE Return(c)

-----------------------------------------------------------------------------
\* The request is within its deadline, its input valid and authorized.
Begin(c) ==
    /\ call[c] = "idle"
    /\ call' = [call EXCEPT ![c] = "trying"]
    /\ attempt' = [attempt EXCEPT ![c] = 1]
    /\ UNCHANGED <<slots, handler, again>>

Reject(c) ==
    /\ call[c] = "idle"
    /\ Return(c)
    /\ UNCHANGED <<slots, handler, again>>

Submit(c) ==
    /\ call[c] = "trying"
    /\ slots > 0
    /\ slots' = slots - 1
    /\ SetHandler(c, attempt[c], "pending")
    /\ call' = [call EXCEPT ![c] = "waiting"]
    /\ UNCHANGED <<attempt, again>>

\* "Skill capacity exhausted" uses up an attempt.
NoCapacity(c) ==
    /\ call[c] = "trying"
    /\ slots = 0
    /\ RetryOrReturn(c)
    /\ UNCHANGED <<slots, handler, again>>

\* A value ends the call, valid or not, and so does an error that is not
\* retryable; the handler's own TimeoutError is taken for the executor's.
Collect(c) ==
    /\ call[c] = "waiting"
    /\ handler[c][attempt[c]] \notin Live
    /\ IF c \in again THEN RetryOrReturn(c) ELSE Return(c)
    /\ again' = again \ {c}
    /\ UNCHANGED <<slots, handler>>

\* Mutant: a timeout is retried like any retryable failure.
TimeoutRetries(c) ==
    /\ call[c] = "waiting"
    /\ handler[c][attempt[c]] \in Live
    /\ RetryOrReturn(c)
    /\ UNCHANGED <<slots, handler, again>>

\* Mutant: a timeout does not cancel a handler that has not started.
TimeoutLeavesPending(c) ==
    /\ call[c] = "waiting"
    /\ handler[c][attempt[c]] \in Live
    /\ Return(c)
    /\ UNCHANGED <<slots, handler, again>>

\* Mutant: a handler that has started is waited for.
TimeoutWaits(c) ==
    /\ call[c] = "waiting"
    /\ handler[c][attempt[c]] = "pending"
    /\ SetHandler(c, attempt[c], "none")
    /\ slots' = slots + 1
    /\ Return(c)
    /\ UNCHANGED again

\* The wait for the future times out: a handler that has not started is
\* cancelled, which runs the done-callback here; one that has goes on.
Timeout(c) ==
    /\ call[c] = "waiting"
    /\ handler[c][attempt[c]] \in Live
    /\ IF handler[c][attempt[c]] = "pending"
       THEN /\ SetHandler(c, attempt[c], "none")
            /\ slots' = slots + 1
       ELSE UNCHANGED <<handler, slots>>
    /\ Return(c)
    /\ UNCHANGED again

-----------------------------------------------------------------------------
(* The handler pool.                                                       *)

\* There are as many threads as slots, so a submitted handler finds one.
StartHandler(c, i) ==
    /\ handler[c][i] = "pending"
    /\ SetHandler(c, i, "running")
    /\ UNCHANGED <<slots, attempt, again, call>>

\* Nobody reads the result of a handler that was given up.
EndHandler(c, i) ==
    /\ handler[c][i] = "running"
    /\ SetHandler(c, i, "ended")
    /\ \/ UNCHANGED again
       \/ call[c] = "waiting" /\ again' = again \cup {c}
    /\ UNCHANGED <<slots, attempt, call>>

\* Mutant: an abandoned handler's slot is not freed.
FreeSlotIfAwaited(c, i) ==
    /\ handler[c][i] = "ended"
    /\ SetHandler(c, i, "none")
    /\ slots' = IF call[c] = "waiting" THEN slots + 1 ELSE slots
    /\ UNCHANGED <<attempt, again, call>>

\* The done-callback, after the waiting call has been woken.
FreeSlot(c, i) ==
    /\ handler[c][i] = "ended"
    /\ SetHandler(c, i, "none")
    /\ slots' = slots + 1
    /\ UNCHANGED <<attempt, again, call>>

-----------------------------------------------------------------------------
Execute(c) ==
    Begin(c) \/ Reject(c) \/ Submit(c) \/ NoCapacity(c) \/ Collect(c) \/ Timeout(c)

HandlerStep(c, i) == StartHandler(c, i) \/ EndHandler(c, i) \/ FreeSlot(c, i)

SkillNext == \E c \in Calls : Execute(c) \/ \E i \in Attempts : HandlerStep(c, i)

SkillSpec == SkillInit /\ [][SkillNext]_skillVars

-----------------------------------------------------------------------------
SkillTypeOK ==
    /\ slots \in 0..Slots
    /\ attempt \in [Calls -> 0..MaxAttempts]
    /\ handler \in [Calls -> [Attempts -> Handlers]]
    /\ again \subseteq Calls
    /\ call \in [Calls -> {"idle", "trying", "waiting", "returned"}]

\* executor.py:73: "retain its global capacity slot".  Every slot is free or
\* held by one handler, also when the call that started it is long gone.
SlotsConserved == slots + Cardinality(SlotHolders) = Slots

\* executor.py:73: "Never overlap retries with it".
NoOverlap ==
    \A c \in Calls : \A i, j \in Attempts :
        handler[c][i] \in Live /\ handler[c][j] \in Live => i = j

\* A call that has returned starts no handler behind its caller's back.
NoLateStart == \A c \in Calls, i \in Attempts : call[c] = "returned" => handler[c][i] # "pending"
=============================================================================
