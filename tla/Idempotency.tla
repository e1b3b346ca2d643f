---------------------------- MODULE Idempotency ----------------------------
(***************************************************************************)
(* Idempotent POST /ask: the gateway handler (gateway/main.go, ask and     *)
(* askGRPC, not the streams, which bypass the store) and its idempotency   *)
(* store on Redis (idemStore).  Every Redis command is one atomic step;    *)
(* handlers run in any number of gateway replicas.                         *)
(*                                                                         *)
(* A request's random owner is the request itself; so is the answer its    *)
(* call of the inference service produced.                                 *)
(***************************************************************************)
EXTENDS Naturals, FiniteSets

CONSTANTS
    Requests,     \* HTTP requests, each handled once
    Keys,         \* hashes of route, user, session and Idempotency-Key
    KeyOf,        \* the key of each request
    BodyOf,       \* the fingerprint of its body
    ShortTTL,     \* TRUE: GATEWAY_IDEMPOTENCY_TTL_SECONDS is less than a call may take
    MaxFaults,    \* bound: Redis commands of one behaviour that fail
    MaxCrashes,   \* bound: handlers lost with their gateway
    Nobody        \* not a request

ASSUME IdempotencyAssumption ==
    /\ KeyOf \in [Requests -> Keys]
    /\ ShortTTL \in BOOLEAN
    /\ MaxFaults \in Nat /\ MaxCrashes \in Nat
    /\ Nobody \notin Requests

VARIABLES
    store,      \* the Redis record of each key
    pc,         \* control point of each request's handler
    reply,      \* what the client was told
    answer,     \* the request whose call produced the answer it was given
    served,     \* history: answers given out for a key since its last expiry
    outlived,   \* history: keys whose record lapsed before its handler had ended
    faults, crashes

vars == <<store, pc, reply, answer, served, outlived, faults, crashes>>

NoRecord == [owner |-> Nobody, body |-> Nobody, answer |-> Nobody]
Reservation(r) == [owner |-> r, body |-> BodyOf[r], answer |-> Nobody]
Completion(r) == [owner |-> Nobody, body |-> BodyOf[r], answer |-> r]

Record(r) == store[KeyOf[r]]
Reserved(k) == store[k].owner # Nobody
Completed(k) == store[k].answer # Nobody

Working == {"owned", "calling", "setting", "responding", "releasing"}
PCs == {"new", "missed", "taken", "ended"} \cup Working
Replies == {"none", "ok", "conflict", "in_progress", "unavailable", "failed"}

Init ==
    /\ store = [k \in Keys |-> NoRecord]
    /\ pc = [r \in Requests |-> "new"]
    /\ reply = [r \in Requests |-> "none"]
    /\ answer = [r \in Requests |-> Nobody]
    /\ served = [k \in Keys |-> {}]
    /\ outlived = {}
    /\ faults = 0 /\ crashes = 0

GoTo(r, label) == pc' = [pc EXCEPT ![r] = label]
Write(r, record) == store' = [store EXCEPT ![KeyOf[r]] = record]
Tell(r, what) == reply' = [reply EXCEPT ![r] = what] /\ UNCHANGED <<answer, served>>
GiveAnswer(r, s) ==
    /\ reply' = [reply EXCEPT ![r] = "ok"]
    /\ answer' = [answer EXCEPT ![r] = s]
    /\ served' = [served EXCEPT ![KeyOf[r]] = @ \cup {s}]

Silent == UNCHANGED <<reply, answer, served>>
Fault == faults < MaxFaults /\ faults' = faults + 1 /\ UNCHANGED <<crashes, outlived>>
NoFault == UNCHANGED <<faults, crashes, outlived>>

-----------------------------------------------------------------------------
(* Before the handler owns the key.                                        *)

\* Bad identity, full gateway, unreadable body, store that does not PING.
Reject(r) ==
    /\ pc[r] = "new"
    /\ Tell(r, "unavailable") /\ GoTo(r, "ended")
    /\ NoFault /\ UNCHANGED store

\* Mutant: get hands out a completed record without comparing fingerprints.
GetAnyBody(r) ==
    /\ pc[r] = "new"
    /\ \/ /\ Record(r) = NoRecord
          /\ GoTo(r, "missed") /\ Silent
       \/ /\ Record(r) # NoRecord
          /\ GoTo(r, "ended")
          /\ IF Completed(KeyOf[r]) THEN GiveAnswer(r, Record(r).answer)
             ELSE Tell(r, "in_progress")
    /\ NoFault /\ UNCHANGED store

\* get: a miss, or the record answers the request.
Get(r) ==
    /\ pc[r] = "new"
    /\ \/ /\ Record(r) = NoRecord
          /\ GoTo(r, "missed") /\ Silent
       \/ /\ Record(r) # NoRecord
          /\ GoTo(r, "ended")
          /\ IF Record(r).body # BodyOf[r] THEN Tell(r, "conflict")
             ELSE IF Completed(KeyOf[r]) THEN GiveAnswer(r, Record(r).answer)
             ELSE Tell(r, "in_progress")
    /\ NoFault /\ UNCHANGED store

\* An error of Redis reads as a miss.
GetFails(r) ==
    /\ pc[r] = "new"
    /\ GoTo(r, "missed") /\ Silent
    /\ Fault /\ UNCHANGED store

\* Mutant: SET without NX.
ReserveAlways(r) ==
    /\ pc[r] = "missed"
    /\ Write(r, Reservation(r)) /\ GoTo(r, "owned")
    /\ Silent /\ NoFault

\* reserve: SET NX, which a live record defeats.
Reserve(r) ==
    /\ pc[r] = "missed"
    /\ IF Record(r) = NoRecord
       THEN Write(r, Reservation(r)) /\ GoTo(r, "owned")
       ELSE GoTo(r, "taken") /\ UNCHANGED store
    /\ Silent /\ NoFault

\* The reply is lost, before or after SET took effect.
ReserveFails(r) ==
    /\ pc[r] = "missed"
    /\ \/ Record(r) = NoRecord /\ Write(r, Reservation(r))
       \/ UNCHANGED store
    /\ Tell(r, "unavailable") /\ GoTo(r, "ended")
    /\ Fault

\* reserve then reads who has the key.  Gone by now, completed by now: both
\* are told to be in progress.
ReadHolder(r) ==
    /\ pc[r] = "taken"
    /\ Tell(r, IF Record(r) # NoRecord /\ Record(r).body # BodyOf[r]
               THEN "conflict" ELSE "in_progress")
    /\ GoTo(r, "ended")
    /\ NoFault /\ UNCHANGED store

ReadHolderFails(r) ==
    /\ pc[r] = "taken"
    /\ Tell(r, "in_progress") /\ GoTo(r, "ended")
    /\ Fault /\ UNCHANGED store

-----------------------------------------------------------------------------
(* The handler owns the key; its deferred release runs last.               *)

\* UPSTREAM_OPEN: see Breaker.
BreakerRefuses(r) ==
    /\ pc[r] = "owned"
    /\ Tell(r, "failed") /\ GoTo(r, "releasing")
    /\ NoFault /\ UNCHANGED store

Call(r) ==
    /\ pc[r] = "owned"
    /\ GoTo(r, "calling")
    /\ Silent /\ NoFault /\ UNCHANGED store

\* A 2xx response, or a gRPC response.
CallSucceeds(r) ==
    /\ pc[r] = "calling"
    /\ GoTo(r, "setting")
    /\ Silent /\ NoFault /\ UNCHANGED store

\* A timeout, a broken connection, another status, a client that went away.
CallFails(r) ==
    /\ pc[r] = "calling"
    /\ Tell(r, "failed") /\ GoTo(r, "releasing")
    /\ NoFault /\ UNCHANGED store

\* Mutant: the script of set does not compare the owner.
SetAlways(r) ==
    /\ pc[r] = "setting"
    /\ Write(r, Completion(r))
    /\ GoTo(r, "responding") /\ Silent /\ NoFault

\* Mutant: the completed record still names its owner.
SetKeepsOwner(r) ==
    /\ pc[r] = "setting"
    /\ IF Record(r).owner = r THEN Write(r, [Completion(r) EXCEPT !.owner = r])
       ELSE UNCHANGED store
    /\ GoTo(r, "responding") /\ Silent /\ NoFault

\* set: only over the handler's own reservation.  Its error is ignored.
Set(r) ==
    /\ pc[r] = "setting"
    /\ IF Record(r).owner = r THEN Write(r, Completion(r)) ELSE UNCHANGED store
    /\ GoTo(r, "responding") /\ Silent /\ NoFault

SetFails(r) ==
    /\ pc[r] = "setting"
    /\ \/ Record(r).owner = r /\ Write(r, Completion(r))
       \/ UNCHANGED store
    /\ GoTo(r, "responding") /\ Silent /\ Fault

Respond(r) ==
    /\ pc[r] = "responding"
    /\ GiveAnswer(r, r) /\ GoTo(r, "releasing")
    /\ NoFault /\ UNCHANGED store

\* Mutant: release deletes whatever record the key has.
ReleaseAny(r) ==
    /\ pc[r] = "releasing"
    /\ Write(r, NoRecord)
    /\ GoTo(r, "ended") /\ Silent /\ NoFault

\* release: deletes the handler's own reservation, never a completed record.
Release(r) ==
    /\ pc[r] = "releasing"
    /\ IF Record(r).owner = r THEN Write(r, NoRecord) ELSE UNCHANGED store
    /\ GoTo(r, "ended") /\ Silent /\ NoFault

ReleaseFails(r) ==
    /\ pc[r] = "releasing"
    /\ \/ Record(r).owner = r /\ Write(r, NoRecord)
       \/ UNCHANGED store
    /\ GoTo(r, "ended") /\ Silent /\ Fault

-----------------------------------------------------------------------------
\* The replica dies; it still has the key until the time to live has passed.
Crash(r) ==
    /\ pc[r] \in Working \cup {"missed", "taken"}
    /\ crashes < MaxCrashes /\ crashes' = crashes + 1
    /\ GoTo(r, "ended") /\ Silent
    /\ UNCHANGED <<store, outlived, faults>>

Drop(k) ==
    /\ store' = [store EXCEPT ![k] = NoRecord]
    /\ served' = [served EXCEPT ![k] = {}]
    /\ UNCHANGED <<pc, reply, answer>>

\* Mutant: reservations are written without an expiry.
ExpireCompleted(k) ==
    /\ Completed(k) /\ pc[store[k].answer] = "ended"
    /\ Drop(k) /\ NoFault

\* EX: the default of an hour outlives the 45 s call of whoever wrote the record.
Expire(k) ==
    /\ (Reserved(k) /\ pc[store[k].owner] = "ended")
       \/ (Completed(k) /\ pc[store[k].answer] = "ended")
    /\ Drop(k) /\ NoFault

\* With a shorter time to live it lapses while its handler is at work (bound:
\* once per key).
ExpireEarly(k) ==
    /\ ShortTTL /\ k \notin outlived
    /\ (Reserved(k) /\ pc[store[k].owner] # "ended")
       \/ (Completed(k) /\ pc[store[k].answer] # "ended")
    /\ Drop(k)
    /\ outlived' = outlived \cup {k}
    /\ UNCHANGED <<faults, crashes>>

Handle(r) ==
    \/ Reject(r) \/ Get(r) \/ Reserve(r) \/ ReadHolder(r)
    \/ BreakerRefuses(r) \/ Call(r) \/ CallSucceeds(r) \/ CallFails(r)
    \/ Set(r) \/ Respond(r) \/ Release(r)

HandleFails(r) ==
    \/ GetFails(r) \/ ReserveFails(r) \/ ReadHolderFails(r)
    \/ SetFails(r) \/ ReleaseFails(r) \/ Crash(r)

Next ==
    \/ \E r \in Requests : Handle(r) \/ HandleFails(r)
    \/ \E k \in Keys : Expire(k) \/ ExpireEarly(k)

Spec == Init /\ [][Next]_vars

\* Handlers run and calls return (they have timeouts); records expire.
Fairness ==
    /\ \A r \in Requests : WF_vars(Handle(r))
    /\ \A k \in Keys : WF_vars(Expire(k))

FairSpec == Spec /\ Fairness

-----------------------------------------------------------------------------
TypeOK ==
    /\ store \in [Keys -> {NoRecord} \cup {Reservation(r) : r \in Requests}
                                     \cup {Completion(r) : r \in Requests}]
    /\ pc \in [Requests -> PCs]
    /\ reply \in [Requests -> Replies]
    /\ answer \in [Requests -> Requests \cup {Nobody}]
    /\ served \in [Keys -> SUBSET Requests]
    /\ outlived \subseteq Keys
    /\ faults \in 0..MaxFaults /\ crashes \in 0..MaxCrashes

\* One call of the inference service per key at a time, whatever Redis
\* commands fail and whichever replicas the duplicates reach, unless a record
\* lapsed during a call.
OneExecution ==
    \A r, s \in Requests :
        /\ pc[r] = "calling" /\ pc[s] = "calling"
        /\ KeyOf[r] = KeyOf[s] /\ KeyOf[r] \notin outlived
        => r = s

\* A completed request is not executed again while its record lives.
NoExecutionAfterCompletion ==
    \A r \in Requests :
        pc[r] \in {"owned", "calling"} /\ KeyOf[r] \notin outlived => ~Completed(KeyOf[r])

\* An answer is only ever given to a request with the key and the body whose
\* call produced it.
FaithfulReplay ==
    \A r \in Requests : answer[r] # Nobody =>
        /\ KeyOf[r] = KeyOf[answer[r]]
        /\ BodyOf[r] = BodyOf[answer[r]]

\* A reservation is completed or released by its owner, or lapses: a handler
\* that outlived its own reservation does not touch its successor's.
OnlyOwnerSettles ==
    [][\A r \in Requests :
        Record(r) = Reservation(r) /\ Record(r)' # Record(r) =>
            \/ Record(r)' = NoRecord /\ UNCHANGED pc      \* expiry
            \/ pc[r] \in {"setting", "releasing"} /\ pc'[r] # pc[r]]_store

\* docs/Architecture.md:33: a repeated request gets the completed result, so
\* all clients that got an answer for a key got the same, until it expires.
AnswersAgree == \A k \in Keys : Cardinality(served[k]) <= 1

\* They do as long as Redis answers and no record lapses during a call,
\* although replicas die.
AnswersAgreeWithoutFaults == faults = 0 /\ outlived = {} => AnswersAgree

\* No key stays in progress for ever.
ReservationEnds == \A k \in Keys : Reserved(k) ~> ~Reserved(k)
=============================================================================
