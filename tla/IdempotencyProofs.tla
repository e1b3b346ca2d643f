------------------------- MODULE IdempotencyProofs -------------------------
(***************************************************************************)
(* Proofs about Idempotency for any set of requests, keys and bodies and   *)
(* any number of failing Redis commands and crashes.  The argument rests   *)
(* on what a record is allowed to be (RecordsFit) and on a handler keeping *)
(* its reservation from SET NX until set (Holding): nobody else may write  *)
(* over a live reservation, and it does not lapse while its handler is at  *)
(* work unless its key counts as outlived.  Answers that are not the       *)
(* record of their key (Strays) are counted against the commands that      *)
(* failed.                                                                 *)
(***************************************************************************)
EXTENDS Idempotency, FiniteSetTheorems, TLAPS

Fits(k, record) ==
    \/ record = NoRecord
    \/ \E r \in Requests : KeyOf[r] = k /\ record \in {Reservation(r), Completion(r)}

\* A record was written for its key by a request that has that key.
RecordsFit == store \in [Keys -> {store[k] : k \in Keys}] /\ \A k \in Keys : Fits(k, store[k])

Control ==
    /\ pc \in [Requests -> PCs]
    /\ answer \in [Requests -> Requests \cup {Nobody}]

Holding ==
    \A r \in Requests :
        pc[r] \in {"owned", "calling", "setting"} /\ KeyOf[r] \notin outlived
            => Record(r) = Reservation(r)

IInv == RecordsFit /\ Control /\ Holding /\ FaithfulReplay

-----------------------------------------------------------------------------
\* What the three kinds of record say.
LEMMA RecordFacts ==
    ASSUME NEW r \in Requests
    PROVE  /\ NoRecord.owner = Nobody /\ NoRecord.answer = Nobody
           /\ Reservation(r).owner = r /\ Reservation(r).answer = Nobody
           /\ Reservation(r).body = BodyOf[r]
           /\ Completion(r).owner = Nobody /\ Completion(r).answer = r
           /\ Completion(r).body = BodyOf[r]
           /\ r # Nobody
  BY IdempotencyAssumption DEF NoRecord, Reservation, Completion

LEMMA KeyFact ==
    ASSUME NEW r \in Requests
    PROVE  KeyOf[r] \in Keys
  BY IdempotencyAssumption

\* A reservation tells its owner, so two requests never have the same one.
LEMMA OwnerFact ==
    ASSUME RecordsFit, NEW r \in Requests, Record(r).owner = r
    PROVE  Record(r) = Reservation(r)
  <1>1. Fits(KeyOf[r], Record(r))
    BY KeyFact DEF RecordsFit, Record
  <1>2. Record(r) # NoRecord
    BY RecordFacts
  <1>3. PICK s \in Requests : Record(r) \in {Reservation(s), Completion(s)}
    BY <1>1, <1>2 DEF Fits
  <1>4. Record(r) = Reservation(s) /\ s = r
    BY <1>3, RecordFacts
  <1> QED
    BY <1>4

\* A completed record holds the answer of a request with its key and body.
LEMMA AnswerFact ==
    ASSUME RecordsFit, NEW r \in Requests, Completed(KeyOf[r])
    PROVE  /\ Record(r).answer \in Requests
           /\ KeyOf[Record(r).answer] = KeyOf[r]
           /\ BodyOf[Record(r).answer] = Record(r).body
  <1>1. Fits(KeyOf[r], Record(r)) /\ Record(r).answer # Nobody
    BY KeyFact DEF RecordsFit, Record, Completed
  <1>2. PICK s \in Requests :
            KeyOf[s] = KeyOf[r] /\ Record(r) \in {Reservation(s), Completion(s)}
    BY <1>1, RecordFacts DEF Fits
  <1>3. Record(r) = Completion(s)
    BY <1>1, <1>2, RecordFacts
  <1> QED
    BY <1>2, <1>3, RecordFacts

\* The four things a step does to the store.
StoreStep(r) ==
    \/ UNCHANGED store
    \/ Record(r) = NoRecord /\ Write(r, Reservation(r))
    \/ Record(r).owner = r /\ Write(r, Completion(r))
    \/ Record(r).owner = r /\ Write(r, NoRecord)

LEMMA WriteFits ==
    ASSUME RecordsFit, NEW r \in Requests, StoreStep(r)
    PROVE  RecordsFit'
  <1>1. CASE UNCHANGED store
    BY <1>1 DEF RecordsFit, Fits
  <1>2. ASSUME NEW record, Fits(KeyOf[r], record), Write(r, record) PROVE RecordsFit'
    <2>1. \A k \in Keys : store'[k] = IF k = KeyOf[r] THEN record ELSE store[k]
      BY <1>2, KeyFact DEF Write, RecordsFit
    <2>2. store' \in [Keys -> {store'[k] : k \in Keys}]
      BY <1>2 DEF Write, RecordsFit
    <2>3. \A k \in Keys : Fits(k, store'[k])
      BY <1>2, <2>1 DEF RecordsFit
    <2> QED
      BY <2>2, <2>3 DEF RecordsFit, Fits
  <1>3. /\ Fits(KeyOf[r], NoRecord)
        /\ Fits(KeyOf[r], Reservation(r))
        /\ Fits(KeyOf[r], Completion(r))
    BY DEF Fits
  <1> QED
    BY <1>1, <1>2, <1>3 DEF StoreStep

LEMMA ExpireFits ==
    ASSUME RecordsFit, NEW k \in Keys, Expire(k) \/ ExpireEarly(k)
    PROVE  RecordsFit'
  <1>1. store' = [store EXCEPT ![k] = NoRecord]
    BY DEF Expire, ExpireEarly, Drop
  <1>2. \A i \in Keys : store'[i] = IF i = k THEN NoRecord ELSE store[i]
    BY <1>1 DEF RecordsFit
  <1>3. store' \in [Keys -> {store'[i] : i \in Keys}]
    BY <1>1 DEF RecordsFit
  <1>4. \A i \in Keys : Fits(i, store'[i])
    BY <1>2 DEF RecordsFit, Fits
  <1> QED
    BY <1>3, <1>4 DEF RecordsFit, Fits

LEMMA HandlerStoreSteps ==
    ASSUME NEW r \in Requests, Handle(r) \/ HandleFails(r)
    PROVE  StoreStep(r)
  BY DEF Handle, HandleFails, StoreStep, Reject, Get, Reserve, ReadHolder, BreakerRefuses,
         Call, CallSucceeds, CallFails, Set, Respond, Release, GetFails, ReserveFails,
         ReadHolderFails, SetFails, ReleaseFails, Crash

-----------------------------------------------------------------------------
\* The control points: only Reserve enters a handler into those that hold.
LEMMA ControlSteps ==
    ASSUME Control, NEW r \in Requests, Handle(r) \/ HandleFails(r)
    PROVE  /\ pc' \in [Requests -> PCs]
           /\ \A s \in Requests \ {r} : pc'[s] = pc[s]
           /\ outlived' = outlived
           /\ pc'[r] \in {"owned", "calling", "setting"} =>
                \/ pc[r] \in {"owned", "calling"} /\ UNCHANGED store
                \/ Record(r) = NoRecord /\ Write(r, Reservation(r))
  <1>1. ASSUME NEW label \in PCs, GoTo(r, label)
        PROVE  /\ pc' \in [Requests -> PCs]
               /\ \A s \in Requests \ {r} : pc'[s] = pc[s]
               /\ pc'[r] = label
    BY <1>1 DEF GoTo, Control
  <1>2. CASE Reserve(r)
    BY <1>1, <1>2 DEF Reserve, NoFault, PCs, Working
  <1>3. CASE Call(r) \/ CallSucceeds(r)
    BY <1>1, <1>3 DEF Call, CallSucceeds, NoFault, PCs, Working
  <1>4. CASE \/ Reject(r) \/ Get(r) \/ ReadHolder(r) \/ BreakerRefuses(r) \/ CallFails(r)
             \/ Set(r) \/ Respond(r) \/ Release(r)
    BY <1>1, <1>4 DEF Reject, Get, ReadHolder, BreakerRefuses, CallFails, Set, Respond, Release,
                      NoFault, PCs, Working
  <1>5. CASE HandleFails(r)
    BY <1>1, <1>5 DEF HandleFails, GetFails, ReserveFails, ReadHolderFails, SetFails,
                      ReleaseFails, Crash, Fault, PCs, Working
  <1> QED
    BY <1>2, <1>3, <1>4, <1>5 DEF Handle

\* The answers: those handed out fit the request.
LEMMA AnswerSteps ==
    ASSUME RecordsFit, Control, FaithfulReplay, NEW r \in Requests, Handle(r) \/ HandleFails(r)
    PROVE  answer' \in [Requests -> Requests \cup {Nobody}] /\ FaithfulReplay'
  <1>1. ASSUME NEW s \in Requests, KeyOf[s] = KeyOf[r], BodyOf[s] = BodyOf[r], GiveAnswer(r, s)
        PROVE  answer' \in [Requests -> Requests \cup {Nobody}] /\ FaithfulReplay'
    BY <1>1 DEF GiveAnswer, Control, FaithfulReplay
  <1>2. CASE UNCHANGED answer
    BY <1>2 DEF Control, FaithfulReplay
  <1>3. CASE Get(r)
    <2>1. CASE UNCHANGED answer
      BY <2>1, <1>2
    <2>2. CASE answer' # answer
      <3>1. /\ Completed(KeyOf[r]) /\ GiveAnswer(r, Record(r).answer)
            /\ Record(r).body = BodyOf[r]
        BY <1>3, <2>2 DEF Get, Silent, Tell
      <3> QED
        BY <3>1, <1>1, AnswerFact
    <2> QED
      BY <2>1, <2>2
  <1>4. CASE Respond(r)
    BY <1>1, <1>4 DEF Respond
  <1>5. ASSUME ~Get(r), ~Respond(r) PROVE UNCHANGED answer
    BY <1>5 DEF Handle, HandleFails, Reject, Reserve, ReadHolder, BreakerRefuses,
         Call, CallSucceeds, CallFails, Set, Release, GetFails, ReserveFails,
         ReadHolderFails, SetFails, ReleaseFails, Crash, Silent, Tell
  <1> QED
    BY <1>2, <1>3, <1>4, <1>5

LEMMA HoldingSteps ==
    ASSUME IInv, NEW r \in Requests, Handle(r) \/ HandleFails(r)
    PROVE  Holding'
  <1> SUFFICES ASSUME NEW s \in Requests, KeyOf[s] \notin outlived',
                      pc'[s] \in {"owned", "calling", "setting"}
               PROVE  Record(s)' = Reservation(s)
    BY DEF Holding
  <1>1. CASE s = r
    <2>1. CASE pc[r] \in {"owned", "calling"} /\ UNCHANGED store
      BY <1>1, <2>1, ControlSteps DEF IInv, Holding, Record
    <2>2. CASE Record(r) = NoRecord /\ Write(r, Reservation(r))
      BY <1>1, <2>2, KeyFact DEF IInv, RecordsFit, Write, Record
    <2> QED
      BY <1>1, <2>1, <2>2, ControlSteps DEF IInv
  <1>2. CASE s # r
    <2>1. Record(s) = Reservation(s)
      BY <1>2, ControlSteps DEF IInv, Holding
    <2>2. CASE KeyOf[s] # KeyOf[r] \/ UNCHANGED store
      <3>1. Record(s)' = Record(s)
        BY <2>2, HandlerStoreSteps, KeyFact DEF StoreStep, Write, Record, IInv, RecordsFit
      <3> QED
        BY <2>1, <3>1
    <2>3. CASE KeyOf[s] = KeyOf[r] /\ store' # store
      <3>1. Record(r) = Reservation(s)
        BY <2>1, <2>3 DEF Record
      <3>2. Record(r) # NoRecord /\ Record(r).owner # r
        BY <1>2, <3>1, RecordFacts
      <3> QED
        BY <2>3, <3>2, HandlerStoreSteps DEF StoreStep
    <2> QED
      BY <2>2, <2>3
  <1> QED
    BY <1>1, <1>2

\* A record only lapses when whoever wrote it has ended.
LEMMA HoldingExpire ==
    ASSUME IInv, NEW k \in Keys, Expire(k) \/ ExpireEarly(k)
    PROVE  Holding'
  <1> SUFFICES ASSUME NEW s \in Requests, KeyOf[s] \notin outlived',
                      pc'[s] \in {"owned", "calling", "setting"}
               PROVE  Record(s)' = Reservation(s)
    BY DEF Holding
  <1>1. pc' = pc /\ store' = [store EXCEPT ![k] = NoRecord] /\ outlived \subseteq outlived'
    BY DEF Expire, ExpireEarly, Drop, NoFault
  <1>2. Record(s) = Reservation(s)
    BY <1>1 DEF IInv, Holding
  <1>3. CASE KeyOf[s] = k
    <2>1. store[k] = Reservation(s)
      BY <1>2, <1>3 DEF Record
    <2>2. store[k].owner = s /\ ~Completed(k)
      BY <2>1, RecordFacts DEF Completed
    <2>3. Expire(k)
      BY <1>3 DEF ExpireEarly
    <2>4. pc[s] = "ended"
      BY <2>2, <2>3 DEF Expire
    <2> QED
      BY <1>1, <2>4
  <1>4. CASE KeyOf[s] # k
    BY <1>1, <1>2, <1>4, KeyFact DEF Record, IInv, RecordsFit
  <1> QED
    BY <1>3, <1>4

-----------------------------------------------------------------------------
LEMMA InitIInv == Init => IInv
  <1> SUFFICES ASSUME Init PROVE IInv
    OBVIOUS
  <1>1. RecordsFit
    BY DEF Init, RecordsFit, Fits
  <1>2. Control /\ Holding /\ FaithfulReplay
    BY DEF Init, Control, PCs, Holding, FaithfulReplay
  <1> QED
    BY <1>1, <1>2 DEF IInv

LEMMA NextIInv == IInv /\ [Next]_vars => IInv'
  <1> SUFFICES ASSUME IInv, [Next]_vars PROVE IInv'
    OBVIOUS
  <1>1. ASSUME NEW r \in Requests, Handle(r) \/ HandleFails(r) PROVE IInv'
    <2>1. RecordsFit'
      BY <1>1, HandlerStoreSteps, WriteFits DEF IInv
    <2>2. Control' /\ FaithfulReplay'
      BY <1>1, ControlSteps, AnswerSteps DEF IInv, Control
    <2>3. Holding'
      BY <1>1, HoldingSteps
    <2> QED
      BY <2>1, <2>2, <2>3 DEF IInv
  <1>2. ASSUME NEW k \in Keys, Expire(k) \/ ExpireEarly(k) PROVE IInv'
    <2>1. Control' /\ FaithfulReplay'
      BY <1>2 DEF Expire, ExpireEarly, Drop, IInv, Control, FaithfulReplay
    <2> QED
      BY <1>2, <2>1, ExpireFits, HoldingExpire DEF IInv
  <1>3. CASE UNCHANGED vars
    <2>1. RecordsFit'
      BY <1>3 DEF vars, IInv, RecordsFit, Fits
    <2>2. Control' /\ FaithfulReplay' /\ Holding'
      BY <1>3 DEF vars, IInv, Control, FaithfulReplay, Holding, Record
    <2> QED
      BY <2>1, <2>2 DEF IInv
  <1> QED
    BY <1>1, <1>2, <1>3 DEF Next

LEMMA Inductive == Spec => []IInv
  BY InitIInv, NextIInv, PTL DEF Spec

\* One call per key at a time, whatever fails, if the time to live outlasts a
\* call.
THEOREM ExecutesOnce == Spec => []OneExecution
  <1>1. IInv => OneExecution
    <2> SUFFICES ASSUME IInv, NEW r \in Requests, NEW s \in Requests,
                        KeyOf[r] \notin outlived,
                        pc[r] = "calling", pc[s] = "calling", KeyOf[r] = KeyOf[s]
                 PROVE  r = s
      BY DEF OneExecution
    <2>1. Record(r) = Reservation(r) /\ Record(s) = Reservation(s)
      BY DEF IInv, Holding
    <2> QED
      BY <2>1, RecordFacts DEF Record
  <1> QED
    BY <1>1, Inductive, PTL

\* No call is made for a key whose result is stored.
THEOREM NeverReexecuted == Spec => []NoExecutionAfterCompletion
  <1>1. IInv => NoExecutionAfterCompletion
    BY RecordFacts DEF IInv, Holding, NoExecutionAfterCompletion, Record, Completed
  <1> QED
    BY <1>1, Inductive, PTL

\* Answers fit the requests they are given to, also with a short time to live.
THEOREM ReplaysAreFaithful == Spec => []FaithfulReplay
  BY Inductive, PTL DEF IInv

\* Only its owner completes or releases a reservation, also with a short time
\* to live.
THEOREM OwnersSettle == Spec => OnlyOwnerSettles
  <1> DEFINE Settled(r) ==
        Record(r) = Reservation(r) /\ Record(r)' # Record(r) =>
            \/ Record(r)' = NoRecord /\ UNCHANGED pc
            \/ pc[r] \in {"setting", "releasing"} /\ pc'[r] # pc[r]
  <1>1. IInv /\ [Next]_vars => [\A r \in Requests : Settled(r)]_store
    <2> SUFFICES ASSUME IInv, [Next]_vars, NEW r \in Requests,
                        Record(r) = Reservation(r), Record(r)' # Record(r)
                 PROVE  \/ Record(r)' = NoRecord /\ UNCHANGED pc
                        \/ pc[r] \in {"setting", "releasing"} /\ pc'[r] # pc[r]
      OBVIOUS
    <2>1. ASSUME NEW k \in Keys, Expire(k) \/ ExpireEarly(k)
          PROVE  Record(r)' = NoRecord /\ UNCHANGED pc
      BY <2>1, KeyFact DEF Expire, ExpireEarly, Drop, Record, IInv, RecordsFit
    <2>2. ASSUME NEW s \in Requests, Handle(s) \/ HandleFails(s)
          PROVE  pc[r] \in {"setting", "releasing"} /\ pc'[r] # pc[r]
      <3>1. KeyOf[s] = KeyOf[r]
        BY <2>2, HandlerStoreSteps, KeyFact DEF StoreStep, Write, Record, IInv, RecordsFit
      <3>2. Record(s) = Reservation(r) /\ Record(s) # NoRecord
        BY <3>1, RecordFacts DEF Record
      <3>3. Record(s).owner = s /\ store' # store
        BY <2>2, <3>2, HandlerStoreSteps DEF StoreStep, Record
      <3>4. s = r
        BY <3>2, <3>3, RecordFacts
      <3>5. Set(r) \/ SetFails(r) \/ Release(r) \/ ReleaseFails(r)
        BY <2>2, <3>2, <3>3, <3>4
           DEF Handle, HandleFails, Reject, Get, Reserve, ReadHolder, BreakerRefuses, Call,
               CallSucceeds, CallFails, Respond, GetFails, ReserveFails, ReadHolderFails, Crash
      <3>6. pc[r] \in {"setting", "releasing"} /\ pc'[r] \in {"responding", "ended"}
        BY <3>5 DEF Set, SetFails, Release, ReleaseFails, GoTo, IInv, Control
      <3> QED
        BY <3>6
    <2>3. ~UNCHANGED vars
      BY DEF vars, Record
    <2> QED
      BY <2>1, <2>2, <2>3 DEF Next
  <1> QED
    BY <1>1, Inductive, PTL DEF Spec, OnlyOwnerSettles

-----------------------------------------------------------------------------
(* Types, and the answers given out for a key.                             *)

LEMMA HandlerTypes ==
    ASSUME TypeOK, IInv, NEW r \in Requests, Handle(r) \/ HandleFails(r)
    PROVE  TypeOK'
  <1>1. KeyOf[r] \in Keys /\ Nobody \notin Requests /\ MaxFaults \in Nat /\ MaxCrashes \in Nat
    BY KeyFact, IdempotencyAssumption
  <1>2. store' \in [Keys -> {NoRecord} \cup {Reservation(s) : s \in Requests}
                                       \cup {Completion(s) : s \in Requests}]
    BY <1>1, HandlerStoreSteps DEF StoreStep, Write, TypeOK
  <1>3. pc' \in [Requests -> PCs] /\ outlived' \subseteq Keys
    BY ControlSteps DEF IInv, TypeOK
  <1>4. answer' \in [Requests -> Requests \cup {Nobody}]
    BY AnswerSteps DEF IInv
  <1>5. faults' \in 0 .. MaxFaults /\ crashes' \in 0 .. MaxCrashes
    <2>1. \/ UNCHANGED <<faults, crashes>>
          \/ faults < MaxFaults /\ faults' = faults + 1 /\ UNCHANGED crashes
          \/ crashes < MaxCrashes /\ crashes' = crashes + 1 /\ UNCHANGED faults
      BY DEF Handle, HandleFails, Reject, Get, Reserve, ReadHolder, BreakerRefuses,
         Call, CallSucceeds, CallFails, Set, Respond, Release, GetFails, ReserveFails,
         ReadHolderFails, SetFails, ReleaseFails, Crash, Fault, NoFault
    <2> QED
      BY <1>1, <2>1 DEF TypeOK
  <1>6. reply' \in [Requests -> Replies] /\ served' \in [Keys -> SUBSET Requests]
    <2>1. CASE Silent
      BY <2>1 DEF Silent, TypeOK
    <2>2. ASSUME NEW what \in Replies, Tell(r, what)
          PROVE  reply' \in [Requests -> Replies] /\ served' \in [Keys -> SUBSET Requests]
      BY <2>2 DEF Tell, TypeOK
    <2>3. ASSUME NEW s \in Requests, GiveAnswer(r, s)
          PROVE  reply' \in [Requests -> Replies] /\ served' \in [Keys -> SUBSET Requests]
      BY <2>3, <1>1 DEF GiveAnswer, TypeOK, Replies
    <2>4. CASE Get(r)
      <3>1. CASE Completed(KeyOf[r]) /\ GiveAnswer(r, Record(r).answer)
        BY <3>1, <2>3, AnswerFact DEF IInv
      <3>2. CASE ~(Completed(KeyOf[r]) /\ GiveAnswer(r, Record(r).answer))
        BY <2>4, <3>2, <2>1, <2>2 DEF Get, Replies
      <3> QED
        BY <3>1, <3>2
    <2>5. CASE ReadHolder(r)
      BY <2>5, <2>2 DEF ReadHolder, Replies
    <2>6. CASE ~Get(r) /\ ~ReadHolder(r)
      BY <2>6, <2>1, <2>2, <2>3 DEF Handle, HandleFails, Reject, Reserve, BreakerRefuses,
         Call, CallSucceeds, CallFails, Set, Respond, Release, GetFails, ReserveFails,
         ReadHolderFails, SetFails, ReleaseFails, Crash, Replies
    <2> QED
      BY <2>4, <2>5, <2>6
  <1> QED
    BY <1>2, <1>3, <1>4, <1>5, <1>6 DEF TypeOK

LEMMA LapseTypes ==
    ASSUME TypeOK, NEW k \in Keys, Expire(k) \/ ExpireEarly(k)
    PROVE  TypeOK'
  BY DEF TypeOK, Expire, ExpireEarly, Drop, NoFault

\* What is given out for a key, or about to be, without being its completed
\* record, which is where a repeated request would find it.
Strays ==
    {s \in Requests :
        /\ KeyOf[s] \notin outlived
        /\ pc[s] = "responding" \/ s \in served[KeyOf[s]]
        /\ Record(s) # Completion(s)}

\* Each of them is paid for by a command that failed.
StrayInv ==
    /\ IsFiniteSet(Strays) /\ Cardinality(Strays) <= faults
    /\ \A k \in Keys : \A s \in served[k] : KeyOf[s] = k

\* Only expiry takes a completed record away.
LEMMA CompletionStays ==
    ASSUME TypeOK, NEW r \in Requests, Handle(r) \/ HandleFails(r),
           NEW k \in Keys, NEW s \in Requests, store[k] = Completion(s)
    PROVE  store'[k] = Completion(s)
  <1>1. CASE UNCHANGED store
    BY <1>1
  <1>2. CASE k # KeyOf[r]
    BY <1>2, HandlerStoreSteps DEF StoreStep, Write, TypeOK
  <1>3. CASE k = KeyOf[r]
    <2>1. Record(r) # NoRecord /\ Record(r).owner # r
      BY <1>3, RecordFacts DEF Record
    <2> QED
      BY <2>1, HandlerStoreSteps DEF StoreStep
  <1> QED
    BY <1>1, <1>2, <1>3

\* A completed record names the request whose answer it holds.
LEMMA CompletionFact ==
    ASSUME RecordsFit, NEW r \in Requests, Completed(KeyOf[r])
    PROVE  Record(r) = Completion(Record(r).answer)
  <1>1. Fits(KeyOf[r], Record(r)) /\ Record(r).answer # Nobody
    BY KeyFact DEF RecordsFit, Record, Completed
  <1>2. PICK s \in Requests : Record(r) \in {Reservation(s), Completion(s)}
    BY <1>1, RecordFacts DEF Fits
  <1> QED
    BY <1>1, <1>2, RecordFacts

\* An answer a handler gives out, or is about to, is its key's record from then
\* on, unless it already was given out or the handler's set failed.
LEMMA AnswersAreRecords ==
    ASSUME TypeOK, IInv, NEW r \in Requests, Handle(r) \/ HandleFails(r),
           NEW s \in Requests, KeyOf[s] \notin outlived,
           pc'[s] = "responding" \/ s \in served'[KeyOf[s]]
    PROVE  \/ pc[s] = "responding" \/ s \in served[KeyOf[s]]
           \/ Record(s)' = Completion(s)
           \/ SetFails(r) /\ s = r
  <1>1. KeyOf[r] \in Keys /\ KeyOf[s] \in Keys
    BY KeyFact
  <1>2. CASE Respond(r)
    BY <1>1, <1>2 DEF Respond, GiveAnswer, GoTo, TypeOK
  <1>3. CASE Get(r)
    <2>1. /\ pc'[s] = "responding" => pc[s] = "responding"
          /\ store' = store
      BY <1>3 DEF Get, GoTo, TypeOK
    <2>2. CASE UNCHANGED served
      BY <2>1, <2>2
    <2>3. CASE served' # served
      <3>1. Completed(KeyOf[r]) /\ GiveAnswer(r, Record(r).answer)
        BY <1>3, <2>3 DEF Get, Silent, Tell
      <3>2. Record(r) = Completion(Record(r).answer)
        BY <3>1, CompletionFact DEF IInv
      <3>3. \/ s \in served'[KeyOf[s]] => s \in served[KeyOf[s]]
            \/ KeyOf[s] = KeyOf[r] /\ s = Record(r).answer
        BY <1>1, <3>1 DEF GiveAnswer, TypeOK
      <3> QED
        BY <2>1, <3>2, <3>3 DEF Record
    <2> QED
      BY <2>2, <2>3
  <1>4. CASE Set(r)
    <2>1. served' = served /\ (pc'[s] = "responding" => s = r \/ pc[s] = "responding")
      BY <1>4 DEF Set, Silent, GoTo, TypeOK
    <2>2. s = r => Record(r) = Reservation(r)
      BY <1>4 DEF Set, IInv, Holding
    <2>3. s = r => store'[KeyOf[r]] = Completion(r)
      BY <1>1, <1>4, <2>2, RecordFacts DEF Set, Write, TypeOK
    <2> QED
      BY <2>1, <2>3 DEF Record
  <1>5. CASE SetFails(r)
    BY <1>5 DEF SetFails, Silent, GoTo, TypeOK
  <1>6. CASE ~Respond(r) /\ ~Get(r) /\ ~Set(r) /\ ~SetFails(r)
    BY <1>6 DEF Handle, HandleFails, Reject, Reserve, ReadHolder, BreakerRefuses, Call,
       CallSucceeds, CallFails, Release, GetFails, ReserveFails, ReadHolderFails,
       ReleaseFails, Crash, Silent, Tell, GoTo, TypeOK
  <1> QED
    BY <1>2, <1>3, <1>4, <1>5, <1>6

\* What is given out for a key was produced by a request of that key.
LEMMA ServedStep ==
    ASSUME TypeOK, IInv, StrayInv, NEW r \in Requests, Handle(r) \/ HandleFails(r),
           NEW k \in Keys, NEW s \in served'[k]
    PROVE  KeyOf[s] = k
  <1>1. CASE UNCHANGED served
    BY <1>1 DEF StrayInv
  <1>2. ASSUME NEW t, KeyOf[t] = KeyOf[r], GiveAnswer(r, t) PROVE KeyOf[s] = k
    BY <1>2 DEF GiveAnswer, TypeOK, StrayInv
  <1>3. CASE served' # served
    <2>1. \/ Respond(r)
          \/ Completed(KeyOf[r]) /\ GiveAnswer(r, Record(r).answer)
      BY <1>3 DEF Handle, HandleFails, Reject, Get, Reserve, ReadHolder, BreakerRefuses,
         Call, CallSucceeds, CallFails, Set, Release, GetFails, ReserveFails,
         ReadHolderFails, SetFails, ReleaseFails, Crash, Silent, Tell
    <2> QED
      BY <1>2, <2>1, AnswerFact DEF Respond, IInv
  <1> QED
    BY <1>1, <1>3

LEMMA HandlerStrays ==
    ASSUME TypeOK, IInv, StrayInv, NEW r \in Requests, Handle(r) \/ HandleFails(r)
    PROVE  StrayInv'
  <1>1. \A k \in Keys : \A s \in served'[k] : KeyOf[s] = k
    BY ServedStep
  <1>2. ASSUME NEW s \in Strays'
        PROVE  s \in Strays \/ (SetFails(r) /\ s = r)
    <2>1. /\ s \in Requests /\ KeyOf[s] \notin outlived
          /\ pc'[s] = "responding" \/ s \in served'[KeyOf[s]]
          /\ Record(s)' # Completion(s)
      BY <1>2, ControlSteps DEF Strays, IInv, Completion
    <2>2. Record(s) # Completion(s)
      BY <2>1, CompletionStays, KeyFact DEF Record
    <2>3. \/ pc[s] = "responding" \/ s \in served[KeyOf[s]]
          \/ Record(s)' = Completion(s)
          \/ SetFails(r) /\ s = r
      BY <2>1, AnswersAreRecords
    <2> QED
      BY <2>1, <2>2, <2>3 DEF Strays
  <1>3. faults \in Nat /\ faults' \in {faults, faults + 1} /\ (SetFails(r) => faults' = faults + 1)
    BY IdempotencyAssumption DEF TypeOK, Handle, HandleFails, Reject, Get, Reserve, ReadHolder,
       BreakerRefuses, Call, CallSucceeds, CallFails, Set, Respond, Release, GetFails,
       ReserveFails, ReadHolderFails, SetFails, ReleaseFails, Crash, Fault, NoFault
  <1>4. Cardinality(Strays) \in Nat
    BY FS_CardinalityType DEF StrayInv
  <1>5. CASE ~SetFails(r)
    <2>1. IsFiniteSet(Strays') /\ Cardinality(Strays') <= Cardinality(Strays)
      BY <1>2, <1>5, FS_Subset DEF StrayInv
    <2>2. Cardinality(Strays') \in Nat
      BY <2>1, FS_CardinalityType
    <2> QED
      BY <1>1, <1>3, <1>4, <2>1, <2>2 DEF StrayInv
  <1>6. CASE SetFails(r)
    <2>1. /\ IsFiniteSet(Strays \cup {r})
          /\ Cardinality(Strays \cup {r}) \in {Cardinality(Strays), Cardinality(Strays) + 1}
      BY FS_AddElement DEF StrayInv
    <2>2. IsFiniteSet(Strays') /\ Cardinality(Strays') <= Cardinality(Strays \cup {r})
      BY <1>2, <2>1, FS_Subset
    <2>3. Cardinality(Strays') \in Nat
      BY <2>2, FS_CardinalityType
    <2> QED
      BY <1>1, <1>3, <1>4, <1>6, <2>1, <2>2, <2>3 DEF StrayInv
  <1> QED
    BY <1>5, <1>6

\* A record that lapses takes the answers given out for its key along; a key
\* whose record lapses early no longer counts.
LEMMA LapseStrays ==
    ASSUME TypeOK, StrayInv, NEW k \in Keys, Expire(k) \/ ExpireEarly(k)
    PROVE  StrayInv'
  <1>1. /\ store' = [store EXCEPT ![k] = NoRecord] /\ served' = [served EXCEPT ![k] = {}]
        /\ pc' = pc /\ outlived \subseteq outlived' /\ faults' = faults
    BY DEF Expire, ExpireEarly, Drop, NoFault
  <1>2. Strays' \subseteq Strays
    <2> SUFFICES ASSUME NEW s \in Strays' PROVE s \in Strays
      OBVIOUS
    <2>1. /\ s \in Requests /\ KeyOf[s] \in Keys /\ KeyOf[s] \notin outlived'
          /\ pc[s] = "responding" \/ s \in served'[KeyOf[s]]
          /\ Record(s)' # Completion(s)
      BY <1>1, KeyFact DEF Strays, Completion
    <2>2. CASE KeyOf[s] # k
      BY <1>1, <2>1, <2>2 DEF Strays, Record, TypeOK
    <2>3. CASE KeyOf[s] = k
      <3>1. pc[s] = "responding" /\ Expire(k)
        BY <1>1, <2>1, <2>3 DEF ExpireEarly, TypeOK
      <3>2. Record(s) # Completion(s)
        BY <2>1, <2>3, <3>1, RecordFacts DEF Expire, Record, Reserved, Completed
      <3> QED
        BY <1>1, <2>1, <3>1, <3>2 DEF Strays
    <2> QED
      BY <2>2, <2>3
  <1>3. IsFiniteSet(Strays') /\ Cardinality(Strays') <= Cardinality(Strays)
    BY <1>2, FS_Subset DEF StrayInv
  <1>4. faults \in Nat /\ Cardinality(Strays) \in Nat /\ Cardinality(Strays') \in Nat
    BY <1>3, FS_CardinalityType, IdempotencyAssumption DEF StrayInv, TypeOK
  <1>5. \A i \in Keys : \A s \in served'[i] : KeyOf[s] = i
    BY <1>1 DEF StrayInv, TypeOK
  <1> QED
    BY <1>1, <1>3, <1>4, <1>5 DEF StrayInv

LEMMA AnswersInductive == Spec => [](TypeOK /\ IInv /\ StrayInv)
  <1>1. Init => TypeOK /\ StrayInv
    <2> SUFFICES ASSUME Init PROVE TypeOK /\ StrayInv
      OBVIOUS
    <2>1. TypeOK
      BY IdempotencyAssumption DEF Init, TypeOK, PCs, Replies
    <2>2. Strays = {}
      BY KeyFact DEF Init, Strays
    <2>3. StrayInv
      BY <2>2, FS_EmptySet DEF Init, StrayInv
    <2> QED
      BY <2>1, <2>3
  <1>2. TypeOK /\ IInv /\ StrayInv /\ [Next]_vars => TypeOK' /\ StrayInv'
    <2> SUFFICES ASSUME TypeOK, IInv, StrayInv, [Next]_vars PROVE TypeOK' /\ StrayInv'
      OBVIOUS
    <2>1. CASE UNCHANGED vars
      BY <2>1 DEF vars, TypeOK, StrayInv, Strays, Record
    <2> QED
      BY <2>1, HandlerTypes, LapseTypes, HandlerStrays, LapseStrays DEF Next
  <1> QED
    BY <1>1, <1>2, Inductive, PTL DEF Spec

\* The store, the handlers and the counters keep their types.
THEOREM IdempotencyTypes == Spec => []TypeOK
  BY AnswersInductive, PTL

\* How far docs/Architecture.md:33 is from being kept: while no record of a key
\* lapses during a call, the clients that got an answer for the key got at most one
\* more than there were commands that failed.  Crashes cost none.
THEOREM FailuresBoundAnswers ==
    Spec => [](\A k \in Keys \ outlived :
                   IsFiniteSet(served[k]) /\ Cardinality(served[k]) <= 1 + faults)
  <1> DEFINE Bounded ==
        \A k \in Keys \ outlived :
            IsFiniteSet(served[k]) /\ Cardinality(served[k]) <= 1 + faults
  <1>1. TypeOK /\ StrayInv => Bounded
    <2> SUFFICES ASSUME TypeOK, StrayInv, NEW k \in Keys \ outlived
                 PROVE  IsFiniteSet(served[k]) /\ Cardinality(served[k]) <= 1 + faults
      OBVIOUS
    <2>1. \A s \in served[k] : s \in Requests /\ KeyOf[s] = k
      BY DEF StrayInv, TypeOK
    <2>2. \A s \in served[k] : s \in Strays \/ store[k] = Completion(s)
      BY <2>1 DEF Strays, Record
    <2>3. \E t : served[k] \subseteq Strays \cup {t}
      <3>1. \A s, t \in served[k] :
                store[k] = Completion(s) /\ store[k] = Completion(t) => s = t
        <4> SUFFICES ASSUME NEW s \in served[k], NEW t \in served[k],
                            Completion(s) = Completion(t)
                     PROVE  s = t
          OBVIOUS
        <4>1. Completion(s).answer = s /\ Completion(t).answer = t
          BY <2>1, RecordFacts
        <4> QED
          BY <4>1
      <3> QED
        BY <2>2, <3>1
    <2>4. PICK t : served[k] \subseteq Strays \cup {t}
      BY <2>3
    <2>5. /\ faults \in Nat /\ IsFiniteSet(Strays) /\ Cardinality(Strays) <= faults
          /\ Cardinality(Strays) \in Nat
      BY FS_CardinalityType, IdempotencyAssumption DEF StrayInv, TypeOK
    <2>6. /\ IsFiniteSet(Strays \cup {t})
          /\ Cardinality(Strays \cup {t}) \in {Cardinality(Strays), Cardinality(Strays) + 1}
      BY <2>5, FS_AddElement
    <2>7. /\ IsFiniteSet(served[k])
          /\ Cardinality(served[k]) <= Cardinality(Strays \cup {t})
      BY <2>4, <2>6, FS_Subset
    <2>8. Cardinality(served[k]) \in Nat
      BY <2>7, FS_CardinalityType
    <2> QED
      BY <2>5, <2>6, <2>7, <2>8
  <1> QED
    BY <1>1, AnswersInductive, PTL

\* As long as Redis answers and no record lapses during a call, all clients that
\* got an answer for a key got the same, whichever replicas die.
THEOREM OneAnswerPerKey == Spec => []AnswersAgreeWithoutFaults
  <1> DEFINE Bounded ==
        \A k \in Keys \ outlived :
            IsFiniteSet(served[k]) /\ Cardinality(served[k]) <= 1 + faults
  <1>1. Bounded => AnswersAgreeWithoutFaults
    BY DEF AnswersAgreeWithoutFaults, AnswersAgree
  <1> QED
    BY <1>1, FailuresBoundAnswers, PTL
=============================================================================
