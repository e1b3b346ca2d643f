--------------------------- MODULE InferenceProofs ---------------------------
(***************************************************************************)
(* Permits and slots are conserved, for any number of questions, uploads,  *)
(* threads, permits, calls, slots and attempts.  First each component for  *)
(* itself, then InferenceService, whose steps change the variables of one  *)
(* component only; last, what only the composition shows: who executes     *)
(* skills has a thread of the pool.                                        *)
(***************************************************************************)
EXTENDS InferenceService, FiniteSetTheorems, TLAPS

-----------------------------------------------------------------------------
(* Admission.                                                              *)

\* What the caller, the future and the callback of one work item tell of each
\* other: a future without an outcome has no callback, nobody waits for a
\* future that was never submitted, and only awaited futures are pending.
Coherent(w) ==
    /\ caller[w] \in {"new", "refused"} => future[w] = "none" /\ loop[w] = "none"
    /\ loop[w] # "none" => future[w] \in {"finished", "cancelled"}
    /\ loop[w] = "release" => w \in Questions
    /\ caller[w] = "answered" => future[w] \in {"finished", "cancelled"} /\ loop[w] = "none"
    /\ future[w] = "pending" => caller[w] = "waiting"

AdmissionTypes ==
    /\ permits \in Nat
    /\ queued \in Seq(Work)
    /\ future \in [Work -> Futures]
    /\ loop \in [Work -> Callbacks]
    /\ caller \in [Work -> Callers]

AdmissionInv ==
    /\ AdmissionTypes
    /\ \A w \in Work : Coherent(w)
    /\ PermitsConserved

\* The holders are a finite set: some of the questions.
LEMMA HoldersFinite == IsFiniteSet(Holders) /\ Cardinality(Holders) \in Nat
  <1>1. Holders \subseteq Questions
    BY DEF Holders
  <1> QED
    BY <1>1, AdmissionAssumption, FS_Subset, FS_CardinalityType

\* The invariant bounds the semaphore by its initial value, and an answered
\* question holds nothing.
LEMMA AdmissionInvImplies == AdmissionInv => AdmissionTypeOK /\ AnsweredHoldsNothing
  <1> SUFFICES ASSUME AdmissionInv PROVE AdmissionTypeOK /\ AnsweredHoldsNothing
    OBVIOUS
  <1>1. permits \in 0..Permits
    <2>1. permits \in Nat /\ Cardinality(Holders) \in Nat /\ Permits \in Nat
      BY HoldersFinite, AdmissionAssumption DEF AdmissionInv, AdmissionTypes, Permits
    <2>2. permits + Cardinality(Holders) = Permits
      BY DEF AdmissionInv, PermitsConserved
    <2> QED
      BY <2>1, <2>2
  <1>2. AnsweredHoldsNothing
    BY DEF AdmissionInv, AnsweredHoldsNothing, Holders, Coherent, Work
  <1> QED
    BY <1>1, <1>2 DEF AdmissionInv, AdmissionTypes, AdmissionTypeOK

\* At first all permits are free.
LEMMA AdmissionStarts == AdmissionInit => AdmissionInv
  <1> SUFFICES ASSUME AdmissionInit PROVE AdmissionInv
    OBVIOUS
  <1>1. AdmissionTypes
    BY AdmissionAssumption
       DEF AdmissionInit, AdmissionTypes, Permits, Futures, Callbacks, Callers
  <1>2. \A w \in Work : Coherent(w)
    BY DEF AdmissionInit, Coherent
  <1>3. PermitsConserved
    <2>1. Holders = {}
      BY DEF AdmissionInit, Holders, Work
    <2> QED
      BY <2>1, FS_EmptySet, AdmissionAssumption DEF AdmissionInit, PermitsConserved, Permits
  <1> QED
    BY <1>1, <1>2, <1>3 DEF AdmissionInv

\* The semaphore and the queue keep their types.
LEMMA AdmissionNumbers ==
  ASSUME permits \in Nat, queued \in Seq(Work), AdmissionNext
  PROVE  permits' \in Nat /\ queued' \in Seq(Work)
  <1> PICK w \in Work : Serve(w) \/ Start(w) \/ End(w)
    BY DEF AdmissionNext
  <1>1. CASE Admit(w)
    BY <1>1 DEF Admit
  <1>2. CASE Upload(w)
    BY <1>2 DEF Upload
  <1>3. CASE Release(w)
    BY <1>3 DEF Release
  <1>4. CASE Start(w)
    BY <1>4 DEF Start
  <1>5. CASE Refuse(w) \/ GiveUp(w) \/ Deliver(w) \/ End(w)
    BY <1>5 DEF Refuse, GiveUp, Deliver, End
  <1> QED
    BY <1>1, <1>2, <1>3, <1>4, <1>5 DEF Serve

\* Coherence: each step changes one work item, and only what its guard has
\* established.
LEMMA AdmissionLocal ==
  ASSUME AdmissionTypes, \A w \in Work : Coherent(w), AdmissionNext
  PROVE  AdmissionTypes' /\ \A w \in Work : Coherent(w)'
  <1>n. permits' \in Nat /\ queued' \in Seq(Work)
    BY AdmissionNumbers DEF AdmissionTypes
  <1> USE DEF AdmissionTypes, Coherent, Futures, Callbacks, Callers, Settled
  <1> PICK w \in Work : Serve(w) \/ Start(w) \/ End(w)
    BY DEF AdmissionNext
  <1>1. CASE Admit(w)
    BY <1>1, <1>n DEF Admit
  <1>2. CASE Refuse(w)
    BY <1>2, <1>n DEF Refuse
  <1>3. CASE Upload(w)
    BY <1>3, <1>n DEF Upload
  <1>4. CASE GiveUp(w)
    BY <1>4, <1>n DEF GiveUp
  <1>5. CASE Release(w)
    BY <1>5, <1>n DEF Release
  <1>6. CASE Deliver(w)
    BY <1>6, <1>n DEF Deliver
  <1>7. CASE Start(w)
    BY <1>7, <1>n DEF Start
  <1>8. CASE End(w)
    BY <1>8, <1>n DEF End
  <1> QED
    BY <1>1, <1>2, <1>3, <1>4, <1>5, <1>6, <1>7, <1>8 DEF Serve

\* Permits: Admit takes one and adds a holder, Release gives one back and
\* removes the holder, no other step touches either.
LEMMA AdmissionConserves ==
  ASSUME AdmissionInv, AdmissionNext
  PROVE  PermitsConserved'
  <1>n. /\ IsFiniteSet(Holders) /\ Cardinality(Holders) \in Nat
        /\ permits \in Nat
        /\ permits + Cardinality(Holders) = Permits
    BY HoldersFinite DEF AdmissionInv, AdmissionTypes, PermitsConserved
  <1>p. Permits' = Permits
    BY DEF Permits
  <1> USE DEF AdmissionTypes, Coherent, Futures, Callbacks, Callers, Settled, Work
  <1>i. AdmissionTypes /\ \A w \in Work : Coherent(w)
    BY DEF AdmissionInv
  <1> PICK w \in Work : Serve(w) \/ Start(w) \/ End(w)
    BY DEF AdmissionNext
  <1>1. CASE Admit(w)
    <2>1. w \notin Holders
      BY <1>1, <1>i DEF Admit, Holders
    <2>2. Holders' = Holders \cup {w}
      BY <1>1, <1>i DEF Admit, Holders
    <2>3. Cardinality(Holders') = Cardinality(Holders) + 1
      BY <2>1, <2>2, <1>n, FS_AddElement
    <2> QED
      BY <1>1, <1>n, <2>3 DEF Admit, PermitsConserved
  <1>2. CASE Release(w)
    <2>1. w \in Holders
      BY <1>2, <1>i DEF Release, Holders
    <2>2. Holders' = Holders \ {w}
      BY <1>2, <1>i DEF Release, Holders
    <2>3. Cardinality(Holders') = Cardinality(Holders) - 1
      BY <2>1, <2>2, <1>n, FS_RemoveElement
    <2> QED
      BY <1>2, <1>n, <2>3 DEF Release, PermitsConserved
  <1>3. CASE Refuse(w) \/ Upload(w) \/ GiveUp(w) \/ Deliver(w) \/ Start(w) \/ End(w)
    <2>1. permits' = permits
      BY <1>3 DEF Refuse, Upload, GiveUp, Deliver, Start, End
    <2>2. Holders' = Holders
      <3>1. CASE Refuse(w)
        BY <3>1, <1>i DEF Refuse, Holders
      <3>2. CASE Upload(w)
        BY <3>2, <1>i, AdmissionAssumption DEF Upload, Holders
      <3>3. CASE GiveUp(w)
        BY <3>3, <1>i DEF GiveUp, Holders
      <3>4. CASE Deliver(w)
        BY <3>4, <1>i DEF Deliver, Holders
      <3>5. CASE Start(w)
        BY <3>5, <1>i DEF Start, Holders
      <3>6. CASE End(w)
        BY <3>6, <1>i DEF End, Holders
      <3> QED
        BY <1>3, <3>1, <3>2, <3>3, <3>4, <3>5, <3>6
    <2> QED
      BY <2>1, <2>2, <1>n DEF PermitsConserved
  <1> QED
    BY <1>1, <1>2, <1>3 DEF Serve

\* The invariant is inductive.
LEMMA AdmissionKeepsInv == AdmissionInv /\ [AdmissionNext]_admissionVars => AdmissionInv'
  <1>1. ASSUME AdmissionInv, AdmissionNext PROVE AdmissionInv'
    BY <1>1, AdmissionLocal, AdmissionConserves DEF AdmissionInv
  <1>2. ASSUME AdmissionInv, UNCHANGED admissionVars PROVE AdmissionInv'
    BY <1>2 DEF AdmissionInv, AdmissionTypes, Coherent, PermitsConserved, Holders, admissionVars
  <1> QED
    BY <1>1, <1>2

-----------------------------------------------------------------------------
(* The skill executor.                                                     *)

\* Where a call stands tells which of its handlers can still be live: only
\* that of the current attempt, and none has begun for an attempt to come.
Orderly(c) ==
    /\ call[c] \in {"trying", "waiting"} => attempt[c] \in Attempts
    /\ call[c] = "idle" => \A i \in Attempts : handler[c][i] = "none"
    /\ call[c] = "trying" => \A i \in Attempts :
           handler[c][i] \notin Live /\ (i >= attempt[c] => handler[c][i] = "none")
    /\ call[c] = "waiting" => \A i \in Attempts :
           /\ i < attempt[c] => handler[c][i] \notin Live
           /\ i > attempt[c] => handler[c][i] = "none"
    /\ call[c] = "returned" => \A i \in Attempts : handler[c][i] # "pending"
    /\ \A i, j \in Attempts : handler[c][i] \in Live /\ handler[c][j] \in Live => i = j

SkillTypes ==
    /\ slots \in Nat
    /\ attempt \in [Calls -> 0..MaxAttempts]
    /\ handler \in [Calls -> [Attempts -> Handlers]]
    /\ again \subseteq Calls
    /\ call \in [Calls -> {"idle", "trying", "waiting", "returned"}]

SkillInv ==
    /\ SkillTypes
    /\ \A c \in Calls : Orderly(c)
    /\ SlotsConserved

\* The slot holders are a finite set.
LEMMA SlotHoldersFinite == IsFiniteSet(SlotHolders) /\ Cardinality(SlotHolders) \in Nat
  <1>1. IsFiniteSet(Attempts)
    BY SkillAssumption, FS_Interval DEF Attempts
  <1>2. IsFiniteSet(Calls \X Attempts)
    BY <1>1, SkillAssumption, FS_Product
  <1>3. SlotHolders \subseteq Calls \X Attempts
    BY DEF SlotHolders
  <1> QED
    BY <1>2, <1>3, FS_Subset, FS_CardinalityType

\* The invariant bounds the semaphore and implies what executor.py:73 promises.
LEMMA SkillInvImplies == SkillInv => SkillTypeOK /\ NoOverlap /\ NoLateStart
  <1> SUFFICES ASSUME SkillInv PROVE SkillTypeOK /\ NoOverlap /\ NoLateStart
    OBVIOUS
  <1>1. slots \in 0..Slots
    <2>1. slots \in Nat /\ Cardinality(SlotHolders) \in Nat /\ Slots \in Nat
      BY SlotHoldersFinite, SkillAssumption DEF SkillInv, SkillTypes
    <2>2. slots + Cardinality(SlotHolders) = Slots
      BY DEF SkillInv, SlotsConserved
    <2> QED
      BY <2>1, <2>2
  <1>2. NoOverlap /\ NoLateStart
    BY DEF SkillInv, Orderly, NoOverlap, NoLateStart
  <1> QED
    BY <1>1, <1>2 DEF SkillInv, SkillTypes, SkillTypeOK

\* At first all slots are free.
LEMMA SkillStarts == SkillInit => SkillInv
  <1> SUFFICES ASSUME SkillInit PROVE SkillInv
    OBVIOUS
  <1>1. SkillTypes
    BY SkillAssumption DEF SkillInit, SkillTypes, Handlers
  <1>2. \A c \in Calls : Orderly(c)
    BY DEF SkillInit, Orderly, Live
  <1>3. SlotsConserved
    <2>1. SlotHolders = {}
      BY DEF SkillInit, SlotHolders, Holding, Live
    <2> QED
      BY <2>1, FS_EmptySet, SkillAssumption DEF SkillInit, SlotsConserved
  <1> QED
    BY <1>1, <1>2, <1>3 DEF SkillInv

\* The types of the calls and handlers.
LEMMA SkillTyping ==
  ASSUME SkillTypes, SkillNext,
         \A c \in Calls : call[c] \in {"trying", "waiting"} => attempt[c] \in Attempts
  PROVE  SkillTypes'
  <1> USE SkillAssumption DEF SkillTypes, Attempts, Handlers, Live, SetHandler
  <1> PICK c \in Calls : Execute(c) \/ \E i \in Attempts : HandlerStep(c, i)
    BY DEF SkillNext
  <1>a. call[c] \in {"trying", "waiting"} => attempt[c] \in 1..MaxAttempts
    OBVIOUS
  <1>e. ASSUME Return(c)
        PROVE  /\ attempt' \in [Calls -> 0..MaxAttempts]
               /\ call' \in [Calls -> {"idle", "trying", "waiting", "returned"}]
    <2>1. 0 \in 0..MaxAttempts
      OBVIOUS
    <2> QED
      BY <1>e, <2>1 DEF Return
  <1>r. ASSUME RetryOrReturn(c), call[c] \in {"trying", "waiting"}
        PROVE  /\ attempt' \in [Calls -> 0..MaxAttempts]
               /\ call' \in [Calls -> {"idle", "trying", "waiting", "returned"}]
    <2>1. CASE attempt[c] < MaxAttempts
      <3>1. attempt[c] + 1 \in 0..MaxAttempts
        BY <1>a, <1>r, <2>1
      <3> QED
        BY <1>r, <2>1, <3>1 DEF RetryOrReturn
    <2>2. CASE ~(attempt[c] < MaxAttempts)
      BY <1>r, <1>e, <2>2 DEF RetryOrReturn
    <2> QED
      BY <2>1, <2>2
  <1>1. CASE Begin(c)
    BY <1>1 DEF Begin
  <1>2. CASE Reject(c)
    BY <1>2 DEF Reject, Return
  <1>3. CASE Submit(c)
    BY <1>3 DEF Submit
  <1>4. CASE NoCapacity(c)
    BY <1>4, <1>r DEF NoCapacity
  <1>5. CASE Collect(c)
    <2>1. CASE c \in again
      BY <1>5, <2>1, <1>r DEF Collect
    <2>2. CASE c \notin again
      BY <1>5, <2>2, <1>e DEF Collect
    <2> QED
      BY <2>1, <2>2
  <1>6. CASE Timeout(c)
    <2>1. /\ slots' \in Nat /\ again' \subseteq Calls
          /\ handler' \in [Calls -> [Attempts -> Handlers]]
      <3>1. CASE handler[c][attempt[c]] = "pending"
        <4>1. attempt[c] \in Attempts /\ slots' = slots + 1 /\ again' = again
          BY <1>6, <1>a, <3>1 DEF Timeout
        <4>2. handler' = [handler EXCEPT ![c][attempt[c]] = "none"]
          BY <1>6, <3>1 DEF Timeout
        <4>3. handler' \in [Calls -> [Attempts -> Handlers]]
          BY <4>1, <4>2
        <4> QED
          BY <4>1, <4>3
      <3>2. CASE handler[c][attempt[c]] # "pending"
        BY <1>6, <3>2 DEF Timeout
      <3> QED
        BY <3>1, <3>2
    <2> QED
      BY <1>6, <2>1, <1>e DEF Timeout
  <1>7. ASSUME NEW i \in Attempts, StartHandler(c, i) PROVE SkillTypes'
    BY <1>7 DEF StartHandler
  <1>8. ASSUME NEW i \in Attempts, EndHandler(c, i) PROVE SkillTypes'
    BY <1>8 DEF EndHandler
  <1>9. ASSUME NEW i \in Attempts, FreeSlot(c, i) PROVE SkillTypes'
    BY <1>9 DEF FreeSlot
  <1> QED
    BY <1>1, <1>2, <1>3, <1>4, <1>5, <1>6, <1>7, <1>8, <1>9 DEF Execute, HandlerStep

\* The order of the handlers, one case per action: a step of one call leaves
\* the others alone.
LEMMA SkillOrder ==
  ASSUME SkillTypes, \A c \in Calls : Orderly(c), SkillNext
  PROVE  \A c \in Calls : Orderly(c)'
  <1> USE SkillAssumption DEF SkillTypes, Orderly, Attempts, Handlers, Live, SetHandler
  <1> PICK c \in Calls : Execute(c) \/ \E i \in Attempts : HandlerStep(c, i)
    BY DEF SkillNext
  <1>1. CASE Begin(c)
    BY <1>1 DEF Begin
  <1>2. CASE Reject(c)
    BY <1>2 DEF Reject, Return
  <1>3. CASE Submit(c)
    BY <1>3 DEF Submit
  <1>4. CASE NoCapacity(c)
    <2>1. CASE attempt[c] < MaxAttempts
      <3>1. Orderly(c)'
        BY <1>4, <2>1 DEF NoCapacity, RetryOrReturn, Return
      <3>2. ASSUME NEW d \in Calls \ {c} PROVE Orderly(d)'
        BY <1>4, <2>1 DEF NoCapacity, RetryOrReturn, Return
      <3> QED
        BY <3>1, <3>2
    <2>2. CASE ~(attempt[c] < MaxAttempts)
      <3>1. Orderly(c)'
        BY <1>4, <2>2 DEF NoCapacity, RetryOrReturn, Return
      <3>2. ASSUME NEW d \in Calls \ {c} PROVE Orderly(d)'
        BY <1>4, <2>2 DEF NoCapacity, RetryOrReturn, Return
      <3> QED
        BY <3>1, <3>2
    <2> QED
      BY <2>1, <2>2
  <1>5. CASE Collect(c)
    <2>1. CASE c \in again /\ attempt[c] < MaxAttempts
      <3>1. Orderly(c)'
        BY <1>5, <2>1 DEF Collect, RetryOrReturn, Return
      <3>2. ASSUME NEW d \in Calls \ {c} PROVE Orderly(d)'
        BY <1>5, <2>1 DEF Collect, RetryOrReturn, Return
      <3> QED
        BY <3>1, <3>2
    <2>2. CASE ~(c \in again /\ attempt[c] < MaxAttempts)
      <3>1. Orderly(c)'
        BY <1>5, <2>2 DEF Collect, RetryOrReturn, Return
      <3>2. ASSUME NEW d \in Calls \ {c} PROVE Orderly(d)'
        BY <1>5, <2>2 DEF Collect, RetryOrReturn, Return
      <3> QED
        BY <3>1, <3>2
    <2> QED
      BY <2>1, <2>2
  <1>6. CASE Timeout(c)
    <2>1. CASE handler[c][attempt[c]] = "pending"
      <3>1. Orderly(c)'
        <4>1. attempt[c] \in Attempts /\ call'[c] = "returned"
          BY <1>6, <2>1 DEF Timeout, Return
        <4>2. \A i \in Attempts :
                handler'[c][i] = IF i = attempt[c] THEN "none" ELSE handler[c][i]
          BY <1>6, <2>1, <4>1 DEF Timeout
        <4>3. \A i \in Attempts : i # attempt[c] => handler[c][i] \notin Live
          BY <1>6, <4>1 DEF Timeout
        <4> QED
          BY <4>1, <4>2, <4>3
      <3>2. ASSUME NEW d \in Calls \ {c} PROVE Orderly(d)'
        BY <1>6, <2>1 DEF Timeout, Return
      <3> QED
        BY <3>1, <3>2
    <2>2. CASE handler[c][attempt[c]] # "pending"
      <3>1. Orderly(c)'
        BY <1>6, <2>2 DEF Timeout, Return
      <3>2. ASSUME NEW d \in Calls \ {c} PROVE Orderly(d)'
        BY <1>6, <2>2 DEF Timeout, Return
      <3> QED
        BY <3>1, <3>2
    <2> QED
      BY <2>1, <2>2
  <1>7. ASSUME NEW i \in Attempts, StartHandler(c, i)
        PROVE  \A d \in Calls : Orderly(d)'
    BY <1>7 DEF StartHandler
  <1>8. ASSUME NEW i \in Attempts, EndHandler(c, i)
        PROVE  \A d \in Calls : Orderly(d)'
    BY <1>8 DEF EndHandler
  <1>9. ASSUME NEW i \in Attempts, FreeSlot(c, i)
        PROVE  \A d \in Calls : Orderly(d)'
    BY <1>9 DEF FreeSlot
  <1> QED
    BY <1>1, <1>2, <1>3, <1>4, <1>5, <1>6, <1>7, <1>8, <1>9 DEF Execute, HandlerStep

\* Slots: Submit takes one for its handler, a cancelled timeout and the
\* done-callback give one back, no other step touches either.
LEMMA SkillConserves ==
  ASSUME SkillInv, SkillNext
  PROVE  SlotsConserved'
  <1>n. /\ IsFiniteSet(SlotHolders) /\ Cardinality(SlotHolders) \in Nat
        /\ slots \in Nat
        /\ slots + Cardinality(SlotHolders) = Slots
    BY SlotHoldersFinite DEF SkillInv, SkillTypes, SlotsConserved
  <1>i. SkillTypes /\ \A c \in Calls : Orderly(c)
    BY DEF SkillInv
  \* Takes, gives back, or leaves alone the slot of one handler.
  <1>take. ASSUME NEW h \in Calls \X Attempts, h \notin SlotHolders,
                  SlotHolders' = SlotHolders \cup {h}, slots' = slots - 1
           PROVE  SlotsConserved'
    <2>1. Cardinality(SlotHolders') = Cardinality(SlotHolders) + 1
      BY <1>take, <1>n, FS_AddElement
    <2> QED
      BY <2>1, <1>take, <1>n DEF SlotsConserved
  <1>give. ASSUME NEW h \in Calls \X Attempts, h \in SlotHolders,
                  SlotHolders' = SlotHolders \ {h}, slots' = slots + 1
           PROVE  SlotsConserved'
    <2>1. Cardinality(SlotHolders') = Cardinality(SlotHolders) - 1
      BY <1>give, <1>n, FS_RemoveElement
    <2> QED
      BY <2>1, <1>give, <1>n DEF SlotsConserved
  <1>same. ASSUME SlotHolders' = SlotHolders, slots' = slots
           PROVE  SlotsConserved'
    BY <1>same, <1>n DEF SlotsConserved
  <1> PICK c \in Calls : Execute(c) \/ \E i \in Attempts : HandlerStep(c, i)
    BY DEF SkillNext
  <1> USE DEF SkillTypes, Handlers, Live, Holding, SetHandler
  <1>1. CASE Begin(c) \/ Reject(c) \/ NoCapacity(c) \/ Collect(c)
    <2>1. handler' = handler /\ slots' = slots
      BY <1>1 DEF Begin, Reject, NoCapacity, Collect
    <2> QED
      BY <2>1, <1>same DEF SlotHolders
  <1>2. CASE Submit(c)
    <2>1. attempt[c] \in Attempts /\ handler[c][attempt[c]] = "none"
      BY <1>2, <1>i, SkillAssumption DEF Submit, Orderly, Attempts
    <2>2. <<c, attempt[c]>> \in Calls \X Attempts /\ <<c, attempt[c]>> \notin SlotHolders
      BY <2>1 DEF SlotHolders
    <2>3. SlotHolders' = SlotHolders \cup {<<c, attempt[c]>>}
      BY <1>2, <1>i, <2>1 DEF Submit, SlotHolders
    <2> QED
      BY <1>2, <2>2, <2>3, <1>take DEF Submit
  <1>3. CASE Timeout(c)
    <2>1. attempt[c] \in Attempts
      BY <1>3, <1>i DEF Timeout, Orderly
    <2>2. CASE handler[c][attempt[c]] = "pending"
      <3>1. <<c, attempt[c]>> \in SlotHolders
        BY <2>1, <2>2 DEF SlotHolders
      <3>2. SlotHolders' = SlotHolders \ {<<c, attempt[c]>>}
        BY <1>3, <1>i, <2>1, <2>2 DEF Timeout, SlotHolders
      <3> QED
        BY <1>3, <2>1, <2>2, <3>1, <3>2, <1>give DEF Timeout
    <2>3. CASE handler[c][attempt[c]] # "pending"
      <3>1. handler' = handler /\ slots' = slots
        BY <1>3, <2>3 DEF Timeout
      <3> QED
        BY <3>1, <1>same DEF SlotHolders
    <2> QED
      BY <2>2, <2>3
  <1>4. ASSUME NEW i \in Attempts, FreeSlot(c, i) PROVE SlotsConserved'
    <2>1. <<c, i>> \in SlotHolders
      BY <1>4 DEF FreeSlot, SlotHolders
    <2>2. SlotHolders' = SlotHolders \ {<<c, i>>}
      BY <1>4, <1>i DEF FreeSlot, SlotHolders
    <2> QED
      BY <1>4, <2>1, <2>2, <1>give DEF FreeSlot
  <1>5. ASSUME NEW i \in Attempts, StartHandler(c, i) \/ EndHandler(c, i) PROVE SlotsConserved'
    <2>1. SlotHolders' = SlotHolders
      BY <1>5, <1>i DEF StartHandler, EndHandler, SlotHolders
    <2> QED
      BY <1>5, <2>1, <1>same DEF StartHandler, EndHandler
  <1> QED
    BY <1>1, <1>2, <1>3, <1>4, <1>5 DEF Execute, HandlerStep

\* The invariant is inductive.
LEMMA SkillKeepsInv == SkillInv /\ [SkillNext]_skillVars => SkillInv'
  <1>1. ASSUME SkillInv, SkillNext PROVE SkillInv'
    BY <1>1, SkillTyping, SkillOrder, SkillConserves DEF SkillInv, Orderly
  <1>2. ASSUME SkillInv, UNCHANGED skillVars PROVE SkillInv'
    BY <1>2 DEF SkillInv, SkillTypes, Orderly, SlotsConserved, SlotHolders, skillVars
  <1> QED
    BY <1>1, <1>2

-----------------------------------------------------------------------------
(* The inference service.                                                  *)

\* Every step of the service is one of each component, or leaves it alone.
LEMMA Compose ==
  ASSUME [Next]_vars
  PROVE  [AdmissionNext]_admissionVars /\ [SkillNext]_skillVars
  <1>1. CASE AdmissionStep
    BY <1>1 DEF AdmissionStep, AdmissionNext
  <1>2. CASE ThreadStep
    BY <1>2, CallsAreRuns DEF ThreadStep, SkillNext
  <1>3. CASE EndRun
    BY <1>3 DEF EndRun, AdmissionNext, Running
  <1>4. CASE HandlersStep
    BY <1>4 DEF HandlersStep, SkillNext
  <1>5. CASE UNCHANGED vars
    BY <1>5 DEF vars
  <1> QED
    BY <1>1, <1>2, <1>3, <1>4, <1>5 DEF Next

\* Both invariants hold in every state of the service.
LEMMA ServiceInvariant == Spec => [](AdmissionInv /\ SkillInv)
  <1>1. Init => AdmissionInv /\ SkillInv
    BY AdmissionStarts, SkillStarts DEF Init
  <1>2. AdmissionInv /\ SkillInv /\ [Next]_vars => (AdmissionInv /\ SkillInv)'
    BY Compose, AdmissionKeepsInv, SkillKeepsInv
  <1> QED
    BY <1>1, <1>2, PTL DEF Spec

\* The semaphores, futures, queue and control points keep their types.
THEOREM ServiceTypes == Spec => []TypeOK
  <1>1. AdmissionInv /\ SkillInv => TypeOK
    BY AdmissionInvImplies, SkillInvImplies DEF TypeOK
  <1> QED
    BY <1>1, ServiceInvariant, PTL

\* app.py:139: no timeout or cancellation loses, duplicates or frees early the
\* permit of a question.
THEOREM PermitsAreConserved == Spec => []PermitsConserved
  <1>1. AdmissionInv => PermitsConserved
    BY DEF AdmissionInv
  <1> QED
    BY <1>1, ServiceInvariant, PTL

\* A question answered by its run has given its permit back before.
THEOREM AnsweredFreesPermit == Spec => []AnsweredHoldsNothing
  <1> QED
    BY AdmissionInvImplies, ServiceInvariant, PTL

\* A question or upload whose caller has gone is never started.
THEOREM AbandonedNeverStarts == Spec => NoAbandonedStart
  <1>1. AdmissionInv => \A w \in Work : future[w] = "pending" => caller[w] = "waiting"
    BY DEF AdmissionInv, Coherent
  <1>2. AdmissionInv /\ [Next]_vars =>
          [\A w \in Work : future[w] = "pending" /\ future'[w] = "running"
                              => caller[w] = "waiting"]_admissionVars
    BY <1>1
  <1> QED
    BY <1>2, ServiceInvariant, PTL DEF Spec, NoAbandonedStart

\* executor.py:73: a slot is free or held by one handler until that has ended.
THEOREM SlotsAreConserved == Spec => []SlotsConserved
  <1>1. SkillInv => SlotsConserved
    BY DEF SkillInv
  <1> QED
    BY <1>1, ServiceInvariant, PTL

\* executor.py:73: a retry never overlaps the handler of an earlier attempt.
THEOREM RetriesDoNotOverlap == Spec => []NoOverlap
  <1> QED
    BY SkillInvImplies, ServiceInvariant, PTL

\* No handler begins after its call returned.
THEOREM NothingStartsLate == Spec => []NoLateStart
  <1> QED
    BY SkillInvImplies, ServiceInvariant, PTL

-----------------------------------------------------------------------------
(* The threads between the two components.                                 *)

\* No more runs than threads, whichever callers have given theirs up.
ThreadsSuffice == IsFiniteSet(Running) /\ Cardinality(Running) <= Threads

\* A skill is executed by a run that was started, and a run does not end under
\* its skill call.
CallsHaveThreads ==
  \A q \in Questions :
    /\ call[q] # "idle" => future[q] \in {"running", "finished"}
    /\ call[q] \in {"trying", "waiting"} => future[q] = "running"

Executing == {c \in Calls : call[c] \in {"trying", "waiting"}}

LEMMA FewerRun ==
    ASSUME ThreadsSuffice, Running' \subseteq Running
    PROVE  ThreadsSuffice'
  <1>1. IsFiniteSet(Running') /\ Cardinality(Running') <= Cardinality(Running)
    BY FS_Subset DEF ThreadsSuffice
  <1>2. Cardinality(Running) \in Nat /\ Cardinality(Running') \in Nat
    BY <1>1, FS_CardinalityType DEF ThreadsSuffice
  <1> QED
    BY <1>1, <1>2, AdmissionAssumption DEF ThreadsSuffice

LEMMA ThreadsStaySufficient ==
    ASSUME AdmissionTypes, ThreadsSuffice, [AdmissionNext]_admissionVars
    PROVE  ThreadsSuffice'
  <1>1. ASSUME NEW w \in Work, Serve(w) \/ End(w) PROVE ThreadsSuffice'
    <2>1. Running' \subseteq Running
      BY <1>1 DEF Serve, Admit, Refuse, Upload, GiveUp, Release, Deliver, End, Running,
                  AdmissionTypes
    <2> QED
      BY <2>1, FewerRun
  <1>2. ASSUME NEW w \in Work, Start(w) PROVE ThreadsSuffice'
    <2>1. Running' \subseteq Running \cup {w} /\ Cardinality(Running) < Threads
      BY <1>2 DEF Start, Running, AdmissionTypes
    <2>2. CASE w \in Running
      <3>1. Running' \subseteq Running
        BY <2>1, <2>2
      <3> QED
        BY <3>1, FewerRun
    <2>3. CASE w \notin Running
      <3>1. /\ IsFiniteSet(Running \cup {w})
            /\ Cardinality(Running \cup {w}) = Cardinality(Running) + 1
        BY <2>3, FS_AddElement DEF ThreadsSuffice
      <3>2. /\ IsFiniteSet(Running')
            /\ Cardinality(Running') <= Cardinality(Running \cup {w})
        BY <2>1, <3>1, FS_Subset
      <3>3. Cardinality(Running) \in Nat /\ Cardinality(Running') \in Nat
        BY <3>2, FS_CardinalityType DEF ThreadsSuffice
      <3> QED
        BY <2>1, <3>1, <3>2, <3>3, AdmissionAssumption DEF ThreadsSuffice
    <2> QED
      BY <2>2, <2>3
  <1>3. CASE UNCHANGED admissionVars
    BY <1>3 DEF admissionVars, ThreadsSuffice, Running
  <1> QED
    BY <1>1, <1>2, <1>3 DEF AdmissionNext

LEMMA CallsKeepThreads ==
    ASSUME AdmissionInv, SkillInv, CallsHaveThreads, [Next]_vars
    PROVE  CallsHaveThreads'
  <1> USE DEF CallsHaveThreads
  <1>t. /\ future \in [Work -> Futures] /\ call \in [Calls -> {"idle", "trying", "waiting", "returned"}]
        /\ Questions \subseteq Work /\ Calls = Questions
    BY CallsAreRuns DEF AdmissionInv, AdmissionTypes, SkillInv, SkillTypes, Work
  <1>1. CASE AdmissionStep
    <2>1. call' = call
      BY <1>1 DEF AdmissionStep, skillVars
    <2>2. PICK w \in Work : Serve(w) \/ Start(w)
      BY <1>1 DEF AdmissionStep
    <2>3. \A v \in Work : v # w => future'[v] = future[v]
      BY <1>t, <2>2 DEF Serve, Admit, Refuse, Upload, GiveUp, Release, Deliver, Start
    <2>4. future'[w] = future[w] \/ future[w] \in {"none", "pending"}
      BY <1>t, <2>2 DEF Serve, Admit, Refuse, Upload, GiveUp, Release, Deliver, Start,
                        AdmissionInv, Coherent
    <2>5. future[w] \in {"none", "pending"} => w \notin Questions \/ call[w] = "idle"
      BY <1>t
    <2> QED
      BY <1>t, <2>1, <2>3, <2>4, <2>5
  <1>2. CASE ThreadStep
    <2>1. PICK q \in Questions : future[q] = "running" /\ Execute(q)
      BY <1>2 DEF ThreadStep, Running
    <2>2. future' = future
      BY <1>2 DEF ThreadStep, admissionVars
    <2>3. \A c \in Calls : c # q => call'[c] = call[c]
      BY <1>t, <2>1 DEF Execute, Begin, Reject, Submit, NoCapacity, Collect, Timeout,
                        Return, RetryOrReturn
    <2> QED
      BY <1>t, <2>1, <2>2, <2>3
  <1>3. CASE EndRun
    <2>1. PICK w \in Running : Finished(w) /\ End(w)
      BY <1>3 DEF EndRun
    <2>2. call' = call
      BY <1>3 DEF EndRun, skillVars
    <2>3. w \in Work /\ \A v \in Work : future'[v] = IF v = w THEN "finished" ELSE future[v]
      BY <1>t, <2>1 DEF End, Running
    <2> QED
      BY <1>t, <2>1, <2>2, <2>3 DEF Finished
  <1>4. CASE HandlersStep
    BY <1>4 DEF HandlersStep, HandlerStep, StartHandler, EndHandler, FreeSlot, admissionVars
  <1>5. CASE UNCHANGED vars
    BY <1>5 DEF vars, admissionVars, skillVars
  <1> QED
    BY <1>1, <1>2, <1>3, <1>4, <1>5 DEF Next

LEMMA ThreadsInvariant == Spec => [](ThreadsSuffice /\ CallsHaveThreads)
  <1>1. Init => ThreadsSuffice /\ CallsHaveThreads
    <2> SUFFICES ASSUME Init PROVE ThreadsSuffice /\ CallsHaveThreads
      OBVIOUS
    <2>1. Running = {}
      BY DEF Init, AdmissionInit, Running
    <2>2. ThreadsSuffice
      BY <2>1, FS_EmptySet, AdmissionAssumption DEF ThreadsSuffice
    <2>3. CallsHaveThreads
      BY CallsAreRuns DEF Init, SkillInit, CallsHaveThreads
    <2> QED
      BY <2>2, <2>3
  <1>2. AdmissionInv /\ SkillInv /\ ThreadsSuffice /\ CallsHaveThreads /\ [Next]_vars =>
          (ThreadsSuffice /\ CallsHaveThreads)'
    BY Compose, ThreadsStaySufficient, CallsKeepThreads DEF AdmissionInv
  <1> QED
    BY <1>1, <1>2, ServiceInvariant, PTL DEF Spec

\* Requests that time out leave their threads running, and yet no more skill
\* calls are under way than the pool has threads.
THEOREM CallsAreBounded ==
    Spec => [](IsFiniteSet(Executing) /\ Cardinality(Executing) <= Threads)
  <1>1. ASSUME ThreadsSuffice, CallsHaveThreads
        PROVE  IsFiniteSet(Executing) /\ Cardinality(Executing) <= Threads
    <2>1. Executing \subseteq Running
      BY <1>1, CallsAreRuns DEF Executing, CallsHaveThreads, Running, Work
    <2>2. IsFiniteSet(Executing) /\ Cardinality(Executing) <= Cardinality(Running)
      BY <1>1, <2>1, FS_Subset DEF ThreadsSuffice
    <2>3. Cardinality(Running) \in Nat /\ Cardinality(Executing) \in Nat
      BY <1>1, <2>2, FS_CardinalityType DEF ThreadsSuffice
    <2> QED
      BY <1>1, <2>2, <2>3, AdmissionAssumption DEF ThreadsSuffice
  <1> QED
    BY <1>1, ThreadsInvariant, PTL

\* A question that was refused, or given up before a thread took it, has
\* executed no skill.
THEOREM RefusedExecutesNothing ==
    Spec => [](\A q \in Questions :
                 caller[q] = "refused" \/ future[q] = "cancelled" => call[q] = "idle")
  <1>1. AdmissionInv /\ CallsHaveThreads =>
          \A q \in Questions :
            caller[q] = "refused" \/ future[q] = "cancelled" => call[q] = "idle"
    BY DEF AdmissionInv, Coherent, CallsHaveThreads, Work
  <1> QED
    BY <1>1, ServiceInvariant, ThreadsInvariant, PTL
=============================================================================
