-------------------------- MODULE TaskQueueProofs --------------------------
(***************************************************************************)
(* Proofs about TaskQueue for every number of tasks, workers, attempts and *)
(* faults: type correctness, the safety invariants, the two action         *)
(* properties, that TaskQueue implements TaskLifecycle, and how much of    *)
(* the capacity faults can cost.                                           *)
(***************************************************************************)
EXTENDS TaskQueue, SequenceTheorems, FiniteSetTheorems, TLAPS

\* A worker past next_item has an entry in hand.
InHand ==
    \A w \in Workers : pc[w] \in {"held", "acking"} \cup Claiming => held[w] \in Entry

TypeInv == TypeOK /\ IsFiniteSet(pending) /\ InHand

\* The batch of XAUTOCLAIM leaves _recovered a sequence of entries, and one
\* within its maxsize.
LEMMA AccommodateType ==
    ASSUME NEW E, NEW queue \in Seq(E), NEW S \in SUBSET E, IsFiniteSet(S),
           NEW batch \in SetToSeqs(S), Len(queue) <= RecoveredCap
    PROVE  /\ Accommodate(queue, batch) \in Seq(E)
           /\ Len(Accommodate(queue, batch)) <= RecoveredCap
  <1> DEFINE room == RecoveredCap - Len(queue)
             n == IF room < Len(batch) THEN room ELSE Len(batch)
  <1>1. batch \in Seq(E) /\ Len(batch) \in Nat
    <2>1. Cardinality(S) \in Nat
      BY FS_CardinalityType
    <2>2. batch \in [1..Cardinality(S) -> S]
      BY DEF SetToSeqs
    <2> QED
      BY <2>1, <2>2
  <1>2. n \in Nat /\ n <= Len(batch) /\ n <= room
    BY <1>1, QueueAssumption
  <1>3. \A i \in 1..n : batch[i] \in E
    BY <1>1, <1>2
  <1>4. SubSeq(batch, 1, n) \in Seq(E) /\ Len(SubSeq(batch, 1, n)) = n
    <2> HIDE DEF n
    <2> QED BY <1>1, <1>2, <1>3, SubSeqProperties
  <1>5. Accommodate(queue, batch) = queue \o SubSeq(batch, 1, n)
    BY DEF Accommodate
  <1> HIDE DEF n
  <1>6. /\ Accommodate(queue, batch) \in Seq(E)
        /\ Len(Accommodate(queue, batch)) = Len(queue) + n
    BY <1>4, <1>5, ConcatProperties
  <1> QED
    BY <1>2, <1>6, LenProperties, QueueAssumption

\* Entries are pairs of a task and a number: the only facts about them used.
LEMMA EntryFacts ==
    /\ \A e \in Entry : TaskOf(e) \in Tasks
    /\ \A t \in Tasks, n \in Nat : <<t, n>> \in Entry /\ TaskOf(<<t, n>>) = t
    /\ NoEntry \notin Entry
  BY DEF Entry, TaskOf, NoEntry

LEMMA InitTypeInv == Init => TypeInv
  BY FS_EmptySet, EmptySeq, QueueAssumption
     DEF Init, TypeInv, TypeOK, InHand, PCs, Claiming

-----------------------------------------------------------------------------
(* The type invariant falls into what Redis holds, what the workers hold   *)
(* and the rest; an action touches each part through one of few operators. *)

RedisTypeOK ==
    /\ status \in [Tasks -> {"absent", "queued", "running"} \cup Terminal]
    /\ attempts \in [Tasks -> Nat]
    /\ lease \in [Tasks -> Nat]
    /\ fresh \subseteq Entry
    /\ pending \subseteq Entry /\ IsFiniteSet(pending)
    /\ idle \subseteq pending
    /\ acked \subseteq Entry
    /\ dead \in [Tasks -> Nat]

WorkerTypeOK ==
    /\ pc \in [Workers -> PCs]
    /\ held \in [Workers -> Entry \cup {NoEntry}]
    /\ token \in [Workers -> Nat]
    /\ recovered \in [Workers -> Seq(Entry)]
    /\ \A w \in Workers : Len(recovered[w]) <= RecoveredCap
    /\ InHand

RestTypeOK ==
    /\ rows \in [Tasks -> Nat]
    /\ vectors \subseteq Tasks
    /\ started \in [Tasks -> SUBSET Nat]
    /\ faults \in Nat

LEMMA TypeInvParts == TypeInv <=> RedisTypeOK /\ WorkerTypeOK /\ RestTypeOK
  BY DEF TypeInv, TypeOK, InHand, RedisTypeOK, WorkerTypeOK, RestTypeOK

LEMMA HeldTask ==
    ASSUME WorkerTypeOK, NEW w \in Workers, pc[w] \in {"held", "acking"} \cup Claiming
    PROVE  held[w] \in Entry /\ TaskOf(held[w]) \in Tasks
  BY EntryFacts DEF WorkerTypeOK, InHand

LEMMA DeleteType ==
    ASSUME RedisTypeOK, NEW e, Delete(e)
    PROVE  pending' \subseteq Entry /\ IsFiniteSet(pending') /\ idle' \subseteq pending'
  BY FS_RemoveElement DEF RedisTypeOK, Delete

LEMMA TakeLeaseType ==
    ASSUME RedisTypeOK, NEW t \in Tasks, TakeLease(t)
    PROVE  RedisTypeOK'
  BY DEF RedisTypeOK, TakeLease

LEMMA CommitDoneType ==
    ASSUME RedisTypeOK, WorkerTypeOK, NEW w \in Workers, pc[w] = "handled", CommitDone(w)
    PROVE  RedisTypeOK'
  BY HeldTask, DeleteType DEF RedisTypeOK, CommitDone, Terminal, Claiming

LEMMA CommitFailureType ==
    ASSUME RedisTypeOK, WorkerTypeOK, NEW w \in Workers, pc[w] = "failing", CommitFailure(w)
    PROVE  RedisTypeOK'
  <1>1. TaskOf(held[w]) \in Tasks /\ token[w] \in Nat
    BY HeldTask DEF WorkerTypeOK, Claiming
  <1>2. <<TaskOf(held[w]), token[w]>> \in Entry
    BY <1>1, EntryFacts
  <1>3. pending' \subseteq Entry /\ IsFiniteSet(pending') /\ idle' \subseteq pending'
    BY DeleteType DEF CommitFailure
  <1> QED
    BY <1>1, <1>2, <1>3 DEF RedisTypeOK, CommitFailure, Terminal

LEMMA GoToType ==
    ASSUME WorkerTypeOK, NEW w \in Workers, NEW label \in PCs, GoTo(w, label),
           UNCHANGED <<held, recovered>>, token' \in [Workers -> Nat],
           label \in {"held", "acking"} \cup Claiming => held[w] \in Entry
    PROVE  WorkerTypeOK'
  BY DEF WorkerTypeOK, InHand, GoTo

LEMMA EndIterationType ==
    ASSUME WorkerTypeOK, NEW w \in Workers, EndIteration(w)
    PROVE  WorkerTypeOK'
  BY DEF WorkerTypeOK, InHand, EndIteration, GoTo, PCs, Claiming

LEMMA UnchangedTypes ==
    /\ RedisTypeOK /\ UNCHANGED redis => RedisTypeOK'
    /\ WorkerTypeOK /\ UNCHANGED worker => WorkerTypeOK'
    /\ RestTypeOK /\ UNCHANGED <<memory, started>> /\ faults' \in Nat => RestTypeOK'
  BY DEF RedisTypeOK, WorkerTypeOK, RestTypeOK, InHand, redis, worker, memory

-----------------------------------------------------------------------------
(* The step of the type invariant, one case per action.                    *)

LEMMA TypeInvStep == TypeInv /\ [Next]_vars => TypeInv'
  <1> SUFFICES ASSUME RedisTypeOK, WorkerTypeOK, RestTypeOK, [Next]_vars
               PROVE  RedisTypeOK' /\ WorkerTypeOK' /\ RestTypeOK'
    BY DEF TypeInv, TypeOK, RedisTypeOK, WorkerTypeOK, RestTypeOK, InHand
  <1>1. ASSUME NEW t \in Tasks, Enqueue(t) PROVE RedisTypeOK' /\ WorkerTypeOK' /\ RestTypeOK'
    <2>1. RedisTypeOK'
      BY <1>1, EntryFacts DEF Enqueue, RedisTypeOK
    <2> QED
      BY <1>1, <2>1, UnchangedTypes DEF Enqueue, RestTypeOK
  <1>2. ASSUME NEW t \in Tasks, DropLease(t), faults' \in Nat PROVE RedisTypeOK' /\ WorkerTypeOK' /\ RestTypeOK'
    <2>1. RedisTypeOK'
      BY <1>2 DEF DropLease, RedisTypeOK
    <2> QED
      BY <1>2, <2>1, UnchangedTypes DEF DropLease
  <1>3. ASSUME NEW e \in pending, BecomeIdle(e) PROVE RedisTypeOK' /\ WorkerTypeOK' /\ RestTypeOK'
    <2>1. RedisTypeOK'
      BY <1>3 DEF BecomeIdle, RedisTypeOK
    <2> QED
      BY <1>3, <2>1, UnchangedTypes DEF BecomeIdle, RestTypeOK
  <1>4. ASSUME NEW w \in Workers, RecoverStaleClaims(w) PROVE RedisTypeOK' /\ WorkerTypeOK' /\ RestTypeOK'
    <2>1. RedisTypeOK'
      BY <1>4, FS_EmptySet DEF RecoverStaleClaims, AfterRecovery, RedisTypeOK
    <2>2. PICK batch \in SetToSeqs(idle) :
            recovered' = [recovered EXCEPT ![w] = Accommodate(recovered[w], batch)]
      BY <1>4 DEF RecoverStaleClaims, AfterRecovery
    <2>3. /\ Accommodate(recovered[w], batch) \in Seq(Entry)
          /\ Len(Accommodate(recovered[w], batch)) <= RecoveredCap
      <3>1. idle \in SUBSET Entry /\ IsFiniteSet(idle)
        BY FS_Subset DEF RedisTypeOK
      <3>2. recovered[w] \in Seq(Entry) /\ Len(recovered[w]) <= RecoveredCap
        BY DEF WorkerTypeOK
      <3> QED
        BY <3>1, <3>2, <2>2, AccommodateType
    <2>4. WorkerTypeOK'
      BY <1>4, <2>2, <2>3 DEF RecoverStaleClaims, AfterRecovery, WorkerTypeOK, InHand, GoTo, PCs, Claiming
    <2> QED
      BY <1>4, <2>1, <2>4, UnchangedTypes DEF RecoverStaleClaims, AfterRecovery, RestTypeOK, memory
  <1>5. ASSUME NEW w \in Workers, TakeRecovered(w) PROVE RedisTypeOK' /\ WorkerTypeOK' /\ RestTypeOK'
    <2>1. /\ Head(recovered[w]) \in Entry /\ Tail(recovered[w]) \in Seq(Entry)
          /\ Len(Tail(recovered[w])) <= RecoveredCap
      BY <1>5, HeadTailProperties, QueueAssumption DEF TakeRecovered, WorkerTypeOK
    <2>2. WorkerTypeOK'
      BY <1>5, <2>1 DEF TakeRecovered, WorkerTypeOK, InHand, GoTo, PCs
    <2> QED
      BY <1>5, <2>2, UnchangedTypes DEF TakeRecovered, RestTypeOK
  <1>6. ASSUME NEW w \in Workers, ReadGroup(w) PROVE RedisTypeOK' /\ WorkerTypeOK' /\ RestTypeOK'
    <2>1. PICK e \in fresh : /\ fresh' = fresh \ {e}
                             /\ pending' = pending \cup {e}
                             /\ held' = [held EXCEPT ![w] = e]
      BY <1>6 DEF ReadGroup
    <2>2. RedisTypeOK'
      BY <1>6, <2>1, FS_AddElement DEF ReadGroup, RedisTypeOK
    <2>3. WorkerTypeOK'
      BY <1>6, <2>1 DEF ReadGroup, RedisTypeOK, WorkerTypeOK, InHand, GoTo, PCs
    <2> QED
      BY <1>6, <2>2, <2>3, UnchangedTypes DEF ReadGroup, RestTypeOK
  <1>7. ASSUME NEW w \in Workers, NothingToRead(w) PROVE RedisTypeOK' /\ WorkerTypeOK' /\ RestTypeOK'
    <2>1. RedisTypeOK'
      BY <1>7, UnchangedTypes DEF NothingToRead
    <2>2. WorkerTypeOK'
      BY <1>7, EndIterationType DEF NothingToRead
    <2>3. RestTypeOK'
      BY <1>7, UnchangedTypes DEF NothingToRead, RestTypeOK
    <2> QED
      BY <2>1, <2>2, <2>3
  <1>8. ASSUME NEW w \in Workers, Claim(w) PROVE RedisTypeOK' /\ WorkerTypeOK' /\ RestTypeOK'
    <2>1. RedisTypeOK'
      BY <1>8, HeldTask, TakeLeaseType DEF Claim
    <2>2. WorkerTypeOK'
      <3>1. attempts[TaskOf(held[w])] + 1 \in Nat
        BY <1>8, HeldTask DEF Claim, RedisTypeOK
      <3> QED
        BY <1>8, <3>1, HeldTask DEF Claim, WorkerTypeOK, InHand, GoTo, PCs, Claiming
    <2>3. RestTypeOK'
      BY <1>8, UnchangedTypes DEF Claim, RestTypeOK
    <2> QED
      BY <2>1, <2>2, <2>3
  <1>9. ASSUME NEW w \in Workers, ClaimBusy(w) PROVE RedisTypeOK' /\ WorkerTypeOK' /\ RestTypeOK'
    <2>1. RedisTypeOK'
      BY <1>9, UnchangedTypes DEF ClaimBusy
    <2>2. WorkerTypeOK'
      BY <1>9, EndIterationType DEF ClaimBusy
    <2>3. RestTypeOK'
      BY <1>9, UnchangedTypes DEF ClaimBusy, RestTypeOK
    <2> QED
      BY <2>1, <2>2, <2>3
  <1>10. ASSUME NEW w \in Workers, ClaimTerminal(w) PROVE RedisTypeOK' /\ WorkerTypeOK' /\ RestTypeOK'
    <2>1. RedisTypeOK'
      BY <1>10, HeldTask, DeleteType DEF ClaimTerminal, RedisTypeOK
    <2>2. WorkerTypeOK'
      BY <1>10, GoToType, HeldTask DEF ClaimTerminal, WorkerTypeOK, PCs, Claiming
    <2>3. RestTypeOK'
      BY <1>10, UnchangedTypes DEF ClaimTerminal, RestTypeOK
    <2> QED
      BY <2>1, <2>2, <2>3
  <1>11. ASSUME NEW w \in Workers, DeleteAcked(w) PROVE RedisTypeOK' /\ WorkerTypeOK' /\ RestTypeOK'
    <2>1. RedisTypeOK'
      BY <1>11 DEF DeleteAcked, RedisTypeOK
    <2>2. WorkerTypeOK'
      BY <1>11, EndIterationType DEF DeleteAcked
    <2>3. RestTypeOK'
      BY <1>11, UnchangedTypes DEF DeleteAcked, RestTypeOK
    <2> QED
      BY <2>1, <2>2, <2>3
  <1>12. ASSUME NEW w \in Workers, BeginHandler(w) PROVE RedisTypeOK' /\ WorkerTypeOK' /\ RestTypeOK'
    <2>1. RedisTypeOK'
      BY <1>12, UnchangedTypes DEF BeginHandler
    <2>2. WorkerTypeOK'
      BY <1>12, GoToType, HeldTask DEF BeginHandler, WorkerTypeOK, PCs, Claiming
    <2>3. RestTypeOK'
      BY <1>12, HeldTask DEF BeginHandler, RestTypeOK, WorkerTypeOK, memory, Claiming
    <2> QED
      BY <2>1, <2>2, <2>3
  <1>13. ASSUME NEW w \in Workers, AttemptLimit(w) PROVE RedisTypeOK' /\ WorkerTypeOK' /\ RestTypeOK'
    <2>1. RedisTypeOK'
      BY <1>13, UnchangedTypes DEF AttemptLimit
    <2>2. WorkerTypeOK'
      BY <1>13, GoToType, HeldTask DEF AttemptLimit, WorkerTypeOK, PCs, Claiming
    <2>3. RestTypeOK'
      BY <1>13, UnchangedTypes DEF AttemptLimit, RestTypeOK
    <2> QED
      BY <2>1, <2>2, <2>3
  <1>14. ASSUME NEW w \in Workers, CommitRow(w) PROVE RedisTypeOK' /\ WorkerTypeOK' /\ RestTypeOK'
    <2>1. RedisTypeOK'
      BY <1>14, UnchangedTypes DEF CommitRow
    <2>2. WorkerTypeOK'
      BY <1>14, GoToType, HeldTask DEF CommitRow, WorkerTypeOK, PCs, Claiming
    <2>3. RestTypeOK'
      BY <1>14, HeldTask DEF CommitRow, RestTypeOK, Claiming
    <2> QED
      BY <2>1, <2>2, <2>3
  <1>15. ASSUME NEW w \in Workers, UpsertVector(w) PROVE RedisTypeOK' /\ WorkerTypeOK' /\ RestTypeOK'
    <2>1. RedisTypeOK'
      BY <1>15, UnchangedTypes DEF UpsertVector
    <2>2. WorkerTypeOK'
      BY <1>15, GoToType, HeldTask DEF UpsertVector, WorkerTypeOK, PCs, Claiming
    <2>3. RestTypeOK'
      BY <1>15, HeldTask DEF UpsertVector, RestTypeOK, Claiming
    <2> QED
      BY <2>1, <2>2, <2>3
  <1>16. ASSUME NEW w \in Workers, HandleReadOnly(w) PROVE RedisTypeOK' /\ WorkerTypeOK' /\ RestTypeOK'
    <2>1. RedisTypeOK'
      BY <1>16, UnchangedTypes DEF HandleReadOnly
    <2>2. WorkerTypeOK'
      BY <1>16, GoToType, HeldTask DEF HandleReadOnly, WorkerTypeOK, PCs, Claiming
    <2>3. RestTypeOK'
      BY <1>16, UnchangedTypes DEF HandleReadOnly, RestTypeOK
    <2> QED
      BY <2>1, <2>2, <2>3
  <1>17. ASSUME NEW w \in Workers, HandlerError(w) PROVE RedisTypeOK' /\ WorkerTypeOK' /\ RestTypeOK'
    <2>1. RedisTypeOK'
      BY <1>17, UnchangedTypes DEF HandlerError
    <2>2. WorkerTypeOK'
      BY <1>17, GoToType, HeldTask DEF HandlerError, WorkerTypeOK, PCs, Claiming
    <2>3. RestTypeOK'
      BY <1>17, UnchangedTypes DEF HandlerError, RestTypeOK
    <2> QED
      BY <2>1, <2>2, <2>3
  <1>18. ASSUME NEW w \in Workers, Complete(w) PROVE RedisTypeOK' /\ WorkerTypeOK' /\ RestTypeOK'
    <2>1. RedisTypeOK'
      BY <1>18, CommitDoneType, UnchangedTypes DEF Complete
    <2>2. WorkerTypeOK'
      BY <1>18, EndIterationType DEF Complete
    <2>3. RestTypeOK'
      BY <1>18, UnchangedTypes DEF Complete, RestTypeOK
    <2> QED
      BY <2>1, <2>2, <2>3
  <1>19. ASSUME NEW w \in Workers, Fail(w) PROVE RedisTypeOK' /\ WorkerTypeOK' /\ RestTypeOK'
    <2>1. RedisTypeOK'
      BY <1>19, CommitFailureType, UnchangedTypes DEF Fail
    <2>2. WorkerTypeOK'
      BY <1>19, EndIterationType DEF Fail
    <2>3. RestTypeOK'
      BY <1>19, UnchangedTypes DEF Fail, RestTypeOK
    <2> QED
      BY <2>1, <2>2, <2>3
  <1>20. ASSUME NEW w \in Workers, Restart(w) PROVE RedisTypeOK' /\ WorkerTypeOK' /\ RestTypeOK'
    <2>1. RedisTypeOK'
      BY <1>20, UnchangedTypes DEF Restart
    <2>2. WorkerTypeOK'
      BY <1>20 DEF Restart, WorkerTypeOK, InHand, GoTo, PCs, Claiming
    <2>3. RestTypeOK'
      BY <1>20, UnchangedTypes DEF Restart, RestTypeOK
    <2> QED
      BY <2>1, <2>2, <2>3
  <1>21. ASSUME NEW w \in Workers, RecoveryFails(w) PROVE RedisTypeOK' /\ WorkerTypeOK' /\ RestTypeOK'
    <2>1. RedisTypeOK'
      BY <1>21 DEF RecoveryFails, AfterRecovery, RedisTypeOK
    <2>2. WorkerTypeOK'
      BY <1>21 DEF RecoveryFails, AfterRecovery, WorkerTypeOK, InHand, GoTo, PCs, Claiming
    <2>3. RestTypeOK'
      BY <1>21, UnchangedTypes DEF RecoveryFails, AfterRecovery, RestTypeOK, Fault
    <2> QED
      BY <2>1, <2>2, <2>3
  <1>22. ASSUME NEW w \in Workers, ClaimError(w) PROVE RedisTypeOK' /\ WorkerTypeOK' /\ RestTypeOK'
    <2>1. RedisTypeOK'
      BY <1>22, HeldTask, TakeLeaseType, UnchangedTypes DEF ClaimError
    <2>2. WorkerTypeOK'
      BY <1>22, EndIterationType DEF ClaimError
    <2>3. RestTypeOK'
      BY <1>22, UnchangedTypes DEF ClaimError, RestTypeOK, Fault
    <2> QED
      BY <2>1, <2>2, <2>3
  <1>23. ASSUME NEW w \in Workers, CompleteError(w) PROVE RedisTypeOK' /\ WorkerTypeOK' /\ RestTypeOK'
    <2>1. RedisTypeOK'
      BY <1>23, CommitDoneType, UnchangedTypes DEF CompleteError
    <2>2. WorkerTypeOK'
      BY <1>23, GoToType, HeldTask DEF CompleteError, WorkerTypeOK, PCs, Claiming
    <2>3. RestTypeOK'
      BY <1>23, UnchangedTypes DEF CompleteError, RestTypeOK, Fault
    <2> QED
      BY <2>1, <2>2, <2>3
  <1>24. ASSUME NEW w \in Workers, Crash(w) PROVE RedisTypeOK' /\ WorkerTypeOK' /\ RestTypeOK'
    <2>1. RedisTypeOK'
      BY <1>24, UnchangedTypes DEF Crash
    <2>2. WorkerTypeOK'
      BY <1>24, EmptySeq, QueueAssumption DEF Crash, WorkerTypeOK, InHand, GoTo, PCs, Claiming
    <2>3. RestTypeOK'
      BY <1>24, UnchangedTypes DEF Crash, RestTypeOK, Fault
    <2> QED
      BY <2>1, <2>2, <2>3
  <1>25. CASE UNCHANGED vars
    BY <1>25, UnchangedTypes DEF vars, RestTypeOK
  <1>26. ASSUME NEW t \in Tasks, LeaseExpires(t) \/ Stall(t) PROVE RedisTypeOK' /\ WorkerTypeOK' /\ RestTypeOK'
    BY <1>2, <1>26 DEF LeaseExpires, Stall, Fault, RestTypeOK
  <1> QED
    BY <1>1, <1>3, <1>4, <1>5, <1>6, <1>7, <1>8, <1>9, <1>10, <1>11, <1>12, <1>13, <1>14, <1>15, <1>16, <1>17, <1>18, <1>19, <1>20, <1>21, <1>22, <1>23, <1>24, <1>25, <1>26
       DEF Next, WorkerStep, WorkerFault

\* TypeOK is what the runs check; the proofs below rest on TypeInv.
THEOREM TypeInvariant == Spec => []TypeInv
  BY InitTypeInv, TypeInvStep, PTL DEF Spec

\* The variables keep their types, the task hash and the stream among them,
\* whatever the workers do.
THEOREM TypeCorrect == Spec => []TypeOK
  BY TypeInvariant, PTL DEF TypeInv

-----------------------------------------------------------------------------
(* Two views of a step that every later proof starts from: what it does to *)
(* the task hashes and leases, and what it does to the claims workers hold. *)

LEMMA HashSteps ==
    ASSUME [Next]_vars
    PROVE  \/ UNCHANGED <<status, attempts, lease, dead>>
           \/ \E t \in Tasks : Enqueue(t)
           \/ \E t \in Tasks : DropLease(t)
           \/ \E w \in Workers : pc[w] = "held" /\ TakeLease(TaskOf(held[w]))
           \/ \E w \in Workers : pc[w] = "handled" /\ HoldsLease(w) /\ CommitDone(w)
           \/ \E w \in Workers : pc[w] = "failing" /\ HoldsLease(w) /\ CommitFailure(w)
  <1>1. ASSUME NEW t \in Tasks, LeaseExpires(t) \/ Stall(t) PROVE DropLease(t)
    BY <1>1 DEF LeaseExpires, Stall
  <1>2. ASSUME NEW e \in pending, BecomeIdle(e)
        PROVE  UNCHANGED <<status, attempts, lease, dead>>
    BY <1>2 DEF BecomeIdle
  <1>3. ASSUME NEW w \in Workers,
               \/ RecoverStaleClaims(w) \/ TakeRecovered(w) \/ ReadGroup(w) \/ NothingToRead(w)
               \/ ClaimBusy(w) \/ ClaimTerminal(w) \/ DeleteAcked(w)
               \/ BeginHandler(w) \/ AttemptLimit(w) \/ CommitRow(w) \/ UpsertVector(w)
               \/ HandleReadOnly(w) \/ HandlerError(w) \/ Restart(w)
               \/ RecoveryFails(w) \/ Crash(w)
        PROVE  UNCHANGED <<status, attempts, lease, dead>>
    BY <1>3 DEF redis, RecoverStaleClaims, AfterRecovery, TakeRecovered, ReadGroup, NothingToRead, ClaimBusy,
                ClaimTerminal, DeleteAcked, BeginHandler, AttemptLimit, CommitRow, UpsertVector,
                HandleReadOnly, HandlerError, Restart, RecoveryFails, Crash
  <1>4. ASSUME NEW w \in Workers, Claim(w) PROVE pc[w] = "held" /\ TakeLease(TaskOf(held[w]))
    BY <1>4 DEF Claim
  <1>5. ASSUME NEW w \in Workers, ClaimError(w)
        PROVE  \/ UNCHANGED <<status, attempts, lease, dead>>
               \/ pc[w] = "held" /\ TakeLease(TaskOf(held[w]))
    BY <1>5 DEF ClaimError, redis
  <1>6. ASSUME NEW w \in Workers, Complete(w) \/ CompleteError(w)
        PROVE  \/ UNCHANGED <<status, attempts, lease, dead>>
               \/ pc[w] = "handled" /\ HoldsLease(w) /\ CommitDone(w)
    BY <1>6 DEF Complete, CompleteError, redis
  <1>7. ASSUME NEW w \in Workers, Fail(w)
        PROVE  \/ UNCHANGED <<status, attempts, lease, dead>>
               \/ pc[w] = "failing" /\ HoldsLease(w) /\ CommitFailure(w)
    BY <1>7 DEF Fail, redis
  <1>8. CASE UNCHANGED vars
    BY <1>8 DEF vars, redis
  <1> QED
    BY <1>1, <1>2, <1>3, <1>4, <1>5, <1>6, <1>7, <1>8 DEF Next, WorkerStep, WorkerFault

\* Only Claim creates a claim; every other step keeps or ends each of them.
LEMMA ClaimSteps ==
    ASSUME TypeInv, [Next]_vars, NEW v \in Workers, pc'[v] \in Claiming
    PROVE  \/ Claim(v)
           \/ pc[v] \in Claiming /\ held'[v] = held[v] /\ token'[v] = token[v]
  <1> USE DEF TypeInv, TypeOK, GoTo, Claiming
  <1>1. ASSUME NEW w \in Workers,
               \/ RecoverStaleClaims(w) \/ TakeRecovered(w) \/ ReadGroup(w)
               \/ ClaimTerminal(w) \/ Restart(w) \/ RecoveryFails(w) \/ Crash(w)
        PROVE  pc[v] \in Claiming /\ held'[v] = held[v] /\ token'[v] = token[v]
    BY <1>1 DEF RecoverStaleClaims, AfterRecovery, TakeRecovered, ReadGroup, ClaimTerminal, Restart,
                RecoveryFails, Crash
  <1>2. ASSUME NEW w \in Workers,
               \/ NothingToRead(w) \/ ClaimBusy(w) \/ DeleteAcked(w) \/ ClaimError(w)
               \/ Complete(w) \/ Fail(w)
        PROVE  pc[v] \in Claiming /\ held'[v] = held[v] /\ token'[v] = token[v]
    BY <1>2 DEF NothingToRead, ClaimBusy, DeleteAcked, ClaimError, Complete, Fail, EndIteration
  <1>3. ASSUME NEW w \in Workers,
               \/ BeginHandler(w) \/ AttemptLimit(w) \/ CommitRow(w) \/ UpsertVector(w)
               \/ HandleReadOnly(w) \/ HandlerError(w) \/ CompleteError(w)
        PROVE  pc[v] \in Claiming /\ held'[v] = held[v] /\ token'[v] = token[v]
    BY <1>3 DEF BeginHandler, AttemptLimit, CommitRow, UpsertVector, HandleReadOnly,
                HandlerError, CompleteError
  <1>4. ASSUME NEW w \in Workers, Claim(w), w # v
        PROVE  pc[v] \in Claiming /\ held'[v] = held[v] /\ token'[v] = token[v]
    BY <1>4 DEF Claim
  <1>5. ASSUME UNCHANGED worker
        PROVE  pc[v] \in Claiming /\ held'[v] = held[v] /\ token'[v] = token[v]
    BY <1>5 DEF worker
  <1>6. ASSUME NEW t \in Tasks, Enqueue(t) \/ LeaseExpires(t) \/ Stall(t) PROVE UNCHANGED worker
    BY <1>6 DEF Enqueue, LeaseExpires, Stall, DropLease, worker
  <1>7. ASSUME NEW e \in pending, BecomeIdle(e) PROVE UNCHANGED worker
    BY <1>7 DEF BecomeIdle, worker
  <1>8. CASE UNCHANGED vars
    BY <1>5, <1>8 DEF vars, worker
  <1> QED
    BY <1>1, <1>2, <1>3, <1>4, <1>5, <1>6, <1>7, <1>8 DEF Next, WorkerStep, WorkerFault

-----------------------------------------------------------------------------
(* Leases and claims.  A lease is always that of the latest attempt, on a  *)
(* running task; a claim keeps a number no other claim of its task has.    *)

LeaseInv == \A t \in Tasks : lease[t] # 0 => status[t] = "running" /\ lease[t] = attempts[t]

ClaimInv ==
    /\ \A w \in Workers : pc[w] \in Claiming => token[w] \in 1..attempts[TaskOf(held[w])]
    /\ \A v, w \in Workers :
        v # w /\ {pc[v], pc[w]} \subseteq Claiming /\ TaskOf(held[v]) = TaskOf(held[w])
            => token[v] # token[w]

\* A worker that holds the lease is the latest attempt of a running task.
LEMMA HolderIsLatest ==
    ASSUME TypeInv, LeaseInv, ClaimInv, NEW w \in Workers, pc[w] \in Claiming, HoldsLease(w)
    PROVE  /\ TaskOf(held[w]) \in Tasks
           /\ status[TaskOf(held[w])] = "running"
           /\ token[w] = attempts[TaskOf(held[w])]
  BY EntryFacts DEF TypeInv, TypeOK, InHand, LeaseInv, ClaimInv, HoldsLease

LEMMA AttemptsGrow ==
    ASSUME TypeInv, [Next]_vars, NEW t \in Tasks
    PROVE  attempts'[t] >= attempts[t]
  <1> USE DEF TypeInv, TypeOK
  <1>1. CASE UNCHANGED attempts
    BY <1>1
  <1>2. ASSUME NEW w \in Workers, pc[w] = "held" /\ TakeLease(TaskOf(held[w]))
        PROVE  attempts'[t] >= attempts[t]
    BY <1>2, EntryFacts DEF TakeLease, InHand
  <1> QED
    BY <1>1, <1>2, HashSteps DEF Enqueue, DropLease, CommitDone, CommitFailure

LEMMA LeaseInvStep == TypeInv /\ LeaseInv /\ ClaimInv /\ [Next]_vars => LeaseInv'
  <1> SUFFICES ASSUME TypeInv, LeaseInv, ClaimInv, [Next]_vars PROVE LeaseInv'
    OBVIOUS
  <1> USE DEF TypeInv, TypeOK, LeaseInv
  <1>1. CASE UNCHANGED <<status, attempts, lease, dead>>
    BY <1>1
  <1>2. ASSUME NEW t \in Tasks, Enqueue(t) PROVE LeaseInv'
    BY <1>2 DEF Enqueue
  <1>3. ASSUME NEW t \in Tasks, DropLease(t) PROVE LeaseInv'
    BY <1>3 DEF DropLease
  <1>4. ASSUME NEW w \in Workers, pc[w] = "held" /\ TakeLease(TaskOf(held[w])) PROVE LeaseInv'
    BY <1>4, EntryFacts DEF TakeLease, InHand
  <1>5. ASSUME NEW w \in Workers, pc[w] = "handled" /\ HoldsLease(w) /\ CommitDone(w)
        PROVE  LeaseInv'
    BY <1>5 DEF CommitDone
  <1>6. ASSUME NEW w \in Workers, pc[w] = "failing" /\ HoldsLease(w) /\ CommitFailure(w)
        PROVE  LeaseInv'
    BY <1>6 DEF CommitFailure
  <1> QED
    BY <1>1, <1>2, <1>3, <1>4, <1>5, <1>6, HashSteps

\* What a claim step gives its worker: a number above every earlier attempt.
LEMMA ClaimIsNew ==
    ASSUME TypeInv, NEW w \in Workers, Claim(w)
    PROVE  /\ held' = held /\ held[w] \in Entry /\ TaskOf(held[w]) \in Tasks
           /\ token'[w] = attempts[TaskOf(held[w])] + 1
           /\ attempts'[TaskOf(held[w])] = attempts[TaskOf(held[w])] + 1
           /\ pc'[w] = "claimed"
           /\ \A v \in Workers \ {w} : pc'[v] = pc[v] /\ token'[v] = token[v]
  BY EntryFacts DEF TypeInv, TypeOK, InHand, Claim, TakeLease, GoTo

LEMMA ClaimInvStep == TypeInv /\ ClaimInv /\ [Next]_vars => ClaimInv'
  <1> SUFFICES ASSUME TypeInv, ClaimInv, [Next]_vars PROVE ClaimInv'
    OBVIOUS
  <1>0. \A w \in Workers : pc[w] \in Claiming => TaskOf(held[w]) \in Tasks
    BY EntryFacts DEF TypeInv, InHand
  <1>1. ASSUME NEW w \in Workers, pc'[w] \in Claiming
        PROVE  token'[w] \in 1..attempts'[TaskOf(held'[w])]
    <2>1. CASE Claim(w)
      BY <2>1, ClaimIsNew DEF TypeInv, TypeOK
    <2>2. CASE pc[w] \in Claiming /\ held'[w] = held[w] /\ token'[w] = token[w]
      <3>1. attempts[TaskOf(held[w])] \in Nat /\ attempts'[TaskOf(held[w])] \in Nat
        BY <1>0, <2>2, TypeInvStep DEF TypeInv, TypeOK
      <3> QED
        BY <1>0, <2>2, <3>1, AttemptsGrow DEF ClaimInv
    <2> QED
      BY <1>1, <2>1, <2>2, ClaimSteps
  <1>2. ASSUME NEW v \in Workers, NEW w \in Workers, v # w, Claim(w),
               pc'[v] \in Claiming, TaskOf(held'[v]) = TaskOf(held'[w])
        PROVE  token'[v] < token'[w]
    BY <1>2, ClaimIsNew DEF ClaimInv, TypeInv, TypeOK
  <1>3. ASSUME NEW v \in Workers, NEW w \in Workers, v # w,
               pc'[v] \in Claiming, pc'[w] \in Claiming,
               TaskOf(held'[v]) = TaskOf(held'[w])
        PROVE  token'[v] # token'[w]
    <2>1. CASE Claim(v) \/ Claim(w)
      <3>1. token'[v] \in Nat /\ token'[w] \in Nat
        BY TypeInvStep DEF TypeInv, TypeOK
      <3> QED
        BY <1>2, <1>3, <2>1, <3>1
    <2>2. CASE ~Claim(v) /\ ~Claim(w)
      BY <1>3, <2>2, ClaimSteps DEF ClaimInv
    <2> QED
      BY <2>1, <2>2
  <1> QED
    BY <1>1, <1>3 DEF ClaimInv

-----------------------------------------------------------------------------
(* Bounded executions.                                                     *)

\* No step but Claim leads to "claimed", and only BeginHandler starts a handler.
LEMMA OnlyClaimEnters ==
    ASSUME TypeInv, [Next]_vars, NEW w \in Workers, pc'[w] = "claimed", ~Claim(w)
    PROVE  pc[w] = "claimed"
  <1> USE DEF TypeInv, TypeOK, GoTo
  <1>1. ASSUME NEW v \in Workers, WorkerStep(v) \/ WorkerFault(v), v # w PROVE pc'[w] = pc[w]
    BY <1>1 DEF WorkerStep, WorkerFault, RecoverStaleClaims, AfterRecovery, TakeRecovered, ReadGroup,
                NothingToRead, Claim, ClaimBusy, ClaimTerminal, DeleteAcked, BeginHandler,
                AttemptLimit, CommitRow, UpsertVector, HandleReadOnly, HandlerError, Complete,
                Fail, Restart, RecoveryFails, ClaimError, CompleteError, Crash, EndIteration
  <1>2. ASSUME WorkerStep(w) \/ WorkerFault(w), ~Claim(w) PROVE pc'[w] # "claimed"
    BY <1>2 DEF WorkerStep, WorkerFault, RecoverStaleClaims, AfterRecovery, TakeRecovered, ReadGroup,
                NothingToRead, ClaimBusy, ClaimTerminal, DeleteAcked, BeginHandler,
                AttemptLimit, CommitRow, UpsertVector, HandleReadOnly, HandlerError, Complete,
                Fail, Restart, RecoveryFails, ClaimError, CompleteError, Crash, EndIteration
  <1>3. ASSUME NEW t \in Tasks, Enqueue(t) \/ LeaseExpires(t) \/ Stall(t) PROVE pc' = pc
    BY <1>3 DEF Enqueue, LeaseExpires, Stall, DropLease, worker
  <1>4. ASSUME NEW e \in pending, BecomeIdle(e) PROVE pc' = pc
    BY <1>4 DEF BecomeIdle, worker
  <1>5. CASE UNCHANGED vars
    BY <1>5 DEF vars, worker
  <1> QED
    BY <1>1, <1>2, <1>3, <1>4, <1>5 DEF Next

LEMMA OnlyBeginStarts ==
    ASSUME [Next]_vars
    PROVE  UNCHANGED started \/ \E w \in Workers : BeginHandler(w)
  <1>1. ASSUME NEW w \in Workers, WorkerStep(w) \/ WorkerFault(w), ~BeginHandler(w)
        PROVE  UNCHANGED started
    BY <1>1 DEF WorkerStep, WorkerFault, RecoverStaleClaims, AfterRecovery, TakeRecovered, ReadGroup,
                NothingToRead, Claim, ClaimBusy, ClaimTerminal, DeleteAcked,
                AttemptLimit, CommitRow, UpsertVector, HandleReadOnly, HandlerError, Complete,
                Fail, Restart, RecoveryFails, ClaimError, CompleteError, Crash
  <1>2. ASSUME NEW t \in Tasks, Enqueue(t) \/ LeaseExpires(t) \/ Stall(t) PROVE UNCHANGED started
    BY <1>2 DEF Enqueue, LeaseExpires, Stall, DropLease
  <1>3. ASSUME NEW e \in pending, BecomeIdle(e) PROVE UNCHANGED started
    BY <1>3 DEF BecomeIdle
  <1>4. CASE UNCHANGED vars
    BY <1>4 DEF vars
  <1> QED
    BY <1>1, <1>2, <1>3, <1>4 DEF Next

StartedInv ==
    /\ \A t \in Tasks : started[t] \subseteq 1..attempts[t]
    /\ BoundedExecutions

LEMMA StartedInvStep == TypeInv /\ ClaimInv /\ StartedInv /\ [Next]_vars => StartedInv'
  <1> SUFFICES ASSUME TypeInv, ClaimInv, StartedInv, [Next]_vars PROVE StartedInv'
    OBVIOUS
  <1>0. \A t \in Tasks : attempts[t] \in Nat /\ attempts'[t] \in Nat /\ attempts'[t] >= attempts[t]
    BY AttemptsGrow, TypeInvStep DEF TypeInv, TypeOK
  <1>1. ASSUME NEW w \in Workers, BeginHandler(w) PROVE StartedInv'
    <2> DEFINE t == TaskOf(held[w])
    <2>1. t \in Tasks /\ token[w] \in 1..attempts[t] /\ token[w] \in 1..MaxAttempts
      BY <1>1, <1>0, EntryFacts, QueueAssumption
         DEF BeginHandler, TypeInv, InHand, ClaimInv, Claiming
    <2>2. started' = [started EXCEPT ![t] = @ \cup {token[w]}] /\ held' = held /\ token' = token
      BY <1>1 DEF BeginHandler
    <2>3. \A v \in Workers : pc'[v] = "claimed" => v # w /\ pc[v] = "claimed"
      BY <1>1 DEF BeginHandler, GoTo, TypeInv, TypeOK
    <2>4. ASSUME NEW v \in Workers, pc'[v] = "claimed"
          PROVE  token[v] \notin started'[TaskOf(held[v])]
      <3>1. v # w /\ pc[v] = "claimed" /\ TaskOf(held[v]) \in Tasks
        BY <2>3, <2>4, EntryFacts DEF TypeInv, InHand, Claiming
      <3>2. CASE TaskOf(held[v]) = t
        BY <1>1, <2>2, <3>1, <3>2
           DEF BeginHandler, ClaimInv, Claiming, StartedInv, BoundedExecutions, TypeInv, TypeOK
      <3>3. CASE TaskOf(held[v]) # t
        BY <2>2, <3>1, <3>3 DEF StartedInv, BoundedExecutions, TypeInv, TypeOK
      <3> QED
        BY <3>2, <3>3
    <2>5. \A u \in Tasks : started'[u] \subseteq 1..attempts'[u] /\ started'[u] \subseteq 1..MaxAttempts
      <3>1. attempts' = attempts
        BY <1>1 DEF BeginHandler, redis
      <3> QED
        BY <3>1, <2>1, <2>2 DEF StartedInv, BoundedExecutions, TypeInv, TypeOK
    <2> QED
      BY <2>2, <2>4, <2>5 DEF StartedInv, BoundedExecutions
  <1>2. CASE UNCHANGED started
    <2>1. \A t \in Tasks : started'[t] \subseteq 1..attempts'[t]
      BY <1>0, <1>2 DEF StartedInv
    <2>2. ASSUME NEW w \in Workers, pc'[w] = "claimed"
          PROVE  token'[w] \notin started[TaskOf(held'[w])]
      <3>1. CASE Claim(w)
        BY <1>0, <3>1, ClaimIsNew DEF StartedInv
      <3>2. CASE ~Claim(w)
        <4>1. held'[w] = held[w] /\ token'[w] = token[w] /\ pc[w] \in Claiming
          BY <2>2, <3>2, ClaimSteps DEF Claiming
        <4>2. pc[w] = "claimed"
          BY <2>2, <3>2, <4>1, OnlyClaimEnters
        <4> QED
          BY <4>1, <4>2 DEF StartedInv, BoundedExecutions
      <3> QED
        BY <3>1, <3>2
    <2> QED
      BY <1>2, <2>1, <2>2 DEF StartedInv, BoundedExecutions
  <1> QED
    BY <1>1, <1>2, OnlyBeginStarts

-----------------------------------------------------------------------------
(* Dead letters.                                                           *)

LEMMA DeadLetteredOnceStep ==
    TypeInv /\ LeaseInv /\ ClaimInv /\ DeadLetteredOnce /\ [Next]_vars => DeadLetteredOnce'
  <1> SUFFICES ASSUME TypeInv, LeaseInv, ClaimInv, DeadLetteredOnce, [Next]_vars
               PROVE  DeadLetteredOnce'
    OBVIOUS
  <1> USE DEF TypeInv, TypeOK, DeadLetteredOnce
  <1>1. CASE UNCHANGED <<status, attempts, lease, dead>>
    BY <1>1
  <1>2. ASSUME NEW t \in Tasks, Enqueue(t) \/ DropLease(t) PROVE DeadLetteredOnce'
    BY <1>2 DEF Enqueue, DropLease
  <1>3. ASSUME NEW w \in Workers, pc[w] = "held" /\ TakeLease(TaskOf(held[w]))
        PROVE  DeadLetteredOnce'
    BY <1>3, EntryFacts DEF TakeLease, InHand, Terminal
  <1>4. ASSUME NEW w \in Workers, pc[w] = "handled" /\ HoldsLease(w) /\ CommitDone(w)
        PROVE  DeadLetteredOnce'
    BY <1>4, HolderIsLatest DEF CommitDone, Claiming
  <1>5. ASSUME NEW w \in Workers, pc[w] = "failing" /\ HoldsLease(w) /\ CommitFailure(w)
        PROVE  DeadLetteredOnce'
    BY <1>5, HolderIsLatest DEF CommitFailure, Claiming
  <1> QED
    BY <1>1, <1>2, <1>3, <1>4, <1>5, HashSteps

-----------------------------------------------------------------------------
(* The archived memory.                                                    *)

ArchiveInv ==
    /\ ArchivedOnce
    /\ \A w \in Workers : TaskOf(held[w]) \in Archiving =>
        /\ pc[w] \in {"committed", "handled"} => rows[TaskOf(held[w])] = 1
        /\ pc[w] = "handled" => TaskOf(held[w]) \in vectors

\* Rows and vectors are only added; a handler that reaches "handled" or
\* "committed" gets there through them.
LEMMA MemorySteps ==
    ASSUME TypeInv, [Next]_vars
    PROVE  \/ UNCHANGED memory
           \/ \E w \in Workers : CommitRow(w)
           \/ \E w \in Workers : UpsertVector(w)
  <1>1. ASSUME NEW w \in Workers, WorkerStep(w) \/ WorkerFault(w),
               ~CommitRow(w), ~UpsertVector(w)
        PROVE  UNCHANGED memory
    BY <1>1 DEF WorkerStep, WorkerFault, memory, RecoverStaleClaims, AfterRecovery, TakeRecovered, ReadGroup,
                NothingToRead, Claim, ClaimBusy, ClaimTerminal, DeleteAcked, BeginHandler,
                AttemptLimit, HandleReadOnly, HandlerError, Complete,
                Fail, Restart, RecoveryFails, ClaimError, CompleteError, Crash
  <1>2. ASSUME NEW t \in Tasks, Enqueue(t) \/ LeaseExpires(t) \/ Stall(t) PROVE UNCHANGED memory
    BY <1>2 DEF Enqueue, LeaseExpires, Stall, DropLease
  <1>3. ASSUME NEW e \in pending, BecomeIdle(e) PROVE UNCHANGED memory
    BY <1>3 DEF BecomeIdle
  <1>4. CASE UNCHANGED vars
    BY <1>4 DEF vars
  <1> QED
    BY <1>1, <1>2, <1>3, <1>4 DEF Next

\* Who may be at "committed" or "handled" after a step.
LEMMA HandledSteps ==
    ASSUME TypeInv, [Next]_vars, NEW w \in Workers, pc'[w] \in {"committed", "handled"}
    PROVE  /\ held'[w] = held[w] /\ held[w] \in Entry
           /\ \/ pc'[w] = pc[w]
              \/ CommitRow(w) /\ pc'[w] = "committed"
              \/ UpsertVector(w) /\ pc[w] = "committed"
              \/ HandleReadOnly(w)
  <1> USE DEF TypeInv, TypeOK, GoTo
  <1>1. ASSUME NEW v \in Workers, WorkerStep(v) \/ WorkerFault(v), v # w
        PROVE  pc'[w] = pc[w]
    BY <1>1 DEF WorkerStep, WorkerFault, EndIteration, RecoverStaleClaims, AfterRecovery, TakeRecovered, ReadGroup,
                NothingToRead, Claim, ClaimBusy, ClaimTerminal, DeleteAcked, BeginHandler,
                AttemptLimit, CommitRow, UpsertVector, HandleReadOnly, HandlerError, Complete,
                Fail, Restart, RecoveryFails, ClaimError, CompleteError, Crash
  <1>2. ASSUME WorkerStep(w) \/ WorkerFault(w)
        PROVE  \/ CommitRow(w) /\ pc'[w] = "committed"
               \/ UpsertVector(w) /\ pc[w] = "committed"
               \/ HandleReadOnly(w)
    BY <1>2 DEF WorkerStep, WorkerFault, EndIteration, RecoverStaleClaims, AfterRecovery, TakeRecovered, ReadGroup,
                NothingToRead, Claim, ClaimBusy, ClaimTerminal, DeleteAcked, BeginHandler,
                AttemptLimit, CommitRow, UpsertVector, HandlerError, Complete,
                Fail, Restart, RecoveryFails, ClaimError, CompleteError, Crash
  <1>3. ASSUME NEW t \in Tasks, Enqueue(t) \/ LeaseExpires(t) \/ Stall(t) PROVE pc' = pc
    BY <1>3 DEF Enqueue, LeaseExpires, Stall, DropLease, worker
  <1>4. ASSUME NEW e \in pending, BecomeIdle(e) PROVE pc' = pc
    BY <1>4 DEF BecomeIdle, worker
  <1>5. ASSUME UNCHANGED vars PROVE pc' = pc
    BY <1>5 DEF vars, worker
  <1>6. \/ pc'[w] = pc[w]
        \/ CommitRow(w) /\ pc'[w] = "committed"
        \/ UpsertVector(w) /\ pc[w] = "committed"
        \/ HandleReadOnly(w)
    BY <1>1, <1>2, <1>3, <1>4, <1>5 DEF Next
  <1>7. ~Claim(w) /\ pc'[w] \in Claiming
    BY DEF Claim, Claiming
  <1>8. pc[w] \in Claiming /\ held'[w] = held[w]
    BY <1>7, ClaimSteps
  <1> QED
    BY <1>6, <1>8 DEF InHand

LEMMA ArchiveInvStep ==
    TypeInv /\ LeaseInv /\ ClaimInv /\ ArchiveInv /\ [Next]_vars => ArchiveInv'
  <1> SUFFICES ASSUME TypeInv, LeaseInv, ClaimInv, ArchiveInv, [Next]_vars PROVE ArchiveInv'
    OBVIOUS
  <1>0. TypeInv'
    BY TypeInvStep
  <1>1. \A t \in Archiving : rows'[t] <= 1 /\ (rows[t] = 1 => rows'[t] = 1)
    <2>1. ASSUME NEW w \in Workers, CommitRow(w), NEW t \in Archiving
          PROVE  rows'[t] <= 1 /\ (rows[t] = 1 => rows'[t] = 1)
      BY <2>1, QueueAssumption DEF CommitRow, ArchiveInv, ArchivedOnce, TypeInv, TypeOK
    <2> QED
      BY <2>1, MemorySteps DEF memory, UpsertVector, ArchiveInv, ArchivedOnce
  <1>2. vectors \subseteq vectors'
    BY MemorySteps DEF memory, UpsertVector, CommitRow
  <1>3. ASSUME NEW w \in Workers, pc'[w] \in {"committed", "handled"},
               TaskOf(held'[w]) \in Archiving
        PROVE  /\ rows'[TaskOf(held'[w])] = 1
               /\ pc'[w] = "handled" => TaskOf(held'[w]) \in vectors'
    <2>1. CASE pc'[w] = pc[w]
      BY <1>1, <1>2, <1>3, <2>1, HandledSteps DEF ArchiveInv
    <2>2. CASE CommitRow(w) /\ pc'[w] = "committed"
      BY <1>1, <1>3, <2>2, HandledSteps, QueueAssumption
         DEF CommitRow, ArchiveInv, ArchivedOnce, TypeInv, TypeOK
    <2>3. CASE UpsertVector(w) /\ pc[w] = "committed"
      BY <1>1, <1>3, <2>3, HandledSteps DEF UpsertVector, ArchiveInv
    <2>4. CASE HandleReadOnly(w)
      BY <1>3, <2>4, HandledSteps DEF HandleReadOnly
    <2> QED
      BY <1>3, <2>1, <2>2, <2>3, <2>4, HandledSteps
  <1>4. ASSUME NEW t \in Archiving, status'[t] = "done"
        PROVE  rows'[t] = 1 /\ t \in vectors'
    <2>1. CASE status[t] = "done"
      BY <1>1, <1>2, <2>1 DEF ArchiveInv, ArchivedOnce
    <2>2. CASE status[t] # "done"
      <3>1. PICK w \in Workers : pc[w] = "handled" /\ HoldsLease(w) /\ CommitDone(w)
        BY <1>4, <2>2, HashSteps, EntryFacts, QueueAssumption
           DEF Enqueue, DropLease, TakeLease, CommitFailure, TypeInv, TypeOK, InHand, Claiming
      <3>2. TaskOf(held[w]) = t
        BY <1>4, <2>2, <3>1, QueueAssumption DEF CommitDone, TypeInv, TypeOK
      <3> QED
        BY <1>1, <1>2, <3>1, <3>2 DEF ArchiveInv
    <2> QED
      BY <2>1, <2>2
  <1> QED
    BY <1>1, <1>3, <1>4 DEF ArchiveInv, ArchivedOnce

-----------------------------------------------------------------------------
(* Only entries of accepted tasks circulate.                               *)

Accepted == {e \in Entry : status[TaskOf(e)] # "absent"}

AcceptedInv ==
    /\ fresh \cup pending \subseteq Accepted
    /\ \A w \in Workers : held[w] \in Accepted \cup {NoEntry} /\ recovered[w] \in Seq(Accepted)

LEMMA AcceptedGrows ==
    ASSUME TypeInv, [Next]_vars
    PROVE  Accepted \subseteq Accepted'
  <1> SUFFICES ASSUME NEW t \in Tasks, status[t] # "absent" PROVE status'[t] # "absent"
    BY EntryFacts DEF Accepted
  <1> USE DEF TypeInv, TypeOK
  <1>1. ASSUME NEW w \in Workers, pc[w] = "held" /\ TakeLease(TaskOf(held[w]))
        PROVE  status'[t] # "absent"
    BY <1>1, EntryFacts DEF TakeLease, InHand
  <1>2. ASSUME NEW w \in Workers, CommitDone(w) \/ CommitFailure(w) PROVE status'[t] # "absent"
    BY <1>2 DEF CommitDone, CommitFailure
  <1> QED
    BY <1>1, <1>2, HashSteps DEF Enqueue, DropLease

LEMMA AcceptedInvStep ==
    TypeInv /\ LeaseInv /\ ClaimInv /\ AcceptedInv /\ [Next]_vars => AcceptedInv'
  <1> SUFFICES ASSUME TypeInv, LeaseInv, ClaimInv, AcceptedInv, [Next]_vars PROVE AcceptedInv'
    OBVIOUS
  <1>0. Accepted \subseteq Accepted' /\ TypeInv'
    BY AcceptedGrows, TypeInvStep
  <1>1. Seq(Accepted) \subseteq Seq(Accepted')
    BY <1>0, SeqMonotonic
  <1> DEFINE WorkersKeep == UNCHANGED <<held, recovered>>
             StreamKeeps == fresh' \cup pending' \subseteq fresh \cup pending
  <1>2. ASSUME StreamKeeps PROVE (fresh \cup pending \subseteq Accepted)'
    BY <1>0, <1>2 DEF AcceptedInv
  <1>3. ASSUME WorkersKeep
        PROVE  \A w \in Workers : (held[w] \in Accepted \cup {NoEntry} /\ recovered[w] \in Seq(Accepted))'
    BY <1>0, <1>1, <1>3 DEF AcceptedInv
  <1>4. ASSUME NEW w \in Workers, EndIteration(w)
        PROVE  \A v \in Workers : (held[v] \in Accepted \cup {NoEntry} /\ recovered[v] \in Seq(Accepted))'
    BY <1>0, <1>1, <1>4 DEF AcceptedInv, EndIteration, TypeInv, TypeOK
  <1>5. ASSUME NEW t \in Tasks, Enqueue(t) PROVE AcceptedInv'
    <2>1. <<t, 0>> \in Accepted'
      BY <1>5, EntryFacts DEF Enqueue, Accepted, TypeInv, TypeOK
    <2> QED
      BY <1>0, <1>3, <1>5, <2>1 DEF Enqueue, AcceptedInv, worker
  <1>6. ASSUME NEW t \in Tasks, LeaseExpires(t) \/ Stall(t) PROVE AcceptedInv'
    BY <1>2, <1>3, <1>6 DEF LeaseExpires, Stall, DropLease, AcceptedInv, worker
  <1>7. ASSUME NEW e \in pending, BecomeIdle(e) PROVE AcceptedInv'
    BY <1>2, <1>3, <1>7 DEF BecomeIdle, AcceptedInv, worker
  <1>8. ASSUME NEW w \in Workers, RecoverStaleClaims(w) PROVE AcceptedInv'
    <2>1. PICK batch \in SetToSeqs(idle) :
            recovered' = [recovered EXCEPT ![w] = Accommodate(recovered[w], batch)]
      BY <1>8 DEF RecoverStaleClaims, AfterRecovery
    <2>2. Accommodate(recovered[w], batch) \in Seq(Accepted)
      <3>1. idle \in SUBSET Accepted /\ IsFiniteSet(idle)
        BY FS_Subset DEF AcceptedInv, TypeInv, TypeOK
      <3>2. recovered[w] \in Seq(Accepted) /\ Len(recovered[w]) <= RecoveredCap
        BY DEF AcceptedInv, TypeInv, TypeOK
      <3> QED
        BY <3>1, <3>2, AccommodateType
    <2>3. \A v \in Workers : recovered'[v] \in Seq(Accepted')
      BY <1>1, <2>1, <2>2 DEF AcceptedInv, TypeInv, TypeOK
    <2>4. StreamKeeps /\ held' = held
      BY <1>8 DEF RecoverStaleClaims, AfterRecovery
    <2> QED
      BY <1>0, <1>2, <2>3, <2>4 DEF AcceptedInv
  <1>9. ASSUME NEW w \in Workers, TakeRecovered(w) PROVE AcceptedInv'
    <2>1. Head(recovered[w]) \in Accepted /\ Tail(recovered[w]) \in Seq(Accepted)
      BY <1>9, HeadTailProperties DEF TakeRecovered, AcceptedInv
    <2>2. \A v \in Workers : held'[v] \in Accepted' \cup {NoEntry} /\ recovered'[v] \in Seq(Accepted')
      BY <1>0, <1>1, <1>9, <2>1 DEF TakeRecovered, AcceptedInv, TypeInv, TypeOK
    <2> QED
      BY <1>2, <1>9, <2>2 DEF TakeRecovered, AcceptedInv, redis
  <1>10. ASSUME NEW w \in Workers, ReadGroup(w) PROVE AcceptedInv'
    <2>1. PICK e \in fresh : /\ fresh' = fresh \ {e}
                             /\ pending' = pending \cup {e}
                             /\ held' = [held EXCEPT ![w] = e]
      BY <1>10 DEF ReadGroup
    <2>2. \A v \in Workers : held'[v] \in Accepted' \cup {NoEntry} /\ recovered'[v] \in Seq(Accepted')
      BY <1>0, <1>1, <1>10, <2>1 DEF ReadGroup, AcceptedInv, TypeInv, TypeOK
    <2> QED
      BY <1>2, <2>1, <2>2 DEF AcceptedInv
  <1>11. ASSUME NEW w \in Workers, NothingToRead(w) \/ ClaimBusy(w) \/ DeleteAcked(w)
         PROVE  AcceptedInv'
    BY <1>2, <1>4, <1>11 DEF NothingToRead, ClaimBusy, DeleteAcked, AcceptedInv, redis
  <1>12. ASSUME NEW w \in Workers, ClaimError(w) PROVE AcceptedInv'
    BY <1>2, <1>4, <1>12 DEF ClaimError, TakeLease, AcceptedInv, redis
  <1>13. ASSUME NEW w \in Workers,
                \/ Claim(w) \/ ClaimTerminal(w) \/ BeginHandler(w) \/ AttemptLimit(w)
                \/ CommitRow(w) \/ UpsertVector(w) \/ HandleReadOnly(w) \/ HandlerError(w)
                \/ Restart(w) \/ RecoveryFails(w)
         PROVE  StreamKeeps /\ WorkersKeep
    BY <1>13 DEF redis, TakeLease, Delete, Claim, ClaimTerminal, BeginHandler, AttemptLimit,
                 CommitRow, UpsertVector, HandleReadOnly, HandlerError, Restart, RecoveryFails
  <1>14. ASSUME NEW w \in Workers, Complete(w) PROVE AcceptedInv'
    <2>1. StreamKeeps
      BY <1>14 DEF Complete, CommitDone, Delete, redis
    <2> QED
      BY <1>2, <1>4, <1>14, <2>1 DEF Complete, AcceptedInv
  <1>15. ASSUME NEW w \in Workers, CompleteError(w) PROVE AcceptedInv'
    <2>1. StreamKeeps /\ WorkersKeep
      BY <1>15 DEF CompleteError, CommitDone, Delete, redis
    <2> QED
      BY <1>2, <1>3, <2>1 DEF AcceptedInv
  <1>16. ASSUME NEW w \in Workers, Fail(w) PROVE AcceptedInv'
    <2>1. CASE HoldsLease(w)
      <3>1. CommitFailure(w) /\ pc[w] \in Claiming
        BY <1>16, <2>1 DEF Fail, Claiming
      <3>2. <<TaskOf(held[w]), token[w]>> \in Accepted'
        BY <2>1, <3>1, HolderIsLatest, EntryFacts DEF CommitFailure, Accepted, TypeInv, TypeOK
      <3>3. (fresh \cup pending \subseteq Accepted)'
        BY <1>0, <3>1, <3>2 DEF CommitFailure, Delete, AcceptedInv
      <3> QED
        BY <1>4, <1>16, <3>3 DEF Fail, AcceptedInv
    <2>2. CASE ~HoldsLease(w)
      BY <1>2, <1>4, <1>16, <2>2 DEF Fail, AcceptedInv, redis
    <2> QED
      BY <2>1, <2>2
  <1>17. ASSUME NEW w \in Workers, Crash(w) PROVE AcceptedInv'
    <2>1. \A v \in Workers : held'[v] \in Accepted' \cup {NoEntry} /\ recovered'[v] \in Seq(Accepted')
      BY <1>0, <1>1, <1>17, EmptySeq DEF Crash, AcceptedInv, TypeInv, TypeOK
    <2> QED
      BY <1>2, <1>17, <2>1 DEF Crash, AcceptedInv, redis
  <1>18. ASSUME StreamKeeps, WorkersKeep PROVE AcceptedInv'
    BY <1>2, <1>3, <1>18 DEF AcceptedInv
  <1>19. ASSUME UNCHANGED vars PROVE StreamKeeps /\ WorkersKeep
    BY <1>19 DEF vars, redis, worker
  <1> HIDE DEF StreamKeeps, WorkersKeep
  <1> QED
    BY <1>5, <1>6, <1>7, <1>8, <1>9, <1>10, <1>11, <1>12, <1>13, <1>14, <1>15, <1>16, <1>17,
       <1>18, <1>19 DEF Next, WorkerStep, WorkerFault

-----------------------------------------------------------------------------
(* No accepted task is stranded.                                           *)

Deliverable(t) == \E e \in fresh \cup pending : TaskOf(e) = t

\* A step takes the last entry of a task away only if the task has ended.
LEMMA EntriesStay ==
    ASSUME TypeInv, LeaseInv, ClaimInv, [Next]_vars, NEW t \in Tasks,
           Deliverable(t), status'[t] \notin Terminal
    PROVE  Deliverable(t)'
  <1> USE DEF Deliverable
  <1>1. CASE fresh \cup pending \subseteq fresh' \cup pending'
    BY <1>1
  <1>2. ASSUME NEW w \in Workers, ClaimTerminal(w) PROVE Deliverable(t)'
    <2>1. TaskOf(held[w]) # t
      BY <1>2 DEF ClaimTerminal
    <2> QED
      BY <1>2, <2>1 DEF ClaimTerminal, Delete
  <1>3. ASSUME NEW w \in Workers, pc[w] = "handled", HoldsLease(w), CommitDone(w)
        PROVE  Deliverable(t)'
    <2>1. TaskOf(held[w]) # t
      BY <1>3, HolderIsLatest DEF CommitDone, Terminal, Claiming, TypeInv, TypeOK
    <2> QED
      BY <1>3, <2>1 DEF CommitDone, Delete
  <1>4. ASSUME NEW w \in Workers, pc[w] = "failing", HoldsLease(w), CommitFailure(w)
        PROVE  Deliverable(t)'
    <2>1. CASE TaskOf(held[w]) # t
      BY <1>4, <2>1 DEF CommitFailure, Delete
    <2>2. CASE TaskOf(held[w]) = t
      <3>1. token[w] < MaxAttempts
        BY <1>4, <2>2 DEF CommitFailure, Terminal, TypeInv, TypeOK
      <3>2. <<t, token[w]>> \in fresh' /\ TaskOf(<<t, token[w]>>) = t
        BY <1>4, <2>2, <3>1, EntryFacts DEF CommitFailure, TypeInv, TypeOK
      <3> QED
        BY <3>2
    <2> QED
      BY <2>1, <2>2
  <1>5. ASSUME NEW w \in Workers, WorkerStep(w) \/ WorkerFault(w),
               ~ClaimTerminal(w), ~CommitDone(w), ~CommitFailure(w)
        PROVE  fresh \cup pending \subseteq fresh' \cup pending'
    BY <1>5 DEF WorkerStep, WorkerFault, redis, TakeLease, RecoverStaleClaims, AfterRecovery, TakeRecovered, ReadGroup,
                NothingToRead, Claim, ClaimBusy, DeleteAcked, BeginHandler,
                AttemptLimit, CommitRow, UpsertVector, HandleReadOnly, HandlerError, Complete,
                Fail, Restart, RecoveryFails, ClaimError, CompleteError, Crash
  <1>6. ASSUME NEW w \in Workers, WorkerStep(w) \/ WorkerFault(w),
               ~(fresh \cup pending \subseteq fresh' \cup pending'), ~ClaimTerminal(w)
        PROVE  \/ pc[w] = "handled" /\ HoldsLease(w) /\ CommitDone(w)
               \/ pc[w] = "failing" /\ HoldsLease(w) /\ CommitFailure(w)
    BY <1>6 DEF WorkerStep, WorkerFault, redis, TakeLease, RecoverStaleClaims, AfterRecovery, TakeRecovered, ReadGroup,
                NothingToRead, Claim, ClaimBusy, DeleteAcked, BeginHandler,
                AttemptLimit, CommitRow, UpsertVector, HandleReadOnly, HandlerError, Complete,
                Fail, Restart, RecoveryFails, ClaimError, CompleteError, Crash
  <1>7. ASSUME NEW u \in Tasks, Enqueue(u) \/ LeaseExpires(u) \/ Stall(u)
        PROVE  fresh \cup pending \subseteq fresh' \cup pending'
    BY <1>7 DEF Enqueue, LeaseExpires, Stall, DropLease
  <1>8. ASSUME NEW e \in pending, BecomeIdle(e)
        PROVE  fresh \cup pending \subseteq fresh' \cup pending'
    BY <1>8 DEF BecomeIdle
  <1>9. ASSUME UNCHANGED vars PROVE fresh \cup pending \subseteq fresh' \cup pending'
    BY <1>9 DEF vars, redis
  <1> QED
    BY <1>1, <1>2, <1>3, <1>4, <1>6, <1>7, <1>8, <1>9 DEF Next

LEMMA HeldIsLive ==
    ASSUME TypeInv, AcceptedInv, NEW w \in Workers, pc[w] = "held", TakeLease(TaskOf(held[w]))
    PROVE  TaskOf(held[w]) \in Tasks /\ status[TaskOf(held[w])] \in {"queued", "running"}
  <1>1. held[w] \in Accepted
    BY EntryFacts DEF TypeInv, InHand, AcceptedInv
  <1>2. TaskOf(held[w]) \in Tasks /\ status[TaskOf(held[w])] # "absent"
    BY <1>1, EntryFacts DEF Accepted
  <1> QED
    BY <1>2 DEF TakeLease, Terminal, TypeInv, TypeOK

LEMMA NoTaskLostStep ==
    TypeInv /\ LeaseInv /\ ClaimInv /\ AcceptedInv /\ NoTaskLost /\ [Next]_vars => NoTaskLost'
  <1> SUFFICES ASSUME TypeInv, LeaseInv, ClaimInv, AcceptedInv, NoTaskLost, [Next]_vars,
                      NEW t \in Tasks, status'[t] \in {"queued", "running"}
               PROVE  Deliverable(t)'
    BY DEF NoTaskLost, Deliverable
  <1>1. CASE status[t] \in {"queued", "running"}
    BY <1>1, EntriesStay DEF NoTaskLost, Deliverable, Terminal
  <1>2. CASE status[t] \notin {"queued", "running"}
    <2>1. PICK u \in Tasks : Enqueue(u)
      <3>1. ~\E w \in Workers : pc[w] = "handled" /\ HoldsLease(w) /\ CommitDone(w)
        BY <1>2, HolderIsLatest DEF CommitDone, Claiming, TypeInv, TypeOK
      <3>2. ~\E w \in Workers : pc[w] = "failing" /\ HoldsLease(w) /\ CommitFailure(w)
        BY <1>2, HolderIsLatest DEF CommitFailure, Claiming, TypeInv, TypeOK
      <3>3. ASSUME NEW w \in Workers, pc[w] = "held", TakeLease(TaskOf(held[w])) PROVE FALSE
        <4>1. status[TaskOf(held[w])] \in {"queued", "running"}
          BY <3>3, HeldIsLive
        <4> QED
          BY <1>2, <3>3, <4>1 DEF TakeLease, TypeInv, TypeOK
      <3> QED
        BY <1>2, <3>1, <3>2, <3>3, HashSteps DEF DropLease
    <2>2. u = t
      BY <1>2, <2>1 DEF Enqueue, TypeInv, TypeOK
    <2> QED
      BY <2>1, <2>2, EntryFacts DEF Enqueue, Deliverable
  <1> QED
    BY <1>1, <1>2

-----------------------------------------------------------------------------
(* The inductive invariant and what follows from it.                       *)

IInv ==
    /\ TypeInv
    /\ LeaseInv
    /\ ClaimInv
    /\ AcceptedInv
    /\ StartedInv
    /\ DeadLetteredOnce
    /\ ArchiveInv
    /\ NoTaskLost

LEMMA InitIInv == Init => IInv
  <1> SUFFICES ASSUME Init PROVE IInv
    OBVIOUS
  <1>1. TypeInv
    BY InitTypeInv
  <1>2. LeaseInv /\ ClaimInv /\ DeadLetteredOnce /\ NoTaskLost
    BY DEF Init, LeaseInv, ClaimInv, Claiming, DeadLetteredOnce, NoTaskLost
  <1>3. StartedInv /\ ArchiveInv
    BY QueueAssumption
       DEF Init, StartedInv, BoundedExecutions, ArchiveInv, ArchivedOnce
  <1>4. AcceptedInv
    BY EmptySeq DEF Init, AcceptedInv
  <1> QED
    BY <1>1, <1>2, <1>3, <1>4 DEF IInv

LEMMA IInvStep == IInv /\ [Next]_vars => IInv'
  BY TypeInvStep, LeaseInvStep, ClaimInvStep, AcceptedInvStep, StartedInvStep,
     DeadLetteredOnceStep, ArchiveInvStep, NoTaskLostStep DEF IInv

LEMMA Invariance == Spec => []IInv
  BY InitIInv, IInvStep, PTL DEF Spec

\* An accepted task that has not ended has a stream entry a worker can take,
\* in every interleaving of claims, failures, recoveries and crashes.
THEOREM NoTaskIsLost == Spec => []NoTaskLost
  BY Invariance, PTL DEF IInv

\* An attempt is handled at most once and only within the attempt budget.
THEOREM ExecutionsAreBounded == Spec => []BoundedExecutions
  BY Invariance, PTL DEF IInv, StartedInv

\* The dead-letter stream has exactly the failed tasks, once each.
THEOREM DeadLettersAreExact == Spec => []DeadLetteredOnce
  BY Invariance, PTL DEF IInv

\* One memory row per task, present with its vector when the task is done.
THEOREM ArchivingIsExactlyOnce == Spec => []ArchivedOnce
  BY Invariance, PTL DEF IInv, ArchiveInv

\* The reported outcome of a task never changes again.
THEOREM OutcomesAreFinal == Spec => OutcomeIsFinal
  <1>1. ASSUME IInv, [Next]_vars
        PROVE  [\A t \in Tasks : status[t] \in Terminal => status'[t] = status[t]]_status
    <2> SUFFICES ASSUME NEW t \in Tasks, status[t] \in Terminal PROVE status'[t] = status[t]
      OBVIOUS
    <2> USE DEF TypeInv, TypeOK, Terminal
    <2>1. ASSUME NEW w \in Workers, pc[w] = "held" /\ TakeLease(TaskOf(held[w]))
          PROVE  status'[t] = status[t]
      BY <1>1, <2>1, EntryFacts DEF IInv, TakeLease, InHand
    <2>2. ASSUME NEW w \in Workers, pc[w] \in {"handled", "failing"}, HoldsLease(w),
                 CommitDone(w) \/ CommitFailure(w)
          PROVE  status'[t] = status[t]
      BY <1>1, <2>2, HolderIsLatest DEF IInv, CommitDone, CommitFailure, Claiming
    <2> QED
      BY <1>1, <2>1, <2>2, HashSteps DEF IInv, Enqueue, DropLease
  <1> QED
    BY <1>1, Invariance, PTL DEF Spec, OutcomeIsFinal

\* A running task is ended or given back only by the worker of its latest
\* attempt: a consumer whose lease was taken over changes nothing.
THEOREM LatestAttemptCommits == Spec => OnlyLatestAttemptCommits
  <1>1. ASSUME IInv, [Next]_vars
        PROVE  [\A t \in Tasks : status[t] = "running" /\ status'[t] # "running" =>
                  \E w \in Workers :
                      /\ pc[w] \in {"handled", "failing"}
                      /\ TaskOf(held[w]) = t
                      /\ token[w] = attempts[t]]_status
    <2> SUFFICES ASSUME NEW t \in Tasks, status[t] = "running", status'[t] # "running"
                 PROVE  \E w \in Workers :
                            /\ pc[w] \in {"handled", "failing"}
                            /\ TaskOf(held[w]) = t
                            /\ token[w] = attempts[t]
      OBVIOUS
    <2> USE DEF TypeInv, TypeOK
    <2>1. PICK w \in Workers : /\ pc[w] \in {"handled", "failing"} /\ HoldsLease(w)
                               /\ CommitDone(w) \/ CommitFailure(w)
      BY <1>1, HashSteps, EntryFacts DEF IInv, Enqueue, DropLease, TakeLease, InHand
    <2>2. TaskOf(held[w]) = t
      BY <1>1, <2>1 DEF IInv, CommitDone, CommitFailure
    <2> QED
      BY <1>1, <2>1, <2>2, HolderIsLatest DEF IInv, Claiming
  <1> QED
    BY <1>1, Invariance, PTL DEF Spec, OnlyLatestAttemptCommits

-----------------------------------------------------------------------------
(* Refinement.                                                             *)

LEMMA InitRefines == Init => Lifecycle!Init
  BY QueueAssumption DEF Init, Lifecycle!Init

LEMMA StepRefines == IInv /\ IInv' /\ [Next]_vars => [Lifecycle!Next]_(Lifecycle!vars)
  <1> DEFINE archived == {t \in Archiving : rows[t] > 0}
  <1> SUFFICES ASSUME IInv, IInv', [Next]_vars
               PROVE  Lifecycle!Next \/ UNCHANGED <<status, attempts, archived>>
    BY DEF Lifecycle!vars
  <1> USE DEF TypeInv, TypeOK
  <1>1. ASSUME NEW w \in Workers, CommitRow(w)
        PROVE  Lifecycle!Next \/ UNCHANGED <<status, attempts, archived>>
    <2>1. PICK t \in Tasks :
            /\ t = TaskOf(held[w]) /\ t \in Archiving
            /\ attempts[t] > 0 /\ UNCHANGED <<status, attempts>>
      BY <1>1, QueueAssumption DEF CommitRow, redis, IInv, ClaimInv, Claiming
    <2>2. CASE rows[t] > 0
      BY <1>1, <2>1, <2>2 DEF CommitRow
    <2>3. CASE ~(rows[t] > 0)
      <3>1. archived' = archived \cup {t} /\ t \notin archived
        BY <1>1, <2>1, <2>3, QueueAssumption DEF CommitRow, IInv
      <3>2. Lifecycle!Archive(t)
        BY <2>1, <3>1 DEF Lifecycle!Archive
      <3> QED
        BY <3>2 DEF Lifecycle!Next
    <2> QED
      BY <2>2, <2>3
  <1>2. CASE UNCHANGED rows
    <2> DEFINE Goal == Lifecycle!Next \/ UNCHANGED <<status, attempts, archived>>
    <2>0. archived' = archived
      BY <1>2
    <2>1. CASE UNCHANGED <<status, attempts, lease, dead>>
      BY <2>0, <2>1
    <2>2. ASSUME NEW t \in Tasks, Enqueue(t) PROVE Goal
      BY <2>0, <2>2 DEF Enqueue, Lifecycle!Accept, Lifecycle!Next
    <2>3. ASSUME NEW t \in Tasks, DropLease(t) PROVE Goal
      BY <2>0, <2>3 DEF DropLease
    <2>4. ASSUME NEW w \in Workers, pc[w] = "held", TakeLease(TaskOf(held[w])) PROVE Goal
      <3>1. TaskOf(held[w]) \in Tasks /\ status[TaskOf(held[w])] \in {"queued", "running"}
        BY <2>4, HeldIsLive DEF IInv
      <3>2. Lifecycle!Attempt(TaskOf(held[w]))
        BY <2>0, <2>4, <3>1 DEF TakeLease, Lifecycle!Attempt
      <3> QED
        BY <3>1, <3>2 DEF Lifecycle!Next
    <2>5. ASSUME NEW w \in Workers, pc[w] = "handled", HoldsLease(w), CommitDone(w) PROVE Goal
      <3>1. TaskOf(held[w]) \in Tasks /\ status[TaskOf(held[w])] = "running"
        BY <2>5, HolderIsLatest DEF IInv, Claiming
      <3>2. TaskOf(held[w]) \in Archiving => TaskOf(held[w]) \in archived
        BY <2>5 DEF IInv, ArchiveInv
      <3>3. Lifecycle!Succeed(TaskOf(held[w]))
        BY <2>0, <2>5, <3>1, <3>2 DEF CommitDone, Lifecycle!Succeed
      <3> QED
        BY <3>1, <3>3 DEF Lifecycle!Next
    <2>6. ASSUME NEW w \in Workers, pc[w] = "failing", HoldsLease(w), CommitFailure(w) PROVE Goal
      <3>1. /\ TaskOf(held[w]) \in Tasks /\ status[TaskOf(held[w])] = "running"
            /\ token[w] = attempts[TaskOf(held[w])]
        BY <2>6, HolderIsLatest DEF IInv, Claiming
      <3>2. CASE token[w] < MaxAttempts
        <4>1. Lifecycle!Requeue(TaskOf(held[w]))
          BY <2>0, <2>6, <3>1, <3>2 DEF CommitFailure, Lifecycle!Requeue
        <4> QED
          BY <3>1, <4>1 DEF Lifecycle!Next
      <3>3. CASE ~(token[w] < MaxAttempts)
        <4>1. attempts[TaskOf(held[w])] >= MaxAttempts
          BY <3>1, <3>3, QueueAssumption DEF IInv
        <4>2. Lifecycle!GiveUp(TaskOf(held[w]))
          BY <2>0, <2>6, <3>1, <3>3, <4>1 DEF CommitFailure, Lifecycle!GiveUp
        <4> QED
          BY <3>1, <4>2 DEF Lifecycle!Next
      <3> QED
        BY <3>2, <3>3
    <2> QED
      BY <2>1, <2>2, <2>3, <2>4, <2>5, <2>6, HashSteps
  <1> QED
    BY <1>1, <1>2, MemorySteps DEF memory, UpsertVector, IInv

\* The queue, with its leases, streams, recovery and crashes, implements the
\* task life cycle its clients rely on.
THEOREM Refinement == Spec => ImplementsLifecycle
  BY InitRefines, StepRefines, Invariance, PTL DEF Spec, Lifecycle!Spec, ImplementsLifecycle

-----------------------------------------------------------------------------
(* How much capacity is lost between the XACK and the XDEL of claim.       *)

(* Acknowledged entries no worker is about to delete: XLEN counts them for *)
(* ever, and no reclaim sees them.                                         *)
Leaked == {e \in acked : \A w \in Workers : pc[w] = "acking" => held[w] # e}

LeakInv == IsFiniteSet(Leaked) /\ Cardinality(Leaked) <= faults

\* A step that takes no entry from a worker deleting it leaks none.
LEMMA NothingLeaks ==
    ASSUME LeakInv, faults \in Nat, faults' \in Nat, faults <= faults',
           Leaked' \subseteq Leaked
    PROVE  LeakInv'
  <1>1. IsFiniteSet(Leaked') /\ Cardinality(Leaked') <= Cardinality(Leaked)
    BY FS_Subset DEF LeakInv
  <1>2. Cardinality(Leaked) \in Nat /\ Cardinality(Leaked') \in Nat
    BY <1>1, FS_CardinalityType DEF LeakInv
  <1> QED
    BY <1>1, <1>2 DEF LeakInv

\* A fault takes at most the one entry of the worker it befalls.
LEMMA OneLeaks ==
    ASSUME LeakInv, faults \in Nat, faults' = faults + 1, NEW e,
           Leaked' \subseteq Leaked \cup {e}
    PROVE  LeakInv'
  <1>1. /\ IsFiniteSet(Leaked \cup {e})
        /\ Cardinality(Leaked \cup {e}) <= Cardinality(Leaked) + 1
    <2>1. Cardinality(Leaked) \in Nat
      BY FS_CardinalityType DEF LeakInv
    <2>2. CASE e \in Leaked
      <3>1. Leaked \cup {e} = Leaked
        BY <2>2
      <3> QED
        BY <2>1, <3>1 DEF LeakInv
    <2>3. CASE e \notin Leaked
      <3>1. /\ IsFiniteSet(Leaked \cup {e})
            /\ Cardinality(Leaked \cup {e}) = Cardinality(Leaked) + 1
        BY <2>3, FS_AddElement DEF LeakInv
      <3> QED
        BY <2>1, <3>1
    <2> QED
      BY <2>2, <2>3
  <1>2. IsFiniteSet(Leaked') /\ Cardinality(Leaked') <= Cardinality(Leaked \cup {e})
    BY <1>1, FS_Subset
  <1>3. /\ Cardinality(Leaked) \in Nat /\ Cardinality(Leaked') \in Nat
        /\ Cardinality(Leaked \cup {e}) \in Nat
    BY <1>1, <1>2, FS_CardinalityType DEF LeakInv
  <1> QED
    BY <1>1, <1>2, <1>3 DEF LeakInv

\* The steps of a worker that is not deleting an entry.
LEMMA OthersLeakNothing ==
    ASSUME TypeOK, NEW w \in Workers, pc[w] # "acking", acked' = acked,
           \A v \in Workers \ {w} : pc'[v] = pc[v] /\ held'[v] = held[v]
    PROVE  Leaked' \subseteq Leaked
  BY DEF Leaked, TypeOK

LEMMA LeakInvStep == TypeOK /\ LeakInv /\ [Next]_vars => LeakInv'
  <1> SUFFICES ASSUME TypeOK, LeakInv, [Next]_vars PROVE LeakInv'
    OBVIOUS
  <1>f. faults \in Nat /\ pc \in [Workers -> PCs]
        /\ held \in [Workers -> Entry \cup {NoEntry}]
    BY DEF TypeOK
  <1>1. ASSUME UNCHANGED <<acked, pc, held>>, faults' \in {faults, faults + 1}
        PROVE  LeakInv'
    <2>1. Leaked' \subseteq Leaked
      BY <1>1 DEF Leaked
    <2> QED
      BY <1>f, <1>1, <2>1, NothingLeaks
  <1>2. ASSUME NEW t \in Tasks, Enqueue(t) \/ LeaseExpires(t) \/ Stall(t) PROVE LeakInv'
    BY <1>1, <1>2 DEF Enqueue, LeaseExpires, Stall, DropLease, Fault, worker
  <1>3. ASSUME NEW e \in pending, BecomeIdle(e) PROVE LeakInv'
    BY <1>1, <1>3 DEF BecomeIdle, worker
  <1>4. ASSUME NEW w \in Workers, DeleteAcked(w) PROVE LeakInv'
    <2>1. /\ acked' = acked \ {held[w]} /\ faults' = faults
          /\ \A v \in Workers \ {w} : pc'[v] = pc[v] /\ held'[v] = held[v]
      BY <1>f, <1>4 DEF DeleteAcked, EndIteration, GoTo
    <2>2. Leaked' \subseteq Leaked
      BY <2>1 DEF Leaked
    <2> QED
      BY <1>f, <2>1, <2>2, NothingLeaks
  <1>5. ASSUME NEW w \in Workers, ClaimTerminal(w) PROVE LeakInv'
    <2>1. /\ acked' = acked \cup ({held[w]} \cap pending) /\ faults' = faults
          /\ pc[w] = "held" /\ pc'[w] = "acking" /\ held' = held
          /\ \A v \in Workers \ {w} : pc'[v] = pc[v]
      BY <1>f, <1>5 DEF ClaimTerminal, GoTo
    <2>2. Leaked' \subseteq Leaked
      BY <2>1 DEF Leaked
    <2> QED
      BY <1>f, <2>1, <2>2, NothingLeaks
  <1>6. ASSUME NEW w \in Workers, ClaimError(w) \/ Crash(w) PROVE LeakInv'
    <2>1. /\ acked' = acked /\ faults' = faults + 1
          /\ \A v \in Workers \ {w} : pc'[v] = pc[v] /\ held'[v] = held[v]
      BY <1>f, <1>6 DEF ClaimError, Crash, Fault, TakeLease, EndIteration, GoTo, redis
    <2>2. Leaked' \subseteq Leaked \cup {held[w]}
      BY <2>1 DEF Leaked
    <2> QED
      BY <1>f, <2>1, <2>2, OneLeaks
  <1>7. ASSUME NEW w \in Workers, WorkerStep(w) \/ RecoveryFails(w) \/ CompleteError(w),
               ~ClaimTerminal(w), ~DeleteAcked(w)
        PROVE  LeakInv'
    <2>1. pc[w] # "acking" /\ acked' = acked /\ faults' \in {faults, faults + 1}
      BY <1>7 DEF WorkerStep, RecoveryFails, CompleteError, RecoverStaleClaims, TakeRecovered,
         ReadGroup, NothingToRead, Claim, TakeLease, ClaimBusy, BeginHandler, AttemptLimit,
         CommitRow, UpsertVector, HandleReadOnly, HandlerError, Complete, CommitDone, Fail,
         CommitFailure, Restart, Fault, redis
    <2>2. \A v \in Workers \ {w} : pc'[v] = pc[v] /\ held'[v] = held[v]
      BY <1>f, <1>7 DEF WorkerStep, RecoveryFails, CompleteError, RecoverStaleClaims,
         TakeRecovered, ReadGroup, NothingToRead, Claim, ClaimBusy, BeginHandler,
         AttemptLimit, CommitRow, UpsertVector, HandleReadOnly, HandlerError, Complete, Fail,
         Restart, AfterRecovery, EndIteration, GoTo
    <2> QED
      BY <1>f, <2>1, <2>2, OthersLeakNothing, NothingLeaks
  <1>8. CASE UNCHANGED vars
    BY <1>1, <1>8 DEF vars, redis, worker
  <1> QED
    BY <1>2, <1>3, <1>4, <1>5, <1>6, <1>7, <1>8 DEF Next, WorkerFault

\* Every entry that takes up capacity for good is paid for by a crash or a
\* lost reply of a worker between its XACK and its XDEL.
THEOREM LeaksAreFaults == Spec => []LeakInv
  <1>1. Init => LeakInv
    <2> SUFFICES ASSUME Init PROVE LeakInv
      OBVIOUS
    <2>1. Leaked = {}
      BY DEF Init, Leaked
    <2> QED
      BY <2>1, FS_EmptySet DEF Init, LeakInv
  <1> QED
    BY <1>1, LeakInvStep, TypeCorrect, PTL DEF Spec

\* task_queue.py:30 holds as long as fewer faults have happened than the queue
\* has capacity: a full stream then has an entry to be taken or deleted.
THEOREM CapacityOutlastsFaults ==
    Spec => [](faults < Capacity => CapacityIsReclaimable)
  <1>1. ASSUME TypeOK, LeakInv, faults < Capacity
        PROVE  CapacityIsReclaimable
    <2> SUFFICES ASSUME fresh \cup pending = {},
                        \A w \in Workers : ~(pc[w] = "acking" /\ held[w] \in acked)
                 PROVE  ~(StreamLength >= Capacity)
      BY DEF CapacityIsReclaimable
    <2>1. Leaked = acked
      BY DEF Leaked
    <2>2. fresh \cup pending \cup acked = Leaked
      BY <2>1
    <2>3. StreamLength = Cardinality(Leaked)
      BY <2>2 DEF StreamLength
    <2>4. Cardinality(Leaked) \in Nat
      BY <1>1, FS_CardinalityType DEF LeakInv
    <2>5. ~(Cardinality(Leaked) >= Capacity)
      BY <1>1, <2>4, QueueAssumption DEF TypeOK, LeakInv
    <2> QED
      BY <2>3, <2>5
  <1> QED
    BY <1>1, LeaksAreFaults, TypeCorrect, PTL
=============================================================================
