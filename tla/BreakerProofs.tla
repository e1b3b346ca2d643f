--------------------------- MODULE BreakerProofs ---------------------------
(***************************************************************************)
(* Type correctness of Breaker, that its probe permit is never lost, and   *)
(* how many calls at once a half-open breaker lets through, for any number *)
(* of handlers, threshold and cooldown.                                    *)
(***************************************************************************)
EXTENDS Breaker, FiniteSetTheorems, TLAPS

LEMMA DeadlineFacts ==
    /\ 0 \in Deadlines /\ Cooldown + 1 \in Deadlines
    /\ \A d \in Deadlines : Age(d) \in Deadlines
  BY BreakerAssumption DEF Deadlines, Age

LEMMA BadFacts ==
    /\ 0 \in 0..MaxBad
    /\ \A n \in 0..MaxBad : n < MaxBad => n + 1 \in 0..MaxBad
  BY BreakerAssumption

LEMMA GoToType ==
    ASSUME pc \in [Handlers -> PCs], NEW h \in Handlers, NEW label \in PCs, GoTo(h, label)
    PROVE  pc' \in [Handlers -> PCs]
  BY DEF GoTo

\* Type correctness.
THEOREM TypeCorrect == Spec => []TypeOK
  <1>1. Init => TypeOK
    <2> SUFFICES ASSUME Init PROVE TypeOK
      OBVIOUS
    <2>1. failures \in Nat /\ opened \in Deadlines /\ bad \in 0..MaxBad
      BY DeadlineFacts, BadFacts DEF Init
    <2>2. probe \in BOOLEAN /\ asProbe \subseteq Handlers
      BY DEF Init
    <2>3. pc \in [Handlers -> PCs] /\ seen \in [Handlers -> Deadlines]
      BY DeadlineFacts DEF Init, PCs
    <2> QED
      BY <2>1, <2>2, <2>3 DEF TypeOK
  <1>2. TypeOK /\ [Next]_vars => TypeOK'
    <2> SUFFICES ASSUME TypeOK, [Next]_vars PROVE TypeOK'
      OBVIOUS
    <2>1. ASSUME NEW h \in Handlers, Load(h) PROVE TypeOK'
      BY <2>1, GoToType DEF Load, TypeOK, PCs
    <2>2. ASSUME NEW h \in Handlers, AdmitClosed(h) PROVE TypeOK'
      BY <2>2, GoToType DEF AdmitClosed, TypeOK, PCs
    <2>3. ASSUME NEW h \in Handlers, AdmitProbe(h) PROVE TypeOK'
      BY <2>3, GoToType DEF AdmitProbe, TypeOK, PCs
    <2>4. ASSUME NEW h \in Handlers, Refuse(h) PROVE TypeOK'
      BY <2>4, GoToType, DeadlineFacts DEF Refuse, TypeOK, PCs
    <2>5. ASSUME NEW h \in Handlers, Succeed(h) PROVE TypeOK'
      BY <2>5, GoToType DEF Succeed, TypeOK, PCs
    <2>6. ASSUME NEW h \in Handlers, Close(h) PROVE TypeOK'
      BY <2>6, GoToType, DeadlineFacts DEF Close, TypeOK, PCs
    <2>7. ASSUME NEW h \in Handlers, Fail(h) PROVE TypeOK'
      <3>1. failures' \in Nat /\ bad' \in 0..MaxBad
        BY <2>7, BadFacts DEF Fail, TypeOK
      <3>2. pc' \in [Handlers -> PCs]
        BY <2>7, GoToType DEF Fail, TypeOK, PCs
      <3> QED
        BY <2>7, <3>1, <3>2 DEF Fail, TypeOK
    <2>8. ASSUME NEW h \in Handlers, Trip(h) PROVE TypeOK'
      BY <2>8, GoToType, DeadlineFacts DEF Trip, TypeOK, PCs
    <2>9. ASSUME NEW h \in Handlers, Cancel(h) PROVE TypeOK'
      BY <2>9, GoToType, BadFacts DEF Cancel, TypeOK, PCs
    <2>10. ASSUME NEW h \in Handlers, Clear(h) PROVE TypeOK'
      BY <2>10, GoToType, DeadlineFacts DEF Clear, TypeOK, PCs
    <2>11. CASE Tick
      BY <2>11, DeadlineFacts DEF Tick, TypeOK
    <2>12. CASE UNCHANGED vars
      BY <2>12 DEF vars, TypeOK
    <2> QED
      BY <2>1, <2>2, <2>3, <2>4, <2>5, <2>6, <2>7, <2>8, <2>9, <2>10, <2>11, <2>12
         DEF Next, Handle
  <1> QED
    BY <1>1, <1>2, PTL DEF Spec

\* The probe permit is always held by a call that has yet to return it: the
\* step that takes it starts such a call, and a call's last step gives it back.
THEOREM ProbeIsAlwaysHeld == Spec => []ProbeIsHeld
  <1>1. Init => ProbeIsHeld
    BY DEF Init, ProbeIsHeld
  <1>2. TypeOK /\ ProbeIsHeld /\ [Next]_vars => ProbeIsHeld'
    <2> SUFFICES ASSUME TypeOK, ProbeIsHeld, [Next]_vars, probe'
                 PROVE  \E h \in Handlers : InCall(h)'
      BY DEF ProbeIsHeld
    <2>1. ASSUME NEW h \in Handlers, AdmitProbe(h) PROVE InCall(h)'
      BY <2>1 DEF AdmitProbe, GoTo, InCall, TypeOK
    <2>2. ASSUME NEW h \in Handlers,
                 \/ Load(h) \/ AdmitClosed(h) \/ Refuse(h)
                 \/ Succeed(h) \/ Close(h) \/ Fail(h) \/ Trip(h) \/ Cancel(h)
          PROVE  \E i \in Handlers : InCall(i)'
      <3>1. probe
        BY <2>2 DEF Load, AdmitClosed, Refuse, Succeed, Close, Fail, Trip, Cancel
      <3>2. PICK i \in Handlers : InCall(i)
        BY <3>1 DEF ProbeIsHeld
      <3>3. CASE i # h
        BY <2>2, <3>2, <3>3
           DEF Load, AdmitClosed, Refuse, Succeed, Close, Fail, Trip, Cancel, GoTo, InCall, TypeOK
      <3>4. CASE i = h
        BY <2>2, <3>2, <3>4
           DEF Load, AdmitClosed, Refuse, Succeed, Close, Fail, Trip, Cancel, GoTo, InCall, TypeOK
      <3> QED
        BY <3>3, <3>4
    <2>3. ASSUME NEW h \in Handlers, Clear(h) PROVE FALSE
      BY <2>3 DEF Clear
    <2>4. CASE Tick \/ UNCHANGED vars
      BY <2>4 DEF Tick, vars, ProbeIsHeld, InCall
    <2> QED
      BY <2>1, <2>2, <2>3, <2>4 DEF Next, Handle
  <1> QED
    BY <1>1, <1>2, TypeCorrect, PTL DEF Spec

-----------------------------------------------------------------------------
(* How many calls a half-open breaker lets through.                        *)

\* The calls under way, those about to begin because they read that the
\* breaker was closed among them.
Live == {h \in Handlers : InCall(h) \/ (pc[h] = "loaded" /\ seen[h] = 0)}

\* The calls under way, and the probe that may still be admitted beside them.
Overlap == Cardinality(Live) + (IF probe THEN 0 ELSE 1)

\* Only a call that reads a closed breaker, or takes the probe, joins them,
\* and only one that gives the probe back leaves them.
LEMMA LiveChanges ==
    ASSUME TypeOK, [Next]_vars
    PROVE  \/ /\ opened = 0
              /\ probe' = probe
              /\ \E h \in Handlers : Live' = Live \cup {h}
           \/ /\ ~probe /\ probe'
              /\ \E h \in Handlers : Live' = Live \cup {h}
           \/ /\ ~probe'
              /\ \E h \in Live : Live' = Live \ {h}
           \/ probe' = probe /\ Live' = Live
  <1> USE DEF TypeOK, Live, InCall, GoTo
  <1>1. ASSUME NEW h \in Handlers, Load(h), opened = 0
        PROVE  probe' = probe /\ Live' = Live \cup {h}
    BY <1>1 DEF Load
  <1>2. ASSUME NEW h \in Handlers, Load(h), opened # 0
        PROVE  probe' = probe /\ Live' = Live
    BY <1>2 DEF Load
  <1>3. ASSUME NEW h \in Handlers, AdmitProbe(h)
        PROVE  ~probe /\ probe' /\ Live' = Live \cup {h}
    BY <1>3 DEF AdmitProbe
  <1>4. ASSUME NEW h \in Handlers, Clear(h)
        PROVE  ~probe' /\ h \in Live /\ Live' = Live \ {h}
    BY <1>4 DEF Clear
  <1>5. ASSUME NEW h \in Handlers, AdmitClosed(h) \/ Refuse(h)
        PROVE  probe' = probe /\ Live' = Live
    BY <1>5 DEF AdmitClosed, Refuse, Elapsed
  <1>6. ASSUME NEW h \in Handlers,
               Succeed(h) \/ Close(h) \/ Fail(h) \/ Trip(h) \/ Cancel(h)
        PROVE  probe' = probe /\ Live' = Live
    BY <1>6 DEF Succeed, Close, Fail, Trip, Cancel
  <1>7. CASE Tick
    <2>1. \A d \in Deadlines : d = 0 <=> Age(d) = 0
      BY BreakerAssumption DEF Deadlines, Age
    <2>2. probe' = probe /\ Live' = Live
      BY <1>7, <2>1 DEF Tick
    <2> QED
      BY <2>2
  <1>8. CASE UNCHANGED vars
    BY <1>8 DEF vars
  <1> QED
    BY <1>1, <1>2, <1>3, <1>4, <1>5, <1>6, <1>7, <1>8 DEF Next, Handle

\* However many handlers there are, finitely many are under way.
LEMMA LiveIsFinite == Spec => []IsFiniteSet(Live)
  <1>1. Init => IsFiniteSet(Live)
    <2> SUFFICES ASSUME Init PROVE Live = {}
      BY FS_EmptySet
    <2> QED
      BY DEF Init, Live, InCall
  <1>2. TypeOK /\ IsFiniteSet(Live) /\ [Next]_vars => IsFiniteSet(Live)'
    BY LiveChanges, FS_AddElement, FS_RemoveElement
  <1> QED
    BY <1>1, <1>2, TypeCorrect, PTL DEF Spec

\* What holds of a half-open breaker beside main_test.go:162's single probe: as
\* long as it stays open, the calls under way and the probe still to be admitted
\* never become more.  A breaker that opened beside n stragglers, admitted while
\* it was closed, has at most n + 1 probes at any time, and one if it had none.
THEOREM StragglersBoundProbes ==
    /\ Spec => [][opened # 0 /\ opened' # 0 => Overlap' <= Overlap]_vars
    /\ Spec => [](Cardinality(ProbesInCall) <= Overlap)
  <1>1. ASSUME TypeOK, IsFiniteSet(Live), [Next]_vars, opened # 0
        PROVE  Overlap' <= Overlap
    <2>1. Cardinality(Live) \in Nat
      BY <1>1, FS_CardinalityType
    <2>2. ASSUME NEW h \in Handlers, Live' = Live \cup {h}, ~probe, probe'
          PROVE  Overlap' <= Overlap
      <3>1. \/ Cardinality(Live') = Cardinality(Live)
            \/ Cardinality(Live') = Cardinality(Live) + 1
        BY <1>1, <2>2, FS_AddElement
      <3> QED
        BY <2>1, <2>2, <3>1 DEF Overlap
    <2>3. ASSUME NEW h \in Live, Live' = Live \ {h}, ~probe'
          PROVE  Overlap' <= Overlap
      <3>1. Cardinality(Live') = Cardinality(Live) - 1
        BY <1>1, <2>3, FS_RemoveElement
      <3> QED
        BY <2>1, <2>3, <3>1 DEF Overlap
    <2>4. ASSUME probe' = probe, Live' = Live
          PROVE  Overlap' <= Overlap
      BY <2>1, <2>4 DEF Overlap
    <2> QED
      BY <1>1, <2>2, <2>3, <2>4, LiveChanges
  <1>2. ASSUME TypeOK, IsFiniteSet(Live)
        PROVE  Cardinality(ProbesInCall) <= Overlap
    <2>1. ProbesInCall \subseteq Live
      BY <1>2 DEF TypeOK, ProbesInCall, Live, InCall
    <2>2. Cardinality(ProbesInCall) <= Cardinality(Live)
      BY <1>2, <2>1, FS_Subset
    <2>3. Cardinality(Live) \in Nat /\ Cardinality(ProbesInCall) \in Nat
      BY <1>2, <2>1, FS_Subset, FS_CardinalityType
    <2> QED
      BY <2>2, <2>3 DEF Overlap
  <1>3. TypeOK /\ IsFiniteSet(Live) /\ [Next]_vars
          => [opened # 0 /\ opened' # 0 => Overlap' <= Overlap]_vars
    BY <1>1
  <1> QED
    BY <1>2, <1>3, TypeCorrect, LiveIsFinite, PTL DEF Spec
=============================================================================
