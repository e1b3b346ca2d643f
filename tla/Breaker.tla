------------------------------ MODULE Breaker ------------------------------
(***************************************************************************)
(* The gateway's circuit breaker for the inference service:                *)
(* gateway/main.go, type breaker, called by concurrent request handlers.   *)
(* Its three atomics are read and written one by one without a lock, so    *)
(* each access is a step of its own.                                       *)
(*                                                                         *)
(* A deadline is kept as the time left: opened is 0 when the breaker is    *)
(* closed, otherwise one more than the ticks until now > opened.           *)
(***************************************************************************)
EXTENDS Naturals, FiniteSets

CONSTANTS
    Handlers,    \* the handler goroutines, one request after another each
    Threshold,   \* failures in a row that open the breaker: 5
    Cooldown,    \* ticks it stays open: 10 s
    MaxBad       \* bound: calls of one behaviour that do not succeed

ASSUME BreakerAssumption ==
    /\ Threshold \in Nat \ {0}
    /\ Cooldown \in Nat \ {0}
    /\ MaxBad \in Nat

VARIABLES
    failures, opened, probe,   \* the three atomics
    pc,                        \* control point of each handler
    seen,                      \* the deadline it loaded, aging with time
    asProbe,                   \* handlers admitted by the compare-and-swap
    bad                        \* unsuccessful calls so far

vars == <<failures, opened, probe, pc, seen, asProbe, bad>>

PCs == {"idle", "loaded", "calling", "closing", "tripping", "clearing"}

\* Between a true result of allow and the last store of its outcome.
InCall(h) == pc[h] \in {"calling", "closing", "tripping", "clearing"}

\* 0 when closed.
Deadlines == 0..(Cooldown + 1)
Elapsed(deadline) == deadline = 1
Age(deadline) == IF deadline > 1 THEN deadline - 1 ELSE deadline

Init ==
    /\ failures = 0 /\ opened = 0 /\ probe = FALSE
    /\ pc = [h \in Handlers |-> "idle"]
    /\ seen = [h \in Handlers |-> 0]
    /\ asProbe = {}
    /\ bad = 0

GoTo(h, label) == pc' = [pc EXCEPT ![h] = label]

-----------------------------------------------------------------------------
(* allow                                                                   *)

Load(h) ==
    /\ pc[h] = "idle"
    /\ seen' = [seen EXCEPT ![h] = opened]
    /\ GoTo(h, "loaded")
    /\ UNCHANGED <<failures, opened, probe, asProbe, bad>>

AdmitClosed(h) ==
    /\ pc[h] = "loaded"
    /\ seen[h] = 0
    /\ GoTo(h, "calling")
    /\ UNCHANGED <<failures, opened, probe, seen, asProbe, bad>>

\* The compare-and-swap succeeds: this call is the recovery probe.
AdmitProbe(h) ==
    /\ pc[h] = "loaded"
    /\ Elapsed(seen[h]) /\ ~probe
    /\ probe' = TRUE
    /\ asProbe' = asProbe \cup {h}
    /\ GoTo(h, "calling")
    /\ UNCHANGED <<failures, opened, seen, bad>>

\* UPSTREAM_OPEN
Refuse(h) ==
    /\ pc[h] = "loaded"
    /\ seen[h] > 1 \/ (Elapsed(seen[h]) /\ probe)
    /\ seen' = [seen EXCEPT ![h] = 0]
    /\ GoTo(h, "idle")
    /\ UNCHANGED <<failures, opened, probe, asProbe, bad>>

-----------------------------------------------------------------------------
(* The outcome of the call.                                                *)

\* success: its first store, then the other two.
Succeed(h) ==
    /\ pc[h] = "calling"
    /\ failures' = 0
    /\ GoTo(h, "closing")
    /\ UNCHANGED <<opened, probe, seen, asProbe, bad>>

Close(h) ==
    /\ pc[h] = "closing"
    /\ opened' = 0
    /\ GoTo(h, "clearing")
    /\ UNCHANGED <<failures, probe, seen, asProbe, bad>>

\* fail: count, open at the threshold, give the probe back.
Fail(h) ==
    /\ pc[h] = "calling"
    /\ bad < MaxBad
    /\ bad' = bad + 1
    /\ failures' = failures + 1
    /\ GoTo(h, IF failures + 1 >= Threshold THEN "tripping" ELSE "clearing")
    /\ UNCHANGED <<opened, probe, seen, asProbe>>

\* Mutant: the cooldown is added to the deadline instead of to the time.
TripExtends(h) ==
    /\ pc[h] = "tripping"
    /\ opened' = opened + Cooldown + 1
    /\ GoTo(h, "clearing")
    /\ UNCHANGED <<failures, probe, seen, asProbe, bad>>

Trip(h) ==
    /\ pc[h] = "tripping"
    /\ opened' = Cooldown + 1
    /\ GoTo(h, "clearing")
    /\ UNCHANGED <<failures, probe, seen, asProbe, bad>>

\* Mutant: a cancelled call ends without giving the probe back.
CancelKeepsProbe(h) ==
    /\ pc[h] = "calling"
    /\ bad < MaxBad
    /\ bad' = bad + 1
    /\ seen' = [seen EXCEPT ![h] = 0]
    /\ asProbe' = asProbe \ {h}
    /\ GoTo(h, "idle")
    /\ UNCHANGED <<failures, opened, probe>>

\* rpcError with code Canceled: the client went away.  (The HTTP transport
\* has no such case: there a cancelled request is a failure.)
Cancel(h) ==
    /\ pc[h] = "calling"
    /\ bad < MaxBad
    /\ bad' = bad + 1
    /\ GoTo(h, "clearing")
    /\ UNCHANGED <<failures, opened, probe, seen, asProbe>>

Clear(h) ==
    /\ pc[h] = "clearing"
    /\ probe' = FALSE
    /\ seen' = [seen EXCEPT ![h] = 0]
    /\ asProbe' = asProbe \ {h}
    /\ GoTo(h, "idle")
    /\ UNCHANGED <<failures, opened, bad>>

Tick ==
    /\ opened > 1 \/ \E h \in Handlers : seen[h] > 1
    /\ opened' = Age(opened)
    /\ seen' = [h \in Handlers |-> Age(seen[h])]
    /\ UNCHANGED <<failures, probe, pc, asProbe, bad>>

-----------------------------------------------------------------------------
Handle(h) ==
    \/ Load(h) \/ AdmitClosed(h) \/ AdmitProbe(h) \/ Refuse(h)
    \/ Succeed(h) \/ Close(h) \/ Trip(h) \/ Clear(h)

Next ==
    \/ \E h \in Handlers : Handle(h) \/ Fail(h) \/ Cancel(h)
    \/ Tick

Spec == Init /\ [][Next]_vars

\* Handlers run, calls return (each has a timeout), time passes and requests
\* keep arriving.
Fairness == WF_vars(Tick) /\ \A h \in Handlers : WF_vars(Handle(h))

FairSpec == Spec /\ Fairness

-----------------------------------------------------------------------------
TypeOK ==
    /\ failures \in Nat
    /\ opened \in Deadlines
    /\ probe \in BOOLEAN
    /\ pc \in [Handlers -> PCs]
    /\ seen \in [Handlers -> Deadlines]
    /\ asProbe \subseteq Handlers
    /\ bad \in 0..MaxBad

\* The probe permit is never lost: while it is taken some admitted call has
\* yet to give it back, so a breaker whose deadline passed cannot refuse
\* everybody for ever.
ProbeIsHeld == probe => \E h \in Handlers : InCall(h)

\* The calls admitted while the breaker was half open that have not returned.
ProbesInCall == {h \in asProbe : pc[h] = "calling"}

\* main_test.go:162: a half-open breaker does not allow more than one probe.
OneProbe == Cardinality(ProbesInCall) <= 1

\* Once the inference service stays healthy the breaker closes again.
Recovers == opened # 0 ~> opened = 0
=============================================================================
