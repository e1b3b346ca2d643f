-------------------------- MODULE InferenceService --------------------------
(***************************************************************************)
(* The inference process: admitted runs whose threads execute skills.      *)
(*                                                                         *)
(* Each run makes one skill call at a time; the model follows one of them. *)
(* The run ends when its call has returned, and a call can return while    *)
(* its handler goes on, so permits and slots have different lives: a       *)
(* handler that hangs takes a slot for good, never a thread or a permit.   *)
(***************************************************************************)
EXTENDS GraphAdmission, SkillExecutor

\* Attachments have skill calls of their own, which only add handlers.
ASSUME CallsAreRuns == Calls = Questions

vars == <<admissionVars, skillVars>>

Init == AdmissionInit /\ SkillInit

\* A step of the coroutines or the pool other than the end of a run.
AdmissionStep ==
    /\ \E w \in Work : Serve(w) \/ Start(w)
    /\ UNCHANGED skillVars

\* The thread of a run executes its skill.
ThreadStep ==
    /\ \E q \in Questions \cap Running : Execute(q)
    /\ UNCHANGED admissionVars

\* The pipeline has no more to do once its call returned.
Finished(w) == w \in Questions => call[w] = "returned"

EndRun ==
    /\ \E w \in Running : Finished(w) /\ End(w)
    /\ UNCHANGED skillVars

\* A handler's thread, whether or not the run that called it goes on.
HandlersStep ==
    /\ \E c \in Calls, i \in Attempts : HandlerStep(c, i)
    /\ UNCHANGED admissionVars

Next == AdmissionStep \/ ThreadStep \/ EndRun \/ HandlersStep

Spec == Init /\ [][Next]_vars

\* Timers fire, the event loop and the pool's threads run.  Nothing is assumed
\* of a handler: it may hang for ever.
Fairness ==
    \A w \in Work :
        /\ WF_vars((GiveUp(w) \/ Release(w) \/ Deliver(w) \/ Start(w)) /\ UNCHANGED skillVars)
        /\ WF_vars(w \in Questions \cap Running /\ Execute(w) /\ UNCHANGED admissionVars)
        /\ WF_vars(w \in Running /\ Finished(w) /\ End(w) /\ UNCHANGED skillVars)

FairSpec == Spec /\ Fairness

-----------------------------------------------------------------------------
TypeOK == AdmissionTypeOK /\ SkillTypeOK
=============================================================================
