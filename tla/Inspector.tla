----------------------------- MODULE Inspector -----------------------------
(***************************************************************************)
(* The drawer with the evidence and the run of one answer                  *)
(* (components/Inspector.tsx, and its state in App.tsx).  The page keeps   *)
(* one response for it: set when the drawer is opened from an answer or    *)
(* from the evidence button, and whenever an answer arrives.  It outlives  *)
(* the drawer and the session on screen.                                   *)
(***************************************************************************)
VARIABLES
    inspecting,    \* the drawer is open
    inspected      \* the session the kept response belongs to

inspectorVars == <<inspecting, inspected>>

InspectorInit(none) ==
    /\ inspecting = FALSE
    /\ inspected = none

Inspect(session) ==
    /\ inspecting' = TRUE
    /\ inspected' = session

EndInspection ==
    /\ inspecting
    /\ inspecting' = FALSE
    /\ UNCHANGED inspected

\* An answer is kept for the drawer, open or not; a failure is not.
KeepAnswer(session) ==
    /\ inspected' \in {session, inspected}
    /\ UNCHANGED inspecting
=============================================================================
