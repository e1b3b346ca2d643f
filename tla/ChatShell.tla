----------------------------- MODULE ChatShell -----------------------------
(***************************************************************************)
(* What the page's shell (App.tsx) promises the composer and the learning  *)
(* panel mounted in it: one session is on screen, at most one question is  *)
(* being asked, it was asked from the session on screen and that session   *)
(* stays there until the question is settled or the page is reloaded.      *)
(* Messages, storage and requests do not appear here; Workspace implements *)
(* this module and Desk is built on it.                                    *)
(***************************************************************************)
CONSTANTS
    Sessions,    \* the identifiers sessions may get
    NoSession    \* not one of them

ASSUME ShellAssumption == NoSession \notin Sessions

VARIABLES
    active,    \* the session on screen
    asking     \* the session whose question is pending, or NoSession

shellVars == <<active, asking>>

ShellInit ==
    /\ active \in Sessions
    /\ asking = NoSession

Busy == asking # NoSession

Ask ==
    /\ ~Busy
    /\ asking' = active
    /\ UNCHANGED active

Settle ==
    /\ Busy
    /\ asking' = NoSession
    /\ UNCHANGED active

Show(s) ==
    /\ ~Busy
    /\ active' = s
    /\ UNCHANGED asking

Reload(s) ==
    /\ active' = s
    /\ asking' = NoSession

ShellNext ==
    \/ Ask
    \/ Settle
    \/ \E s \in Sessions : Show(s) \/ Reload(s)

ShellSpec ==
    /\ ShellInit /\ [][ShellNext]_shellVars
    /\ WF_shellVars(Settle)
=============================================================================
