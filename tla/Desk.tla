-------------------------------- MODULE Desk --------------------------------
(***************************************************************************)
(* The page: the shell (ChatShell, which Workspace implements) with the    *)
(* composer and the learning panel it mounts for the session on screen,    *)
(* and the inspector it keeps for all of them (App.tsx).  The first two    *)
(* are keyed by the session: showing another one mounts them anew.  Both   *)
(* drawers are modal: while one is open nothing behind it can be used, but *)
(* what was started there goes on.                                         *)
(***************************************************************************)
EXTENDS ChatShell, Composer, LearningPanel, Inspector

deskVars == <<shellVars, composerVars, panelVars, inspectorVars>>

\* No drawer is in front of the page.
AtDesk == ~open /\ ~inspecting

DeskInit ==
    /\ ShellInit
    /\ ComposerInit(NoSession)
    /\ PanelInit
    /\ InspectorInit(NoSession)

ComposerStep ==
    /\ (AtDesk /\ Compose(active, Busy)) \/ ComposerHears
    /\ UNCHANGED <<shellVars, panelVars, inspectorVars>>

PanelStep ==
    /\ (~inspecting /\ UsePanel) \/ PanelHears
    /\ UNCHANGED <<shellVars, composerVars, inspectorVars>>

\* From an answer on screen, or with the last one from the evidence button.
InspectorStep ==
    /\ (AtDesk /\ Inspect(active)) \/ EndInspection
    /\ UNCHANGED <<shellVars, composerVars, panelVars>>

SubmitDraft ==
    /\ AtDesk
    /\ Submit(Busy) /\ Ask
    /\ UNCHANGED <<panelVars, inspectorVars>>

\* An example, a follow-up, the exercise bar or a regenerated answer.
AskElsewhere ==
    /\ AtDesk
    /\ Ask
    /\ UNCHANGED <<composerVars, panelVars, inspectorVars>>

ReviewMistake ==
    /\ Review(Busy) /\ Ask
    /\ UNCHANGED <<composerVars, inspectorVars>>

AnswerArrives ==
    /\ Settle
    /\ KeepAnswer(asking)
    /\ UNCHANGED <<composerVars, panelVars>>

ShowSession(s) ==
    /\ AtDesk /\ s # active
    /\ Show(s)
    /\ Remount
    /\ RemountPanel /\ UNCHANGED open
    /\ UNCHANGED inspectorVars

ReloadPage(s) ==
    /\ Reload(s)
    /\ Remount
    /\ RemountPanel /\ open' = FALSE
    /\ inspecting' = FALSE /\ inspected' = NoSession

DeskNext ==
    \/ ComposerStep \/ PanelStep \/ InspectorStep
    \/ SubmitDraft \/ AskElsewhere \/ ReviewMistake
    \/ AnswerArrives
    \/ \E s \in Sessions : ShowSession(s) \/ ReloadPage(s)

DeskSpec == DeskInit /\ [][DeskNext]_deskVars

\* The panel's identity and its requests each end within 15 seconds of a browser
\* that comes back online, and the poll timer fires; that a task ends in spite of
\* retries is what TaskQueue shows of the queue.
ForPanel(A) == A /\ UNCHANGED <<shellVars, composerVars, inspectorVars>>

FairDesk ==
    /\ DeskSpec
    /\ WF_deskVars(ForPanel(Created \/ CreateFails))
    /\ WF_deskVars(ForPanel(Read \/ ReadFails))
    /\ WF_deskVars(ForPanel(Tick))
    /\ WF_deskVars(ForPanel(Claim))
    /\ SF_deskVars(ForPanel(Finish))

-----------------------------------------------------------------------------
(* Properties.                                                             *)

\* Every variable has its type, and the panel reads nothing without a task.
TypeOK ==
    /\ active \in Sessions /\ asking \in Sessions \cup {NoSession}
    /\ question \in Texts /\ wrong \in Texts /\ showWrong \in BOOLEAN
    /\ dictation \in [on : BOOLEAN, original : Texts]
    /\ latest \subseteq Files
    /\ reading \in [Files -> Readings]
    /\ chosenIn \in [Files -> Sessions \cup {NoSession}]
    /\ status \in {"absent"} \cup Statuses
    /\ open \in BOOLEAN /\ tab \in {"mistakes", "report"}
    /\ generate \in {"idle", "pending", "error"}
    /\ task \in [data : {"none"} \cup Statuses, error : BOOLEAN, fetching : BOOLEAN]
    /\ HasTask \/ task = Unread
    /\ inspecting \in BOOLEAN /\ inspected \in Sessions \cup {NoSession}

\* What was read from a file is only ever in a draft, or about to be put back
\* into it by dictation, of the session in which the file was chosen.
ReadingsStayHome ==
    \A f \in Files :
        f \in question \cup wrong \cup dictation.original => chosenIn[f] = active

\* The evidence on screen belongs to an answer of the session on screen, although
\* the page keeps one response for all sessions and replaces it whenever an
\* answer arrives.
EvidenceStaysHome == inspecting => inspected = active

\* Whatever arrives late, from a file, a recogniser or the tutor, no session sees
\* what belongs to another one (tools/verify_learning_workspace.py, "conversation
\* isolation").
PanelsStayHome == ReadingsStayHome /\ EvidenceStaysHome

\* A panel that says it is generating stops saying so, or says what is wrong,
\* as long as it is left open: it never waits for a status it will not ask for
\* again.
WaitEnds ==
    (open /\ tab = "report" /\ Working) ~> (~Working \/ ErrorShown \/ ~open \/ tab # "report")
=============================================================================
