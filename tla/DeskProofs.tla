----------------------------- MODULE DeskProofs -----------------------------
(***************************************************************************)
(* Nothing that arrives late reaches another session's panels, for any     *)
(* numbers of sessions and files; and what the shell itself keeps.         *)
(* The invariant is inductive with the types: a reading in flight belongs  *)
(* to the composer on screen, so one that ends fills a draft of the        *)
(* session that chose its file; a question pending belongs to the session  *)
(* on screen, so an answer that replaces the inspected one does too.       *)
(***************************************************************************)
EXTENDS Desk, TLAPS

\* A file being read was chosen in the session on screen.
ReadHere == \A f \in Files : reading[f] = "reading" => chosenIn[f] = active

\* The question pending was asked from the session on screen.
AskedHere == asking \in {active, NoSession}

\* The inductive invariant.
Inv == TypeOK /\ ReadHere /\ AskedHere /\ ReadingsStayHome /\ EvidenceStaysHome

\* The page starts in the invariant.
LEMMA InitInv == DeskInit => Inv
<1>. SUFFICES ASSUME DeskInit PROVE Inv
  OBVIOUS
<1>. USE DEF DeskInit, ShellInit, ComposerInit, PanelInit, InspectorInit
<1>1. question \in Texts /\ wrong \in Texts /\ latest \subseteq Files
  BY DEF Texts
<1>2. dictation \in [on : BOOLEAN, original : Texts]
  BY DEF Silent, Texts
<1>3. reading \in [Files -> Readings] /\ chosenIn \in [Files -> Sessions \cup {NoSession}]
  BY DEF Readings
<1>4. task \in [data : {"none"} \cup Statuses, error : BOOLEAN, fetching : BOOLEAN]
  BY DEF Unread
<1>5. TypeOK
  BY <1>1, <1>2, <1>3, <1>4 DEF TypeOK, HasTask
<1>6. ReadHere /\ AskedHere /\ ReadingsStayHome /\ EvidenceStaysHome
  BY DEF ReadHere, AskedHere, ReadingsStayHome, EvidenceStaysHome, Silent
<1>. QED  BY <1>5, <1>6 DEF Inv

-----------------------------------------------------------------------------
(* What the components do to their own variables.                          *)

DraftsTyped ==
    /\ question \in Texts /\ wrong \in Texts /\ showWrong \in BOOLEAN
    /\ dictation \in [on : BOOLEAN, original : Texts]
    /\ latest \subseteq Files
    /\ reading \in [Files -> Readings]
    /\ chosenIn \in [Files -> Sessions \cup {NoSession}]

PanelTyped ==
    /\ status \in {"absent"} \cup Statuses
    /\ open \in BOOLEAN /\ tab \in {"mistakes", "report"}
    /\ generate \in {"idle", "pending", "error"}
    /\ task \in [data : {"none"} \cup Statuses, error : BOOLEAN, fetching : BOOLEAN]
    /\ HasTask \/ task = Unread

\* Mounting a composer anew leaves nothing in it.
LEMMA RemountClears ==
    ASSUME DraftsTyped, Remount
    PROVE  /\ DraftsTyped'
           /\ \A f \in Files : reading'[f] # "reading"
           /\ \A f \in Files : f \notin question' \cup wrong' \cup dictation'.original
BY DEF DraftsTyped, Remount, EmptyDraft, Silent, Texts, Readings

\* A composer's own steps keep the types of its variables.
LEMMA ComposerKeepsTypes ==
    ASSUME NEW session \in Sessions, NEW busy \in BOOLEAN, DraftsTyped,
           Compose(session, busy) \/ ComposerHears \/ Submit(busy)
    PROVE  DraftsTyped'
<1>. USE DEF DraftsTyped, draftVars, readingVars, Texts, Readings
<1>1. CASE Type \/ TypeWrong \/ ToggleWrong
  BY <1>1 DEF Type, TypeWrong, ToggleWrong
<1>2. CASE \E f \in Files : Choose(f, session)
  BY <1>2 DEF Choose
<1>3. CASE ToggleVoice(busy)
  BY <1>3 DEF ToggleVoice
<1>4. CASE \E f \in Files : ReadingEnds(f)
  BY <1>4 DEF ReadingEnds, Fill
<1>5. CASE Hear
  BY <1>5 DEF Hear
<1>6. CASE VoiceEnds
  <2>1. Silent \in [on : BOOLEAN, original : Texts]
    BY DEF Silent
  <2>. QED  BY <1>6, <2>1 DEF VoiceEnds
<1>7. CASE Submit(busy)
  BY <1>7 DEF Submit, EmptyDraft
<1>. QED  BY <1>1, <1>2, <1>3, <1>4, <1>5, <1>6, <1>7 DEF Compose, ComposerHears

\* Neither do they bring in what another session's files say.
LEMMA ComposerKeepsHome ==
    ASSUME active \in Sessions, NEW busy \in BOOLEAN, DraftsTyped, ReadHere, ReadingsStayHome,
           UNCHANGED active,
           Compose(active, busy) \/ ComposerHears \/ Submit(busy)
    PROVE  ReadHere' /\ ReadingsStayHome'
<1>. USE ComposerAssumption DEF DraftsTyped, ReadHere, ReadingsStayHome, draftVars, readingVars, Texts, Readings
<1>1. CASE Type \/ TypeWrong \/ ToggleWrong
  BY <1>1 DEF Type, TypeWrong, ToggleWrong
<1>2. CASE \E f \in Files : Choose(f, active)
  BY <1>2 DEF Choose
<1>3. CASE ToggleVoice(busy)
  BY <1>3 DEF ToggleVoice
<1>4. CASE \E f \in Files : ReadingEnds(f)
  BY <1>4 DEF ReadingEnds, Fill
<1>5. CASE Hear \/ VoiceEnds
  BY <1>5 DEF Hear, VoiceEnds, Silent
<1>6. CASE Submit(busy)
  BY <1>6 DEF Submit, EmptyDraft
<1>. QED  BY <1>1, <1>2, <1>3, <1>4, <1>5, <1>6 DEF Compose, ComposerHears

\* A fetch of the query keeps its type.
LEMMA FetchTyped ==
    ASSUME PanelTyped
    PROVE  Fetch \in [data : {"none"} \cup Statuses, error : BOOLEAN, fetching : BOOLEAN]
<1>1. (task.error /\ task.data # "none") \in BOOLEAN
  OBVIOUS
<1>. QED  BY <1>1 DEF PanelTyped, Fetch

\* The panel's own steps keep the types of its variables.
LEMMA PanelKeepsTypes ==
    ASSUME NEW busy \in BOOLEAN, PanelTyped, UsePanel \/ PanelHears \/ Review(busy)
    PROVE  PanelTyped'
<1>. USE DEF PanelTyped, HasTask, Statuses, Final
<1>1. CASE Open \/ Refresh \/ Tick
  BY <1>1, FetchTyped DEF Open, Refresh, Tick, Polling
<1>2. CASE Close \/ Turn \/ Generate \/ Review(busy)
  BY <1>2 DEF Close, Turn, Generate, Review
<1>3. CASE Created \/ CreateFails
  BY <1>3 DEF Created, CreateFails, Unread
<1>4. CASE Read \/ ReadFails
  <2>1. task.fetching
    BY <1>4 DEF Read, ReadFails
  <2>2. status \in Statuses
    BY <2>1 DEF Unread
  <2>3. CASE Read
    BY <2>2, <2>3 DEF Read
  <2>4. CASE ReadFails
    BY <2>2, <2>4 DEF ReadFails
  <2>. QED  BY <1>4, <2>3, <2>4
<1>5. CASE Claim \/ Requeue \/ Finish
  BY <1>5 DEF Claim, Requeue, Finish
<1>. QED  BY <1>1, <1>2, <1>3, <1>4, <1>5 DEF UsePanel, PanelHears

-----------------------------------------------------------------------------
(* The page.                                                               *)

\* Every step of the page keeps the invariant.
LEMMA NextInv == Inv /\ [DeskNext]_deskVars => Inv'
<1>. SUFFICES ASSUME Inv, [DeskNext]_deskVars PROVE Inv'
  OBVIOUS
<1>. USE DEF Inv
<1>a. DraftsTyped /\ PanelTyped /\ active \in Sessions /\ Busy \in BOOLEAN
  BY DEF TypeOK, DraftsTyped, PanelTyped, Busy
<1>b. ASSUME DraftsTyped', PanelTyped', active' \in Sessions, asking' \in Sessions \cup {NoSession},
             inspecting' \in BOOLEAN, inspected' \in Sessions \cup {NoSession}
      PROVE  TypeOK'
  BY <1>b DEF TypeOK, DraftsTyped, PanelTyped
<1>1. ASSUME ComposerStep PROVE Inv'
  <2>1. DraftsTyped' /\ ReadHere' /\ ReadingsStayHome'
    BY <1>1, <1>a, ComposerKeepsTypes, ComposerKeepsHome DEF ComposerStep, shellVars
  <2>2. PanelTyped'
    BY <1>1, <1>a DEF ComposerStep, panelVars, PanelTyped, HasTask
  <2>3. TypeOK' /\ AskedHere' /\ EvidenceStaysHome'
    BY <1>1, <1>b, <2>1, <2>2 DEF ComposerStep, shellVars, inspectorVars, TypeOK, AskedHere, EvidenceStaysHome
  <2>. QED  BY <2>1, <2>3
<1>2. ASSUME PanelStep PROVE Inv'
  <2>1. PanelTyped'
    BY <1>2, <1>a, PanelKeepsTypes DEF PanelStep
  <2>2. DraftsTyped' /\ ReadHere' /\ ReadingsStayHome'
    BY <1>2, <1>a DEF PanelStep, shellVars, composerVars, DraftsTyped, ReadHere, ReadingsStayHome
  <2>3. TypeOK' /\ AskedHere' /\ EvidenceStaysHome'
    BY <1>2, <1>b, <2>1, <2>2 DEF PanelStep, shellVars, inspectorVars, TypeOK, AskedHere, EvidenceStaysHome
  <2>. QED  BY <2>2, <2>3
<1>3. ASSUME InspectorStep PROVE Inv'
  <2>1. inspecting' \in BOOLEAN /\ inspected' \in Sessions \cup {NoSession} /\ EvidenceStaysHome'
    BY <1>3, <1>a DEF InspectorStep, Inspect, EndInspection, shellVars, TypeOK, EvidenceStaysHome
  <2>2. DraftsTyped' /\ ReadHere' /\ ReadingsStayHome'
    BY <1>3, <1>a DEF InspectorStep, shellVars, composerVars, DraftsTyped, ReadHere, ReadingsStayHome
  <2>3. PanelTyped'
    BY <1>3, <1>a DEF InspectorStep, panelVars, PanelTyped, HasTask
  <2>4. TypeOK' /\ AskedHere'
    BY <1>3, <1>b, <2>1, <2>2, <2>3 DEF InspectorStep, shellVars, TypeOK, AskedHere
  <2>. QED  BY <2>1, <2>2, <2>4
<1>4. ASSUME SubmitDraft PROVE Inv'
  <2>1. DraftsTyped' /\ ReadHere' /\ ReadingsStayHome'
    BY <1>4, <1>a, ComposerKeepsTypes, ComposerKeepsHome DEF SubmitDraft, Ask
  <2>2. PanelTyped'
    BY <1>4, <1>a DEF SubmitDraft, panelVars, PanelTyped, HasTask
  <2>3. TypeOK' /\ AskedHere' /\ EvidenceStaysHome'
    BY <1>4, <1>b, <2>1, <2>2 DEF SubmitDraft, Ask, inspectorVars, TypeOK, AskedHere, EvidenceStaysHome
  <2>. QED  BY <2>1, <2>3
<1>5. ASSUME AskElsewhere PROVE Inv'
  BY <1>5, <1>a, <1>b DEF AskElsewhere, Ask, composerVars, panelVars, inspectorVars,
     TypeOK, DraftsTyped, PanelTyped, HasTask, ReadHere, AskedHere, ReadingsStayHome, EvidenceStaysHome
<1>6. ASSUME ReviewMistake PROVE Inv'
  <2>1. PanelTyped'
    BY <1>6, <1>a, PanelKeepsTypes DEF ReviewMistake
  <2>2. DraftsTyped' /\ ReadHere' /\ ReadingsStayHome'
    BY <1>6, <1>a DEF ReviewMistake, Ask, composerVars, DraftsTyped, ReadHere, ReadingsStayHome
  <2>3. TypeOK' /\ AskedHere' /\ EvidenceStaysHome'
    BY <1>6, <1>b, <2>1, <2>2 DEF ReviewMistake, Ask, inspectorVars, TypeOK, AskedHere, EvidenceStaysHome
  <2>. QED  BY <2>2, <2>3
\* The answer that is kept was asked from the session on screen.
<1>7. ASSUME AnswerArrives PROVE Inv'
  BY <1>7, <1>a, <1>b DEF AnswerArrives, Settle, KeepAnswer, Busy, composerVars, panelVars,
     TypeOK, DraftsTyped, PanelTyped, HasTask, ReadHere, AskedHere, ReadingsStayHome, EvidenceStaysHome
<1>8. ASSUME NEW s \in Sessions, ShowSession(s) \/ ReloadPage(s) PROVE Inv'
  <2>1. /\ DraftsTyped' /\ ReadHere' /\ ReadingsStayHome'
    BY <1>8, <1>a, RemountClears DEF ShowSession, ReloadPage, ReadHere, ReadingsStayHome
  <2>2. PanelTyped'
    <3>1. Unread \in [data : {"none"} \cup Statuses, error : BOOLEAN, fetching : BOOLEAN]
      BY DEF Unread
    <3>. QED
      BY <3>1, <1>8, <1>a DEF ShowSession, ReloadPage, RemountPanel, PanelTyped, HasTask
  <2>3. active' \in Sessions /\ asking' \in {NoSession}
    BY <1>8 DEF ShowSession, ReloadPage, Show, Reload, Busy
  <2>4. inspecting' = FALSE /\ inspected' \in Sessions \cup {NoSession}
    BY <1>8 DEF ShowSession, ReloadPage, AtDesk, inspectorVars, TypeOK
  <2>. QED  BY <1>b, <2>1, <2>2, <2>3, <2>4 DEF AskedHere, EvidenceStaysHome
<1>9. CASE UNCHANGED deskVars
  BY <1>9, <1>a, <1>b DEF deskVars, shellVars, composerVars, panelVars, inspectorVars,
     TypeOK, DraftsTyped, PanelTyped, HasTask, ReadHere, AskedHere, ReadingsStayHome, EvidenceStaysHome
<1>. QED
  BY <1>1, <1>2, <1>3, <1>4, <1>5, <1>6, <1>7, <1>8, <1>9 DEF DeskNext

LEMMA AlwaysInv == DeskSpec => []Inv
BY InitInv, NextInv, PTL DEF DeskSpec

\* The types of the page's state, for any sessions and files.
THEOREM DeskTypes == DeskSpec => []TypeOK
BY AlwaysInv, PTL DEF Inv

\* Neither a file read late nor an answer that arrives late is seen in a
\* session it does not belong to (the keys of the mounted components and the
\* modal drawers of App.tsx).
THEOREM NothingStrays == DeskSpec => []PanelsStayHome
<1>1. Inv => PanelsStayHome
  BY DEF Inv, PanelsStayHome
<1>. QED  BY <1>1, AlwaysInv, PTL

-----------------------------------------------------------------------------
(* The shell the page is built on.                                         *)

\* What every shell keeps, and so both the page of Workspace and this one: the
\* question pending was asked from the session on screen, which changes only
\* with no question pending or when the page is loaded anew.
LEMMA ShellKeepsAsker ==
    ASSUME active \in Sessions, AskedHere, [ShellNext]_shellVars
    PROVE  /\ active' \in Sessions /\ AskedHere'
           /\ active' # active => asking' = NoSession
<1>1. CASE Ask
  BY <1>1 DEF Ask, AskedHere
<1>2. CASE Settle
  BY <1>2 DEF Settle, AskedHere
<1>3. ASSUME NEW s \in Sessions, Show(s)
      PROVE  active' \in Sessions /\ AskedHere' /\ asking' = NoSession
  BY <1>3 DEF Show, Busy, AskedHere
<1>4. ASSUME NEW s \in Sessions, Reload(s)
      PROVE  active' \in Sessions /\ AskedHere' /\ asking' = NoSession
  BY <1>4 DEF Reload, AskedHere
<1>5. CASE UNCHANGED shellVars
  BY <1>5 DEF shellVars, AskedHere
<1>. QED  BY <1>1, <1>2, <1>3, <1>4, <1>5 DEF ShellNext, Ask, Settle

\* A session that is left has no question pending: whoever is waiting for an
\* answer is looking at the session that asked, unless the page was reloaded.
THEOREM AskerStaysOnScreen ==
    ShellInit /\ [][ShellNext]_shellVars =>
        []AskedHere /\ [][active' # active => asking' = NoSession]_shellVars
<1>1. ShellInit => active \in Sessions /\ AskedHere
  BY DEF ShellInit, AskedHere
<1>2. active \in Sessions /\ AskedHere /\ [ShellNext]_shellVars =>
        (active \in Sessions /\ AskedHere)'
  BY ShellKeepsAsker
<1>3. active \in Sessions /\ AskedHere /\ [ShellNext]_shellVars =>
        [active' # active => asking' = NoSession]_shellVars
  BY ShellKeepsAsker
<1>. QED  BY <1>1, <1>2, <1>3, PTL
=============================================================================
