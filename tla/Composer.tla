------------------------------ MODULE Composer ------------------------------
(***************************************************************************)
(* The question composer of one session (components/Composer.tsx): its     *)
(* draft, the files it has sent away to be read, and dictation.            *)
(*                                                                         *)
(* A draft is the set of things its text comes from.  The page mounts a    *)
(* composer per session (key={active.id}); what arrives for one that has   *)
(* been unmounted changes nothing.  Dictation writes the text it found     *)
(* when it started, followed by what it heard, over whatever is there.     *)
(***************************************************************************)
CONSTANTS
    Files,   \* the images and PDFs a user chooses
    Words    \* what a user types or says

ASSUME ComposerAssumption == Words \notin Files

VARIABLES
    question,    \* the draft of the question
    wrong,       \* the draft of the user's own attempt
    showWrong,   \* the attempt's field is open
    latest,      \* the file chosen last, while it is read: the mutation is pending
    reading,     \* the reading of each file
    chosenIn,    \* history: the session whose composer took each file
    dictation    \* the recogniser: off, or the text it writes in front

composerVars == <<question, wrong, showWrong, latest, reading, chosenIn, dictation>>
draftVars == <<question, wrong, showWrong>>
readingVars == <<latest, reading, chosenIn>>

Texts == SUBSET (Files \cup {Words})
Readings == {"new", "reading", "over"}
Silent == [on |-> FALSE, original |-> {}]

EmptyDraft ==
    /\ question' = {} /\ wrong' = {}
    /\ showWrong' = FALSE

ComposerInit(none) ==
    /\ question = {} /\ wrong = {} /\ showWrong = FALSE
    /\ latest = {}
    /\ reading = [f \in Files |-> "new"]
    /\ chosenIn = [f \in Files |-> none]
    /\ dictation = Silent

ReadingPending == latest # {}

Type ==
    /\ question' \in {question \cup {Words}, {}}
    /\ UNCHANGED <<wrong, showWrong, readingVars, dictation>>

TypeWrong ==
    /\ showWrong
    /\ wrong' \in {wrong \cup {Words}, {}}
    /\ UNCHANGED <<question, showWrong, readingVars, dictation>>

\* Closing the field keeps, and will send, what is in it.
ToggleWrong ==
    /\ showWrong' = ~showWrong
    /\ UNCHANGED <<question, wrong, readingVars, dictation>>

\* acceptFile, from the picker, which busy disables, or by drag and drop.  A
\* file of the wrong type or size only changes the note.  Dismissing the chip
\* that names the file cancels nothing, so the chip is not modelled.
Choose(f, session) ==
    /\ reading[f] = "new"
    /\ reading' = [reading EXCEPT ![f] = "reading"]
    /\ chosenIn' = [chosenIn EXCEPT ![f] = session]
    /\ latest' = {f}
    /\ UNCHANGED <<question, wrong, showWrong, dictation>>

\* The reading replaces the draft, also when another file has been
\* chosen since or the draft it was meant for has been sent.
Fill(f, found) ==
    /\ question' = IF "problem" \in found THEN {f} ELSE question
    /\ wrong' = IF "attempt" \in found THEN {f} ELSE wrong
    /\ showWrong' = (showWrong \/ "attempt" \in found)

ReadingEnds(f) ==
    /\ reading[f] = "reading"
    /\ reading' = [reading EXCEPT ![f] = "over"]
    /\ latest' = latest \ {f}
    /\ \E found \in SUBSET {"problem", "attempt"} : Fill(f, found)
    /\ UNCHANGED <<chosenIn, dictation>>

\* The same button only asks a recogniser that listens to stop: VoiceEnds.
ToggleVoice(busy) ==
    /\ ~busy /\ ~dictation.on
    /\ dictation' = [on |-> TRUE, original |-> question]
    /\ UNCHANGED <<draftVars, readingVars>>

Hear ==
    /\ dictation.on
    /\ question' = dictation.original \cup {Words}
    /\ UNCHANGED <<wrong, showWrong, readingVars, dictation>>

VoiceEnds ==
    /\ dictation.on
    /\ dictation' = Silent
    /\ UNCHANGED <<draftVars, readingVars>>

\* Empties the draft before the question is sent, and goes on listening.
Submit(busy) ==
    /\ question # {}
    /\ ~busy /\ ~ReadingPending
    /\ EmptyDraft
    /\ UNCHANGED <<readingVars, dictation>>

\* Mutant: the composer is not keyed by the session.
StayMounted == UNCHANGED composerVars

\* A composer for another session, or after a reload.  Nobody sees the end of
\* the readings the old one waits for.
Remount ==
    /\ EmptyDraft
    /\ latest' = {}
    /\ dictation' = Silent
    /\ reading' = [f \in Files |-> IF reading[f] = "reading" THEN "over" ELSE reading[f]]
    /\ UNCHANGED chosenIn

\* What the user does, except to send, and what happens by itself.
Compose(session, busy) ==
    \/ Type \/ TypeWrong \/ ToggleWrong
    \/ \E f \in Files : Choose(f, session)
    \/ ToggleVoice(busy)

ComposerHears ==
    \/ \E f \in Files : ReadingEnds(f)
    \/ Hear \/ VoiceEnds
=============================================================================
