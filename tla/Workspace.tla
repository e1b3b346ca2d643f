----------------------------- MODULE Workspace -----------------------------
(***************************************************************************)
(* The browser's workspace: the session store kept in local storage        *)
(* (store.ts), the run of one question from any of the page's buttons      *)
(* (App.tsx), the sidebar that changes sessions (Sidebar.tsx) and the      *)
(* client of the answer stream (api.ts); in the demonstration build the    *)
(* curated answers of showcase.ts instead of the stream.                   *)
(*                                                                         *)
(* The store's writes go to whatever session is active when they happen,   *)
(* not to the one the question came from, and each of them also writes     *)
(* local storage, which may refuse: a write and the change it belongs to   *)
(* are one action.  Storing an answer takes two of them.                   *)
(***************************************************************************)
EXTENDS Naturals, Sequences, FiniteSets

CONSTANTS
    MaxSessions,   \* bound: sessions ever created
    MaxSaved,      \* sessions that fit into local storage (30 in partialize)
    MaxAsks,       \* bound: questions sent
    MaxLevel,      \* the hardest exercise (5)
    MaxReloads,    \* bound: reloads of the page
    MaxFaults,     \* bound: times local storage refuses a write
    Examples       \* the curated problems of the demonstration build

ASSUME WorkspaceAssumption ==
    /\ {MaxSessions, MaxSaved, MaxLevel} \subseteq Nat \ {0}
    /\ {MaxAsks, MaxReloads, MaxFaults} \subseteq Nat
    /\ IsFiniteSet(Examples)

Sessions == 1 .. MaxSessions
Requests == 1 .. MaxAsks
Levels == 0 .. MaxLevel    \* 0: no exercise

VARIABLES
    demo,       \* the build is the demonstration (__SHOWCASE_MODE__)
    made,       \* sessions created so far: each gets a fresh UUID
    sessions,   \* the store's list of sessions, newest first
    activeId,   \* the store's active session
    messages,   \* the messages of each session
    context,    \* what each session sends along: history, summary, exercise
    saved,      \* the copy of the four in local storage
    run,        \* runAgent and the request it awaits
    asked,      \* questions sent so far, also those storage refused
    known,      \* the memoised identity promise of api.ts is fulfilled
    mistakes,   \* the demonstration's own record of wrong attempts
    torn,       \* history: sessions whose last answer was stored only in part
    reloads,    \* reloads so far
    faults      \* times storage refused so far

storeVars == <<sessions, activeId, messages, context, saved>>
vars == <<demo, made, storeVars, run, asked, known, mistakes, torn,
          reloads, faults>>

\* Questions: free text, what the exercise bar asks, and in the demonstration
\* a curated problem or its follow-up.
Free == <<"free">>
Bar == {<<"too_hard">>, <<"too_easy">>}
Problem(e) == <<"problem", e>>
FollowUp(e) == <<"follow-up", e>>
Curated == {Problem(e) : e \in Examples} \cup {FollowUp(e) : e \in Examples}
Typed == IF demo THEN {Free} \cup Curated ELSE {Free}

\* The subject of a reply outside the curated problems.
NoSubject == <<"none">>

\* What a reply hands back for the next question of its session.
Reply(n, level, subject) == [n |-> n, level |-> level, subject |-> subject]
NoContext == Reply(0, 0, NoSubject)

Question(q, wrong) == [kind |-> "question", q |-> q, wrong |-> wrong]

\* home and whole are history: the session the reply was made for and whether
\* its stream was complete.
Answer(reply, home, whole) ==
    [kind |-> "answer", reply |-> reply, home |-> home, whole |-> whole]
Stopped == [kind |-> "stopped"]
Failed == [kind |-> "failed"]

Idle == [phase |-> "idle", home |-> 0, q |-> Free, wrong |-> FALSE,
         replace |-> FALSE, aborted |-> FALSE, heard |-> {}, reply |-> NoContext]

Pending == run.phase # "idle"

Listed == {sessions[i] : i \in DOMAIN sessions}

\* A reload may have dropped the active session: then the page shows the first
\* one, and what the store writes to the active one goes nowhere.
Shown == IF activeId \in Listed THEN activeId ELSE sessions[1]

-----------------------------------------------------------------------------
(* The store.                                                              *)

Added(new) ==
    IF activeId \in Listed
    THEN [messages EXCEPT ![activeId] = @ \o new]
    ELSE messages

\* Mutant: the first instead of the last.
FirstSaid(seq, i) ==
    /\ seq[i].kind # "question"
    /\ \A j \in DOMAIN seq : j < i => seq[j].kind = "question"

\* The last thing the assistant said, an answer or a note, is at i.
LastSaid(seq, i) ==
    /\ seq[i].kind # "question"
    /\ \A j \in DOMAIN seq : j > i => seq[j].kind = "question"

\* It is replaced whichever answer the user asked to have regenerated.
Replaced(seq, new) ==
    IF \E i \in DOMAIN seq : LastSaid(seq, i)
    THEN [i \in DOMAIN seq |-> IF LastSaid(seq, i) THEN new ELSE seq[i]]
    ELSE Append(seq, new)

ReplacedLast(new) ==
    IF activeId \in Listed
    THEN [messages EXCEPT ![activeId] = Replaced(@, new)]
    ELSE messages

\* What local storage keeps of a store: its first sessions.
Snapshot(list, id, msgs, ctx) ==
    LET kept == SubSeq(list, 1, IF Len(list) < MaxSaved THEN Len(list) ELSE MaxSaved)
        Keeps(s) == \E i \in DOMAIN kept : kept[i] = s
    IN  [sessions |-> kept,
         activeId |-> id,
         messages |-> [s \in Sessions |-> IF Keeps(s) THEN msgs[s] ELSE <<>>],
         context |-> [s \in Sessions |-> IF Keeps(s) THEN ctx[s] ELSE NoContext]]

\* Local storage may refuse any write: it shares a quota with other tabs, and
\* the writes differ in size.
Refused == faults < MaxFaults /\ faults' = faults + 1

\* Every change of the store writes local storage.  When that throws, the
\* change itself has been made.
Persist(refused) ==
    IF refused THEN Refused /\ UNCHANGED saved
    ELSE /\ saved' = Snapshot(sessions', activeId', messages', context')
         /\ UNCHANGED faults

Change == \E refused \in BOOLEAN : Persist(refused)

NeverSaved == [sessions |-> <<>>, activeId |-> 0,
               messages |-> [s \in Sessions |-> <<>>], context |-> [s \in Sessions |-> NoContext]]

Init ==
    /\ demo \in BOOLEAN
    /\ made = 1 /\ sessions = <<1>> /\ activeId = 1
    /\ messages = [s \in Sessions |-> <<>>]
    /\ context = [s \in Sessions |-> NoContext]
    /\ saved = NeverSaved
    /\ run = Idle
    /\ asked = 0
    /\ known = FALSE
    /\ mistakes = [s \in Sessions |-> {}]
    /\ torn = {}
    /\ reloads = 0 /\ faults = 0

-----------------------------------------------------------------------------
(* The sidebar.                                                            *)

\* Mutant: the sidebar ignores busy.
SidebarAlways == TRUE

SidebarEnabled == ~Pending

NewChat ==
    /\ SidebarEnabled
    /\ made < MaxSessions
    /\ made' = made + 1
    /\ sessions' = <<made'>> \o sessions
    /\ activeId' = made'
    /\ UNCHANGED <<messages, context>>
    /\ Change
    /\ UNCHANGED <<demo, run, asked, known, mistakes, torn, reloads>>

Select(s) ==
    /\ SidebarEnabled
    /\ s \in Listed
    /\ activeId' = s
    /\ UNCHANGED <<sessions, messages, context>>
    /\ Change
    /\ UNCHANGED <<demo, made, run, asked, known, mistakes, torn, reloads>>

Without(i) == SubSeq(sessions, 1, i - 1) \o SubSeq(sessions, i + 1, Len(sessions))

\* Mutant: deleting the only session leaves none.
DeleteLeavesNone(s) ==
    /\ SidebarEnabled
    /\ \E i \in DOMAIN sessions : sessions[i] = s /\ sessions' = Without(i)
    /\ UNCHANGED <<made, activeId>>
    /\ messages' = [messages EXCEPT ![s] = <<>>]
    /\ context' = [context EXCEPT ![s] = NoContext]
    /\ Change
    /\ UNCHANGED <<demo, run, asked, known, mistakes, torn, reloads>>

\* Deleting the only session leaves a new, empty one.
Delete(s) ==
    /\ SidebarEnabled
    /\ \E i \in DOMAIN sessions :
        /\ sessions[i] = s
        /\ IF Len(sessions) > 1
           THEN sessions' = Without(i) /\ made' = made
           ELSE /\ made < MaxSessions
                /\ made' = made + 1
                /\ sessions' = <<made'>>
    /\ activeId' = IF activeId = s THEN sessions'[1] ELSE activeId
    /\ messages' = [messages EXCEPT ![s] = <<>>]
    /\ context' = [context EXCEPT ![s] = NoContext]
    /\ Change
    /\ UNCHANGED <<demo, run, asked, known, mistakes, torn, reloads>>

SidebarStep == NewChat \/ \E s \in Sessions : Select(s) \/ Delete(s)

-----------------------------------------------------------------------------
(* Asking.                                                                 *)

\* What askAgent awaits first.
FirstAwait == IF demo \/ known THEN "connecting" ELSE "identity"

\* The request carries the context of the session on screen.  The mutation does
\* not start, and is pending all the same, while the browser is offline.
Begin(q, wrong, replace) ==
    \E online \in BOOLEAN :
        run' = [phase |-> IF online THEN FirstAwait ELSE "paused",
                home |-> Shown, q |-> q, wrong |-> wrong,
                replace |-> replace, aborted |-> FALSE, heard |-> {}, reply |-> NoContext]

\* runAgent stores the question before it enters its try: if that throws, the
\* question is shown and nothing is asked.
Send(q, wrong) ==
    /\ ~Pending /\ asked < MaxAsks
    /\ messages' = Added(<<Question(q, wrong)>>)
    /\ UNCHANGED <<sessions, activeId, context>>
    /\ \E refused \in BOOLEAN :
        /\ Persist(refused)
        /\ IF refused THEN UNCHANGED run ELSE Begin(q, wrong, FALSE)
    /\ asked' = asked + 1
    /\ UNCHANGED <<demo, made, known, mistakes, torn, reloads>>

\* From the composer, the list of examples, a follow-up button or a mistake.
Ask ==
    \E q \in Typed, wrong \in BOOLEAN :
        /\ wrong => q \in {Problem(e) : e \in Examples}
        /\ Send(q, wrong)

\* The exercise bar, with the difficulty of the exercise on screen.
Adjust ==
    LET difficulty == context[Shown].level
    IN  /\ difficulty > 0
        /\ \/ difficulty > 1 /\ Send(<<"too_hard">>, FALSE)
           \/ difficulty < MaxLevel /\ Send(<<"too_easy">>, FALSE)

\* The button is there for answers, not for notes.
Regenerable(message) == message.kind = "answer"

\* The question before position i.
AskedBefore(seq, k, i) ==
    /\ k < i /\ seq[k].kind = "question"
    /\ \A j \in DOMAIN seq : k < j /\ j < i => seq[j].kind # "question"

\* Regenerates the answer at i: asks the question before it again.
Retry(i) ==
    /\ ~Pending /\ asked < MaxAsks
    /\ Regenerable(messages[Shown][i])
    /\ \E k \in DOMAIN messages[Shown] :
        /\ AskedBefore(messages[Shown], k, i)
        /\ Begin(messages[Shown][k].q, messages[Shown][k].wrong, TRUE)
    /\ asked' = asked + 1
    /\ UNCHANGED <<storeVars, demo, made, known, mistakes, torn, reloads, faults>>

RetryAny == \E i \in DOMAIN messages[Shown] : Retry(i)

-----------------------------------------------------------------------------
(* The request.                                                            *)

requestUnchanged == <<demo, made, asked, mistakes, torn, reloads>>

\* runAgent's catch and finally: a regenerated answer that fails leaves the
\* old one without a word.
Fail(note) ==
    /\ run' = Idle
    /\ IF run.replace
       THEN UNCHANGED <<storeVars, faults>>
       ELSE /\ messages' = Added(<<note>>)
            /\ UNCHANGED <<sessions, activeId, context>>
            /\ Change

\* askAgent returns the reply to runAgent.
Return(level, subject) ==
    /\ run' = [run EXCEPT !.phase = "answered", !.reply = Reply(asked, level, subject)]
    /\ UNCHANGED <<storeVars, faults>>

\* The browser is online again: only now does askAgent see an abort.
Resume ==
    /\ run.phase = "paused"
    /\ run' = [run EXCEPT !.phase = FirstAwait]
    /\ UNCHANGED <<requestUnchanged, storeVars, known, faults>>

\* browserIdentity: awaited before the request exists, and not with its signal.
IdentityAnswers ==
    /\ run.phase = "identity"
    /\ known' = TRUE
    /\ run' = [run EXCEPT !.phase = "connecting"]
    /\ UNCHANGED <<requestUnchanged, storeVars, faults>>

IdentityFails ==
    /\ run.phase = "identity"
    /\ Fail(Failed)
    /\ UNCHANGED <<requestUnchanged, known>>

Respond ==
    /\ run.phase = "connecting" /\ ~demo /\ ~run.aborted
    /\ run' = [run EXCEPT !.phase = "streaming"]
    /\ UNCHANGED <<requestUnchanged, storeVars, known, faults>>

\* The connection fails, or the status is not 2xx.
Refuse ==
    /\ run.phase = "connecting" /\ ~demo /\ ~run.aborted
    /\ Fail(Failed)
    /\ UNCHANGED <<requestUnchanged, known>>

\* The gateway relays one result or one error, then the end of the answer;
\* the end event of a failed answer says so, which counts as an error.
Relayed(event) ==
    CASE event = "result" -> run.heard = {}
      [] event = "error" -> run.heard \in {{}, {"result"}}
      [] event = "done" -> "done" \notin run.heard /\ run.heard # {}

Deliver(event) ==
    /\ run.phase = "streaming" /\ ~run.aborted
    /\ Relayed(event)
    /\ run' = [run EXCEPT !.heard = @ \cup {event}]
    /\ UNCHANGED <<requestUnchanged, storeVars, known, faults>>

\* Mutant: the end event is not awaited.
CompleteWithResult == "result" \in run.heard /\ "error" \notin run.heard

Complete == run.heard = {"result", "done"}

\* The body ends, whole or cut off.
EndOfStream ==
    /\ run.phase = "streaming" /\ ~run.aborted
    /\ IF Complete
       THEN \E level \in Levels : Return(level, NoSubject)
       ELSE Fail(Failed)
    /\ UNCHANGED <<requestUnchanged, known>>

\* The stop button, or the timer of 185 seconds; neither runs once the reply is
\* there, as no task of the page comes between that and the end of runAgent.
Abort ==
    /\ Pending /\ ~run.aborted
    /\ run.phase \notin {"answered", "storing", "failing"}
    /\ run' = [run EXCEPT !.aborted = TRUE]
    /\ UNCHANGED <<requestUnchanged, storeVars, known, faults>>

\* An aborted request is given up at its next await on the signal.
Reject ==
    /\ run.phase \in {"connecting", "streaming"} /\ run.aborted
    /\ Fail(Stopped)
    /\ UNCHANGED <<requestUnchanged, known>>

-----------------------------------------------------------------------------
(* The demonstration's answers (showcase.ts).                              *)

\* A follow-up is only understood after an answer on its problem.
Subject ==
    IF \E e \in Examples : run.q = Problem(e) \/
                           (run.q = FollowUp(e) /\ context[run.home].subject = Problem(e))
    THEN Problem(run.q[2])
    ELSE NoSubject

\* One record per problem, however often it is submitted, and with a write of
\* its own; storage that refuses it fails the answer.
DemoReply ==
    LET wrongProblem == run.wrong /\ run.q = Subject
        isNew == wrongProblem /\ run.q[2] \notin mistakes[run.home]
    IN  /\ run.phase = "connecting" /\ demo /\ ~run.aborted
        /\ \/ /\ Return(0, Subject)
              /\ mistakes' = IF isNew THEN [mistakes EXCEPT ![run.home] = @ \cup {run.q[2]}]
                             ELSE mistakes
           \/ /\ isNew /\ Refused
              /\ run' = [run EXCEPT !.phase = "failing"]
              /\ UNCHANGED <<storeVars, mistakes>>
        /\ UNCHANGED <<demo, made, asked, known, torn, reloads>>

-----------------------------------------------------------------------------
(* What runAgent does with the reply: two changes of the store, and a      *)
(* third when one of them throws.  Nothing of this page comes between      *)
(* them, but the page may die there, and storage refuse only one.          *)

storingUnchanged == <<demo, made, sessions, activeId, asked, known, mistakes, reloads>>

Tear == torn' = torn \cup {activeId}

\* If storing the answer throws, the answer is shown and the context is not
\* updated.
StoreAnswer ==
    LET answer == Answer(run.reply, run.home, demo \/ run.heard = {"result", "done"})
    IN  /\ run.phase = "answered"
        /\ messages' = IF run.replace THEN ReplacedLast(answer) ELSE Added(<<answer>>)
        /\ UNCHANGED <<context, storingUnchanged>>
        /\ \E refused \in BOOLEAN :
            /\ Persist(refused)
            /\ IF refused THEN run' = [run EXCEPT !.phase = "failing"] /\ Tear
               ELSE run' = [run EXCEPT !.phase = "storing"] /\ UNCHANGED torn

\* If this throws, the page has the new context and storage the old one.
ApplyResponse ==
    /\ run.phase = "storing"
    /\ context' = IF activeId \in Listed THEN [context EXCEPT ![activeId] = run.reply]
                  ELSE context
    /\ UNCHANGED <<messages, storingUnchanged>>
    /\ \E refused \in BOOLEAN :
        /\ Persist(refused)
        /\ IF refused THEN run' = [run EXCEPT !.phase = "failing"] /\ Tear
           ELSE run' = Idle /\ torn' = torn \ {activeId}

\* The failure note; below the answer, if that is there.
Apologise ==
    /\ run.phase = "failing"
    /\ Fail(Failed)
    /\ UNCHANGED <<requestUnchanged, known>>

-----------------------------------------------------------------------------
(* The environment.                                                        *)

\* The page is loaded again from local storage; a request in flight is lost
\* with its run.  Nothing saved: one new session.
Reload ==
    /\ reloads < MaxReloads
    /\ reloads' = reloads + 1
    /\ run' = Idle
    /\ known' = FALSE
    /\ IF run.phase = "storing" THEN Tear ELSE UNCHANGED torn
    /\ IF saved.sessions # <<>>
       THEN /\ sessions' = saved.sessions /\ activeId' = saved.activeId
            /\ messages' = saved.messages /\ context' = saved.context
            /\ UNCHANGED made
       ELSE /\ made < MaxSessions
            /\ made' = made + 1
            /\ sessions' = <<made'>> /\ activeId' = made'
            /\ messages' = [s \in Sessions |-> <<>>]
            /\ context' = [s \in Sessions |-> NoContext]
    /\ UNCHANGED <<demo, saved, asked, mistakes, faults>>

Next ==
    \/ SidebarStep
    \/ Ask \/ Adjust \/ RetryAny
    \/ Resume \/ IdentityAnswers \/ IdentityFails
    \/ Respond \/ Refuse
    \/ \E event \in {"result", "error", "done"} : Deliver(event)
    \/ EndOfStream \/ DemoReply
    \/ StoreAnswer \/ ApplyResponse \/ Apologise
    \/ Abort \/ Reject
    \/ Reload

Spec == Init /\ [][Next]_vars

\* The browser's own timers and promises: the identity request fails after 15
\* seconds, the run is aborted after 185, and an aborted fetch rejects.
\* Nothing is assumed of the gateway, but a browser does not stay offline, and
\* what runAgent does with a reply is not interrupted for ever.
IdentityEnds == IdentityAnswers \/ IdentityFails
Finish == StoreAnswer \/ ApplyResponse \/ Apologise

FairSpec ==
    /\ Spec
    /\ WF_vars(Resume) /\ WF_vars(IdentityEnds) /\ WF_vars(Abort) /\ WF_vars(Reject)
    /\ WF_vars(Finish)

-----------------------------------------------------------------------------
(* Properties.                                                             *)

Replies == [n : 0 .. MaxAsks, level : Levels, subject : {NoSubject} \cup Curated]

Messages ==
    {Question(q, wrong) : q \in {Free} \cup Bar \cup Curated, wrong \in BOOLEAN}
    \cup {Answer(reply, home, whole) :
            reply \in Replies, home \in Sessions, whole \in BOOLEAN}
    \cup {Stopped, Failed}

Runs ==
    [phase : {"idle", "paused", "identity", "connecting", "streaming", "answered", "storing",
               "failing"},
     home : 0 .. MaxSessions, q : {Free} \cup Bar \cup Curated, wrong : BOOLEAN,
     replace : BOOLEAN, aborted : BOOLEAN, heard : SUBSET {"result", "error", "done"},
     reply : Replies]

\* Every variable has its type; the list is never empty and names each created
\* session at most once, and what is kept for sessions outside it is nothing.
TypeOK ==
    /\ demo \in BOOLEAN /\ known \in BOOLEAN
    /\ made \in Sessions /\ activeId \in Sessions
    /\ sessions \in Seq(1 .. made) /\ sessions # <<>>
    /\ \A i, j \in DOMAIN sessions : sessions[i] = sessions[j] => i = j
    /\ messages \in [Sessions -> Seq(Messages)]
    /\ context \in [Sessions -> Replies]
    /\ \A s \in Sessions \ Listed : messages[s] = <<>> /\ context[s] = NoContext
    /\ saved.sessions \in Seq(1 .. made) /\ Len(saved.sessions) <= MaxSaved
    /\ run \in Runs /\ (Pending <=> run.home # 0)
    /\ asked \in 0 .. MaxAsks
    /\ mistakes \in [Sessions -> SUBSET Examples]
    /\ torn \subseteq Sessions
    /\ reloads \in 0 .. MaxReloads /\ faults \in 0 .. MaxFaults

\* Whatever is switched, retried, aborted, cut off or reloaded, an answer in a
\* session was asked with that session's identity, and its stream was whole:
\* one result, no error, and the end event (docs/API.md: a stream without the
\* end event is not a success).
OwnAnswers ==
    \A s \in Listed : \A i \in DOMAIN messages[s] :
        messages[s][i].kind = "answer" =>
            messages[s][i].home = s /\ messages[s][i].whole

LastAnswer(seq, i) ==
    /\ seq[i].kind = "answer"
    /\ \A j \in DOMAIN seq : j > i => seq[j].kind # "answer"

\* The last answer of s is stored in part: at the moment, or until the next
\* answer of s is stored.
InPart(s) == s \in torn \/ (run.phase = "storing" /\ activeId = s)

FollowsAnswer(seq, ctx, lags) ==
    /\ (\A i \in DOMAIN seq : seq[i].kind # "answer") => ctx = NoContext
    /\ \A i \in DOMAIN seq : LastAnswer(seq, i) =>
        ctx = seq[i].reply \/ (lags /\ ctx.n < seq[i].reply.n)

\* What a session sends along with its next question is the context of the
\* last answer it shows: history, summary and exercise never belong to an
\* answer that is not there.  They stay behind it, by an earlier answer, only
\* where storage refused one of the two writes of the answer or the page was
\* lost between them.
ContextFollowsAnswer ==
    \A s \in Listed : FollowsAnswer(messages[s], context[s], InPart(s))

\* The workspace is the shell the panels are written against: while a question
\* is pending the session it came from stays on screen, a second one is not
\* started, and every question is settled.
Shell == INSTANCE ChatShell WITH
    Sessions <- Sessions,
    NoSession <- 0,
    active <- Shown,
    asking <- run.home

ImplementsShell == Shell!ShellSpec
=============================================================================
