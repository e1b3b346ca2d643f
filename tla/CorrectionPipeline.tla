------------------------- MODULE CorrectionPipeline -------------------------
(***************************************************************************)
(* One run of the production pipeline math.correction: the node graph of   *)
(* pipelines/correction.yaml, the interpreter PipelineExecutor.run with    *)
(* SkillRouter.choose, and what each skill of the graph may return.        *)
(*                                                                         *)
(* The executor keeps the value of every node in an insertion-ordered dict *)
(* and merges the whole dict into the input of each skill.  No node runs   *)
(* twice (the graph is acyclic), so that dict is represented by what a     *)
(* merge of it yields: the last answer text, the last response, the last   *)
(* render contract, the last candidates.  A text is named by the node that *)
(* wrote it.                                                               *)
(***************************************************************************)
EXTENDS Naturals, Sequences

VARIABLES
  current,   \* the node the executor is about to run
  turn,      \* state["turn_router"]: intent and route, or NoTurn
  solved,    \* state["curriculum_solve"]: absent, handled or unhandled
  reply,     \* the last non-empty "response" of a CurriculumSolveOutput
  draft,     \* the last "answer" of a draft or of an envelope
  contract,  \* what _trusted_render_contract would return
  evidence,  \* whether rankings were found, and the last candidates
  expired,   \* the deadline of the request has passed
  rendered,  \* state["response_render"]: the envelope, or Nothing
  verdicts,  \* for the properties: the last judgement passed on each text
  failed     \* for the properties: the nodes whose skill had its input and
             \* yet returned no value

vars == <<current, turn, solved, reply, draft, contract, evidence, expired,
          rendered, verdicts, failed>>

Nothing == [type |-> "nothing", text |-> "nothing", passed |-> FALSE]
NoTurn == [intent |-> "unknown", route |-> "unknown"]

-----------------------------------------------------------------------------
(* The graph: next, on and branches of the nodes of correction.yaml.       *)

Follow ==
  [turn_router          |-> "input_guard",
   input_guard          |-> "turn_route",
   utility_tool         |-> "response_render",
   general_agent        |-> "response_render",
   scope_response       |-> "response_render",
   exercise_generate    |-> "response_render",
   curriculum_solve     |-> "curriculum_route",
   curriculum_tutor     |-> "response_render",
   question_parse       |-> "query_rewrite",
   query_rewrite        |-> "knowledge_classify",
   knowledge_classify   |-> "retrieval_parallel",
   retrieval_parallel   |-> "rrf_fusion",
   rrf_fusion           |-> "rerank_filter",
   no_evidence_response |-> "response_render",
   answer_generate      |-> "answer_critic",
   answer_repair        |-> "answer_repair_critic",
   targeted_fallback    |-> "response_render",
   response_render      |-> "END"]

(* Mutants: no fallback behind the judges, and a second repair.            *)
OnWithoutFallback ==
  [rerank_filter        |-> [pass |-> "answer_generate", fail |-> "web_search"],
   web_search           |-> [pass |-> "answer_generate", fail |-> "no_evidence_route"],
   answer_critic        |-> [pass |-> "response_render", fail |-> "answer_repair"],
   answer_repair_critic |-> [pass |-> "response_render", fail |-> "audit_failure_route"],
   audit_final_judge    |-> [pass |-> "response_render", fail |-> "response_render"],
   answer_final_judge   |-> [pass |-> "response_render", fail |-> "response_render"]]

OnRepairsAgain ==
  [rerank_filter        |-> [pass |-> "answer_generate", fail |-> "web_search"],
   web_search           |-> [pass |-> "answer_generate", fail |-> "no_evidence_route"],
   answer_critic        |-> [pass |-> "response_render", fail |-> "answer_repair"],
   answer_repair_critic |-> [pass |-> "response_render", fail |-> "answer_repair"],
   audit_final_judge    |-> [pass |-> "response_render", fail |-> "targeted_fallback"],
   answer_final_judge   |-> [pass |-> "response_render", fail |-> "targeted_fallback"]]

On ==
  [rerank_filter        |-> [pass |-> "answer_generate", fail |-> "web_search"],
   web_search           |-> [pass |-> "answer_generate", fail |-> "no_evidence_route"],
   answer_critic        |-> [pass |-> "response_render", fail |-> "answer_repair"],
   answer_repair_critic |-> [pass |-> "response_render", fail |-> "audit_failure_route"],
   audit_final_judge    |-> [pass |-> "response_render", fail |-> "targeted_fallback"],
   answer_final_judge   |-> [pass |-> "response_render", fail |-> "targeted_fallback"]]

Branches ==
  [turn_route |->
     [deterministic |-> "curriculum_solve", exercise_agent |-> "exercise_generate",
      rag |-> "question_parse", solve_agent |-> "answer_generate",
      audit_agent |-> "answer_generate", scope_response |-> "scope_response",
      utility_tool |-> "utility_tool", general_agent |-> "general_agent"],
   curriculum_route |->
     [deterministic |-> "curriculum_tutor", solve_agent |-> "answer_generate"],
   no_evidence_route |->
     [problem_solve |-> "answer_generate", multiple_choice |-> "answer_generate",
      error_analysis |-> "answer_generate", knowledge_query |-> "answer_generate",
      conceptual_followup |-> "answer_generate", default |-> "no_evidence_response"],
   audit_failure_route |->
     [error_analysis |-> "audit_final_judge", problem_solve |-> "answer_final_judge",
      multiple_choice |-> "answer_final_judge", default |-> "targeted_fallback"]]

SkillNodes == DOMAIN Follow \union DOMAIN On
(* The nodes whose text can become the answer, and no text at all.         *)
Texts ==
  {"utility_tool", "general_agent", "scope_response", "exercise_generate",
   "curriculum_solve", "curriculum_tutor", "no_evidence_response",
   "answer_generate", "answer_repair", "audit_final_judge", "answer_final_judge",
   "targeted_fallback", "response_render", "nothing"}
Nodes == SkillNodes \union DOMAIN Branches \union {"END"}

-----------------------------------------------------------------------------
(* The pairs turn_router returns.                                          *)
RoutedTurns ==
  {[intent |-> i, route |-> "deterministic"] :
      i \in {"solution_reveal", "problem_switch", "hint_request",
             "answer_submission", "problem_solve"}}
  \union {[intent |-> i, route |-> "rag"] :
      i \in {"multiple_choice", "conceptual_followup", "knowledge_query"}}
  \union {[intent |-> i, route |-> "exercise_agent"] :
      i \in {"new_exercise", "difficulty_adjustment"}}
  \union {[intent |-> "out_of_scope", route |-> "scope_response"],
          [intent |-> "utility_query", route |-> "utility_tool"],
          [intent |-> "general_chat", route |-> "general_agent"],
          [intent |-> "error_analysis", route |-> "audit_agent"]}

(* The intent the skills of the answer path are given: the routed one, or  *)
(* the coarser one of question_parse when the turn router failed.          *)
Intents == IF turn = NoTurn THEN {"solve", "knowledge_query", "error_analysis"}
                            ELSE {turn.intent}

(* SkillRouter.choose: the first of these keys that is a branch.           *)
RouterKeys ==
  (CASE solved = "handled"   -> <<"deterministic">>
     [] solved = "unhandled" -> <<"solve_agent", "rag">>
     [] OTHER                -> <<>>)
  \o (IF turn = NoTurn THEN <<>> ELSE <<turn.route, turn.intent>>)
  \o <<"rag", "default">>

Choose(branches) ==
  LET hit(k) == RouterKeys[k] \in DOMAIN branches
      first == CHOOSE k \in DOMAIN RouterKeys :
                 hit(k) /\ \A j \in 1..(k - 1) : ~hit(j)
  IN branches[RouterKeys[first]]

-----------------------------------------------------------------------------
CheckedTypes == {"verified_answer", "guided_exercise"}

(* What build_fast_response can give: a checked answer, a guided exercise  *)
(* or a request for what is missing.                                       *)
Replies(n) == {[type |-> t, text |-> n, passed |-> TRUE] :
                 t \in CheckedTypes \union {"clarification_required"}}

(* merged["answer"]: the last answer of any node, over which the last      *)
(* response of a CurriculumSolveOutput is merged.                          *)
Answer == IF reply # Nothing THEN reply.text ELSE draft

Judge(text, ok) == [verdicts EXCEPT ![text] = IF ok THEN "passed" ELSE "rejected"]

Init ==
  /\ current = "turn_router" /\ turn = NoTurn /\ solved = "absent"
  /\ reply = Nothing /\ draft = "nothing" /\ contract = Nothing
  /\ evidence = [rankings |-> FALSE, contexts |-> "absent"]
  /\ expired = FALSE /\ rendered = Nothing
  /\ verdicts = [t \in Texts |-> "none"]
  /\ failed = {}

(* The merged state has the fields the input model of n requires.          *)
InputValid(n) ==
  CASE n = "curriculum_tutor" -> reply # Nothing
    [] n = "rerank_filter"    -> evidence.contexts # "absent"
    [] n = "response_render"  -> Answer # "nothing" /\ contract # Nothing
    [] n \in {"answer_critic", "answer_repair", "answer_repair_critic", "audit_final_judge",
              "answer_final_judge", "targeted_fallback"} -> Answer # "nothing"
    [] OTHER -> TRUE

(* The skill of node n gives a value, and the executor takes the branch.   *)
Return(n, branch) ==
  /\ current = n /\ ~expired /\ InputValid(n)
  /\ current' = IF n \in DOMAIN On THEN On[n][branch] ELSE Follow[n]
  /\ UNCHANGED <<expired, failed>>

(* A skill that fails, for want of its input or for another reason (the    *)
(* deadline, an error, a timeout, no slot), leaves None in the state and   *)
(* the run goes on.                                                        *)
Fail(n) ==
  /\ current = n
  /\ current' = IF n \in DOMAIN On THEN On[n].fail ELSE Follow[n]
  /\ failed' = IF InputValid(n) THEN failed \union {n} ELSE failed
  /\ UNCHANGED <<turn, solved, reply, draft, contract, evidence, expired,
                 rendered, verdicts>>

(* The request's deadline passes; every later skill is refused.            *)
Expire ==
  /\ current # "END" /\ ~expired
  /\ expired' = TRUE
  /\ UNCHANGED <<current, turn, solved, reply, draft, contract, evidence,
                 rendered, verdicts, failed>>

Route ==
  /\ current \in DOMAIN Branches
  /\ current' = Choose(Branches[current])
  /\ UNCHANGED <<turn, solved, reply, draft, contract, evidence, expired,
                 rendered, verdicts, failed>>

-----------------------------------------------------------------------------
(* The skills.                                                             *)

TurnRouter ==
  /\ Return("turn_router", "pass")
  /\ turn' \in RoutedTurns
  /\ UNCHANGED <<solved, reply, draft, contract, evidence, rendered, verdicts>>

(* Skills whose output steers nothing here: the guard's verdict is taken   *)
(* again by the turn router, the rest only words the retrieval query.      *)
Prepare ==
  /\ \E n \in {"input_guard", "question_parse", "query_rewrite", "knowledge_classify"} :
       Return(n, "pass")
  /\ UNCHANGED <<turn, solved, reply, draft, contract, evidence, rendered, verdicts>>

(* A CurriculumSolveOutput whose response is r, or that has none.          *)
Respond(n, r) ==
  /\ Return(n, "pass")
  /\ IF r = Nothing
     THEN UNCHANGED <<reply, contract, verdicts>>
     ELSE /\ reply' = r /\ contract' = r
          /\ verdicts' = IF r.type \in CheckedTypes THEN Judge(r.text, TRUE) ELSE verdicts
  /\ UNCHANGED <<turn, draft, evidence, rendered>>

(* handled, and so the branch taken next, depends on the intent: a problem *)
(* to solve counts as handled only by a checked reply.                     *)
CurriculumSolve ==
  \E r \in Replies("curriculum_solve") \union {Nothing} :
    /\ Respond("curriculum_solve", r)
    /\ solved' = IF r # Nothing /\ (r.type \in CheckedTypes \/ turn.intent # "problem_solve")
                 THEN "handled" ELSE "unhandled"

(* The reply of the solver, or one reworded and checked by the tutor agent.*)
CurriculumTutor ==
  /\ \E text \in {reply.text, "curriculum_tutor"} :
       Respond("curriculum_tutor", [reply EXCEPT !.text = text])
  /\ UNCHANGED solved

ExerciseGenerate ==
  /\ \E r \in Replies("exercise_generate") \union {Nothing} : Respond("exercise_generate", r)
  /\ UNCHANGED solved

DirectReply ==
  /\ \E n \in {"utility_tool", "general_agent", "scope_response", "no_evidence_response"} :
       Respond(n, [type |-> CASE n = "scope_response"       -> "supported_refusal"
                              [] n = "no_evidence_response" -> "clarification_required"
                              [] OTHER                      -> "general_answer",
                   text |-> n, passed |-> TRUE])
  /\ UNCHANGED solved

(* A RetrievalOutput with or without candidates; on a node with branches   *)
(* an empty one counts as a failure.                                       *)
Candidates(n, found) ==
  /\ Return(n, IF found THEN "pass" ELSE "fail")
  /\ evidence' = [evidence EXCEPT !.contexts = IF found THEN "some" ELSE "empty"]
  /\ UNCHANGED <<turn, solved, reply, draft, contract, rendered, verdicts>>

RetrievalParallel ==
  /\ Return("retrieval_parallel", "pass")
  /\ \E found \in BOOLEAN : evidence' = [evidence EXCEPT !.rankings = found]
  /\ UNCHANGED <<turn, solved, reply, draft, contract, rendered, verdicts>>

RrfFusion == Candidates("rrf_fusion", evidence.rankings)

(* Reranking may reject all the candidates.                                *)
RerankFilter ==
  \E found \in {FALSE, evidence.contexts = "some"} : Candidates("rerank_filter", found)

TavilySearch == \E found \in BOOLEAN : Candidates("web_search", found)

(* An AnswerDraftOutput: no response and no contract of its own.           *)
Draft(n, text) ==
  /\ Return(n, "pass")
  /\ draft' = text
  /\ UNCHANGED <<turn, solved, reply, contract, evidence, rendered, verdicts>>

AnswerGenerate == Draft("answer_generate", "answer_generate")

(* Mutant: a failing repair returns an empty text.                         *)
RepairLosesText ==
  /\ \E text \in {"answer_repair", ""} : Draft("answer_repair", text)

(* One repair; when its model fails the text it was given comes back.      *)
AnswerRepair ==
  /\ \E text \in {"answer_repair", Answer} : Draft("answer_repair", text)

(* Mutant: the render takes the first contract of the run, not the last.   *)
CriticKeepsContract ==
  /\ \E n \in {"answer_critic", "answer_repair_critic"}, ok \in BOOLEAN :
       /\ Return(n, IF ok THEN "pass" ELSE "fail")
       /\ contract' = IF contract # Nothing THEN contract ELSE
                       [type |-> IF ok THEN "verified_answer" ELSE "clarification_required",
                        text |-> "nothing", passed |-> ok]
       /\ verdicts' = Judge(Answer, ok)
  /\ UNCHANGED <<turn, solved, reply, draft, evidence, rendered>>

AnswerCritic ==
  /\ \E n \in {"answer_critic", "answer_repair_critic"}, ok \in BOOLEAN :
       /\ Return(n, IF ok THEN "pass" ELSE "fail")
       /\ contract' = [type |-> IF ok THEN "verified_answer" ELSE "clarification_required",
                       text |-> "nothing", passed |-> ok]
       /\ verdicts' = Judge(Answer, ok)
  /\ UNCHANGED <<turn, solved, reply, draft, evidence, rendered>>

(* Mutant: a judge's verdict is published on the answer it was asked about.*)
EnvelopeKeepsAnswer(n, type, ok) ==
  /\ Return(n, "pass")
  /\ contract' = [type |-> type, text |-> n, passed |-> ok]
  /\ verdicts' = IF type \in CheckedTypes THEN Judge(n, TRUE) ELSE verdicts
  /\ UNCHANGED <<turn, solved, reply, draft, evidence, rendered>>

(* An AnswerEnvelope: its answer and its contract.                         *)
Envelope(n, type, ok) ==
  /\ Return(n, "pass")
  /\ draft' = n
  /\ contract' = [type |-> type, text |-> n, passed |-> ok]
  /\ verdicts' = IF type \in CheckedTypes THEN Judge(n, TRUE) ELSE verdicts
  /\ UNCHANGED <<turn, solved, reply, evidence, rendered>>

AuditFinalJudge == Envelope("audit_final_judge", "verified_answer", TRUE)

(* A judgement that the problem is incomplete asks for what is missing.    *)
AnswerFinalJudge ==
  \E type \in {"verified_answer", "clarification_required"} :
    Envelope("answer_final_judge", type, TRUE)

(* A retrieved excerpt is shown unverified; anything else asks for more.   *)
TargetedFallback ==
  \E i \in Intents :
    LET excerpt == evidence.contexts = "some"
                   /\ i \in {"knowledge_query", "conceptual_followup"}
    IN Envelope("targeted_fallback",
                IF excerpt THEN "general_answer" ELSE "clarification_required", ~excerpt)

(* Mutant: whatever is in the state is rendered under its contract.        *)
RenderAsIs ==
  /\ Return("response_render", "pass")
  /\ rendered' = [type |-> contract.type, text |-> Answer, passed |-> contract.passed]
  /\ UNCHANGED <<turn, solved, reply, draft, contract, evidence, verdicts>>

(* The merged answer under the trusted contract; without validation only   *)
(* the excerpt of targeted_fallback passes, all else becomes a fixed text. *)
ResponseRender ==
  /\ Return("response_render", "pass")
  /\ rendered' = IF \/ contract.passed
                    \/ contract.type = "general_answer" /\ Answer = "targeted_fallback"
                 THEN [type |-> contract.type, text |-> Answer, passed |-> contract.passed]
                 ELSE [type |-> "clarification_required", text |-> "response_render",
                       passed |-> FALSE]
  /\ UNCHANGED <<turn, solved, reply, draft, contract, evidence, verdicts>>

Skill ==
  \/ TurnRouter \/ Prepare \/ CurriculumSolve \/ CurriculumTutor \/ ExerciseGenerate
  \/ DirectReply \/ RetrievalParallel \/ RrfFusion \/ RerankFilter \/ TavilySearch
  \/ AnswerGenerate \/ AnswerCritic \/ AnswerRepair \/ AuditFinalJudge
  \/ AnswerFinalJudge \/ TargetedFallback \/ ResponseRender

Step == Route \/ Skill \/ (\E n \in SkillNodes : Fail(n))

Finished == current = "END" /\ UNCHANGED vars

Next == Step \/ Expire \/ Finished

Spec == Init /\ [][Next]_vars

(* Every call of a skill returns: the executor waits for a handler no      *)
(* longer than the timeout of its manifest, and the pipeline loop goes on. *)
FairSpec == Spec /\ WF_vars(Step)

-----------------------------------------------------------------------------
(* The state holds node names, turns, replies, contracts and verdicts of   *)
(* the kinds the skills' output models allow.                              *)
Types == CheckedTypes \union {"clarification_required", "supported_refusal",
                              "general_answer", "nothing"}
Responses == [type : Types, text : Texts, passed : BOOLEAN]

TypeOK ==
  /\ current \in Nodes
  /\ turn \in RoutedTurns \union {NoTurn}
  /\ solved \in {"absent", "handled", "unhandled"}
  /\ reply \in Responses /\ draft \in Texts /\ contract \in Responses
  /\ evidence \in [rankings : BOOLEAN, contexts : {"absent", "empty", "some"}]
  /\ expired \in BOOLEAN /\ rendered \in Responses
  /\ verdicts \in [Texts -> {"none", "passed", "rejected"}]
  /\ failed \subseteq SkillNodes

(* curriculum_solve left a reply it does not count as handled: the later   *)
(* skills then see that reply as "the answer", whatever they write.        *)
LeftoverReply == solved = "unhandled" /\ reply # Nothing

(* What is published as verified or as a guided exercise is the very text  *)
(* on which a critic, a judge or the solver last gave a passing verdict.   *)
(* answer_generate, repair, critics and judges each write or judge a part; *)
(* the render joins the last answer with the last contract.                *)
PublishedIsChecked ==
  rendered.type \in CheckedTypes => verdicts[rendered.text] = "passed"

(* The same, whenever the solver left no unhandled reply behind.           *)
VerifiedIsChecked == ~LeftoverReply => PublishedIsChecked

(* A text of the model, first draft or repair, is published under no       *)
(* response type at all unless a critic passed that text: not as a         *)
(* clarification after a rejection, nor because critics, judges or the     *)
(* fallback failed.  (Deltas streamed while the draft is generated are not *)
(* responses; the client replaces them by the published answer.)           *)
DraftNeedsVerdict ==
  rendered.text \in {"answer_generate", "answer_repair"} =>
    rendered.type = "verified_answer" /\ verdicts[rendered.text] = "passed"

(* A passing verdict is never lost: once some text was passed, a response  *)
(* that is rendered is a checked one, so an older rejection kept in the    *)
(* state cannot downgrade a repaired or judged answer.                     *)
VerdictIsPublished ==
  rendered # Nothing /\ (\E t \in Texts : verdicts[t] = "passed") =>
    rendered.type \in CheckedTypes

(* The skills whose failure the graph is built to survive.                 *)
Tolerated ==
  {"turn_router", "input_guard", "question_parse", "query_rewrite",
   "knowledge_classify", "retrieval_parallel", "rrf_fusion", "rerank_filter",
   "web_search", "curriculum_tutor", "answer_critic", "answer_repair",
   "answer_repair_critic", "audit_final_judge", "answer_final_judge"}

(* Whichever of the tolerated skills fail, together, in one run, the run   *)
(* still renders a response: the branches for failure lead to a skill that *)
(* can answer with the state that is left.  (exercise_generate may find    *)
(* nothing to say; such a run has no response.)                            *)
SurvivesFailures ==
  current = "END" /\ failed \subseteq Tolerated =>
    rendered # Nothing \/ turn.route = "exercise_agent"

(* Every run comes to its end, whatever fails or times out on the way.     *)
Terminates == <>(current = "END")

=============================================================================
